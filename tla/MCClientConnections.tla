------------------------ MODULE MCClientConnections ------------------------
(***************************************************************************)
(* Instances of ClientConnections for TLC: one or two workers.             *)
(***************************************************************************)
EXTENDS ClientConnections, TLC
=============================================================================
