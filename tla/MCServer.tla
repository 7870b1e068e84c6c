------------------------------ MODULE MCServer ------------------------------
(***************************************************************************)
(* Instances of Server for TLC: two or three clients and one tool chain.   *)
(***************************************************************************)
EXTENDS Server, TLC

CONSTANT cl

OneToolChain == [j \in Jobs |-> cl]

Interchangeable == Permutations(Jobs) \cup Permutations(Clients)
                       \cup Permutations(Files) \cup Permutations(WorkerThreads)
=============================================================================
