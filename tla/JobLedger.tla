------------------------------ MODULE JobLedger ------------------------------
(***************************************************************************)
(* What the job queue of FASTBuild promises the build graph, whatever the  *)
(* number of threads and machines that work on a job: a job handed to it   *)
(* is concluded at most once, with one result, and a result once published *)
(* is neither withdrawn nor replaced.  DistributedJobs implements this.    *)
(***************************************************************************)
CONSTANT Jobs

VARIABLE ledger    \* job -> how far the job is, as the graph can tell

Published == {"eOk", "eFailed", "eAborted"}
Concluded == {"UP_TO_DATE", "FAILED", "dropped"}
Entries   == {"idle", "pending"} \cup Published \cup Concluded

LedgerTypeOK == ledger \in [Jobs -> Entries]

Init == ledger = [j \in Jobs |-> "idle"]

MoveAll(S, from, to) ==
    /\ \A j \in S : ledger[j] = from
    /\ ledger' = [j \in Jobs |-> IF j \in S THEN to ELSE ledger[j]]

\* A build pass hands a batch of nodes to the queue, and gives up the nodes
\* that depend on a failed one.
BuildPass(S, F) ==
    /\ \A j \in S \cup F : ledger[j] = "idle"
    /\ ledger' = [j \in Jobs |-> IF j \in S THEN "pending"
                               ELSE IF j \in F THEN "FAILED" ELSE ledger[j]]

\* Whoever ends up owning a pending job publishes its result.
Publish(j, r) ==
    /\ r \in Published
    /\ MoveAll({j}, "pending", r)

\* The main thread turns a published result into the node's final state.  A
\* job that built may still fail to finalize; an aborted one says nothing.
Conclude(j) ==
    \/ \E s \in {"UP_TO_DATE", "FAILED"} : MoveAll({j}, "eOk", s)
    \/ MoveAll({j}, "eFailed", "FAILED")
    \/ MoveAll({j}, "eAborted", "dropped")

\* Tearing the queue down drops the jobs nobody worked on.
Discard(S) == MoveAll(S, "pending", "dropped")

Next ==
    \/ \E S, F \in SUBSET Jobs : BuildPass(S, F)
    \/ \E S \in SUBSET Jobs : Discard(S)
    \/ \E j \in Jobs, r \in Published : Publish(j, r)
    \/ \E j \in Jobs : Conclude(j)

Spec == Init /\ [][Next]_ledger
=============================================================================
