------------------------- MODULE MCDistributedJobs -------------------------
(***************************************************************************)
(* Instances of DistributedJobs for TLC: two jobs, one or two threads and  *)
(* one or two remote workers, in one concurrency group.                    *)
(***************************************************************************)
EXTENDS JobOwnership, TLC

CONSTANTS j1, j2, t1, t2, w1, w2, g

Independent == [j \in Jobs |-> {}]
j2AfterJ1 == [j \in Jobs |-> IF j = j2 THEN {j1} ELSE {}]

OneGroup == [j \in Jobs |-> g]
Unlimited == [x \in {g} |-> 10]
LimitOne == [x \in {g} |-> 1]

AllCanBuild == [c \in Conns |-> Jobs]
OneOldWorker == [c \in Conns |-> IF c = w1 THEN {j1} ELSE Jobs]

ThreadsAndWorkers == Permutations(Threads) \cup Permutations(Conns)
JobsThreadsAndWorkers == Permutations(Jobs) \cup ThreadsAndWorkers
=============================================================================
