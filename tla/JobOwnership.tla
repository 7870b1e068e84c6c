---------------------------- MODULE JobOwnership ----------------------------
(***************************************************************************)
(* Who may touch a job, and when: the inductive invariant behind the safety*)
(* properties of DistributedJobs.  A Job object is passed around without a *)
(* reference count; what keeps its users apart is the distribution state   *)
(* of the job together with the place it is held in.  The invariant says   *)
(* which combinations of the two exist.                                    *)
(***************************************************************************)
EXTENDS DistributedJobs

\* In progress, and its local side has a result or will have one.
LocalStates == {"BUILDING_LOCALLY", "RACING", "RACE_WON_REMOTELY_CANCEL_LOCAL"}

\* In progress, and a remote worker has it.
RemoteStates == {"BUILDING_REMOTELY", "RACING", "RACE_WON_LOCALLY"}

\* A connection has the result that counts, or handed it over.
RemoteResultStates == {"COMPLETED_REMOTELY", "RACE_WON_REMOTELY"}

\* What a job that was cancelled for a connection may turn into while the
\* connection waits.
WaitedForStates == {"RACE_WON_REMOTELY_CANCEL_LOCAL", "RACE_WON_REMOTELY",
                    "COMPLETED_LOCALLY", "RACE_WON_LOCALLY"}

Building(t) == tpc[t] \in {"compile", "raceCompile", "finish"}
Waiting(c)  == cpc[c] = "awaitCancel"
HasJob(c)   == cpc[c] = "handing" \/ Waiting(c) \/ Owning(c)

Holds(c, j) == j \in sent[c] \/ (HasJob(c) /\ cjob[c] = j)

\* The jobs that have a result on its way to the graph.
Published ==
    {j \in Jobs : \/ main = "dispose" /\ mainJob = j
                 \/ \E r \in Results : j \in completed[r] \/ j \in reaped[r]}

----------------------------------------------------------------------------
(* The parts of the invariant                                               *)

\* Whoever is at a point of the code that uses a job has one.
JobsAtHand ==
    /\ \A t \in Threads : Busy(t) => tjob[t] \in Jobs
    /\ \A c \in Conns : HasJob(c) => cjob[c] \in Jobs
    /\ main = "dispose" => mainJob \in Jobs
    /\ main # "dispose" => mainJob = None

\* A job has one thread, one connection and one place among the results.
OneThreadPerJob ==
    \A t, u \in Threads : t # u /\ Busy(t) /\ Busy(u) => tjob[t] # tjob[u]

OneConnPerJob ==
    /\ \A c, d \in Conns, j \in Jobs : Holds(c, j) /\ Holds(d, j) => c = d
    /\ \A c \in Conns : HasJob(c) => cjob[c] \notin sent[c]

OnePublication ==
    /\ \A r, s \in Results, j \in Jobs :
         /\ j \in completed[r] /\ j \in completed[s] => r = s
         /\ j \in reaped[r] /\ j \in reaped[s] => r = s
         /\ ~(j \in completed[r] /\ j \in reaped[s])
    /\ main = "dispose" =>
         \A r \in Results : mainJob \notin completed[r] /\ mainJob \notin reaped[r]
    /\ main \notin {"finalize", "dispose"} => reaped = NoJobs

\* A job waits in at most one queue, in the state for it, and nobody has it yet.
QueuedJobs ==
    /\ \A j \in localQueue :
         /\ dist[j] = "NONE" /\ j \notin Published
         /\ \A t \in Threads : Busy(t) => tjob[t] # j
    /\ \A j \in available : dist[j] = "AVAILABLE"
    /\ \A j \in inProgress : dist[j] \notin {"NONE", "AVAILABLE", "COMPLETED_LOCALLY"}

\* A thread's job is in a local state, and its result not yet published.
ThreadJobs ==
    \A t \in Threads :
        /\ Busy(t) => tjob[t] \notin Published
        /\ tpc[t] = "pass1" => dist[tjob[t]] = "NONE"
        /\ Building(t) => dist[tjob[t]] \in LocalStates /\ tjob[t] \in inProgress
        /\ tpc[t] = "append" =>
             \/ dist[tjob[t]] \in LocalStates /\ tjob[t] \in inProgress
             \/ dist[tjob[t]] \in {"NONE", "COMPLETED_LOCALLY"}

\* A job at a remote worker is in progress, in a state that says so.
RemoteJobs ==
    \A c \in Conns :
        /\ \A j \in sent[c] : dist[j] \in RemoteStates /\ j \in inProgress
        /\ cpc[c] = "handing" => dist[cjob[c]] \in RemoteStates /\ cjob[c] \in inProgress

\* A connection that waits for a cancellation did not get a system error, and
\* once the remote side won nobody else has the job.
AwaitedJobs ==
    \A c \in Conns : Waiting(c) =>
        /\ dist[cjob[c]] \in WaitedForStates
        /\ cres[c] # "systemError"
        /\ dist[cjob[c]] = "RACE_WON_REMOTELY" => cjob[c] \notin Published

\* A connection that owns a job is the only one to have it.
OwnedJobs ==
    \A c \in Conns : Owning(c) =>
        /\ dist[cjob[c]] \in RemoteResultStates
        /\ cjob[c] \notin Published
        /\ (cpc[c] = "append") <=> (cjob[c] \notin inProgress)
        /\ cpc[c] \in {"finish", "append"} \/ dist[cjob[c]] = "RACE_WON_REMOTELY"
             => cres[c] # "systemError"

\* A published job is still in progress exactly while its race is undecided.
PublishedJobs ==
    \A j \in Published :
        \/ dist[j] \in LocalStates /\ j \in inProgress
        \/ dist[j] \in {"NONE", "COMPLETED_LOCALLY"} \cup RemoteResultStates
             /\ j \notin inProgress

\* A job that was not flushed yet has no Job object and was never worked on.
FreshJobs ==
    \A j \in Jobs : nodeState[j] = "DYNAMIC_DEPS" \/ j \in staging =>
        /\ dist[j] = "NONE" /\ j \notin live
        /\ j \in staging => nodeState[j] = "BUILDING"

\* What uses a Job object uses one that exists.
UsedJobsAreLive ==
    /\ localQueue \cup available \cup inProgress \subseteq live
    /\ \A t \in Threads : Busy(t) => tjob[t] \in live
    /\ \A c \in Conns : sent[c] \subseteq live /\ (HasJob(c) /\ ~Waiting(c) => cjob[c] \in live)
    /\ Published \subseteq live

\* The node is being built until the main thread finalizes its job.
UsedJobsAreBuilding ==
    /\ \A j \in localQueue \cup available : nodeState[j] = "BUILDING"
    /\ \A j \in inProgress :
         dist[j] # "RACE_WON_LOCALLY" /\ mainJob # j => nodeState[j] = "BUILDING"
    /\ \A t \in Threads : Busy(t) => nodeState[tjob[t]] = "BUILDING"
    /\ \A c \in Conns : Owning(c) => nodeState[cjob[c]] = "BUILDING"
    /\ \A j \in Published : mainJob # j => nodeState[j] = "BUILDING"

\* A race that a remote worker won was told to stop.
CancelledJobsAreAborted ==
    \A j \in Jobs : dist[j] = "RACE_WON_REMOTELY_CANCEL_LOCAL" => j \in aborted

\* Every job is, at any time, held by those its distribution state admits and by
\* nobody else: JobQueue's locking protects a critical section, this protects the
\* job between two of them.
Ownership ==
    /\ JobsAtHand /\ OneThreadPerJob /\ OneConnPerJob /\ OnePublication
    /\ QueuedJobs /\ ThreadJobs /\ RemoteJobs /\ AwaitedJobs /\ OwnedJobs
    /\ PublishedJobs /\ FreshJobs /\ UsedJobsAreLive /\ UsedJobsAreBuilding
    /\ CancelledJobsAreAborted

----------------------------------------------------------------------------
(* System errors                                                            *)

\* A worker that returned a job with a system error is deny listed, so it does
\* not have that job again.
Blame ==
    /\ \A j \in Jobs : blamed[j] \subseteq denyListed
    /\ \A c \in Conns, j \in Jobs :
         j \in sent[c] \/ (cpc[c] = "handing" /\ cjob[c] = j) => c \notin blamed[j]
    /\ ErrorsOfDifferentWorkers

----------------------------------------------------------------------------
(* Builds without races, and their end                                      *)

RaceStates == {"RACING", "RACE_WON_LOCALLY", "RACE_WON_REMOTELY_CANCEL_LOCAL",
               "RACE_WON_REMOTELY"}

\* No job is ever raced for, and one with a result is no longer in progress.
NoRaces ==
    /\ \A j \in Jobs : dist[j] \notin RaceStates
    /\ \A c \in Conns : ~Waiting(c)
    /\ \A t \in Threads : tpc[t] = "append" => dist[tjob[t]] # "BUILDING_LOCALLY"
    /\ \A j \in Published : dist[j] # "BUILDING_LOCALLY"

Held(j) ==
    \/ j \in localQueue \cup available \cup Published
    \/ \E t \in Threads : Busy(t) /\ tjob[t] = j
    \/ \E c \in Conns : Holds(c, j)

\* A Job object that exists is in the hands of somebody: none is lost on the way.
NoJobIsLost == \A j \in live : Held(j)

\* In what order the parts of the queue stop: the connections, the threads, and
\* last the main thread, once it has seen all results.
StopsInOrder ==
    /\ \A c \in Conns : cpc[c] = "down" => sent[c] = {}
    /\ phase # "building" => \A c \in Conns : cpc[c] = "down"
    /\ phase = "draining" => HaveWorkersStopped
    /\ phase = "draining" => main \notin {"pass", "closing"}
    /\ phase = "draining" /\ main # "loop" => completed = NoJobs
    /\ main \in {"destroy", "done"} => phase = "draining"
    /\ main = "done" => live = {}

\* Without races, each job is in somebody's hands until the last result was seen.
NoRaceInv == NoRaces /\ NoJobIsLost /\ StopsInOrder
=============================================================================
