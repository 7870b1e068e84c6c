--------------------------- MODULE JobQueueRemote ---------------------------
(***************************************************************************)
(* The jobs on a worker machine: JobQueueRemote and its threads            *)
(* (WorkerThreadRemote).  The connection threads of the Server queue jobs  *)
(* and cancel those of a client that leaves, the worker threads build      *)
(* them, the thread of the Server takes the completed ones.                *)
(*                                                                         *)
(* Every list has a mutex of its own, and a step is one critical section.  *)
(* A worker thread moves a job from m_InFlightJobs to a completed list in  *)
(* two of them, and CancelJobsWithUserData looks at the lists one after    *)
(* the other.  The order within a list is abstracted, and so are the       *)
(* semaphores: every wait on them has a timeout.                           *)
(***************************************************************************)
EXTENDS Integers, FiniteSets

CONSTANTS Jobs,          \* the jobs clients may send
          Clients,       \* ClientState objects, one for each connection
          WorkerThreads, \* the threads that build
          None           \* no job, and no client

ASSUME QueueAssumption ==
    /\ IsFiniteSet(Jobs) /\ IsFiniteSet(Clients)
    /\ None \notin Jobs /\ None \notin Clients

VARIABLES live,      \* jobs whose Job object exists
          userData,  \* job -> Job::m_UserData, the client it was made for
          pending,   \* m_PendingJobs
          inFlight,  \* m_InFlightJobs
          done,      \* result -> m_CompletedJobs, m_CompletedJobsFailed
          wpc, wjob, wres \* worker thread: where it is, its job, the result

workerVars == <<wpc, wjob, wres>>
queueVars  == <<live, userData, pending, inFlight, done, workerVars>>

\* A worker's job has no second pass, and is only aborted when the worker ends.
Results == {"eOk", "eFailed"}

QueueTypeOK ==
    /\ live \subseteq Jobs
    /\ userData \in [Jobs -> Clients \cup {None}]
    /\ pending \subseteq Jobs /\ inFlight \subseteq Jobs
    /\ done \in [Results -> SUBSET Jobs]
    /\ wpc \in [WorkerThreads -> {"idle", "building", "append"}]
    /\ wjob \in [WorkerThreads -> Jobs \cup {None}]
    /\ wres \in [WorkerThreads -> Results]

QueueInit ==
    /\ live = {} /\ userData = [j \in Jobs |-> None]
    /\ pending = {} /\ inFlight = {} /\ done = [r \in Results |-> {}]
    /\ wpc = [w \in WorkerThreads |-> "idle"]
    /\ wjob = [w \in WorkerThreads |-> None]
    /\ wres = [w \in WorkerThreads |-> "eOk"]

JobsOf(c) == {j \in Jobs : userData[j] = c}

----------------------------------------------------------------------------
(* The worker threads                                                       *)

\* Both mutexes are held while the job changes lists.
GetJobToProcess(w) ==
    /\ wpc[w] = "idle"
    /\ \E j \in pending :
        /\ pending' = pending \ {j}
        /\ inFlight' = inFlight \cup {j}
        /\ wjob' = [wjob EXCEPT ![w] = j]
    /\ wpc' = [wpc EXCEPT ![w] = "building"]
    /\ UNCHANGED <<live, userData, done, wres>>

\* What FinishedProcessingJob does with a job that was cancelled in flight.
\* Its user data is read without a lock, but nobody writes it any more once
\* the job is out of m_InFlightJobs.
Unhooked(j) == userData[j] = None

\* DoBuild ended with some result, and FinishedProcessingJob takes the job out
\* of m_InFlightJobs.
FinishedProcessingJob(w) ==
    /\ wpc[w] = "building"
    /\ inFlight' = inFlight \ {wjob[w]}
    /\ \/ /\ Unhooked(wjob[w])
          /\ live' = live \ {wjob[w]}
          /\ wpc' = [wpc EXCEPT ![w] = "idle"]
          /\ wjob' = [wjob EXCEPT ![w] = None]
          /\ UNCHANGED wres
       \/ /\ ~Unhooked(wjob[w])
          /\ wpc' = [wpc EXCEPT ![w] = "append"]
          /\ \E r \in Results : wres' = [wres EXCEPT ![w] = r]
          /\ UNCHANGED <<live, wjob>>
    /\ UNCHANGED <<userData, pending, done>>

AppendCompletedJob(w) ==
    /\ wpc[w] = "append"
    /\ done' = [done EXCEPT ![wres[w]] = @ \cup {wjob[w]}]
    /\ wpc' = [wpc EXCEPT ![w] = "idle"]
    /\ wjob' = [wjob EXCEPT ![w] = None]
    /\ UNCHANGED <<live, userData, pending, inFlight, wres>>

WorkerStep(w) ==
    \/ GetJobToProcess(w)
    \/ FinishedProcessingJob(w)
    \/ AppendCompletedJob(w)

----------------------------------------------------------------------------
(* What the threads of the Server call                                      *)

\* Waiting jobs that may start, or one that need not wait.
QueueJobs(S) == pending' = pending \cup S

NoneCompleted == \A r \in Results : done[r] = {}

\* Mutant: the job stays in the list.
PeekCompletedJob(j, r) ==
    /\ j \in done[r]
    /\ UNCHANGED done

\* Failed jobs are only taken when there is none that succeeded.
GetCompletedJob(j, r) ==
    /\ j \in done[r]
    /\ r = "eFailed" => done["eOk"] = {}
    /\ done' = [done EXCEPT ![r] = @ \ {j}]

\* Mutant: jobs in flight are deleted with the queued ones.
CancelPendingAndInFlight(c) ==
    /\ live' = live \ ((pending \cup inFlight) \cap JobsOf(c))
    /\ pending' = pending \ JobsOf(c)
    /\ UNCHANGED <<userData, inFlight, done, workerVars>>

\* CancelJobsWithUserData, first: the queued jobs are deleted.
CancelPending(c) ==
    /\ live' = live \ (pending \cap JobsOf(c))
    /\ pending' = pending \ JobsOf(c)
    /\ UNCHANGED <<userData, inFlight, done, workerVars>>

\* Then the completed ones, but only those that succeeded.
CancelCompleted(c) ==
    /\ live' = live \ (done["eOk"] \cap JobsOf(c))
    /\ done' = [done EXCEPT !["eOk"] = @ \ JobsOf(c)]
    /\ UNCHANGED <<userData, pending, inFlight, workerVars>>

\* And last, the jobs in flight are unhooked: they end on their own.
UnhookInFlight(c) ==
    /\ userData' = [j \in Jobs |-> IF j \in inFlight \cap JobsOf(c) THEN None
                                   ELSE userData[j]]
    /\ UNCHANGED <<live, pending, inFlight, done, workerVars>>

=============================================================================
