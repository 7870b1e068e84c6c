--------------------------- MODULE DistributedJobs ---------------------------
(***************************************************************************)
(* The life of a distributable job on the machine that runs the build:     *)
(* JobQueue, its WorkerThreads, the connections to remote workers (Client, *)
(* ClientToWorkerConnection) and the main loop of FBuild::Build.           *)
(*                                                                         *)
(* A step is one critical section (of m_DistributedJobsMutex,              *)
(* m_CompletedJobsMutex or the lock of the local queue) with the private   *)
(* work of its thread around it.  The assertions of the code are not       *)
(* guards: a release build goes on, so does the model, and the properties  *)
(* say which of them hold.                                                 *)
(*                                                                         *)
(* What is abstracted: the arrays are sets (which of the candidates a      *)
(* thread takes first is a matter of speed), the semaphores are left out   *)
(* (each Wait on them has a timeout, so a thread may always look), and a   *)
(* build step is the result it ends with.                                  *)
(***************************************************************************)
EXTENDS Integers, FiniteSets

CONSTANTS
    Jobs,               \* the distributable nodes, and the one Job each gets
    Threads,            \* worker threads
    Conns,              \* pool of remote workers, each with its connection
    None,               \* not a job
    DependsOn,          \* job -> jobs its node depends on, directly or not
    Group,              \* job -> its concurrency group
    GroupLimit,         \* group -> ConcurrencyGroup::GetLimit
    CanBuild,           \* remote worker -> jobs its protocol version can build
    SystemErrorAttempts,\* SYSTEM_ERROR_ATTEMPT_COUNT
    MaxConnects,        \* bound: connections made to one worker
    AllowLocalRace,     \* the options of that name
    LocalConsumption,   \* ~m_NoLocalConsumptionOfRemoteJobs
    StopOnFirstError,
    FastCancel,
    UserAbort,          \* the user may stop the build
    RemoteFaults        \* which of "systemError", "disconnect" may happen

ASSUME ConstantsAssumption ==
    /\ None \notin Jobs
    /\ IsFiniteSet(Jobs) /\ IsFiniteSet(Threads) /\ IsFiniteSet(Conns)
    /\ DependsOn \in [Jobs -> SUBSET Jobs]
    /\ \A j \in Jobs : j \notin DependsOn[j]
    /\ \A j \in Jobs : \A k \in DependsOn[j] : DependsOn[k] \subseteq DependsOn[j]
    /\ \A j \in Jobs : GroupLimit[Group[j]] \in Nat \ {0}
    /\ CanBuild \in [Conns -> SUBSET Jobs]
    /\ SystemErrorAttempts \in Nat \ {0}
    /\ MaxConnects \in Nat
    /\ {AllowLocalRace, LocalConsumption, StopOnFirstError, FastCancel, UserAbort}
           \subseteq BOOLEAN

VARIABLES
    nodeState,    \* job -> Node::State of its node
    dist,         \* job -> Job::m_DistributionState
    aborted,      \* jobs whose Job::m_Abort is set
    systemErrors, \* job -> Job::m_SystemErrorCount
    blamed,       \* history: job -> workers that returned it as a system error
    live,         \* jobs whose Job object exists: created and not deleted yet
    staging,      \* nodes batched by AddJobToBatch, not flushed yet
    activeJobs,   \* group -> ConcurrencyGroupState::m_ActiveJobs
    localQueue,   \* m_LocalJobs_Available
    available,    \* m_DistributableJobs_Available
    inProgress,   \* m_DistributableJobs_InProgress
    completed,    \* result -> m_CompletedJobs, ..Failed, ..Aborted
    reaped,       \* result -> m_CompletedJobs2, ..Failed2, ..Aborted2
    tpc, tjob, tres, \* worker thread: where it is, its job, the job's result
    cpc, cjob, cres, \* connection thread: the same
    sent,         \* connection -> m_Jobs: what the remote worker is building
    denyListed,   \* workers with m_DenyListed
    connects,     \* bound: connections made to each worker so far
    main,         \* where the main thread is in FBuild::Build
    mainJob,      \* the job FinalizeCompletedJobs is at, or None
    mainList,     \* the list it came from
    phase,        \* "building", then "stopping", then "draining"
    stopBuild     \* FBuild::s_StopBuild

jobVars    == <<aborted, systemErrors, blamed>>
queueVars  == <<localQueue, available>>
listVars   == <<completed, reaped>>
batchVars  == <<staging, activeJobs>>
threadVars == <<tpc, tjob, tres>>
connVars   == <<cpc, cjob, cres, sent, denyListed, connects>>
mainVars   == <<main, mainJob, mainList, phase>>
vars == <<nodeState, dist, jobVars, live, batchVars, queueVars, inProgress,
          listVars, threadVars, connVars, mainVars, stopBuild>>

----------------------------------------------------------------------------
(* Types                                                                    *)

NodeStates == {"DYNAMIC_DEPS", "BUILDING", "UP_TO_DATE", "FAILED"}
Results    == {"eOk", "eFailed", "eAborted"}

DistStates == {"NONE", "AVAILABLE", "BUILDING_REMOTELY", "COMPLETED_REMOTELY",
               "BUILDING_LOCALLY", "COMPLETED_LOCALLY", "RACING",
               "RACE_WON_LOCALLY", "RACE_WON_REMOTELY_CANCEL_LOCAL",
               "RACE_WON_REMOTELY"}

ThreadPCs == {"waiting", "local", "dist", "race",     \* looking for work
              "pass1", "compile", "raceCompile",      \* building
              "finish", "append",                     \* FinishedProcessingJob
              "exited"}

ConnPCs == {"down", "up", "leaving",  \* no connection, receiving, OnDisconnected
            "handing",                \* took a job, about to track and send it
            "awaitCancel",            \* waits for the local race to be cancelled
            "owned",                  \* has a remote result to process
            "finish", "append"}       \* FinishedProcessingJob

MainPCs == {"loop", "finalize", "dispose", "pass", "closing", "destroy", "done"}

Outcomes == {"eOk", "eFailed", "systemError"}

TypeOK ==
    /\ nodeState \in [Jobs -> NodeStates]
    /\ dist \in [Jobs -> DistStates]
    /\ aborted \subseteq Jobs
    /\ systemErrors \in [Jobs -> Nat]
    /\ blamed \in [Jobs -> SUBSET Conns]
    /\ live \subseteq Jobs /\ staging \subseteq Jobs
    /\ activeJobs \in [{Group[j] : j \in Jobs} -> Int]
    /\ localQueue \subseteq Jobs /\ available \subseteq Jobs
    /\ inProgress \subseteq Jobs
    /\ completed \in [Results -> SUBSET Jobs] /\ reaped \in [Results -> SUBSET Jobs]
    /\ tpc \in [Threads -> ThreadPCs]
    /\ tjob \in [Threads -> Jobs \cup {None}] /\ tres \in [Threads -> Results]
    /\ cpc \in [Conns -> ConnPCs]
    /\ cjob \in [Conns -> Jobs \cup {None}] /\ cres \in [Conns -> Outcomes]
    /\ sent \in [Conns -> SUBSET Jobs]
    /\ denyListed \subseteq Conns /\ connects \in [Conns -> 0..MaxConnects]
    /\ main \in MainPCs
    /\ mainJob \in Jobs \cup {None} /\ mainList \in Results
    /\ phase \in {"building", "stopping", "draining"}
    /\ stopBuild \in BOOLEAN

----------------------------------------------------------------------------
(* Initial states: FBuild::Build has just created the JobQueue and Client.  *)

NoJobs == [r \in Results |-> {}]

Init ==
    /\ nodeState = [j \in Jobs |-> "DYNAMIC_DEPS"]
    /\ dist = [j \in Jobs |-> "NONE"]
    /\ aborted = {} /\ live = {} /\ staging = {}
    /\ systemErrors = [j \in Jobs |-> 0]
    /\ blamed = [j \in Jobs |-> {}]
    /\ activeJobs = [g \in {Group[j] : j \in Jobs} |-> 0]
    /\ localQueue = {} /\ available = {} /\ inProgress = {}
    /\ completed = NoJobs /\ reaped = NoJobs
    /\ tpc = [t \in Threads |-> "waiting"]
    /\ tjob = [t \in Threads |-> None]
    /\ tres = [t \in Threads |-> "eOk"]
    /\ cpc = [c \in Conns |-> "down"]
    /\ cjob = [c \in Conns |-> None]
    /\ cres = [c \in Conns |-> "eOk"]
    /\ sent = [c \in Conns |-> {}]
    /\ denyListed = {} /\ connects = [c \in Conns |-> 0]
    /\ main = "loop" /\ mainJob = None /\ mainList = "eOk"
    /\ phase = "building" /\ stopBuild = FALSE

----------------------------------------------------------------------------
(* FBuild: stopping a build                                                 *)

\* FBuild::OnBuildError, called with the result of a step that built a job.
OnBuildError(failed) == stopBuild' = (stopBuild \/ (failed /\ StopOnFirstError))

\* FBuild::AbortBuild, from the handler of an interrupt.
AbortBuild ==
    /\ UserAbort /\ ~stopBuild /\ main # "done"
    /\ stopBuild' = TRUE
    /\ UNCHANGED <<nodeState, dist, jobVars, live, batchVars, queueVars,
                   inProgress, listVars, threadVars, connVars, mainVars>>

\* s_AbortBuild, which makes Process kill what it runs.
AbortProcesses == FastCancel /\ (stopBuild \/ phase # "building")

\* What a local build step may end with.  A process that sees one of its abort
\* flags reports an aborted job; any other failure is a failed one.
LocalResults(j) ==
    IF j \in aborted \/ AbortProcesses THEN Results ELSE {"eOk", "eFailed"}

----------------------------------------------------------------------------
(* Parts of JobQueue used by threads and connections                        *)

\* Mutant: the job is still offered to others.
TakeWithoutRemoval(j, state) ==
    /\ dist' = [dist EXCEPT ![j] = state]
    /\ inProgress' = inProgress \cup {j}
    /\ UNCHANGED available

\* GetDistributableJobToProcess, once a job of m_DistributableJobs_Available
\* has been chosen.
TakeDistributable(j, state) ==
    /\ available' = available \ {j}
    /\ dist' = [dist EXCEPT ![j] = state]
    /\ inProgress' = inProgress \cup {j}

RemoveInProgress(j) == inProgress' = inProgress \ {j}

\* Mutant: the connection forgets that a thread races for the job.
ReturnUnfinishedRace(j) ==
    /\ RemoveInProgress(j)
    /\ available' = available \cup {j}
    /\ dist' = [dist EXCEPT ![j] = "AVAILABLE"]
    /\ UNCHANGED live

\* Mutant: the job is taken out of progress and not queued again.
ReturnUnfinishedLost(j) ==
    /\ RemoveInProgress(j)
    /\ dist' = [dist EXCEPT ![j] = "AVAILABLE"]
    /\ UNCHANGED <<available, live>>

\* ReturnUnfinishedDistributableJob: a connection gives a job back.
ReturnUnfinished(j) ==
    \/ /\ dist[j] = "RACING"              \* no longer racing
       /\ dist' = [dist EXCEPT ![j] = "BUILDING_LOCALLY"]
       /\ UNCHANGED <<inProgress, available, live>>
    \/ /\ dist[j] = "RACE_WON_LOCALLY"    \* the local result was finalized
       /\ RemoveInProgress(j)
       /\ live' = live \ {j}
       /\ UNCHANGED <<dist, available>>
    \/ /\ dist[j] \notin {"RACING", "RACE_WON_LOCALLY"}
       /\ RemoveInProgress(j)
       /\ available' = available \cup {j}
       /\ dist' = [dist EXCEPT ![j] = "AVAILABLE"]
       /\ UNCHANGED live

\* The first half of FinishedProcessingJob for a distributable job.  The local
\* side of a race leaves the job in progress until FinalizeCompletedJobs.
LocalWasCancelled(j, r) ==
    dist[j] = "RACE_WON_REMOTELY_CANCEL_LOCAL" /\ r # "eOk"

\* Mutant: the connection that waits for the cancellation is not released.
RemoteNeverWins(j) == UNCHANGED dist

AllowRemoteToWin(j) == dist' = [dist EXCEPT ![j] = "RACE_WON_REMOTELY"]

\* Mutant: a race completed locally is completed like any local build.
FinishRaceLikeBuild(j, r) ==
    \/ /\ LocalWasCancelled(j, r) /\ AllowRemoteToWin(j)
       /\ UNCHANGED inProgress
    \/ /\ ~LocalWasCancelled(j, r)
       /\ dist' = [dist EXCEPT ![j] =
                      IF @ \in {"COMPLETED_REMOTELY", "RACE_WON_REMOTELY"} THEN @
                      ELSE "COMPLETED_LOCALLY"]
       /\ RemoveInProgress(j)

FinishInProgress(j, r) ==
    \/ /\ LocalWasCancelled(j, r)         \* the connection completes the job
       /\ AllowRemoteToWin(j)
       /\ UNCHANGED inProgress
    \/ /\ \/ dist[j] = "BUILDING_LOCALLY"
          \/ dist[j] = "RACE_WON_REMOTELY_CANCEL_LOCAL" /\ r = "eOk"
       /\ dist' = [dist EXCEPT ![j] = "COMPLETED_LOCALLY"]
       /\ RemoveInProgress(j)
    \/ /\ dist[j] \in {"COMPLETED_REMOTELY", "RACE_WON_REMOTELY"}
       /\ RemoveInProgress(j)
       /\ UNCHANGED dist
    \/ /\ dist[j] \notin {"RACE_WON_REMOTELY_CANCEL_LOCAL", "BUILDING_LOCALLY",
                          "COMPLETED_REMOTELY", "RACE_WON_REMOTELY"}
       /\ UNCHANGED <<dist, inProgress>>

\* Mutant: a failed job is reported like an aborted one.
AppendAsAborted(j, r) ==
    completed' = [completed EXCEPT ![IF r = "eFailed" THEN "eAborted" ELSE r] = @ \cup {j}]

\* The second half: hand the result to the main thread.
AppendCompleted(j, r) == completed' = [completed EXCEPT ![r] = @ \cup {j}]

----------------------------------------------------------------------------
(* Worker threads: WorkerThread::Main and WorkerThread::Update              *)

ThreadGoto(t, pc) ==
    /\ tpc' = [tpc EXCEPT ![t] = pc]
    /\ UNCHANGED <<tjob, tres>>

ThreadTakes(t, pc, j) ==
    /\ tpc' = [tpc EXCEPT ![t] = pc]
    /\ tjob' = [tjob EXCEPT ![t] = j]
    /\ UNCHANGED tres

ThreadDrops(t) ==
    /\ tpc' = [tpc EXCEPT ![t] = "waiting"]
    /\ tjob' = [tjob EXCEPT ![t] = None]
    /\ UNCHANGED tres

ThreadHasResult(t, pc, r) ==
    /\ tpc' = [tpc EXCEPT ![t] = pc]
    /\ tres' = [tres EXCEPT ![t] = r]
    /\ UNCHANGED tjob

\* Mutant: the thread does not see that it was told to exit.
MustExitOnError == stopBuild

MustExit == phase # "building" \/ stopBuild

\* WorkerThreadWait returned: leave if told to, else look for work.
WakeThread(t) ==
    /\ tpc[t] = "waiting"
    /\ ThreadGoto(t, IF MustExit THEN "exited" ELSE "local")
    /\ UNCHANGED <<nodeState, dist, jobVars, live, batchVars, queueVars,
                   inProgress, listVars, connVars, mainVars, stopBuild>>

\* GetJobToProcess: a job that is still to be preprocessed, or built here.
TakeLocalJob(t) ==
    /\ tpc[t] = "local"
    /\ \/ \E j \in localQueue :
            /\ localQueue' = localQueue \ {j}
            /\ ThreadTakes(t, "pass1", j)
       \/ /\ localQueue = {}
          /\ ThreadGoto(t, "dist")
          /\ UNCHANGED localQueue
    /\ UNCHANGED <<nodeState, dist, jobVars, live, batchVars, available,
                   inProgress, listVars, connVars, mainVars, stopBuild>>

\* GetDistributableJobToProcess for a job nobody has taken yet.
TakeDistributableJob(t) ==
    /\ tpc[t] = "dist"
    /\ \/ /\ LocalConsumption
          /\ \E j \in available :
                /\ TakeDistributable(j, "BUILDING_LOCALLY")
                /\ ThreadTakes(t, "compile", j)
       \/ /\ ~LocalConsumption \/ available = {}
          /\ ThreadGoto(t, "race")
          /\ UNCHANGED <<dist, available, inProgress>>
    /\ UNCHANGED <<nodeState, jobVars, live, batchVars, localQueue, listVars,
                   connVars, mainVars, stopBuild>>

\* Mutant: a job whose remote result is being processed can be raced.
RaceableTooLate ==
    {j \in inProgress : dist[j] \in {"BUILDING_REMOTELY", "COMPLETED_REMOTELY"}}

\* GetDistributableJobToRace: a job that only a remote worker is building.
Raceable == {j \in inProgress : dist[j] = "BUILDING_REMOTELY"}

TakeJobToRace(t) ==
    /\ tpc[t] = "race"
    /\ \/ /\ AllowLocalRace
          /\ \E j \in Raceable :
                /\ dist' = [dist EXCEPT ![j] = "RACING"]
                /\ ThreadTakes(t, "raceCompile", j)
       \/ /\ ~AllowLocalRace \/ Raceable = {}
          /\ ThreadGoto(t, "waiting")
          /\ UNCHANGED dist
    /\ UNCHANGED <<nodeState, jobVars, live, batchVars, queueVars, inProgress,
                   listVars, connVars, mainVars, stopBuild>>

\* JobQueue::DoBuild asks for a second pass: QueueDistributableJob.
QueueDistributableJob(t) ==
    /\ tpc[t] = "pass1"
    /\ available' = available \cup {tjob[t]}
    /\ dist' = [dist EXCEPT ![tjob[t]] = "AVAILABLE"]
    /\ ThreadDrops(t)
    /\ UNCHANGED <<nodeState, jobVars, live, batchVars, localQueue, inProgress,
                   listVars, connVars, mainVars, stopBuild>>

\* JobQueue::DoBuild is done with the job.  FastCancel simulates a failure.
BuildLocalJob(t, r) ==
    /\ tpc[t] = "pass1"
    /\ r \in LocalResults(tjob[t])
    /\ ThreadHasResult(t, "append", r)
    /\ OnBuildError(r = "eFailed")
    /\ UNCHANGED <<nodeState, dist, jobVars, live, batchVars, queueVars,
                   inProgress, listVars, connVars, mainVars>>

\* JobQueueRemote::DoBuild of a job this thread took from the available ones.
BuildDistributableJob(t, r) ==
    /\ tpc[t] = "compile"
    /\ r \in LocalResults(tjob[t])
    /\ ThreadHasResult(t, "finish", r)
    /\ OnBuildError(r = "eFailed")
    /\ UNCHANGED <<nodeState, dist, jobVars, live, batchVars, queueVars,
                   inProgress, listVars, connVars, mainVars>>

\* The same for a race; the failure of a race that was cancelled is no error.
BuildRacedJob(t, r) ==
    /\ tpc[t] = "raceCompile"
    /\ r \in LocalResults(tjob[t])
    /\ ThreadHasResult(t, "finish", r)
    /\ OnBuildError(/\ r = "eFailed"
                    /\ dist[tjob[t]] # "RACE_WON_REMOTELY_CANCEL_LOCAL")
    /\ UNCHANGED <<nodeState, dist, jobVars, live, batchVars, queueVars,
                   inProgress, listVars, connVars, mainVars>>

\* Mutant: the thread goes on although the connection completes the job.
ThreadFinishesAnyway(t) ==
    /\ tpc[t] = "finish"
    /\ FinishInProgress(tjob[t], tres[t])
    /\ ThreadGoto(t, "append")
    /\ UNCHANGED <<nodeState, jobVars, live, batchVars, queueVars, listVars,
                   connVars, mainVars, stopBuild>>

\* FinishedProcessingJob, under m_DistributedJobsMutex.
ThreadFinishes(t) ==
    /\ tpc[t] = "finish"
    /\ FinishInProgress(tjob[t], tres[t])
    /\ IF LocalWasCancelled(tjob[t], tres[t])
         THEN ThreadDrops(t)
         ELSE ThreadGoto(t, "append")
    /\ UNCHANGED <<nodeState, jobVars, live, batchVars, queueVars, listVars,
                   connVars, mainVars, stopBuild>>

\* FinishedProcessingJob, under m_CompletedJobsMutex.
ThreadAppends(t) ==
    /\ tpc[t] = "append"
    /\ AppendCompleted(tjob[t], tres[t])
    /\ ThreadDrops(t)
    /\ UNCHANGED <<nodeState, dist, jobVars, live, batchVars, queueVars,
                   inProgress, reaped, connVars, mainVars, stopBuild>>

ThreadStep(t) ==
    \/ WakeThread(t) \/ TakeLocalJob(t) \/ TakeDistributableJob(t)
    \/ TakeJobToRace(t) \/ QueueDistributableJob(t)
    \/ \E r \in Results : \/ BuildLocalJob(t, r)
                          \/ BuildDistributableJob(t, r)
                          \/ BuildRacedJob(t, r)
    \/ ThreadFinishes(t) \/ ThreadAppends(t)

----------------------------------------------------------------------------
(* Connections to remote workers: Client and ClientToWorkerConnection       *)

ConnGoto(c, pc) ==
    /\ cpc' = [cpc EXCEPT ![c] = pc]
    /\ UNCHANGED <<cjob, cres>>

\* Mutant: the connection does not record the job.
ConnForgets(c, pc, j, r) ==
    /\ cpc' = [cpc EXCEPT ![c] = pc]
    /\ cres' = [cres EXCEPT ![c] = r]
    /\ UNCHANGED cjob

ConnHolds(c, pc, j, r) ==
    /\ cpc' = [cpc EXCEPT ![c] = pc]
    /\ cjob' = [cjob EXCEPT ![c] = j]
    /\ cres' = [cres EXCEPT ![c] = r]

ConnDrops(c, pc) ==
    /\ cpc' = [cpc EXCEPT ![c] = pc]
    /\ cjob' = [cjob EXCEPT ![c] = None]
    /\ UNCHANGED cres

\* Client::ConnectToWorkers, as long as the Client lives.
ConnectToWorker(c) ==
    /\ cpc[c] = "down"
    /\ phase = "building" /\ main # "closing"
    /\ c \notin denyListed
    /\ connects[c] < MaxConnects
    /\ connects' = [connects EXCEPT ![c] = @ + 1]
    /\ ConnGoto(c, "up")
    /\ UNCHANGED <<nodeState, dist, jobVars, live, batchVars, queueVars,
                   inProgress, listVars, threadVars, sent, denyListed, mainVars,
                   stopBuild>>

\* Mutant: a deny listed worker still gets jobs.
ServesAnyWorker(c) == TRUE

ServesJobs(c) == c \notin denyListed

\* Process( MsgRequestJob ): the remote worker asked for a job.
RequestJob(c) ==
    /\ cpc[c] = "up"
    /\ ServesJobs(c)
    /\ \E j \in available \cap CanBuild[c] :
          /\ TakeDistributable(j, "BUILDING_REMOTELY")
          /\ ConnHolds(c, "handing", j, cres[c])
    /\ UNCHANGED <<nodeState, jobVars, live, batchVars, localQueue, listVars,
                   threadVars, sent, denyListed, connects, mainVars, stopBuild>>

\* The rest of it: track the job and queue the MsgJob that sends it.
TrackJob(c) ==
    /\ cpc[c] = "handing"
    /\ sent' = [sent EXCEPT ![c] = @ \cup {cjob[c]}]
    /\ ConnDrops(c, "up")
    /\ UNCHANGED <<nodeState, dist, jobVars, live, batchVars, queueVars,
                   inProgress, listVars, threadVars, denyListed, connects,
                   mainVars, stopBuild>>

\* JobQueue::OnReturnRemoteJob, called by connection c for job j.
OnReturnRemoteJob(c, j, outcome) ==
    \/ /\ outcome = "systemError" /\ dist[j] = "RACING"  \* local only from here
       /\ dist' = [dist EXCEPT ![j] = "BUILDING_LOCALLY"]
       /\ UNCHANGED <<aborted, live, inProgress, cpc, cjob, cres>>
    \/ /\ dist[j] = "BUILDING_REMOTELY"
       /\ dist' = [dist EXCEPT ![j] = "COMPLETED_REMOTELY"]
       /\ ConnHolds(c, "owned", j, outcome)
       /\ UNCHANGED <<aborted, live, inProgress>>
    \/ /\ dist[j] = "RACE_WON_LOCALLY"                   \* nobody needs it
       /\ RemoveInProgress(j)
       /\ live' = live \ {j}
       /\ UNCHANGED <<dist, aborted, cpc, cjob, cres>>
    \/ /\ outcome # "systemError" /\ dist[j] = "RACING"  \* CancelDueToRemoteRaceWin
       /\ dist' = [dist EXCEPT ![j] = "RACE_WON_REMOTELY_CANCEL_LOCAL"]
       /\ aborted' = aborted \cup {j}
       /\ ConnHolds(c, "awaitCancel", j, outcome)
       /\ UNCHANGED <<live, inProgress>>

\* ProcessJobResultCommon up to the return of OnReturnRemoteJob.  A worker with
\* a system error is deny listed, whatever becomes of the job.
ReceiveJobResult(c, j, outcome) ==
    /\ cpc[c] = "up" /\ j \in sent[c]
    /\ outcome = "systemError" => "systemError" \in RemoteFaults
    /\ sent' = [sent EXCEPT ![c] = @ \ {j}]
    /\ OnReturnRemoteJob(c, j, outcome)
    /\ IF outcome = "systemError"
         THEN /\ systemErrors' = [systemErrors EXCEPT ![j] = @ + 1]
              /\ blamed' = [blamed EXCEPT ![j] = @ \cup {c}]
              /\ denyListed' = denyListed \cup {c}
         ELSE UNCHANGED <<systemErrors, blamed, denyListed>>
    /\ UNCHANGED <<nodeState, batchVars, queueVars, listVars, threadVars,
                   connects, mainVars, stopBuild>>

\* The wait in OnReturnRemoteJob is over: the job was reaped by somebody else,
\* or the local race is cancelled and the job belongs to this connection.
LocalRaceEnds(c) ==
    /\ cpc[c] = "awaitCancel"
    /\ \/ cjob[c] \notin inProgress /\ ConnDrops(c, "up")
       \/ /\ cjob[c] \in inProgress
          /\ dist[cjob[c]] = "RACE_WON_REMOTELY"
          /\ ConnGoto(c, "owned")
       \/ /\ cjob[c] \in inProgress
          /\ dist[cjob[c]] \notin {"RACE_WON_REMOTELY_CANCEL_LOCAL", "RACE_WON_REMOTELY"}
          /\ ConnDrops(c, "up")
    /\ UNCHANGED <<nodeState, dist, jobVars, live, batchVars, queueVars,
                   inProgress, listVars, threadVars, sent, denyListed, connects,
                   mainVars, stopBuild>>

\* A system error is tried again on another worker, up to a limit.
RetrySystemError(c) ==
    cres[c] = "systemError" /\ systemErrors[cjob[c]] < SystemErrorAttempts

RequeueAfterSystemError(c) ==
    /\ cpc[c] = "owned"
    /\ RetrySystemError(c)
    /\ ReturnUnfinished(cjob[c])
    /\ ConnDrops(c, "up")
    /\ UNCHANGED <<nodeState, jobVars, batchVars, localQueue, listVars, threadVars,
                   sent, denyListed, connects, mainVars, stopBuild>>

\* Write the files of a successful result (which may fail), report the others.
ProcessResult(c) ==
    /\ cpc[c] = "owned"
    /\ ~RetrySystemError(c)
    /\ \E r \in IF cres[c] = "eOk" THEN {"eOk", "eFailed"} ELSE {"eFailed"} :
          ConnHolds(c, "finish", cjob[c], r)
    /\ UNCHANGED <<nodeState, dist, jobVars, live, batchVars, queueVars,
                   inProgress, listVars, threadVars, sent, denyListed, connects,
                   mainVars, stopBuild>>

\* FinishedProcessingJob, by the connection.
ConnFinishes(c) ==
    /\ cpc[c] = "finish"
    /\ FinishInProgress(cjob[c], cres[c])
    /\ IF LocalWasCancelled(cjob[c], cres[c])
         THEN ConnDrops(c, "up")
         ELSE ConnGoto(c, "append")
    /\ UNCHANGED <<nodeState, jobVars, live, batchVars, queueVars, listVars,
                   threadVars, sent, denyListed, connects, mainVars, stopBuild>>

ConnAppends(c) ==
    /\ cpc[c] = "append"
    /\ AppendCompleted(cjob[c], cres[c])
    /\ ConnDrops(c, "up")
    /\ UNCHANGED <<nodeState, dist, jobVars, live, batchVars, queueVars,
                   inProgress, reaped, threadVars, sent, denyListed, connects,
                   mainVars, stopBuild>>

\* The connection is lost, or shut down because the Client is being deleted.
Disconnect(c) ==
    /\ cpc[c] = "up"
    /\ main = "closing" \/ "disconnect" \in RemoteFaults
    /\ ConnGoto(c, "leaving")
    /\ UNCHANGED <<nodeState, dist, jobVars, live, batchVars, queueVars,
                   inProgress, listVars, threadVars, sent, denyListed, connects,
                   mainVars, stopBuild>>

\* ClientToWorkerConnection::OnDisconnected gives the jobs back one by one.
OnDisconnected(c) ==
    /\ cpc[c] = "leaving"
    /\ \/ \E j \in sent[c] :
            /\ ReturnUnfinished(j)
            /\ sent' = [sent EXCEPT ![c] = @ \ {j}]
            /\ UNCHANGED <<cpc, cjob, cres>>
       \/ /\ sent[c] = {}
          /\ ConnGoto(c, "down")
          /\ UNCHANGED <<dist, live, available, inProgress, sent>>
    /\ UNCHANGED <<nodeState, jobVars, batchVars, localQueue, listVars, threadVars,
                   denyListed, connects, mainVars, stopBuild>>

\* What a connection's thread does on its own.
ConnProceeds(c) ==
    \/ TrackJob(c) \/ LocalRaceEnds(c) \/ RequeueAfterSystemError(c)
    \/ ProcessResult(c) \/ ConnFinishes(c) \/ ConnAppends(c) \/ OnDisconnected(c)

\* The remote worker answers for a job it has.
RemoteAnswers(c) == \E j \in Jobs, o \in Outcomes : ReceiveJobResult(c, j, o)

ConnStep(c) ==
    \/ ConnProceeds(c) \/ RemoteAnswers(c)
    \/ ConnectToWorker(c) \/ RequestJob(c) \/ Disconnect(c)

----------------------------------------------------------------------------
(* The main thread: FBuild::Build and JobQueue::FinalizeCompletedJobs       *)

MainGoto(pc) == main' = pc /\ UNCHANGED <<mainJob, mainList, phase>>

\* FinalizeCompletedJobs swaps the lists under m_CompletedJobsMutex.
SwapCompletedJobs ==
    /\ main = "loop"
    /\ completed' = NoJobs /\ reaped' = completed
    /\ MainGoto("finalize")
    /\ UNCHANGED <<nodeState, dist, jobVars, live, batchVars, queueVars,
                   inProgress, threadVars, connVars, stopBuild>>

\* The lists are walked in this order.
Turn(r) ==
    CASE r = "eOk"      -> TRUE
      [] r = "eAborted" -> reaped["eOk"] = {}
      [] r = "eFailed"  -> reaped["eOk"] = {} /\ reaped["eAborted"] = {}

\* The node's state once its job came back with result r; Node::Finalize of a
\* job that built may fail.
FinalState(r) ==
    CASE r = "eOk"      -> {"UP_TO_DATE", "FAILED"}
      [] r = "eFailed"  -> {"FAILED"}
      [] r = "eAborted" -> {"BUILDING"}

FinalizeNode(j, r) ==
    /\ main = "finalize"
    /\ j \in reaped[r] /\ Turn(r)
    /\ reaped' = [reaped EXCEPT ![r] = @ \ {j}]
    /\ activeJobs' = [activeJobs EXCEPT ![Group[j]] = @ - 1]
    /\ \E s \in FinalState(r) : nodeState' = [nodeState EXCEPT ![j] = s]
    /\ main' = "dispose" /\ mainJob' = j /\ mainList' = r
    /\ UNCHANGED <<dist, jobVars, live, staging, queueVars, inProgress,
                   completed, threadVars, connVars, phase, stopBuild>>

\* Mutant: a job that won its race is deleted at once.
DisposableRace == {"NONE", "COMPLETED_LOCALLY", "COMPLETED_REMOTELY",
                   "RACE_WON_REMOTELY", "RACING"}

\* Only the main thread has a job in one of these states.
DisposableStates == {"NONE", "COMPLETED_LOCALLY", "COMPLETED_REMOTELY", "RACE_WON_REMOTELY"}

CancelUnderWay ==
    mainList = "eOk" /\ dist[mainJob] = "RACE_WON_REMOTELY_CANCEL_LOCAL"

\* The rest of the loop body, under m_DistributedJobsMutex: delete the job, or
\* leave it to the remote side of the race.
DisposeJob ==
    /\ main = "dispose"
    /\ \/ /\ dist[mainJob] \in DisposableStates
          /\ live' = live \ {mainJob}
          /\ UNCHANGED <<dist, inProgress>>
       \/ /\ CancelUnderWay
          /\ RemoveInProgress(mainJob)
          /\ live' = live \ {mainJob}
          /\ UNCHANGED dist
       \/ /\ dist[mainJob] \notin DisposableStates /\ ~CancelUnderWay
          /\ dist' = [dist EXCEPT ![mainJob] = "RACE_WON_LOCALLY"]
          /\ UNCHANGED <<live, inProgress>>
    /\ main' = "finalize" /\ mainJob' = None
    /\ UNCHANGED <<nodeState, jobVars, batchVars, queueVars, listVars,
                   threadVars, connVars, mainList, phase, stopBuild>>

FinalizeDone ==
    /\ main = "finalize" /\ reaped = NoJobs
    /\ MainGoto(IF phase = "draining" THEN "destroy" ELSE "pass")
    /\ UNCHANGED <<nodeState, dist, jobVars, live, batchVars, queueVars,
                   inProgress, listVars, threadVars, connVars, stopBuild>>

\* FlushJobBatch: how many more jobs of a group may be queued.  A limit that
\* the number of threads already keeps is no limit.
InGroup(S, g) == {j \in S : Group[j] = g}

\* Mutant: the jobs already queued are not counted.
RoomWhenIdle(g, staged) ==
    IF GroupLimit[g] >= Cardinality(Threads) THEN Cardinality(staged) ELSE GroupLimit[g]

Room(g, staged) ==
    IF GroupLimit[g] >= Cardinality(Threads) THEN Cardinality(staged)
    ELSE IF activeJobs[g] >= GroupLimit[g] THEN 0
    ELSE GroupLimit[g] - activeJobs[g]

Flushable(flush, staged) ==
    \A g \in DOMAIN activeJobs :
        LET room == Room(g, InGroup(staged, g))
        IN  IF room >= Cardinality(InGroup(staged, g))
              THEN InGroup(flush, g) = InGroup(staged, g)
              ELSE Cardinality(InGroup(flush, g)) = room

\* NodeGraph::CheckDependencies: a node is ready when all it depends on is up to
\* date.  It fails with a dependency, at once or when the others are done too.
In(s) == {j \in Jobs : nodeState[j] = s}
Settled == In("UP_TO_DATE") \cup In("FAILED")

Ready == {j \in In("DYNAMIC_DEPS") : DependsOn[j] \subseteq In("UP_TO_DATE")}

Blocked == {j \in In("DYNAMIC_DEPS") : DependsOn[j] \cap In("FAILED") # {}}

Doomed == {j \in Blocked : StopOnFirstError \/ DependsOn[j] \subseteq Settled \cup Blocked}

\* The state of the target of the build, which depends on all of Jobs, after
\* the pass.
Complete ==
    \/ Settled \cup Doomed = Jobs
    \/ StopOnFirstError /\ In("FAILED") # {}

\* NodeGraph::DoBuildPass hands the ready nodes over (AddJobToBatch), flushes
\* the batch, and the loop checks whether the build is over.
BuildPass ==
    /\ main = "pass" /\ phase = "building"
    /\ nodeState' = [j \in Jobs |-> IF j \in Ready THEN "BUILDING"
                                   ELSE IF j \in Doomed THEN "FAILED"
                                   ELSE nodeState[j]]
    /\ \E flush \in SUBSET (staging \cup Ready) :
          /\ Flushable(flush, staging \cup Ready)
          /\ staging' = (staging \cup Ready) \ flush
          /\ localQueue' = localQueue \cup flush
          /\ live' = live \cup flush
          /\ activeJobs' = [g \in DOMAIN activeJobs |->
                              activeJobs[g] + Cardinality(InGroup(flush, g))]
    /\ MainGoto(IF stopBuild \/ Complete THEN "closing" ELSE "loop")
    /\ UNCHANGED <<dist, jobVars, available, inProgress, listVars,
                   threadVars, connVars, stopBuild>>

\* FDELETE m_Client returns once every connection is gone; then the workers are
\* told to stop.
ClientDeleted ==
    /\ main = "closing"
    /\ \A c \in Conns : cpc[c] = "down"
    /\ main' = "pass" /\ phase' = "stopping"
    /\ UNCHANGED <<nodeState, dist, jobVars, live, batchVars, queueVars,
                   inProgress, listVars, threadVars, connVars, mainJob, mainList,
                   stopBuild>>

HaveWorkersStopped == \A t \in Threads : tpc[t] = "exited"

WaitForWorkers ==
    /\ main = "pass" /\ phase = "stopping"
    /\ main' = "loop"
    /\ phase' = IF HaveWorkersStopped THEN "draining" ELSE phase
    /\ UNCHANGED <<nodeState, dist, jobVars, live, batchVars, queueVars,
                   inProgress, listVars, threadVars, connVars, mainJob, mainList,
                   stopBuild>>

\* Mutant: only the local queue is emptied.
UntakenLocalJobs == localQueue

UntakenJobs == localQueue \cup available

\* JobQueue::~JobQueue deletes the jobs nobody took.
DestroyJobQueue ==
    /\ main = "destroy"
    /\ live' = live \ UntakenJobs
    /\ localQueue' = {} /\ available' = {}
    /\ MainGoto("done")
    /\ UNCHANGED <<nodeState, dist, jobVars, batchVars, inProgress, listVars,
                   threadVars, connVars, stopBuild>>

MainStep ==
    \/ SwapCompletedJobs \/ FinalizeDone \/ DisposeJob
    \/ \E j \in Jobs, r \in Results : FinalizeNode(j, r)
    \/ BuildPass \/ ClientDeleted \/ WaitForWorkers \/ DestroyJobQueue

----------------------------------------------------------------------------
Finished == main = "done" /\ UNCHANGED vars

Next ==
    \/ \E t \in Threads : ThreadStep(t)
    \/ \E c \in Conns : ConnStep(c)
    \/ MainStep \/ AbortBuild \/ Finished

Spec == Init /\ [][Next]_vars

\* Every thread of the process runs; a remote worker sooner or later answers
\* for a job it was sent, and a connection that is shut down is closed.
Fairness ==
    /\ \A t \in Threads : WF_vars(ThreadStep(t))
    /\ \A c \in Conns : /\ WF_vars(ConnProceeds(c))
                        /\ WF_vars(RemoteAnswers(c))
                        /\ WF_vars(main = "closing" /\ Disconnect(c))
    /\ WF_vars(MainStep)

FairSpec == Spec /\ Fairness

----------------------------------------------------------------------------
(* Safety                                                                   *)

Busy(t) == tpc[t] \in {"pass1", "compile", "raceCompile", "finish", "append"}
Writing(t) == tpc[t] \in {"pass1", "compile", "raceCompile"}
Owning(c) == cpc[c] \in {"owned", "finish", "append"}

\* The jobs whose object thread t, connection c or the main thread still uses.
\* A connection that awaits a cancellation only looks its job up by its id.
UsedByConn(c) ==
    sent[c] \cup (IF Owning(c) \/ cpc[c] = "handing" THEN {cjob[c]} ELSE {})

Listed == UNION {completed[r] \cup reaped[r] : r \in Results}
UsedByThreads == {tjob[t] : t \in {u \in Threads : Busy(u)}}
UsedByConns == UNION {UsedByConn(c) : c \in Conns}
UsedByMain == IF main = "dispose" THEN {mainJob} ELSE {}

Referenced == localQueue \cup available \cup inProgress \cup Listed
                  \cup UsedByThreads \cup UsedByConns \cup UsedByMain

\* No Job object is used after it was deleted: not by a queue, a list, a thread
\* or a connection.  The object is deleted at five places by three kinds of
\* threads (OnReturnRemoteJob, ReturnUnfinishedDistributableJob,
\* FinalizeCompletedJobs twice, ~JobQueue), with no reference count.
NoUseAfterFree == Referenced \subseteq live

\* The output files of a job have one writer: a thread compiles to them only
\* while no other thread does, and while no connection writes a remote result
\* to them (WriteFileToDisk), although both sides of a race work on the job.
OneWriter ==
    /\ \A t, u \in Threads :
         t # u /\ Writing(t) /\ Writing(u) => tjob[t] # tjob[u]
    /\ \A t \in Threads, c \in Conns :
         Writing(t) /\ cpc[c] = "owned" => tjob[t] # cjob[c]
    /\ \A c, d \in Conns :
         c # d /\ cpc[c] = "owned" /\ cpc[d] = "owned" => cjob[c] # cjob[d]

\* A job that was sent to a worker is in progress, in one of the states that
\* OnReturnRemoteJob handles, at one worker only, until the worker returns it or
\* its connection drops: neither ASSERT( false ) there can be reached.
SentIsInProgress ==
    \A c \in Conns, j \in Jobs :
        j \in sent[c] =>
            /\ j \in inProgress
            /\ dist[j] \in {"BUILDING_REMOTELY", "RACING", "RACE_WON_LOCALLY"}
            /\ \A d \in Conns \ {c} : j \notin UsedByConn(d)

\* The assertions of FinishedProcessingJob: it is called for a node that is
\* still building and for a job in progress, in an expected state; a local race
\* that lost was really told to abort.
FinishedAsExpected ==
    /\ \A t \in Threads : tpc[t] = "finish" =>
         /\ nodeState[tjob[t]] = "BUILDING" /\ tjob[t] \in inProgress
         /\ dist[tjob[t]] \in {"BUILDING_LOCALLY", "RACING", "RACE_WON_REMOTELY_CANCEL_LOCAL"}
         /\ LocalWasCancelled(tjob[t], tres[t]) => tjob[t] \in aborted
    /\ \A c \in Conns : cpc[c] = "finish" =>
         /\ nodeState[cjob[c]] = "BUILDING" /\ cjob[c] \in inProgress
         /\ dist[cjob[c]] \in {"COMPLETED_REMOTELY", "RACE_WON_REMOTELY"}

\* "Task failed on 3 different workers": each system error counted against a
\* job came from another worker, since a worker is deny listed after its first.
ErrorsOfDifferentWorkers ==
    \A j \in Jobs : systemErrors[j] = Cardinality(blamed[j])

\* m_ActiveJobs counts the jobs of a group between FlushJobBatch and
\* FinalizeCompletedJobs, each once, however many sides worked on it, and never
\* exceeds the limit of the group.
Unfinished(g) ==
    {j \in InGroup(live, g) : dist[j] # "RACE_WON_LOCALLY" /\ j # mainJob}

GroupsWithinLimit ==
    \A g \in DOMAIN activeJobs :
        /\ main # "done" => activeJobs[g] = Cardinality(Unfinished(g))
        /\ GroupLimit[g] < Cardinality(Threads) => activeJobs[g] <= GroupLimit[g]

\* JobQueue::~JobQueue expects that no job is left: nothing in the completed
\* lists, and no memory held by a Job.
NoJobOutlivesQueue == main = "done" => live = {} /\ completed = NoJobs

\* A build stops only because the user asked or a job failed: the job's failure
\* is in the hands of a thread, on its way to the main thread, or in its node.
FailedJobs ==
    {tjob[t] : t \in {u \in Threads : tpc[u] \in {"finish", "append"} /\ tres[u] = "eFailed"}}
        \cup completed["eFailed"] \cup reaped["eFailed"]
        \cup {j \in Jobs : nodeState[j] = "FAILED"}

StopHasCause == stopBuild => UserAbort \/ FailedJobs # {}

\* FinalizeCompletedJobs asserts that a job it cannot delete yet is racing, for
\* the jobs of the list m_CompletedJobs2 and for those of the failed list.
UndisposedJobIsRacing ==
    main = "dispose" /\ dist[mainJob] \notin DisposableStates /\ ~CancelUnderWay
        => dist[mainJob] = "RACING"

----------------------------------------------------------------------------
(* Liveness                                                                 *)

\* A job handed to the queue is concluded, if nothing stops the build.
JobsAreConcluded ==
    \A j \in Jobs :
        nodeState[j] = "BUILDING" ~> stopBuild \/ nodeState[j] \in {"UP_TO_DATE", "FAILED"}

\* A connection that waits for the local side of a race to be cancelled does
\* not wait forever.
WaitForCancelEnds ==
    \A c \in Conns : cpc[c] = "awaitCancel" ~> cpc[c] # "awaitCancel"

\* FBuild::Build returns.
BuildEnds == <>(main = "done")

----------------------------------------------------------------------------
(* The promise to the graph                                                 *)

PublishedAs(j, r) == j \in completed[r] \cup reaped[r]

Ledger == [j \in Jobs |->
    CASE nodeState[j] = "DYNAMIC_DEPS" -> "idle"
      [] nodeState[j] \in {"UP_TO_DATE", "FAILED"} -> nodeState[j]
      [] OTHER ->
           IF \E r \in Results : PublishedAs(j, r)
             THEN CHOOSE r \in Results : PublishedAs(j, r)
           ELSE IF j \notin live \cup staging \/ dist[j] = "RACE_WON_LOCALLY" \/ j = mainJob
             THEN "dropped"
           ELSE "pending"]

\* Each job is concluded at most once, with the one result published for it,
\* however many threads and workers were given the job and whoever won.
JobLedger == INSTANCE JobLedger WITH ledger <- Ledger
ConcludedOnce == JobLedger!Spec
=============================================================================
