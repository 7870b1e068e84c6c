# FASTBuild in TLA+

FASTBuild is a build system that spreads the compilation of object files over
local threads, a shared cache and remote workers. This directory holds TLA+
specifications of its concurrent and distributed core, the TLC configurations
that check them on small instances and theorems that TLAPS proves for every
value of the constants.

    tlc -workers 2 -config race_two_threads.cfg MCDistributedJobs.tla
    tlc -workers 2 -config graph_rebuilds.cfg MCIncrementalBuild.tla
    tlapm JobOwnershipProofs.tla

Paths below are relative to `src/Code/`; `FBuildCore` is
`Tools/FBuild/FBuildCore`.

## 1. The system

One `fbuild` process evaluates a configuration into a graph of nodes, walks the
graph in passes on its main thread, and has the nodes that are out of date built
by worker threads. Nodes that can be distributed (object files) are offered to
remote workers over TCP, one connection to each. A worker runs
`fbuildworker`, which serves many clients at once.

    main thread           worker threads          connection threads      fbuildworker
    FBuild::Build   --->  WorkerThread  <--->  JobQueue  <--->  Client  <-- TCP -->  Server
     NodeGraph passes      build, race           jobs, lists      requests, results   JobQueueRemote
     FinalizeCompletedJobs <------- completed lists -------------------/              WorkerThreadRemote

| Component | State | Operations | Hard behaviour | What makes it correct |
|---|---|---|---|---|
| `FBuildCore/WorkerPool/JobQueue`, `Job` | local queue, available and in-progress distributable jobs, three completed lists and the swapped copies of them; per job: distribution state, abort flag, system error count; per concurrency group: number of active jobs | batch and flush, take a job (local, distributable, to race), queue a second pass, take for a remote worker, return by a remote worker, return unfinished, finish, finalize, tear down | a job is raced by a thread and a remote worker; `Job` objects are deleted in five places without a reference count; the state is decided under one mutex and used under another | no use after deletion, one writer of the output, each job concluded once, group limits hold, nothing leaks |
| `FBuildCore/WorkerPool/WorkerThread` | the job at hand, the exit flag | wait, look for work in three places, build, finish, exit | told to exit while it works; raced by remote results | it exits; what it took it finishes |
| `FBuildCore/Protocol/Client` | per worker: connection, tracked jobs, deny list, send queue, job and manifest being received | connect, answer requests, receive results and manifests, disconnect, shut down | result of a job that is raced, cancelled, or returned meanwhile; a result is processed after the lock was released; connection lost at any point | a worker has a job the queue says it has; a job a worker failed on goes to another one; a cancellation that was asked for is waited for and comes |
| `FBuildCore/FBuild` | stop and abort flags | build loop, abort, stop on error, shutdown sequence | the shutdown joins connection threads before it joins worker threads | a build ends; it stops only for a reason |
| `FBuildCore/Graph/NodeGraph`, `Node` | node states, stamps, recorded stamps of dependencies, build pass tags; the saved graph | build pass, dependency check, cycle check, load, migrate, save | passes that stop half way; dependencies found during the build; stamps are cleared before and set after it; the user edits, aborts, kills | nothing out of date is taken as up to date, nothing up to date is built again, a cycle is found and no other |
| `FBuildCore/Graph/FileNode`, `ObjectNode`, `LibraryNode`, ... | the includes of an object, the files of a directory | build, finalize, list dependencies | what was read may change before it is recorded | the record says what the output was made from |
| `FBuildCore/Protocol/Server`, `Helpers/ToolManifest` | per client: connection, waiting jobs, requested number of jobs; shared tool chains with the client that synchronizes each | receive job, manifest and file; ask needy clients for jobs; send results; drop a client | several clients share a tool chain that one of them uploads, and that one may leave | a waiting job is released when its tool chain is there, or its client is gone |
| `FBuildCore/WorkerPool/JobQueueRemote`, `WorkerThreadRemote` | pending, in-flight and completed jobs | queue, take, finish, cancel the jobs of a client | the client leaves while its job is built or between two lists | no result is sent to a client that left |
| `Core/Network/TCPConnectionPool` | connections and their threads | connect, listen, send, disconnect, shut down | a connection is dropped while a send is under way, threads delete their own connection | every thread ends, nobody uses a deleted connection |
| `Core/Process/Semaphore`, `ThreadPool`, `SystemMutex` | counters, handles | wait, signal | lost wake-ups | a wait with a timeout ends, a signal is not lost |
| `Core/Process/Process` | a child process and its pipes | spawn, read, kill | abort flags while it reads | an abort ends the process |
| `FBuildCore/Cache` | files by hash | retrieve, publish, trim | concurrent writers on a shared drive | a partially written entry is never read |
| `FBuildCore/WorkerPool/WorkerBrokerage*` | files in a directory | announce, find | stale files | pure I/O |
| `FBuildCore/BFF`, `Core` containers and strings | | parse, build, store | sequential | covered by the tests of the repository |

`PROJECT.json` lists these components with the modules that model them, and the
hazards of the code at the lines where they bite.

## 2. Modules

    JobLedger                 what the queue promises the graph (abstract)
       ^ implemented by
    DistributedJobs           JobQueue + Job + WorkerThread + Client + FBuild + build passes
       ^ extended by
    JobOwnership              inductive invariants of DistributedJobs
       ^ extended by
    MCDistributedJobs         instances for TLC
    DistributedJobsProofs     types, and system errors of different workers
       ^ extended by
    JobOwnershipProofs        ownership and the safety properties that follow
       ^ extended by
    JobQueueProofs            the refinement of JobLedger, groups, builds without races

    NodeGraph                 one build: sweeps of the graph, workers, finalization
       ^ extended by
    IncrementalBuild          builds one after the other: the saved graph, the user
       ^ extended by
    MCIncrementalBuild        instances for TLC
    IncrementalBuildProofs    type correctness, and cycles that are real
       ^ extended by
    RebuildProofs             order, honest records, fresh builds
       ^ extended by
    BuildOutcomeProofs        failures have a cause, repeated builds are quiet

    ClientConnections         the threads of a client's connections, what they send
       ^ extended by
    MCClientConnections       instances for TLC
    ClientConnectionsProofs   no use after deletion, no wake-up is lost

    JobQueueRemote            a worker's job queue and its threads
       ^ extended by
    Server                    fbuildworker: clients, tool chains, job requests
       ^ extended by
    MCServer                  instances for TLC
    ServerProofs              one holder for each job, slots, tool chains that are on their way

### DistributedJobs

A step of the specification is one critical section with the private work of its
thread around it; between two critical sections any other thread may run. The
places where a lock is released and state read under it is used later are
therefore separate steps with a program counter:

| Code | Steps |
|---|---|
| `WorkerThread::Main`, `Update` (WorkerThread.cpp 92-262) | `WakeThread`, `TakeLocalJob`, `TakeDistributableJob`, `TakeJobToRace`; `Pass1`, `Compile` for the build; `ThreadFinishes`, `ThreadAppends` for the two locks of `FinishedProcessingJob` |
| `JobQueue::GetDistributableJobToProcess`, `..ToRace`, `OnReturnRemoteJob`, `ReturnUnfinishedDistributableJob`, `FinishedProcessingJob` | `TakeDistributable`, `Raceable`, `ReceiveJobResult`, `ReturnUnfinished`, `FinishInProgress` with `AppendCompleted` |
| `Client::LookForWorkers`, `ClientToWorkerConnection::Process(MsgRequestJob)` | `ConnectToWorker`; `RequestJob`, then `TrackJob`: the job is taken and tracked under different locks |
| `ClientToWorkerConnection::ProcessJobResultCommon` | `ReceiveJobResult`, `LocalRaceEnds` for the wait for a cancelled local race, `RequeueAfterSystemError`, `ProcessResult`, and `ConnFinishes`, `ConnAppends` |
| `OnDisconnected`, `ShutdownAllConnections` | `Disconnect`, `OnDisconnected` (one job per step) |
| `JobQueue::FinalizeCompletedJobs` | `SwapCompletedJobs`, `FinalizeNode`, `DisposeJob`, `FinalizeDone`: the swap, the node and the deletion are three critical sections |
| `NodeGraph::DoBuildPass`, `JobQueue::AddJobToBatch`, `FlushJobBatch` | `BuildPass` with `Ready`, `Doomed`, `Room`, `Flushable` |
| `FBuild::Build`, `AbortBuild`, `OnBuildError`, `~JobQueue` | `AbortBuild`, `OnBuildError`, `ClientDeleted`, `WaitForWorkers`, `DestroyJobQueue` |

The main variables are the code's members: `dist` is `Job::m_DistributionState`,
`aborted` is `Job::m_Abort`, `systemErrors` is `Job::m_SystemErrorCount`,
`available` and `inProgress` are `m_DistributableJobs_Available` and
`m_DistributableJobs_InProgress`, `completed` and `reaped` the three completed
lists and the copies `FinalizeCompletedJobs` walks, `sent` the list of jobs a
connection tracks. Two variables are not in the code: `live`, the `Job` objects
that exist, from the allocations and deletions, and `blamed`, a history of
the workers that returned a job with a system error.

Assertions of the code are not guards. A release build goes on after them, and
so does the model; which of them hold is what several properties say.

What is abstracted: arrays are sets (which candidate is taken first matters for
speed only), a build is the result it ends with, and a node's own Finalize may
succeed or fail. Semaphores are left out, since every wait on them has a timeout
after which the thread looks anyway. A connection may be lost in any state in
which its thread is in the receive loop, and a lost connection returns its jobs
one by one.

### JobLedger

For each job: `idle`, `pending`, a published result, a conclusion. A pending job
is published once, a published one is concluded with a state that follows from
its result, and nothing goes back. `DistributedJobs` implements it under the
mapping `Ledger`, whoever worked on the job and whoever won: `ConcludedOnce`.

### JobOwnership

The inductive invariants. `Ownership` says for each distribution state who may
hold the job: a queue, a thread, a connection, a completed list. `Blame` relates
the history of system errors to the deny list. `NoRaceInv` is for builds in which local
races are not allowed: no state of a race occurs (`NoRaces`), each `Job` object is in
somebody's hands (`NoJobIsLost`), and connections, threads and main thread stop in this
order (`StopsInOrder`).

### JobQueueRemote and Server

The other end of the connections: `fbuildworker`. `Clients` are `ClientState`
objects, by address, each with the thread of its connection; one more thread,
`Server::ThreadFunc`, reports results and requests jobs; `WorkerThreads` build.

| Code | Steps |
|---|---|
| `WorkerThreadRemote::Main`, `GetJobToProcess`, `FinishedProcessingJob` | `GetJobToProcess`, `FinishedProcessingJob` (out of `m_InFlightJobs`, or deleted if unhooked), `AppendCompletedJob` |
| `CancelJobsWithUserData` | `CancelPending`, `CancelCompleted`, `UnhookInFlight`: three locks, one after the other |
| `Process(MsgJob)` | `ReceiveJob` and `ProcessJob`: the counters are changed one by one, and outside the lock; then `StartJob` or `HoldJob` with `TakeOwnership` |
| `Process(MsgManifest)` | `ReceiveManifest`, then `RequestMissingFiles` or `CheckWaitingJobs` |
| `Process(MsgFile)` | `ReceiveFile`, then `CheckWaitingJobs` after the last file |
| `OnDisconnected` | `Drop`, `CancelJobs` (three steps), `CancelTools`, `EraseClient`: other threads run in between |
| `FinalizeCompletedJobs` | `TakeCompletedJob`, `ReportResult` |
| `FindNeedyClients` | `BeginRequests`, `RequestJob`, `EndRequests`, with `m_ClientListMutex` held throughout (`ClientListFree`) |

`manifest` and `fileState` are the contents of the `ToolManifest`s, and `owner` is
their user data, the connection a tool chain is coming from; a tool chain never
seen and one without owner and files are the same to the code, so `m_Tools` is
not kept. `askedManifest` and `askedFiles` are the requests under way to a client
and the answers under way from it. A client may announce any number of available jobs, answers a request for a
job with one or none, and answers requests for tool chains in any order.
`session` and `sender` tell one connection from a later one whose `ClientState`
has the same address.

Abstracted: the order within lists and among needy clients, the semaphores (all
waits time out), message headers, hashing and storing of files (any subset
of the files may be found on disk, a file that cannot be stored is a connection
that ends), the shutdown of the worker.

### NodeGraph and IncrementalBuild

What a build system is trusted for: after a build that succeeded every output is
what a clean build would make. `NodeGraph` is one build, `IncrementalBuild` a
sequence of builds with the saved graph between them, the user who changes
files, outputs and the build description, and the ends a build can have.

| Code | Steps |
|---|---|
| `NodeGraph::Initialize`, `Load`, `ParseFromRoot`, `Migrate` | `StartBuild`, with `Initialize` and `Migrated` |
| `DoBuildPass`, `BuildRecurse`, `CheckDependencies` | `StartTarget`, `Descend` into a dependency, `NotReady`, `AlreadyFailed`, and `PreBuildReady`, `StaticReady`, `DynamicReady` when the dependencies of a state are done; the recursion is `stack` |
| `CheckForCyclicDependencies` | `EndSweep`, which reads the counters, then `CheckDescend`, `CheckReturn`, `CycleFound` |
| `JobQueue::FlushJobBatch`, the end of the loop of `FBuild::Build` | `FlushAndDecide` |
| `WorkerThread`, `JobQueue::DoBuild`, `FinishedProcessingJob` | `TakeJob`, `CountJob`, `CancelJob`, then `StampFile` for inputs or `ReadInputs` with `ToolSucceeds` or `ToolFails` for outputs, then `UncountJob`, `AppendCompleted`; `Exit` |
| `JobQueue::FinalizeCompletedJobs`, `Node::Finalize`, `ObjectNode::Finalize` | `FinalizeCompletedJobs`, with `FinalizeNodes` and `Unseen` |
| `FBuild::SaveDependencyGraph` | `SaveBegins`, `SaveEnds`: between the two the file is corrupt |
| `FBuild::AbortBuild`, a process that is killed | `Abort`, `Crash` |

Time of modification is a counter per file which every write moves on, and which
nothing sets back. `made` is not in the code: it is what an output on disk really
was made from, properties and modifications of inputs, or `Foreign` for what
another program or a killed tool wrote. `stamp`, `statics` and `dynamics` are what
the code believes about it. `Fresh` compares `made` with the files as they are.

Three kinds of outputs differ in where dependencies come from: an object learns
them while it is built (`m_Includes`), a library lists them before, from the
listing of a directory (`GatherDynamicDependencies`), other outputs have those
of the build description. What is found is a function of one input, `Lead`.

Abstracted: a tool reads all its inputs in one step, at any moment while it runs;
the order of dependencies in their arrays is any order; a deleted output is one
that another program wrote (to `DetermineNeedToBuildStatic` both have another
time); concurrency groups, distribution, races and the second pass, which
`DistributedJobs` models; aliases, weak dependencies, `-clean`, the cache. A
generated header is a pre-build dependency of the objects that include it
(`GeneratedHeadersFirst`): without it no build system of this kind can order the
first build.

### ClientConnections

What `DistributedJobs` takes for granted of a connection: that its threads come
up and go away in the right order, and that what is to be sent is sent. Each
connection has three threads around it, of which only the client thread is fair
to all workers: it creates a `ClientToWorkerConnection`, sends it availability
and deletes it; its send thread connects, then sends what is queued; the
connection's thread, which exists from `CreateConnectionThread` to the end of
`ConnectionThreadFunction`, receives.

| Code | Steps |
|---|---|
| `Client::ThreadFunc` | `phase`, ended by `EndPhase`, which looks at `m_ShouldExit`; `ShutDown`, `ClientDisconnects` and `Clear` at the end |
| `ConnectToWorkers`, constructor, destructor | `CleanUp`, `Connect`, `DoNotConnect`; `Quit`, `SignalQuit`, `Join` for the three statements of the destructor |
| `CommunicateJobAvailability`, `EnqueueSendJobAvailability` | `Communicate`, `EnqueueSendJobAvailability` (under the lock), `SignalAvailability` (after it) |
| `SendQueueThreadFunc` | `ConnectToWorker`, `CountJobs`, `StoreCount`, `Greet` |
| `SendQueueMainLoop` | `WakeUp`, `TakeMessages` (under the lock), `SendNext`, `AllSent` |
| `SendQueueThreadFuncStatic`, `ShutdownAllConnections` | `Complete`, `SenderShutsDown`, `SenderDisconnects` |
| `Process(MsgRequestJob)`, `EnqueueSend` | `RequestJob`, `TrackJob`, `EnqueueSend`, `SignalReply` |
| `ConnectionThreadFunction`, `OnDisconnected` | `Leave`, `OnDisconnected`, `SignalSender`, `Close` |

`wakeUps` is the semaphore. It is the one wait of the client without a timeout, so a
message without a wake-up would stay where it is. `told` is
`m_NumJobsAvailableSentToClient`, `believed` what the worker was told last; a
message is at the worker once it is sent. A worker asks for as many jobs as it
believes there are, and its results are left to `DistributedJobs`. Other threads
make jobs available and take them (`JobsChange`). A worker that was deleted and
connected again starts with the members of a new object.

## 3. Runs

| Run | Instance | Properties |
|---|---|---|
| `race_two_threads` | 2 jobs in a group limited to one, 2 threads, 1 worker that may connect twice, system errors, lost connections, user abort and fast cancel; 1.4M states | `TypeOK`, `NoUseAfterFree`, `OneWriter`, `FinishedAsExpected`, `GroupsWithinLimit`, `Ownership`, `ConcludedOnce` |
| `race_liveness` | 1 job, 1 thread, 2 workers, faults; 51k states | `SentIsInProgress`, `ErrorsOfDifferentWorkers`, `JobsAreConcluded`, `WaitForCancelEnds` |
| `shutdown` | no races; 2 jobs, 2 threads, a worker too old for one of the jobs; stop on the first error; 0.2M states | `NoRaceInv`, `NoJobOutlivesQueue`, `StopHasCause`, `BuildEnds` |
| `server` | 2 clients, one may leave at any step; 2 jobs, 2 files, 1 slot, 1 thread; 0.13M states | `TypeOK`, `JobsHaveOneHolder`, `JobsStartWithTools`, `ActiveIsExact`, `SlotsNotOverbooked`, `RequestsCanBeAnswered`, `OwnersUpload`, `CompleteToolsAreNoticed`, `ReadyJobsEnd` |
| `graph_rebuilds` | library, object and generated header; 3 builds, 1 change, 1 abort or kill; 3 build descriptions; 0.9M states | `TypeOK`, `SuccessIsFresh`, `QuietBuild`, `ToolsReadFinishedFiles`, `RecordsAreHonest` |
| `graph_cycles` | the same nodes with every two more dependencies, and tools that fail; 88k states | `FailureHasCause`, `CycleIsReal`, `BuildEnds` |
| `client_connections` | 1 worker, connected any number of times; 1 available job, 1 request at a time, 2 wake-ups; 0.4M states | `TypeOK`, `NoUseAfterFree`, `ShutDownBeforeDeleted`, `WakeUpsSuffice`, `ClientExits`, `LostConnectionsEnd`, `MessagesLeave` |
| `race_undisposed`, `race_cancel_deadlock`, `server_orphan_tool`, `server_two_uploads` (3 clients), `graph_lost_edit` | the smallest instance that shows it | one property each, violated: section 5 |

**Bounds.** `MaxConnects` bounds how often a connection to one worker is made,
once or (`race_two_threads`) twice: a second connection adds a worker that received
the job before.
`SystemErrorAttempts` is 2 where the code has 3, so that both outcomes, another
attempt and a failed job, need no more than two workers. One thread and two
workers, and two threads and one worker, give every pair of actors that can meet
at a job; a third side of a race cannot exist, since only a job in state
`BUILDING_REMOTELY` is raced and becomes `RACING`. Two jobs give a thread that is busy
elsewhere and a dependency. TLC reports coverage for every action in the runs
together. Symmetry is used for safety runs only, over identical threads, workers
and, where their dependencies and groups are the same, jobs.

On the worker, `MaxSessions` is 1 (2 lets an address be used again: section 5).
`Offers` are the numbers of jobs a client may announce: two for one slot let requests
exceed what the worker should take, and two files let a client leave between them. In
`server` one of the two clients may leave, so that there is one that inherits a tool
chain and its jobs. No safety property of the run depends on that: `RequestsCanBeAnswered`,
`OwnersUpload`, `CompleteToolsAreNoticed` and the others are proved for any number of
clients, departures at the same time, tool chains and files (section 4). What does break
with a third client is in `server_two_uploads`. `MaxLeaving`, the number of
connections that end at the same time, is 1 in every run. `ReadyJobsEnd` names this as
its premise (`OneLeavesAtATime`); without it the property is false (section 5).

In the graph, `MaxBuilds` is 3: one to make the outputs, one that is interrupted or
meets the change, and one that is judged. `MaxEdits` and `MaxInterruptions` are 1
each, at any step, so that a change and an interruption still meet in either
order. The graph has each kind of output, a dependency of each kind (pre-build,
static, dynamic), a header that an edit of the source adds or removes and that
may be deleted, and an output that two others read. During a build only `src` may
change: a change of a header then is the finding `graph_lost_edit`. In
`graph_cycles` the bound is on the number of added dependencies (two; and one
graph with three, in which a node fails during a visit below its own), which gives
cycles of one, two and three outputs, through every kind of dependency.

The connections of a client share the client thread, the number of available jobs
and nothing else, so `client_connections` has one worker; that this misses nothing
of the safety properties is what their proofs, for any number of workers, show.
One available job and none are what `CommunicateJobAvailability` tells apart. More
than two wake-ups (`MaxSignals`) make no difference to a thread that waits, as at
most the status and the queue are pending. `MaxRequests` is the number of
answers under way.

**Deadlock.** `CHECK_DEADLOCK FALSE` stands in the runs in which a race can meet
the end of a build, because the code does stop there: this is the finding
`race_cancel_deadlock`. `main = "done"` stutters in `Finished`.

**Fairness.** Weak fairness for each worker thread, for what a connection's
thread does on its own, and for the main thread: the operating system runs them,
and each of their waits has a timeout. Weak fairness for the answer of a remote
worker: it assumes that a worker finishes what it was given (a hung worker is
found by the code only through its connection). Weak fairness for the disconnection
once the main thread shuts connections down, since `ShutdownAllConnections`
closes every socket. Nothing is assumed of connecting, of a worker's requests
for jobs, of lost connections or of the user.

In `IncrementalBuild`: weak fairness for the main thread as one, and for the worker
threads as one, whose jobs in a build are finitely many. Nothing is assumed of
the user.

In `ClientConnections`: weak fairness for the client thread, for each send thread
(its attempts to connect and to send have timeouts) and for what the thread of a
connection does on its own outside its receive loop. Nothing is assumed of requests, of
the number of jobs, of the network or of the moment at which the client is deleted. Nor is
it assumed that a connection's thread leaves its receive loop when it should: it may
be in `OnReturnRemoteJob` (`JobQueue.cpp:598`) and wait for the local side of a race, whose end is
not in this module. `ClientExits` and `LostConnectionsEnd` state that such waits end as
their premise, `RaceWaitsEnd`. With races allowed, the default, the code does not keep
this when the build is stopped: `race_cancel_deadlock` is the counterexample. Where races are not
allowed, there are no such waits.

In `Server`: weak fairness for each thread, and for the answers of a client that
is connected to requests for a manifest or a file (the client's code answers each,
or disconnects). Strong fairness for the two steps of a connection thread that need
`m_ClientListMutex`: the thread of the server takes it again and again, but waits
up to 100 ms in between, so whoever else wants it gets it.

## 4. Proofs

All theorems are for any set of jobs, threads and workers (finite), any
dependencies, groups, limits and options: `ConstantsAssumption`. Those about the
graph are for any finite set of nodes, any build descriptions (with cycles or
without), anything an object or a library may list, any number of builds, edits
and interruptions, and any options: `GraphAssumption`, `BuildAssumption`. Those
about connections are for any finite set of workers, any limit of connections and
any numbers of jobs and requests: `ClientAssumption`. Those about `Server` are for
any finite sets of jobs and clients, and any worker threads, tool chains, files,
slots and offers: `QueueAssumption`, `ServerAssumption`.

| Theorem | Statement | Argument |
|---|---|---|
| `TypeCorrect` | `Spec => []TypeOK` | inductive as it stands; a lemma per group of actions |
| `OwnershipCorrect` | `Spec => []Ownership` | inductive together with `TypeOK` |
| `NoJobIsUsedAfterFree` | `Spec => []NoUseAfterFree` | `UsedJobsAreLive` with `Ownership` |
| `JobsHaveOneWriter` | `Spec => []OneWriter` | a writer is a holder, and the states keep them apart |
| `SentJobsAreInProgress` | `Spec => []SentIsInProgress` | `RemoteJobs`, `OneConnPerJob` |
| `JobsFinishAsExpected` | `Spec => []FinishedAsExpected` | `ThreadJobs`, `OwnedJobs`, `CancelledJobsAreAborted` |
| `JobsAreConcludedOnce` | `Spec => ConcludedOnce` | each step is one of `JobLedger`, under the mapping `Ledger`, or a stutter |
| `GroupsStayWithinLimits` | `Spec => []GroupsWithinLimit` | inductive with `Ownership`: what a batch hands over was not counted, what is finalized was |
| `WithoutRaces`, `QueueLeavesNothing` | `~AllowLocalRace` implies `Spec => []NoRaceInv`, `Spec => []NoJobOutlivesQueue` | `NoRaceInv`, inductive with `Ownership` |
| `BuildsStopForACause` | `~AllowLocalRace` implies `Spec => []StopHasCause` | no step forgets a failed job; `NoRaces` |
| `BuildTypeCorrect` | `Spec => []TypeOK` | inductive with `TypeInv`: the saved graph, the jobs held and the threads that stopped, what a running tool has read, and the state at rest |
| `CyclesAreReal` | `Spec => CycleIsReal` | `CheckPath`: the stack of the check is a path in the graph, so a node found in it again closes a cycle |
| `FinishedFilesAreRead` | `Spec => []ToolsReadFinishedFiles` | `OrderInv`, inductive with the types |
| `HonestRecords` | `HeadersAreStable` implies `Spec => []RecordsAreHonest` | `StampInv`, inductive with `OrderInv` |
| `IncrementalBuildsAreFresh` | `HeadersAreStable` implies `Spec => []SuccessIsFresh` | `FreshInv`, inductive with `StampInv` |
| `FailuresHaveCause` | `Spec => []FailureHasCause` | `CauseInv`, inductive with `OrderInv` and `CheckPath` |
| `RepeatedBuildsAreQuiet` | `Spec => []QuietBuild` | `QuietInv`, inductive with `OrderInv`: what a finished build leaves in memory and in the file is settled |
| `ConnectionsTypeCorrect` | `Spec => []TypeOK` | `AnswerInv`: an answer queued, or about to be, is one to a request that counts |
| `ThreadsUseWhatExists`, `PoolsAreShutDown` | `Spec => []NoUseAfterFree`, `Spec => []ShutDownBeforeDeleted` | `LivesInv`: how the lives of the threads and objects nest |
| `NoWakeUpIsLost` | `Spec => []WakeUpsSuffice` | `WakeInv`, with `FreshInv` for new objects |
| `TypeCorrect` (`ServerProofs`) | `OneSession` implies `Spec => []TypeOK` | `TypeInv`, and `CountInv` for the counter that could go below zero |
| `OneHolderEach` | `Spec => []JobsHaveOneHolder` | `JobInv`: what is in a list exists, what exists is in a list, the lists are apart |
| `StartWithTools` | `Spec => []JobsStartWithTools` | `ToolInv`: a complete tool chain stays complete, since only its owner is asked for a manifest, and only a missing one |
| `ActiveExact` | `OneSession` implies `Spec => []ActiveIsExact` | `CountInv`, with `JobInv` for the jobs whose deletion is not counted |
| `SlotsShared` | `OneSession` implies `Spec => []SlotsNotOverbooked` | `SlotInv`: every client's share of the requested jobs is paid for by a slot |
| `RequestsAnswerable` | `Spec => []RequestsCanBeAnswered` | `UploadInv`: who is asked is connected, owns the tool chain and needs it |
| `OwnersAreUploading` | `OneSession` implies `Spec => []OwnersUpload` | `OwnersInv` on top of `UploadInv`: what is being synchronized has been asked for, and what was handed to a client that leaves stays with a connection that has ended |
| `CompleteToolsNoticed` | `Spec => []CompleteToolsAreNoticed` | inductive with `UploadInv`: a thread that completes a tool chain is on its way to the jobs that wait, and no job is put on hold for a complete one |
| `SystemErrorsAreOfDifferentWorkers` | `Spec => []ErrorsOfDifferentWorkers` | `Blame`, inductive on its own |

`NoUseAfterFree` is not inductive. That the main thread may delete a job
depends on nobody else having it, which follows from the job's state only if
every place a job can be in admits just some states. `Ownership` is that table:
who queues, builds, races, tracks, awaits, owns or publishes a job, in which
state, with how many others, and while its node has which state. Its fourteen
parts are proved together, one lemma per action and one step per part the action
can disturb; `race_two_threads` checks `Ownership` as an invariant as well.

The refinement (`JobQueueProofs`) rests on what `Ledger` can tell of a job: the state of its
node, its result, and whether the queue is done with it (`Gone`). `EntriesTell` says so
without the choice in `Ledger`; that the choice is unique is `OnePublication`. Four kinds
of steps are those of `JobLedger` (a thread or a connection that appends a result, `FinalizeNode`,
`BuildPass`, `DestroyJobQueue`), and all others keep places and results (`SamePlaces`,
`SameResults`): they delete, for instance, only jobs that were reaped before. The groups
count the jobs that are not `Gone`, so the same lemmas serve for them.

`~AllowLocalRace` is a hypothesis of three theorems, and each needs it: with races a job
may stay in progress for ever (the finding of `race_undisposed`), and a failure that
stopped the build may be cancelled afterwards (section 5).

`TypeOK` of the graph is not inductive either: that `exited` stays below
`NumWorkerThreads` needs the number of jobs the threads hold (`ThreadsCounted`,
with the cardinality of the set of held jobs before and after each step), the
contents an output gets are those a tool has read (`HasRead`), and a graph is
loaded that was saved before, perhaps by another build (`DbType`).

The invariant of `CyclesAreReal` is where the interleavings are: states, dynamic
dependencies and jobs do not change while the main thread checks, whatever the
worker threads do, because they touch none of them. `CheckPath` says that each
node on the stack of the check is a dependency of the one before it, in a graph
that stays as it is.

That a successful build is fresh is proved in three layers (`RebuildProofs`), each
inductive on top of those before it:

* `OrderInv`: a node that got past a state has its dependencies of that state up
  to date, a job's node is building, and what a running tool reads is finished.
* `StampInv`: a node's stamp is zero or the time of the file at some point since
  it was looked at, never later than the file's; if an output's stamp is not
  zero, what the records list is what it was made from; saved graphs say the
  same of their builds.
* `FreshInv`: while nothing is changed during the build, an output that is up to
  date is `Fresh`, from which `SuccessIsFresh` follows when all targets are.

`HeadersAreStable` is a hypothesis about the constants: no file an object may list
as an include is among the files edited during a build. It cannot be dropped,
`graph_lost_edit` is the counterexample, and with it everything else may happen:
kills, aborts, edits of sources during the build and of anything between builds,
new build descriptions. So the lost edit of an include is the only way, within
the model, for an incremental build to be wrong.

For connections, that no wake-up is lost counts: the status and the queue that
wait, one each, are at most the wake-ups given plus those about to be given, and
one more while the thread that woke up has not taken anything yet. A step
that queues adds one to both sides before it signals; `TakeMessages` takes from
both. The two numbers are kept as operators (`WaitingOf`, `ComingOf`), and one
lemma per step says how it changes them.

The proofs about `Server` stand in the order in which one needs the other. `JobInv`
and `ToolInv` hold whatever clients do. In `JobInv` a job that
`CancelJobsWithUserData` misses is still in one place, although its client is
gone; the step that would break it is `FinishedProcessingJob` between its two
locks. `UploadInv` relates what is asked of a client (`askedManifest`,
`askedFiles`) to the state of the files, to their owner and to the jobs that wait.
Handing a tool chain over (`TakeOwnership`, `RequestMissingFiles`, `EraseClient`) is
one lemma, `Handover`. Any number of clients may leave at the same time. A tool chain may
then be handed to a client that leaves as well, and the invariant says what becomes of
it: its owner is a connection that has ended (`Ended`), and nothing is asked of it. So
`OwnersUpload` is about owners that are connected, which is what
`Process(MsgJob)` needs of them and all that the code provides.

One hypothesis is left, `OneSession` (`MaxSessions <= 1`: a `ClientState` does not get the
address of a deleted one). It is needed for the number of active jobs: a new `ClientState`
at an old address inherits jobs that the cancellation missed, and its counter does not count
them (`ResultsGoToSender`, section 5). And it is needed for `OwnersUpload`: a new
connection at the address of an owner that ended while a tool chain was handed to it is
taken for the owner.

Only model-checked: liveness
(`JobsAreConcluded`, `WaitForCancelEnds`, both `BuildEnds`, `ReadyJobsEnd`, `ClientExits`,
`LostConnectionsEnd`, `MessagesLeave`). Liveness under fairness and `ENABLED` are not within
the prover's reach. Every invariant and every action property of the passing runs,
and the refinement, is a theorem.

## 5. Findings

1. `race_undisposed`: `JobQueue.cpp:763` asserts that a
   job that cannot be deleted yet is racing. A race whose connection drops, or
   that a remote result decides, between the local thread's publication of its
   result and the main thread's turn breaks it. A release build keeps the job in
   progress for ever, and it leaks.
2. `race_cancel_deadlock`: `FBuild::Build` deletes the `Client` before it finalizes
   the last completed jobs. A connection that waits for the cancellation of a
   local race that has completed waits for `FinalizeCompletedJobs`, which the main
   thread, waiting for the connection, does not reach.
3. `server_orphan_tool`: a client that leaves before it sent the manifest of a
   tool chain leaves it to nobody, although another client's job waits for it:
   `OnDisconnected` asks that client for the missing files, of which none is known.
   The job takes a slot until some client sends another job for the tool chain.
4. `server_two_uploads`: with three clients, two assertions of the code fail. The first
   client uploads a tool chain and leaves; between `OnDisconnected`'s two loops
   (`Server.cpp:144` and `:146`) its owner is nobody. The second client sends a job, is
   asked for the manifest, and sends it. Before it is asked for the files, the first
   client's thread finds the third one waiting and asks that one for all of them: files are
   requested from one connection while the tool chain comes from another
   (`Server.cpp:825`, state 25 of the trace). When the third's last file has arrived
   before the second's thread looks at `IsSynchronized` (`Server.cpp:474`), both threads
   find the tool chain complete, and the later one finds no job that waits: the assertion
   `atLeastOneJobStarted` fails (`Server.cpp:599`). If the second's thread looks earlier,
   it has no file left to ask for. A release build is not harmed.
5. `graph_lost_edit`: `ObjectNode::Finalize` stamps an include that has no stamp yet
   with its time of modification when the object is finalized, not when it was
   read. A header edited in between is taken to be in the object, and the object
   is not made again until the header changes once more. The changelog
   (`Tools/FBuild/Documentation/docs/changelog.html:881`) says that files modified
   during a build are rebuilt correctly.

More that the modules can show, with no run of their own:

* `StopHasCause` of `DistributedJobs`, with races and stop on first error
  (`shutdown.cfg` with `AllowLocalRace = TRUE`): `WorkerThread::Update` reads the state of
  a race without the lock (`WorkerThread.cpp:213`), so a local failure stops the
  build although its result is then discarded because the remote side wins.
* `ResultsGoToSender` of `Server`, with `MaxSessions = 2`: `CancelJobsWithUserData`
  (`JobQueueRemote.cpp:195`) misses a job between `m_InFlightJobs` and a completed list,
  and all failed ones. They keep the address of the deleted `ClientState`, and if
  a new one was allocated there, its client receives a result of a job it did
  not send.
* `SomebodyUploads` of `Server` with three clients and `MaxLeaving = 2`, also for tool chains whose
  manifest is known, and `ReadyJobsEnd` without its premise: of two clients that leave at
  the same time the first hands its tool chain to the second (`Server.cpp:156`), which is
  still listed and has already cancelled its own. The tool chain, its manifest known,
  stays with a connection that is gone, and each later job for it waits.
* `WorkersAreTold` of `ClientConnections`: a worker may be left without work although
  `ThreadFunc` says "Ensure workers are updated with the state of available work"
  (`Client.cpp:259`). The client thread queues the status that there are no jobs for a connection that is still being made,
  a job becomes available, the send thread counts it, stores 1 in
  `m_NumJobsAvailableSentToClient` and tells the worker in its first message, and then
  sends the older status: the worker believes that there are none, and as the
  client believes that it told the worker 1, no update comes until the number
  changes again.
* The assertion in `SendQueueMainLoop` that a send that failed finds `m_SendThreadQuit`
  set (`Client.cpp:1297`, "If the send fails, we should be disconnected"): `SendInternal`
  only sets the connection's `m_ThreadQuitNotification`, and its thread sets
  `m_SendThreadQuit` when it has seen this. Without assertions the send thread goes on
  with sends that fail at once until it sees it, so nothing is lost.

## 6. Not modelled, and the plan

Not modelled in `DistributedJobs`: the build on the main thread when there are no
worker threads, the messages about availability and the send queue
(`ClientConnections` has them), tool chains, the order in which jobs are taken, statistics and
progress output. Not modelled in `ClientConnections`: requests for manifests and
files and job results as causes of messages, the acknowledgement of a
connection, messages on their way (a sent one has arrived), the listening
side of `TCPConnectionPool`. Not modelled in `NodeGraph` and `IncrementalBuild`: what section 2 lists as
abstracted, a graph that was moved or is of another version (parsed afresh, as a
corrupt one is), and a build description that cannot be parsed (no build
begins). Not modelled in `Server`: its shutdown, threads that are
disabled while the worker's user works, corrupt messages other than as the end of
the connection. Process, Cache, WorkerBrokerage and the parser are file and
operating system interfaces or sequential code.

Plan, in this order:

1. (done) `DistributedJobs`, `JobLedger`, `JobOwnership` and the proofs of all safety
   properties, the refinement among them.
2. (done) `JobQueueRemote` and `Server`, and the proofs of their safety properties. Left:
   the shutdown of the worker.
3. (done) `NodeGraph` and `IncrementalBuild`, and the proofs of `TypeOK`, `CycleIsReal`,
   `ToolsReadFinishedFiles`, `RecordsAreHonest`, `SuccessIsFresh`, `FailureHasCause` and
   `QuietBuild`.
4. (done) `ClientConnections`, and the proofs of its safety properties. Left:
   `WorkersAreTold` once the client is changed, and the worker's pool, with the
   listening thread.
5. `WorkSignal`: the semaphore of the queue against lost wake-ups; `SubQueueMerge`:
   the merging of `JobSubQueue` against a reference definition.
