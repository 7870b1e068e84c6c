---------------------------- MODULE NodeGraph ----------------------------
(***************************************************************************)
(* One build of the dependency graph (FBuildCore/Graph, FBuild::Build).    *)
(*                                                                         *)
(* The main thread sweeps the graph again and again. A sweep               *)
(* (NodeGraph::DoBuildPass) descends from the targets, takes every node as *)
(* far as its dependencies allow and hands what must be built to the       *)
(* JobQueue. Worker threads build; between two sweeps the main thread      *)
(* finalizes what they completed. The sweep is modelled node by node, with *)
(* the stack of BuildRecurse, so that threads and the user may act between *)
(* any two of its steps.                                                   *)
(*                                                                         *)
(* Data is reduced to what decides about a rebuild: a file is its time of  *)
(* modification, a counter of its own that every write moves on, and an    *)
(* output remembers which modification of each input it was made from.     *)
(* Jobs are local ones with one pass; DistributedJobs models the others.   *)
(***************************************************************************)
EXTENDS Naturals, Sequences, FiniteSets, SequencesExt

CONSTANTS
    Files,              \* inputs: FileNode, DirectoryListNode
    Objects,            \* ObjectNode: finds its dependencies while it is built
    Libraries,          \* LibraryNode: lists its dependencies before it is built
    Tools,              \* other outputs, with the dependencies of the bff only
    Bffs,               \* build descriptions: see BffType
    Lead,               \* the file in which an object or a library lists dependencies
    Discovers,          \* what it lists, in its first, second, ... modification
    NumWorkerThreads,   \* FBuildOptions::m_NumWorkerThreads
    StopOnFirstError,   \* FBuildOptions::m_StopOnFirstError
    FastCancel,         \* FBuildOptions::m_FastCancel
    Faulty,             \* the nodes whose build may fail
    Foreign             \* contents of an output that no build made

Outputs == Objects \cup Libraries \cup Tools
Nodes == Files \cup Outputs
Listing == Objects \cup Libraries

\* Pre-build and static dependencies, and the properties of a node (the ones
\* AreNodesTheSame compares), as the parser creates them.
BffType == [pre: [Outputs -> SUBSET Nodes], static: [Outputs -> SUBSET Nodes],
            props: [Outputs -> Nat]]

\* An output is made with the properties of its node, from some modification of each input
ContentsType == [props : Nat, from : UNION {[S -> Nat] : S \in SUBSET Nodes}]

\* The dependencies that n finds in modification m of its lead file
Found(n, m) == IF m = 0 THEN {} ELSE Discovers[n][1 + (m % Len(Discovers[n]))]

ASSUME GraphAssumption ==
    /\ IsFiniteSet(Nodes)
    /\ Files \cap Outputs = {}
    /\ Objects \cap Libraries = {} /\ Objects \cap Tools = {} /\ Libraries \cap Tools = {}
    /\ Bffs \subseteq BffType
    /\ Lead \in [Listing -> Files]
    /\ Discovers \in [Listing -> Seq(SUBSET Nodes)]
    /\ \A n \in Listing : Discovers[n] # <<>>
    /\ \A b \in Bffs : \A n \in Listing : Lead[n] \in b.static[n]
    /\ NumWorkerThreads \in Nat \ {0}
    /\ Foreign \notin ContentsType

\* A generated header is a pre-build dependency of the objects that include it (what
\* the documentation asks of a build description).
ASSUME GeneratedHeadersFirst ==
    \A b \in Bffs : \A n \in Objects : \A i \in DOMAIN Discovers[n] :
        Discovers[n][i] \cap Outputs \subseteq b.pre[n]

VARIABLES
    mtime,      \* time of modification of each file, 0 for a missing one
    made,       \* what an output on disk was made from: properties and inputs
    bff,        \* the build description that the graph was parsed from
    state,      \* Node::m_State
    stamp,      \* Node::m_Stamp
    statics,    \* Node::m_StaticDependencies: the stamp recorded for each
    dynamics,   \* Node::m_DynamicDependencies: the stamp recorded for each
    built,      \* the nodes with STATS_BUILT
    job,        \* where the job of a node is, and its result
    read,       \* the inputs a tool has read: properties and modifications
    main,       \* what the main thread does
    targets,    \* the dependencies of the proxy node
    todo,       \* the targets this sweep has still to look at
    stack,      \* the nodes BuildRecurse (or the check for cycles) is in
    tagged,     \* the nodes with the tag of the current sweep
    stopBuild,  \* s_StopBuild
    stopping,   \* local of FBuild::Build: the workers were told to stop
    exited      \* the number of worker threads that have stopped

disk == <<mtime, made>>
graph == <<bff, state, stamp, statics, dynamics, built>>
queue == <<job, read>>
sweep == <<todo, stack, tagged>>
control == <<targets, stopBuild, stopping, exited>>

---------------------------------------------------------------------------
\* States of nodes

Pending == {"NOT_PROCESSED", "STATIC_DEPS", "DYNAMIC_DEPS"}
Final == {"UP_TO_DATE", "FAILED"}
NodeStates == Pending \cup {"BUILDING"} \cup Final

\* Jobs: in the staging queue of their concurrency group, in m_LocalJobs_Available,
\* taken but not counted, counted as active and running, having read their inputs, with
\* a result, no longer counted, and in one of the lists of completed jobs.
Places == {"none", "staged", "available", "taken", "active", "reading", "ended",
           "uncounted", "completed"}
Held == {"taken", "active", "reading", "ended", "uncounted"}
Counted == {"active", "reading", "ended"}
NoJob == [at |-> "none", result |-> "none"]

At(place) == {n \in Nodes : job[n].at \in place}
Move(n, place) == job' = [job EXCEPT ![n].at = place]

Unstamped(deps) == [d \in deps |-> 0]

---------------------------------------------------------------------------
(* Worker threads: WorkerThread::Update, JobQueue::DoBuild                 *)

\* A thread looks whether it should stop before it looks for a job, and again after
\* a job: one that was past the first test takes a job after the stop.
IdleOrStopped == Cardinality(At(Held)) < NumWorkerThreads
Idle == Cardinality(At(Held)) + exited < NumWorkerThreads
ShouldExit == stopBuild \/ stopping

Exit ==
    /\ ShouldExit
    /\ Idle
    /\ exited' = exited + 1
    /\ UNCHANGED <<disk, graph, queue, main, sweep, targets, stopBuild, stopping>>

TakeJob(n) ==
    /\ job[n].at = "available"
    /\ Idle
    /\ Move(n, "taken")
    /\ UNCHANGED <<disk, graph, read, main, sweep, control>>

CountJob(n) ==
    /\ job[n].at = "taken"
    /\ Move(n, "active")
    /\ UNCHANGED <<disk, graph, read, main, sweep, control>>

\* With fast cancel, JobQueue::DoBuild fails what it is given after a stop, and
\* the tools that run are killed (s_AbortBuild)
Cancelling == FastCancel /\ stopBuild
Killing == FastCancel /\ ShouldExit

CancelJob(n) ==
    /\ job[n].at = "active"
    /\ Cancelling
    /\ job' = [job EXCEPT ![n] = [at |-> "ended", result |-> "failed"]]
    /\ UNCHANGED <<disk, graph, read, main, sweep, control>>

\* FileNode::DoBuild
StampFile(n) ==
    /\ n \in Files
    /\ job[n].at = "active"
    /\ ~Cancelling
    /\ stamp' = [stamp EXCEPT ![n] = mtime[n]]
    /\ built' = built \cup {n}
    /\ job' = [job EXCEPT ![n] = [at |-> "ended", result |-> "ok"]]
    /\ UNCHANGED <<disk, bff, state, statics, dynamics, read, main, sweep, control>>

\* What a tool reads for node n: an object the files it includes now, a library
\* the objects it has listed. The listing itself was read by the node it depends on.
Inputs(n) ==
    bff.static[n] \cup (IF n \in Objects THEN Found(n, mtime[Lead[n]])
                                         ELSE DOMAIN dynamics[n])

Modification(n, d) == IF n \in Libraries /\ d = Lead[n] THEN stamp[d] ELSE mtime[d]

ReadInputs(n) ==
    /\ n \in Outputs
    /\ job[n].at = "active"
    /\ ~Cancelling
    /\ read' = [read EXCEPT ![n] = [props |-> bff.props[n],
                                    from |-> [d \in Inputs(n) |-> Modification(n, d)]]]
    /\ Move(n, "reading")
    /\ UNCHANGED <<disk, graph, main, sweep, control>>

Write(n, contents) ==
    /\ mtime' = [mtime EXCEPT ![n] = @ + 1]
    /\ made' = [made EXCEPT ![n] = contents]

\* The tool wrote its output: RecordStampFromBuiltFile
ToolSucceeds(n) ==
    /\ n \in Outputs
    /\ job[n].at = "reading"
    /\ \A d \in DOMAIN read[n].from : read[n].from[d] # 0
    /\ Write(n, read[n])
    /\ stamp' = [stamp EXCEPT ![n] = mtime'[n]]
    /\ built' = built \cup {n}
    /\ job' = [job EXCEPT ![n] = [at |-> "ended", result |-> "ok"]]
    /\ UNCHANGED <<bff, state, statics, dynamics, read, main, sweep, control>>

\* It failed, or was killed when the build was stopped, and may have written something
ToolFails(n) ==
    /\ n \in Outputs
    /\ job[n].at = "reading"
    /\ \E result \in {"failed", "aborted"} :
        /\ \/ /\ result = "failed"
              /\ n \in Faulty \/ \E d \in DOMAIN read[n].from : read[n].from[d] = 0
           \/ result = "aborted" /\ Killing
        /\ job' = [job EXCEPT ![n] = [at |-> "ended", result |-> result]]
        /\ stopBuild' = (stopBuild \/ (result = "failed" /\ StopOnFirstError))
    /\ Write(n, Foreign) \/ UNCHANGED disk
    /\ UNCHANGED <<graph, read, main, sweep, targets, stopping, exited>>

\* JobQueue::FinishedProcessingJob: the counter, then the list
UncountJob(n) ==
    /\ job[n].at = "ended"
    /\ Move(n, "uncounted")
    /\ UNCHANGED <<disk, graph, read, main, sweep, control>>

AppendCompleted(n) ==
    /\ job[n].at = "uncounted"
    /\ Move(n, "completed")
    /\ exited' = IF ShouldExit THEN exited + 1 ELSE exited
    /\ UNCHANGED <<disk, graph, read, main, sweep, targets, stopBuild, stopping>>

WorkerStep(n) ==
    \/ TakeJob(n) \/ CountJob(n) \/ CancelJob(n) \/ StampFile(n) \/ ReadInputs(n)
    \/ ToolSucceeds(n) \/ ToolFails(n) \/ UncountJob(n) \/ AppendCompleted(n)

---------------------------------------------------------------------------
(* Finalization: JobQueue::FinalizeCompletedJobs, Node::Finalize,          *)
(* ObjectNode::Finalize                                                    *)

Succeeded == {n \in At({"completed"}) : job[n].result = "ok"}

Includes(n) == DOMAIN read[n].from \ bff.static[n]

\* Files seen for the first time, as an include of an object just built
NothingUnseen == {}
Unseen == {d \in Files \ built :
            stamp[d] = 0 /\ \E n \in Succeeded \cap Objects : d \in Includes(n)}

FinalizeNodes ==
    LET stamped(deps) == [d \in deps |-> stamp'[d]]
    IN  /\ stamp' = [d \in Nodes |-> IF d \in Unseen THEN mtime[d] ELSE stamp[d]]
        /\ statics' = [n \in Outputs |->
                IF n \in Succeeded THEN stamped(DOMAIN statics[n]) ELSE statics[n]]
        /\ dynamics' = [n \in Outputs |->
                IF n \notin Succeeded THEN dynamics[n]
                ELSE stamped(IF n \in Objects THEN Includes(n) ELSE DOMAIN dynamics[n])]
        /\ state' = [n \in Nodes |->
                CASE n \in Succeeded -> "UP_TO_DATE"
                  [] n \in At({"completed"}) /\ job[n].result = "failed" -> "FAILED"
                  [] OTHER -> state[n]]
        /\ UNCHANGED <<bff, built>>

\* ~JobQueue deletes the jobs no worker took. It runs after the workers have stopped.
Remaining(last) ==
    [n \in Nodes |-> IF job[n].at = "completed" \/ last THEN NoJob ELSE job[n]]

FinalizeCompletedJobs ==
    /\ main = "finalize"
    /\ FinalizeNodes
    /\ LET last == stopping /\ exited = NumWorkerThreads
       IN  /\ job' = Remaining(last)
           /\ main' = CASE last -> "save" [] stopping -> "finalize" [] OTHER -> "sweep"
    /\ todo' = IF stopping THEN {} ELSE targets
    /\ tagged' = {}
    /\ UNCHANGED <<disk, read, stack, control>>

---------------------------------------------------------------------------
(* A sweep: NodeGraph::DoBuildPass, BuildRecurse, CheckDependencies        *)

\* The dependencies that the node's state asks to be checked
CheckedStatic(n) ==
    IF n \in Files THEN {}
    ELSE CASE state[n] = "STATIC_DEPS"   -> bff.static[n]
           [] state[n] = "DYNAMIC_DEPS"  -> DOMAIN dynamics[n]
           [] OTHER -> {}
Checked(n) ==
    IF n \in Files THEN {}
    ELSE CASE state[n] = "NOT_PROCESSED" -> bff.pre[n]
           [] state[n] = "STATIC_DEPS"   -> bff.static[n]
           [] state[n] = "DYNAMIC_DEPS"  -> DOMAIN dynamics[n]
           [] OTHER -> {}

Open(n) == {d \in Checked(n) : state[d] \in Pending /\ d \notin tagged}
Failed(n) == {d \in Checked(n) : state[d] = "FAILED"}

Sweeping(n) == main = "sweep" /\ stack # <<>> /\ n = Last(stack)

\* DoBuildPass calls BuildRecurse for a target whether or not it is tagged
StartTarget(t) ==
    /\ main = "sweep" /\ stack = <<>>
    /\ t \in todo
    /\ todo' = todo \ {t}
    /\ stack' = IF state[t] \in Pending THEN <<t>> ELSE <<>>
    /\ UNCHANGED <<disk, graph, queue, main, control, tagged>>

Descend(n, d) ==
    /\ Sweeping(n)
    /\ d \in Open(n)
    /\ tagged' = tagged \cup {d}
    /\ stack' = Append(stack, d)
    /\ UNCHANGED <<disk, graph, queue, main, control, todo>>

Return == stack' = Front(stack)

\* Dependencies that failed, or that must be waited for
NotReady(n) ==
    /\ Sweeping(n)
    /\ LET fails == IF StopOnFirstError THEN Failed(n) # {}
                    ELSE Failed(n) # {} /\ \A d \in Checked(n) : state[d] \in Final
       IN  /\ fails \/ Open(n) = {}
           /\ \E d \in Checked(n) : state[d] # "UP_TO_DATE"
           /\ state' = IF fails THEN [state EXCEPT ![n] = "FAILED"] ELSE state
    /\ Return
    /\ UNCHANGED <<disk, bff, stamp, statics, dynamics, built, queue, main, control, todo, tagged>>

Ready(n, s) ==
    /\ Sweeping(n)
    /\ state[n] = s
    /\ \A d \in Checked(n) : state[d] = "UP_TO_DATE"

\* On a cycle, the node failed in a visit below this one
AlreadyFailed(n) ==
    /\ Sweeping(n)
    /\ state[n] = "FAILED"
    /\ Return
    /\ UNCHANGED <<disk, graph, queue, main, control, todo, tagged>>

PreBuildReady(n) ==
    /\ Ready(n, "NOT_PROCESSED")
    /\ state' = [state EXCEPT ![n] = "STATIC_DEPS"]
    /\ UNCHANGED <<disk, bff, stamp, statics, dynamics, built, queue, main, control, sweep>>

\* Node::DetermineNeedToBuild
NeedToBuild(deps) == \E d \in DOMAIN deps : stamp[d] = 0 \/ stamp[d] # deps[d]

\* Node::DetermineNeedToBuildStatic; the inputs have FLAG_ALWAYS_BUILD
NeedToBuildStatic(n) ==
    n \in Files \/ stamp[n] = 0 \/ mtime[n] # stamp[n] \/ NeedToBuild(statics[n])

\* ObjectListNode::GatherDynamicDependencies: the listing is the one of the
\* directory's node, not the one on disk
Listed(n) == IF n \in Libraries THEN Found(n, stamp[Lead[n]]) ELSE {}

\* The node must be built: its stamp is cleared and its dependencies listed again
KeepStamp(n) ==
    /\ dynamics' = IF n \in Files THEN dynamics
                   ELSE [dynamics EXCEPT ![n] = Unstamped(Listed(n))]
    /\ UNCHANGED stamp
DirtyNode(n) ==
    /\ stamp' = [stamp EXCEPT ![n] = 0]
    /\ dynamics' = IF n \in Files THEN dynamics
                   ELSE [dynamics EXCEPT ![n] = Unstamped(Listed(n))]

StaticReady(n) ==
    /\ Ready(n, "STATIC_DEPS")
    /\ \/ /\ IF NeedToBuildStatic(n) THEN DirtyNode(n) ELSE UNCHANGED <<stamp, dynamics>>
          /\ state' = [state EXCEPT ![n] = "DYNAMIC_DEPS"]
          /\ UNCHANGED stack
       \/ \* DoDynamicDependencies fails
          /\ n \in Libraries \cap Faulty
          /\ NeedToBuildStatic(n) /\ DirtyNode(n)
          /\ state' = [state EXCEPT ![n] = "FAILED"]
          /\ Return
    /\ UNCHANGED <<disk, bff, statics, built, queue, main, control, todo, tagged>>

\* Built, through JobQueue::AddJobToBatch, or up to date
DynamicReady(n) ==
    /\ Ready(n, "DYNAMIC_DEPS")
    /\ IF stamp[n] = 0 \/ (n \in Outputs /\ NeedToBuild(dynamics[n]))
       THEN /\ state' = [state EXCEPT ![n] = "BUILDING"]
            /\ Move(n, "staged")
       ELSE /\ state' = [state EXCEPT ![n] = "UP_TO_DATE"]
            /\ UNCHANGED job
    /\ Return
    /\ UNCHANGED <<disk, bff, stamp, statics, dynamics, built, read, main, control, todo, tagged>>

---------------------------------------------------------------------------
(* CheckForCyclicDependencies                                              *)

CompleteWhenBuilding == \A t \in targets : state[t] \in Final \cup {"BUILDING"}
Complete == \A t \in targets : state[t] \in Final

\* What the counters, read one after the other, show. A job that was taken and not
\* counted yet, or is no longer counted and not yet in a list, is not seen,
\* nor is a list of failed jobs.
LooksBusy == FALSE
LooksIdle ==
    /\ At({"staged", "available"} \cup Counted) = {}
    /\ \A n \in At({"completed"}) : job[n].result = "failed"

EndSweep ==
    /\ main = "sweep" /\ stack = <<>> /\ todo = {}
    /\ IF ~Complete /\ LooksIdle
       THEN main' = "check" /\ todo' = targets /\ tagged' = {}
       ELSE main' = "flush" /\ UNCHANGED <<todo, tagged>>
    /\ UNCHANGED <<disk, graph, queue, control, stack>>

\* The dependencies the check follows from the last node of its stack, or from
\* the proxy node
Followed ==
    LET n == Last(stack)
        deps == IF stack = <<>> THEN targets
                ELSE IF n \in Files THEN {}
                ELSE bff.pre[n] \cup bff.static[n] \cup DOMAIN dynamics[n]
    IN  {d \in deps : state[d] \in Pending}

CheckDescend(d) ==
    /\ main = "check"
    /\ d \in Followed \ tagged
    /\ tagged' = tagged \cup {d}
    /\ stack' = Append(stack, d)
    /\ UNCHANGED <<disk, graph, queue, main, control, todo>>

CheckReturn ==
    /\ main = "check"
    /\ Followed \subseteq tagged \ ToSet(stack)
    /\ IF stack = <<>> THEN main' = "flush" /\ UNCHANGED stack
                       ELSE Return /\ UNCHANGED main
    /\ UNCHANGED <<disk, graph, queue, control, todo, tagged>>

\* A node that depends on itself: the build is aborted
NodeFoundAgain ==
    /\ main = "check"
    /\ Followed \cap tagged # {}
    /\ stopBuild' = TRUE
    /\ main' = "flush"
    /\ stack' = <<>>
    /\ UNCHANGED <<disk, graph, queue, todo, tagged, targets, stopping, exited>>
CycleFound ==
    /\ main = "check"
    /\ Followed \cap ToSet(stack) # {}
    /\ stopBuild' = TRUE
    /\ main' = "flush"
    /\ stack' = <<>>
    /\ UNCHANGED <<disk, graph, queue, todo, tagged, targets, stopping, exited>>

---------------------------------------------------------------------------
(* The rest of the loop of FBuild::Build                                   *)

\* FlushJobBatch, then the decision whether to stop
FlushAndDecide ==
    /\ main = "flush"
    /\ job' = [n \in Nodes |-> IF job[n].at = "staged" THEN [job[n] EXCEPT !.at = "available"]
                               ELSE job[n]]
    /\ stopping' = (stopBuild \/ Complete)
    /\ main' = "finalize"
    /\ todo' = {} /\ tagged' = {}
    /\ UNCHANGED <<disk, graph, read, stack, targets, stopBuild, exited>>

AbortBuild ==
    /\ main \notin {"idle", "save", "writing"}
    /\ ~stopBuild
    /\ stopBuild' = TRUE
    /\ UNCHANGED <<disk, graph, queue, main, sweep, targets, stopping, exited>>

MainStep ==
    \/ FinalizeCompletedJobs \/ EndSweep \/ FlushAndDecide
    \/ \E n \in Nodes :
        \/ StartTarget(n) \/ CheckDescend(n)
        \/ NotReady(n) \/ AlreadyFailed(n) \/ PreBuildReady(n) \/ StaticReady(n) \/ DynamicReady(n)
        \/ \E d \in Nodes : Descend(n, d)
    \/ CheckReturn \/ CycleFound
==========================================================================
