------------------------- MODULE IncrementalBuild -------------------------
(***************************************************************************)
(* Builds one after the other, with the saved graph between them           *)
(* (NodeGraph::Initialize, Load, Migrate, Save; FBuild::Build). The user   *)
(* changes files and the build description between builds and during them, *)
(* aborts builds, and FASTBuild may be killed.                             *)
(***************************************************************************)
EXTENDS NodeGraph

CONSTANTS
    FirstBffs,          \* the build descriptions to begin with
    TargetSets,         \* what the user may ask for
    EditedDuringBuild,  \* the inputs that may change while a build runs
    Deletable,          \* the inputs that may be deleted
    MaxBuilds,          \* bound on the number of builds
    MaxEdits,           \* bound on the number of changes by the user
    MaxInterruptions    \* bound on the number of times a build is aborted or killed

ASSUME BuildAssumption ==
    /\ FirstBffs \subseteq Bffs
    /\ TargetSets \subseteq SUBSET Nodes
    /\ EditedDuringBuild \subseteq Files

VARIABLES
    bffOnDisk,      \* the build description the user wrote
    db,             \* the saved graph
    outcome,        \* the result of the last build
    edited,         \* something changed since the last build began
    quiet,          \* and it is the same as the one before, which succeeded
    builds, edits, interruptions

user == <<bffOnDisk, edited, edits>>
session == <<user, db, outcome, quiet, builds, interruptions>>
vars == <<disk, graph, queue, main, sweep, control, session>>

Missing == [kind |-> "missing"]
Corrupt == [kind |-> "corrupt"]

Init ==
    /\ mtime = [n \in Nodes |-> IF n \in Files THEN 1 ELSE 0]
    /\ made = [n \in Outputs |-> Foreign]
    /\ bffOnDisk \in FirstBffs
    /\ db = Missing
    /\ bff = bffOnDisk
    /\ state = [n \in Nodes |-> "NOT_PROCESSED"] /\ built = {}
    /\ stamp = [n \in Nodes |-> 0]
    /\ statics = [n \in Outputs |-> Unstamped(bff.static[n])]
    /\ dynamics = [n \in Outputs |-> Unstamped({})]
    /\ job = [n \in Nodes |-> NoJob] /\ read = [n \in Outputs |-> Foreign]
    /\ main = "idle" /\ targets = {} /\ todo = {} /\ stack = <<>> /\ tagged = {}
    /\ stopBuild = FALSE /\ stopping = FALSE /\ exited = 0
    /\ outcome = "none" /\ edited = FALSE /\ quiet = FALSE
    /\ builds = 0 /\ edits = 0 /\ interruptions = 0

---------------------------------------------------------------------------
(* The beginning of a build: NodeGraph::Initialize                         *)

\* The objects that a library lists are created by it, not by the parser
Listable == {o \in Objects : \E l \in Libraries :
                                 \E i \in DOMAIN Discovers[l] : o \in Discovers[l][i]}

\* NodeGraph::MigrateNode keeps a node of the old graph whose properties are the same and
\* whose pre-build and static dependencies are the same nodes with the same stamps: kept
\* ones, or ones that had none. A node the parser does not define is reached
\* from the dynamic dependencies of one that is kept.
KeepsName(kept, n) ==
    LET before == db.bff
        after == bffOnDisk
    IN  /\ after.pre[n] = before.pre[n] /\ after.static[n] = before.static[n]
        /\ \A d \in (after.pre[n] \cup after.static[n]) \cap Outputs :
                d \in kept \/ db.stamp[d] = 0
        /\ n \in Listable => \E l \in kept : n \in DOMAIN db.dynamics[l]
Keeps(kept, n) ==
    LET before == db.bff
        after == bffOnDisk
    IN  /\ after.props[n] = before.props[n]
        /\ after.pre[n] = before.pre[n] /\ after.static[n] = before.static[n]
        /\ \A d \in (after.pre[n] \cup after.static[n]) \cap Outputs :
                d \in kept \/ db.stamp[d] = 0
        /\ n \in Listable => \E l \in kept : n \in DOMAIN db.dynamics[l]

\* (Dependencies are migrated first: on a graph without cycles there is one such set.)
Migrated == UNION {kept \in SUBSET Outputs : \A n \in kept : Keeps(kept, n)}

\* A fresh graph by parsing, the loaded one, or a fresh one with what can be migrated.
\* The stamps of FileNodes are not saved.
Initialize ==
    LET kept == IF db.kind # "saved" THEN {}
                ELSE IF db.bff = bffOnDisk THEN Outputs
                ELSE Migrated
    IN  /\ bff' = bffOnDisk
        /\ stamp' = [n \in Nodes |-> IF n \in kept THEN db.stamp[n] ELSE 0]
        /\ statics' = [n \in Outputs |-> IF n \in kept THEN db.statics[n]
                                         ELSE Unstamped(bffOnDisk.static[n])]
        /\ dynamics' = [n \in Outputs |-> IF n \in kept THEN db.dynamics[n]
                                          ELSE Unstamped({})]

StartBuild(ts) ==
    /\ main = "idle"
    /\ builds < MaxBuilds
    /\ builds' = builds + 1
    /\ Initialize
    /\ main' = "finalize"
    /\ targets' = ts
    /\ edited' = FALSE
    /\ quiet' = (outcome = "ok" /\ ~edited /\ ts = targets)
    /\ outcome' = "none"
    /\ UNCHANGED <<disk, state, built, queue, sweep, stopBuild, stopping, exited,
                   bffOnDisk, db, edits, interruptions>>

---------------------------------------------------------------------------
(* Its end: FBuild::SaveDependencyGraph writes the file in place           *)

SaveBegins ==
    /\ main = "save"
    /\ main' = "writing"
    /\ db' = Corrupt
    /\ UNCHANGED <<disk, graph, queue, sweep, control, user, outcome, quiet,
                   builds, interruptions>>

\* What the process had in memory is gone
ProcessEnds ==
    /\ bff' = bffOnDisk
    /\ state' = [n \in Nodes |-> "NOT_PROCESSED"] /\ built' = {}
    /\ stamp' = [n \in Nodes |-> 0]
    /\ statics' = [n \in Outputs |-> Unstamped(bffOnDisk.static[n])]
    /\ dynamics' = [n \in Outputs |-> Unstamped({})]
    /\ job' = [n \in Nodes |-> NoJob] /\ read' = [n \in Outputs |-> Foreign]
    /\ main' = "idle" /\ todo' = {} /\ stack' = <<>> /\ tagged' = {}
    /\ stopBuild' = FALSE /\ stopping' = FALSE /\ exited' = 0

SaveEnds ==
    /\ main = "writing"
    /\ db' = [kind |-> "saved", bff |-> bff, stamp |-> [n \in Outputs |-> stamp[n]],
              statics |-> statics, dynamics |-> dynamics]
    /\ outcome' = IF \A t \in targets : state[t] = "UP_TO_DATE" THEN "ok" ELSE "failed"
    /\ ProcessEnds
    /\ UNCHANGED <<disk, targets, user, quiet, builds, interruptions>>

\* A tool that was running may have written part of its output
Crash ==
    /\ main # "idle"
    /\ interruptions < MaxInterruptions
    /\ interruptions' = interruptions + 1
    /\ \E broken \in SUBSET At({"reading"}) :
        /\ mtime' = [n \in Nodes |-> IF n \in broken THEN mtime[n] + 1 ELSE mtime[n]]
        /\ made' = [n \in Outputs |-> IF n \in broken THEN Foreign ELSE made[n]]
    /\ outcome' = "killed"
    /\ ProcessEnds
    /\ UNCHANGED <<targets, user, db, quiet, builds>>

Abort ==
    /\ AbortBuild
    /\ interruptions < MaxInterruptions
    /\ interruptions' = interruptions + 1
    /\ UNCHANGED <<user, db, outcome, quiet, builds>>

---------------------------------------------------------------------------
(* The user                                                                *)

Change ==
    /\ edits < MaxEdits
    /\ edits' = edits + 1
    /\ edited' = TRUE
    /\ UNCHANGED <<graph, queue, main, sweep, control,
                   db, outcome, quiet, builds, interruptions>>

EditFile(f) ==
    /\ main = "idle" \/ f \in EditedDuringBuild
    /\ mtime[f] # 0
    /\ \E m \in {mtime[f] + 1} \cup (IF f \in Deletable THEN {0} ELSE {}) :
        mtime' = [mtime EXCEPT ![f] = m]
    /\ Change
    /\ UNCHANGED <<made, bffOnDisk>>

\* Another program writes an output (or deletes it: to DetermineNeedToBuildStatic a
\* missing output is one with another time of modification)
OverwriteOutput(n) ==
    /\ main = "idle"
    /\ mtime[n] # 0
    /\ Write(n, Foreign)
    /\ Change
    /\ UNCHANGED bffOnDisk

EditBff ==
    /\ bffOnDisk' \in Bffs \ {bffOnDisk}
    /\ Change
    /\ UNCHANGED disk

---------------------------------------------------------------------------

Finished ==
    /\ main = "idle" /\ builds = MaxBuilds
    /\ UNCHANGED vars

MainThread == (MainStep /\ UNCHANGED session) \/ SaveBegins \/ SaveEnds
WorkerThreads == (Exit \/ \E n \in Nodes : WorkerStep(n)) /\ UNCHANGED session

Next ==
    \/ \E ts \in TargetSets : StartBuild(ts)
    \/ MainThread \/ WorkerThreads
    \/ Crash \/ Abort
    \/ \E f \in Files : EditFile(f)
    \/ \E n \in Outputs : OverwriteOutput(n)
    \/ EditBff
    \/ Finished

Spec == Init /\ [][Next]_vars

\* The main thread goes on, and so does some worker thread. (The jobs of a build are finite:
\* a thread cannot be kept from its job for ever by the others.)
FairSpec == Spec /\ WF_vars(MainThread) /\ WF_vars(WorkerThreads)

---------------------------------------------------------------------------
(* Properties                                                              *)

Stamps(deps) == DOMAIN deps \subseteq Nodes /\ deps \in [DOMAIN deps -> Nat]

Contents(c) == c = Foreign \/ (c.props \in Nat /\ Stamps(c.from))

\* Every variable has the values its counterpart in the code can have; the static
\* dependencies of a node are those the parser gave it.
TypeOK ==
    /\ mtime \in [Nodes -> Nat]
    /\ DOMAIN made = Outputs /\ \A n \in Outputs : Contents(made[n])
    /\ bff \in Bffs /\ bffOnDisk \in Bffs
    /\ state \in [Nodes -> NodeStates]
    /\ stamp \in [Nodes -> Nat]
    /\ DOMAIN statics = Outputs /\ DOMAIN dynamics = Outputs
    /\ \A n \in Outputs :
        /\ Stamps(statics[n]) /\ DOMAIN statics[n] = bff.static[n]
        /\ Stamps(dynamics[n])
    /\ built \subseteq Nodes
    /\ job \in [Nodes -> [at : Places, result : {"none", "ok", "failed", "aborted"}]]
    /\ DOMAIN read = Outputs /\ \A n \in Outputs : Contents(read[n])
    /\ main \in {"idle", "finalize", "sweep", "check", "flush", "save", "writing"}
    /\ targets \subseteq Nodes /\ todo \subseteq targets /\ tagged \subseteq Nodes
    /\ stack \in Seq(Nodes)
    /\ stopBuild \in BOOLEAN /\ stopping \in BOOLEAN /\ exited \in 0 .. NumWorkerThreads
    /\ edited \in BOOLEAN /\ quiet \in BOOLEAN
    /\ outcome \in {"none", "ok", "failed", "killed"}

\* What a build of n made now would read
InputsNow(n) ==
    bffOnDisk.static[n] \cup (IF n \in Listing THEN Found(n, mtime[Lead[n]]) ELSE {})

\* Output n is what a build made now would make of the present inputs
Fresh(n) ==
    made[n] = [props |-> bffOnDisk.props[n],
               from |-> [d \in InputsNow(n) |-> mtime[d]]]

\* The nodes that some nodes need, directly or not
Closed(S) == \A n \in S \cap Outputs : InputsNow(n) \subseteq S
Needed(S) == {n \in Nodes : \A T \in SUBSET Nodes : S \subseteq T /\ Closed(T) => n \in T}

\* What an incremental build promises: when it succeeded and nothing was changed since it
\* began, every output the targets need is what a clean build would make of the files as
\* they are - whatever was edited, aborted, killed and migrated before.
SuccessIsFresh ==
    outcome = "ok" /\ ~edited => \A n \in Needed(targets) \cap Outputs : Fresh(n)

\* And it builds no more than it must: repeated at once, a successful build makes no
\* output again (the "null build").
QuietBuild == quiet /\ ~edited => built \cap Outputs = {}

\* BuildRecurse orders the builds: the outputs a tool reads are finished, and stay as the
\* tool has read them while it runs.
ToolsReadFinishedFiles ==
    \A n \in At({"reading"}) : \A d \in DOMAIN read[n].from \cap Outputs :
        state[d] = "UP_TO_DATE" /\ read[n].from[d] = mtime[d]

\* The stamps recorded when node n was last finalized
Recorded(n) ==
    [d \in DOMAIN statics[n] \cup DOMAIN dynamics[n] |->
        IF d \in DOMAIN statics[n] THEN statics[n][d] ELSE dynamics[n][d]]

\* An output that still has the time of its stamp was made by the node as it is described
\* now, from the recorded dependencies and no others; and one that still has the
\* time recorded for it has not changed since the tool read it.
RecordsAreHonest ==
    main # "idle" =>
        \A n \in Outputs : stamp[n] # 0 /\ stamp[n] = mtime[n] /\ job[n].result # "ok" =>
            /\ made[n] # Foreign
            /\ made[n].props = bff.props[n]
            /\ DOMAIN made[n].from = DOMAIN Recorded(n)
            /\ \A d \in DOMAIN Recorded(n) :
                Recorded(n)[d] = mtime[d] => made[n].from[d] = mtime[d]

\* The dependencies of a node in the graph
Dependencies(n) ==
    IF n \in Files THEN {} ELSE bff.pre[n] \cup bff.static[n] \cup DOMAIN dynamics[n]

\* "It will never falsely detect a cyclic dependency" (NodeGraph.cpp:1609): the check may run
\* at the wrong moment, but when it aborts the build some nodes depend on each other.
CycleIsReal ==
    [][CycleFound =>
        \E S \in SUBSET Nodes : S # {} /\ \A n \in S : Dependencies(n) \cap S # {}]_vars

\* A build that nobody interrupts fails because a tool failed, a file is missing or the
\* build description has a cycle.
FailureHasCause ==
    main = "save" /\ interruptions = 0 /\ (\E t \in targets : state[t] # "UP_TO_DATE") =>
        \/ \E n \in Faulty :
            /\ state[n] = "FAILED"
            /\ \A d \in bff.pre[n] \cup bff.static[n] : state[d] = "UP_TO_DATE"
        \/ \E f \in Files : mtime[f] = 0
        \/ \E S \in SUBSET Nodes : S # {} /\ \A n \in S : Dependencies(n) \cap S # {}

\* Every build ends: no cycle is missed, and the sweeps do not wait for a node that
\* nothing will build.
BuildEnds == main # "idle" ~> main = "idle"
===========================================================================
