--------------------------- MODULE RebuildProofs ---------------------------
(***************************************************************************)
(* Proofs about IncrementalBuild for any graph, any sequence of build      *)
(* descriptions, any number of worker threads, builds, edits and           *)
(* interruptions: tools read finished files, records are honest, and a     *)
(* successful incremental build gives what a clean build would give.       *)
(***************************************************************************)
EXTENDS IncrementalBuildProofs

\* Headers do not change while a build runs. (Without this it does not hold: FileNodes of
\* included files are stamped when the object is finalized, after the tool has read them.)
HeadersAreStable ==
    \A n \in Objects : \A i \in DOMAIN Discovers[n] : Discovers[n][i] \cap EditedDuringBuild = {}

AreUp(S) == \A d \in S : state[d] = "UP_TO_DATE"

\* The tool of n has read its inputs, and its node is not finalized yet.
Running(n) == job[n].at = "reading" \/ job[n].result = "ok"

---------------------------------------------------------------------------
(* The order of the builds                                                 *)

\* Only a node that is BUILDING has a job; a job has its result at its end.
JobsBuild ==
    \A n \in Nodes :
        /\ job[n].at # "none" => state[n] = "BUILDING"
        /\ job[n].result # "none" => job[n].at \in {"ended", "uncounted", "completed"}
        /\ job[n].at = "reading" => n \in Outputs

\* How far a node is tells which of its dependencies are up to date.
DependenciesFirst ==
    \A n \in Outputs :
        /\ state[n] \notin {"NOT_PROCESSED", "FAILED"} => AreUp(bff.pre[n])
        /\ state[n] \in {"DYNAMIC_DEPS", "BUILDING", "UP_TO_DATE"} => AreUp(bff.static[n])
        /\ state[n] \in {"BUILDING", "UP_TO_DATE"} /\ n \notin Objects =>
                AreUp(DOMAIN dynamics[n])

\* ... so that the outputs a tool reads are finished.
OutputsAreRead ==
    \A n \in Outputs : Running(n) =>
        \A d \in DOMAIN read[n].from \cap Outputs :
            state[d] = "UP_TO_DATE" /\ read[n].from[d] = mtime[d]

OrderInv == JobsBuild /\ DependenciesFirst /\ OutputsAreRead

---------------------------------------------------------------------------
(* Stamps                                                                  *)

\* A stamp is a time that the file had.
FilesStamped ==
    \A f \in Files :
        /\ stamp[f] <= mtime[f] \/ mtime[f] = 0
        /\ main # "idle" /\ (~edited \/ f \notin EditedDuringBuild) => stamp[f] \in {0, mtime[f]}
        /\ job[f].result = "ok" => f \in built
        /\ f \in built => state[f] \notin Pending
        /\ f \in built \/ state[f] = "UP_TO_DATE" => stamp[f] # 0 \/ mtime[f] = 0

OutputsStamped ==
    \A n \in Outputs :
        /\ stamp[n] <= mtime[n]
        /\ db.kind = "saved" => db.stamp[n] <= mtime[n]
        /\ state[n] = "UP_TO_DATE" \/ job[n].result = "ok" => stamp[n] = mtime[n] /\ stamp[n] # 0
        /\ state[n] = "DYNAMIC_DEPS" /\ stamp[n] # 0 =>
            /\ stamp[n] = mtime[n]
            /\ \A d \in bff.static[n] : stamp[d] = statics[n][d]

\* The listing a library is built with is the one of its directory's node.
ListingKnown ==
    /\ \A n \in Libraries : state[n] \in {"DYNAMIC_DEPS", "BUILDING"} =>
        bff.static[n] \cup DOMAIN dynamics[n] = bff.static[n] \cup Found(n, stamp[Lead[n]])
    /\ \A n \in Tools : /\ DOMAIN dynamics[n] = {}
                        /\ db.kind = "saved" => DOMAIN db.dynamics[n] = {}

IsRecord(contents) == contents = [props |-> contents.props, from |-> contents.from]

\* A record, in memory or saved, of an output that has the time of its stamp. (The times
\* of the files and the contents of the output are parameters too.)
Honest(n, b, s, ss, ds, times, contents) ==
    s # 0 /\ s = times[n] =>
        /\ contents # Foreign /\ IsRecord(contents)
        /\ contents.props = b.props[n]
        /\ DOMAIN contents.from = b.static[n] \cup DOMAIN ds
        /\ n \in Listing => DOMAIN contents.from = b.static[n] \cup Found(n, contents.from[Lead[n]])
        /\ n \in Libraries => ss[Lead[n]] = contents.from[Lead[n]]
        /\ \A d \in b.static[n] \cup DOMAIN ds :
            LET recorded == IF d \in b.static[n] THEN ss[d] ELSE ds[d]
            IN  /\ recorded # 0
                /\ recorded <= times[d] \/ (d \in Files /\ times[d] = 0)
                /\ recorded = times[d] => contents.from[d] = times[d]

HonestInMemory(n) == Honest(n, bff, stamp[n], statics[n], dynamics[n], mtime, made[n])
HonestInFile(n) == Honest(n, db.bff, db.stamp[n], db.statics[n], db.dynamics[n], mtime, made[n])

Records ==
    \A n \in Outputs :
        /\ job[n].result # "ok" => HonestInMemory(n)
        /\ db.kind = "saved" => HonestInFile(n)

\* What a tool has read, against the stamps that will be recorded for it.
ReadInFull(n) ==
    /\ read[n] # Foreign /\ IsRecord(read[n])
    /\ read[n].props = bff.props[n]
    /\ DOMAIN read[n].from = bff.static[n] \cup
            (IF n \in Objects THEN Found(n, read[n].from[Lead[n]]) ELSE DOMAIN dynamics[n])
    /\ n \in Libraries => read[n].from[Lead[n]] = stamp[Lead[n]]
    /\ \A d \in DOMAIN read[n].from : read[n].from[d] # 0 =>
        /\ read[n].from[d] <= mtime[d] \/ (d \in Files /\ mtime[d] = 0)
        /\ d \in bff.static[n] \/ n \notin Objects => stamp[d] # 0 /\ stamp[d] <= read[n].from[d]
        /\ d \in Files /\ d \notin bff.static[n] /\ n \in Objects => read[n].from[d] = mtime[d]
    /\ job[n].result = "ok" => made[n] = read[n] /\ \A d \in DOMAIN read[n].from : read[n].from[d] # 0

InputsRead == \A n \in Outputs : Running(n) => ReadInFull(n)

StampInv == FilesStamped /\ OutputsStamped /\ ListingKnown /\ Records /\ InputsRead

---------------------------------------------------------------------------
(* A build during which nothing is changed                                 *)

FreshSoFar ==
    main # "idle" =>
        /\ outcome = "none"
        /\ ~edited =>
            /\ bff = bffOnDisk
            /\ \A n \in Outputs :
                /\ Running(n) => read[n] = [props |-> bffOnDisk.props[n],
                                            from |-> [d \in InputsNow(n) |-> mtime[d]]]
                /\ state[n] = "UP_TO_DATE" => Fresh(n) /\ AreUp(InputsNow(n) \cap Outputs)

FreshInv == FreshSoFar /\ SuccessIsFresh

---------------------------------------------------------------------------
(* The steps that only move a job, the sweep or the check                  *)

Framed ==
    /\ UNCHANGED <<disk, graph, read, bffOnDisk, edited, outcome, quiet, targets>>
    /\ db' = db \/ (db' = Corrupt /\ main # "idle")
    /\ main' = "idle" <=> main = "idle"
    /\ \A n \in Nodes :
        /\ job'[n].at # "none" => job[n].at # "none"
        /\ job'[n].at = "reading" <=> job[n].at = "reading"
        /\ job'[n].result = "ok" <=> job[n].result = "ok"
        /\ job'[n].result # "none" => job'[n].at \in {"ended", "uncounted", "completed"}

\* A job that moves on and keeps its result.
LEMMA FrameOfMove ==
  ASSUME TypeInv, JobsBuild, NEW n \in Nodes, NEW p \in Places, Move(n, p),
         job[n].at \notin {"none", "reading"}, p # "reading",
         job[n].at \in {"ended", "uncounted", "completed"} =>
            p \in {"ended", "uncounted", "completed"}
  PROVE  \A m \in Nodes :
            /\ job'[m].at # "none" => job[m].at # "none"
            /\ job'[m].at = "reading" <=> job[m].at = "reading"
            /\ job'[m].result = "ok" <=> job[m].result = "ok"
            /\ job'[m].result # "none" => job'[m].at \in {"ended", "uncounted", "completed"}
<1>1. job' = [job EXCEPT ![n] = [at |-> p, result |-> job[n].result]]
  BY TypeOfMove
<1>2. job \in [Nodes -> JobType]
  BY DEF TypeInv, TypeOK, JobType
<1>3. /\ \A m \in Nodes \ {n} : job'[m] = job[m]
      /\ job'[n].at = p /\ job'[n].result = job[n].result
  BY <1>1, <1>2
<1>4. \A m \in Nodes : job[m].result # "none" => job[m].at \in {"ended", "uncounted", "completed"}
  BY DEF JobsBuild
<1> QED
  BY <1>3, <1>4, Zenon

LEMMA FrameOfJobs ==
  ASSUME TypeInv, JobsBuild, NEW n \in Nodes, UNCHANGED session,
         TakeJob(n) \/ CountJob(n) \/ CancelJob(n) \/ UncountJob(n) \/ AppendCompleted(n)
  PROVE  Framed
<1> USE DEF disk, graph, control, session, user
<1>1. CASE TakeJob(n)
  BY <1>1, FrameOfMove, PlaceNames DEF TakeJob, Framed
<1>2. CASE CountJob(n)
  BY <1>2, FrameOfMove, PlaceNames DEF CountJob, Framed
<1>3. CASE CancelJob(n)
  <2>1. job \in [Nodes -> JobType]
    BY DEF TypeInv, TypeOK, JobType
  <2>2. /\ \A m \in Nodes \ {n} : job'[m] = job[m]
        /\ job'[n].at = "ended" /\ job'[n].result = "failed" /\ job[n].at = "active"
    BY <1>3, <2>1 DEF CancelJob
  <2>3. \A m \in Nodes : job[m].result # "none" => job[m].at \in {"ended", "uncounted", "completed"}
    BY DEF JobsBuild
  <2>4. job[n].result # "ok"
    BY <2>2, <2>3
  <2> QED
    BY <1>3, <2>2, <2>3, <2>4 DEF CancelJob, Framed
<1>4. CASE UncountJob(n)
  BY <1>4, FrameOfMove, PlaceNames DEF UncountJob, Framed
<1>5. CASE AppendCompleted(n)
  BY <1>5, FrameOfMove, PlaceNames DEF AppendCompleted, Framed
<1> QED
  BY <1>1, <1>2, <1>3, <1>4, <1>5

LEMMA FrameOfSweep ==
  ASSUME TypeInv, JobsBuild, UNCHANGED session,
         \/ EndSweep \/ CheckReturn \/ CycleFound \/ FlushAndDecide \/ Exit
         \/ \E n \in Nodes : \/ StartTarget(n) \/ CheckDescend(n) \/ AlreadyFailed(n)
                             \/ \E d \in Nodes : Descend(n, d)
  PROVE  Framed
<1> USE DEF disk, graph, queue, control, session, user, JobsBuild
<1>1. CASE EndSweep \/ CheckReturn \/ CycleFound
  BY <1>1 DEF EndSweep, CheckReturn, CycleFound, Framed
<1>2. CASE FlushAndDecide
  <2>1. \A n \in Nodes : \/ job'[n] = job[n]
                         \/ /\ job[n].at = "staged" /\ job'[n].at = "available"
                            /\ job'[n].result = job[n].result
    BY <1>2 DEF FlushAndDecide, TypeInv, TypeOK
  <2>2. \A n \in Nodes : job[n].result # "none" => job[n].at \in {"ended", "uncounted", "completed"}
    OBVIOUS
  <2>3. UNCHANGED <<disk, graph, read, bffOnDisk, edited, outcome, quiet, targets, db>>
        /\ main' # "idle" /\ main # "idle"
    BY <1>2 DEF FlushAndDecide
  <2> QED
    BY <2>1, <2>2, <2>3 DEF Framed
<1>3. CASE Exit
  BY <1>3 DEF Exit, Framed
<1>4. ASSUME NEW n \in Nodes,
             \/ StartTarget(n) \/ CheckDescend(n) \/ AlreadyFailed(n)
             \/ \E d \in Nodes : Descend(n, d)
      PROVE  Framed
  BY <1>4 DEF StartTarget, CheckDescend, AlreadyFailed, Descend, Framed
<1> QED
  BY <1>1, <1>2, <1>3, <1>4

LEMMA FrameOfRest ==
  ASSUME TypeInv, JobsBuild, SaveBegins \/ Abort \/ UNCHANGED vars
  PROVE  Framed
BY DEF SaveBegins, Abort, AbortBuild, vars, disk, graph, queue, control, session, user,
       JobsBuild, Framed

---------------------------------------------------------------------------
(* The order of the builds is kept                                         *)

LEMMA OrderInit == Init => OrderInv
  BY NodeKinds DEF Init, OrderInv, JobsBuild, DependenciesFirst, OutputsAreRead, Running, NoJob

LEMMA OrderOfFrame ==
  ASSUME TypeInv, OrderInv, Framed
  PROVE  OrderInv'
<1> USE DEF Framed, disk, graph
<1>1. JobsBuild'
  BY DEF OrderInv, JobsBuild
<1>2. DependenciesFirst'
  BY DEF OrderInv, DependenciesFirst, AreUp
<1>3. OutputsAreRead'
  BY NodeKinds DEF OrderInv, OutputsAreRead, Running
<1> QED
  BY <1>1, <1>2, <1>3 DEF OrderInv

\* What a tool reads when it starts: outputs that are up to date.
LEMMA InputsFinished ==
  ASSUME TypeInv, OrderInv, NEW n \in Outputs, state[n] = "BUILDING",
         NEW d \in Inputs(n) \cap Outputs
  PROVE  state[d] = "UP_TO_DATE" /\ Modification(n, d) = mtime[d]
<1>1. AreUp(bff.pre[n]) /\ AreUp(bff.static[n]) /\ (n \notin Objects => AreUp(DOMAIN dynamics[n]))
  BY DEF OrderInv, DependenciesFirst
<1>2. n \in Objects => Found(n, mtime[Lead[n]]) \cap Outputs \subseteq bff.pre[n]
  <2> SUFFICES ASSUME n \in Objects PROVE Found(n, mtime[Lead[n]]) \cap Outputs \subseteq bff.pre[n]
    OBVIOUS
  <2>1. mtime[Lead[n]] \in Nat /\ bff \in Bffs /\ n \in Listing
    BY NodeKinds DEF TypeInv, TypeOK
  <2>2. Discovers[n] \in Seq(SUBSET Nodes) /\ Discovers[n] # <<>>
    BY <2>1, GraphAssumption DEF GraphAssumption
  <2>3. 1 + (mtime[Lead[n]] % Len(Discovers[n])) \in DOMAIN Discovers[n]
    <3>1. Len(Discovers[n]) \in Nat \ {0} /\ DOMAIN Discovers[n] = 1 .. Len(Discovers[n])
      BY <2>2
    <3> QED
      BY <2>1, <3>1, Remainder
  <2> QED
    BY <2>1, <2>3, GeneratedHeadersFirst DEF GeneratedHeadersFirst, Found
<1>3. state[d] = "UP_TO_DATE"
  BY <1>1, <1>2 DEF Inputs, AreUp
<1>4. n \in Libraries => d # Lead[n]
  BY NodeKinds
<1> QED
  BY <1>3, <1>4 DEF Modification

LEMMA OrderOfTools ==
  ASSUME TypeInv, OrderInv, NEW n \in Nodes,
         StampFile(n) \/ ReadInputs(n) \/ ToolSucceeds(n) \/ ToolFails(n)
  PROVE  OrderInv'
<1>1. job \in [Nodes -> JobType] /\ mtime \in [Nodes -> Nat] /\ DOMAIN read = Outputs
  BY DEF TypeInv, TypeOK, JobType
<1>2. UNCHANGED <<bff, state, statics, dynamics>> /\ DependenciesFirst'
  BY DEF StampFile, ReadInputs, ToolSucceeds, ToolFails, graph, OrderInv, DependenciesFirst, AreUp
<1>3. state[n] = "BUILDING" /\ job[n].at \in {"active", "reading"}
  BY DEF StampFile, ReadInputs, ToolSucceeds, ToolFails, OrderInv, JobsBuild
<1>4. CASE StampFile(n)
  <2>1. /\ n \in Files /\ UNCHANGED <<mtime, read>>
        /\ \A m \in Nodes \ {n} : job'[m] = job[m]
        /\ job'[n] = [at |-> "ended", result |-> "ok"]
    BY <1>1, <1>4 DEF StampFile, disk
  <2>2. n \notin Outputs
    BY <2>1, NodeKinds
  <2>3. JobsBuild'
    BY <1>2, <1>3, <2>1 DEF OrderInv, JobsBuild
  <2>4. OutputsAreRead'
    BY <1>2, <2>1, <2>2, NodeKinds DEF OrderInv, OutputsAreRead, Running
  <2> QED
    BY <1>2, <2>3, <2>4 DEF OrderInv
<1>5. CASE ReadInputs(n)
  <2>1. /\ n \in Outputs /\ UNCHANGED mtime /\ job[n].at = "active"
        /\ job' = [job EXCEPT ![n] = [at |-> "reading", result |-> job[n].result]]
        /\ read' = [read EXCEPT ![n] = [props |-> bff.props[n],
                                       from |-> [d \in Inputs(n) |-> Modification(n, d)]]]
    BY <1>5, TypeOfMove, PlaceNames DEF ReadInputs, disk
  <2>2. /\ \A m \in Nodes \ {n} : job'[m] = job[m]
        /\ \A m \in Outputs \ {n} : read'[m] = read[m]
        /\ job'[n].at = "reading" /\ job'[n].result = job[n].result
        /\ read'[n].from = [d \in Inputs(n) |-> Modification(n, d)]
    BY <1>1, <2>1
  <2>3. job[n].result = "none"
    BY <2>1 DEF OrderInv, JobsBuild
  <2>4. JobsBuild'
    BY <1>2, <1>3, <2>1, <2>2, <2>3 DEF OrderInv, JobsBuild
  <2>5. \A d \in DOMAIN read'[n].from \cap Outputs :
            state[d] = "UP_TO_DATE" /\ read'[n].from[d] = mtime[d]
    BY <1>3, <2>1, <2>2, InputsFinished
  <2>6. OutputsAreRead'
    <3>1. \A m \in Outputs \ {n} : (Running(m)' <=> Running(m)) /\ read'[m] = read[m]
      BY <2>2, NodeKinds DEF Running
    <3>2. \A m \in Outputs : Running(m) => \A d \in DOMAIN read[m].from \cap Outputs :
                state[d] = "UP_TO_DATE" /\ read[m].from[d] = mtime[d]
      BY DEF OrderInv, OutputsAreRead
    <3>3. \A m \in Outputs : Running(m)' => \A d \in DOMAIN read'[m].from \cap Outputs :
                state[d] = "UP_TO_DATE" /\ read'[m].from[d] = mtime[d]
      <4> SUFFICES ASSUME NEW m \in Outputs, Running(m)', NEW d \in DOMAIN read'[m].from \cap Outputs
                   PROVE  state[d] = "UP_TO_DATE" /\ read'[m].from[d] = mtime[d]
        OBVIOUS
      <4>1. CASE m = n
        BY <2>5, <4>1
      <4>2. CASE m # n
        BY <3>1, <3>2, <4>2
      <4> QED
        BY <4>1, <4>2
    <3> QED
      BY <1>2, <2>1, <3>3 DEF OutputsAreRead
  <2> QED
    BY <1>2, <2>4, <2>6 DEF OrderInv
<1>6. CASE ToolSucceeds(n) \/ ToolFails(n)
  <2>1. /\ n \in Outputs /\ UNCHANGED read /\ job[n].at = "reading"
        /\ \A m \in Nodes \ {n} : mtime'[m] = mtime[m]
    BY <1>1, <1>6 DEF ToolSucceeds, ToolFails, Write, disk, graph
  <2>2. \E r \in {"ok", "failed", "aborted"} :
            job' = [job EXCEPT ![n] = [at |-> "ended", result |-> r]]
    BY <1>6 DEF ToolSucceeds, ToolFails
  <2>3. /\ \A m \in Nodes \ {n} : job'[m] = job[m]
        /\ job'[n].at = "ended"
    BY <1>1, <2>2
  <2>4. JobsBuild'
    BY <1>2, <1>3, <2>1, <2>3 DEF OrderInv, JobsBuild
  <2>5. OutputsAreRead'
    <3>1. \A m \in Outputs : Running(m)' => Running(m)
      BY <2>1, <2>3, NodeKinds DEF Running
    <3> SUFFICES ASSUME NEW m \in Outputs, Running(m), NEW d \in DOMAIN read[m].from \cap Outputs
                 PROVE  state[d] = "UP_TO_DATE" /\ read[m].from[d] = mtime'[d]
      BY <1>2, <2>1, <3>1 DEF OutputsAreRead
    <3>2. state[d] = "UP_TO_DATE" /\ read[m].from[d] = mtime[d]
      BY DEF OrderInv, OutputsAreRead
    <3>3. d # n
      BY <1>3, <3>2
    <3> QED
      BY <2>1, <3>2, <3>3, NodeKinds
  <2> QED
    BY <1>2, <2>4, <2>5 DEF OrderInv
<1> QED
  BY <1>4, <1>5, <1>6

LEMMA OrderOfFinalize ==
  ASSUME TypeInv, OrderInv, FinalizeCompletedJobs
  PROVE  OrderInv'
<1>1. UNCHANGED <<bff, mtime, read>> /\ FinalizeNodes
      /\ \A n \in Nodes : (job'[n] = job[n] /\ job[n].at # "completed") \/ job'[n] = NoJob
  BY DEF FinalizeCompletedJobs, FinalizeNodes, Remaining, disk
<1>2. \A n \in Nodes : job[n].at # "completed" => state'[n] = state[n]
  BY <1>1 DEF FinalizeNodes, Succeeded, At
<1>3. \A n \in Nodes : state'[n] # state[n] => state[n] = "BUILDING" /\ state'[n] \in Final
  BY <1>1 DEF FinalizeNodes, Succeeded, At, OrderInv, JobsBuild, Final
<1>4. \A n \in Nodes : state[n] = "UP_TO_DATE" => state'[n] = "UP_TO_DATE"
  BY <1>3
<1>5. JobsBuild'
  BY <1>1, <1>2 DEF OrderInv, JobsBuild, NoJob
<1>6. DependenciesFirst'
  <2> SUFFICES ASSUME NEW n \in Outputs
               PROVE
        /\ state'[n] \notin {"NOT_PROCESSED", "FAILED"} => AreUp(bff.pre[n])'
        /\ state'[n] \in {"DYNAMIC_DEPS", "BUILDING", "UP_TO_DATE"} => AreUp(bff.static[n])'
        /\ state'[n] \in {"BUILDING", "UP_TO_DATE"} /\ n \notin Objects =>
                AreUp(DOMAIN dynamics[n])'
    BY <1>1 DEF DependenciesFirst
  <2>1. n \in Nodes /\ bff.pre[n] \in SUBSET Nodes /\ bff.static[n] \in SUBSET Nodes
        /\ DOMAIN dynamics[n] \in SUBSET Nodes
    BY NodeKinds, BffFields DEF TypeInv, TypeOK, Stamps
  <2>2. n \notin Objects => DOMAIN dynamics'[n] = DOMAIN dynamics[n]
    BY <1>1 DEF FinalizeNodes
  <2>3. /\ state[n] \notin {"NOT_PROCESSED", "FAILED"} => AreUp(bff.pre[n])
        /\ state[n] \in {"DYNAMIC_DEPS", "BUILDING", "UP_TO_DATE"} => AreUp(bff.static[n])
        /\ state[n] \in {"BUILDING", "UP_TO_DATE"} /\ n \notin Objects =>
                AreUp(DOMAIN dynamics[n])
    BY DEF OrderInv, DependenciesFirst
  <2>4. \/ state'[n] = state[n]
        \/ state[n] = "BUILDING" /\ state'[n] \in {"UP_TO_DATE", "FAILED"}
    BY <1>3, <2>1 DEF Final
  <2> QED
    BY <1>1, <1>4, <2>1, <2>2, <2>3, <2>4 DEF AreUp
<1>7. OutputsAreRead'
  BY <1>1, <1>4, NodeKinds DEF OrderInv, OutputsAreRead, Running, NoJob
<1> QED
  BY <1>5, <1>6, <1>7 DEF OrderInv

\* The sweep takes node n from one state to the next.
LEMMA OrderOfAdvance ==
  ASSUME TypeInv, OrderInv, NEW n \in Nodes,
         NotReady(n) \/ PreBuildReady(n) \/ StaticReady(n) \/ DynamicReady(n)
  PROVE  OrderInv'
<1>1. /\ UNCHANGED <<bff, mtime, read>> /\ state[n] \in Pending
      /\ \A m \in Nodes \ {n} : state'[m] = state[m]
      /\ \A m \in Outputs \ {n} : dynamics'[m] = dynamics[m]
  <2>1. UNCHANGED <<bff, mtime, read>>
    BY DEF NotReady, PreBuildReady, StaticReady, DynamicReady, disk, queue
  <2>2. state[n] \in Pending
    BY DEF NotReady, PreBuildReady, StaticReady, DynamicReady, Ready, Sweeping, Checked, Pending
  <2>3. \A m \in Nodes \ {n} : state'[m] = state[m]
    BY DEF NotReady, PreBuildReady, StaticReady, DynamicReady, TypeInv, TypeOK
  <2>4. \A m \in Outputs \ {n} : dynamics'[m] = dynamics[m]
    BY DEF NotReady, PreBuildReady, StaticReady, DynamicReady, DirtyNode, TypeInv, TypeOK
  <2> QED
    BY <2>1, <2>2, <2>3, <2>4
<1>2. job \in [Nodes -> JobType] /\ state \in [Nodes -> NodeStates]
  BY DEF TypeInv, TypeOK, JobType
<1>3. \A m \in Nodes : state[m] = "UP_TO_DATE" => state'[m] = "UP_TO_DATE"
  BY <1>1 DEF Pending
<1>4. job[n].at = "none"
  BY <1>1 DEF OrderInv, JobsBuild, Pending
<1>5. /\ \A m \in Nodes \ {n} : job'[m] = job[m]
      /\ \/ job'[n] = job[n]
         \/ /\ job'[n].at = "staged" /\ job'[n].result = job[n].result
            /\ state'[n] = "BUILDING"
  <2>1. CASE DynamicReady(n) /\ Move(n, "staged")
    <3>1. job' = [job EXCEPT ![n] = [at |-> "staged", result |-> job[n].result]]
      BY <2>1, TypeOfMove, PlaceNames
    <3>2. state'[n] = "BUILDING"
      <4>1. job'[n].at = "staged"
        BY <1>2, <3>1
      <4>2. job' # job
        BY <1>4, <4>1
      <4> QED
        BY <1>2, <2>1, <4>2 DEF DynamicReady
    <3> QED
      BY <1>2, <3>1, <3>2
  <2>2. CASE job' = job
    BY <2>2
  <2>3. job' = job \/ (DynamicReady(n) /\ Move(n, "staged"))
    BY DEF NotReady, PreBuildReady, StaticReady, DynamicReady, queue
  <2> QED
    BY <2>1, <2>2, <2>3
<1>6. JobsBuild'
  BY <1>1, <1>4, <1>5 DEF OrderInv, JobsBuild
<1>7. OutputsAreRead'
  <2>1. \A m \in Outputs : Running(m)' <=> Running(m)
    BY <1>4, <1>5, NodeKinds DEF Running
  <2> QED
    BY <1>1, <1>3, <2>1, NodeKinds DEF OrderInv, OutputsAreRead
<1>8. DependenciesFirst'
  <2> SUFFICES ASSUME NEW m \in Outputs
               PROVE
        /\ state'[m] \notin {"NOT_PROCESSED", "FAILED"} => AreUp(bff.pre[m])'
        /\ state'[m] \in {"DYNAMIC_DEPS", "BUILDING", "UP_TO_DATE"} => AreUp(bff.static[m])'
        /\ state'[m] \in {"BUILDING", "UP_TO_DATE"} /\ m \notin Objects =>
                AreUp(DOMAIN dynamics[m])'
    BY <1>1 DEF DependenciesFirst
  <2>1. m \in Nodes /\ bff.pre[m] \in SUBSET Nodes /\ bff.static[m] \in SUBSET Nodes
        /\ DOMAIN dynamics[m] \in SUBSET Nodes
    BY NodeKinds, BffFields DEF TypeInv, TypeOK, Stamps
  <2>2. /\ state[m] \notin {"NOT_PROCESSED", "FAILED"} => AreUp(bff.pre[m])
        /\ state[m] \in {"DYNAMIC_DEPS", "BUILDING", "UP_TO_DATE"} => AreUp(bff.static[m])
        /\ state[m] \in {"BUILDING", "UP_TO_DATE"} /\ m \notin Objects =>
                AreUp(DOMAIN dynamics[m])
    BY DEF OrderInv, DependenciesFirst
  <2>3. CASE m # n
    BY <1>1, <1>3, <2>1, <2>2, <2>3 DEF AreUp
  <2>4. CASE m = n /\ NotReady(n)
    <3>1. (state'[n] = state[n] \/ state'[n] = "FAILED") /\ dynamics' = dynamics
      BY <1>2, <2>4 DEF NotReady
    <3> QED
      BY <1>1, <1>3, <2>1, <2>2, <2>4, <3>1 DEF AreUp
  <2>5. CASE m = n /\ PreBuildReady(n)
    <3>1. state'[n] = "STATIC_DEPS" /\ AreUp(bff.pre[n])
      BY <1>2, <2>1, <2>5, NodeKinds DEF PreBuildReady, Ready, Checked, AreUp
    <3> QED
      BY <1>1, <1>3, <2>1, <2>5, <3>1 DEF AreUp
  <2>6. CASE m = n /\ StaticReady(n)
    <3>1. state'[n] \in {"DYNAMIC_DEPS", "FAILED"} /\ state[n] = "STATIC_DEPS"
          /\ AreUp(bff.static[n])
      BY <1>2, <2>1, <2>6, NodeKinds DEF StaticReady, Ready, Checked, AreUp
    <3> QED
      BY <1>1, <1>3, <2>1, <2>2, <2>6, <3>1 DEF AreUp
  <2>7. CASE m = n /\ DynamicReady(n)
    <3>1. state'[n] \in {"BUILDING", "UP_TO_DATE"} /\ state[n] = "DYNAMIC_DEPS"
          /\ AreUp(DOMAIN dynamics[n]) /\ dynamics' = dynamics
      BY <1>2, <2>1, <2>7, NodeKinds DEF DynamicReady, Ready, Checked, AreUp
    <3> QED
      BY <1>1, <1>3, <2>1, <2>2, <2>7, <3>1 DEF AreUp
  <2> QED
    BY <2>3, <2>4, <2>5, <2>6, <2>7
<1> QED
  BY <1>6, <1>7, <1>8 DEF OrderInv

\* A build begins with nothing processed, and what ends takes everything with it.
LEMMA OrderOfProcess ==
  ASSUME TypeInv, OrderInv,
         SaveEnds \/ Crash \/ \E ts \in TargetSets : StartBuild(ts)
  PROVE  OrderInv'
<1>1. (\A n \in Nodes : state'[n] = "NOT_PROCESSED") /\ (\A n \in Nodes : job'[n] = NoJob)
  BY DEF SaveEnds, Crash, StartBuild, ProcessEnds, TypeInv, AtRest, queue
<1> QED
  BY <1>1, NodeKinds DEF OrderInv, JobsBuild, DependenciesFirst, OutputsAreRead, Running, NoJob

LEMMA OrderOfUser ==
  ASSUME TypeInv, OrderInv,
         (\E f \in Files : EditFile(f)) \/ (\E n \in Outputs : OverwriteOutput(n)) \/ EditBff
  PROVE  OrderInv'
<1>1. UNCHANGED <<bff, state, dynamics, job, read>>
  BY DEF EditFile, OverwriteOutput, EditBff, Change, graph, queue
<1>2. JobsBuild' /\ DependenciesFirst'
  BY <1>1 DEF OrderInv, JobsBuild, DependenciesFirst, AreUp
<1>3. CASE \E n \in Outputs : OverwriteOutput(n)
  <2>1. \A n \in Nodes : job[n] = NoJob
    BY <1>3 DEF OverwriteOutput, TypeInv, AtRest
  <2>2. OutputsAreRead'
    BY <1>1, <2>1, NodeKinds DEF OutputsAreRead, Running, NoJob
  <2> QED
    BY <1>2, <2>2 DEF OrderInv
<1>4. CASE (\E f \in Files : EditFile(f)) \/ EditBff
  <2>1. \A n \in Outputs : mtime'[n] = mtime[n]
    BY <1>4, NodeKinds DEF EditFile, EditBff, disk, TypeInv, TypeOK
  <2>2. OutputsAreRead'
    BY <1>1, <2>1, NodeKinds DEF OrderInv, OutputsAreRead, Running
  <2> QED
    BY <1>2, <2>2 DEF OrderInv
<1> QED
  BY <1>3, <1>4

\* The actions, grouped as the proofs take them.
LEMMA Steps ==
  ASSUME TypeInv, JobsBuild, [Next]_vars
  PROVE  \/ Framed
         \/ /\ UNCHANGED session
            /\ \E n \in Nodes :
                  StampFile(n) \/ ReadInputs(n) \/ ToolSucceeds(n) \/ ToolFails(n)
         \/ FinalizeCompletedJobs /\ UNCHANGED session
         \/ /\ UNCHANGED session
            /\ \E n \in Nodes :
                  NotReady(n) \/ PreBuildReady(n) \/ StaticReady(n) \/ DynamicReady(n)
         \/ SaveEnds \/ Crash \/ \E ts \in TargetSets : StartBuild(ts)
         \/ (\E f \in Files : EditFile(f)) \/ (\E n \in Outputs : OverwriteOutput(n)) \/ EditBff
<1>1. CASE MainStep /\ UNCHANGED session
  BY <1>1, FrameOfSweep DEF MainStep
<1>2. CASE WorkerThreads
  BY <1>2, FrameOfSweep, FrameOfJobs DEF WorkerThreads, WorkerStep
<1>3. CASE SaveBegins \/ Abort \/ UNCHANGED vars
  BY <1>3, FrameOfRest
<1> QED
  BY <1>1, <1>2, <1>3 DEF Next, MainThread, Finished

LEMMA OrderStep == TypeInv /\ OrderInv /\ [Next]_vars => OrderInv'
<1> SUFFICES ASSUME TypeInv, OrderInv, [Next]_vars PROVE OrderInv'
  OBVIOUS
<1>1. JobsBuild
  BY DEF OrderInv
<1> QED
  BY <1>1, Steps, OrderOfFrame, OrderOfTools, OrderOfFinalize, OrderOfAdvance, OrderOfProcess,
     OrderOfUser

LEMMA OrderInvariant == Spec => []OrderInv
  BY TypeInvariant, OrderInit, OrderStep, PTL DEF Spec

\* The outputs that a tool reads are finished, whatever is edited, aborted or killed and
\* however the threads take turns.
THEOREM FinishedFilesAreRead == Spec => []ToolsReadFinishedFiles
<1>1. OrderInv => ToolsReadFinishedFiles
  BY DEF OrderInv, JobsBuild, OutputsAreRead, ToolsReadFinishedFiles, At, Running
<1> QED
  BY <1>1, OrderInvariant, PTL

---------------------------------------------------------------------------
(* Stamps and records are kept                                             *)

LEMMA StampTypes ==
  ASSUME TypeInv
  PROVE  /\ mtime \in [Nodes -> Nat] /\ stamp \in [Nodes -> Nat]
         /\ state \in [Nodes -> NodeStates] /\ job \in [Nodes -> JobType]
         /\ DOMAIN statics = Outputs /\ DOMAIN dynamics = Outputs
         /\ DOMAIN made = Outputs /\ DOMAIN read = Outputs
         /\ \A n \in Outputs :
              /\ bff.static[n] \in SUBSET Nodes /\ DOMAIN statics[n] = bff.static[n]
              /\ DOMAIN dynamics[n] \in SUBSET Nodes
              /\ n \in Listing => Lead[n] \in bff.static[n]
<1>1. \A n \in Listing : Lead[n] \in bff.static[n]
  BY GraphAssumption DEF GraphAssumption, TypeInv, TypeOK
<1> QED
  BY <1>1, BffFields DEF TypeInv, TypeOK, JobType, Stamps

LEMMA StampInit == Init => StampInv
<1> SUFFICES ASSUME Init PROVE StampInv
  OBVIOUS
<1> USE NodeKinds DEF Init
<1>1. FilesStamped
  BY DEF FilesStamped, NoJob
<1>2. OutputsStamped
  BY DEF OutputsStamped, Missing, NoJob
<1>3. ListingKnown
  BY DEF ListingKnown, Missing, Unstamped, Outputs
<1>4. Records
  BY DEF Records, HonestInMemory, Honest, Missing
<1>5. InputsRead
  BY DEF InputsRead, Running, NoJob
<1> QED
  BY <1>1, <1>2, <1>3, <1>4, <1>5 DEF StampInv

LEMMA StampOfFrame ==
  ASSUME TypeInv, StampInv, Framed
  PROVE  StampInv'
<1>1. /\ UNCHANGED <<disk, graph, read, edited>> /\ (main' = "idle" <=> main = "idle")
      /\ \A n \in Nodes : job'[n].result = "ok" <=> job[n].result = "ok"
      /\ \A n \in Outputs : Running(n)' <=> Running(n)
      /\ db'.kind = "saved" => db' = db
  BY NodeKinds DEF Framed, Running, Corrupt
<1> USE <1>1, NodeKinds DEF disk, graph
<1>2. FilesStamped'
  BY DEF StampInv, FilesStamped
<1>3. OutputsStamped'
  BY DEF StampInv, OutputsStamped
<1>4. ListingKnown'
  BY DEF StampInv, ListingKnown
<1>5. Records'
  BY DEF StampInv, Records, HonestInMemory, HonestInFile
<1>6. InputsRead'
  BY DEF StampInv, InputsRead, ReadInFull
<1> QED
  BY <1>2, <1>3, <1>4, <1>5, <1>6 DEF StampInv

\* Files move on in time, or are deleted.
Later(times, later) ==
    \A d \in Nodes :
        \/ later[d] = times[d]
        \/ later[d] = times[d] + 1 /\ (d \in Files => times[d] # 0)
        \/ later[d] = 0 /\ times[d] # 0 /\ d \in Files

\* Whatever is written, a record of an output that is still as it was stays honest.
LEMMA HonestStays ==
  ASSUME NEW n \in Outputs, NEW b \in Bffs, NEW s \in Nat, NEW ss, NEW ds,
         Stamps(ss), DOMAIN ss = b.static[n], Stamps(ds),
         NEW times \in [Nodes -> Nat], NEW later \in [Nodes -> Nat], Later(times, later),
         NEW c, NEW cc, cc = c \/ later[n] = times[n] + 1, s <= times[n],
         Honest(n, b, s, ss, ds, times, c)
  PROVE  Honest(n, b, s, ss, ds, later, cc)
<1> SUFFICES ASSUME s # 0, s = later[n] PROVE Honest(n, b, s, ss, ds, later, cc)
  BY DEF Honest
<1>1. n \in Nodes /\ n \notin Files
  BY NodeKinds
<1>2. later[n] = times[n] /\ cc = c
  BY <1>1 DEF Later
<1>3. ASSUME NEW d \in b.static[n] \cup DOMAIN ds, NEW r \in Nat,
             r # 0, r <= times[d] \/ (d \in Files /\ times[d] = 0)
      PROVE  /\ r <= later[d] \/ (d \in Files /\ later[d] = 0)
             /\ r = later[d] => later[d] = times[d]
  <2>1. d \in Nodes
    BY BffFields DEF Stamps
  <2>2. times[d] \in Nat /\ later[d] \in Nat
    BY <2>1
  <2> QED
    BY <1>3, <2>1, <2>2 DEF Later
<1>4. \A d \in b.static[n] \cup DOMAIN ds : (IF d \in b.static[n] THEN ss[d] ELSE ds[d]) \in Nat
  BY DEF Stamps
<1> QED
  BY <1>2, <1>3, <1>4 DEF Honest

\* So do all of them.
LEMMA RecordsStay ==
  ASSUME TypeInv, StampInv, Later(mtime, mtime'), mtime' \in [Nodes -> Nat],
         UNCHANGED <<bff, statics, dynamics>>, db' = db,
         NEW n \in Outputs, made'[n] = made[n] \/ mtime'[n] = mtime[n] + 1
  PROVE  /\ HonestInMemory(n) /\ stamp'[n] = stamp[n] => HonestInMemory(n)'
         /\ db.kind = "saved" => HonestInFile(n)'
<1>1. mtime \in [Nodes -> Nat] /\ bff \in Bffs
  BY DEF TypeInv, TypeOK
<1>2. /\ stamp[n] \in Nat /\ Stamps(statics[n]) /\ DOMAIN statics[n] = bff.static[n]
      /\ Stamps(dynamics[n]) /\ stamp[n] <= mtime[n]
  BY NodeKinds DEF TypeInv, TypeOK, StampInv, OutputsStamped
<1>3. HonestInMemory(n) /\ stamp'[n] = stamp[n] => HonestInMemory(n)'
  BY <1>1, <1>2, HonestStays DEF HonestInMemory
<1>4. db.kind = "saved" =>
        /\ db.bff \in Bffs /\ db.stamp[n] \in Nat /\ Stamps(db.statics[n])
        /\ DOMAIN db.statics[n] = db.bff.static[n]
        /\ Stamps(db.dynamics[n]) /\ db.stamp[n] <= mtime[n] /\ HonestInFile(n)
  BY DEF TypeInv, DbType, Dependency, StampInv, OutputsStamped, Records
<1>5. db.kind = "saved" => HonestInFile(n)'
  BY <1>1, <1>4, HonestStays DEF HonestInFile
<1> QED
  BY <1>3, <1>5

\* A file is stamped.
LEMMA StampOfStampFile ==
  ASSUME TypeInv, OrderInv, StampInv, NEW f \in Nodes, StampFile(f), UNCHANGED session
  PROVE  StampInv'
<1> USE NodeKinds, StampTypes
<1>1. /\ f \in Files /\ f \notin Outputs /\ job[f].at = "active" /\ state[f] = "BUILDING"
      /\ UNCHANGED <<disk, bff, state, statics, dynamics, read, main, edited, db>>
      /\ built' = built \cup {f}
  BY DEF StampFile, OrderInv, JobsBuild, control, session, user
<1>2. /\ \A m \in Nodes \ {f} : job'[m] = job[m] /\ stamp'[m] = stamp[m]
      /\ stamp'[f] = mtime[f]
  BY DEF StampFile
<1>3. FilesStamped'
  BY <1>1, <1>2 DEF StampInv, FilesStamped, Pending, disk
<1>4. \A m \in Outputs : stamp'[m] = stamp[m] /\ job'[m] = job[m] /\ (Running(m)' <=> Running(m))
  BY <1>1, <1>2 DEF Running
<1>5. \A m \in Outputs : state[m] \in {"DYNAMIC_DEPS", "BUILDING", "UP_TO_DATE"} =>
          f \notin bff.static[m]
  BY <1>1 DEF OrderInv, DependenciesFirst, AreUp
<1>6. OutputsStamped'
  BY <1>1, <1>2, <1>4, <1>5 DEF StampInv, OutputsStamped, disk
<1>7. ListingKnown'
  BY <1>1, <1>2, <1>5 DEF StampInv, ListingKnown, disk
<1>8. Records'
  BY <1>1, <1>4 DEF StampInv, Records, HonestInMemory, HonestInFile, disk
<1>9. InputsRead'
  <2>1. \A m \in Outputs : Running(m) => state[m] = "BUILDING"
    BY DEF Running, OrderInv, JobsBuild
  <2>2. \A m \in Outputs : Running(m) /\ m \notin Objects => f \notin DOMAIN dynamics[m]
    BY <1>1, <2>1 DEF OrderInv, DependenciesFirst, AreUp
  <2>3. ASSUME NEW m \in Outputs, Running(m), NEW d \in DOMAIN read[m].from,
               d \in bff.static[m] \/ m \notin Objects
        PROVE  stamp'[d] = stamp[d]
    <3>1. d \in bff.static[m] \/ d \in DOMAIN dynamics[m]
      BY <2>3 DEF StampInv, InputsRead, ReadInFull
    <3>2. d \in Nodes /\ d # f
      BY <1>5, <2>1, <2>2, <2>3, <3>1
    <3> QED
      BY <1>2, <3>2
  <2>4. \A m \in Libraries : Running(m) => stamp'[Lead[m]] = stamp[Lead[m]]
    BY <1>2, <1>5, <2>1
  <2> QED
    BY <1>1, <1>4, <2>3, <2>4 DEF StampInv, InputsRead, ReadInFull, disk
<1> QED
  BY <1>3, <1>6, <1>7, <1>8, <1>9 DEF StampInv

\* A tool reads its inputs: what it reads is at least as new as the stamps.
LEMMA StampOfReadInputs ==
  ASSUME TypeInv, OrderInv, StampInv, NEW n \in Nodes, ReadInputs(n), UNCHANGED session
  PROVE  StampInv'
<1> USE NodeKinds, StampTypes
<1>1. /\ n \in Outputs /\ job[n].at = "active" /\ job[n].result = "none"
      /\ state[n] = "BUILDING"
      /\ UNCHANGED <<disk, graph, main, edited, db>>
      /\ read' = [read EXCEPT ![n] = [props |-> bff.props[n],
                                     from |-> [d \in Inputs(n) |-> Modification(n, d)]]]
  BY DEF ReadInputs, OrderInv, JobsBuild, control, session, user
<1>2. /\ \A m \in Nodes \ {n} : job'[m] = job[m]
      /\ job'[n].at = "reading" /\ job'[n].result = "none"
      /\ \A m \in Outputs \ {n} : read'[m] = read[m] /\ (Running(m)' <=> Running(m))
      /\ read'[n].props = bff.props[n]
      /\ read'[n].from = [d \in Inputs(n) |-> Modification(n, d)]
  <2>1. job' = [job EXCEPT ![n] = [at |-> "reading", result |-> job[n].result]]
    BY PlaceNames, TypeOfMove DEF ReadInputs
  <2> QED
    BY <1>1, <2>1 DEF Running
<1>3. \A m \in Nodes : job'[m].result = job[m].result
  BY <1>1, <1>2
<1>4. FilesStamped'
  BY <1>1, <1>3 DEF StampInv, FilesStamped, disk, graph
<1>5. OutputsStamped'
  BY <1>1, <1>3 DEF StampInv, OutputsStamped, disk, graph
<1>6. ListingKnown'
  BY <1>1 DEF StampInv, ListingKnown, graph
<1>7. Records'
  BY <1>1, <1>3 DEF StampInv, Records, HonestInMemory, HonestInFile, disk, graph
<1>8. AreUp(bff.static[n]) /\ (n \notin Objects => AreUp(DOMAIN dynamics[n]))
  BY <1>1 DEF OrderInv, DependenciesFirst
<1>9. ASSUME NEW d \in Nodes, state[d] = "UP_TO_DATE", Modification(n, d) # 0
      PROVE  /\ stamp[d] # 0 /\ stamp[d] <= Modification(n, d)
             /\ Modification(n, d) <= mtime[d] \/ (d \in Files /\ mtime[d] = 0)
  <2>1. CASE d \in Outputs
    BY <1>9, <2>1 DEF StampInv, OutputsStamped, Modification
  <2>2. CASE d \in Files
    BY <1>9, <2>2 DEF StampInv, FilesStamped, Modification
  <2> QED
    BY <2>1, <2>2
<1>10. n \in Listing => Lead[n] \in bff.static[n] /\ Lead[n] \in Inputs(n)
  BY <1>1 DEF Inputs
<1>11. /\ DOMAIN read'[n].from = bff.static[n] \cup
                (IF n \in Objects THEN Found(n, read'[n].from[Lead[n]]) ELSE DOMAIN dynamics[n])
       /\ n \in Libraries => read'[n].from[Lead[n]] = stamp[Lead[n]]
  BY <1>1, <1>2, <1>10 DEF Inputs, Modification
<1>a. read'[n] # Foreign /\ IsRecord(read'[n])
  <2>1. bff \in Bffs /\ bff.props[n] \in Nat /\ DOMAIN dynamics[n] \in SUBSET Nodes
    BY <1>1, BffFields DEF TypeInv, TypeOK
  <2>2. Inputs(n) \in SUBSET Nodes /\ \A d \in Nodes : Modification(n, d) \in Nat
    <3>1. n \in Objects => Found(n, mtime[Lead[n]]) \in SUBSET Nodes
      BY <1>1, FoundNodes
    <3> QED
      BY <1>1, <2>1, <3>1 DEF Inputs, Modification
  <2>3. [d \in Inputs(n) |-> Modification(n, d)] \in [Inputs(n) -> Nat]
    BY <2>2
  <2>4. [d \in Inputs(n) |-> Modification(n, d)] \in UNION {[S -> Nat] : S \in SUBSET Nodes}
    <3>1. \A S \in SUBSET Nodes : \A f \in [S -> Nat] : f \in UNION {[T -> Nat] : T \in SUBSET Nodes}
      OBVIOUS
    <3> QED
      BY <2>2, <2>3, <3>1, Zenon
  <2>5. read'[n] = [props |-> bff.props[n], from |-> [d \in Inputs(n) |-> Modification(n, d)]]
    BY <1>1
  <2>6. read'[n] \in ContentsType
    <3> DEFINE f == [d \in Inputs(n) |-> Modification(n, d)]
    <3>1. f \in UNION {[T -> Nat] : T \in SUBSET Nodes} /\ bff.props[n] \in Nat
          /\ read'[n] = [props |-> bff.props[n], from |-> f]
      BY <2>1, <2>4, <2>5
    <3> HIDE DEF f
    <3> QED
      BY <3>1 DEF ContentsType
  <2>7. IsRecord(read'[n])
    BY <2>5 DEF IsRecord
  <2> QED
    BY <2>6, <2>7, GraphAssumption DEF GraphAssumption
<1>12. ASSUME NEW d \in DOMAIN read'[n].from, read'[n].from[d] # 0
       PROVE  /\ read'[n].from[d] <= mtime[d] \/ (d \in Files /\ mtime[d] = 0)
              /\ d \in bff.static[n] \/ n \notin Objects =>
                    stamp[d] # 0 /\ stamp[d] <= read'[n].from[d]
              /\ d \in Files /\ d \notin bff.static[n] /\ n \in Objects =>
                    read'[n].from[d] = mtime[d]
  <2>1. d \in Inputs(n) /\ read'[n].from[d] = Modification(n, d)
    BY <1>2, <1>12
  <2>2. CASE d \in bff.static[n] \/ n \notin Objects
    <3>1. d \in Nodes /\ state[d] = "UP_TO_DATE"
      BY <1>1, <1>8, <2>1, <2>2 DEF Inputs, AreUp
    <3> QED
      BY <1>9, <1>12, <2>1, <2>2, <3>1
  <2>3. CASE d \notin bff.static[n] /\ n \in Objects
    <3>1. Modification(n, d) = mtime[d]
      BY <2>3 DEF Modification
    <3>2. d \in Nodes
      <4>1. Found(n, mtime[Lead[n]]) \in SUBSET Nodes
        BY <1>1, <2>3, FoundNodes
      <4> QED
        BY <1>1, <2>1, <2>3, <4>1 DEF Inputs
    <3>3. mtime[d] \in Nat
      BY <3>2
    <3> QED
      BY <2>1, <2>3, <3>1, <3>3
  <2> QED
    BY <2>2, <2>3
<1>13. InputsRead'
  <2>1. UNCHANGED <<mtime, made, bff, stamp, dynamics>>
    BY <1>1 DEF disk, graph
  <2>2. ReadInFull(n)'
    BY <1>2, <1>a, <1>11, <1>12, <2>1 DEF ReadInFull
  <2>3. ASSUME NEW m \in Outputs \ {n}, Running(m)'
        PROVE  ReadInFull(m)'
    <3>1. ReadInFull(m)
      BY <1>2, <2>3 DEF StampInv, InputsRead
    <3> QED
      BY <1>2, <2>1, <2>3, <3>1 DEF ReadInFull
  <2> QED
    BY <2>2, <2>3 DEF InputsRead
<1> QED
  BY <1>4, <1>5, <1>6, <1>7, <1>13 DEF StampInv

\* A tool ends, and may have written its output.
LEMMA ToolEnds ==
  ASSUME TypeInv, OrderInv, NEW n \in Nodes, ToolSucceeds(n) \/ ToolFails(n), UNCHANGED session
  PROVE  /\ n \in Outputs /\ job[n].at = "reading" /\ state[n] = "BUILDING"
         /\ UNCHANGED <<bff, state, statics, dynamics, read, main, edited, db>>
         /\ \A m \in Nodes \ {n} : job'[m] = job[m] /\ mtime'[m] = mtime[m] /\ stamp'[m] = stamp[m]
         /\ \A m \in Outputs \ {n} : made'[m] = made[m] /\ (Running(m)' <=> Running(m))
         /\ mtime' \in [Nodes -> Nat] /\ Later(mtime, mtime')
         /\ \/ /\ job'[n].at = "ended" /\ job'[n].result = "ok"
               /\ made'[n] = read[n] /\ mtime'[n] = mtime[n] + 1 /\ stamp'[n] = mtime[n] + 1
               /\ \A d \in DOMAIN read[n].from : read[n].from[d] # 0
            \/ /\ job'[n].at = "ended" /\ job'[n].result \in {"failed", "aborted"}
               /\ made'[n] = made[n] \/ mtime'[n] = mtime[n] + 1
               /\ stamp'[n] = stamp[n]
         /\ \A f \in Files : f \in built' <=> f \in built
<1> USE NodeKinds, StampTypes
<1>1. /\ n \in Outputs /\ job[n].at = "reading" /\ state[n] = "BUILDING"
      /\ UNCHANGED <<bff, state, statics, dynamics, read, main, edited, db>>
      /\ \A f \in Files : f \in built' <=> f \in built
  BY DEF ToolSucceeds, ToolFails, graph, session, user, OrderInv, JobsBuild
<1>2. /\ \A m \in Nodes \ {n} : mtime'[m] = mtime[m] /\ stamp'[m] = stamp[m]
      /\ \A m \in Outputs \ {n} : made'[m] = made[m]
      /\ mtime' = mtime \/ mtime'[n] = mtime[n] + 1
      /\ mtime' \in [Nodes -> Nat]
  BY <1>1 DEF ToolSucceeds, ToolFails, Write, disk, graph
<1>3. Later(mtime, mtime')
  BY <1>1, <1>2 DEF Later
<1>4. CASE ToolSucceeds(n)
  <2>1. /\ \A m \in Nodes \ {n} : job'[m] = job[m]
        /\ job'[n].at = "ended" /\ job'[n].result = "ok"
    BY <1>4 DEF ToolSucceeds
  <2>2. /\ made'[n] = read[n] /\ mtime'[n] = mtime[n] + 1 /\ stamp'[n] = mtime[n] + 1
        /\ \A d \in DOMAIN read[n].from : read[n].from[d] # 0
    BY <1>1, <1>4 DEF ToolSucceeds, Write
  <2> QED
    BY <1>1, <1>2, <1>3, <2>1, <2>2 DEF Running
<1>5. CASE ToolFails(n)
  <2>1. PICK r \in {"failed", "aborted"} : job' = [job EXCEPT ![n] = [at |-> "ended", result |-> r]]
    BY <1>5 DEF ToolFails
  <2>2. /\ \A m \in Nodes \ {n} : job'[m] = job[m]
        /\ job'[n].at = "ended" /\ job'[n].result \in {"failed", "aborted"}
    BY <2>1
  <2>3. (made'[n] = made[n] \/ mtime'[n] = mtime[n] + 1) /\ stamp'[n] = stamp[n]
    BY <1>1, <1>5 DEF ToolFails, Write, disk, graph
  <2> QED
    BY <1>1, <1>2, <1>3, <2>2, <2>3 DEF Running
<1> QED
  BY <1>4, <1>5

LEMMA StampOfTool ==
  ASSUME TypeInv, OrderInv, StampInv, NEW n \in Nodes, ToolSucceeds(n) \/ ToolFails(n),
         UNCHANGED session
  PROVE  StampInv'
<1> USE NodeKinds, StampTypes, ToolEnds
<1>1. n \in Outputs /\ state[n] = "BUILDING" /\ job[n].at = "reading" /\ job[n].result = "none"
  BY DEF OrderInv, JobsBuild
<1>2. \A f \in Files : /\ job'[f] = job[f] /\ mtime'[f] = mtime[f] /\ stamp'[f] = stamp[f]
                       /\ f \in built' <=> f \in built
  BY <1>1
<1>3. FilesStamped'
  BY <1>1, <1>2 DEF StampInv, FilesStamped
<1>4. \A m \in Outputs : state[m] \in {"DYNAMIC_DEPS", "BUILDING", "UP_TO_DATE"} =>
          n \notin bff.static[m]
  BY <1>1 DEF OrderInv, DependenciesFirst, AreUp
<1>5. OutputsStamped'
  <2> SUFFICES ASSUME NEW m \in Outputs
               PROVE
        /\ stamp'[m] <= mtime'[m]
        /\ db.kind = "saved" => db.stamp[m] <= mtime'[m]
        /\ state[m] = "UP_TO_DATE" \/ job'[m].result = "ok" =>
                stamp'[m] = mtime'[m] /\ stamp'[m] # 0
        /\ state[m] = "DYNAMIC_DEPS" /\ stamp'[m] # 0 =>
            /\ stamp'[m] = mtime'[m]
            /\ \A d \in bff.static[m] : stamp'[d] = statics[m][d]
    BY DEF OutputsStamped
  <2>1. /\ stamp[m] <= mtime[m] /\ stamp[m] \in Nat /\ mtime[m] \in Nat
        /\ db.kind = "saved" => db.stamp[m] <= mtime[m] /\ db.stamp[m] \in Nat
        /\ state[m] = "UP_TO_DATE" \/ job[m].result = "ok" => stamp[m] = mtime[m] /\ stamp[m] # 0
        /\ state[m] = "DYNAMIC_DEPS" /\ stamp[m] # 0 =>
            /\ stamp[m] = mtime[m]
            /\ \A d \in bff.static[m] : stamp[d] = statics[m][d]
    BY DEF StampInv, OutputsStamped, TypeInv, DbType
  <2>2. CASE m = n
    BY <1>1, <2>1, <2>2 DEF Later
  <2>3. CASE m # n
    <3>1. /\ stamp'[m] = stamp[m] /\ mtime'[m] = mtime[m] /\ job'[m] = job[m]
          /\ state[m] = "DYNAMIC_DEPS" => \A d \in bff.static[m] : stamp'[d] = stamp[d]
      BY <1>4, <2>3
    <3> QED
      BY <2>1, <3>1
  <2> QED
    BY <2>2, <2>3
<1>6. ListingKnown'
  <2>1. \A m \in Libraries : stamp'[Lead[m]] = stamp[Lead[m]]
    BY <1>1
  <2> QED
    BY <2>1 DEF StampInv, ListingKnown
<1>7. Records'
  <2> SUFFICES ASSUME NEW m \in Outputs
               PROVE  /\ job'[m].result # "ok" => HonestInMemory(m)'
                      /\ db.kind = "saved" => HonestInFile(m)'
    BY DEF Records
  <2>1. made'[m] = made[m] \/ mtime'[m] = mtime[m] + 1
    BY <1>1
  <2>2. job'[m].result # "ok" => HonestInMemory(m) /\ stamp'[m] = stamp[m]
    BY <1>1 DEF StampInv, Records
  <2> QED
    BY <2>1, <2>2, RecordsStay
<1>8. InputsRead'
  <2> SUFFICES ASSUME NEW m \in Outputs, Running(m)'
               PROVE  ReadInFull(m)'
    BY DEF InputsRead
  <2>1. Running(m) /\ ReadInFull(m) /\ state[m] = "BUILDING"
    BY <1>1 DEF Running, StampInv, InputsRead, OrderInv, JobsBuild
  <2>2. n \notin DOMAIN read[m].from
    BY <1>1, <2>1 DEF OrderInv, OutputsAreRead
  <2>3. \A d \in DOMAIN read[m].from : mtime'[d] = mtime[d] /\ stamp'[d] = stamp[d]
    BY <2>1, <2>2 DEF TypeInv, HasRead, Running, Stamps
  <2>4. m \in Libraries => stamp'[Lead[m]] = stamp[Lead[m]]
    BY <1>1
  <2>5. job'[m].result = "ok" =>
            made'[m] = read[m] /\ \A d \in DOMAIN read[m].from : read[m].from[d] # 0
    BY <1>1, <2>1 DEF ReadInFull
  <2> QED
    BY <2>1, <2>3, <2>4, <2>5 DEF ReadInFull
<1> QED
  BY <1>3, <1>5, <1>6, <1>7, <1>8 DEF StampInv

\* The sweep changes the record of a node only when it clears its stamp.
LEMMA StampOfAdvance ==
  ASSUME TypeInv, OrderInv, StampInv, NEW n \in Nodes, UNCHANGED session,
         NotReady(n) \/ PreBuildReady(n) \/ StaticReady(n) \/ DynamicReady(n)
  PROVE  StampInv'
<1> USE NodeKinds, StampTypes
<1>1. /\ UNCHANGED <<disk, bff, statics, built, read, main, edited, db>>
      /\ \A m \in Nodes \ {n} : state'[m] = state[m] /\ stamp'[m] = stamp[m]
      /\ \A m \in Outputs \ {n} : dynamics'[m] = dynamics[m]
      /\ state[n] \in Pending /\ job[n].result = "none"
  <2>1. /\ UNCHANGED <<disk, bff, statics, built, read, main, edited, db>>
        /\ \A m \in Nodes \ {n} : state'[m] = state[m]
    BY DEF NotReady, PreBuildReady, StaticReady, DynamicReady, queue, control, session, user
  <2>2. state[n] \in Pending
    BY DEF NotReady, PreBuildReady, StaticReady, DynamicReady, Ready, Sweeping, Checked, Pending
  <2>3. job[n].result = "none"
    BY <2>2 DEF OrderInv, JobsBuild, Pending
  <2>4. /\ \A m \in Nodes \ {n} : stamp'[m] = stamp[m]
        /\ \A m \in Outputs \ {n} : dynamics'[m] = dynamics[m]
    BY DEF NotReady, PreBuildReady, StaticReady, DynamicReady, DirtyNode
  <2> QED
    BY <2>1, <2>2, <2>3, <2>4
<1>2. \A m \in Nodes : job'[m].result = job[m].result
  <2>1. Move(n, "staged") => \A m \in Nodes : job'[m].result = job[m].result
    BY DEF Move, JobType
  <2> QED
    BY <2>1 DEF NotReady, PreBuildReady, StaticReady, DynamicReady, queue
<1>3. \A m \in Outputs : Running(m)' <=> Running(m)
  <2>1. job[n].at # "reading"
    BY <1>1 DEF OrderInv, JobsBuild, Pending
  <2>2. Move(n, "staged") => \A m \in Nodes : job'[m] = job[m] \/ (m = n /\ job'[m].at = "staged")
    BY DEF Move
  <2>3. job' = job \/ Move(n, "staged")
    BY DEF NotReady, PreBuildReady, StaticReady, DynamicReady, queue
  <2> QED
    BY <1>2, <2>1, <2>2, <2>3 DEF Running
\* What becomes of node n.
<1>4. \/ /\ stamp' = stamp /\ dynamics' = dynamics
         /\ \/ state'[n] = "FAILED" \/ state'[n] = state[n]
            \/ state[n] = "NOT_PROCESSED" /\ state'[n] = "STATIC_DEPS"
            \/ state[n] = "DYNAMIC_DEPS" /\ state'[n] = "BUILDING"
            \/ state[n] = "DYNAMIC_DEPS" /\ state'[n] = "UP_TO_DATE" /\ stamp[n] # 0
            \/ /\ state[n] = "STATIC_DEPS" /\ state'[n] = "DYNAMIC_DEPS"
               /\ n \in Outputs /\ stamp[n] # 0 /\ mtime[n] = stamp[n]
               /\ \A d \in bff.static[n] : stamp[d] = statics[n][d]
      \/ /\ stamp'[n] = 0 /\ (n \in Outputs => dynamics'[n] = Unstamped(Listed(n)))
         /\ state[n] = "STATIC_DEPS" /\ state'[n] \in {"DYNAMIC_DEPS", "FAILED"}
  <2>1. CASE NotReady(n)
    BY <2>1 DEF NotReady
  <2>2. CASE PreBuildReady(n)
    BY <2>2 DEF PreBuildReady, Ready
  <2>3. CASE DynamicReady(n)
    BY <2>3 DEF DynamicReady, Ready
  <2>4. CASE StaticReady(n) /\ DirtyNode(n)
    <3>1. stamp'[n] = 0 /\ (n \in Outputs => dynamics'[n] = Unstamped(Listed(n)))
      BY <2>4 DEF DirtyNode
    <3> QED
      BY <2>4, <3>1 DEF StaticReady, Ready
  <2>5. CASE StaticReady(n) /\ ~DirtyNode(n)
    <3>1. stamp' = stamp /\ dynamics' = dynamics /\ ~NeedToBuildStatic(n)
          /\ state[n] = "STATIC_DEPS" /\ state'[n] = "DYNAMIC_DEPS"
      BY <2>5 DEF StaticReady, Ready
    <3> QED
      BY <3>1 DEF NeedToBuildStatic, NeedToBuild
  <2> QED
    BY <2>1, <2>2, <2>3, <2>4, <2>5
<1>5. FilesStamped'
  <2> SUFFICES ASSUME NEW f \in Files
               PROVE
        /\ stamp'[f] <= mtime[f] \/ mtime[f] = 0
        /\ main # "idle" /\ (~edited \/ f \notin EditedDuringBuild) => stamp'[f] \in {0, mtime[f]}
        /\ job[f].result = "ok" => f \in built
        /\ f \in built => state'[f] \notin Pending
        /\ f \in built \/ state'[f] = "UP_TO_DATE" => stamp'[f] # 0 \/ mtime[f] = 0
    BY <1>1, <1>2 DEF FilesStamped, disk
  <2>1. /\ stamp[f] <= mtime[f] \/ mtime[f] = 0
        /\ main # "idle" /\ (~edited \/ f \notin EditedDuringBuild) => stamp[f] \in {0, mtime[f]}
        /\ job[f].result = "ok" => f \in built
        /\ f \in built => state[f] \notin Pending
        /\ f \in built \/ state[f] = "UP_TO_DATE" => stamp[f] # 0 \/ mtime[f] = 0
    BY DEF StampInv, FilesStamped
  <2>2. CASE f # n
    BY <1>1, <2>1, <2>2
  <2>3. CASE f = n
    BY <1>1, <1>4, <2>1, <2>3
  <2> QED
    BY <2>2, <2>3
<1>6. ASSUME NEW m \in Outputs, state[m] \in {"DYNAMIC_DEPS", "BUILDING", "UP_TO_DATE"},
             NEW d \in bff.static[m]
      PROVE  d # n /\ stamp'[d] = stamp[d]
  <2>1. state[d] = "UP_TO_DATE" /\ d \in Nodes
    BY <1>6 DEF OrderInv, DependenciesFirst, AreUp
  <2> QED
    BY <1>1, <2>1 DEF Pending
<1>7. OutputsStamped'
  <2> SUFFICES ASSUME NEW m \in Outputs
               PROVE
        /\ stamp'[m] <= mtime[m]
        /\ db.kind = "saved" => db.stamp[m] <= mtime[m]
        /\ state'[m] = "UP_TO_DATE" \/ job[m].result = "ok" =>
                stamp'[m] = mtime[m] /\ stamp'[m] # 0
        /\ state'[m] = "DYNAMIC_DEPS" /\ stamp'[m] # 0 =>
            /\ stamp'[m] = mtime[m]
            /\ \A d \in bff.static[m] : stamp'[d] = statics[m][d]
    BY <1>1, <1>2 DEF OutputsStamped, disk
  <2>1. /\ stamp[m] <= mtime[m] /\ stamp[m] \in Nat /\ mtime[m] \in Nat
        /\ db.kind = "saved" => db.stamp[m] <= mtime[m]
        /\ state[m] = "UP_TO_DATE" \/ job[m].result = "ok" => stamp[m] = mtime[m] /\ stamp[m] # 0
        /\ state[m] = "DYNAMIC_DEPS" /\ stamp[m] # 0 =>
            /\ stamp[m] = mtime[m]
            /\ \A d \in bff.static[m] : stamp[d] = statics[m][d]
    BY DEF StampInv, OutputsStamped
  <2>2. CASE m # n
    <3>1. state'[m] = state[m] /\ stamp'[m] = stamp[m]
      BY <1>1, <2>2
    <3>2. state[m] = "DYNAMIC_DEPS" => \A d \in bff.static[m] : stamp'[d] = stamp[d]
      BY <1>6
    <3> QED
      BY <2>1, <3>1, <3>2
  <2>3. CASE m = n
    BY <1>1, <1>4, <2>1, <2>3
  <2> QED
    BY <2>2, <2>3
<1>8. ListingKnown'
  <2>1. ASSUME NEW m \in Libraries, state'[m] \in {"DYNAMIC_DEPS", "BUILDING"}
        PROVE  bff.static[m] \cup DOMAIN dynamics'[m] = bff.static[m] \cup Found(m, stamp'[Lead[m]])
    <3>1. m \in Outputs /\ Lead[m] \in Files /\ Lead[m] \in bff.static[m]
      OBVIOUS
    <3>2. CASE m # n
      <4>1. state[m] = state'[m] /\ dynamics'[m] = dynamics[m]
        BY <1>1, <3>1, <3>2
      <4>2. stamp'[Lead[m]] = stamp[Lead[m]]
        BY <1>6, <2>1, <3>1, <4>1
      <4> QED
        BY <2>1, <4>1, <4>2 DEF StampInv, ListingKnown
    <3>3. CASE m = n /\ stamp' = stamp /\ dynamics' = dynamics
                     /\ state[n] \in {"DYNAMIC_DEPS", "BUILDING"}
      BY <3>3 DEF StampInv, ListingKnown
    <3>4. CASE m = n /\ dynamics'[n] = Unstamped(Listed(n))
      <4>1. Lead[n] # n
        BY <3>1, <3>4
      <4>2. stamp'[Lead[n]] = stamp[Lead[n]]
        BY <1>1, <3>1, <3>4, <4>1
      <4> QED
        BY <2>1, <3>4, <4>2 DEF Unstamped, Listed
    <3>5. CASE /\ m = n /\ stamp' = stamp /\ dynamics' = dynamics /\ state[n] = "STATIC_DEPS"
               /\ stamp[n] # 0 /\ mtime[n] = stamp[n]
               /\ \A d \in bff.static[n] : stamp[d] = statics[n][d]
      <4>1. HonestInMemory(n)
        BY <1>1, <3>1, <3>5 DEF StampInv, Records
      <4>2. /\ DOMAIN made[n].from = bff.static[n] \cup DOMAIN dynamics[n]
            /\ DOMAIN made[n].from = bff.static[n] \cup Found(n, made[n].from[Lead[n]])
            /\ statics[n][Lead[n]] = made[n].from[Lead[n]]
        BY <2>1, <3>5, <4>1 DEF HonestInMemory, Honest
      <4>3. stamp[Lead[n]] = statics[n][Lead[n]]
        BY <3>1, <3>5
      <4> QED
        BY <3>5, <4>2, <4>3
    <3>6. m # n \/ n \in Outputs
      BY <3>1
    <3> QED
      BY <1>4, <2>1, <3>2, <3>3, <3>4, <3>5, <3>6
  <2>2. ASSUME NEW m \in Tools
        PROVE  DOMAIN dynamics'[m] = {} /\ (db.kind = "saved" => DOMAIN db.dynamics[m] = {})
    <3>1. m \in Outputs /\ m \notin Libraries
      BY GraphAssumption DEF GraphAssumption, Outputs
    <3>2. Listed(m) = {}
      BY <3>1 DEF Listed
    <3> QED
      BY <1>1, <1>4, <3>1, <3>2 DEF StampInv, ListingKnown, Unstamped
  <2> QED
    BY <1>1, <2>1, <2>2 DEF ListingKnown
<1>9. Records'
  <2> SUFFICES ASSUME NEW m \in Outputs
               PROVE  /\ job[m].result # "ok" => HonestInMemory(m)'
                      /\ db.kind = "saved" => HonestInFile(m)'
    BY <1>1, <1>2 DEF Records
  <2>1. db.kind = "saved" => HonestInFile(m)'
    BY <1>1 DEF StampInv, Records, HonestInFile, disk
  <2>2. CASE stamp'[m] = stamp[m] /\ dynamics'[m] = dynamics[m]
    BY <1>1, <2>1, <2>2 DEF StampInv, Records, HonestInMemory, disk
  <2>3. CASE stamp'[m] = 0
    BY <2>1, <2>3 DEF HonestInMemory, Honest
  <2> QED
    BY <1>1, <1>4, <2>2, <2>3
<1>10. InputsRead'
  <2> SUFFICES ASSUME NEW m \in Outputs, Running(m)
               PROVE  ReadInFull(m)'
    BY <1>3 DEF InputsRead
  <2>1. ReadInFull(m) /\ state[m] = "BUILDING" /\ m # n /\ dynamics'[m] = dynamics[m]
    BY <1>1 DEF Running, StampInv, InputsRead, OrderInv, JobsBuild, Pending
  <2>2. ASSUME NEW d \in DOMAIN read[m].from, d \in bff.static[m] \/ m \notin Objects
        PROVE  stamp'[d] = stamp[d]
    <3>1. d \in bff.static[m] \/ d \in DOMAIN dynamics[m]
      BY <2>1, <2>2 DEF ReadInFull
    <3>2. state[d] = "UP_TO_DATE" /\ d \in Nodes
      BY <2>1, <2>2, <3>1 DEF OrderInv, DependenciesFirst, AreUp
    <3> QED
      BY <1>1, <3>2 DEF Pending
  <2>3. m \in Libraries => stamp'[Lead[m]] = stamp[Lead[m]]
    BY <1>6, <2>1
  <2> QED
    BY <1>1, <1>2, <2>1, <2>2, <2>3 DEF ReadInFull, disk
<1> QED
  BY <1>5, <1>7, <1>8, <1>9, <1>10 DEF StampInv

\* Finalization: what was built is recorded. A job that succeeded is not left behind by the
\* end of the queue.
LEMMA FinalizeEffects ==
  ASSUME TypeInv, OrderInv, StampInv, FinalizeCompletedJobs, UNCHANGED session
  PROVE  /\ UNCHANGED <<mtime, made, bff, built, read, edited, db>>
         /\ main # "idle" /\ main' # "idle"
         /\ \A d \in Nodes : stamp'[d] = IF d \in Unseen THEN mtime[d] ELSE stamp[d]
         /\ \A n \in Outputs : stamp'[n] = stamp[n]
         /\ \A d \in Nodes : state[d] = "UP_TO_DATE" \/ stamp[d] # 0 => stamp'[d] = stamp[d]
         /\ \A n \in Succeeded :
              /\ state[n] = "BUILDING" /\ state'[n] = "UP_TO_DATE" /\ job'[n] = NoJob
              /\ job[n].result = "ok"
         /\ \A n \in Succeeded \cap Outputs :
              /\ statics'[n] = [d \in bff.static[n] |-> stamp'[d]]
              /\ dynamics'[n] = [d \in (IF n \in Objects THEN Includes(n) ELSE DOMAIN dynamics[n])
                                    |-> stamp'[d]]
         /\ \A n \in Nodes \ Succeeded :
              /\ state'[n] = state[n] \/ (state[n] = "BUILDING" /\ state'[n] = "FAILED")
              /\ job'[n] = job[n] \/ (job'[n] = NoJob /\ job[n].result # "ok")
         /\ \A n \in Outputs \ Succeeded : statics'[n] = statics[n] /\ dynamics'[n] = dynamics[n]
<1> USE NodeKinds, StampTypes
<1>1. /\ UNCHANGED <<mtime, made, bff, built, read, edited, db>>
      /\ main # "idle" /\ main' # "idle" /\ FinalizeNodes
  BY DEF FinalizeCompletedJobs, FinalizeNodes, disk, session, user
<1>2. /\ \A d \in Nodes : stamp'[d] = IF d \in Unseen THEN mtime[d] ELSE stamp[d]
      /\ Unseen \subseteq Files /\ \A d \in Unseen : stamp[d] = 0
  BY <1>1 DEF FinalizeNodes, Unseen
<1>3. \A n \in Outputs : stamp'[n] = stamp[n]
  BY <1>2
<1>4. \A d \in Nodes : state[d] = "UP_TO_DATE" \/ stamp[d] # 0 => stamp'[d] = stamp[d]
  BY <1>2 DEF StampInv, FilesStamped
<1>5. \A n \in Succeeded :
        /\ n \in Nodes /\ job[n].at = "completed" /\ job[n].result = "ok" /\ state[n] = "BUILDING"
        /\ state'[n] = "UP_TO_DATE" /\ job'[n] = NoJob
  BY <1>1 DEF Succeeded, At, OrderInv, JobsBuild, FinalizeNodes, FinalizeCompletedJobs, Remaining
<1>6. /\ \A n \in Succeeded \cap Outputs :
            /\ statics'[n] = [d \in bff.static[n] |-> stamp'[d]]
            /\ dynamics'[n] = [d \in (IF n \in Objects THEN Includes(n) ELSE DOMAIN dynamics[n])
                                  |-> stamp'[d]]
      /\ \A n \in Outputs \ Succeeded : statics'[n] = statics[n] /\ dynamics'[n] = dynamics[n]
  BY <1>1 DEF FinalizeNodes
<1>7. \A n \in Nodes \ Succeeded :
        state'[n] = state[n] \/ (state[n] = "BUILDING" /\ state'[n] = "FAILED")
  BY <1>1 DEF FinalizeNodes, At, OrderInv, JobsBuild
<1>8. ASSUME NEW n \in Nodes \ Succeeded
      PROVE  job'[n] = job[n] \/ (job'[n] = NoJob /\ job[n].result # "ok")
  <2>1. CASE job[n].at = "completed"
    BY <1>8, <2>1 DEF Succeeded, At, FinalizeCompletedJobs, Remaining
  <2>2. CASE job[n].at # "completed" /\ ~(stopping /\ exited = NumWorkerThreads)
    BY <2>2 DEF FinalizeCompletedJobs, Remaining
  <2>3. CASE job[n].at # "completed" /\ stopping /\ exited = NumWorkerThreads
    <3>1. job'[n] = NoJob
      BY <2>3 DEF FinalizeCompletedJobs, Remaining
    <3>2. Cardinality(At(Held)) = 0
      BY <2>3, HeldJobs, GraphAssumption DEF GraphAssumption, TypeInv, ThreadsCounted
    <3>3. At(Held) = {}
      BY <3>2, HeldJobs, FS_EmptySet
    <3>4. job[n].result # "ok"
      BY <2>3, <3>3 DEF At, Held, OrderInv, JobsBuild
    <3> QED
      BY <3>1, <3>4
  <2> QED
    BY <2>1, <2>2, <2>3
<1> QED
  BY <1>1, <1>2, <1>3, <1>4, <1>5, <1>6, <1>7, <1>8

\* What an object finds in its source does not change while a build runs.
LEMMA IncludesAreStable ==
  ASSUME HeadersAreStable, NEW n \in Objects, NEW m \in Nat, NEW d \in Found(n, m)
  PROVE  d \notin EditedDuringBuild
<1>1. Discovers[n] \in Seq(SUBSET Nodes) /\ Discovers[n] # <<>>
  BY NodeKinds, GraphAssumption DEF GraphAssumption
<1>2. Len(Discovers[n]) \in Nat \ {0} /\ DOMAIN Discovers[n] = 1 .. Len(Discovers[n])
  BY <1>1
<1>3. \E i \in DOMAIN Discovers[n] : d \in Discovers[n][i]
  BY <1>2, Remainder DEF Found
<1> QED
  BY <1>3 DEF HeadersAreStable

LEMMA Between == \A s, r, m \in Nat : s <= r /\ r <= m => s <= m /\ (s = m => r = m)
  OBVIOUS

\* The record of an output just built is honest: a static dependency was stamped before
\* the tool read it, and an included file did not change since.
LEMMA NewRecord ==
  ASSUME HeadersAreStable, TypeInv, OrderInv, StampInv, FinalizeCompletedJobs, UNCHANGED session,
         NEW n \in Succeeded \cap Outputs
  PROVE  HonestInMemory(n)'
<1> USE NodeKinds, StampTypes
<1>0. /\ UNCHANGED <<mtime, made, bff>> /\ main # "idle"
      /\ \A d \in Nodes : stamp'[d] = IF d \in Unseen THEN mtime[d] ELSE stamp[d]
      /\ \A m \in Outputs : stamp'[m] = stamp[m]
      /\ \A d \in Nodes : state[d] = "UP_TO_DATE" \/ stamp[d] # 0 => stamp'[d] = stamp[d]
      /\ state[n] = "BUILDING" /\ job[n].result = "ok"
      /\ statics'[n] = [d \in bff.static[n] |-> stamp'[d]]
      /\ dynamics'[n] = [d \in (IF n \in Objects THEN Includes(n) ELSE DOMAIN dynamics[n])
                            |-> stamp'[d]]
  BY FinalizeEffects
<1>1. /\ Running(n) /\ ReadInFull(n) /\ job[n].result = "ok" /\ state[n] = "BUILDING"
      /\ made[n] = read[n] /\ read[n] # Foreign
      /\ read[n].props \in Nat /\ Stamps(read[n].from)
  <2>1. Running(n) /\ ReadInFull(n) /\ job[n].result = "ok" /\ state[n] = "BUILDING"
    BY <1>0 DEF Running, StampInv, InputsRead
  <2> QED
    BY <2>1 DEF TypeInv, HasRead, Running, ReadInFull
<1>2. /\ bff'= bff /\ made' = made /\ mtime' = mtime /\ stamp'[n] = stamp[n]
      /\ statics'[n] = [d \in bff.static[n] |-> stamp'[d]]
      /\ dynamics'[n] = [d \in (IF n \in Objects THEN Includes(n) ELSE DOMAIN dynamics[n])
                            |-> stamp'[d]]
  BY <1>0
<1>3. /\ DOMAIN dynamics'[n] = IF n \in Objects THEN Includes(n) ELSE DOMAIN dynamics[n]
      /\ bff.static[n] \subseteq DOMAIN read[n].from
      /\ DOMAIN read[n].from = bff.static[n] \cup DOMAIN dynamics'[n]
  BY <1>1, <1>2 DEF ReadInFull, Includes
<1>4. AreUp(bff.static[n]) /\ (n \notin Objects => AreUp(DOMAIN dynamics[n]))
  BY <1>1 DEF OrderInv, DependenciesFirst
<1>5. n \in Listing => /\ Lead[n] \in bff.static[n] /\ Lead[n] \in Files /\ Lead[n] \in Nodes
                       /\ stamp'[Lead[n]] = stamp[Lead[n]]
  BY <1>0, <1>4 DEF AreUp
<1>6. n \in Listing =>
        DOMAIN read[n].from = bff.static[n] \cup Found(n, read[n].from[Lead[n]])
  <2>1. CASE n \in Objects
    BY <1>1, <2>1 DEF ReadInFull
  <2>2. CASE n \in Libraries
    BY <1>1, <2>2 DEF ReadInFull, StampInv, ListingKnown
  <2> QED
    BY <2>1, <2>2 DEF Listing
<1>7. n \in Libraries => statics'[n][Lead[n]] = read[n].from[Lead[n]]
  BY <1>1, <1>2, <1>5 DEF ReadInFull
<1>8. ASSUME NEW d \in DOMAIN read[n].from
      PROVE  /\ d \in Nodes /\ stamp'[d] # 0
             /\ stamp'[d] <= mtime[d] \/ (d \in Files /\ mtime[d] = 0)
             /\ stamp'[d] = mtime[d] => read[n].from[d] = mtime[d]
  <2>1. /\ d \in Nodes /\ read[n].from[d] \in Nat /\ read[n].from[d] # 0
        /\ stamp[d] \in Nat /\ mtime[d] \in Nat
    BY <1>1 DEF Stamps, ReadInFull
  <2>2. CASE d \in bff.static[n] \/ n \notin Objects
    <3>1. /\ stamp[d] # 0 /\ stamp[d] <= read[n].from[d]
          /\ read[n].from[d] <= mtime[d] \/ (d \in Files /\ mtime[d] = 0)
      BY <1>1, <2>1, <2>2 DEF ReadInFull
    <3>2. stamp'[d] = stamp[d]
      BY <1>0, <2>1, <3>1
    <3>4. /\ stamp[d] <= mtime[d] \/ (d \in Files /\ mtime[d] = 0)
          /\ stamp[d] = mtime[d] => read[n].from[d] = mtime[d]
      <4>1. CASE read[n].from[d] <= mtime[d]
        <5>1. stamp[d] <= mtime[d] /\ (stamp[d] = mtime[d] => read[n].from[d] = mtime[d])
          <6> HIDE NodeKinds, StampTypes
          <6> QED
            BY <2>1, <3>1, <4>1, Between
        <5> QED
          BY <5>1
      <4>2. CASE d \in Files /\ mtime[d] = 0
        <5>1. stamp[d] # mtime[d]
          BY <3>1, <4>2
        <5> QED
          BY <4>2, <5>1, Zenon
      <4> QED
        BY <3>1, <4>1, <4>2, Zenon
    <3> QED
      BY <2>1, <3>1, <3>2, <3>4, Zenon
  <2>3. CASE d \notin bff.static[n] /\ n \in Objects /\ d \in Outputs
    <3>1. state[d] = "UP_TO_DATE" /\ read[n].from[d] = mtime[d]
      BY <1>1, <2>3 DEF OrderInv, OutputsAreRead
    <3>2. stamp[d] = mtime[d] /\ stamp[d] # 0
      BY <2>3, <3>1 DEF StampInv, OutputsStamped
    <3>3. stamp'[d] = stamp[d]
      BY <1>0, <2>1, <3>2
    <3> QED
      BY <2>1, <3>1, <3>2, <3>3
  <2>4. CASE d \notin bff.static[n] /\ n \in Objects /\ d \in Files
    <3>1. read[n].from[d] = mtime[d]
      BY <1>1, <2>1, <2>4 DEF ReadInFull
    <3>2. d \notin EditedDuringBuild
      <4>1. d \in Found(n, read[n].from[Lead[n]])
        BY <1>1, <2>4 DEF ReadInFull
      <4>2. read[n].from[Lead[n]] \in Nat
        BY <1>1, <1>3, <1>5, <2>4 DEF Stamps
      <4> QED
        BY <2>4, <4>1, <4>2, IncludesAreStable
    <3>3. stamp[d] \in {0, mtime[d]} /\ (d \in built => stamp[d] # 0 \/ mtime[d] = 0)
      BY <1>0, <2>4, <3>2 DEF StampInv, FilesStamped
    <3>4. stamp[d] = 0 => d \in Unseen
      <4>1. d \in Includes(n) /\ n \in Objects
        BY <2>4 DEF Includes
      <4> QED
        BY <2>1, <2>4, <3>1, <3>3, <4>1 DEF Unseen
    <3>5. stamp'[d] = mtime[d]
      BY <1>0, <2>1, <3>3, <3>4
    <3> QED
      BY <2>1, <3>1, <3>5
  <2> QED
    BY <2>1, <2>2, <2>3, <2>4
<1>9. ASSUME NEW d \in bff.static[n] \cup DOMAIN dynamics'[n]
      PROVE  (IF d \in bff.static[n] THEN statics'[n][d] ELSE dynamics'[n][d]) = stamp'[d]
  BY <1>2, <1>3, <1>9
<1>10. /\ made[n] # Foreign /\ IsRecord(made[n])
       /\ made[n].props = bff.props[n] /\ made[n] = read[n]
  BY <1>1 DEF ReadInFull
<1>11. HonestInMemory(n)'
  BY <1>2, <1>3, <1>6, <1>7, <1>8, <1>9, <1>10 DEF HonestInMemory, Honest
<1> QED
  BY <1>11

LEMMA StampOfFinalize ==
  ASSUME HeadersAreStable, TypeInv, OrderInv, StampInv, FinalizeCompletedJobs, UNCHANGED session
  PROVE  StampInv'
<1> USE NodeKinds, StampTypes
<1>1. /\ UNCHANGED <<mtime, made, bff, built, read, edited, db>> /\ main # "idle"
      /\ \A d \in Nodes : stamp'[d] = IF d \in Unseen THEN mtime[d] ELSE stamp[d]
      /\ \A n \in Outputs : stamp'[n] = stamp[n]
      /\ \A d \in Nodes : state[d] = "UP_TO_DATE" \/ stamp[d] # 0 => stamp'[d] = stamp[d]
  BY FinalizeEffects
<1>2. /\ \A n \in Succeeded : /\ state[n] = "BUILDING" /\ state'[n] = "UP_TO_DATE"
                              /\ job'[n] = NoJob /\ job[n].result = "ok"
      /\ \A n \in Nodes \ Succeeded :
            /\ state'[n] = state[n] \/ (state[n] = "BUILDING" /\ state'[n] = "FAILED")
            /\ job'[n] = job[n] \/ (job'[n] = NoJob /\ job[n].result # "ok")
      /\ \A n \in Outputs \ Succeeded : statics'[n] = statics[n] /\ dynamics'[n] = dynamics[n]
  BY FinalizeEffects
<1>a. \A n \in Succeeded \cap Outputs :
        DOMAIN dynamics'[n] = IF n \in Objects THEN Includes(n) ELSE DOMAIN dynamics[n]
  <2> SUFFICES ASSUME NEW n \in Succeeded \cap Outputs
               PROVE DOMAIN dynamics'[n] = IF n \in Objects THEN Includes(n) ELSE DOMAIN dynamics[n]
    OBVIOUS
  <2>1. dynamics'[n] = [d \in (IF n \in Objects THEN Includes(n) ELSE DOMAIN dynamics[n])
                            |-> stamp'[d]]
    BY FinalizeEffects
  <2> QED
    BY <2>1
<1>3. FilesStamped'
  BY <1>1, <1>2 DEF StampInv, FilesStamped, Pending, NoJob
<1>4. OutputsStamped'
  <2> SUFFICES ASSUME NEW n \in Outputs
               PROVE
        /\ stamp[n] <= mtime[n]
        /\ db.kind = "saved" => db.stamp[n] <= mtime[n]
        /\ state'[n] = "UP_TO_DATE" \/ job'[n].result = "ok" => stamp[n] = mtime[n] /\ stamp[n] # 0
        /\ state'[n] = "DYNAMIC_DEPS" /\ stamp[n] # 0 =>
            /\ stamp[n] = mtime[n]
            /\ \A d \in bff.static[n] : stamp'[d] = statics'[n][d]
    BY <1>1 DEF OutputsStamped
  <2>1. /\ stamp[n] <= mtime[n]
        /\ db.kind = "saved" => db.stamp[n] <= mtime[n]
        /\ state[n] = "UP_TO_DATE" \/ job[n].result = "ok" => stamp[n] = mtime[n] /\ stamp[n] # 0
        /\ state[n] = "DYNAMIC_DEPS" /\ stamp[n] # 0 =>
            /\ stamp[n] = mtime[n]
            /\ \A d \in bff.static[n] : stamp[d] = statics[n][d]
    BY DEF StampInv, OutputsStamped
  <2>2. CASE n \in Succeeded
    BY <1>2, <2>1, <2>2
  <2>3. CASE n \notin Succeeded
    <3>1. /\ state'[n] = state[n] \/ state'[n] = "FAILED"
          /\ job'[n].result = "ok" => job[n].result = "ok"
          /\ statics'[n] = statics[n]
      BY <1>2, <2>3 DEF NoJob
    <3>2. state[n] = "DYNAMIC_DEPS" => \A d \in bff.static[n] : stamp'[d] = stamp[d]
      BY <1>1 DEF OrderInv, DependenciesFirst, AreUp
    <3> QED
      BY <2>1, <3>1, <3>2
  <2> QED
    BY <2>2, <2>3
<1>5. ListingKnown'
  <2>1. ASSUME NEW n \in Libraries, state'[n] \in {"DYNAMIC_DEPS", "BUILDING"}
        PROVE  bff.static[n] \cup DOMAIN dynamics'[n] = bff.static[n] \cup Found(n, stamp'[Lead[n]])
    <3>1. n \notin Succeeded /\ state[n] \in {"DYNAMIC_DEPS", "BUILDING"}
          /\ dynamics'[n] = dynamics[n]
      BY <1>2, <2>1
    <3>2. stamp'[Lead[n]] = stamp[Lead[n]]
      BY <1>1, <3>1 DEF OrderInv, DependenciesFirst, AreUp
    <3> QED
      BY <3>1, <3>2 DEF StampInv, ListingKnown
  <2>2. ASSUME NEW n \in Tools
        PROVE  DOMAIN dynamics'[n] = {} /\ (db.kind = "saved" => DOMAIN db.dynamics[n] = {})
    <3>1. n \in Outputs /\ n \notin Objects
      BY GraphAssumption DEF GraphAssumption, Outputs
    <3> QED
      BY <1>2, <1>a, <3>1 DEF StampInv, ListingKnown
  <2> QED
    BY <1>1, <2>1, <2>2 DEF ListingKnown
<1>6. Records'
  <2> SUFFICES ASSUME NEW n \in Outputs
               PROVE  /\ job'[n].result # "ok" => HonestInMemory(n)'
                      /\ db.kind = "saved" => HonestInFile(n)'
    BY <1>1 DEF Records
  <2>1. db.kind = "saved" => HonestInFile(n)'
    BY <1>1 DEF StampInv, Records, HonestInFile
  <2>2. CASE n \in Succeeded
    BY <2>1, <2>2, NewRecord
  <2>3. CASE n \notin Succeeded
    <3>1. job'[n].result # "ok" => job[n].result # "ok"
      BY <1>2, <2>3
    <3>2. HonestInMemory(n) => HonestInMemory(n)'
      BY <1>1, <1>2, <2>3 DEF HonestInMemory
    <3> QED
      BY <2>1, <3>1, <3>2 DEF StampInv, Records
  <2> QED
    BY <2>2, <2>3
<1>7. InputsRead'
  <2> SUFFICES ASSUME NEW n \in Outputs, Running(n)'
               PROVE  ReadInFull(n)'
    BY DEF InputsRead
  <2>1. n \notin Succeeded /\ job'[n] = job[n] /\ Running(n)
    BY <1>2 DEF Running, NoJob
  <2>2. ReadInFull(n) /\ state[n] = "BUILDING" /\ dynamics'[n] = dynamics[n]
    BY <1>2, <2>1 DEF Running, StampInv, InputsRead, OrderInv, JobsBuild
  <2>3. \A d \in DOMAIN read[n].from : stamp[d] # 0 => stamp'[d] = stamp[d]
    BY <1>1, <2>1 DEF TypeInv, HasRead, Running, Stamps
  <2>4. n \in Libraries => stamp'[Lead[n]] = stamp[Lead[n]]
    BY <1>1, <2>2 DEF OrderInv, DependenciesFirst, AreUp
  <2>5. \A d \in DOMAIN read[n].from : read[n].from[d] # 0 =>
            (d \in bff.static[n] \/ n \notin Objects =>
                stamp'[d] # 0 /\ stamp'[d] <= read[n].from[d])
    BY <2>2, <2>3 DEF ReadInFull
  <2> QED
    BY <1>1, <2>1, <2>2, <2>4, <2>5 DEF ReadInFull
<1> QED
  BY <1>3, <1>4, <1>5, <1>6, <1>7 DEF StampInv

\* Nothing of a build is left in memory once the process ended.
LEMMA StampOfEnd ==
  ASSUME TypeInv, OrderInv, StampInv, ProcessEnds, mtime' \in [Nodes -> Nat],
         \A f \in Files : mtime'[f] = mtime[f],
         \A n \in Outputs :
            db'.kind = "saved" => /\ db'.stamp[n] <= mtime'[n] /\ HonestInFile(n)'
                                  /\ n \in Tools => DOMAIN db'.dynamics[n] = {}
  PROVE  StampInv'
<1> USE NodeKinds, StampTypes
<1>1. /\ \A n \in Nodes : stamp'[n] = 0 /\ state'[n] = "NOT_PROCESSED" /\ job'[n] = NoJob
      /\ built' = {} /\ main' = "idle"
      /\ \A n \in Outputs : dynamics'[n] = Unstamped({})
  BY DEF ProcessEnds
<1>2. FilesStamped'
  BY <1>1 DEF FilesStamped, NoJob
<1>3. OutputsStamped'
  BY <1>1 DEF OutputsStamped, NoJob
<1>4. ListingKnown'
  BY <1>1 DEF ListingKnown, Unstamped, Outputs
<1>5. Records'
  BY <1>1 DEF Records, HonestInMemory, Honest
<1>6. InputsRead'
  BY <1>1 DEF InputsRead, Running, NoJob
<1> QED
  BY <1>2, <1>3, <1>4, <1>5, <1>6 DEF StampInv

LEMMA StampOfSaveEnds ==
  ASSUME TypeInv, OrderInv, StampInv, SaveEnds
  PROVE  StampInv'
<1> USE NodeKinds, StampTypes
<1>1. ProcessEnds /\ UNCHANGED disk
      /\ db' = [kind |-> "saved", bff |-> bff, stamp |-> [n \in Outputs |-> stamp[n]],
                statics |-> statics, dynamics |-> dynamics]
  BY DEF SaveEnds
<1>2. \A n \in Nodes : job[n].result # "ok"
  BY DEF SaveEnds, TypeInv, AtRest, NoJob
<1>3. ASSUME NEW n \in Outputs
      PROVE  db'.stamp[n] <= mtime'[n] /\ HonestInFile(n)' /\ (n \in Tools => DOMAIN db'.dynamics[n] = {})
  <2>1. HonestInMemory(n)
    BY <1>2 DEF StampInv, Records
  <2>2. HonestInFile(n)'
    BY <1>1, <2>1 DEF HonestInMemory, HonestInFile, disk
  <2>3. db'.stamp[n] <= mtime'[n] /\ (n \in Tools => DOMAIN db'.dynamics[n] = {})
    BY <1>1 DEF StampInv, OutputsStamped, ListingKnown, disk
  <2> QED
    BY <2>2, <2>3
<1> QED
  BY <1>1, <1>3, StampOfEnd DEF disk

\* A killed tool may leave a part of its output, with a new time.
LEMMA StampOfCrash ==
  ASSUME TypeInv, OrderInv, StampInv, Crash
  PROVE  StampInv'
<1> USE NodeKinds, StampTypes
<1>1. PICK broken \in SUBSET At({"reading"}) :
        /\ mtime' = [n \in Nodes |-> IF n \in broken THEN mtime[n] + 1 ELSE mtime[n]]
        /\ made' = [n \in Outputs |-> IF n \in broken THEN Foreign ELSE made[n]]
  BY DEF Crash
<1>2. ProcessEnds /\ db' = db
  BY DEF Crash
<1>3. broken \subseteq Outputs
  BY <1>1 DEF At, OrderInv, JobsBuild
<1>4. mtime' \in [Nodes -> Nat] /\ Later(mtime, mtime') /\ \A f \in Files : mtime'[f] = mtime[f]
  BY <1>1, <1>3 DEF Later
<1>5. ASSUME NEW n \in Outputs, db'.kind = "saved"
      PROVE  db'.stamp[n] <= mtime'[n] /\ HonestInFile(n)' /\ (n \in Tools => DOMAIN db'.dynamics[n] = {})
  <2>1. /\ db.bff \in Bffs /\ db.stamp[n] \in Nat /\ Stamps(db.statics[n])
        /\ DOMAIN db.statics[n] = db.bff.static[n]
        /\ Stamps(db.dynamics[n]) /\ db.stamp[n] <= mtime[n] /\ HonestInFile(n)
        /\ n \in Tools => DOMAIN db.dynamics[n] = {}
    BY <1>2, <1>5 DEF TypeInv, DbType, Dependency, StampInv, OutputsStamped, Records, ListingKnown
  <2>2. made'[n] = made[n] \/ mtime'[n] = mtime[n] + 1
    BY <1>1
  <2>3. HonestInFile(n)'
    BY <1>2, <1>4, <2>1, <2>2, HonestStays DEF HonestInFile
  <2>4. db'.stamp[n] <= mtime'[n]
    BY <1>1, <1>2, <2>1
  <2> QED
    BY <1>2, <2>1, <2>3, <2>4
<1> QED
  BY <1>2, <1>4, <1>5, StampOfEnd

\* What a build begins with is what was saved for the nodes it keeps, and nothing for others.
LEMMA StampOfStartBuild ==
  ASSUME TypeInv, OrderInv, StampInv, NEW ts \in TargetSets, StartBuild(ts)
  PROVE  StampInv'
<1> USE NodeKinds, StampTypes
<1> DEFINE kept == IF db.kind # "saved" THEN {}
                   ELSE IF db.bff = bffOnDisk THEN Outputs ELSE Migrated
<1>1. /\ UNCHANGED <<disk, state, built, job, read, db>> /\ bff' = bffOnDisk
      /\ stamp' = [n \in Nodes |-> IF n \in kept THEN db.stamp[n] ELSE 0]
      /\ statics' = [n \in Outputs |-> IF n \in kept THEN db.statics[n]
                                       ELSE Unstamped(bffOnDisk.static[n])]
      /\ dynamics' = [n \in Outputs |-> IF n \in kept THEN db.dynamics[n] ELSE Unstamped({})]
  BY DEF StartBuild, Initialize, queue
<1>2. /\ \A n \in Nodes : state[n] = "NOT_PROCESSED" /\ job[n] = NoJob
      /\ built = {}
  BY DEF StartBuild, TypeInv, AtRest
<1>3. /\ kept \subseteq Outputs
      /\ \A n \in kept : /\ db.kind = "saved"
                         /\ bffOnDisk.props[n] = db.bff.props[n]
                         /\ bffOnDisk.static[n] = db.bff.static[n]
  BY DEF Migrated, Keeps
<1> HIDE DEF kept
<1>4. FilesStamped'
  BY <1>1, <1>2, <1>3 DEF FilesStamped, NoJob, disk
<1>5. OutputsStamped'
  BY <1>1, <1>2, <1>3 DEF StampInv, OutputsStamped, NoJob, disk
<1>6. ListingKnown'
  <2>1. \A n \in Tools : n \in Outputs
    BY DEF Outputs
  <2>2. DOMAIN Unstamped({}) = {}
    BY DEF Unstamped
  <2> QED
    BY <1>1, <1>2, <1>3, <2>1, <2>2 DEF StampInv, ListingKnown
<1>7. Records'
  <2> SUFFICES ASSUME NEW n \in Outputs
               PROVE  HonestInMemory(n)' /\ (db.kind = "saved" => HonestInFile(n)')
    BY <1>1 DEF Records
  <2>1. db.kind = "saved" => HonestInFile(n)'
    BY <1>1 DEF StampInv, Records, HonestInFile, disk
  <2>2. CASE n \in kept
    <3>1. HonestInFile(n) /\ stamp'[n] = db.stamp[n] /\ statics'[n] = db.statics[n]
          /\ dynamics'[n] = db.dynamics[n]
      BY <1>1, <1>3, <2>2 DEF StampInv, Records
    <3>2. HonestInMemory(n)'
      BY <1>1, <1>3, <2>2, <3>1 DEF HonestInFile, HonestInMemory, Honest, disk
    <3> QED
      BY <2>1, <3>2
  <2>3. CASE n \notin kept
    BY <1>1, <2>1, <2>3 DEF HonestInMemory, Honest
  <2> QED
    BY <2>2, <2>3
<1>8. InputsRead'
  BY <1>1, <1>2 DEF InputsRead, Running, NoJob
<1> QED
  BY <1>4, <1>5, <1>6, <1>7, <1>8 DEF StampInv

\* The user moves files on, but no headers while tools run.
LEMMA StampOfUser ==
  ASSUME HeadersAreStable, TypeInv, OrderInv, StampInv,
         (\E f \in Files : EditFile(f)) \/ (\E n \in Outputs : OverwriteOutput(n)) \/ EditBff
  PROVE  StampInv'
<1> USE NodeKinds, StampTypes
<1>1. /\ UNCHANGED <<graph, queue, main, db>> /\ edited'
      /\ UNCHANGED <<bff, state, stamp, statics, dynamics, built, job, read>>
  BY DEF EditFile, OverwriteOutput, EditBff, Change, graph, queue
<1>2. /\ mtime' \in [Nodes -> Nat] /\ Later(mtime, mtime')
      /\ \A n \in Outputs : made'[n] = made[n] \/ mtime'[n] = mtime[n] + 1
      /\ \A n \in Outputs : mtime'[n] = mtime[n] \/ (main = "idle" /\ mtime'[n] = mtime[n] + 1)
      /\ \A n \in Outputs : main # "idle" => made'[n] = made[n]
      /\ \A f \in Files : f \notin EditedDuringBuild /\ main # "idle" => mtime'[f] = mtime[f]
  <2>1. ASSUME NEW f \in Files, EditFile(f)
        PROVE  /\ \A m \in Nodes \ {f} : mtime'[m] = mtime[m]
               /\ mtime[f] # 0 /\ mtime'[f] \in {mtime[f] + 1, 0} /\ made' = made
               /\ main = "idle" \/ f \in EditedDuringBuild
               /\ mtime' \in [Nodes -> Nat]
    BY <2>1 DEF EditFile
  <2>2. ASSUME NEW n \in Outputs, OverwriteOutput(n)
        PROVE  /\ \A m \in Nodes \ {n} : mtime'[m] = mtime[m]
               /\ mtime'[n] = mtime[n] + 1 /\ \A m \in Outputs \ {n} : made'[m] = made[m]
               /\ main = "idle"
               /\ mtime' \in [Nodes -> Nat]
    BY <2>2 DEF OverwriteOutput, Write
  <2>3. CASE \E f \in Files : EditFile(f)
    BY <2>1, <2>3 DEF Later
  <2>4. CASE \E n \in Outputs : OverwriteOutput(n)
    BY <2>2, <2>4 DEF Later
  <2>5. CASE EditBff
    BY <2>5 DEF EditBff, disk, Later
  <2> QED
    BY <2>3, <2>4, <2>5
<1>3. FilesStamped'
  <2> SUFFICES ASSUME NEW f \in Files
               PROVE
        /\ stamp[f] <= mtime'[f] \/ mtime'[f] = 0
        /\ main # "idle" /\ (~edited' \/ f \notin EditedDuringBuild) => stamp[f] \in {0, mtime'[f]}
        /\ job[f].result = "ok" => f \in built
        /\ f \in built => state[f] \notin Pending
        /\ f \in built \/ state[f] = "UP_TO_DATE" => stamp[f] # 0 \/ mtime'[f] = 0
    BY <1>1 DEF FilesStamped
  <2>1. /\ stamp[f] <= mtime[f] \/ mtime[f] = 0
        /\ main # "idle" /\ (~edited \/ f \notin EditedDuringBuild) => stamp[f] \in {0, mtime[f]}
        /\ job[f].result = "ok" => f \in built
        /\ f \in built => state[f] \notin Pending
        /\ f \in built \/ state[f] = "UP_TO_DATE" => stamp[f] # 0 \/ mtime[f] = 0
    BY DEF StampInv, FilesStamped
  <2>2. \/ mtime'[f] = mtime[f]
        \/ mtime'[f] = mtime[f] + 1 /\ mtime[f] # 0
        \/ mtime'[f] = 0
    BY <1>2 DEF Later
  <2> QED
    BY <1>1, <1>2, <2>1, <2>2
<1>4. main = "idle" => \A n \in Nodes : state[n] = "NOT_PROCESSED" /\ job[n] = NoJob
  BY DEF TypeInv, AtRest
<1>5. OutputsStamped'
  <2>1. db.kind = "saved" => \A n \in Outputs : db.stamp[n] \in Nat
    BY DEF TypeInv, DbType
  <2> QED
    BY <1>1, <1>2, <1>4, <2>1 DEF StampInv, OutputsStamped, NoJob
<1>6. ListingKnown'
  BY <1>1 DEF StampInv, ListingKnown
<1>7. Records'
  BY <1>1, <1>2, RecordsStay DEF StampInv, Records
<1>8. InputsRead'
  <2> SUFFICES ASSUME NEW n \in Outputs, Running(n)
               PROVE  ReadInFull(n)'
    BY <1>1 DEF InputsRead, Running
  <2>1. ReadInFull(n) /\ main # "idle" /\ Stamps(read[n].from)
    BY <1>4 DEF StampInv, InputsRead, Running, NoJob, TypeInv, HasRead
  <2>2. ASSUME NEW d \in DOMAIN read[n].from, read[n].from[d] # 0
        PROVE  /\ read[n].from[d] <= mtime'[d] \/ (d \in Files /\ mtime'[d] = 0)
               /\ d \in Files /\ d \notin bff.static[n] /\ n \in Objects =>
                    read[n].from[d] = mtime'[d]
    <3>1. /\ d \in Nodes /\ read[n].from[d] \in Nat /\ mtime[d] \in Nat
          /\ read[n].from[d] <= mtime[d] \/ (d \in Files /\ mtime[d] = 0)
          /\ d \in Files /\ d \notin bff.static[n] /\ n \in Objects => read[n].from[d] = mtime[d]
      BY <2>1, <2>2 DEF Stamps, ReadInFull
    <3>2. d \in Files /\ d \notin bff.static[n] /\ n \in Objects => mtime'[d] = mtime[d]
      <4> SUFFICES ASSUME d \in Files, d \notin bff.static[n], n \in Objects
                   PROVE  d \notin EditedDuringBuild
        BY <1>2, <2>1
      <4>1. d \in Found(n, read[n].from[Lead[n]])
        BY <2>1 DEF ReadInFull
      <4>2. read[n].from[Lead[n]] \in Nat
        BY <2>1 DEF Stamps, ReadInFull
      <4> QED
        BY <4>1, <4>2, IncludesAreStable
    <3> QED
      BY <1>2, <3>1, <3>2 DEF Later
  <2>3. job[n].result = "ok" =>
            made'[n] = read[n] /\ \A d \in DOMAIN read[n].from : read[n].from[d] # 0
    BY <1>2, <2>1 DEF ReadInFull
  <2> QED
    BY <1>1, <2>1, <2>2, <2>3 DEF ReadInFull
<1> QED
  BY <1>3, <1>5, <1>6, <1>7, <1>8 DEF StampInv

LEMMA StampStep == HeadersAreStable /\ TypeInv /\ OrderInv /\ StampInv /\ [Next]_vars => StampInv'
<1> SUFFICES ASSUME HeadersAreStable, TypeInv, OrderInv, StampInv, [Next]_vars PROVE StampInv'
  OBVIOUS
<1>1. JobsBuild
  BY DEF OrderInv
<1>2. CASE \/ Framed
           \/ UNCHANGED session /\ \E n \in Nodes :
                StampFile(n) \/ ReadInputs(n) \/ ToolSucceeds(n) \/ ToolFails(n)
  BY <1>2, StampOfFrame, StampOfStampFile, StampOfReadInputs, StampOfTool
<1>3. CASE \/ FinalizeCompletedJobs /\ UNCHANGED session
           \/ UNCHANGED session /\ \E n \in Nodes :
                NotReady(n) \/ PreBuildReady(n) \/ StaticReady(n) \/ DynamicReady(n)
  BY <1>3, StampOfFinalize, StampOfAdvance
<1>4. CASE SaveEnds \/ Crash \/ \E ts \in TargetSets : StartBuild(ts)
  BY <1>4, StampOfSaveEnds, StampOfCrash, StampOfStartBuild
<1>5. CASE (\E f \in Files : EditFile(f)) \/ (\E n \in Outputs : OverwriteOutput(n)) \/ EditBff
  BY <1>5, StampOfUser
<1> QED
  BY <1>1, <1>2, <1>3, <1>4, <1>5, Steps

\* Records are honest as long as no header changes during a build.
THEOREM HonestRecords ==
  ASSUME HeadersAreStable
  PROVE  Spec => []RecordsAreHonest
<1>1. Init => StampInv
  BY StampInit
<1>2. TypeInv /\ OrderInv /\ StampInv /\ [Next]_vars => StampInv'
  BY StampStep
<1>3. TypeInv /\ StampInv => RecordsAreHonest
  <2> SUFFICES ASSUME TypeInv, StampInv, NEW n \in Outputs,
                      stamp[n] # 0, stamp[n] = mtime[n], job[n].result # "ok"
               PROVE  /\ made[n] # Foreign
                      /\ made[n].props = bff.props[n]
                      /\ DOMAIN made[n].from = DOMAIN Recorded(n)
                      /\ \A d \in DOMAIN Recorded(n) :
                            Recorded(n)[d] = mtime[d] => made[n].from[d] = mtime[d]
    BY DEF RecordsAreHonest
  <2>1. HonestInMemory(n)
    BY DEF StampInv, Records
  <2>2. DOMAIN statics[n] = bff.static[n]
    BY StampTypes
  <2> QED
    BY <2>1, <2>2 DEF HonestInMemory, Honest, Recorded
<1> QED
  BY <1>1, <1>2, <1>3, TypeInvariant, OrderInvariant, PTL DEF Spec

---------------------------------------------------------------------------
(* A build during which nothing is changed gives fresh outputs             *)

LEMMA InputsNowTypes ==
  ASSUME TypeInv, NEW n \in Outputs
  PROVE  InputsNow(n) \in SUBSET Nodes
<1>1. bffOnDisk.static[n] \in SUBSET Nodes
  BY BffFields DEF TypeInv, TypeOK
<1>2. n \in Listing => Found(n, mtime[Lead[n]]) \in SUBSET Nodes
  BY NodeKinds, StampTypes, FoundNodes
<1> QED
  BY <1>1, <1>2 DEF InputsNow

\* In such a build the stamp of a node that is up to date is the time of its file.
LEMMA StampsAreTimes ==
  ASSUME TypeInv, StampInv, main # "idle", ~edited, NEW d \in Nodes, state[d] = "UP_TO_DATE"
  PROVE  stamp[d] = mtime[d]
  BY NodeKinds DEF StampInv, FilesStamped, OutputsStamped

LEMMA FreshInit == Init => FreshInv
  BY DEF Init, FreshInv, FreshSoFar, SuccessIsFresh

\* What the parts of FreshSoFar say of an output.
ReadsNow(n) == read[n] = [props |-> bffOnDisk.props[n], from |-> [d \in InputsNow(n) |-> mtime[d]]]
UpIsFresh(n) == Fresh(n) /\ AreUp(InputsNow(n) \cap Outputs)

LEMMA FreshOfFrame ==
  ASSUME TypeInv, FreshInv, Framed
  PROVE  FreshInv'
<1>1. /\ UNCHANGED <<mtime, made, bff, state, read, bffOnDisk, edited, outcome, targets>>
      /\ main' = "idle" <=> main = "idle"
      /\ \A n \in Outputs : Running(n)' <=> Running(n)
  BY NodeKinds DEF Framed, Running, disk, graph
<1>2. \A n \in Outputs : InputsNow(n)' = InputsNow(n) /\ (Fresh(n)' <=> Fresh(n))
  BY <1>1 DEF InputsNow, Fresh
<1>3. FreshSoFar'
  BY <1>1, <1>2 DEF FreshInv, FreshSoFar, AreUp
<1>4. SuccessIsFresh'
  BY <1>1, <1>2 DEF FreshInv, SuccessIsFresh, Needed, Closed
<1> QED
  BY <1>3, <1>4 DEF FreshInv

\* A library's listing, and the time of what it was made from, are those of now.
LEMMA ReadsAreOfNow ==
  ASSUME TypeInv, OrderInv, StampInv, FreshInv, main # "idle", ~edited,
         NEW n \in Outputs, state[n] = "BUILDING"
  PROVE  /\ Inputs(n) = InputsNow(n)
         /\ \A d \in Inputs(n) : Modification(n, d) = mtime[d]
<1> USE NodeKinds, StampTypes
<1>1. bff = bffOnDisk
  BY DEF FreshInv, FreshSoFar
<1>2. n \in Listing => Lead[n] \in Nodes /\ stamp[Lead[n]] = mtime[Lead[n]]
  <2> SUFFICES ASSUME n \in Listing PROVE Lead[n] \in Nodes /\ stamp[Lead[n]] = mtime[Lead[n]]
    OBVIOUS
  <2>1. Lead[n] \in Nodes /\ state[Lead[n]] = "UP_TO_DATE"
    BY DEF OrderInv, DependenciesFirst, AreUp
  <2> QED
    BY <2>1, StampsAreTimes
<1>3. CASE n \in Objects
  BY <1>1, <1>3 DEF Inputs, InputsNow, Modification
<1>4. CASE n \in Libraries
  <2>1. bff.static[n] \cup DOMAIN dynamics[n] = bff.static[n] \cup Found(n, stamp[Lead[n]])
    BY <1>4 DEF StampInv, ListingKnown
  <2> QED
    BY <1>1, <1>2, <1>4, <2>1 DEF Inputs, InputsNow, Modification
<1>5. CASE n \in Tools
  <2>1. n \notin Objects /\ n \notin Libraries /\ n \notin Listing
    BY <1>5, GraphAssumption DEF GraphAssumption, Listing
  <2>2. DOMAIN dynamics[n] = {}
    BY <1>5 DEF StampInv, ListingKnown
  <2> QED
    BY <1>1, <2>1, <2>2 DEF Inputs, InputsNow, Modification
<1> QED
  BY <1>3, <1>4, <1>5 DEF Outputs

LEMMA FreshOfTools ==
  ASSUME TypeInv, OrderInv, StampInv, FreshInv, NEW n \in Nodes, UNCHANGED session,
         StampFile(n) \/ ReadInputs(n) \/ ToolSucceeds(n) \/ ToolFails(n)
  PROVE  FreshInv'
<1> USE NodeKinds, StampTypes
<1>1. /\ UNCHANGED <<bff, bffOnDisk, state, main, edited, outcome>>
      /\ job[n].at \in {"active", "reading"} /\ main # "idle" /\ state[n] = "BUILDING"
  <2>1. /\ UNCHANGED <<bff, bffOnDisk, state, main, edited, outcome>>
        /\ job[n].at \in {"active", "reading"}
    BY DEF StampFile, ReadInputs, ToolSucceeds, ToolFails, session, user, graph
  <2> QED
    BY <2>1 DEF TypeInv, AtRest, NoJob, OrderInv, JobsBuild
<1>2. outcome = "none"
  BY <1>1 DEF FreshInv, FreshSoFar
<1>3. SuccessIsFresh'
  BY <1>1, <1>2 DEF SuccessIsFresh
<1> SUFFICES ASSUME ~edited PROVE FreshSoFar'
  BY <1>1, <1>2, <1>3 DEF FreshInv, FreshSoFar
<1>4. /\ bff = bffOnDisk
      /\ \A m \in Outputs : Running(m) => ReadsNow(m)
      /\ \A m \in Outputs : state[m] = "UP_TO_DATE" => UpIsFresh(m)
  BY <1>1 DEF FreshInv, FreshSoFar, ReadsNow, UpIsFresh
<1>5. \A f \in Files : mtime'[f] = mtime[f]
  BY ToolEnds DEF StampFile, ReadInputs, disk
<1>6. \A m \in Outputs : InputsNow(m)' = InputsNow(m)
  BY <1>1, <1>5 DEF InputsNow
\* The output that may be written now is no input of one that is read or up to date.
<1>7. ASSUME NEW m \in Outputs, state[m] = "UP_TO_DATE" \/ Running(m), NEW d \in InputsNow(m)
      PROVE  mtime'[d] = mtime[d]
  <2>1. d \in Nodes
    BY InputsNowTypes
  <2>2. CASE d \in Outputs
    <3>1. state[d] = "UP_TO_DATE"
      <4>1. state[m] = "UP_TO_DATE" => state[d] = "UP_TO_DATE"
        BY <1>4, <1>7, <2>2 DEF UpIsFresh, AreUp
      <4>2. Running(m) => state[d] = "UP_TO_DATE"
        <5> SUFFICES ASSUME Running(m) PROVE state[d] = "UP_TO_DATE"
          OBVIOUS
        <5>1. d \in DOMAIN read[m].from \cap Outputs
          BY <1>4, <1>7, <2>2 DEF ReadsNow
        <5> QED
          BY <5>1 DEF OrderInv, OutputsAreRead
      <4> QED
        BY <1>7, <4>1, <4>2
    <3>2. d # n
      BY <1>1, <3>1
    <3> QED
      BY <2>1, <3>2, ToolEnds DEF StampFile, ReadInputs, disk
  <2> QED
    BY <1>5, <2>1, <2>2
<1>8. ASSUME NEW m \in Outputs, Running(m)'
      PROVE  ReadsNow(m)'
  <2>1. CASE ReadInputs(n) /\ m = n
    <3>1. read'[n] = [props |-> bff.props[n], from |-> [d \in Inputs(n) |-> Modification(n, d)]]
      BY <2>1 DEF ReadInputs
    <3>2. mtime' = mtime
      BY <2>1 DEF ReadInputs, disk
    <3>3. Inputs(n) = InputsNow(n) /\ \A d \in Inputs(n) : Modification(n, d) = mtime[d]
      BY <1>1, <2>1, ReadsAreOfNow
    <3> QED
      BY <1>1, <1>4, <1>6, <2>1, <3>1, <3>2, <3>3 DEF ReadsNow
  <2>2. CASE ~(ReadInputs(n) /\ m = n)
    <3>1. Running(m) /\ read'[m] = read[m]
      <4>1. CASE StampFile(n)
        BY <1>8, <4>1 DEF StampFile, Running
      <4>2. CASE ReadInputs(n)
        BY <1>8, <2>2, <4>2 DEF ReadInputs, Running, Move
      <4>3. CASE ToolSucceeds(n) \/ ToolFails(n)
        <5>1. m # n => Running(m)
          BY <1>8, <4>3, ToolEnds
        <5>2. Running(n)
          BY <4>3, ToolEnds DEF Running
        <5> QED
          BY <4>3, <5>1, <5>2, ToolEnds
      <4> QED
        BY <4>1, <4>2, <4>3
    <3>2. ReadsNow(m)
      BY <1>4, <3>1
    <3>3. [d \in InputsNow(m) |-> mtime'[d]] = [d \in InputsNow(m) |-> mtime[d]]
      BY <1>7, <3>1
    <3> QED
      BY <1>1, <1>6, <3>1, <3>2, <3>3 DEF ReadsNow
  <2> QED
    BY <2>1, <2>2
<1>9. ASSUME NEW m \in Outputs, state[m] = "UP_TO_DATE"
      PROVE  UpIsFresh(m)'
  <2>1. m # n /\ UpIsFresh(m)
    BY <1>1, <1>4, <1>9
  <2>2. made'[m] = made[m]
    BY <2>1, ToolEnds DEF StampFile, ReadInputs, disk
  <2>3. [d \in InputsNow(m) |-> mtime'[d]] = [d \in InputsNow(m) |-> mtime[d]]
    BY <1>7, <1>9
  <2> QED
    BY <1>1, <1>6, <2>1, <2>2, <2>3 DEF UpIsFresh, Fresh, AreUp
<1> QED
  BY <1>1, <1>2, <1>4, <1>8, <1>9 DEF FreshSoFar, ReadsNow, UpIsFresh

LEMMA FreshOfFinalize ==
  ASSUME TypeInv, OrderInv, StampInv, FreshInv, FinalizeCompletedJobs, UNCHANGED session
  PROVE  FreshInv'
<1> USE NodeKinds, StampTypes
<1>1. /\ UNCHANGED <<mtime, made, bff, bffOnDisk, read, edited, outcome>> /\ main # "idle"
      /\ main' # "idle"
      /\ \A n \in Succeeded : state[n] = "BUILDING" /\ job'[n] = NoJob /\ job[n].result = "ok"
      /\ \A n \in Nodes \ Succeeded :
            /\ state'[n] = state[n] \/ (state[n] = "BUILDING" /\ state'[n] = "FAILED")
            /\ job'[n] = job[n] \/ (job'[n] = NoJob /\ job[n].result # "ok")
  BY FinalizeEffects DEF session, user
<1>2. outcome = "none"
  BY <1>1 DEF FreshInv, FreshSoFar
<1>3. SuccessIsFresh'
  BY <1>1, <1>2 DEF SuccessIsFresh
<1> SUFFICES ASSUME ~edited PROVE FreshSoFar'
  BY <1>1, <1>2, <1>3 DEF FreshInv, FreshSoFar
<1>4. /\ bff = bffOnDisk
      /\ \A m \in Outputs : Running(m) => ReadsNow(m)
      /\ \A m \in Outputs : state[m] = "UP_TO_DATE" => UpIsFresh(m)
  BY <1>1 DEF FreshInv, FreshSoFar, ReadsNow, UpIsFresh
<1>5. \A m \in Outputs : /\ InputsNow(m)' = InputsNow(m) /\ (Fresh(m)' <=> Fresh(m))
                         /\ ReadsNow(m)' <=> ReadsNow(m)
  BY <1>1 DEF InputsNow, Fresh, ReadsNow
<1>6. \A m \in Nodes : state[m] = "UP_TO_DATE" => state'[m] = "UP_TO_DATE"
  BY FinalizeEffects
<1>7. \A m \in Outputs : Running(m)' => Running(m)
  BY <1>1 DEF Running, NoJob
<1>8. ASSUME NEW m \in Outputs, state'[m] = "UP_TO_DATE"
      PROVE  UpIsFresh(m)'
  <2>1. CASE m \in Succeeded
    <3>1. Running(m) /\ job[m].result = "ok"
      BY <1>1, <2>1 DEF Running
    <3>2. ReadsNow(m) /\ made[m] = read[m]
      BY <1>4, <3>1 DEF StampInv, InputsRead, ReadInFull
    <3>3. Fresh(m) /\ DOMAIN read[m].from = InputsNow(m)
      BY <3>2 DEF Fresh, ReadsNow
    <3>4. AreUp(InputsNow(m) \cap Outputs)
      BY <3>1, <3>3 DEF OrderInv, OutputsAreRead, AreUp
    <3> QED
      BY <1>5, <1>6, <3>3, <3>4 DEF UpIsFresh, AreUp
  <2>2. CASE m \notin Succeeded
    <3>1. UpIsFresh(m)
      BY <1>1, <1>4, <1>8, <2>2
    <3> QED
      BY <1>5, <1>6, <3>1 DEF UpIsFresh, AreUp
  <2> QED
    BY <2>1, <2>2
<1> QED
  BY <1>1, <1>2, <1>4, <1>5, <1>7, <1>8 DEF FreshSoFar, ReadsNow, UpIsFresh

\* A node that need not be built: all its recorded dependencies have the recorded times, so
\* that it was made from the files as they are, and finds no other dependencies now.
LEMMA UnbuiltIsFresh ==
  ASSUME TypeInv, OrderInv, StampInv, FreshInv, main # "idle", ~edited,
         NEW n \in Outputs, Ready(n, "DYNAMIC_DEPS"), stamp[n] # 0, ~NeedToBuild(dynamics[n])
  PROVE  UpIsFresh(n)
<1> USE NodeKinds, StampTypes
<1>1. state[n] = "DYNAMIC_DEPS" /\ AreUp(bff.static[n]) /\ AreUp(DOMAIN dynamics[n])
  BY DEF Ready, Checked, AreUp, OrderInv, DependenciesFirst
<1>2. stamp[n] = mtime[n] /\ \A d \in bff.static[n] : stamp[d] = statics[n][d]
  BY <1>1 DEF StampInv, OutputsStamped
<1>3. HonestInMemory(n)
  BY <1>1 DEF StampInv, Records, OrderInv, JobsBuild
<1>4. /\ made[n] # Foreign /\ IsRecord(made[n]) /\ made[n].props = bff.props[n]
      /\ DOMAIN made[n].from = bff.static[n] \cup DOMAIN dynamics[n]
      /\ n \in Listing => DOMAIN made[n].from = bff.static[n] \cup Found(n, made[n].from[Lead[n]])
      /\ \A d \in bff.static[n] \cup DOMAIN dynamics[n] :
            (IF d \in bff.static[n] THEN statics[n][d] ELSE dynamics[n][d]) = mtime[d] =>
                made[n].from[d] = mtime[d]
  BY <1>2, <1>3 DEF HonestInMemory, Honest
<1>5. Stamps(made[n].from)
  BY <1>4 DEF TypeInv, TypeOK, Contents
<1>6. bff = bffOnDisk
  BY DEF FreshInv, FreshSoFar
<1>7. ASSUME NEW d \in bff.static[n] \cup DOMAIN dynamics[n]
      PROVE  state[d] = "UP_TO_DATE" /\ made[n].from[d] = mtime[d]
  <2>1. d \in Nodes /\ state[d] = "UP_TO_DATE"
    BY <1>1 DEF AreUp
  <2>2. stamp[d] = mtime[d]
    BY <2>1, StampsAreTimes
  <2>3. (IF d \in bff.static[n] THEN statics[n][d] ELSE dynamics[n][d]) = stamp[d]
    BY <1>2 DEF NeedToBuild
  <2> QED
    BY <1>4, <2>1, <2>2, <2>3
<1>8. DOMAIN made[n].from = InputsNow(n)
  <2>1. CASE n \in Listing
    <3>1. Lead[n] \in bff.static[n]
      BY <2>1
    <3>2. made[n].from[Lead[n]] = mtime[Lead[n]]
      BY <1>7, <3>1
    <3> QED
      BY <1>4, <1>6, <2>1, <3>2 DEF InputsNow
  <2>2. CASE n \notin Listing
    <3>1. DOMAIN dynamics[n] = {}
      BY <2>2 DEF Outputs, Listing, StampInv, ListingKnown
    <3> QED
      BY <1>4, <1>6, <2>2, <3>1 DEF InputsNow
  <2> QED
    BY <2>1, <2>2
<1>9. made[n].from = [d \in InputsNow(n) |-> mtime[d]]
  <2>1. made[n].from = [d \in DOMAIN made[n].from |-> made[n].from[d]]
    BY <1>5 DEF Stamps
  <2>2. \A d \in InputsNow(n) : made[n].from[d] = mtime[d]
    BY <1>4, <1>7, <1>8
  <2> QED
    BY <1>8, <2>1, <2>2
<1>10. Fresh(n)
  BY <1>4, <1>6, <1>9 DEF Fresh, IsRecord
<1>11. AreUp(InputsNow(n) \cap Outputs)
  BY <1>4, <1>7, <1>8 DEF AreUp
<1> QED
  BY <1>10, <1>11 DEF UpIsFresh

LEMMA FreshOfAdvance ==
  ASSUME TypeInv, OrderInv, StampInv, FreshInv, NEW n \in Nodes, UNCHANGED session,
         NotReady(n) \/ PreBuildReady(n) \/ StaticReady(n) \/ DynamicReady(n)
  PROVE  FreshInv'
<1> USE NodeKinds, StampTypes
<1>1. /\ UNCHANGED <<mtime, made, bff, bffOnDisk, read, main, edited, outcome>>
      /\ main # "idle" /\ state[n] \in Pending
      /\ \A m \in Nodes \ {n} : state'[m] = state[m]
  <2>1. /\ UNCHANGED <<mtime, made, bff, bffOnDisk, read, main, edited, outcome>>
        /\ \A m \in Nodes \ {n} : state'[m] = state[m]
    BY DEF NotReady, PreBuildReady, StaticReady, DynamicReady, disk, queue, session, user
  <2>2. main # "idle" /\ state[n] \in Pending
    BY DEF NotReady, PreBuildReady, StaticReady, DynamicReady, Ready, Sweeping, Checked, Pending
  <2> QED
    BY <2>1, <2>2
<1>2. outcome = "none"
  BY <1>1 DEF FreshInv, FreshSoFar
<1>3. SuccessIsFresh'
  BY <1>1, <1>2 DEF SuccessIsFresh
<1> SUFFICES ASSUME ~edited PROVE FreshSoFar'
  BY <1>1, <1>2, <1>3 DEF FreshInv, FreshSoFar
<1>4. /\ bff = bffOnDisk
      /\ \A m \in Outputs : Running(m) => ReadsNow(m)
      /\ \A m \in Outputs : state[m] = "UP_TO_DATE" => UpIsFresh(m)
  BY <1>1 DEF FreshInv, FreshSoFar, ReadsNow, UpIsFresh
<1>5. \A m \in Outputs : /\ InputsNow(m)' = InputsNow(m) /\ (Fresh(m)' <=> Fresh(m))
                         /\ ReadsNow(m)' <=> ReadsNow(m)
  BY <1>1 DEF InputsNow, Fresh, ReadsNow
<1>6. \A m \in Nodes : state[m] = "UP_TO_DATE" => state'[m] = "UP_TO_DATE"
  BY <1>1 DEF Pending
<1>7. \A m \in Outputs : Running(m)' => Running(m)
  <2>1. Move(n, "staged") => \A m \in Nodes : job'[m].result = job[m].result
                                /\ (job'[m].at = "reading" => job[m].at = "reading")
    BY DEF Move, JobType
  <2> QED
    BY <2>1 DEF Running, NotReady, PreBuildReady, StaticReady, DynamicReady, queue
<1>8. ASSUME NEW m \in Outputs, state'[m] = "UP_TO_DATE"
      PROVE  UpIsFresh(m)
  <2>1. CASE state[m] = "UP_TO_DATE"
    BY <1>4, <2>1
  <2>2. CASE state[m] # "UP_TO_DATE"
    <3>1. m = n /\ state'[n] = "UP_TO_DATE"
      BY <1>1, <1>8, <2>2
    <3>2. Ready(n, "DYNAMIC_DEPS") /\ stamp[n] # 0 /\ ~NeedToBuild(dynamics[n])
      BY <2>2, <3>1 DEF NotReady, PreBuildReady, StaticReady, DynamicReady
    <3> QED
      BY <1>1, <3>1, <3>2, UnbuiltIsFresh
  <2> QED
    BY <2>1, <2>2
<1>9. \A m \in Outputs : state'[m] = "UP_TO_DATE" => UpIsFresh(m)'
  BY <1>5, <1>6, <1>8 DEF UpIsFresh, AreUp
<1> QED
  BY <1>1, <1>2, <1>4, <1>5, <1>7, <1>9 DEF FreshSoFar, ReadsNow, UpIsFresh

\* The nodes that are up to date, and the files, need nothing else.
LEMMA FreshOfProcess ==
  ASSUME TypeInv, OrderInv, StampInv, FreshInv,
         SaveEnds \/ Crash \/ \E ts \in TargetSets : StartBuild(ts)
  PROVE  FreshInv'
<1> USE NodeKinds, StampTypes
<1>1. CASE Crash
  BY <1>1 DEF Crash, ProcessEnds, FreshInv, FreshSoFar, SuccessIsFresh
<1>2. CASE \E ts \in TargetSets : StartBuild(ts)
  <2>1. /\ \A n \in Nodes : state'[n] = "NOT_PROCESSED" /\ job'[n] = NoJob
        /\ bff' = bffOnDisk' /\ outcome' = "none"
    BY <1>2 DEF StartBuild, Initialize, TypeInv, AtRest, queue
  <2> QED
    BY <2>1 DEF FreshInv, FreshSoFar, SuccessIsFresh, Running, NoJob
<1>3. CASE SaveEnds
  <2>1. /\ main = "writing" /\ main' = "idle"
        /\ UNCHANGED <<mtime, made, targets, bffOnDisk, edited>>
        /\ outcome' = "ok" => \A t \in targets : state[t] = "UP_TO_DATE"
    BY <1>3 DEF SaveEnds, ProcessEnds, disk, user
  <2>2. FreshSoFar'
    BY <2>1 DEF FreshSoFar
  <2> SUFFICES ASSUME ~edited, \A t \in targets : state[t] = "UP_TO_DATE",
                      NEW n \in Needed(targets) \cap Outputs
               PROVE  Fresh(n)
    <3>1. /\ Needed(targets)' = Needed(targets)
          /\ \A m \in Outputs : Fresh(m)' <=> Fresh(m)
      BY <2>1 DEF Needed, Closed, Fresh, InputsNow
    <3> QED
      BY <2>1, <2>2, <3>1 DEF FreshInv, SuccessIsFresh
  <2> DEFINE T == {m \in Nodes : m \in Files \/ state[m] = "UP_TO_DATE"}
  <2>3. \A m \in Outputs : state[m] = "UP_TO_DATE" => UpIsFresh(m)
    BY <2>1 DEF FreshInv, FreshSoFar, UpIsFresh
  <2>4. Closed(T)
    <3> SUFFICES ASSUME NEW m \in T \cap Outputs, NEW d \in InputsNow(m)
                 PROVE  d \in T
      BY DEF Closed
    <3>1. d \in Nodes /\ UpIsFresh(m)
      BY <2>3, InputsNowTypes
    <3> QED
      BY <3>1 DEF UpIsFresh, AreUp
  <2>5. targets \subseteq T
    BY DEF TypeInv, TypeOK
  <2>6. n \in T
    BY <2>4, <2>5 DEF Needed
  <2> QED
    BY <2>3, <2>6 DEF UpIsFresh
<1> QED
  BY <1>1, <1>2, <1>3

LEMMA FreshOfUser ==
  ASSUME FreshInv,
         (\E f \in Files : EditFile(f)) \/ (\E n \in Outputs : OverwriteOutput(n)) \/ EditBff
  PROVE  FreshInv'
<1>1. edited' = TRUE /\ UNCHANGED <<main, outcome>>
  BY DEF EditFile, OverwriteOutput, EditBff, Change
<1> QED
  BY <1>1 DEF FreshInv, FreshSoFar, SuccessIsFresh

LEMMA FreshStep ==
  TypeInv /\ OrderInv /\ StampInv /\ FreshInv /\ [Next]_vars => FreshInv'
<1> SUFFICES ASSUME TypeInv, OrderInv, StampInv, FreshInv, [Next]_vars PROVE FreshInv'
  OBVIOUS
<1>1. JobsBuild
  BY DEF OrderInv
<1>2. CASE \/ Framed
           \/ UNCHANGED session /\ \E n \in Nodes :
                StampFile(n) \/ ReadInputs(n) \/ ToolSucceeds(n) \/ ToolFails(n)
  BY <1>2, FreshOfFrame, FreshOfTools
<1>3. CASE \/ FinalizeCompletedJobs /\ UNCHANGED session
           \/ UNCHANGED session /\ \E n \in Nodes :
                NotReady(n) \/ PreBuildReady(n) \/ StaticReady(n) \/ DynamicReady(n)
  BY <1>3, FreshOfFinalize, FreshOfAdvance
<1>4. CASE \/ SaveEnds \/ Crash \/ \E ts \in TargetSets : StartBuild(ts)
           \/ (\E f \in Files : EditFile(f)) \/ (\E n \in Outputs : OverwriteOutput(n)) \/ EditBff
  BY <1>4, FreshOfProcess, FreshOfUser
<1> QED
  BY <1>1, <1>2, <1>3, <1>4, Steps

\* Incremental builds are correct: whatever was edited, aborted, killed and migrated before,
\* when a build succeeded and nothing changed since it began, what the targets need is what
\* a clean build makes - as long as no header is changed while a build runs.
THEOREM IncrementalBuildsAreFresh ==
  ASSUME HeadersAreStable
  PROVE  Spec => []SuccessIsFresh
<1>1. Init => StampInv /\ FreshInv
  BY StampInit, FreshInit
<1>2. TypeInv /\ OrderInv /\ StampInv /\ FreshInv /\ [Next]_vars => StampInv' /\ FreshInv'
  BY StampStep, FreshStep
<1>3. FreshInv => SuccessIsFresh
  BY DEF FreshInv
<1> QED
  BY <1>1, <1>2, <1>3, TypeInvariant, OrderInvariant, PTL DEF Spec

=============================================================================
