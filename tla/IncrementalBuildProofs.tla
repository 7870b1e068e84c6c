---------------------- MODULE IncrementalBuildProofs ----------------------
(***************************************************************************)
(* Proofs about IncrementalBuild for any graph, any sequence of build      *)
(* descriptions, any number of worker threads, builds, edits and           *)
(* interruptions: its types, and that the check for cyclic dependencies    *)
(* aborts a build for a cycle only.                                        *)
(***************************************************************************)
EXTENDS IncrementalBuild, FiniteSetTheorems, SequenceTheorems, TLAPS

---------------------------------------------------------------------------
(* Constants                                                               *)

LEMMA NodeKinds ==
  /\ Files \subseteq Nodes /\ Outputs \subseteq Nodes /\ Listing \subseteq Outputs
  /\ Objects \subseteq Listing /\ Libraries \subseteq Listing
  /\ Files \cap Outputs = {} /\ Objects \cap Libraries = {}
  /\ Nodes = Files \cup Outputs
  /\ \A n \in Listing : Lead[n] \in Files
  BY GraphAssumption DEF GraphAssumption, Nodes, Outputs, Listing

LEMMA BffFields ==
  ASSUME NEW b \in Bffs, NEW n \in Outputs
  PROVE  b.pre[n] \in SUBSET Nodes /\ b.static[n] \in SUBSET Nodes /\ b.props[n] \in Nat
<1>1. b \in BffType
  BY GraphAssumption DEF GraphAssumption
<1> QED
  BY <1>1 DEF BffType

LEMMA Remainder ==
  ASSUME NEW m \in Nat, NEW k \in Nat \ {0}
  PROVE  1 + (m % k) \in 1 .. k
  BY Z3

LEMMA FoundNodes ==
  ASSUME NEW n \in Listing, NEW m \in Nat
  PROVE  Found(n, m) \in SUBSET Nodes
<1>1. Discovers[n] \in Seq(SUBSET Nodes) /\ Discovers[n] # <<>>
  BY GraphAssumption DEF GraphAssumption
<1>2. Len(Discovers[n]) \in Nat \ {0}
  BY <1>1
<1>3. 1 + (m % Len(Discovers[n])) \in 1 .. Len(Discovers[n])
  BY <1>2, Remainder
<1> QED
  BY <1>1, <1>3 DEF Found

---------------------------------------------------------------------------
(* Types                                                                   *)

LEMMA StampsOf ==
  ASSUME NEW S \in SUBSET Nodes, NEW g \in [Nodes -> Nat]
  PROVE  /\ Stamps([d \in S |-> g[d]]) /\ DOMAIN [d \in S |-> g[d]] = S
         /\ Stamps(Unstamped(S)) /\ DOMAIN Unstamped(S) = S
  BY DEF Stamps, Unstamped

Dependency(b, ss, ds) ==
    /\ DOMAIN ss = Outputs /\ DOMAIN ds = Outputs
    /\ \A n \in Outputs :
        /\ Stamps(ss[n]) /\ DOMAIN ss[n] = b.static[n]
        /\ Stamps(ds[n])

\* The saved graph is one of a build description.
DbType ==
    /\ db.kind \in {"missing", "corrupt", "saved"}
    /\ db.kind = "saved" =>
        /\ db.bff \in Bffs
        /\ db.stamp \in [Outputs -> Nat]
        /\ Dependency(db.bff, db.statics, db.dynamics)

\* A worker thread holds one job at most, and none when it has stopped.
ThreadsCounted == Cardinality(At(Held)) + exited <= NumWorkerThreads

\* A tool has inputs once it runs.
HasRead ==
    \A n \in Outputs : job[n].at = "reading" \/ job[n].result = "ok" =>
        read[n].props \in Nat /\ Stamps(read[n].from)

\* Between builds nothing is left of a build, and while the graph is saved no jobs are.
AtRest ==
    /\ main = "idle" => /\ todo = {} /\ stack = <<>> /\ tagged = {} /\ built = {}
                        /\ \A n \in Nodes : state[n] = "NOT_PROCESSED"
                        /\ ~stopBuild /\ ~stopping /\ exited = 0
    /\ main \in {"idle", "save", "writing"} => \A n \in Nodes : job[n] = NoJob
    /\ main \in {"save", "writing"} => exited = NumWorkerThreads

TypeInv == TypeOK /\ DbType /\ ThreadsCounted /\ HasRead /\ AtRest

LEMMA NoDependencies ==
  ASSUME NEW b \in Bffs
  PROVE  Dependency(b, [n \in Outputs |-> Unstamped(b.static[n])],
                       [n \in Outputs |-> Unstamped({})])
<1>1. \A n \in Outputs : b.static[n] \in SUBSET Nodes
  BY BffFields
<1> QED
  BY <1>1 DEF Dependency, Stamps, Unstamped

LEMMA TypeInit == Init => TypeInv
<1> SUFFICES ASSUME Init PROVE TypeInv
  OBVIOUS
<1>1. bffOnDisk \in Bffs /\ bff \in Bffs
  BY BuildAssumption DEF Init, BuildAssumption
<1>2. Dependency(bff, statics, dynamics)
  BY <1>1, NoDependencies DEF Init
<1>3. mtime \in [Nodes -> Nat] /\ stamp \in [Nodes -> Nat] /\ state \in [Nodes -> NodeStates]
  BY DEF Init, NodeStates, Pending
<1>4. job \in [Nodes -> [at : Places, result : {"none", "ok", "failed", "aborted"}]]
  BY DEF Init, NoJob, Places
<1>5. /\ DOMAIN made = Outputs /\ \A n \in Outputs : Contents(made[n])
      /\ DOMAIN read = Outputs /\ \A n \in Outputs : Contents(read[n])
  BY DEF Init, Contents
<1>6. /\ built \subseteq Nodes /\ targets \subseteq Nodes /\ todo \subseteq targets
      /\ tagged \subseteq Nodes /\ stack \in Seq(Nodes)
      /\ main \in {"idle", "finalize", "sweep", "check", "flush", "save", "writing"}
  BY DEF Init
<1>7. stopBuild \in BOOLEAN /\ stopping \in BOOLEAN /\ exited \in 0 .. NumWorkerThreads
  <2>1. 0 \in 0 .. NumWorkerThreads
    BY GraphAssumption DEF GraphAssumption
  <2> QED
    BY <2>1 DEF Init
<1>8. edited \in BOOLEAN /\ quiet \in BOOLEAN /\ outcome \in {"none", "ok", "failed", "killed"}
  BY DEF Init
<1>9. DbType
  BY DEF Init, DbType, Missing
<1>10. ThreadsCounted
  <2>1. At(Held) = {}
    BY DEF Init, At, Held, NoJob
  <2> QED
    BY <2>1, FS_EmptySet, GraphAssumption DEF Init, ThreadsCounted, GraphAssumption
<1>11. HasRead
  BY NodeKinds DEF Init, HasRead, NoJob
<1>12. AtRest
  BY DEF Init, AtRest
<1> QED
  BY <1>1, <1>2, <1>3, <1>4, <1>5, <1>6, <1>7, <1>8, <1>9, <1>10, <1>11, <1>12
     DEF TypeInv, TypeOK, Dependency

JobType == [at : Places, result : {"none", "ok", "failed", "aborted"}]

\* The operations that most actions are made of keep the types of what they change.
LEMMA TypeOfMove ==
  ASSUME TypeInv, NEW n \in Nodes, NEW p \in Places,
         NEW r \in {"none", "ok", "failed", "aborted"}
  PROVE  /\ Move(n, p) => /\ job' \in [Nodes -> JobType]
                          /\ job' = [job EXCEPT ![n] = [at |-> p, result |-> job[n].result]]
         /\ job' = [job EXCEPT ![n] = [at |-> p, result |-> r]] => job' \in [Nodes -> JobType]
<1>1. job \in [Nodes -> JobType]
  BY DEF TypeInv, TypeOK, JobType
<1>2. job[n].result \in {"none", "ok", "failed", "aborted"}
  BY <1>1 DEF JobType
<1>3. Move(n, p) => job' = [job EXCEPT ![n] = [at |-> p, result |-> job[n].result]]
  BY <1>1 DEF Move, JobType
<1>4. \A s \in {"none", "ok", "failed", "aborted"} : [at |-> p, result |-> s] \in JobType
  BY DEF JobType
<1> QED
  BY <1>1, <1>2, <1>3, <1>4

LEMMA PlaceNames ==
  /\ "none" \in Places /\ "staged" \in Places /\ "available" \in Places
  /\ "taken" \in Places /\ "active" \in Places /\ "reading" \in Places
  /\ "ended" \in Places /\ "uncounted" \in Places /\ "completed" \in Places
  BY DEF Places

LEMMA StateNames ==
  /\ "NOT_PROCESSED" \in NodeStates /\ "STATIC_DEPS" \in NodeStates
  /\ "DYNAMIC_DEPS" \in NodeStates /\ "BUILDING" \in NodeStates
  /\ "UP_TO_DATE" \in NodeStates /\ "FAILED" \in NodeStates
  BY DEF NodeStates, Pending, Final

LEMMA TypeOfStack ==
  ASSUME TypeInv
  PROVE  /\ stack # <<>> => Front(stack) \in Seq(Nodes)
         /\ \A d \in Nodes : Append(stack, d) \in Seq(Nodes) /\ <<d>> \in Seq(Nodes)
<1>1. stack \in Seq(Nodes)
  BY DEF TypeInv, TypeOK
<1>2. stack # <<>> => Front(stack) \in Seq(Nodes)
  BY <1>1, SubSeqProperties DEF Front
<1>3. \A d \in Nodes : Append(stack, d) \in Seq(Nodes)
  BY <1>1, AppendProperties
<1> QED
  BY <1>2, <1>3

LEMMA TypeOfWrite ==
  ASSUME TypeInv, NEW n \in Outputs, NEW c, Contents(c), Write(n, c)
  PROVE  /\ mtime' \in [Nodes -> Nat]
         /\ DOMAIN made' = Outputs /\ \A m \in Outputs : Contents(made'[m])
<1>1. n \in Nodes /\ mtime \in [Nodes -> Nat]
  BY NodeKinds DEF TypeInv, TypeOK
<1>2. mtime' \in [Nodes -> Nat]
  BY <1>1 DEF Write
<1>3. DOMAIN made = Outputs /\ \A m \in Outputs : Contents(made[m])
  BY DEF TypeInv, TypeOK
<1>4. DOMAIN made' = Outputs /\ \A m \in Outputs : made'[m] = IF m = n THEN c ELSE made[m]
  BY <1>3 DEF Write
<1> QED
  BY <1>2, <1>3, <1>4, Zenon

LEMMA TypeOfReadInputs ==
  ASSUME TypeInv, NEW n \in Nodes, ReadInputs(n)
  PROVE  /\ DOMAIN read' = Outputs /\ \A m \in Outputs : Contents(read'[m])
         /\ HasRead'
<1>1. /\ n \in Outputs /\ bff \in Bffs
      /\ mtime \in [Nodes -> Nat] /\ stamp \in [Nodes -> Nat]
  BY DEF TypeInv, TypeOK, ReadInputs
<1>2. bff.static[n] \in SUBSET Nodes /\ bff.props[n] \in Nat
  BY <1>1, BffFields
<1>3. DOMAIN dynamics[n] \in SUBSET Nodes
  BY <1>1 DEF TypeInv, TypeOK, Stamps
<1>4. n \in Objects => Found(n, mtime[Lead[n]]) \in SUBSET Nodes
  BY <1>1, NodeKinds, FoundNodes
<1>5. Inputs(n) \in SUBSET Nodes
  BY <1>2, <1>3, <1>4 DEF Inputs
<1>6. \A d \in Nodes : Modification(n, d) \in Nat
  BY <1>1 DEF Modification
<1>7. Stamps([d \in Inputs(n) |-> Modification(n, d)])
  BY <1>5, <1>6 DEF Stamps
<1>8. Contents([props |-> bff.props[n], from |-> [d \in Inputs(n) |-> Modification(n, d)]])
  BY <1>2, <1>7 DEF Contents
<1>9. DOMAIN read = Outputs /\ \A m \in Outputs : Contents(read[m])
  BY DEF TypeInv, TypeOK
<1>10. read' = [read EXCEPT ![n] = [props |-> bff.props[n],
                                    from |-> [d \in Inputs(n) |-> Modification(n, d)]]]
  BY DEF ReadInputs
<1>11. HasRead'
  <2>1. read'[n].props \in Nat /\ Stamps(read'[n].from)
    BY <1>1, <1>2, <1>7, <1>9, <1>10
  <2>2. \A m \in Outputs \ {n} : read'[m] = read[m] /\ job'[m] = job[m]
    BY <1>9, <1>10 DEF ReadInputs, Move
  <2> QED
    BY <2>1, <2>2 DEF HasRead, TypeInv
<1> QED
  BY <1>1, <1>8, <1>9, <1>10, <1>11, Zenon

LEMMA HeldJobs ==
  ASSUME TypeInv
  PROVE  /\ IsFiniteSet(At(Held)) /\ Cardinality(At(Held)) \in Nat
         /\ At(Held)' \subseteq At(Held) =>
              IsFiniteSet(At(Held)') /\ Cardinality(At(Held)') \in Nat
              /\ Cardinality(At(Held)') <= Cardinality(At(Held))
<1>1. IsFiniteSet(At(Held))
  BY GraphAssumption, FS_Subset DEF GraphAssumption, At
<1> QED
  BY <1>1, FS_Subset, FS_CardinalityType

\* A worker thread has one job at most, and none when it has stopped.
LEMMA ThreadsOfWorkerStep ==
  ASSUME TypeInv, NEW n \in Nodes, WorkerStep(n)
  PROVE  ThreadsCounted' /\ exited' \in 0 .. NumWorkerThreads
<1> USE DEF TypeInv, TypeOK, ThreadsCounted
<1>1. /\ IsFiniteSet(At(Held)) /\ Cardinality(At(Held)) \in Nat
      /\ exited \in Nat /\ NumWorkerThreads \in Nat
  BY HeldJobs, GraphAssumption DEF GraphAssumption
<1>2. CASE TakeJob(n)
  <2>1. n \notin At(Held)
    BY <1>2 DEF TakeJob, At, Held
  <2>2. At(Held)' = At(Held) \cup {n}
    <3>1. job' = [job EXCEPT ![n] = [at |-> "taken", result |-> job[n].result]]
      BY <1>2, PlaceNames, TypeOfMove DEF TakeJob
    <3>2. \A m \in Nodes : job'[m].at = IF m = n THEN "taken" ELSE job[m].at
      BY <3>1
    <3> QED
      BY <3>2 DEF At, Held
  <2>3. Cardinality(At(Held)') = Cardinality(At(Held)) + 1
    BY <1>1, <2>1, <2>2, FS_AddElement
  <2> QED
    BY <1>1, <1>2, <2>3 DEF TakeJob, Idle, control
<1>3. CASE AppendCompleted(n)
  <2>1. n \in At(Held)
    BY <1>3 DEF AppendCompleted, At, Held
  <2>2. At(Held)' = At(Held) \ {n}
    <3>1. job' = [job EXCEPT ![n] = [at |-> "completed", result |-> job[n].result]]
      BY <1>3, PlaceNames, TypeOfMove DEF AppendCompleted
    <3>2. \A m \in Nodes : job'[m].at = IF m = n THEN "completed" ELSE job[m].at
      BY <3>1
    <3> QED
      BY <3>2 DEF At, Held
  <2>3. Cardinality(At(Held)') = Cardinality(At(Held)) - 1
    BY <1>1, <2>1, <2>2, FS_RemoveElement
  <2>4. exited' \in Nat /\ exited' <= exited + 1
    BY <1>1, <1>3 DEF AppendCompleted
  <2>5. Cardinality(At(Held)') \in Nat
    BY <2>2, HeldJobs
  <2>6. exited' + Cardinality(At(Held)') <= NumWorkerThreads
    BY <1>1, <2>3, <2>4, <2>5
  <2> QED
    BY <1>1, <2>4, <2>5, <2>6
<1>4. CASE WorkerStep(n) /\ ~TakeJob(n) /\ ~AppendCompleted(n)
  <2>1. exited' = exited
    BY <1>4 DEF WorkerStep, CountJob, CancelJob, StampFile, ReadInputs, ToolSucceeds, ToolFails,
           UncountJob, control
  <2>2. /\ job[n].at \in Held
        /\ \A m \in Nodes \ {n} : job'[m] = job[m]
    BY <1>4 DEF WorkerStep, CountJob, CancelJob, StampFile, ReadInputs, ToolSucceeds, ToolFails,
           UncountJob, Move, Held
  <2>3. At(Held)' \subseteq At(Held)
    BY <2>2 DEF At
  <2> QED
    BY <1>1, <2>1, <2>3, HeldJobs
<1> QED
  BY <1>2, <1>3, <1>4

LEMMA TypeOfWorkerStep ==
  ASSUME TypeInv, NEW n \in Nodes, WorkerStep(n), UNCHANGED session
  PROVE  TypeInv'
<1> USE DEF TypeInv, TypeOK, DbType, Dependency, disk, graph, queue, sweep, control,
            session, user
<1>b. ThreadsCounted'
  BY ThreadsOfWorkerStep
<1>c. HasRead'
  <2>1. CASE ReadInputs(n)
    BY <2>1, TypeOfReadInputs
  <2>2. CASE ~ReadInputs(n)
    <3>1. /\ read' = read
          /\ \A m \in Outputs \ {n} : job'[m] = job[m]
          /\ n \in Outputs /\ (job'[n].at = "reading" \/ job'[n].result = "ok") =>
                job[n].at = "reading" \/ job[n].result = "ok"
      BY <2>2, NodeKinds DEF WorkerStep, TakeJob, CountJob, CancelJob, StampFile, ToolSucceeds,
              ToolFails, UncountJob, AppendCompleted, Move
    <3> QED
      BY <3>1, Zenon DEF HasRead
  <2> QED
    BY <2>1, <2>2
<1>d. AtRest'
  <2>1. job[n].at # "none" /\ main' = main
    BY DEF WorkerStep, TakeJob, CountJob, CancelJob, StampFile, ReadInputs, ToolSucceeds,
           ToolFails, UncountJob, AppendCompleted
  <2>2. main \notin {"idle", "save", "writing"}
    BY <2>1 DEF AtRest, NoJob
  <2> QED
    BY <2>1, <2>2 DEF AtRest
<1>1. CASE TakeJob(n)
  <2>1. job' \in [Nodes -> JobType]
    BY <1>1, TypeOfMove, PlaceNames DEF TakeJob
  <2> QED
    BY <1>1, <1>b, <1>c, <1>d, <2>1 DEF TakeJob, JobType
<1>2. CASE CountJob(n)
  <2>1. job' \in [Nodes -> JobType]
    BY <1>2, TypeOfMove, PlaceNames DEF CountJob
  <2> QED
    BY <1>2, <1>b, <1>c, <1>d, <2>1 DEF CountJob, JobType
<1>3. CASE CancelJob(n)
  <2>1. job' \in [Nodes -> JobType]
    BY <1>3, TypeOfMove, PlaceNames DEF CancelJob
  <2> QED
    BY <1>3, <1>b, <1>c, <1>d, <2>1 DEF CancelJob, JobType
<1>4. CASE StampFile(n)
  <2>1. job' \in [Nodes -> JobType]
    BY <1>4, TypeOfMove, PlaceNames DEF StampFile
  <2> QED
    BY <1>4, <1>b, <1>c, <1>d, <2>1 DEF StampFile, JobType
<1>5. CASE ReadInputs(n)
  <2>1. job' \in [Nodes -> JobType]
    BY <1>5, TypeOfMove, PlaceNames DEF ReadInputs
  <2>2. DOMAIN read' = Outputs /\ (\A m \in Outputs : Contents(read'[m])) /\ HasRead'
    BY <1>5, TypeOfReadInputs
  <2> QED
    BY <1>5, <1>b, <1>c, <1>d, <2>1, <2>2 DEF ReadInputs, JobType
<1>6. CASE ToolSucceeds(n)
  <2>0. n \in Outputs
    BY <1>6 DEF ToolSucceeds
  <2>1. job' \in [Nodes -> JobType]
    BY <1>6, TypeOfMove, PlaceNames DEF ToolSucceeds
  <2>2. /\ mtime' \in [Nodes -> Nat]
        /\ DOMAIN made' = Outputs /\ \A m \in Outputs : Contents(made'[m])
    BY <1>6, <2>0, TypeOfWrite DEF ToolSucceeds
  <2> QED
    BY <1>6, <1>b, <1>c, <1>d, <2>1, <2>2 DEF ToolSucceeds, JobType
<1>7. CASE ToolFails(n)
  <2>0. n \in Outputs
    BY <1>7 DEF ToolFails
  <2>1. PICK result \in {"failed", "aborted"} :
             job' = [job EXCEPT ![n] = [at |-> "ended", result |-> result]]
    BY <1>7 DEF ToolFails
  <2>4. job' \in [Nodes -> JobType]
    BY <2>1, TypeOfMove, PlaceNames
  <2>2. /\ mtime' \in [Nodes -> Nat]
        /\ DOMAIN made' = Outputs /\ \A m \in Outputs : Contents(made'[m])
    <3>1. Contents(Foreign)
      BY DEF Contents
    <3> QED
      BY <1>7, <2>0, <3>1, TypeOfWrite DEF ToolFails
  <2>3. stopBuild' \in BOOLEAN
    BY <1>7, Zenon DEF ToolFails
  <2> QED
    BY <1>7, <1>b, <1>c, <1>d, <2>4, <2>2, <2>3 DEF ToolFails, JobType
<1>8. CASE UncountJob(n)
  <2>1. job' \in [Nodes -> JobType]
    BY <1>8, TypeOfMove, PlaceNames DEF UncountJob
  <2> QED
    BY <1>8, <1>b, <1>c, <1>d, <2>1 DEF UncountJob, JobType
<1>9. CASE AppendCompleted(n)
  <2>1. job' \in [Nodes -> JobType]
    BY <1>9, TypeOfMove, PlaceNames DEF AppendCompleted
  <2>2. exited' \in 0 .. NumWorkerThreads
    BY <1>9, ThreadsOfWorkerStep
  <2> QED
    BY <1>9, <1>b, <1>c, <1>d, <2>1, <2>2 DEF AppendCompleted, JobType
<1> QED
  BY <1>1, <1>2, <1>3, <1>4, <1>5, <1>6, <1>7, <1>8, <1>9 DEF WorkerStep

\* Finalization and the end of a process keep the types of the graph.
LEMMA TypeOfFinalizeNodes ==
  ASSUME TypeInv, FinalizeNodes
  PROVE  /\ stamp' \in [Nodes -> Nat] /\ state' \in [Nodes -> NodeStates]
         /\ Dependency(bff', statics', dynamics')
<1> USE DEF FinalizeNodes
<1>1. /\ mtime \in [Nodes -> Nat] /\ stamp \in [Nodes -> Nat]
      /\ state \in [Nodes -> NodeStates]
      /\ Dependency(bff, statics, dynamics) /\ bff \in Bffs
  BY DEF TypeInv, TypeOK, Dependency
<1>2. stamp' \in [Nodes -> Nat]
  BY <1>1
<1>3. state' \in [Nodes -> NodeStates]
  BY <1>1, StateNames
<1>4. \A n \in Outputs : n \in Succeeded => Includes(n) \in SUBSET Nodes
  BY DEF TypeInv, HasRead, Succeeded, At, Includes, Stamps
<1>5. \A S \in SUBSET Nodes : Stamps([d \in S |-> stamp'[d]]) /\ DOMAIN [d \in S |-> stamp'[d]] = S
  BY <1>2 DEF Stamps
<1>6. \A n \in Outputs :
        /\ DOMAIN statics[n] \in SUBSET Nodes /\ Stamps(statics'[n])
        /\ DOMAIN statics'[n] = DOMAIN statics[n]
  BY <1>1, <1>5 DEF Dependency, Stamps
<1>7. \A n \in Outputs : DOMAIN dynamics[n] \in SUBSET Nodes /\ Stamps(dynamics'[n])
  BY <1>1, <1>4, <1>5 DEF Dependency, Stamps
<1> QED
  BY <1>1, <1>2, <1>3, <1>6, <1>7 DEF Dependency

LEMMA TypeOfDirtyNode ==
  ASSUME TypeInv, NEW n \in Nodes
  PROVE  /\ DirtyNode(n) => stamp' \in [Nodes -> Nat] /\ Dependency(bff, statics, dynamics')
         /\ UNCHANGED <<stamp, dynamics>> =>
                stamp' \in [Nodes -> Nat] /\ Dependency(bff, statics, dynamics')
<1>1. stamp \in [Nodes -> Nat] /\ Dependency(bff, statics, dynamics)
  BY DEF TypeInv, TypeOK, Dependency
<1>2. Listed(n) \in SUBSET Nodes
  <2>1. n \in Libraries => stamp[Lead[n]] \in Nat /\ n \in Listing
    BY <1>1, NodeKinds
  <2> QED
    BY <2>1, FoundNodes DEF Listed
<1>3. Stamps(Unstamped(Listed(n)))
  BY <1>2 DEF Stamps, Unstamped
<1>4. ASSUME DirtyNode(n)
      PROVE  stamp' \in [Nodes -> Nat] /\ Dependency(bff, statics, dynamics')
  <2>1. stamp' \in [Nodes -> Nat]
    BY <1>1, <1>4 DEF DirtyNode
  <2>2. /\ DOMAIN dynamics' = Outputs
        /\ \A m \in Outputs : dynamics'[m] = dynamics[m] \/ dynamics'[m] = Unstamped(Listed(n))
    BY <1>1, <1>4 DEF DirtyNode, Dependency
  <2> QED
    BY <1>1, <1>3, <2>1, <2>2 DEF Dependency
<1> QED
  BY <1>1, <1>4

LEMMA TypeOfMainStep ==
  ASSUME TypeInv, MainStep, UNCHANGED session
  PROVE  TypeInv'
<1> USE DEF TypeInv, TypeOK, DbType, Dependency, disk, graph, queue, sweep, control,
            session, user
<1> DEFINE JobsKept ==
             /\ \A n \in Nodes :
                    /\ job'[n].at \in Held => job[n].at \in Held
                    /\ job'[n].at = "reading" \/ job'[n].result = "ok" =>
                          job[n].at = "reading" \/ job[n].result = "ok"
             /\ exited' = exited /\ read' = read
<1>b. JobsKept
  <2>1. CASE FinalizeCompletedJobs
    BY <2>1 DEF FinalizeCompletedJobs, Remaining, NoJob, Held
  <2>2. CASE FlushAndDecide
    BY <2>2 DEF FlushAndDecide, Held
  <2>3. ASSUME NEW n \in Nodes, DynamicReady(n)
        PROVE  JobsKept
    <3>1. job' = job \/ job' = [job EXCEPT ![n] = [at |-> "staged", result |-> job[n].result]]
      BY <2>3, TypeOfMove, PlaceNames DEF DynamicReady
    <3>2. exited' = exited /\ read' = read
      BY <2>3 DEF DynamicReady
    <3>3. \A m \in Nodes : \/ job'[m] = job[m]
                           \/ job'[m].at = "staged" /\ job'[m].result = job[m].result
      BY <3>1
    <3>4. "staged" \notin Held /\ "staged" # "reading"
      BY DEF Held
    <3> QED
      BY <3>2, <3>3, <3>4, Zenon
  <2>4. CASE EndSweep \/ CheckReturn \/ CycleFound
    BY <2>4 DEF EndSweep, CheckReturn, CycleFound
  <2>5. ASSUME NEW n \in Nodes,
               \/ StartTarget(n) \/ CheckDescend(n)
               \/ NotReady(n) \/ AlreadyFailed(n) \/ PreBuildReady(n) \/ StaticReady(n)
               \/ \E d \in Nodes : Descend(n, d)
        PROVE  JobsKept
    BY <2>5 DEF StartTarget, CheckDescend, NotReady, AlreadyFailed, PreBuildReady, StaticReady,
       Descend
  <2> QED
    BY <2>1, <2>2, <2>3, <2>4, <2>5 DEF MainStep
<1>c. ThreadsCounted' /\ HasRead' /\ AtRest'
  <2>3. main' \notin {"idle", "writing"}
    BY DEF MainStep, FinalizeCompletedJobs, FlushAndDecide, DynamicReady, EndSweep, CheckReturn,
       CycleFound, StartTarget, CheckDescend, NotReady, AlreadyFailed, PreBuildReady, StaticReady,
       Descend, Sweeping, Ready
  <2>4. main' = "save" => FinalizeCompletedJobs /\ stopping /\ exited = NumWorkerThreads
    BY DEF MainStep, FinalizeCompletedJobs, FlushAndDecide, DynamicReady, EndSweep, CheckReturn,
       CycleFound, StartTarget, CheckDescend, NotReady, AlreadyFailed, PreBuildReady, StaticReady,
       Descend, Sweeping, Ready
  <2>5. AtRest'
    BY <2>3, <2>4 DEF FinalizeCompletedJobs, Remaining, AtRest
  <2>1. At(Held)' \subseteq At(Held)
    BY <1>b DEF At
  <2>2. HasRead'
    BY <1>b, NodeKinds DEF HasRead
  <2>6. ThreadsCounted'
    BY <1>b, <2>1, HeldJobs, GraphAssumption DEF ThreadsCounted, GraphAssumption
  <2> QED
    BY <2>2, <2>5, <2>6
<1>1. CASE FinalizeCompletedJobs
  <2>1. job' \in [Nodes -> JobType]
    BY <1>1, PlaceNames DEF FinalizeCompletedJobs, Remaining, NoJob, JobType
  <2>2. /\ stamp' \in [Nodes -> Nat] /\ state' \in [Nodes -> NodeStates]
        /\ Dependency(bff', statics', dynamics')
    BY <1>1, TypeOfFinalizeNodes DEF FinalizeCompletedJobs
  <2> QED
    BY <1>1, <1>c, <2>1, <2>2 DEF FinalizeCompletedJobs, FinalizeNodes, JobType
<1>2. CASE EndSweep
  BY <1>2, <1>c DEF EndSweep
<1>3. CASE FlushAndDecide
  <2>1. job' \in [Nodes -> JobType]
    BY <1>3, PlaceNames DEF FlushAndDecide, JobType
  <2>2. stopping' \in BOOLEAN
    BY <1>3, Zenon DEF FlushAndDecide
  <2> QED
    BY <1>3, <1>c, <2>1, <2>2 DEF FlushAndDecide, JobType
<1>4. ASSUME NEW n \in Nodes, StartTarget(n)
      PROVE  TypeInv'
  <2>1. stack' \in Seq(Nodes)
    BY <1>4, TypeOfStack DEF StartTarget
  <2> QED
    BY <1>4, <1>c, <2>1 DEF StartTarget
<1>5. ASSUME NEW n \in Nodes, CheckDescend(n)
      PROVE  TypeInv'
  <2>1. stack' \in Seq(Nodes)
    BY <1>5, TypeOfStack DEF CheckDescend
  <2> QED
    BY <1>5, <1>c, <2>1 DEF CheckDescend
<1>6. ASSUME NEW n \in Nodes, NotReady(n)
      PROVE  TypeInv'
  <2>1. stack' \in Seq(Nodes) /\ state' \in [Nodes -> NodeStates]
    BY <1>6, TypeOfStack, StateNames DEF NotReady, Sweeping, Return
  <2> QED
    BY <1>6, <1>c, <2>1 DEF NotReady
<1>7. ASSUME NEW n \in Nodes, AlreadyFailed(n)
      PROVE  TypeInv'
  <2>1. stack' \in Seq(Nodes)
    BY <1>7, TypeOfStack DEF AlreadyFailed, Sweeping, Return
  <2> QED
    BY <1>7, <1>c, <2>1 DEF AlreadyFailed
<1>8. ASSUME NEW n \in Nodes, PreBuildReady(n)
      PROVE  TypeInv'
  <2>1. state' \in [Nodes -> NodeStates]
    BY <1>8, StateNames DEF PreBuildReady
  <2> QED
    BY <1>8, <1>c, <2>1 DEF PreBuildReady
<1>9. ASSUME NEW n \in Nodes, StaticReady(n)
      PROVE  TypeInv'
  <2>0. stack' \in Seq(Nodes)
    BY <1>9, TypeOfStack DEF StaticReady, Ready, Sweeping, Return
  <2>1. state' \in [Nodes -> NodeStates]
    BY <1>9, StateNames DEF StaticReady
  <2>2. stamp' \in [Nodes -> Nat] /\ Dependency(bff, statics, dynamics')
    BY <1>9, TypeOfDirtyNode DEF StaticReady
  <2> QED
    BY <1>9, <1>c, <2>0, <2>1, <2>2 DEF StaticReady
<1>10. ASSUME NEW n \in Nodes, DynamicReady(n)
       PROVE  TypeInv'
  <2>0. stack' \in Seq(Nodes)
    BY <1>10, TypeOfStack DEF DynamicReady, Ready, Sweeping, Return
  <2>1. state' \in [Nodes -> NodeStates]
    BY <1>10, StateNames DEF DynamicReady
  <2>2. job' \in [Nodes -> JobType]
    <3>1. Move(n, "staged") \/ job' = job
      BY <1>10 DEF DynamicReady
    <3>2. job \in [Nodes -> JobType]
      BY DEF JobType
    <3> QED
      BY <3>1, <3>2, TypeOfMove, PlaceNames
  <2> QED
    BY <1>10, <1>c, <2>0, <2>1, <2>2 DEF DynamicReady, JobType
<1>11. ASSUME NEW n \in Nodes, NEW d \in Nodes, Descend(n, d)
       PROVE  TypeInv'
  <2>1. stack' \in Seq(Nodes)
    BY <1>11, TypeOfStack DEF Descend
  <2> QED
    BY <1>11, <1>c, <2>1 DEF Descend
<1>12. CASE CheckReturn
  <2>1. stack' \in Seq(Nodes)
    BY <1>12, TypeOfStack DEF CheckReturn, Return
  <2> QED
    BY <1>12, <1>c, <2>1 DEF CheckReturn
<1>13. CASE CycleFound
  <2>1. stack' \in Seq(Nodes)
    BY <1>13 DEF CycleFound
  <2> QED
    BY <1>13, <1>c, <2>1 DEF CycleFound
<1> QED
  BY <1>1, <1>2, <1>3, <1>4, <1>5, <1>6, <1>7, <1>8, <1>9, <1>10, <1>11, <1>12, <1>13
     DEF MainStep

LEMMA TypeOfStartBuild ==
  ASSUME TypeInv, NEW ts \in TargetSets, StartBuild(ts)
  PROVE  TypeInv'
<1> USE DEF TypeInv, TypeOK, DbType, disk, graph, queue, sweep, control, session, user
<1>1. bffOnDisk \in Bffs /\ ts \subseteq Nodes
  BY BuildAssumption DEF BuildAssumption
<1>2. ASSUME NEW kept \in SUBSET Outputs, kept # {} => db.kind = "saved",
             \A n \in kept : bffOnDisk.static[n] = db.bff.static[n],
             stamp' = [n \in Nodes |-> IF n \in kept THEN db.stamp[n] ELSE 0],
             statics' = [n \in Outputs |-> IF n \in kept THEN db.statics[n]
                                           ELSE Unstamped(bffOnDisk.static[n])],
             dynamics' = [n \in Outputs |-> IF n \in kept THEN db.dynamics[n]
                                            ELSE Unstamped({})]
      PROVE  stamp' \in [Nodes -> Nat] /\ Dependency(bffOnDisk, statics', dynamics')
  <2>1. stamp' \in [Nodes -> Nat]
    BY <1>2
  <2>2. \A n \in Outputs : Stamps(Unstamped(bffOnDisk.static[n])) /\ Stamps(Unstamped({}))
                           /\ DOMAIN Unstamped(bffOnDisk.static[n]) = bffOnDisk.static[n]
    BY <1>1, BffFields, StampsOf
  <2> QED
    BY <1>2, <2>1, <2>2 DEF Dependency
<1>3. ASSUME NEW n \in Migrated
      PROVE  n \in Outputs /\ bffOnDisk.static[n] = db.bff.static[n]
  BY <1>3 DEF Migrated, Keeps
<1>4. stamp' \in [Nodes -> Nat] /\ Dependency(bffOnDisk, statics', dynamics')
  <2> DEFINE kept == IF db.kind # "saved" THEN {}
                     ELSE IF db.bff = bffOnDisk THEN Outputs ELSE Migrated
  <2>1. kept \in SUBSET Outputs /\ (kept # {} => db.kind = "saved")
    BY <1>3
  <2>2. \A n \in kept : bffOnDisk.static[n] = db.bff.static[n]
    BY <1>3
  <2> QED
    BY <1>2, <2>1, <2>2 DEF StartBuild, Initialize
<1>5. /\ quiet' \in BOOLEAN /\ edited' \in BOOLEAN
      /\ outcome' \in {"none", "ok", "failed", "killed"}
  BY DEF StartBuild
<1>6. todo' \subseteq targets'
  BY DEF StartBuild, AtRest
<1>7. ThreadsCounted' /\ HasRead' /\ AtRest'
  BY DEF StartBuild, ThreadsCounted, HasRead, AtRest, At
<1> QED
  BY <1>1, <1>4, <1>5, <1>6, <1>7 DEF StartBuild, Initialize, Dependency

LEMMA TypeOfProcessEnds ==
  ASSUME TypeInv, ProcessEnds, bffOnDisk' = bffOnDisk
  PROVE  /\ bff' \in Bffs /\ Dependency(bff', statics', dynamics')
         /\ state' \in [Nodes -> NodeStates] /\ stamp' \in [Nodes -> Nat]
         /\ job' \in [Nodes -> JobType] /\ exited' \in 0 .. NumWorkerThreads
         /\ DOMAIN read' = Outputs /\ \A n \in Outputs : Contents(read'[n])
         /\ ThreadsCounted' /\ HasRead' /\ AtRest'
<1>1. bffOnDisk \in Bffs
  BY DEF TypeInv, TypeOK
<1>2. NumWorkerThreads \in Nat /\ 0 \in 0 .. NumWorkerThreads
  BY GraphAssumption DEF GraphAssumption
<1>3. At(Held)' = {}
  BY DEF ProcessEnds, At, Held, NoJob
<1>4. Cardinality(At(Held)') = 0
  BY <1>3, FS_EmptySet
<1>5. bff' \in Bffs /\ Dependency(bff', statics', dynamics')
  BY <1>1, NoDependencies DEF ProcessEnds
<1>6. state' \in [Nodes -> NodeStates] /\ stamp' \in [Nodes -> Nat] /\ job' \in [Nodes -> JobType]
  BY StateNames, PlaceNames DEF ProcessEnds, NoJob, JobType
<1>7. DOMAIN read' = Outputs /\ \A n \in Outputs : Contents(read'[n])
  BY DEF ProcessEnds, Contents
<1>8. HasRead' /\ AtRest' /\ ThreadsCounted'
  BY <1>2, <1>4, NodeKinds DEF ProcessEnds, HasRead, AtRest, ThreadsCounted, NoJob
<1> QED
  BY <1>2, <1>5, <1>6, <1>7, <1>8 DEF ProcessEnds

LEMMA TypeOfSession ==
  ASSUME TypeInv, SaveBegins \/ SaveEnds \/ Crash \/ Abort
  PROVE  TypeInv'
<1> USE DEF TypeInv, TypeOK, DbType, Dependency, disk, graph, queue, sweep, control, session, user
<1>1. CASE SaveBegins
  <2>1. ThreadsCounted' /\ HasRead' /\ AtRest'
    BY <1>1 DEF SaveBegins, ThreadsCounted, HasRead, AtRest, At
  <2> QED
    BY <1>1, <2>1 DEF SaveBegins, Corrupt
<1>2. CASE SaveEnds
  <2>1. DbType'
    BY <1>2, NodeKinds DEF SaveEnds
  <2>2. ProcessEnds /\ bffOnDisk' = bffOnDisk
    BY <1>2 DEF SaveEnds
  <2>3. /\ bff' \in Bffs /\ Dependency(bff', statics', dynamics')
        /\ state' \in [Nodes -> NodeStates] /\ stamp' \in [Nodes -> Nat]
        /\ job' \in [Nodes -> JobType] /\ exited' \in 0 .. NumWorkerThreads
        /\ DOMAIN read' = Outputs /\ \A n \in Outputs : Contents(read'[n])
        /\ ThreadsCounted' /\ HasRead' /\ AtRest'
    BY <2>2, TypeOfProcessEnds
  <2>4. /\ todo' = {} /\ stack' \in Seq(Nodes) /\ tagged' = {} /\ built' = {} /\ main' = "idle"
        /\ stopBuild' = FALSE /\ stopping' = FALSE
    BY <2>2 DEF ProcessEnds
  <2>5. /\ bffOnDisk' = bffOnDisk /\ edited' = edited /\ quiet' = quiet /\ targets' = targets
        /\ outcome' \in {"none", "ok", "failed", "killed"}
    BY <1>2 DEF SaveEnds
  <2> QED
    BY <1>2, <2>1, <2>3, <2>4, <2>5 DEF SaveEnds, JobType
<1>3. CASE Crash
  <2>1. /\ mtime' \in [Nodes -> Nat]
        /\ DOMAIN made' = Outputs /\ \A n \in Outputs : Contents(made'[n])
    BY <1>3 DEF Crash, Contents
  <2>2. ProcessEnds /\ bffOnDisk' = bffOnDisk
    BY <1>3 DEF Crash
  <2>3. /\ bff' \in Bffs /\ Dependency(bff', statics', dynamics')
        /\ state' \in [Nodes -> NodeStates] /\ stamp' \in [Nodes -> Nat]
        /\ job' \in [Nodes -> JobType] /\ exited' \in 0 .. NumWorkerThreads
        /\ DOMAIN read' = Outputs /\ \A n \in Outputs : Contents(read'[n])
        /\ ThreadsCounted' /\ HasRead' /\ AtRest'
    BY <2>2, TypeOfProcessEnds
  <2>4. /\ todo' = {} /\ stack' \in Seq(Nodes) /\ tagged' = {} /\ built' = {} /\ main' = "idle"
        /\ stopBuild' = FALSE /\ stopping' = FALSE
    BY <2>2 DEF ProcessEnds
  <2>5. /\ bffOnDisk' = bffOnDisk /\ edited' = edited /\ quiet' = quiet /\ targets' = targets
        /\ outcome' \in {"none", "ok", "failed", "killed"}
    BY <1>3 DEF Crash
  <2> QED
    BY <1>3, <2>1, <2>3, <2>4, <2>5 DEF Crash, JobType
<1>4. CASE Abort
  <2>1. ThreadsCounted' /\ HasRead' /\ AtRest'
    BY <1>4 DEF Abort, AbortBuild, ThreadsCounted, HasRead, AtRest, At
  <2> QED
    BY <1>4, <2>1 DEF Abort, AbortBuild
<1> QED
  BY <1>1, <1>2, <1>3, <1>4

LEMMA TypeOfUser ==
  ASSUME TypeInv,
         (\E f \in Files : EditFile(f)) \/ (\E n \in Outputs : OverwriteOutput(n)) \/ EditBff
  PROVE  TypeInv'
<1> USE DEF TypeInv, TypeOK, DbType, Dependency, disk, graph, queue, sweep, control, Change
<1>a. UNCHANGED <<job, read, main, todo, stack, tagged, built, state, stopBuild, stopping, exited>>
  BY DEF EditFile, OverwriteOutput, EditBff
<1>b. ThreadsCounted' /\ HasRead' /\ AtRest'
  BY <1>a DEF ThreadsCounted, HasRead, AtRest, At
<1>1. ASSUME NEW f \in Files, EditFile(f)
      PROVE  TypeInv'
  <2>1. mtime' \in [Nodes -> Nat]
    BY <1>1, NodeKinds DEF EditFile
  <2> QED
    BY <1>1, <1>b, <2>1 DEF EditFile
<1>2. ASSUME NEW n \in Outputs, OverwriteOutput(n)
      PROVE  TypeInv'
  <2>1. Contents(Foreign)
    BY DEF Contents
  <2>2. /\ mtime' \in [Nodes -> Nat]
        /\ DOMAIN made' = Outputs /\ \A m \in Outputs : Contents(made'[m])
    BY <1>2, <2>1, TypeOfWrite DEF OverwriteOutput
  <2> QED
    BY <1>2, <1>b, <2>2 DEF OverwriteOutput
<1>3. CASE EditBff
  BY <1>3, <1>b DEF EditBff
<1> QED
  BY <1>1, <1>2, <1>3

LEMMA TypeOfExit ==
  ASSUME TypeInv, Exit, UNCHANGED session
  PROVE  TypeInv'
<1> USE DEF TypeInv, TypeOK, DbType, Dependency, disk, graph, queue, sweep, session, user
<1>1. Cardinality(At(Held)) \in Nat /\ At(Held)' = At(Held)
  BY HeldJobs DEF Exit, At
<1>2. exited' \in 0 .. NumWorkerThreads /\ ThreadsCounted'
  BY <1>1, GraphAssumption DEF Exit, Idle, ThreadsCounted, GraphAssumption
<1>3. main \notin {"idle", "save", "writing"}
  BY <1>1, GraphAssumption DEF Exit, Idle, ShouldExit, AtRest, GraphAssumption
<1>4. HasRead' /\ AtRest'
  BY <1>3 DEF Exit, HasRead, AtRest
<1> QED
  BY <1>2, <1>4 DEF Exit

LEMMA TypeStep == TypeInv /\ [Next]_vars => TypeInv'
<1> SUFFICES ASSUME TypeInv, [Next]_vars PROVE TypeInv'
  OBVIOUS
<1>1. CASE \E ts \in TargetSets : StartBuild(ts)
  BY <1>1, TypeOfStartBuild
<1>2. CASE MainThread
  BY <1>2, TypeOfMainStep, TypeOfSession DEF MainThread
<1>3. CASE WorkerThreads
  BY <1>3, TypeOfWorkerStep, TypeOfExit DEF WorkerThreads
<1>4. CASE Crash \/ Abort
  BY <1>4, TypeOfSession
<1>5. CASE (\E f \in Files : EditFile(f)) \/ (\E n \in Outputs : OverwriteOutput(n)) \/ EditBff
  BY <1>5, TypeOfUser
<1>6. CASE UNCHANGED vars
  BY <1>6 DEF TypeInv, TypeOK, DbType, Dependency, ThreadsCounted, HasRead, AtRest, At,
              vars, disk, graph, queue, sweep, control, session, user
<1> QED
  BY <1>1, <1>2, <1>3, <1>4, <1>5, <1>6 DEF Next, Finished

LEMMA TypeInvariant == Spec => []TypeInv
  BY TypeInit, TypeStep, PTL DEF Spec

\* Every variable keeps its type, in every sequence of builds, whatever is edited, aborted
\* or killed in between.
THEOREM BuildTypeCorrect == Spec => []TypeOK
  BY TypeInvariant, PTL DEF TypeInv

---------------------------------------------------------------------------
(* The check for cyclic dependencies                                       *)

\* While the check runs, its stack is a path in the graph.
CheckPath ==
    main = "check" =>
        \A i \in 1 .. Len(stack) - 1 : stack[i + 1] \in Dependencies(stack[i])

LEMMA PathInit == Init => CheckPath
  BY DEF Init, CheckPath

\* What the check follows from the end of its path is a dependency of that end.
LEMMA FollowedDependencies ==
  ASSUME TypeInv, stack # <<>>, NEW d \in Followed
  PROVE  Len(stack) \in Nat \ {0} /\ stack[Len(stack)] \in Nodes
         /\ d \in Dependencies(stack[Len(stack)])
<1>1. stack \in Seq(Nodes)
  BY DEF TypeInv, TypeOK
<1> QED
  BY <1>1 DEF Followed, Dependencies, Last

LEMMA PathOfDescend ==
  ASSUME TypeInv, CheckPath, NEW d \in Nodes, CheckDescend(d)
  PROVE  CheckPath'
<1>1. stack \in Seq(Nodes) /\ Len(stack) \in Nat /\ main = "check"
  BY DEF TypeInv, TypeOK, CheckDescend
<1>2. /\ Len(stack') = Len(stack) + 1 /\ stack'[Len(stack) + 1] = d
      /\ \A i \in 1 .. Len(stack) : stack'[i] = stack[i]
  BY <1>1, AppendProperties DEF CheckDescend
<1>3. UNCHANGED <<bff, dynamics>>
  BY DEF CheckDescend, graph
<1>4. ASSUME NEW i \in 1 .. Len(stack') - 1
      PROVE  stack'[i + 1] \in Dependencies(stack[i])
  <2>1. CASE i < Len(stack)
    BY <1>1, <1>2, <2>1 DEF CheckPath
  <2>2. CASE i = Len(stack)
    <3>1. stack # <<>>
      BY <1>1, <2>2
    <3>2. d \in Followed
      BY DEF CheckDescend
    <3> QED
      BY <1>2, <2>2, <3>1, <3>2, FollowedDependencies
  <2> QED
    BY <1>1, <1>2, <2>1, <2>2
<1>5. \A i \in 1 .. Len(stack') - 1 : stack'[i] = stack[i]
  BY <1>1, <1>2
<1>6. \A i \in 1 .. Len(stack') - 1 : stack'[i + 1] \in Dependencies(stack'[i])
  BY <1>4, <1>5
<1> QED
  BY <1>3, <1>6 DEF CheckPath, Dependencies

LEMMA PathOfReturn ==
  ASSUME TypeInv, CheckPath, CheckReturn
  PROVE  CheckPath'
<1>1. CASE stack = <<>>
  BY <1>1 DEF CheckReturn, CheckPath
<1>2. CASE stack # <<>>
  <2>1. stack \in Seq(Nodes) /\ Len(stack) \in Nat \ {0} /\ main = "check"
    BY <1>2 DEF TypeInv, TypeOK, CheckReturn
  <2>2. stack' = SubSeq(stack, 1, Len(stack) - 1)
    BY <1>2 DEF CheckReturn, Return, Front
  <2>3. Len(stack') = Len(stack) - 1 /\ \A i \in 1 .. Len(stack') : stack'[i] = stack[i]
    <3> DEFINE last == Len(stack) - 1
    <3>1. last \in Nat /\ last \in Int /\ 1 \in Int
      BY <2>1
    <3>2. \A i \in 1 .. last : stack[i] \in Nodes
      BY <2>1
    <3> HIDE DEF last
    <3>3. /\ Len(SubSeq(stack, 1, last)) = IF 1 <= last THEN last - 1 + 1 ELSE 0
          /\ \A i \in 1 .. last - 1 + 1 : SubSeq(stack, 1, last)[i] = stack[1 + i - 1]
      BY <3>1, <3>2, SubSeqProperties
    <3>4. \A i \in 1 .. last : 1 + i - 1 = i /\ i \in 1 .. last - 1 + 1
      BY <3>1
    <3>5. (IF 1 <= last THEN last - 1 + 1 ELSE 0) = last
      BY <3>1
    <3>6. stack' = SubSeq(stack, 1, last)
      BY <2>2 DEF last
    <3>7. Len(stack') = last /\ \A i \in 1 .. last : stack'[i] = stack[i]
      BY <3>3, <3>4, <3>5, <3>6, Zenon
    <3> QED
      BY <3>7 DEF last
  <2>4. UNCHANGED <<bff, dynamics>>
    BY DEF CheckReturn, graph
  <2>5. \A i \in 1 .. Len(stack') - 1 : stack'[i + 1] \in Dependencies(stack'[i])
    BY <2>1, <2>3 DEF CheckPath
  <2> QED
    BY <2>4, <2>5 DEF CheckPath, Dependencies
<1> QED
  BY <1>1, <1>2

LEMMA PathStep == TypeInv /\ CheckPath /\ [Next]_vars => CheckPath'
<1> SUFFICES ASSUME TypeInv, CheckPath, [Next]_vars PROVE CheckPath'
  OBVIOUS
<1>1. CASE \E d \in Nodes : CheckDescend(d)
  BY <1>1, PathOfDescend
<1>2. CASE CheckReturn
  BY <1>2, PathOfReturn
<1>3. CASE EndSweep
  <2>1. stack' = <<>>
    BY <1>3 DEF EndSweep
  <2> QED
    BY <2>1 DEF CheckPath
<1>4. CASE UNCHANGED <<bff, dynamics, main, stack>>
  BY <1>4 DEF CheckPath, Dependencies
<1>5. CASE main' # "check"
  BY <1>5 DEF CheckPath
<1>6. CASE MainStep /\ UNCHANGED session
  <2>1. CASE FinalizeCompletedJobs \/ FlushAndDecide \/ CycleFound
    BY <2>1, <1>5 DEF FinalizeCompletedJobs, FlushAndDecide, CycleFound
  <2>2. ASSUME NEW n \in Nodes,
               \/ StartTarget(n) \/ NotReady(n) \/ AlreadyFailed(n) \/ PreBuildReady(n)
               \/ StaticReady(n) \/ DynamicReady(n) \/ \E d \in Nodes : Descend(n, d)
        PROVE  CheckPath'
    BY <2>2, <1>5 DEF StartTarget, NotReady, AlreadyFailed, PreBuildReady, StaticReady,
       DynamicReady, Descend, Ready, Sweeping
  <2> QED
    BY <1>1, <1>2, <1>3, <1>6, <2>1, <2>2 DEF MainStep
<1>7. CASE WorkerThreads
  <2>1. CASE Exit
    BY <2>1, <1>4 DEF Exit, graph, sweep
  <2>2. ASSUME NEW n \in Nodes, WorkerStep(n)
        PROVE  CheckPath'
    BY <2>2, <1>4 DEF WorkerStep, TakeJob, CountJob, CancelJob, StampFile, ReadInputs, ToolSucceeds,
       ToolFails, UncountJob, AppendCompleted, graph, sweep
  <2> QED
    BY <1>7, <2>1, <2>2 DEF WorkerThreads
<1>8. CASE Abort
  BY <1>4, <1>8 DEF Abort, AbortBuild, graph, sweep
<1>9. CASE SaveBegins \/ SaveEnds \/ Crash \/ \E ts \in TargetSets : StartBuild(ts)
  BY <1>5, <1>9 DEF SaveBegins, SaveEnds, Crash, StartBuild, ProcessEnds
<1>10. CASE (\E f \in Files : EditFile(f)) \/ (\E n \in Outputs : OverwriteOutput(n)) \/ EditBff
  BY <1>4, <1>10 DEF EditFile, OverwriteOutput, EditBff, Change, graph, sweep
<1>11. CASE UNCHANGED vars
  BY <1>4, <1>11 DEF vars, graph, sweep
<1> QED
  BY <1>6, <1>7, <1>8, <1>9, <1>10, <1>11 DEF Next, MainThread, Finished

\* The nodes from the one that was met again to the end of the path need each other.
LEMMA PathIsCycle ==
  ASSUME TypeInv, CheckPath, CycleFound
  PROVE  \E S \in SUBSET Nodes : /\ S # {} /\ \A n \in S : Dependencies(n) \cap S # {}
                                /\ S \subseteq ToSet(stack)
<1>1. stack \in Seq(Nodes) /\ Len(stack) \in Nat /\ main = "check"
  BY DEF TypeInv, TypeOK, CycleFound
<1>2. PICK d \in Followed : d \in ToSet(stack)
  BY DEF CycleFound
<1>3. PICK k \in 1 .. Len(stack) : stack[k] = d
  BY <1>1, <1>2 DEF ToSet
<1>4. d \in Dependencies(stack[Len(stack)])
  BY <1>1, <1>2, <1>3, FollowedDependencies
<1> DEFINE S == {stack[i] : i \in k .. Len(stack)}
<1>5. S \in SUBSET Nodes /\ S # {} /\ S \subseteq ToSet(stack)
  BY <1>1, <1>3 DEF ToSet
<1>6. ASSUME NEW i \in k .. Len(stack)
      PROVE  Dependencies(stack[i]) \cap S # {}
  <2>1. CASE i = Len(stack)
    BY <1>1, <1>3, <1>4, <2>1
  <2>2. CASE i < Len(stack)
    <3>1. i \in 1 .. Len(stack) - 1 /\ i + 1 \in k .. Len(stack)
      BY <1>1, <1>3, <2>2
    <3>2. stack[i + 1] \in Dependencies(stack[i])
      BY <1>1, <3>1 DEF CheckPath
    <3> QED
      BY <3>1, <3>2
  <2> QED
    BY <1>1, <1>3, <2>1, <2>2
<1>7. \A n \in S : Dependencies(n) \cap S # {}
  BY <1>6
<1> QED
  BY <1>5, <1>7

\* When the check aborts a build there is a cycle in the graph, whenever it runs and
\* whatever the worker threads do in the meantime.
THEOREM CyclesAreReal == Spec => CycleIsReal
<1>1. TypeInv /\ CheckPath /\ [Next]_vars =>
        [CycleFound => \E S \in SUBSET Nodes : S # {} /\ \A n \in S : Dependencies(n) \cap S # {}]_vars
  BY PathIsCycle
<1> QED
  BY <1>1, TypeInvariant, PathInit, PathStep, PTL DEF Spec, CycleIsReal
===========================================================================
