------------------------ MODULE DistributedJobsProofs ------------------------
(***************************************************************************)
(* Proofs about DistributedJobs for any number of jobs, threads, remote    *)
(* workers, connections and retries, with and without races: its types,    *)
(* and the system errors that are counted against a job.                   *)
(***************************************************************************)
EXTENDS JobOwnership, FiniteSetTheorems, TLAPS

----------------------------------------------------------------------------
(* Types                                                                    *)

\* The jobs of a batch are counted by a natural number.
LEMMA CountOfJobs ==
  ASSUME NEW S \in SUBSET Jobs, NEW g
  PROVE  Cardinality(InGroup(S, g)) \in Nat
<1>1. InGroup(S, g) \in SUBSET Jobs
  BY DEF InGroup
<1>2. IsFiniteSet(InGroup(S, g))
  BY <1>1, FS_Subset, ConstantsAssumption DEF ConstantsAssumption
<1> QED
  BY <1>2, FS_CardinalityType

\* A thread or connection that is at a point where it uses a job has one: this is
\* what makes the types inductive.
TypeInv == TypeOK /\ JobsAtHand

LEMMA TypeInit == Init => TypeInv
<1> SUFFICES ASSUME Init PROVE TypeInv
  OBVIOUS
<1>1. TypeOK
  <2>1. 0 \in 0..MaxConnects
    BY ConstantsAssumption DEF ConstantsAssumption
  <2>2. /\ nodeState \in [Jobs -> NodeStates] /\ dist \in [Jobs -> DistStates]
        /\ systemErrors \in [Jobs -> Nat] /\ blamed \in [Jobs -> SUBSET Conns]
        /\ activeJobs \in [{Group[j] : j \in Jobs} -> Int]
    BY DEF Init, NodeStates, DistStates
  <2>3. /\ completed \in [Results -> SUBSET Jobs] /\ reaped \in [Results -> SUBSET Jobs]
        /\ tpc \in [Threads -> ThreadPCs]
        /\ tjob \in [Threads -> Jobs \cup {None}] /\ tres \in [Threads -> Results]
    BY DEF Init, NoJobs, Results, ThreadPCs
  <2>4. /\ cpc \in [Conns -> ConnPCs]
        /\ cjob \in [Conns -> Jobs \cup {None}] /\ cres \in [Conns -> Outcomes]
        /\ sent \in [Conns -> SUBSET Jobs] /\ connects \in [Conns -> 0..MaxConnects]
    BY <2>1 DEF Init, ConnPCs, Outcomes
  <2> QED
    BY <2>2, <2>3, <2>4 DEF Init, TypeOK, Results, MainPCs
<1>2. JobsAtHand
  BY DEF Init, JobsAtHand, Busy, HasJob, Waiting, Owning
<1> QED
  BY <1>1, <1>2 DEF TypeInv

LEMMA StopFlagType ==
  ASSUME NEW f, OnBuildError(f)
  PROVE  stopBuild' \in BOOLEAN
  BY DEF OnBuildError

\* The operations of JobQueue that decide a job's state keep the types of what
\* they change.
LEMMA TypeOfFinish ==
  ASSUME TypeInv, NEW j \in Jobs, NEW r, FinishInProgress(j, r)
  PROVE  dist' \in [Jobs -> DistStates] /\ inProgress' \subseteq Jobs
<1>1. /\ dist \in [Jobs -> DistStates] /\ inProgress \subseteq Jobs
      /\ {"RACE_WON_REMOTELY", "COMPLETED_LOCALLY"} \subseteq DistStates
  BY DEF TypeInv, TypeOK, DistStates
<1> QED
  BY <1>1 DEF FinishInProgress, AllowRemoteToWin, RemoveInProgress

LEMMA TypeOfReturn ==
  ASSUME TypeInv, NEW j \in Jobs, ReturnUnfinished(j)
  PROVE  /\ dist' \in [Jobs -> DistStates] /\ inProgress' \subseteq Jobs
         /\ available' \subseteq Jobs /\ live' \subseteq Jobs
<1>1. /\ dist \in [Jobs -> DistStates] /\ inProgress \subseteq Jobs
      /\ available \subseteq Jobs /\ live \subseteq Jobs
      /\ {"BUILDING_LOCALLY", "AVAILABLE"} \subseteq DistStates
  BY DEF TypeInv, TypeOK, DistStates
<1> QED
  BY <1>1 DEF ReturnUnfinished, RemoveInProgress

LEMMA TypeOfRemoteReturn ==
  ASSUME TypeInv, NEW c \in Conns, NEW j \in Jobs, NEW o \in Outcomes,
         OnReturnRemoteJob(c, j, o)
  PROVE  /\ dist' \in [Jobs -> DistStates] /\ inProgress' \subseteq Jobs
         /\ aborted' \subseteq Jobs /\ live' \subseteq Jobs
         /\ cpc' \in [Conns -> ConnPCs] /\ cjob' \in [Conns -> Jobs \cup {None}]
         /\ cres' \in [Conns -> Outcomes]
         /\ \A d \in Conns : HasJob(d)' => cjob'[d] \in Jobs
<1>1. /\ dist \in [Jobs -> DistStates] /\ inProgress \subseteq Jobs
      /\ aborted \subseteq Jobs /\ live \subseteq Jobs
      /\ {"BUILDING_LOCALLY", "COMPLETED_REMOTELY", "RACE_WON_REMOTELY_CANCEL_LOCAL"}
           \subseteq DistStates
  BY DEF TypeInv, TypeOK, DistStates
<1>2. /\ cpc \in [Conns -> ConnPCs] /\ cjob \in [Conns -> Jobs \cup {None}]
      /\ cres \in [Conns -> Outcomes] /\ {"owned", "awaitCancel"} \subseteq ConnPCs
      /\ \A d \in Conns : HasJob(d) => cjob[d] \in Jobs
  BY DEF TypeInv, TypeOK, JobsAtHand, ConnPCs
<1>3. /\ dist' \in [Jobs -> DistStates] /\ inProgress' \subseteq Jobs
      /\ aborted' \subseteq Jobs /\ live' \subseteq Jobs
  BY <1>1 DEF OnReturnRemoteJob, RemoveInProgress
<1>4. \/ UNCHANGED <<cpc, cjob, cres>>
      \/ \E pc \in {"owned", "awaitCancel"} : ConnHolds(c, pc, j, o)
  BY DEF OnReturnRemoteJob
<1>5. CASE UNCHANGED <<cpc, cjob, cres>>
  BY <1>2, <1>3, <1>5 DEF HasJob, Waiting, Owning
<1>6. ASSUME NEW pc \in {"owned", "awaitCancel"}, ConnHolds(c, pc, j, o)
      PROVE  /\ cpc' \in [Conns -> ConnPCs] /\ cjob' \in [Conns -> Jobs \cup {None}]
             /\ cres' \in [Conns -> Outcomes]
             /\ \A d \in Conns : HasJob(d)' => cjob'[d] \in Jobs
  BY <1>2, <1>6 DEF ConnHolds, HasJob, Waiting, Owning
<1> QED
  BY <1>3, <1>4, <1>5, <1>6

LEMMA TypeOfThreadStep ==
  ASSUME TypeInv, NEW t \in Threads, ThreadStep(t)
  PROVE  TypeInv'
<1>a. \A j \in Jobs : FinishInProgress(j, tres[t]) =>
        dist' \in [Jobs -> DistStates] /\ inProgress' \subseteq Jobs
  BY TypeOfFinish
<1> USE DEF TypeInv, TypeOK, JobsAtHand, Busy, HasJob, Waiting, Owning,
            DistStates, Results, ThreadPCs,
            jobVars, queueVars, listVars, batchVars, connVars, mainVars,
            ThreadGoto, ThreadTakes, ThreadDrops, ThreadHasResult
<1>1. CASE WakeThread(t)
  BY <1>1 DEF WakeThread
<1>2. CASE TakeLocalJob(t)
  BY <1>2 DEF TakeLocalJob
<1>3. CASE TakeDistributableJob(t)
  <2>1. CASE UNCHANGED <<dist, available, inProgress>> /\ ThreadGoto(t, "race")
    BY <1>3, <2>1 DEF TakeDistributableJob
  <2>2. ASSUME NEW j \in available,
               TakeDistributable(j, "BUILDING_LOCALLY"), ThreadTakes(t, "compile", j)
        PROVE  TypeInv'
    <3>1. j \in Jobs
      OBVIOUS
    <3>2. /\ dist' \in [Jobs -> DistStates] /\ inProgress' \subseteq Jobs
          /\ available' \subseteq Jobs
      BY <2>2, <3>1 DEF TakeDistributable
    <3> QED
      BY <1>3, <2>2, <3>1, <3>2 DEF TakeDistributableJob
  <2> QED
    BY <1>3, <2>1, <2>2 DEF TakeDistributableJob
<1>4. CASE TakeJobToRace(t)
  <2>1. Raceable \subseteq Jobs
    BY DEF Raceable
  <2>2. CASE ThreadGoto(t, "waiting") /\ UNCHANGED dist
    BY <1>4, <2>2 DEF TakeJobToRace
  <2>3. ASSUME NEW j \in Raceable, dist' = [dist EXCEPT ![j] = "RACING"],
               ThreadTakes(t, "raceCompile", j)
        PROVE  TypeInv'
    <3>1. j \in Jobs /\ dist' \in [Jobs -> DistStates]
      BY <2>1, <2>3
    <3> QED
      BY <1>4, <2>3, <3>1 DEF TakeJobToRace
  <2> QED
    BY <1>4, <2>2, <2>3 DEF TakeJobToRace
<1>5. CASE QueueDistributableJob(t)
  BY <1>5 DEF QueueDistributableJob
<1>6. ASSUME NEW r \in Results,
             BuildLocalJob(t, r) \/ BuildDistributableJob(t, r) \/ BuildRacedJob(t, r)
      PROVE  TypeInv'
  <2>1. stopBuild' \in BOOLEAN
    BY <1>6, StopFlagType DEF BuildLocalJob, BuildDistributableJob, BuildRacedJob
  <2>2. CASE BuildLocalJob(t, r)
    BY <2>1, <2>2 DEF BuildLocalJob
  <2>3. CASE BuildDistributableJob(t, r)
    BY <2>1, <2>3 DEF BuildDistributableJob
  <2>4. CASE BuildRacedJob(t, r)
    BY <2>1, <2>4 DEF BuildRacedJob
  <2> QED
    BY <1>6, <2>2, <2>3, <2>4
<1>7. CASE ThreadFinishes(t)
  <2>1. dist' \in [Jobs -> DistStates] /\ inProgress' \subseteq Jobs
    BY <1>7, <1>a DEF ThreadFinishes
  <2>2. ThreadDrops(t) \/ ThreadGoto(t, "append")
    BY <1>7 DEF ThreadFinishes
  <2> QED
    BY <1>7, <2>1, <2>2 DEF ThreadFinishes
<1>8. CASE ThreadAppends(t)
  BY <1>8 DEF ThreadAppends, AppendCompleted
<1> QED
  BY <1>1, <1>2, <1>3, <1>4, <1>5, <1>6, <1>7, <1>8 DEF ThreadStep

LEMMA TypeOfAppend ==
  ASSUME completed \in [Results -> SUBSET Jobs], NEW j \in Jobs, NEW r,
         AppendCompleted(j, r)
  PROVE  completed' \in [Results -> SUBSET Jobs]
BY DEF AppendCompleted

LEMMA TypeOfConnStep ==
  ASSUME TypeInv, NEW c \in Conns, ConnStep(c)
  PROVE  TypeInv'
<1>a. \A j \in Jobs : ReturnUnfinished(j) =>
        /\ dist' \in [Jobs -> DistStates] /\ inProgress' \subseteq Jobs
        /\ available' \subseteq Jobs /\ live' \subseteq Jobs
  BY TypeOfReturn
<1>b. \A j \in Jobs, o \in Outcomes : OnReturnRemoteJob(c, j, o) =>
        /\ dist' \in [Jobs -> DistStates] /\ inProgress' \subseteq Jobs
        /\ aborted' \subseteq Jobs /\ live' \subseteq Jobs
        /\ cpc' \in [Conns -> ConnPCs] /\ cjob' \in [Conns -> Jobs \cup {None}]
        /\ cres' \in [Conns -> Outcomes]
        /\ \A d \in Conns : HasJob(d)' => cjob'[d] \in Jobs
  BY TypeOfRemoteReturn
<1>c. \A j \in Jobs : FinishInProgress(j, cres[c]) =>
        dist' \in [Jobs -> DistStates] /\ inProgress' \subseteq Jobs
  BY TypeOfFinish
<1> USE DEF TypeInv, TypeOK, JobsAtHand, Busy, HasJob, Waiting, Owning,
            DistStates, Results, Outcomes, ConnPCs,
            jobVars, queueVars, listVars, batchVars, threadVars, mainVars,
            ConnGoto, ConnHolds, ConnDrops, RemoveInProgress
<1>1. CASE ConnectToWorker(c)
  BY <1>1, ConstantsAssumption DEF ConstantsAssumption, ConnectToWorker
<1>2. CASE RequestJob(c)
  BY <1>2 DEF RequestJob, TakeDistributable
<1>3. CASE TrackJob(c)
  BY <1>3 DEF TrackJob
<1>4. ASSUME NEW j \in Jobs, NEW o \in Outcomes, ReceiveJobResult(c, j, o)
      PROVE  TypeInv'
  <2>1. /\ dist' \in [Jobs -> DistStates] /\ inProgress' \subseteq Jobs
        /\ aborted' \subseteq Jobs /\ live' \subseteq Jobs
        /\ cpc' \in [Conns -> ConnPCs] /\ cjob' \in [Conns -> Jobs \cup {None}]
        /\ cres' \in [Conns -> Outcomes]
        /\ \A d \in Conns : HasJob(d)' => cjob'[d] \in Jobs
    BY <1>4, <1>b DEF ReceiveJobResult
  <2>2. sent' \in [Conns -> SUBSET Jobs]
    BY <1>4 DEF ReceiveJobResult
  <2>3. /\ systemErrors' \in [Jobs -> Nat] /\ blamed' \in [Jobs -> SUBSET Conns]
        /\ denyListed' \subseteq Conns
    <3>1. CASE o = "systemError"
      <4>1. /\ systemErrors' = [systemErrors EXCEPT ![j] = @ + 1]
            /\ blamed' = [blamed EXCEPT ![j] = @ \cup {c}]
            /\ denyListed' = denyListed \cup {c}
        BY <1>4, <3>1 DEF ReceiveJobResult
      <4> QED
        BY <4>1
    <3>2. CASE o # "systemError"
      <4>1. UNCHANGED <<systemErrors, blamed, denyListed>>
        BY <1>4, <3>2 DEF ReceiveJobResult
      <4> QED
        BY <4>1
    <3> QED
      BY <3>1, <3>2
  <2> QED
    BY <1>4, <2>1, <2>2, <2>3 DEF ReceiveJobResult
<1>5. CASE LocalRaceEnds(c)
  <2>1. ConnDrops(c, "up") \/ ConnGoto(c, "owned")
    BY <1>5 DEF LocalRaceEnds
  <2>2. CASE ConnDrops(c, "up")
    BY <1>5, <2>2 DEF LocalRaceEnds
  <2>3. CASE ConnGoto(c, "owned")
    BY <1>5, <2>3 DEF LocalRaceEnds
  <2> QED
    BY <2>1, <2>2, <2>3
<1>6. CASE RequeueAfterSystemError(c)
  <2>1. /\ dist' \in [Jobs -> DistStates] /\ inProgress' \subseteq Jobs
        /\ available' \subseteq Jobs /\ live' \subseteq Jobs
    BY <1>6, <1>a DEF RequeueAfterSystemError
  <2>2. ConnDrops(c, "up")
    BY <1>6 DEF RequeueAfterSystemError
  <2> QED
    BY <1>6, <2>1, <2>2 DEF RequeueAfterSystemError
<1>7. CASE ProcessResult(c)
  BY <1>7 DEF ProcessResult
<1>8. CASE ConnFinishes(c)
  <2>1. dist' \in [Jobs -> DistStates] /\ inProgress' \subseteq Jobs
    BY <1>8, <1>c DEF ConnFinishes
  <2>2. ConnDrops(c, "up") \/ ConnGoto(c, "append")
    BY <1>8 DEF ConnFinishes
  <2>3. CASE ConnDrops(c, "up")
    BY <1>8, <2>1, <2>3 DEF ConnFinishes
  <2>4. CASE ConnGoto(c, "append")
    BY <1>8, <2>1, <2>4 DEF ConnFinishes
  <2> QED
    BY <2>2, <2>3, <2>4
<1>9. CASE ConnAppends(c)
  <2>1. cjob[c] \in Jobs
    BY <1>9 DEF ConnAppends
  <2>2. completed \in [Results -> SUBSET Jobs] /\ AppendCompleted(cjob[c], cres[c])
    BY <1>9 DEF ConnAppends
  <2>3. completed' \in [Results -> SUBSET Jobs]
    BY ONLY <2>1, <2>2, TypeOfAppend
  <2>4. ConnDrops(c, "up")
    BY <1>9 DEF ConnAppends
  <2> QED
    BY <1>9, <2>3, <2>4 DEF ConnAppends
<1>10. CASE Disconnect(c)
  BY <1>10 DEF Disconnect
<1>11. CASE OnDisconnected(c)
  <2>1. CASE sent[c] = {} /\ ConnGoto(c, "down")
             /\ UNCHANGED <<dist, live, available, inProgress, sent>>
    BY <1>11, <2>1 DEF OnDisconnected
  <2>2. ASSUME NEW j \in sent[c], ReturnUnfinished(j),
               sent' = [sent EXCEPT ![c] = @ \ {j}], UNCHANGED <<cpc, cjob, cres>>
        PROVE  TypeInv'
    <3>1. j \in Jobs
      OBVIOUS
    <3> QED
      BY <1>11, <2>2, <3>1, <1>a DEF OnDisconnected
  <2> QED
    BY <1>11, <2>1, <2>2 DEF OnDisconnected
<1> QED
  BY <1>1, <1>2, <1>3, <1>4, <1>5, <1>6, <1>7, <1>8, <1>9, <1>10, <1>11
     DEF ConnStep, ConnProceeds, RemoteAnswers

LEMMA TypeOfMainStep ==
  ASSUME TypeInv, MainStep
  PROVE  TypeInv'
<1> USE DEF TypeInv, TypeOK, JobsAtHand, Busy, HasJob, Waiting, Owning,
            DistStates, NodeStates, Results, MainPCs,
            jobVars, queueVars, listVars, batchVars, threadVars, connVars,
            MainGoto, RemoveInProgress
<1>1. CASE SwapCompletedJobs
  BY <1>1 DEF SwapCompletedJobs, NoJobs
<1>2. CASE FinalizeDone
  BY <1>2 DEF FinalizeDone
<1>3. CASE DisposeJob
  BY <1>3 DEF DisposeJob
<1>4. ASSUME NEW j \in Jobs, NEW r \in Results, FinalizeNode(j, r)
      PROVE  TypeInv'
  BY <1>4 DEF FinalizeNode, FinalState
<1>5. CASE BuildPass
  <2>1. PICK flush \in SUBSET (staging \cup Ready) :
             /\ staging' = (staging \cup Ready) \ flush
             /\ localQueue' = localQueue \cup flush
             /\ live' = live \cup flush
             /\ activeJobs' = [g \in DOMAIN activeJobs |->
                                 activeJobs[g] + Cardinality(InGroup(flush, g))]
    BY <1>5 DEF BuildPass
  <2>2. flush \in SUBSET Jobs
    BY <2>1 DEF Ready, In
  <2>3. activeJobs' \in [{Group[j] : j \in Jobs} -> Int]
    BY <2>1, <2>2, CountOfJobs
  <2> QED
    BY <1>5, <2>1, <2>2, <2>3 DEF BuildPass, Ready, In
<1>6. CASE ClientDeleted
  BY <1>6 DEF ClientDeleted
<1>7. CASE WaitForWorkers
  BY <1>7 DEF WaitForWorkers
<1>8. CASE DestroyJobQueue
  BY <1>8 DEF DestroyJobQueue
<1> QED
  BY <1>1, <1>2, <1>3, <1>4, <1>5, <1>6, <1>7, <1>8 DEF MainStep

LEMMA TypeStep == TypeInv /\ [Next]_vars => TypeInv'
<1> SUFFICES ASSUME TypeInv, [Next]_vars PROVE TypeInv'
  OBVIOUS
<1>1. CASE \E t \in Threads : ThreadStep(t)
  BY <1>1, TypeOfThreadStep
<1>2. CASE \E c \in Conns : ConnStep(c)
  BY <1>2, TypeOfConnStep
<1>3. CASE MainStep
  BY <1>3, TypeOfMainStep
<1>4. CASE AbortBuild
  BY <1>4 DEF AbortBuild, TypeInv, TypeOK, JobsAtHand, Busy, HasJob, Waiting, Owning,
              jobVars, queueVars, listVars, batchVars, threadVars, connVars, mainVars
<1>5. CASE UNCHANGED vars
  BY <1>5 DEF TypeInv, TypeOK, JobsAtHand, Busy, HasJob, Waiting, Owning, vars,
              jobVars, queueVars, listVars, batchVars, threadVars, connVars, mainVars
<1> QED
  BY <1>1, <1>2, <1>3, <1>4, <1>5 DEF Next, Finished

LEMMA TypeInvariant == Spec => []TypeInv
  BY TypeInit, TypeStep, PTL DEF Spec

\* Every variable keeps its type, in every run of the program.
THEOREM TypeCorrect == Spec => []TypeOK
  BY TypeInvariant, PTL DEF TypeInv

---------------------------------------------------------------------------
(* "Task failed on 3 different workers": the count of system errors of a   *)
(* job is a count of workers, for any number of them. The reason is Blame  *)
(* of JobOwnership: the worker that sent the error is deny listed before   *)
(* the job can be given away again, and a deny listed worker gets no job.  *)

LEMMA BlameInit == Init => Blame
<1> SUFFICES ASSUME Init PROVE Blame
  OBVIOUS
<1>1. Cardinality({}) = 0
  BY FS_EmptySet
<1> QED
  BY <1>1 DEF Init, Blame, ErrorsOfDifferentWorkers

\* What keeps the history, the deny list and the connections keeps Blame.
LEMMA BlameUnchanged ==
  ASSUME Blame,
         UNCHANGED <<systemErrors, blamed, denyListed>>,
         \A c \in Conns : sent'[c] \subseteq sent[c],
         \A c \in Conns : cpc'[c] = "handing" => cpc[c] = "handing" /\ cjob'[c] = cjob[c]
  PROVE  Blame'
<1>1. ErrorsOfDifferentWorkers'
  BY DEF Blame, ErrorsOfDifferentWorkers
<1> QED
  BY <1>1 DEF Blame

\* A connection only takes and gives back jobs of the worker it belongs to, and
\* takes none when the worker is deny listed.
LEMMA BlameConnections ==
  ASSUME TypeInv, Blame, NEW c \in Conns,
         RequestJob(c) \/ TrackJob(c)
  PROVE  Blame'
<1> USE DEF TypeInv, TypeOK, JobsAtHand, HasJob
<1>1. UNCHANGED <<systemErrors, blamed, denyListed>>
  BY DEF RequestJob, TrackJob, jobVars
<1>2. ErrorsOfDifferentWorkers'
  BY <1>1 DEF Blame, ErrorsOfDifferentWorkers
<1>3. CASE RequestJob(c)
  <2>1. c \notin denyListed /\ UNCHANGED sent
    BY <1>3 DEF RequestJob, ServesJobs
  <2>2. \A d \in Conns \ {c} : cpc'[d] = cpc[d] /\ cjob'[d] = cjob[d]
    BY <1>3 DEF RequestJob, ConnHolds
  <2> QED
    BY <1>1, <1>2, <2>1, <2>2 DEF Blame
<1>4. CASE TrackJob(c)
  <2>1. /\ cpc[c] = "handing"
        /\ sent' = [sent EXCEPT ![c] = @ \cup {cjob[c]}]
        /\ cpc' = [cpc EXCEPT ![c] = "up"]
        /\ cjob' = [cjob EXCEPT ![c] = None]
    BY <1>4 DEF TrackJob, ConnDrops
  <2> QED
    BY <1>1, <1>2, <2>1 DEF Blame
<1> QED
  BY <1>3, <1>4

\* The only step that counts an error: the worker had the job, so it was not
\* blamed for it, and is from now on.
LEMMA BlameResult ==
  ASSUME TypeInv, Blame, NEW c \in Conns, NEW j \in Jobs, NEW o \in Outcomes,
         ReceiveJobResult(c, j, o)
  PROVE  Blame'
<1> USE DEF TypeInv, TypeOK
<1>1. /\ j \in sent[c]
      /\ sent' = [sent EXCEPT ![c] = @ \ {j}]
  BY DEF ReceiveJobResult
<1>2. \A d \in Conns : cpc'[d] = "handing" => cpc[d] = "handing" /\ cjob'[d] = cjob[d]
  BY DEF ReceiveJobResult, OnReturnRemoteJob, ConnHolds
<1>3. CASE o # "systemError"
  <2>1. UNCHANGED <<systemErrors, blamed, denyListed>>
    BY <1>3 DEF ReceiveJobResult
  <2>2. \A d \in Conns : sent'[d] \subseteq sent[d]
    BY <1>1
  <2> QED
    BY <2>1, <2>2, <1>2, BlameUnchanged
<1>4. CASE o = "systemError"
  <2>1. /\ systemErrors' = [systemErrors EXCEPT ![j] = @ + 1]
        /\ blamed' = [blamed EXCEPT ![j] = @ \cup {c}]
        /\ denyListed' = denyListed \cup {c}
        /\ cpc[c] = "up"
    BY <1>4 DEF ReceiveJobResult
  <2>2. c \notin blamed[j]
    BY <1>1 DEF Blame
  <2>3. IsFiniteSet(blamed[j])
    BY FS_Subset, ConstantsAssumption DEF ConstantsAssumption
  <2>4. Cardinality(blamed[j] \cup {c}) = Cardinality(blamed[j]) + 1
    BY <2>2, <2>3, FS_AddElement
  <2>5. ErrorsOfDifferentWorkers'
    BY <2>1, <2>4 DEF Blame, ErrorsOfDifferentWorkers
  <2>6. \A k \in Jobs : blamed'[k] \subseteq denyListed'
    BY <2>1 DEF Blame
  <2>7. ASSUME NEW d \in Conns, NEW k \in Jobs,
               k \in sent'[d] \/ (cpc'[d] = "handing" /\ cjob'[d] = k)
        PROVE  d \notin blamed'[k]
    <3>1. CASE k = j
      <4>1. d # c
        BY <1>1, <1>2, <2>1, <2>7, <3>1 DEF JobsAtHand
      <4>2. k \in sent[d] \/ (cpc[d] = "handing" /\ cjob[d] = k)
        BY <1>1, <1>2, <2>7
      <4> QED
        BY <4>1, <4>2, <2>1, <3>1 DEF Blame
    <3>2. CASE k # j
      <4>1. k \in sent[d] \/ (cpc[d] = "handing" /\ cjob[d] = k)
        BY <1>1, <1>2, <2>7
      <4> QED
        BY <4>1, <2>1, <3>2 DEF Blame
    <3> QED
      BY <3>1, <3>2
  <2> QED
    BY <2>5, <2>6, <2>7 DEF Blame
<1> QED
  BY <1>3, <1>4

LEMMA BlameConnStep ==
  ASSUME TypeInv, Blame, NEW c \in Conns, ConnStep(c)
  PROVE  Blame'
<1>1. CASE RequestJob(c) \/ TrackJob(c)
  BY <1>1, BlameConnections
<1>2. CASE RemoteAnswers(c)
  BY <1>2, BlameResult DEF RemoteAnswers
<1>3. CASE \/ LocalRaceEnds(c) \/ RequeueAfterSystemError(c) \/ ProcessResult(c)
           \/ ConnFinishes(c) \/ ConnAppends(c) \/ OnDisconnected(c)
           \/ ConnectToWorker(c) \/ Disconnect(c)
  <2>1. UNCHANGED <<systemErrors, blamed, denyListed>>
    BY <1>3 DEF LocalRaceEnds, RequeueAfterSystemError, ProcessResult, ConnFinishes,
                ConnAppends, OnDisconnected, ConnectToWorker, Disconnect, jobVars
  <2>2. \A d \in Conns : sent'[d] \subseteq sent[d]
    BY <1>3 DEF LocalRaceEnds, RequeueAfterSystemError, ProcessResult, ConnFinishes,
                ConnAppends, OnDisconnected, ConnectToWorker, Disconnect, TypeInv, TypeOK
  <2>3. \A d \in Conns : cpc'[d] = "handing" => cpc[d] = "handing" /\ cjob'[d] = cjob[d]
    BY <1>3 DEF LocalRaceEnds, RequeueAfterSystemError, ProcessResult, ConnFinishes,
                ConnAppends, OnDisconnected, ConnectToWorker, Disconnect,
                ConnGoto, ConnDrops, ConnHolds, TypeInv, TypeOK
  <2> QED
    BY <2>1, <2>2, <2>3, BlameUnchanged
<1> QED
  BY <1>1, <1>2, <1>3 DEF ConnStep, ConnProceeds

LEMMA BlameStep == TypeInv /\ Blame /\ [Next]_vars => Blame'
<1> SUFFICES ASSUME TypeInv, Blame, [Next]_vars
             PROVE  Blame'
  OBVIOUS
<1>1. CASE \E c \in Conns : ConnStep(c)
  BY <1>1, BlameConnStep
<1>2. CASE \/ \E t \in Threads : ThreadStep(t)
           \/ MainStep \/ AbortBuild \/ UNCHANGED vars
  <2>1. UNCHANGED <<systemErrors, blamed, denyListed, sent, cpc, cjob>>
    <3>1. CASE \E t \in Threads : ThreadStep(t)
      BY <3>1 DEF ThreadStep, WakeThread, TakeLocalJob, TakeDistributableJob, TakeJobToRace,
                  QueueDistributableJob, BuildLocalJob, BuildDistributableJob,
                  BuildRacedJob, ThreadFinishes, ThreadAppends, jobVars, connVars
    <3>2. CASE MainStep
      BY <3>2 DEF MainStep, SwapCompletedJobs, FinalizeDone, DisposeJob, FinalizeNode,
                  BuildPass, ClientDeleted, WaitForWorkers, DestroyJobQueue,
                  jobVars, connVars
    <3>3. CASE AbortBuild \/ UNCHANGED vars
      BY <3>3 DEF AbortBuild, vars, jobVars, connVars
    <3> QED
      BY <1>2, <3>1, <3>2, <3>3
  <2> QED
    BY <2>1, BlameUnchanged
<1> QED
  BY <1>1, <1>2 DEF Next, Finished

\* Each system error counted against a job came from another worker.
THEOREM SystemErrorsAreOfDifferentWorkers == Spec => []ErrorsOfDifferentWorkers
<1>1. TypeInv /\ Blame /\ [Next]_vars => Blame'
  BY BlameStep
<1>2. Blame => ErrorsOfDifferentWorkers
  BY DEF Blame
<1> QED
  BY BlameInit, TypeInvariant, <1>1, <1>2, PTL DEF Spec
=============================================================================
