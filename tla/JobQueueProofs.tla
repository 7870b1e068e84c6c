---------------------------- MODULE JobQueueProofs ----------------------------
(***************************************************************************)
(* What the job queue promises: DistributedJobs implements JobLedger (each *)
(* job is concluded at most once, with the one result published for it),   *)
(* the concurrency groups' counts of active jobs are exact and within the  *)
(* limits, and, when races are not allowed, nothing outlives the queue and *)
(* a build stops for a cause only.  All for any number of jobs, threads and*)
(* workers.                                                                *)
(***************************************************************************)
EXTENDS JobOwnershipProofs

\* The queue has no more business with the job: it was deleted, reaped with the
\* race for it still on, or is in the main thread's hands.
Gone(j) == j \notin live \/ dist[j] = "RACE_WON_LOCALLY" \/ j = mainJob

\* A step that changes nothing of where the graph and the queue have the jobs.
SamePlaces ==
    /\ UNCHANGED <<nodeState, staging, activeJobs>>
    /\ \A j \in Jobs : Gone(j)' <=> Gone(j)

\* A step that publishes nothing and takes no result away.
SameResults ==
    \A j \in Jobs, r \in Results : PublishedAs(j, r)' <=> PublishedAs(j, r)

----------------------------------------------------------------------------
(* The ledger                                                               *)

\* What the entry of a job says.
EntriesTell ==
    \A j \in Jobs :
        /\ nodeState[j] = "DYNAMIC_DEPS" => Ledger[j] = "idle"
        /\ nodeState[j] \in {"UP_TO_DATE", "FAILED"} => Ledger[j] = nodeState[j]
        /\ nodeState[j] = "BUILDING" =>
             /\ \A r \in Results : PublishedAs(j, r) => Ledger[j] = r
             /\ (\A r \in Results : ~PublishedAs(j, r)) =>
                   Ledger[j] = IF Gone(j) /\ j \notin staging THEN "dropped" ELSE "pending"

LEMMA LedgerEntries == TypeInv /\ Ownership => EntriesTell
<1> SUFFICES ASSUME TypeInv, Ownership, NEW j \in Jobs
             PROVE  /\ nodeState[j] = "DYNAMIC_DEPS" => Ledger[j] = "idle"
                    /\ nodeState[j] \in {"UP_TO_DATE", "FAILED"} => Ledger[j] = nodeState[j]
                    /\ nodeState[j] = "BUILDING" =>
                         /\ \A r \in Results : PublishedAs(j, r) => Ledger[j] = r
                         /\ (\A r \in Results : ~PublishedAs(j, r)) =>
                               Ledger[j] = IF Gone(j) /\ j \notin staging
                                             THEN "dropped" ELSE "pending"
  BY DEF EntriesTell
<1>1. CASE nodeState[j] # "BUILDING"
  <2>1. nodeState[j] \in {"DYNAMIC_DEPS", "UP_TO_DATE", "FAILED"}
    BY <1>1 DEF TypeInv, TypeOK, NodeStates
  <2> QED
    BY <1>1, <2>1 DEF Ledger
<1>2. CASE nodeState[j] = "BUILDING"
  <2>1. ASSUME NEW r \in Results, PublishedAs(j, r)
        PROVE  Ledger[j] = r
    <3>1. \A s \in Results : PublishedAs(j, s) => s = r
      BY <2>1 DEF Ownership, OnePublication, PublishedAs
    <3>2. Ledger[j] = CHOOSE s \in Results : PublishedAs(j, s)
      BY <1>2, <2>1 DEF Ledger
    <3> QED
      BY <2>1, <3>1, <3>2
  <2>2. ASSUME \A r \in Results : ~PublishedAs(j, r)
        PROVE  Ledger[j] = IF Gone(j) /\ j \notin staging THEN "dropped" ELSE "pending"
    <3>1. Ledger[j] = IF j \notin live \cup staging \/ dist[j] = "RACE_WON_LOCALLY" \/ j = mainJob
                        THEN "dropped" ELSE "pending"
      BY <1>2, <2>2 DEF Ledger
    <3>2. j \in staging => dist[j] = "NONE" /\ j \notin live
      BY DEF Ownership, FreshJobs
    <3>3. j = mainJob => j \in live
      BY ConstantsAssumption
         DEF Ownership, UsedJobsAreLive, JobsAtHand, Published, ConstantsAssumption
    <3> QED
      BY <3>1, <3>2, <3>3 DEF Gone
  <2> QED
    BY <1>2, <2>1, <2>2
<1> QED
  BY <1>1, <1>2

\* A step that leaves the places and the results alone is none of the ledger's.
LEMMA LedgerStutters ==
  ASSUME TypeInv, TypeInv', EntriesTell, EntriesTell', SamePlaces, SameResults
  PROVE  UNCHANGED Ledger
<1>1. ASSUME NEW j \in Jobs
      PROVE  Ledger'[j] = Ledger[j]
  <2>1. nodeState'[j] = nodeState[j] /\ nodeState[j] \in NodeStates
    BY DEF SamePlaces, TypeInv, TypeOK
  <2>2. CASE nodeState[j] # "BUILDING"
    BY <2>1, <2>2 DEF EntriesTell, NodeStates
  <2>3. CASE nodeState[j] = "BUILDING" /\ \E r \in Results : PublishedAs(j, r)
    BY <2>1, <2>3 DEF EntriesTell, SameResults
  <2>4. CASE nodeState[j] = "BUILDING" /\ \A r \in Results : ~PublishedAs(j, r)
    BY <2>1, <2>4 DEF EntriesTell, SameResults, SamePlaces
  <2> QED
    BY <2>2, <2>3, <2>4
<1>2. Ledger' = [j \in Jobs |-> Ledger'[j]] /\ Ledger = [j \in Jobs |-> Ledger[j]]
  BY DEF Ledger
<1> QED
  BY <1>1, <1>2

----------------------------------------------------------------------------
(* Worker threads and connections                                           *)

\* What leaves the states of the jobs alone, or changes the one of a job whose
\* race was not reaped into another such, keeps the places.
LEMMA PlacesStay ==
  ASSUME TypeInv, UNCHANGED <<nodeState, staging, activeJobs, mainJob>>,
         \A j \in Jobs : dist'[j] = "RACE_WON_LOCALLY" <=> dist[j] = "RACE_WON_LOCALLY",
         live' \subseteq live,
         \A j \in live \ live' : dist[j] = "RACE_WON_LOCALLY"
  PROVE  SamePlaces
  BY DEF SamePlaces, Gone

LEMMA ThreadKeepsPlaces ==
  ASSUME TypeInv, Ownership, NEW t \in Threads, ThreadStep(t)
  PROVE  SamePlaces
<1> USE DEF TypeInv, TypeOK
<1>1. UNCHANGED <<nodeState, staging, activeJobs, mainJob, live>>
  BY DEF ThreadStep, WakeThread, TakeLocalJob, TakeDistributableJob, TakeJobToRace,
         QueueDistributableJob, BuildLocalJob, BuildDistributableJob,
         BuildRacedJob, ThreadFinishes, ThreadAppends, batchVars, mainVars
<1>2. \A j \in Jobs : dist'[j] = "RACE_WON_LOCALLY" <=> dist[j] = "RACE_WON_LOCALLY"
  <2>1. CASE \/ WakeThread(t) \/ TakeLocalJob(t) \/ ThreadAppends(t)
             \/ \E r \in Results : \/ BuildLocalJob(t, r) \/ BuildDistributableJob(t, r)
                                   \/ BuildRacedJob(t, r)
    BY <2>1 DEF WakeThread, TakeLocalJob, BuildLocalJob, BuildDistributableJob, BuildRacedJob,
                ThreadAppends
  <2>2. CASE TakeDistributableJob(t)
    BY <2>2 DEF TakeDistributableJob, TakeDistributable, Ownership, QueuedJobs
  <2>3. CASE TakeJobToRace(t)
    BY <2>3 DEF TakeJobToRace, Raceable
  <2>4. CASE QueueDistributableJob(t)
    BY <2>4 DEF QueueDistributableJob, Ownership, ThreadJobs
  <2>5. CASE ThreadFinishes(t)
    <3>1. dist[tjob[t]] \in LocalStates
      BY <2>5 DEF ThreadFinishes, Ownership, ThreadJobs, Building
    <3> QED
      BY <2>5, <3>1 DEF ThreadFinishes, FinishInProgress, AllowRemoteToWin, LocalStates
  <2> QED
    BY <2>1, <2>2, <2>3, <2>4, <2>5 DEF ThreadStep
<1> QED
  BY <1>1, <1>2, PlacesStay

LEMMA ConnKeepsPlaces ==
  ASSUME TypeInv, Ownership, NEW c \in Conns, ConnStep(c)
  PROVE  SamePlaces
<1> USE DEF TypeInv, TypeOK
<1>1. UNCHANGED <<nodeState, staging, activeJobs, mainJob>>
  BY DEF ConnStep, ConnProceeds, RemoteAnswers, TrackJob, LocalRaceEnds,
         RequeueAfterSystemError, ProcessResult, ConnFinishes, ConnAppends, OnDisconnected,
         ReceiveJobResult, ConnectToWorker, RequestJob, Disconnect, batchVars, mainVars
<1>2. ASSUME NEW j \in Jobs, ReturnUnfinished(j)
      PROVE  SamePlaces
  BY <1>1, <1>2, PlacesStay DEF ReturnUnfinished
<1>3. CASE \/ TrackJob(c) \/ LocalRaceEnds(c) \/ ProcessResult(c) \/ ConnAppends(c)
           \/ ConnectToWorker(c) \/ Disconnect(c)
  <2>1. UNCHANGED <<dist, live>>
    BY <1>3 DEF TrackJob, LocalRaceEnds, ProcessResult, ConnAppends, ConnectToWorker, Disconnect
  <2> QED
    BY <1>1, <2>1, PlacesStay
<1>4. CASE RequestJob(c)
  <2>1. /\ live' = live
        /\ \A j \in Jobs : dist'[j] = "RACE_WON_LOCALLY" <=> dist[j] = "RACE_WON_LOCALLY"
    BY <1>4 DEF RequestJob, TakeDistributable, Ownership, QueuedJobs
  <2> QED
    BY <1>1, <2>1, PlacesStay
<1>5. CASE RemoteAnswers(c)
  <2>1. PICK j \in Jobs, o \in Outcomes : ReceiveJobResult(c, j, o)
    BY <1>5 DEF RemoteAnswers
  <2>2. OnReturnRemoteJob(c, j, o)
    BY <2>1 DEF ReceiveJobResult
  <2>3. \/ dist[j] = "RACE_WON_LOCALLY" /\ dist' = dist /\ live' = live \ {j}
        \/ /\ dist[j] # "RACE_WON_LOCALLY" /\ live' = live
           /\ \E s \in DistStates \ {"RACE_WON_LOCALLY"} : dist' = [dist EXCEPT ![j] = s]
    BY <2>2 DEF OnReturnRemoteJob, DistStates
  <2> QED
    BY <1>1, <2>3, PlacesStay
<1>6. CASE RequeueAfterSystemError(c)
  BY <1>2, <1>6 DEF RequeueAfterSystemError, Ownership, JobsAtHand, HasJob, Owning
<1>7. CASE ConnFinishes(c)
  <2>1. dist[cjob[c]] \in RemoteResultStates
    BY <1>7 DEF ConnFinishes, Ownership, OwnedJobs, Owning
  <2>2. /\ live' = live
        /\ \A j \in Jobs : dist'[j] = "RACE_WON_LOCALLY" <=> dist[j] = "RACE_WON_LOCALLY"
    BY <1>7, <2>1
       DEF ConnFinishes, FinishInProgress, LocalWasCancelled, RemoteResultStates
  <2> QED
    BY <1>1, <2>2, PlacesStay
<1>8. CASE OnDisconnected(c)
  <2>1. CASE \E j \in sent[c] : ReturnUnfinished(j)
    BY <1>2, <2>1
  <2>2. CASE UNCHANGED <<dist, live>>
    BY <1>1, <2>2, PlacesStay
  <2> QED
    BY <1>8, <2>1, <2>2 DEF OnDisconnected
<1> QED
  BY <1>3, <1>4, <1>5, <1>6, <1>7, <1>8 DEF ConnStep, ConnProceeds

\* A result is published for a pending job, and for no other.
LEMMA AppendIsPublish ==
  ASSUME TypeInv, TypeInv', Ownership, EntriesTell, EntriesTell', SamePlaces,
         NEW j \in Jobs \ Published, NEW r \in Results,
         nodeState[j] = "BUILDING", j \in live, dist[j] # "RACE_WON_LOCALLY",
         AppendCompleted(j, r), UNCHANGED reaped
  PROVE  JobLedger!Publish(j, r)
<1> USE DEF TypeInv, TypeOK
<1>1. \A k \in Jobs, s \in Results : PublishedAs(k, s)' <=> PublishedAs(k, s) \/ (k = j /\ s = r)
  BY DEF AppendCompleted, PublishedAs
<1>2. ~Gone(j) /\ \A s \in Results : ~PublishedAs(j, s)
  <2>1. j # mainJob
    BY ConstantsAssumption DEF Published, Ownership, JobsAtHand, ConstantsAssumption
  <2> QED
    BY <2>1 DEF Gone, Published, PublishedAs
<1>3. Ledger[j] = "pending" /\ Ledger'[j] = r
  <2>1. nodeState'[j] = "BUILDING" /\ PublishedAs(j, r)'
    BY <1>1 DEF SamePlaces
  <2> QED
    BY <1>2, <2>1 DEF EntriesTell
<1>4. ASSUME NEW k \in Jobs, k # j
      PROVE  Ledger'[k] = Ledger[k]
  <2>1. nodeState'[k] = nodeState[k] /\ nodeState[k] \in NodeStates
    BY DEF SamePlaces
  <2>2. \A s \in Results : PublishedAs(k, s)' <=> PublishedAs(k, s)
    BY <1>1, <1>4
  <2>3. CASE nodeState[k] # "BUILDING"
    BY <2>1, <2>3 DEF EntriesTell, NodeStates
  <2>4. CASE nodeState[k] = "BUILDING" /\ \E s \in Results : PublishedAs(k, s)
    BY <2>1, <2>2, <2>4 DEF EntriesTell
  <2>5. CASE nodeState[k] = "BUILDING" /\ \A s \in Results : ~PublishedAs(k, s)
    BY <2>1, <2>2, <2>5 DEF EntriesTell, SamePlaces
  <2> QED
    BY <2>3, <2>4, <2>5
<1>5. Ledger' = [k \in Jobs |-> IF k \in {j} THEN r ELSE Ledger[k]]
  <2>1. Ledger' = [k \in Jobs |-> Ledger'[k]]
    BY DEF Ledger
  <2> QED
    BY <1>3, <1>4, <2>1
<1> QED
  BY <1>3, <1>5 DEF JobLedger!Publish, JobLedger!MoveAll, JobLedger!Published, Results

----------------------------------------------------------------------------
(* The main thread                                                          *)

\* Steps between those that the graph can tell.
LEMMA MainKeepsPlaces ==
  ASSUME TypeInv, Ownership,
         SwapCompletedJobs \/ FinalizeDone \/ DisposeJob \/ ClientDeleted \/ WaitForWorkers
  PROVE  SamePlaces /\ SameResults
<1> USE DEF TypeInv, TypeOK, listVars, batchVars
<1>1. CASE FinalizeDone \/ ClientDeleted \/ WaitForWorkers
  <2>1. UNCHANGED <<nodeState, staging, activeJobs, mainJob, dist, live, completed, reaped>>
    BY <1>1 DEF FinalizeDone, ClientDeleted, WaitForWorkers, MainGoto
  <2> QED
    BY <2>1 DEF SamePlaces, SameResults, Gone, PublishedAs
<1>2. CASE SwapCompletedJobs
  <2>1. SamePlaces
    BY <1>2 DEF SwapCompletedJobs, MainGoto, SamePlaces, Gone
  <2>2. reaped = NoJobs /\ reaped' = completed /\ completed' = NoJobs
    BY <1>2 DEF SwapCompletedJobs, Ownership, OnePublication
  <2> QED
    BY <2>1, <2>2 DEF SameResults, PublishedAs, NoJobs
<1>3. CASE DisposeJob
  <2>1. UNCHANGED <<nodeState, staging, activeJobs, completed, reaped>> /\ mainJob' = None
    BY <1>3 DEF DisposeJob
  <2>2. mainJob \in Jobs /\ None \notin Jobs
    BY <1>3, ConstantsAssumption DEF DisposeJob, Ownership, JobsAtHand, ConstantsAssumption
  <2>3. \/ live' = live \ {mainJob} /\ dist' = dist
        \/ live' = live /\ dist' = [dist EXCEPT ![mainJob] = "RACE_WON_LOCALLY"]
    BY <1>3 DEF DisposeJob
  <2>4. \A j \in Jobs : Gone(j)' <=> Gone(j)
    BY <2>1, <2>2, <2>3 DEF Gone
  <2> QED
    BY <2>1, <2>4 DEF SamePlaces, SameResults, PublishedAs
<1> QED
  BY <1>1, <1>2, <1>3

\* A job is finalized with the result published for it, and not again.
LEMMA FinalizeConcludes ==
  ASSUME TypeInv, TypeInv', Ownership, Ownership', EntriesTell, EntriesTell',
         NEW j \in Jobs, NEW r \in Results, FinalizeNode(j, r)
  PROVE  JobLedger!Conclude(j)
<1> USE DEF TypeInv, TypeOK
<1>1. PICK s \in FinalState(r) : nodeState' = [nodeState EXCEPT ![j] = s]
  BY DEF FinalizeNode
<1>2. /\ main = "finalize" /\ main' = "dispose" /\ mainJob = None /\ mainJob' = j
      /\ j \in reaped[r] /\ reaped' = [reaped EXCEPT ![r] = @ \ {j}]
      /\ UNCHANGED <<staging, completed, dist, live>>
  BY DEF FinalizeNode, Ownership, JobsAtHand
<1>3. nodeState[j] = "BUILDING"
  <2>1. j \in Published /\ mainJob # j
    BY <1>2, ConstantsAssumption DEF Published, ConstantsAssumption
  <2> QED
    BY <2>1 DEF Ownership, UsedJobsAreBuilding
<1>4. Ledger[j] = r
  BY <1>2, <1>3 DEF EntriesTell, PublishedAs
<1>5. \A q \in Results : ~PublishedAs(j, q)'
  BY <1>2 DEF Ownership, OnePublication, PublishedAs
<1>6. Ledger'[j] = IF s = "BUILDING" THEN "dropped" ELSE s
  <2>1. nodeState'[j] = s /\ Gone(j)' /\ j \notin staging'
    BY <1>1, <1>2 DEF Gone, Ownership, FreshJobs, UsedJobsAreLive, Published
  <2>2. s \in {"UP_TO_DATE", "FAILED", "BUILDING"}
    BY <1>1 DEF FinalState, Results
  <2> QED
    BY <1>5, <2>1, <2>2 DEF EntriesTell
<1>7. ASSUME NEW k \in Jobs, k # j
      PROVE  Ledger'[k] = Ledger[k]
  <2>1. nodeState'[k] = nodeState[k] /\ nodeState[k] \in NodeStates
    BY <1>1, <1>7
  <2>2. \A q \in Results : PublishedAs(k, q)' <=> PublishedAs(k, q)
    BY <1>2, <1>7 DEF PublishedAs
  <2>3. Gone(k)' <=> Gone(k)
    BY <1>2, <1>7, ConstantsAssumption DEF Gone, ConstantsAssumption
  <2>4. CASE nodeState[k] # "BUILDING"
    BY <2>1, <2>4 DEF EntriesTell, NodeStates
  <2>5. CASE nodeState[k] = "BUILDING" /\ \E q \in Results : PublishedAs(k, q)
    BY <2>1, <2>2, <2>5 DEF EntriesTell
  <2>6. CASE nodeState[k] = "BUILDING" /\ \A q \in Results : ~PublishedAs(k, q)
    BY <1>2, <2>1, <2>2, <2>3, <2>6 DEF EntriesTell
  <2> QED
    BY <2>4, <2>5, <2>6
<1>8. Ledger' = [k \in Jobs |-> IF k \in {j} THEN Ledger'[j] ELSE Ledger[k]]
  <2>1. Ledger' = [k \in Jobs |-> Ledger'[k]]
    BY DEF Ledger
  <2> QED
    BY <1>7, <2>1
<1>9. CASE r = "eOk"
  <2>1. s \in {"UP_TO_DATE", "FAILED"}
    BY <1>9 DEF FinalState
  <2> QED
    BY <1>4, <1>6, <1>8, <1>9, <2>1 DEF JobLedger!Conclude, JobLedger!MoveAll
<1>10. CASE r = "eFailed"
  <2>1. s = "FAILED"
    BY <1>10 DEF FinalState
  <2> QED
    BY <1>4, <1>6, <1>8, <1>10, <2>1 DEF JobLedger!Conclude, JobLedger!MoveAll
<1>11. CASE r = "eAborted"
  <2>1. s = "BUILDING"
    BY <1>11 DEF FinalState
  <2> QED
    BY <1>4, <1>6, <1>8, <1>11, <2>1 DEF JobLedger!Conclude, JobLedger!MoveAll
<1> QED
  BY <1>9, <1>10, <1>11 DEF Results

\* What a build pass hands over was not worked on before.
LEMMA BatchIsFresh ==
  ASSUME TypeInv, Ownership, main = "pass", NEW j \in staging \cup Ready
  PROVE  j \in Jobs /\ j \notin live /\ dist[j] = "NONE" /\ j # mainJob
<1>1. j \in Jobs /\ (nodeState[j] = "DYNAMIC_DEPS" \/ j \in staging)
  BY DEF TypeInv, TypeOK, Ready, In
<1> QED
  BY <1>1, ConstantsAssumption
     DEF Ownership, FreshJobs, JobsAtHand, ConstantsAssumption

LEMMA PassIsBuildPass ==
  ASSUME TypeInv, TypeInv', Ownership, Ownership', EntriesTell, EntriesTell', BuildPass
  PROVE  JobLedger!BuildPass(Ready, Doomed)
<1> USE DEF TypeInv, TypeOK
<1>1. PICK flush \in SUBSET (staging \cup Ready) :
        /\ staging' = (staging \cup Ready) \ flush
        /\ live' = live \cup flush
  BY DEF BuildPass
<1>2. /\ main = "pass" /\ mainJob' = mainJob
      /\ nodeState' = [j \in Jobs |-> IF j \in Ready THEN "BUILDING"
                                      ELSE IF j \in Doomed THEN "FAILED" ELSE nodeState[j]]
      /\ UNCHANGED <<dist, completed, reaped>>
  BY DEF BuildPass, MainGoto, listVars
<1>3. Ready \subseteq Jobs /\ Doomed \subseteq Jobs /\ Ready \cap Doomed = {}
  <2>1. Ready \subseteq Jobs /\ Doomed \subseteq Jobs
    BY DEF Ready, Doomed, Blocked, In
  <2>2. ASSUME NEW j \in Ready, j \in Doomed
        PROVE  FALSE
    <3>1. PICK k \in DependsOn[j] : k \in In("FAILED")
      BY <2>2 DEF Doomed, Blocked
    <3>2. k \in In("UP_TO_DATE")
      BY DEF Ready
    <3> QED
      BY <3>1, <3>2 DEF In
  <2> QED
    BY <2>1, <2>2
<1>4. \A j \in Ready \cup Doomed : Ledger[j] = "idle"
  BY <1>3 DEF EntriesTell, Ready, Doomed, Blocked, In
<1>5. ASSUME NEW j \in Ready
      PROVE  Ledger'[j] = "pending"
  <2>1. j \in Jobs /\ nodeState[j] = "DYNAMIC_DEPS" /\ nodeState'[j] = "BUILDING"
    BY <1>2, <1>3 DEF Ready, In
  <2>2. \A r \in Results : ~PublishedAs(j, r)'
    <3>1. j # mainJob
      BY <1>2, BatchIsFresh
    <3>2. j \notin Published
      BY <2>1, <3>1 DEF Ownership, UsedJobsAreBuilding
    <3> QED
      BY <1>2, <2>1, <3>2 DEF Published, PublishedAs
  <2>3. ~Gone(j)' \/ j \in staging'
    BY <1>1, <1>2, BatchIsFresh DEF Gone
  <2> QED
    BY <2>1, <2>2, <2>3 DEF EntriesTell
<1>6. ASSUME NEW j \in Doomed
      PROVE  Ledger'[j] = "FAILED"
  BY <1>2, <1>3 DEF EntriesTell
<1>7. ASSUME NEW j \in Jobs, j \notin Ready \cup Doomed
      PROVE  Ledger'[j] = Ledger[j]
  <2>1. nodeState'[j] = nodeState[j] /\ nodeState[j] \in NodeStates
    BY <1>2, <1>7
  <2>2. \A r \in Results : PublishedAs(j, r)' <=> PublishedAs(j, r)
    BY <1>2 DEF PublishedAs
  <2>3. (Gone(j) /\ j \notin staging)' <=> (Gone(j) /\ j \notin staging)
    BY <1>1, <1>2, <1>7, BatchIsFresh DEF Gone
  <2>4. CASE nodeState[j] # "BUILDING"
    BY <2>1, <2>4 DEF EntriesTell, NodeStates
  <2>5. CASE nodeState[j] = "BUILDING" /\ \E r \in Results : PublishedAs(j, r)
    BY <2>1, <2>2, <2>5 DEF EntriesTell
  <2>6. CASE nodeState[j] = "BUILDING" /\ \A r \in Results : ~PublishedAs(j, r)
    BY <2>1, <2>2, <2>3, <2>6 DEF EntriesTell
  <2> QED
    BY <2>4, <2>5, <2>6
<1>8. Ledger' = [j \in Jobs |-> IF j \in Ready THEN "pending"
                                ELSE IF j \in Doomed THEN "FAILED" ELSE Ledger[j]]
  <2>1. Ledger' = [j \in Jobs |-> Ledger'[j]]
    BY DEF Ledger
  <2> QED
    BY <1>5, <1>6, <1>7, <2>1
<1> QED
  BY <1>4, <1>8 DEF JobLedger!BuildPass

\* The jobs that are deleted with the queue have no result.
LEMMA DestroyIsDiscard ==
  ASSUME TypeInv, TypeInv', Ownership, Ownership', EntriesTell, EntriesTell', DestroyJobQueue
  PROVE  JobLedger!Discard(UntakenJobs)
<1> USE DEF TypeInv, TypeOK
<1>1. /\ live' = live \ UntakenJobs /\ mainJob' = mainJob /\ mainJob = None
      /\ UNCHANGED <<nodeState, dist, staging, completed, reaped>>
  BY DEF DestroyJobQueue, MainGoto, batchVars, listVars, Ownership, JobsAtHand
<1>2. \A j \in Jobs, r \in Results : PublishedAs(j, r)' <=> PublishedAs(j, r)
  BY <1>1 DEF PublishedAs
<1>3. ASSUME NEW j \in UntakenJobs
      PROVE  /\ j \in Jobs /\ j \in live /\ j \notin staging /\ nodeState[j] = "BUILDING"
             /\ dist[j] # "RACE_WON_LOCALLY" /\ j # mainJob
             /\ \A r \in Results : ~PublishedAs(j, r)
  <2>1. j \in Jobs /\ j \in live /\ nodeState[j] = "BUILDING"
    BY DEF UntakenJobs, Ownership, UsedJobsAreLive, UsedJobsAreBuilding
  <2>2. dist[j] \in {"NONE", "AVAILABLE"} /\ j \notin Published
    <3>1. CASE j \in localQueue
      BY <3>1 DEF Ownership, QueuedJobs
    <3>2. CASE j \in available
      BY <3>2 DEF Ownership, QueuedJobs, PublishedJobs, LocalStates, RemoteResultStates
    <3> QED
      BY <3>1, <3>2 DEF UntakenJobs
  <2> QED
    BY <1>1, <2>1, <2>2, ConstantsAssumption
       DEF Ownership, FreshJobs, Published, PublishedAs, ConstantsAssumption
<1>4. \A j \in UntakenJobs : Ledger[j] = "pending" /\ Ledger'[j] = "dropped"
  BY <1>1, <1>2, <1>3 DEF EntriesTell, Gone
<1>5. ASSUME NEW j \in Jobs, j \notin UntakenJobs
      PROVE  Ledger'[j] = Ledger[j]
  <2>1. nodeState'[j] = nodeState[j] /\ nodeState[j] \in NodeStates
    BY <1>1
  <2>2. Gone(j)' <=> Gone(j)
    BY <1>1, <1>5 DEF Gone
  <2>3. CASE nodeState[j] # "BUILDING"
    BY <2>1, <2>3 DEF EntriesTell, NodeStates
  <2>4. CASE nodeState[j] = "BUILDING" /\ \E r \in Results : PublishedAs(j, r)
    BY <1>2, <2>1, <2>4 DEF EntriesTell
  <2>5. CASE nodeState[j] = "BUILDING" /\ \A r \in Results : ~PublishedAs(j, r)
    BY <1>1, <1>2, <2>1, <2>2, <2>5 DEF EntriesTell
  <2> QED
    BY <2>3, <2>4, <2>5
<1>6. Ledger' = [j \in Jobs |-> IF j \in UntakenJobs THEN "dropped" ELSE Ledger[j]]
  <2>1. Ledger' = [j \in Jobs |-> Ledger'[j]]
    BY DEF Ledger
  <2> QED
    BY <1>4, <1>5, <2>1
<1> QED
  BY <1>4, <1>6 DEF JobLedger!Discard, JobLedger!MoveAll

----------------------------------------------------------------------------
(* The refinement                                                           *)

LEMMA ThreadStepIsLedgerStep ==
  ASSUME TypeInv, TypeInv', Ownership, EntriesTell, EntriesTell',
         NEW t \in Threads, ThreadStep(t)
  PROVE  JobLedger!Next \/ UNCHANGED Ledger
<1> USE DEF TypeInv, TypeOK
<1>1. CASE ThreadAppends(t)
  <2>1. /\ tjob[t] \in Jobs \ Published /\ tjob[t] \in live /\ nodeState[tjob[t]] = "BUILDING"
        /\ dist[tjob[t]] # "RACE_WON_LOCALLY"
    BY <1>1 DEF ThreadAppends, Ownership, JobsAtHand, ThreadJobs, UsedJobsAreLive,
                UsedJobsAreBuilding, Busy, LocalStates
  <2>2. AppendCompleted(tjob[t], tres[t]) /\ UNCHANGED reaped
    BY <1>1 DEF ThreadAppends
  <2>3. JobLedger!Publish(tjob[t], tres[t])
    BY <2>1, <2>2, ThreadKeepsPlaces, AppendIsPublish
  <2>4. tres[t] \in JobLedger!Published
    BY DEF Results, JobLedger!Published
  <2> QED
    BY <2>1, <2>3, <2>4 DEF JobLedger!Next
<1>2. CASE ~ThreadAppends(t)
  <2>1. UNCHANGED <<completed, reaped>>
    BY <1>2 DEF ThreadStep, WakeThread, TakeLocalJob, TakeDistributableJob, TakeJobToRace,
         QueueDistributableJob, BuildLocalJob, BuildDistributableJob,
         BuildRacedJob, ThreadFinishes, listVars
  <2>2. SameResults
    BY <2>1 DEF SameResults, PublishedAs
  <2> QED
    BY <2>2, ThreadKeepsPlaces, LedgerStutters
<1> QED
  BY <1>1, <1>2

LEMMA ConnStepIsLedgerStep ==
  ASSUME TypeInv, TypeInv', Ownership, EntriesTell, EntriesTell',
         NEW c \in Conns, ConnStep(c)
  PROVE  JobLedger!Next \/ UNCHANGED Ledger
<1> USE DEF TypeInv, TypeOK
<1>1. CASE ConnAppends(c)
  <2>1. /\ cjob[c] \in Jobs \ Published /\ cjob[c] \in live /\ nodeState[cjob[c]] = "BUILDING"
        /\ dist[cjob[c]] # "RACE_WON_LOCALLY" /\ cres[c] \in Results
    BY <1>1 DEF ConnAppends, Ownership, JobsAtHand, OwnedJobs, UsedJobsAreLive,
                UsedJobsAreBuilding, HasJob, Waiting, Owning, RemoteResultStates, Outcomes, Results
  <2>2. AppendCompleted(cjob[c], cres[c]) /\ UNCHANGED reaped
    BY <1>1 DEF ConnAppends
  <2>3. JobLedger!Publish(cjob[c], cres[c])
    BY <2>1, <2>2, ConnKeepsPlaces, AppendIsPublish
  <2>4. cres[c] \in JobLedger!Published
    BY <2>1 DEF Results, JobLedger!Published
  <2> QED
    BY <2>1, <2>3, <2>4 DEF JobLedger!Next
<1>2. CASE ~ConnAppends(c)
  <2>1. UNCHANGED <<completed, reaped>>
    BY <1>2 DEF ConnStep, ConnProceeds, RemoteAnswers, TrackJob, LocalRaceEnds,
         RequeueAfterSystemError, ProcessResult, ConnFinishes, OnDisconnected,
         ReceiveJobResult, ConnectToWorker, RequestJob, Disconnect, listVars
  <2>2. SameResults
    BY <2>1 DEF SameResults, PublishedAs
  <2> QED
    BY <2>2, ConnKeepsPlaces, LedgerStutters
<1> QED
  BY <1>1, <1>2

LEMMA MainStepIsLedgerStep ==
  ASSUME TypeInv, TypeInv', Ownership, Ownership', EntriesTell, EntriesTell', MainStep
  PROVE  JobLedger!Next \/ UNCHANGED Ledger
<1>1. CASE SwapCompletedJobs \/ FinalizeDone \/ DisposeJob \/ ClientDeleted \/ WaitForWorkers
  BY <1>1, MainKeepsPlaces, LedgerStutters
<1>2. CASE \E j \in Jobs, r \in Results : FinalizeNode(j, r)
  BY <1>2, FinalizeConcludes DEF JobLedger!Next
<1>3. CASE BuildPass
  <2>1. Ready \in SUBSET Jobs /\ Doomed \in SUBSET Jobs
    BY DEF Ready, Doomed, Blocked, In
  <2> QED
    BY <1>3, <2>1, PassIsBuildPass DEF JobLedger!Next
<1>4. CASE DestroyJobQueue
  <2>1. UntakenJobs \in SUBSET Jobs
    BY DEF UntakenJobs, TypeInv, TypeOK
  <2> QED
    BY <1>4, <2>1, DestroyIsDiscard DEF JobLedger!Next
<1> QED
  BY <1>1, <1>2, <1>3, <1>4 DEF MainStep

LEMMA LedgerStep ==
  /\ TypeInv /\ TypeInv' /\ Ownership /\ Ownership' /\ EntriesTell /\ EntriesTell'
  /\ [Next]_vars
  => [JobLedger!Next]_Ledger
<1> SUFFICES ASSUME TypeInv, TypeInv', Ownership, Ownership', EntriesTell, EntriesTell',
                    [Next]_vars
             PROVE  JobLedger!Next \/ UNCHANGED Ledger
  OBVIOUS
<1>1. CASE \E t \in Threads : ThreadStep(t)
  BY <1>1, ThreadStepIsLedgerStep
<1>2. CASE \E c \in Conns : ConnStep(c)
  BY <1>2, ConnStepIsLedgerStep
<1>3. CASE MainStep
  BY <1>3, MainStepIsLedgerStep
<1>4. CASE AbortBuild \/ UNCHANGED vars
  <2>1. UNCHANGED <<nodeState, staging, activeJobs, mainJob, live, dist, completed, reaped>>
    BY <1>4 DEF AbortBuild, vars, batchVars, listVars, mainVars
  <2>2. SamePlaces /\ SameResults
    BY <2>1 DEF SamePlaces, SameResults, Gone, PublishedAs
  <2> QED
    BY <2>2, LedgerStutters
<1> QED
  BY <1>1, <1>2, <1>3, <1>4 DEF Next, Finished

\* Each job is concluded at most once, with the one result published for it,
\* however many threads and workers were given the job and whoever won.
THEOREM JobsAreConcludedOnce == Spec => ConcludedOnce
<1>1. Init => JobLedger!Init
  BY DEF Init, Ledger, JobLedger!Init
<1>2. TypeInv /\ Ownership => EntriesTell
  BY LedgerEntries
<1> QED
  BY OwnershipCorrect, TypeInvariant, <1>1, <1>2, LedgerStep, PTL
     DEF Spec, ConcludedOnce, JobLedger!Spec

----------------------------------------------------------------------------
(* Concurrency groups                                                       *)

\* The jobs that count in a group are those in it that are not gone.
LEMMA UnfinishedJobs ==
  ASSUME TypeInv, NEW g
  PROVE  /\ Unfinished(g) = {j \in Jobs : Group[j] = g /\ ~Gone(j)}
         /\ IsFiniteSet(Unfinished(g))
<1>1. Unfinished(g) = {j \in Jobs : Group[j] = g /\ ~Gone(j)}
  BY DEF Unfinished, InGroup, Gone, TypeInv, TypeOK
<1>2. Unfinished(g) \in SUBSET Jobs
  BY <1>1
<1> QED
  BY <1>1, <1>2, FS_Subset, ConstantsAssumption DEF ConstantsAssumption

\* The same in the state after a step.
LEMMA UnfinishedJobsNext ==
  ASSUME TypeInv', NEW g
  PROVE  Unfinished(g)' = {j \in Jobs : Group[j] = g /\ ~Gone(j)'}
BY DEF Unfinished, InGroup, Gone, TypeInv, TypeOK

LEMMA GroupsStay ==
  ASSUME TypeInv, TypeInv', GroupsWithinLimit, SamePlaces, main # "done" \/ main' = main
  PROVE  GroupsWithinLimit'
<1>1. ASSUME NEW g \in DOMAIN activeJobs
      PROVE  Unfinished(g)' = Unfinished(g)
  BY UnfinishedJobs, UnfinishedJobsNext DEF SamePlaces
<1> QED
  BY <1>1 DEF GroupsWithinLimit, SamePlaces

\* A finalized job leaves its group.
LEMMA FinalizeCounts ==
  ASSUME TypeInv, TypeInv', Ownership, GroupsWithinLimit,
         NEW j \in Jobs, NEW r \in Results, FinalizeNode(j, r)
  PROVE  GroupsWithinLimit'
<1>1. /\ main = "finalize" /\ main' = "dispose" /\ mainJob = None /\ mainJob' = j
      /\ activeJobs' = [activeJobs EXCEPT ![Group[j]] = @ - 1]
      /\ j \in reaped[r] /\ UNCHANGED <<dist, live>>
  BY DEF FinalizeNode, Ownership, JobsAtHand
<1>2. activeJobs \in [{Group[k] : k \in Jobs} -> Int]
  BY DEF TypeInv, TypeOK
<1>3. ~Gone(j)
  <2>1. j \in Published
    BY <1>1 DEF Published
  <2>2. j \in live /\ dist[j] # "RACE_WON_LOCALLY"
    BY <2>1 DEF Ownership, UsedJobsAreLive, PublishedJobs, LocalStates, RemoteResultStates
  <2> QED
    BY <1>1, <2>2, ConstantsAssumption DEF Gone, ConstantsAssumption
<1>4. \A k \in Jobs : Gone(k)' <=> Gone(k) \/ k = j
  BY <1>1, ConstantsAssumption DEF Gone, ConstantsAssumption
<1>5. ASSUME NEW g \in DOMAIN activeJobs
      PROVE  /\ activeJobs'[g] = Cardinality(Unfinished(g)')
             /\ activeJobs'[g] <= activeJobs[g]
  <2>1. Unfinished(g)' = {k \in Jobs : Group[k] = g /\ ~Gone(k) /\ k # j}
    BY <1>4, UnfinishedJobsNext
  <2>2. activeJobs[g] = Cardinality(Unfinished(g)) /\ activeJobs[g] \in Int
    BY <1>1, <1>2 DEF GroupsWithinLimit
  <2>3. CASE g = Group[j]
    <3>1. j \in Unfinished(g) /\ Unfinished(g)' = Unfinished(g) \ {j}
      BY <1>3, <2>1, <2>3, UnfinishedJobs
    <3>2. Cardinality(Unfinished(g)') = Cardinality(Unfinished(g)) - 1
      BY <3>1, UnfinishedJobs, FS_RemoveElement
    <3> QED
      BY <1>1, <1>2, <2>2, <2>3, <3>2
  <2>4. CASE g # Group[j]
    <3>1. Unfinished(g)' = Unfinished(g)
      BY <2>1, <2>4, UnfinishedJobs
    <3> QED
      BY <1>1, <1>2, <2>2, <2>4, <3>1
  <2> QED
    BY <2>3, <2>4
<1>6. DOMAIN activeJobs' = DOMAIN activeJobs
  BY <1>1
<1>7. ASSUME NEW g \in DOMAIN activeJobs
      PROVE  GroupLimit[g] < Cardinality(Threads) => activeJobs'[g] <= GroupLimit[g]
  <2>1. GroupLimit[g] \in Nat /\ activeJobs[g] \in Int /\ activeJobs'[g] \in Int
    BY <1>1, <1>2, ConstantsAssumption DEF ConstantsAssumption
  <2> QED
    BY <1>5, <2>1 DEF GroupsWithinLimit
<1> QED
  BY <1>5, <1>6, <1>7 DEF GroupsWithinLimit

\* FlushJobBatch hands over no more jobs of a group than there is room for.
LEMMA FlushLeavesRoom ==
  ASSUME TypeInv, GroupsWithinLimit, NEW g \in DOMAIN activeJobs,
         NEW staged \in SUBSET Jobs, NEW flush \in SUBSET staged, Flushable(flush, staged),
         GroupLimit[g] < Cardinality(Threads)
  PROVE  activeJobs[g] + Cardinality(InGroup(flush, g)) <= GroupLimit[g]
<1> DEFINE S == InGroup(staged, g)
           F == InGroup(flush, g)
<1>1. /\ Cardinality(S) \in Nat /\ Cardinality(F) \in Nat
      /\ Cardinality(F) <= Cardinality(S)
  <2>1. S \in SUBSET Jobs /\ F \in SUBSET S
    BY DEF InGroup
  <2>2. IsFiniteSet(S)
    BY <2>1, FS_Subset, ConstantsAssumption DEF ConstantsAssumption
  <2> QED
    BY <2>1, <2>2, FS_Subset, FS_CardinalityType
<1>2. /\ activeJobs[g] \in Int /\ GroupLimit[g] \in Nat /\ Cardinality(Threads) \in Nat
      /\ activeJobs[g] <= GroupLimit[g]
  <2>1. Cardinality(Threads) \in Nat
    BY FS_CardinalityType, ConstantsAssumption DEF ConstantsAssumption
  <2> QED
    BY <2>1, ConstantsAssumption DEF TypeInv, TypeOK, GroupsWithinLimit, ConstantsAssumption
<1>3. Room(g, S) = IF activeJobs[g] >= GroupLimit[g] THEN 0 ELSE GroupLimit[g] - activeJobs[g]
  BY <1>2 DEF Room
<1>4. IF Room(g, S) >= Cardinality(S) THEN F = S ELSE Cardinality(F) = Room(g, S)
  BY DEF Flushable
<1> HIDE DEF S, F
<1>5. Cardinality(F) <= Room(g, S)
  BY <1>1, <1>2, <1>3, <1>4
<1>6. activeJobs[g] + Cardinality(F) <= GroupLimit[g]
  BY <1>1, <1>2, <1>3, <1>5
<1> QED
  BY <1>6 DEF F

\* The jobs handed over are counted, each once.
LEMMA PassCounts ==
  ASSUME TypeInv, TypeInv', Ownership, GroupsWithinLimit, BuildPass
  PROVE  GroupsWithinLimit'
<1>1. PICK flush \in SUBSET (staging \cup Ready) :
        /\ Flushable(flush, staging \cup Ready)
        /\ live' = live \cup flush
        /\ activeJobs' = [g \in DOMAIN activeJobs |->
                            activeJobs[g] + Cardinality(InGroup(flush, g))]
  BY DEF BuildPass
<1>2. main = "pass" /\ mainJob' = mainJob /\ dist' = dist
  BY DEF BuildPass, MainGoto
<1>3. staging \cup Ready \in SUBSET Jobs
  BY DEF TypeInv, TypeOK, Ready, In
<1>4. \A j \in Jobs : ~Gone(j)' <=> ~Gone(j) \/ j \in flush
  BY <1>1, <1>2, BatchIsFresh DEF Gone
<1>5. \A j \in flush : Gone(j)
  BY <1>2, BatchIsFresh DEF Gone
<1>6. ASSUME NEW g \in DOMAIN activeJobs
      PROVE  activeJobs'[g] = Cardinality(Unfinished(g)')
  <2>1. /\ Unfinished(g)' = Unfinished(g) \cup InGroup(flush, g)
        /\ Unfinished(g) \cap InGroup(flush, g) = {}
    BY <1>3, <1>4, <1>5, UnfinishedJobs, UnfinishedJobsNext DEF InGroup
  <2>2. InGroup(flush, g) \in SUBSET Jobs
    BY <1>3 DEF InGroup
  <2>3. IsFiniteSet(Unfinished(g)) /\ IsFiniteSet(InGroup(flush, g))
    BY <2>2, UnfinishedJobs, FS_Subset, ConstantsAssumption DEF ConstantsAssumption
  <2>4. Cardinality(Unfinished(g)') = Cardinality(Unfinished(g)) + Cardinality(InGroup(flush, g))
    <3>1. Cardinality(Unfinished(g)') = Cardinality(Unfinished(g))
                                          + Cardinality(InGroup(flush, g)) - Cardinality({})
      BY <2>1, <2>3, FS_Union
    <3>2. Cardinality({}) = 0
      BY FS_EmptySet
    <3>3. Cardinality(Unfinished(g)) \in Nat /\ Cardinality(InGroup(flush, g)) \in Nat
      BY <2>3, FS_CardinalityType
    <3> QED
      BY <3>1, <3>2, <3>3
  <2>5. activeJobs[g] = Cardinality(Unfinished(g))
    BY <1>2 DEF GroupsWithinLimit
  <2> QED
    BY <1>1, <2>4, <2>5
<1>7. ASSUME NEW g \in DOMAIN activeJobs, GroupLimit[g] < Cardinality(Threads)
      PROVE  activeJobs'[g] <= GroupLimit[g]
  BY <1>1, <1>3, <1>7, FlushLeavesRoom
<1>8. DOMAIN activeJobs' = DOMAIN activeJobs
  BY <1>1
<1> QED
  BY <1>6, <1>7, <1>8 DEF GroupsWithinLimit

LEMMA GroupsStep ==
  TypeInv /\ TypeInv' /\ Ownership /\ GroupsWithinLimit /\ [Next]_vars => GroupsWithinLimit'
<1> SUFFICES ASSUME TypeInv, TypeInv', Ownership, GroupsWithinLimit, [Next]_vars
             PROVE  GroupsWithinLimit'
  OBVIOUS
<1>1. CASE \E t \in Threads : ThreadStep(t)
  <2>1. main' = main
    BY <1>1 DEF ThreadStep, WakeThread, TakeLocalJob, TakeDistributableJob, TakeJobToRace,
         QueueDistributableJob, BuildLocalJob, BuildDistributableJob,
         BuildRacedJob, ThreadFinishes, ThreadAppends, mainVars
  <2> QED
    BY <1>1, <2>1, ThreadKeepsPlaces, GroupsStay
<1>2. CASE \E c \in Conns : ConnStep(c)
  <2>1. main' = main
    BY <1>2 DEF ConnStep, ConnProceeds, RemoteAnswers, TrackJob, LocalRaceEnds,
         RequeueAfterSystemError, ProcessResult, ConnFinishes, ConnAppends, OnDisconnected,
         ReceiveJobResult, ConnectToWorker, RequestJob, Disconnect, mainVars
  <2> QED
    BY <1>2, <2>1, ConnKeepsPlaces, GroupsStay
<1>3. CASE MainStep
  <2>1. CASE SwapCompletedJobs \/ FinalizeDone \/ DisposeJob \/ ClientDeleted \/ WaitForWorkers
    <3>1. main # "done"
      BY <2>1 DEF SwapCompletedJobs, FinalizeDone, DisposeJob, ClientDeleted, WaitForWorkers
    <3> QED
      BY <2>1, <3>1, MainKeepsPlaces, GroupsStay
  <2>2. CASE \E j \in Jobs, r \in Results : FinalizeNode(j, r)
    BY <2>2, FinalizeCounts
  <2>3. CASE BuildPass
    BY <2>3, PassCounts
  <2>4. CASE DestroyJobQueue
    BY <2>4 DEF DestroyJobQueue, MainGoto, batchVars, GroupsWithinLimit
  <2> QED
    BY <1>3, <2>1, <2>2, <2>3, <2>4 DEF MainStep
<1>4. CASE AbortBuild \/ UNCHANGED vars
  <2>1. UNCHANGED <<nodeState, staging, activeJobs, mainJob, live, dist, main>>
    BY <1>4 DEF AbortBuild, vars, batchVars, mainVars
  <2> QED
    BY <2>1, GroupsStay DEF SamePlaces, Gone
<1> QED
  BY <1>1, <1>2, <1>3, <1>4 DEF Next, Finished

\* The count of a group's active jobs is exact, however many sides worked on each
\* of them, and never exceeds the limit of the group.
THEOREM GroupsStayWithinLimits == Spec => []GroupsWithinLimit
<1>1. Init => GroupsWithinLimit
  <2> SUFFICES ASSUME Init, NEW g \in DOMAIN activeJobs
               PROVE  activeJobs[g] = Cardinality(Unfinished(g)) /\ activeJobs[g] <= GroupLimit[g]
    BY DEF GroupsWithinLimit
  <2>1. Unfinished(g) = {} /\ activeJobs[g] = 0 /\ GroupLimit[g] \in Nat
    BY ConstantsAssumption DEF Init, Unfinished, InGroup, ConstantsAssumption
  <2>2. Cardinality({}) = 0
    BY FS_EmptySet
  <2> QED
    BY <2>1, <2>2
<1> QED
  BY OwnershipCorrect, TypeInvariant, <1>1, GroupsStep, PTL DEF Spec

----------------------------------------------------------------------------
(* Builds without races                                                     *)

\* No thread takes a job a remote worker has, so none of the states of a race is
\* reached.
LEMMA ThreadStartsNoRace ==
  ASSUME ~AllowLocalRace, TypeInv, Ownership, NoRaces, NEW t \in Threads, ThreadStep(t)
  PROVE  NoRaces'
<1> USE DEF TypeInv, TypeOK, connVars
<1>1. \A c \in Conns : ~Waiting(c)'
  BY DEF ThreadStep, WakeThread, TakeLocalJob, TakeDistributableJob, TakeJobToRace,
         QueueDistributableJob, BuildLocalJob, BuildDistributableJob,
         BuildRacedJob, ThreadFinishes, ThreadAppends, NoRaces, Waiting
<1>2. CASE \/ WakeThread(t) \/ TakeLocalJob(t) \/ TakeJobToRace(t)
           \/ \E r \in Results : \/ BuildLocalJob(t, r) \/ BuildDistributableJob(t, r)
                                 \/ BuildRacedJob(t, r)
  <2>1. dist' = dist /\ Published' = Published
    BY <1>2 DEF WakeThread, TakeLocalJob, TakeJobToRace, BuildLocalJob, BuildDistributableJob,
                BuildRacedJob, Published, listVars, mainVars
  <2>2. \A u \in Threads : tpc'[u] = "append" =>
             \/ tpc[u] = "append" /\ tjob'[u] = tjob[u]
             \/ tpc[u] = "pass1" /\ tjob'[u] = tjob[u]
    BY <1>2 DEF WakeThread, TakeLocalJob, TakeJobToRace, BuildLocalJob, BuildDistributableJob,
                BuildRacedJob, ThreadGoto, ThreadTakes, ThreadHasResult
  <2>3. \A u \in Threads : tpc[u] = "pass1" => dist[tjob[u]] = "NONE"
    BY DEF Ownership, ThreadJobs
  <2> QED
    BY <1>1, <2>1, <2>2, <2>3 DEF NoRaces
<1>3. CASE TakeDistributableJob(t)
  <2>1. CASE \E j \in available : /\ TakeDistributable(j, "BUILDING_LOCALLY")
                                  /\ ThreadTakes(t, "compile", j)
    <3>1. PICK j \in available : /\ TakeDistributable(j, "BUILDING_LOCALLY")
                                 /\ ThreadTakes(t, "compile", j)
      BY <2>1
    <3>2. /\ \A u \in Threads : tpc'[u] = "append" =>
               tpc[u] = "append" /\ tjob'[u] = tjob[u] /\ tjob[u] # j
          /\ j \notin Published /\ Published' = Published
      BY <1>3, <3>1, AvailableJobIsFree
         DEF ThreadTakes, Busy, TakeDistributableJob, Published, listVars, mainVars
    <3>3. dist' = [dist EXCEPT ![j] = "BUILDING_LOCALLY"] /\ j \in Jobs
      BY <3>1 DEF TakeDistributable
    <3>4. \A u \in Threads : tpc[u] = "append" => tjob[u] \in Jobs
      BY DEF Ownership, JobsAtHand, Busy
    <3> QED
      BY <1>1, <3>2, <3>3, <3>4 DEF NoRaces, RaceStates, Published
  <2>2. CASE dist' = dist /\ ThreadGoto(t, "race")
    BY <1>1, <1>3, <2>2
       DEF TakeDistributableJob, ThreadGoto, NoRaces, Published, listVars, mainVars
  <2> QED
    BY <1>3, <2>1, <2>2 DEF TakeDistributableJob
<1>4. CASE QueueDistributableJob(t)
  <2>1. /\ dist' = [dist EXCEPT ![tjob[t]] = "AVAILABLE"] /\ Published' = Published
        /\ \A u \in Threads : tpc'[u] = "append" => tpc[u] = "append" /\ tjob'[u] = tjob[u]
    BY <1>4 DEF QueueDistributableJob, ThreadDrops, Published, listVars, mainVars
  <2>2. \A u \in Threads : tpc[u] = "append" => tjob[u] \in Jobs
    BY DEF Ownership, JobsAtHand, Busy
  <2> QED
    BY <1>1, <2>1, <2>2 DEF NoRaces, RaceStates, Published
<1>5. CASE ThreadFinishes(t)
  <2>1. tjob[t] \in Jobs /\ dist[tjob[t]] = "BUILDING_LOCALLY"
    BY <1>5, BuiltJobIsPrivate DEF ThreadFinishes, Building, LocalStates, NoRaces, RaceStates
  <2>2. /\ dist' = [dist EXCEPT ![tjob[t]] = "COMPLETED_LOCALLY"] /\ Published' = Published
        /\ tjob' = tjob
    BY <1>5, <2>1 DEF ThreadFinishes, FinishInProgress, LocalWasCancelled, ThreadGoto,
                      Published, listVars, mainVars
  <2>3. \A u \in Threads : tpc'[u] = "append" => u = t \/ tpc[u] = "append"
    BY <1>5, <2>1 DEF ThreadFinishes, LocalWasCancelled, ThreadGoto
  <2>4. \A u \in Threads : tpc[u] = "append" => tjob[u] \in Jobs
    BY DEF Ownership, JobsAtHand, Busy
  <2> QED
    BY <1>1, <2>1, <2>2, <2>3, <2>4 DEF NoRaces, RaceStates, Published
<1>6. CASE ThreadAppends(t)
  <2>1. /\ dist' = dist /\ Published' \subseteq Published \cup {tjob[t]} /\ tpc[t] = "append"
        /\ \A u \in Threads : tpc'[u] = "append" => tpc[u] = "append" /\ tjob'[u] = tjob[u]
    BY <1>6 DEF ThreadAppends, AppendCompleted, ThreadDrops, Published, listVars, mainVars
  <2> QED
    BY <1>1, <2>1 DEF NoRaces
<1> QED
  BY <1>2, <1>3, <1>4, <1>5, <1>6 DEF ThreadStep

LEMMA ConnStartsNoRace ==
  ASSUME TypeInv, Ownership, NoRaces, NEW c \in Conns, ConnStep(c)
  PROVE  NoRaces'
<1> USE DEF TypeInv, TypeOK
<1>1. UNCHANGED threadVars
  BY DEF ConnStep, ConnProceeds, RemoteAnswers, TrackJob, LocalRaceEnds,
         RequeueAfterSystemError, ProcessResult, ConnFinishes, ConnAppends, OnDisconnected,
         ReceiveJobResult, ConnectToWorker, RequestJob, Disconnect
<1>2. \A t \in Threads : tpc[t] = "append" => tjob[t] \in Jobs
  BY DEF Ownership, JobsAtHand, Busy
<1>3. ASSUME NEW j \in Jobs, NEW s \in DistStates \ RaceStates, s # "BUILDING_LOCALLY",
             dist' = [dist EXCEPT ![j] = s], Published' = Published,
             \A d \in Conns : ~Waiting(d)'
      PROVE  NoRaces'
  BY <1>1, <1>2, <1>3 DEF NoRaces, Published, threadVars
<1>4. ASSUME dist' = dist, Published' = Published, \A d \in Conns : ~Waiting(d)'
      PROVE  NoRaces'
  BY <1>1, <1>4 DEF NoRaces, threadVars
<1>5. CASE \/ TrackJob(c) \/ ProcessResult(c) \/ ConnectToWorker(c) \/ Disconnect(c)
  <2>1. dist' = dist /\ Published' = Published
    BY <1>5 DEF TrackJob, ProcessResult, ConnectToWorker, Disconnect, Published, listVars, mainVars
  <2>2. \A d \in Conns : ~Waiting(d)'
    BY <1>5 DEF TrackJob, ProcessResult, ConnectToWorker, Disconnect, NoRaces, Waiting,
                ConnGoto, ConnDrops, ConnHolds
  <2> QED
    BY <1>4, <2>1, <2>2
<1>6. CASE LocalRaceEnds(c)
  BY <1>6 DEF LocalRaceEnds, NoRaces, Waiting
<1>7. CASE RequestJob(c)
  <2>1. PICK j \in available : TakeDistributable(j, "BUILDING_REMOTELY")
                                 /\ ConnHolds(c, "handing", j, cres[c])
    BY <1>7 DEF RequestJob
  <2>2. Published' = Published /\ \A d \in Conns : ~Waiting(d)'
    BY <1>7, <2>1 DEF RequestJob, Published, listVars, mainVars, ConnHolds, NoRaces, Waiting
  <2>3. dist' = [dist EXCEPT ![j] = "BUILDING_REMOTELY"] /\ j \in Jobs
    BY <2>1 DEF TakeDistributable
  <2> QED
    BY <1>3, <2>2, <2>3 DEF DistStates, RaceStates
<1>8. CASE RemoteAnswers(c)
  <2>1. PICK j \in Jobs, o \in Outcomes : ReceiveJobResult(c, j, o)
    BY <1>8 DEF RemoteAnswers
  <2>2. dist' = [dist EXCEPT ![j] = "COMPLETED_REMOTELY"] /\ ConnHolds(c, "owned", j, o)
    BY <2>1 DEF ReceiveJobResult, OnReturnRemoteJob, NoRaces, RaceStates
  <2>3. Published' = Published /\ \A d \in Conns : ~Waiting(d)'
    BY <2>1, <2>2 DEF ReceiveJobResult, Published, listVars, mainVars, ConnHolds, NoRaces, Waiting
  <2> QED
    BY <1>3, <2>2, <2>3 DEF DistStates, RaceStates
<1>9. CASE RequeueAfterSystemError(c)
  <2>1. cjob[c] \in Jobs
    BY <1>9 DEF RequeueAfterSystemError, Ownership, JobsAtHand, HasJob, Owning
  <2>2. dist' = [dist EXCEPT ![cjob[c]] = "AVAILABLE"]
    BY <1>9, <2>1 DEF RequeueAfterSystemError, ReturnUnfinished, NoRaces, RaceStates
  <2>3. Published' = Published /\ \A d \in Conns : ~Waiting(d)'
    BY <1>9 DEF RequeueAfterSystemError, Published, listVars, mainVars, ConnDrops, NoRaces, Waiting
  <2> QED
    BY <1>3, <2>1, <2>2, <2>3 DEF DistStates, RaceStates
<1>10. CASE ConnFinishes(c)
  <2>1. dist[cjob[c]] = "COMPLETED_REMOTELY"
    BY <1>10 DEF ConnFinishes, Ownership, OwnedJobs, JobsAtHand, HasJob, Owning,
                 RemoteResultStates, NoRaces, RaceStates
  <2>2. dist' = dist
    BY <1>10, <2>1 DEF ConnFinishes, FinishInProgress, LocalWasCancelled
  <2>3. Published' = Published /\ \A d \in Conns : ~Waiting(d)'
    BY <1>10 DEF ConnFinishes, Published, listVars, mainVars, ConnDrops, ConnGoto, NoRaces, Waiting
  <2> QED
    BY <1>4, <2>2, <2>3
<1>11. CASE ConnAppends(c)
  <2>1. dist[cjob[c]] = "COMPLETED_REMOTELY" /\ cjob[c] \in Jobs
    BY <1>11 DEF ConnAppends, Ownership, OwnedJobs, JobsAtHand, HasJob, Owning,
                 RemoteResultStates, NoRaces, RaceStates
  <2>2. dist' = dist /\ Published' \subseteq Published \cup {cjob[c]}
    BY <1>11 DEF ConnAppends, AppendCompleted, Published, listVars, mainVars
  <2>3. \A d \in Conns : ~Waiting(d)'
    BY <1>11 DEF ConnAppends, ConnDrops, NoRaces, Waiting
  <2> QED
    BY <1>1, <2>1, <2>2, <2>3 DEF NoRaces, threadVars
<1>12. CASE OnDisconnected(c)
  <2>1. Published' = Published /\ \A d \in Conns : ~Waiting(d)'
    BY <1>12 DEF OnDisconnected, Published, listVars, mainVars, ConnGoto, NoRaces, Waiting
  <2>2. CASE \E j \in sent[c] : ReturnUnfinished(j)
    <3>1. PICK j \in sent[c] : ReturnUnfinished(j)
      BY <2>2
    <3>2. j \in Jobs /\ dist' = [dist EXCEPT ![j] = "AVAILABLE"]
      BY <3>1 DEF ReturnUnfinished, NoRaces, RaceStates
    <3> QED
      BY <1>3, <2>1, <3>2 DEF DistStates, RaceStates
  <2>3. CASE dist' = dist
    BY <1>4, <2>1, <2>3
  <2> QED
    BY <1>12, <2>2, <2>3 DEF OnDisconnected
<1> QED
  BY <1>5, <1>6, <1>7, <1>8, <1>9, <1>10, <1>11, <1>12 DEF ConnStep, ConnProceeds

LEMMA MainStartsNoRace ==
  ASSUME TypeInv, Ownership, NoRaces, MainStep
  PROVE  NoRaces'
<1> USE DEF TypeInv, TypeOK
<1>1. UNCHANGED <<tpc, tjob, cpc>>
  BY DEF MainStep, SwapCompletedJobs, FinalizeDone, DisposeJob, FinalizeNode, BuildPass,
         ClientDeleted, WaitForWorkers, DestroyJobQueue, threadVars, connVars
<1>2. dist' = dist
  <2>1. CASE DisposeJob
    <3>1. dist[mainJob] \in DisposableStates
      BY <2>1 DEF DisposeJob, Ownership, PublishedJobs, JobsAtHand, Published, NoRaces, RaceStates,
                  LocalStates, RemoteResultStates, DisposableStates
    <3> QED
      BY <2>1, <3>1 DEF DisposeJob
  <2> QED
    BY <2>1 DEF MainStep, SwapCompletedJobs, FinalizeDone, FinalizeNode, BuildPass,
                ClientDeleted, WaitForWorkers, DestroyJobQueue
<1>3. Published' \subseteq Published
  <2>1. CASE SwapCompletedJobs
    BY <2>1 DEF SwapCompletedJobs, MainGoto, NoJobs, Published
  <2>2. CASE \E j \in Jobs, r \in Results : FinalizeNode(j, r)
    BY <2>2 DEF FinalizeNode, Published
  <2>3. CASE \/ FinalizeDone \/ DisposeJob \/ BuildPass \/ ClientDeleted \/ WaitForWorkers
             \/ DestroyJobQueue
    BY <2>3 DEF FinalizeDone, DisposeJob, BuildPass, ClientDeleted, WaitForWorkers,
                DestroyJobQueue, Published, MainGoto, listVars
  <2> QED
    BY <2>1, <2>2, <2>3 DEF MainStep
<1> QED
  BY <1>1, <1>2, <1>3 DEF NoRaces, Waiting

\* A thread gives a job up only when it queues it or publishes its result.
LEMMA ThreadLosesNoJob ==
  ASSUME TypeInv, Ownership, NoRaces, NoJobIsLost, NEW t \in Threads, ThreadStep(t)
  PROVE  NoJobIsLost'
<1> USE DEF TypeInv, TypeOK
<1>1. live' = live /\ UNCHANGED <<sent, cpc, cjob>>
  BY DEF ThreadStep, WakeThread, TakeLocalJob, TakeDistributableJob, TakeJobToRace,
         QueueDistributableJob, BuildLocalJob, BuildDistributableJob,
         BuildRacedJob, ThreadFinishes, ThreadAppends, connVars
<1>2. \A c \in Conns, j \in Jobs : Holds(c, j)' <=> Holds(c, j)
  BY <1>1 DEF Holds, HasJob, Waiting, Owning
<1>3. Published \subseteq Published'
  BY DEF ThreadStep, WakeThread, TakeLocalJob, TakeDistributableJob, TakeJobToRace,
         QueueDistributableJob, BuildLocalJob, BuildDistributableJob,
         BuildRacedJob, ThreadFinishes, ThreadAppends, AppendCompleted, Published,
         listVars, mainVars
<1>4. ASSUME NEW u \in Threads, u # t
      PROVE  (Busy(u)' <=> Busy(u)) /\ tjob'[u] = tjob[u]
  <2>1. tpc'[u] = tpc[u] /\ tjob'[u] = tjob[u]
    <3>1. CASE ThreadFinishes(t)
      BY <1>4, <3>1 DEF ThreadFinishes, ThreadGoto, ThreadDrops
    <3>2. CASE ~ThreadFinishes(t)
      BY <1>4, <3>2 DEF ThreadStep, WakeThread, TakeLocalJob, TakeDistributableJob,
         TakeJobToRace, QueueDistributableJob, BuildLocalJob, BuildDistributableJob,
         BuildRacedJob, ThreadAppends,
         ThreadGoto, ThreadTakes, ThreadDrops, ThreadHasResult
    <3> QED
      BY <3>1, <3>2
  <2> QED
    BY <2>1 DEF Busy
<1>5. ASSUME NEW j \in Jobs, j \in localQueue \cup available \/ (Busy(t) /\ tjob[t] = j)
      PROVE  Held(j)'
  <2>1. CASE WakeThread(t) \/ TakeJobToRace(t)
    BY <1>5, <2>1 DEF WakeThread, TakeJobToRace, ThreadGoto, ThreadTakes, Busy, Held, queueVars
  <2>2. CASE TakeLocalJob(t)
    BY <1>5, <2>2 DEF TakeLocalJob, ThreadGoto, ThreadTakes, Busy, Held
  <2>3. CASE TakeDistributableJob(t)
    BY <1>5, <2>3
       DEF TakeDistributableJob, TakeDistributable, ThreadGoto, ThreadTakes, Busy, Held
  <2>4. CASE QueueDistributableJob(t)
    BY <1>5, <2>4 DEF QueueDistributableJob, Held
  <2>5. CASE \E r \in Results : \/ BuildLocalJob(t, r) \/ BuildDistributableJob(t, r)
                                \/ BuildRacedJob(t, r)
    BY <1>5, <2>5 DEF BuildLocalJob, BuildDistributableJob, BuildRacedJob, ThreadHasResult,
                      Busy, Held, queueVars
  <2>6. CASE ThreadFinishes(t)
    <3>1. ~LocalWasCancelled(tjob[t], tres[t])
      BY <2>6, BuiltJobIsPrivate
         DEF ThreadFinishes, Building, LocalWasCancelled, NoRaces, RaceStates
    <3> QED
      BY <1>5, <2>6, <3>1 DEF ThreadFinishes, ThreadGoto, Busy, Held, queueVars
  <2>7. CASE ThreadAppends(t)
    BY <1>5, <2>7 DEF ThreadAppends, AppendCompleted, Busy, Held, Published, queueVars
  <2> QED
    BY <2>1, <2>2, <2>3, <2>4, <2>5, <2>6, <2>7 DEF ThreadStep
<1> QED
  BY <1>1, <1>2, <1>3, <1>4, <1>5 DEF NoJobIsLost, Held

\* A connection gives a job up only when it queues it again or publishes its
\* result.
LEMMA ConnLosesNoJob ==
  ASSUME TypeInv, Ownership, NoRaces, NoJobIsLost, NEW c \in Conns, ConnStep(c)
  PROVE  NoJobIsLost'
<1> USE DEF TypeInv, TypeOK
<1>1. UNCHANGED <<tpc, tjob>> /\ localQueue' = localQueue
  BY DEF ConnStep, ConnProceeds, RemoteAnswers, TrackJob, LocalRaceEnds,
         RequeueAfterSystemError, ProcessResult, ConnFinishes, ConnAppends, OnDisconnected,
         ReceiveJobResult, ConnectToWorker, RequestJob, Disconnect, threadVars, queueVars
<1>2. Published \subseteq Published'
  BY DEF ConnStep, ConnProceeds, RemoteAnswers, TrackJob, LocalRaceEnds,
         RequeueAfterSystemError, ProcessResult, ConnFinishes, ConnAppends, OnDisconnected,
         ReceiveJobResult, ConnectToWorker, RequestJob, Disconnect, AppendCompleted, Published,
         listVars, mainVars
<1>3. \A d \in Conns : d # c => sent'[d] = sent[d] /\ cpc'[d] = cpc[d] /\ cjob'[d] = cjob[d]
  BY DEF ConnStep, ConnProceeds, RemoteAnswers, TrackJob, LocalRaceEnds,
         RequeueAfterSystemError, ProcessResult, ConnFinishes, ConnAppends, OnDisconnected,
         ReceiveJobResult, OnReturnRemoteJob, ConnectToWorker, RequestJob, Disconnect,
         ConnGoto, ConnHolds, ConnDrops
<1>4. \A d \in Conns, j \in Jobs : d # c => (Holds(d, j)' <=> Holds(d, j))
  BY <1>3 DEF Holds, HasJob, Waiting, Owning
<1>5. ASSUME NEW j \in Jobs, ReturnUnfinished(j)
      PROVE  available' = available \cup {j} /\ live' = live
  BY <1>5 DEF ReturnUnfinished, NoRaces, RaceStates
<1>6. /\ live' = live
      /\ \A j \in Jobs : j \in available \/ Holds(c, j) => Held(j)'
  <2>1. CASE ConnectToWorker(c) \/ ProcessResult(c) \/ Disconnect(c)
    BY <2>1 DEF ConnectToWorker, ProcessResult, Disconnect, ConnGoto, ConnHolds, Held, Holds,
                HasJob, Waiting, Owning, queueVars
  <2>2. CASE TrackJob(c)
    BY <2>2 DEF TrackJob, ConnDrops, Held, Holds, HasJob, Waiting, Owning, queueVars
  <2>3. CASE LocalRaceEnds(c)
    BY <2>3 DEF LocalRaceEnds, NoRaces, Waiting
  <2>4. CASE RequestJob(c)
    BY <2>4 DEF RequestJob, TakeDistributable, ConnHolds, Held, Holds, HasJob, Waiting, Owning
  <2>5. CASE RemoteAnswers(c)
    <3>1. PICK j \in Jobs, o \in Outcomes : ReceiveJobResult(c, j, o)
      BY <2>5 DEF RemoteAnswers
    <3>2. live' = live /\ ConnHolds(c, "owned", j, o)
      BY <3>1 DEF ReceiveJobResult, OnReturnRemoteJob, NoRaces, RaceStates
    <3> QED
      BY <3>1, <3>2 DEF ReceiveJobResult, ConnHolds, Held, Holds, HasJob, Waiting, Owning,
                        queueVars
  <2>6. CASE RequeueAfterSystemError(c)
    <3>1. cjob[c] \in Jobs
      BY <2>6 DEF RequeueAfterSystemError, Ownership, JobsAtHand, HasJob, Owning
    <3>2. available' = available \cup {cjob[c]} /\ live' = live
      BY <1>5, <2>6, <3>1 DEF RequeueAfterSystemError
    <3> QED
      BY <2>6, <3>2 DEF RequeueAfterSystemError, ConnDrops, Held, Holds, HasJob, Waiting, Owning
  <2>7. CASE ConnFinishes(c)
    <3>1. ~LocalWasCancelled(cjob[c], cres[c])
      BY <2>7 DEF ConnFinishes, LocalWasCancelled, Ownership, JobsAtHand, HasJob, Owning,
                  NoRaces, RaceStates
    <3> QED
      BY <2>7, <3>1 DEF ConnFinishes, ConnGoto, Held, Holds, HasJob, Waiting, Owning, queueVars
  <2>8. CASE ConnAppends(c)
    <3>1. live' = live /\ available' = available /\ sent' = sent /\ cpc[c] = "append"
      BY <2>8 DEF ConnAppends, queueVars
    <3>2. cjob[c] \in Jobs /\ cjob[c] \in Published'
      BY <2>8 DEF ConnAppends, AppendCompleted, Published, Ownership, OwnedJobs, JobsAtHand,
                  HasJob, Owning, Outcomes, Results
    <3> QED
      BY <3>1, <3>2 DEF Held, Holds
  <2>9. CASE OnDisconnected(c)
    <3>1. CASE \E j \in sent[c] : /\ ReturnUnfinished(j)
                                  /\ sent' = [sent EXCEPT ![c] = @ \ {j}]
                                  /\ UNCHANGED <<cpc, cjob, cres>>
      <4>1. PICK j \in sent[c] : /\ ReturnUnfinished(j)
                                 /\ sent' = [sent EXCEPT ![c] = @ \ {j}]
                                 /\ UNCHANGED <<cpc, cjob, cres>>
        BY <3>1
      <4>2. available' = available \cup {j} /\ live' = live
        BY <1>5, <4>1
      <4> QED
        BY <4>1, <4>2 DEF Held, Holds, HasJob, Waiting, Owning
    <3>2. CASE sent[c] = {} /\ UNCHANGED <<live, available, sent>>
      BY <2>9, <3>2 DEF OnDisconnected, Held, Holds, HasJob, Waiting, Owning
    <3> QED
      BY <2>9, <3>1, <3>2 DEF OnDisconnected
  <2> QED
    BY <2>1, <2>2, <2>3, <2>4, <2>5, <2>6, <2>7, <2>8, <2>9 DEF ConnStep, ConnProceeds
<1>7. ASSUME NEW j \in live, Held(j)
      PROVE  Held(j)'
  <2>1. CASE j \in localQueue \cup available \cup Published
    BY <1>1, <1>2, <1>6, <2>1 DEF Held
  <2>2. CASE \E t \in Threads : Busy(t) /\ tjob[t] = j
    BY <1>1, <2>2 DEF Held, Busy
  <2>3. CASE \E d \in Conns : Holds(d, j)
    BY <1>4, <1>6, <2>3 DEF Held
  <2> QED
    BY <1>7, <2>1, <2>2, <2>3 DEF Held
<1> QED
  BY <1>6, <1>7 DEF NoJobIsLost

\* The main thread deletes a job when it is done with it.
LEMMA MainLosesNoJob ==
  ASSUME TypeInv, Ownership, NoRaces, NoJobIsLost, MainStep
  PROVE  NoJobIsLost'
<1> USE DEF TypeInv, TypeOK
<1>1. UNCHANGED <<tpc, tjob, cpc, cjob, sent>>
  BY DEF MainStep, SwapCompletedJobs, FinalizeDone, DisposeJob, FinalizeNode, BuildPass,
         ClientDeleted, WaitForWorkers, DestroyJobQueue, threadVars, connVars
<1>2. ASSUME NEW S, live' \subseteq live \cup S, S \subseteq localQueue',
             \A j \in localQueue \cup available \cup Published :
                 j \in live' => j \in localQueue' \cup available' \cup Published'
      PROVE  NoJobIsLost'
  BY <1>1, <1>2 DEF NoJobIsLost, Held, Busy, Holds, HasJob, Waiting, Owning
<1>3. CASE SwapCompletedJobs
  <2>1. /\ UNCHANGED <<live, localQueue, available>>
        /\ main = "loop" /\ completed' = NoJobs /\ reaped' = completed
    BY <1>3 DEF SwapCompletedJobs, queueVars
  <2>2. Published \subseteq Published'
    BY <2>1 DEF Published, Ownership, OnePublication, NoJobs
  <2> QED
    BY <1>2, <2>1, <2>2
<1>4. CASE \E j \in Jobs, r \in Results : FinalizeNode(j, r)
  <2>1. Published \subseteq Published' /\ UNCHANGED <<live, localQueue, available>>
    BY <1>4 DEF FinalizeNode, Published, queueVars
  <2> QED
    BY <1>2, <2>1
<1>5. CASE DisposeJob
  <2>1. dist[mainJob] \in DisposableStates
    BY <1>5 DEF DisposeJob, Ownership, PublishedJobs, JobsAtHand, Published, NoRaces, RaceStates,
                LocalStates, RemoteResultStates, DisposableStates
  <2>2. live' = live \ {mainJob} /\ UNCHANGED <<localQueue, available, completed, reaped>>
    BY <1>5, <2>1 DEF DisposeJob, queueVars, listVars
  <2>3. \A j \in Published : j = mainJob \/ j \in Published'
    BY <2>2 DEF Published
  <2> QED
    BY <1>2, <2>2, <2>3
<1>6. CASE BuildPass
  <2>1. PICK flush \in SUBSET (staging \cup Ready) :
           live' = live \cup flush /\ localQueue' = localQueue \cup flush
    BY <1>6 DEF BuildPass
  <2>2. available' = available /\ Published \subseteq Published'
    BY <1>6 DEF BuildPass, MainGoto, Published, listVars
  <2> QED
    BY <1>2, <2>1, <2>2
<1>7. CASE DestroyJobQueue
  <2>1. live' = live \ (localQueue \cup available) /\ Published \subseteq Published'
    BY <1>7 DEF DestroyJobQueue, UntakenJobs, MainGoto, Published, listVars
  <2> QED
    BY <1>2, <2>1
<1>8. CASE FinalizeDone \/ ClientDeleted \/ WaitForWorkers
  <2>1. Published \subseteq Published' /\ UNCHANGED <<live, localQueue, available>>
    BY <1>8 DEF FinalizeDone, ClientDeleted, WaitForWorkers, MainGoto, Published,
                listVars, queueVars
  <2> QED
    BY <1>2, <2>1
<1> QED
  BY <1>3, <1>4, <1>5, <1>6, <1>7, <1>8 DEF MainStep

\* The connections stop first, then the threads, then the main thread.
LEMMA OrderStep ==
  ASSUME TypeInv, TypeInv', Ownership, Ownership', NoJobIsLost, NoJobIsLost', StopsInOrder,
         [Next]_vars
  PROVE  StopsInOrder'
<1> USE DEF TypeInv, TypeOK, StopsInOrder
<1>1. CASE \E t \in Threads : ThreadStep(t)
  <2>1. PICK t \in Threads : ThreadStep(t)
    BY <1>1
  <2>2. tpc[t] # "exited"
    BY <2>1 DEF ThreadStep, WakeThread, TakeLocalJob, TakeDistributableJob, TakeJobToRace,
         QueueDistributableJob, BuildLocalJob, BuildDistributableJob,
         BuildRacedJob, ThreadFinishes, ThreadAppends
  <2>3. phase # "draining"
    BY <2>2 DEF HaveWorkersStopped
  <2>4. UNCHANGED <<sent, cpc, main, phase>>
    BY <2>1 DEF ThreadStep, WakeThread, TakeLocalJob, TakeDistributableJob, TakeJobToRace,
         QueueDistributableJob, BuildLocalJob, BuildDistributableJob,
         BuildRacedJob, ThreadFinishes, ThreadAppends, connVars, mainVars
  <2> QED
    BY <2>3, <2>4
<1>2. CASE \E c \in Conns : ConnStep(c)
  <2>1. PICK c \in Conns : ConnStep(c)
    BY <1>2
  <2>2. phase = "building"
    BY <2>1 DEF ConnStep, ConnProceeds, RemoteAnswers, TrackJob, LocalRaceEnds,
         RequeueAfterSystemError, ProcessResult, ConnFinishes, ConnAppends, OnDisconnected,
         ReceiveJobResult, ConnectToWorker, RequestJob, Disconnect
  <2>3. UNCHANGED <<main, phase>>
    BY <2>1 DEF ConnStep, ConnProceeds, RemoteAnswers, TrackJob, LocalRaceEnds,
         RequeueAfterSystemError, ProcessResult, ConnFinishes, ConnAppends, OnDisconnected,
         ReceiveJobResult, ConnectToWorker, RequestJob, Disconnect, mainVars
  <2>4. \A d \in Conns : cpc'[d] = "down" => sent'[d] = {}
    <3>1. CASE OnDisconnected(c)
      BY <3>1 DEF OnDisconnected, ConnGoto
    <3>2. CASE ~OnDisconnected(c)
      <4>1. \A d \in Conns : cpc'[d] = "down" => d # c /\ cpc[d] = "down"
        BY <2>1, <3>2 DEF ConnStep, ConnProceeds, RemoteAnswers, TrackJob, LocalRaceEnds,
           RequeueAfterSystemError, ProcessResult, ConnFinishes, ConnAppends,
           ReceiveJobResult, OnReturnRemoteJob, ConnectToWorker, RequestJob, Disconnect,
           ConnGoto, ConnHolds, ConnDrops
      <4>2. \A d \in Conns \ {c} : sent'[d] = sent[d]
        BY <2>1, <3>2 DEF ConnStep, ConnProceeds, RemoteAnswers, TrackJob, LocalRaceEnds,
           RequeueAfterSystemError, ProcessResult, ConnFinishes, ConnAppends,
           ReceiveJobResult, ConnectToWorker, RequestJob, Disconnect
      <4> QED
        BY <4>1, <4>2
    <3> QED
      BY <3>1, <3>2
  <2> QED
    BY <2>2, <2>3, <2>4
<1>3. CASE MainStep
  <2>1. UNCHANGED <<sent, cpc, tpc>>
    BY <1>3 DEF MainStep, SwapCompletedJobs, FinalizeDone, DisposeJob, FinalizeNode, BuildPass,
         ClientDeleted, WaitForWorkers, DestroyJobQueue, threadVars, connVars
  <2>2. CASE SwapCompletedJobs
    BY <2>1, <2>2 DEF SwapCompletedJobs, MainGoto, HaveWorkersStopped
  <2>3. CASE FinalizeDone
    BY <2>1, <2>3 DEF FinalizeDone, MainGoto, HaveWorkersStopped, listVars
  <2>4. CASE DisposeJob \/ \E j \in Jobs, r \in Results : FinalizeNode(j, r)
    BY <2>1, <2>4 DEF DisposeJob, FinalizeNode, HaveWorkersStopped, listVars
  <2>5. CASE BuildPass
    BY <2>1, <2>5 DEF BuildPass, MainGoto, HaveWorkersStopped, listVars
  <2>6. CASE ClientDeleted \/ WaitForWorkers
    BY <2>1, <2>6 DEF ClientDeleted, WaitForWorkers, HaveWorkersStopped, listVars
  <2>7. CASE DestroyJobQueue
    <3>1. /\ main = "destroy" /\ phase = "draining" /\ completed = NoJobs /\ reaped = NoJobs
          /\ HaveWorkersStopped
      BY <2>7 DEF DestroyJobQueue, Ownership, OnePublication
    <3>2. Published = {}
      BY <3>1 DEF Published, NoJobs
    <3>3. \A j \in live : j \in localQueue \cup available
      <4>1. \A t \in Threads : ~Busy(t)
        BY <3>1 DEF HaveWorkersStopped, Busy
      <4>2. \A c \in Conns, j \in Jobs : ~Holds(c, j)
        BY <3>1 DEF Holds, HasJob, Waiting, Owning
      <4> QED
        BY <3>2, <4>1, <4>2 DEF NoJobIsLost, Held
    <3>4. live' = {}
      BY <2>7, <3>3 DEF DestroyJobQueue, UntakenJobs
    <3> QED
      BY <2>1, <2>7, <3>1, <3>4 DEF DestroyJobQueue, MainGoto, HaveWorkersStopped, listVars
  <2> QED
    BY <1>3, <2>2, <2>3, <2>4, <2>5, <2>6, <2>7 DEF MainStep
<1>4. CASE AbortBuild \/ UNCHANGED vars
  BY <1>4 DEF AbortBuild, vars, listVars, threadVars, connVars, mainVars, HaveWorkersStopped
<1> QED
  BY <1>1, <1>2, <1>3, <1>4 DEF Next, Finished

LEMMA NoRaceStep ==
  ASSUME ~AllowLocalRace, TypeInv, TypeInv', Ownership, Ownership', NoRaceInv, [Next]_vars
  PROVE  NoRaceInv'
<1> USE DEF NoRaceInv
<1>1. NoRaces' /\ NoJobIsLost'
  <2>1. CASE \E t \in Threads : ThreadStep(t)
    BY <2>1, ThreadStartsNoRace, ThreadLosesNoJob
  <2>2. CASE \E c \in Conns : ConnStep(c)
    BY <2>2, ConnStartsNoRace, ConnLosesNoJob
  <2>3. CASE MainStep
    BY <2>3, MainStartsNoRace, MainLosesNoJob
  <2>4. CASE AbortBuild \/ UNCHANGED vars
    <3>1. UNCHANGED <<dist, live, localQueue, available, completed, reaped, main, mainJob,
                      tpc, tjob, cpc, cjob, sent>>
      BY <2>4 DEF AbortBuild, vars, queueVars, listVars, threadVars, connVars, mainVars
    <3> QED
      BY <3>1 DEF NoRaces, NoJobIsLost, Held, Published, Busy, Holds, HasJob, Waiting, Owning
  <2> QED
    BY <2>1, <2>2, <2>3, <2>4 DEF Next, Finished
<1> QED
  BY <1>1, OrderStep

\* When races are not allowed, a Job object that exists is in the hands of somebody,
\* and the connections, the threads and the main thread stop in this order, each
\* with nothing left.
THEOREM WithoutRaces ==
  ASSUME ~AllowLocalRace
  PROVE  Spec => []NoRaceInv
<1>1. Init => NoRaceInv
  BY DEF Init, NoRaceInv, NoRaces, NoJobIsLost, StopsInOrder, RaceStates, Waiting, Published,
         NoJobs
<1>2. TypeInv /\ TypeInv' /\ Ownership /\ Ownership' /\ NoRaceInv /\ [Next]_vars => NoRaceInv'
  BY NoRaceStep
<1> QED
  BY OwnershipCorrect, TypeInvariant, <1>1, <1>2, PTL DEF Spec

\* When races are not allowed, the queue that is destroyed leaves no Job object and
\* no result behind, whatever workers fail or disconnect and however the build
\* ends.
THEOREM QueueLeavesNothing ==
  ASSUME ~AllowLocalRace
  PROVE  Spec => []NoJobOutlivesQueue
<1>1. NoRaceInv => NoJobOutlivesQueue
  BY DEF NoRaceInv, StopsInOrder, NoJobOutlivesQueue
<1> QED
  BY WithoutRaces, <1>1, PTL

\* A failed job is not forgotten while the build goes on.
LEMMA FailuresStay ==
  ASSUME TypeInv, Ownership, NoRaces, [Next]_vars, NEW j \in FailedJobs
  PROVE  j \in FailedJobs'
<1> USE DEF TypeInv, TypeOK
<1>1. CASE \E t \in Threads : ThreadStep(t)
  <2>1. PICK t \in Threads : ThreadStep(t)
    BY <1>1
  <2>2. nodeState' = nodeState /\ reaped' = reaped
    BY <2>1 DEF ThreadStep, WakeThread, TakeLocalJob, TakeDistributableJob, TakeJobToRace,
         QueueDistributableJob, BuildLocalJob, BuildDistributableJob,
         BuildRacedJob, ThreadFinishes, ThreadAppends, listVars
  <2>3. completed["eFailed"] \subseteq completed'["eFailed"]
    BY <2>1 DEF ThreadStep, WakeThread, TakeLocalJob, TakeDistributableJob, TakeJobToRace,
         QueueDistributableJob, BuildLocalJob, BuildDistributableJob,
         BuildRacedJob, ThreadFinishes, ThreadAppends, AppendCompleted, Results, listVars
  <2>4. \A u \in Threads \ {t} : tpc'[u] = tpc[u] /\ tjob'[u] = tjob[u] /\ tres'[u] = tres[u]
    BY <2>1 DEF ThreadStep, WakeThread, TakeLocalJob, TakeDistributableJob, TakeJobToRace,
         QueueDistributableJob, BuildLocalJob, BuildDistributableJob,
         BuildRacedJob, ThreadFinishes, ThreadAppends,
         ThreadGoto, ThreadTakes, ThreadDrops, ThreadHasResult
  <2>5. ASSUME tpc[t] \in {"finish", "append"}, tres[t] = "eFailed"
        PROVE  tjob[t] \in FailedJobs'
    <3>1. CASE ThreadFinishes(t)
      <4>1. ~LocalWasCancelled(tjob[t], tres[t])
        BY <3>1, BuiltJobIsPrivate
           DEF ThreadFinishes, Building, LocalWasCancelled, NoRaces, RaceStates
      <4>2. tpc'[t] = "append" /\ tjob' = tjob /\ tres' = tres
        BY <3>1, <4>1 DEF ThreadFinishes, ThreadGoto
      <4> QED
        BY <2>5, <4>2 DEF FailedJobs
    <3>2. CASE ThreadAppends(t)
      <4>1. tjob[t] \in completed'["eFailed"]
        BY <2>5, <3>2 DEF ThreadAppends, AppendCompleted, Results
      <4> QED
        BY <4>1 DEF FailedJobs
    <3> QED
      BY <2>1, <2>5, <3>1, <3>2
         DEF ThreadStep, WakeThread, TakeLocalJob, TakeDistributableJob, TakeJobToRace,
             QueueDistributableJob, BuildLocalJob, BuildDistributableJob, BuildRacedJob
  <2> QED
    BY <2>2, <2>3, <2>4, <2>5 DEF FailedJobs
<1>2. CASE \E c \in Conns : ConnStep(c)
  <2>1. UNCHANGED <<nodeState, reaped, tpc, tjob, tres>>
    BY <1>2 DEF ConnStep, ConnProceeds, RemoteAnswers, TrackJob, LocalRaceEnds,
         RequeueAfterSystemError, ProcessResult, ConnFinishes, ConnAppends, OnDisconnected,
         ReceiveJobResult, ConnectToWorker, RequestJob, Disconnect, threadVars, listVars
  <2>2. completed["eFailed"] \subseteq completed'["eFailed"]
    BY <1>2 DEF ConnStep, ConnProceeds, RemoteAnswers, TrackJob, LocalRaceEnds,
         RequeueAfterSystemError, ProcessResult, ConnFinishes, ConnAppends, OnDisconnected,
         ReceiveJobResult, ConnectToWorker, RequestJob, Disconnect, AppendCompleted, Results,
         listVars
  <2> QED
    BY <2>1, <2>2 DEF FailedJobs
<1>3. CASE MainStep
  <2>1. UNCHANGED <<tpc, tjob, tres>>
    BY <1>3 DEF MainStep, SwapCompletedJobs, FinalizeDone, DisposeJob, FinalizeNode, BuildPass,
         ClientDeleted, WaitForWorkers, DestroyJobQueue, threadVars
  <2>2. CASE SwapCompletedJobs
    <3>1. main = "loop" /\ reaped' = completed /\ nodeState' = nodeState
      BY <2>2 DEF SwapCompletedJobs
    <3>2. reaped["eFailed"] = {}
      BY <3>1 DEF Ownership, OnePublication, NoJobs, Results
    <3> QED
      BY <2>1, <3>1, <3>2 DEF FailedJobs
  <2>3. CASE \E k \in Jobs, r \in Results : FinalizeNode(k, r)
    <3>1. PICK k \in Jobs, r \in Results : FinalizeNode(k, r)
      BY <2>3
    <3>2. PICK s \in FinalState(r) : nodeState' = [nodeState EXCEPT ![k] = s]
      BY <3>1 DEF FinalizeNode
    <3>3. reaped' = [reaped EXCEPT ![r] = @ \ {k}] /\ completed' = completed
      BY <3>1 DEF FinalizeNode
    <3>4. nodeState[k] = "BUILDING"
      BY <3>1, ConstantsAssumption
         DEF FinalizeNode, Ownership, UsedJobsAreBuilding, Published, JobsAtHand,
             ConstantsAssumption
    <3>5. r = "eFailed" => s = "FAILED"
      BY <3>2 DEF FinalState
    <3> QED
      BY <2>1, <3>2, <3>3, <3>4, <3>5 DEF FailedJobs, Results
  <2>4. CASE BuildPass
    <3>1. completed' = completed /\ reaped' = reaped
      BY <2>4 DEF BuildPass, listVars
    <3>2. \A k \in Jobs : nodeState[k] = "FAILED" => nodeState'[k] = "FAILED"
      BY <2>4 DEF BuildPass, Ready, Doomed, Blocked, In
    <3> QED
      BY <2>1, <3>1, <3>2 DEF FailedJobs
  <2>5. CASE FinalizeDone \/ DisposeJob \/ ClientDeleted \/ WaitForWorkers \/ DestroyJobQueue
    <3>1. UNCHANGED <<nodeState, completed, reaped>>
      BY <2>5 DEF FinalizeDone, DisposeJob, ClientDeleted, WaitForWorkers, DestroyJobQueue,
                  listVars
    <3> QED
      BY <2>1, <3>1 DEF FailedJobs
  <2> QED
    BY <1>3, <2>2, <2>3, <2>4, <2>5 DEF MainStep
<1>4. CASE AbortBuild \/ UNCHANGED vars
  <2>1. UNCHANGED <<nodeState, completed, reaped, tpc, tjob, tres>>
    BY <1>4 DEF AbortBuild, vars, listVars, threadVars
  <2> QED
    BY <2>1 DEF FailedJobs
<1> QED
  BY <1>1, <1>2, <1>3, <1>4 DEF Next, Finished

LEMMA StopStep ==
  ASSUME TypeInv, Ownership, NoRaces, StopHasCause, [Next]_vars
  PROVE  StopHasCause'
<1> USE DEF TypeInv, TypeOK
<1>1. CASE UNCHANGED stopBuild
  BY <1>1, FailuresStay DEF StopHasCause
<1>2. CASE AbortBuild
  BY <1>2 DEF AbortBuild, StopHasCause
<1>3. CASE \E t \in Threads, r \in Results :
             BuildLocalJob(t, r) \/ BuildDistributableJob(t, r) \/ BuildRacedJob(t, r)
  <2>1. PICK t \in Threads, r \in Results :
             BuildLocalJob(t, r) \/ BuildDistributableJob(t, r) \/ BuildRacedJob(t, r)
    BY <1>3
  <2>2. stopBuild' = stopBuild \/ r = "eFailed"
    BY <2>1 DEF BuildLocalJob, BuildDistributableJob, BuildRacedJob, OnBuildError
  <2>3. CASE r = "eFailed"
    <3>1. tpc'[t] \in {"finish", "append"} /\ tres'[t] = "eFailed"
      BY <2>1, <2>3 DEF BuildLocalJob, BuildDistributableJob, BuildRacedJob, ThreadHasResult
    <3>2. tjob'[t] \in FailedJobs'
      BY <3>1 DEF FailedJobs
    <3> QED
      BY <3>2 DEF StopHasCause
  <2> QED
    BY <1>1, <2>2, <2>3
<1>4. CASE UNCHANGED vars
  BY <1>1, <1>4 DEF vars
<1>5. CASE \E c \in Conns : ConnStep(c)
  BY <1>1, <1>5 DEF ConnStep, ConnProceeds, RemoteAnswers, TrackJob, LocalRaceEnds,
         RequeueAfterSystemError, ProcessResult, ConnFinishes, ConnAppends, OnDisconnected,
         ReceiveJobResult, ConnectToWorker, RequestJob, Disconnect
<1>6. CASE MainStep
  BY <1>1, <1>6 DEF MainStep, SwapCompletedJobs, FinalizeDone, DisposeJob, FinalizeNode,
         BuildPass, ClientDeleted, WaitForWorkers, DestroyJobQueue
<1>7. CASE \E t \in Threads : \/ WakeThread(t) \/ TakeLocalJob(t) \/ TakeDistributableJob(t)
                             \/ TakeJobToRace(t) \/ QueueDistributableJob(t)
                             \/ ThreadFinishes(t) \/ ThreadAppends(t)
  BY <1>1, <1>7 DEF WakeThread, TakeLocalJob, TakeDistributableJob, TakeJobToRace,
         QueueDistributableJob, ThreadFinishes, ThreadAppends
<1> QED
  BY <1>2, <1>3, <1>4, <1>5, <1>6, <1>7 DEF Next, Finished, ThreadStep

\* When races are not allowed, a build that stops was stopped by the user, or has
\* a failed job to show for it.
THEOREM BuildsStopForACause ==
  ASSUME ~AllowLocalRace
  PROVE  Spec => []StopHasCause
<1>1. Init => StopHasCause
  BY DEF Init, StopHasCause
<1>2. NoRaceInv => NoRaces
  BY DEF NoRaceInv
<1>3. TypeInv /\ Ownership /\ NoRaces /\ StopHasCause /\ [Next]_vars => StopHasCause'
  BY StopStep
<1> QED
  BY OwnershipCorrect, TypeInvariant, WithoutRaces, <1>1, <1>2, <1>3, PTL DEF Spec
=============================================================================
