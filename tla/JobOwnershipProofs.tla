---------------------- MODULE JobOwnershipProofs ----------------------
(***************************************************************************)
(* The invariant of JobOwnership is inductive, for any number of jobs,     *)
(* threads and workers.  One lemma for each action; in front of them, what *)
(* the invariant says of a job that is about to change hands.              *)
(***************************************************************************)
EXTENDS DistributedJobsProofs

----------------------------------------------------------------------------
(* Jobs about to change hands                                               *)

\* Nobody has a job that waits in the local queue.
LEMMA LocalJobIsFree ==
  ASSUME TypeInv, Ownership, NEW j \in localQueue
  PROVE  /\ j \in Jobs /\ dist[j] = "NONE" /\ nodeState[j] = "BUILDING"
         /\ j \in live /\ j \notin staging
         /\ j \notin available /\ j \notin inProgress /\ j \notin Published
         /\ \A t \in Threads : Busy(t) => tjob[t] # j
         /\ \A c \in Conns : ~Holds(c, j)
<1> USE DEF Ownership, TypeInv, TypeOK
<1>1. /\ j \in Jobs /\ dist[j] = "NONE" /\ j \notin Published
      /\ \A t \in Threads : Busy(t) => tjob[t] # j
  BY DEF QueuedJobs
<1>2. j \notin available /\ j \notin inProgress
  BY <1>1 DEF QueuedJobs
<1>3. j \in live /\ nodeState[j] = "BUILDING" /\ j \notin staging
  BY DEF UsedJobsAreLive, UsedJobsAreBuilding, FreshJobs
<1>4. \A c \in Conns : ~Holds(c, j)
  BY <1>1 DEF Holds, HasJob, RemoteJobs, AwaitedJobs, OwnedJobs, RemoteStates,
              RemoteResultStates, WaitedForStates
<1> QED
  BY <1>1, <1>2, <1>3, <1>4

\* Nobody has a job that waits for a thread or a worker.
LEMMA AvailableJobIsFree ==
  ASSUME TypeInv, Ownership, NEW j \in available
  PROVE  /\ j \in Jobs /\ dist[j] = "AVAILABLE" /\ nodeState[j] = "BUILDING"
         /\ j \in live /\ j \notin staging
         /\ j \notin localQueue /\ j \notin inProgress /\ j \notin Published
         /\ \A t \in Threads : Busy(t) => tjob[t] # j
         /\ \A c \in Conns : ~Holds(c, j)
<1> USE DEF Ownership, TypeInv, TypeOK
<1>1. j \in Jobs /\ dist[j] = "AVAILABLE"
  BY DEF QueuedJobs
<1>2. j \notin localQueue /\ j \notin inProgress
  BY <1>1 DEF QueuedJobs
<1>3. j \notin Published
  BY <1>1 DEF PublishedJobs, LocalStates, RemoteResultStates
<1>4. j \in live /\ nodeState[j] = "BUILDING" /\ j \notin staging
  BY DEF UsedJobsAreLive, UsedJobsAreBuilding, FreshJobs
<1>5. \A t \in Threads : Busy(t) => tjob[t] # j
  BY <1>1 DEF ThreadJobs, Busy, Building, LocalStates
<1>6. \A c \in Conns : ~Holds(c, j)
  BY <1>1 DEF Holds, HasJob, RemoteJobs, AwaitedJobs, OwnedJobs, RemoteStates,
              RemoteResultStates, WaitedForStates
<1> QED
  BY <1>1, <1>2, <1>3, <1>4, <1>5, <1>6

\* No thread has a job that only a remote worker builds, and no connection has a
\* result of it.
LEMMA RemoteJobIsNotLocal ==
  ASSUME TypeInv, Ownership, NEW j \in inProgress, dist[j] = "BUILDING_REMOTELY"
  PROVE  /\ j \in Jobs /\ j \in live /\ j \notin staging
         /\ j \notin localQueue /\ j \notin available /\ j \notin Published
         /\ \A t \in Threads : Busy(t) => tjob[t] # j
         /\ \A c \in Conns : Waiting(c) \/ Owning(c) => cjob[c] # j
<1> USE DEF Ownership, TypeInv, TypeOK
<1>1. j \in Jobs /\ j \in live /\ j \notin staging
  BY DEF UsedJobsAreLive, FreshJobs
<1>2. j \notin localQueue /\ j \notin available
  BY DEF QueuedJobs
<1>3. j \notin Published
  BY DEF PublishedJobs, LocalStates, RemoteResultStates
<1>4. \A t \in Threads : Busy(t) => tjob[t] # j
  BY DEF ThreadJobs, Busy, Building, LocalStates
<1>5. \A c \in Conns : Waiting(c) \/ Owning(c) => cjob[c] # j
  BY DEF AwaitedJobs, OwnedJobs, RemoteResultStates, WaitedForStates
<1> QED
  BY <1>1, <1>2, <1>3, <1>4, <1>5

\* The job of a thread that built it, and who may have it too.
LEMMA BuiltJobIsPrivate ==
  ASSUME TypeInv, Ownership, NEW t \in Threads, Building(t)
  PROVE  /\ tjob[t] \in Jobs /\ tjob[t] \in live /\ tjob[t] \notin staging
         /\ nodeState[tjob[t]] = "BUILDING"
         /\ dist[tjob[t]] \in LocalStates /\ tjob[t] \in inProgress
         /\ tjob[t] \notin localQueue /\ tjob[t] \notin available
         /\ tjob[t] \notin Published
         /\ \A u \in Threads : u # t /\ Busy(u) => tjob[u] # tjob[t]
         /\ \A c \in Conns :
              /\ Owning(c) => cjob[c] # tjob[t]
              /\ Waiting(c) /\ cjob[c] = tjob[t]
                   => dist[tjob[t]] = "RACE_WON_REMOTELY_CANCEL_LOCAL"
              /\ cpc[c] = "handing" /\ cjob[c] = tjob[t] => dist[tjob[t]] = "RACING"
              /\ tjob[t] \in sent[c] => dist[tjob[t]] = "RACING"
<1> USE DEF Ownership, TypeInv, TypeOK
<1>1. Busy(t) /\ tjob[t] \in Jobs /\ nodeState[tjob[t]] = "BUILDING"
  BY DEF Busy, Building, JobsAtHand, UsedJobsAreBuilding
<1>2. /\ dist[tjob[t]] \in LocalStates /\ tjob[t] \in inProgress
      /\ tjob[t] \notin Published
  BY <1>1 DEF ThreadJobs
<1>3. tjob[t] \in live /\ tjob[t] \notin staging
  BY <1>1 DEF UsedJobsAreLive, FreshJobs
<1>4. tjob[t] \notin localQueue /\ tjob[t] \notin available
  BY <1>1, <1>2 DEF QueuedJobs, LocalStates
<1>5. \A u \in Threads : u # t /\ Busy(u) => tjob[u] # tjob[t]
  BY <1>1 DEF OneThreadPerJob
<1>6. ASSUME NEW c \in Conns
      PROVE  /\ Owning(c) => cjob[c] # tjob[t]
             /\ Waiting(c) /\ cjob[c] = tjob[t]
                  => dist[tjob[t]] = "RACE_WON_REMOTELY_CANCEL_LOCAL"
             /\ cpc[c] = "handing" /\ cjob[c] = tjob[t] => dist[tjob[t]] = "RACING"
             /\ tjob[t] \in sent[c] => dist[tjob[t]] = "RACING"
  BY <1>2 DEF RemoteJobs, AwaitedJobs, OwnedJobs, LocalStates, RemoteStates,
              RemoteResultStates, WaitedForStates
<1> QED
  BY <1>1, <1>2, <1>3, <1>4, <1>5, <1>6

----------------------------------------------------------------------------
(* Worker threads                                                           *)

\* Steps that leave all jobs where they are, in the state they are in.
LEMMA ThreadMovesOn ==
  ASSUME TypeInv, TypeInv', Ownership, NEW t \in Threads, NEW r \in Results,
         \/ WakeThread(t)
         \/ BuildLocalJob(t, r) \/ BuildDistributableJob(t, r) \/ BuildRacedJob(t, r)
  PROVE  Ownership'
<1> USE DEF jobVars, queueVars, listVars, batchVars, connVars, mainVars,
            ThreadGoto, ThreadHasResult
<1>1. Published' = Published
  BY DEF Published, WakeThread, BuildLocalJob, BuildDistributableJob, BuildRacedJob
<1> USE <1>1 DEF TypeInv, TypeOK, Ownership,
       JobsAtHand, OneThreadPerJob, OneConnPerJob, OnePublication, QueuedJobs,
       ThreadJobs, RemoteJobs, AwaitedJobs, OwnedJobs, PublishedJobs, FreshJobs,
       UsedJobsAreLive, UsedJobsAreBuilding, CancelledJobsAreAborted,
       Busy, Building, Waiting, Owning, HasJob, Holds
<1>2. CASE WakeThread(t)
  BY <1>2 DEF WakeThread
<1>3. CASE BuildLocalJob(t, r)
  BY <1>3 DEF BuildLocalJob
<1>4. CASE BuildDistributableJob(t, r)
  BY <1>4 DEF BuildDistributableJob
<1>5. CASE BuildRacedJob(t, r)
  BY <1>5 DEF BuildRacedJob
<1> QED
  BY <1>2, <1>3, <1>4, <1>5

LEMMA TakeLocalJobKeepsOwnership ==
  ASSUME TypeInv, TypeInv', Ownership, NEW t \in Threads, TakeLocalJob(t)
  PROVE  Ownership'
<1> USE DEF TypeInv, TypeOK, Ownership, jobVars, queueVars, listVars, batchVars,
            connVars, mainVars
<1>0. Published' = Published
  BY DEF Published, TakeLocalJob
<1>1. CASE ThreadGoto(t, "dist") /\ UNCHANGED localQueue
  BY <1>0, <1>1
     DEF TakeLocalJob, ThreadGoto,
         JobsAtHand, OneThreadPerJob, OneConnPerJob, OnePublication, QueuedJobs,
         ThreadJobs, RemoteJobs, AwaitedJobs, OwnedJobs, PublishedJobs, FreshJobs,
         UsedJobsAreLive, UsedJobsAreBuilding, CancelledJobsAreAborted,
         Busy, Building, Waiting, Owning, HasJob, Holds
<1>2. ASSUME NEW j \in localQueue, localQueue' = localQueue \ {j},
             ThreadTakes(t, "pass1", j)
      PROVE  Ownership'
  <2> USE <1>0, <1>2, LocalJobIsFree DEF TakeLocalJob, ThreadTakes
  <2>1. JobsAtHand' /\ OneThreadPerJob'
    BY DEF JobsAtHand, OneThreadPerJob, Busy, Waiting, HasJob, Owning
  <2>2. OneConnPerJob' /\ OnePublication'
    BY DEF OneConnPerJob, Holds, HasJob, Waiting, Owning, OnePublication
  <2>3. QueuedJobs'
    BY DEF QueuedJobs, Busy
  <2>4. ThreadJobs'
    BY DEF ThreadJobs, Busy, Building
  <2>5. RemoteJobs' /\ AwaitedJobs' /\ OwnedJobs'
    BY DEF RemoteJobs, AwaitedJobs, OwnedJobs, Waiting, Owning
  <2>6. PublishedJobs' /\ FreshJobs' /\ CancelledJobsAreAborted'
    BY DEF PublishedJobs, FreshJobs, CancelledJobsAreAborted
  <2>7. UsedJobsAreLive' /\ UsedJobsAreBuilding'
    BY DEF UsedJobsAreLive, UsedJobsAreBuilding, Busy, HasJob, Waiting, Owning
  <2> QED
    BY <2>1, <2>2, <2>3, <2>4, <2>5, <2>6, <2>7
<1> QED
  BY <1>1, <1>2 DEF TakeLocalJob

LEMMA TakeDistributableJobKeepsOwnership ==
  ASSUME TypeInv, TypeInv', Ownership, NEW t \in Threads, TakeDistributableJob(t)
  PROVE  Ownership'
<1> USE DEF TypeInv, TypeOK, Ownership, jobVars, queueVars, listVars, batchVars,
            connVars, mainVars
<1>0. Published' = Published
  BY DEF Published, TakeDistributableJob
<1>1. CASE ThreadGoto(t, "race") /\ UNCHANGED <<dist, available, inProgress>>
  BY <1>0, <1>1
     DEF TakeDistributableJob, ThreadGoto,
         JobsAtHand, OneThreadPerJob, OneConnPerJob, OnePublication, QueuedJobs,
         ThreadJobs, RemoteJobs, AwaitedJobs, OwnedJobs, PublishedJobs, FreshJobs,
         UsedJobsAreLive, UsedJobsAreBuilding, CancelledJobsAreAborted,
         Busy, Building, Waiting, Owning, HasJob, Holds
<1>2. ASSUME NEW j \in available, TakeDistributable(j, "BUILDING_LOCALLY"),
             ThreadTakes(t, "compile", j)
      PROVE  Ownership'
  <2> USE <1>0, <1>2, AvailableJobIsFree
      DEF TakeDistributableJob, TakeDistributable, ThreadTakes
  <2>1. JobsAtHand' /\ OneThreadPerJob'
    BY DEF JobsAtHand, OneThreadPerJob, Busy, Waiting, HasJob, Owning
  <2>2. OneConnPerJob' /\ OnePublication'
    BY DEF OneConnPerJob, Holds, HasJob, Waiting, Owning, OnePublication
  <2>3. QueuedJobs'
    BY DEF QueuedJobs, Busy
  <2>4. ThreadJobs'
    BY DEF ThreadJobs, Busy, Building, LocalStates
  <2>5. RemoteJobs' /\ AwaitedJobs' /\ OwnedJobs'
    BY DEF RemoteJobs, AwaitedJobs, OwnedJobs, Holds, HasJob, Waiting, Owning
  <2>6. PublishedJobs' /\ FreshJobs' /\ CancelledJobsAreAborted'
    BY DEF PublishedJobs, FreshJobs, CancelledJobsAreAborted
  <2>7. UsedJobsAreLive'
    BY DEF UsedJobsAreLive, Busy, HasJob, Waiting, Owning
  <2>8. UsedJobsAreBuilding'
    BY DEF UsedJobsAreBuilding, Busy, Owning
  <2> QED
    BY <2>1, <2>2, <2>3, <2>4, <2>5, <2>6, <2>7, <2>8
<1> QED
  BY <1>1, <1>2 DEF TakeDistributableJob

LEMMA TakeJobToRaceKeepsOwnership ==
  ASSUME TypeInv, TypeInv', Ownership, NEW t \in Threads, TakeJobToRace(t)
  PROVE  Ownership'
<1> USE DEF TypeInv, TypeOK, Ownership, jobVars, queueVars, listVars, batchVars,
            connVars, mainVars
<1>0. Published' = Published
  BY DEF Published, TakeJobToRace
<1>1. CASE ThreadGoto(t, "waiting") /\ UNCHANGED dist
  BY <1>0, <1>1
     DEF TakeJobToRace, ThreadGoto,
         JobsAtHand, OneThreadPerJob, OneConnPerJob, OnePublication, QueuedJobs,
         ThreadJobs, RemoteJobs, AwaitedJobs, OwnedJobs, PublishedJobs, FreshJobs,
         UsedJobsAreLive, UsedJobsAreBuilding, CancelledJobsAreAborted,
         Busy, Building, Waiting, Owning, HasJob, Holds
<1>2. ASSUME NEW j \in inProgress, dist[j] = "BUILDING_REMOTELY",
             dist' = [dist EXCEPT ![j] = "RACING"], ThreadTakes(t, "raceCompile", j)
      PROVE  Ownership'
  <2> USE <1>0, <1>2, RemoteJobIsNotLocal DEF TakeJobToRace, ThreadTakes
  <2>1. JobsAtHand' /\ OneThreadPerJob'
    BY DEF JobsAtHand, OneThreadPerJob, Busy, Waiting, HasJob, Owning
  <2>2. OneConnPerJob' /\ OnePublication'
    BY DEF OneConnPerJob, Holds, HasJob, Waiting, Owning, OnePublication
  <2>3. QueuedJobs'
    BY DEF QueuedJobs, Busy
  <2>4. ThreadJobs'
    BY DEF ThreadJobs, Busy, Building, LocalStates
  <2>5. RemoteJobs' /\ AwaitedJobs' /\ OwnedJobs'
    BY DEF RemoteJobs, AwaitedJobs, OwnedJobs, RemoteStates, Waiting, Owning
  <2>6. PublishedJobs' /\ FreshJobs' /\ CancelledJobsAreAborted'
    BY DEF PublishedJobs, FreshJobs, CancelledJobsAreAborted
  <2>7. UsedJobsAreLive'
    BY DEF UsedJobsAreLive, Busy, HasJob, Waiting, Owning
  <2>8. mainJob # j
    BY ConstantsAssumption DEF JobsAtHand, Published, ConstantsAssumption
  <2>9. UsedJobsAreBuilding'
    BY <2>8 DEF UsedJobsAreBuilding, Busy, Owning
  <2> QED
    BY <2>1, <2>2, <2>3, <2>4, <2>5, <2>6, <2>7, <2>9
<1> QED
  BY <1>1, <1>2 DEF TakeJobToRace, Raceable

LEMMA QueueDistributableJobKeepsOwnership ==
  ASSUME TypeInv, TypeInv', Ownership, NEW t \in Threads, QueueDistributableJob(t)
  PROVE  Ownership'
<1>0. Published' = Published
  BY DEF Published, QueueDistributableJob, listVars, mainVars
<1> QED
  BY <1>0
     DEF QueueDistributableJob, ThreadDrops, TypeInv, TypeOK, Ownership,
         jobVars, queueVars, listVars, batchVars, connVars, mainVars,
         JobsAtHand, OneThreadPerJob, OneConnPerJob, OnePublication, QueuedJobs,
         ThreadJobs, RemoteJobs, AwaitedJobs, OwnedJobs, PublishedJobs, FreshJobs,
         UsedJobsAreLive, UsedJobsAreBuilding, CancelledJobsAreAborted,
         LocalStates, RemoteStates, RemoteResultStates, WaitedForStates,
         Busy, Building, Waiting, Owning, HasJob, Holds

LEMMA ThreadFinishesKeepsOwnership ==
  ASSUME TypeInv, TypeInv', Ownership, NEW t \in Threads, ThreadFinishes(t)
  PROVE  Ownership'
<1> USE DEF TypeInv, TypeOK, Ownership, jobVars, queueVars, listVars, batchVars,
            connVars, mainVars
<1>0. Published' = Published /\ Building(t)
  BY DEF Published, ThreadFinishes, Building
<1>a. CASE /\ dist[tjob[t]] = "RACE_WON_REMOTELY_CANCEL_LOCAL" /\ tres[t] # "eOk"
           /\ dist' = [dist EXCEPT ![tjob[t]] = "RACE_WON_REMOTELY"]
           /\ UNCHANGED inProgress
           /\ ThreadDrops(t)
  <2> USE <1>0, <1>a, BuiltJobIsPrivate DEF ThreadFinishes, ThreadDrops
  <2>1. JobsAtHand' /\ OneThreadPerJob'
    BY DEF JobsAtHand, OneThreadPerJob, Busy, Waiting, HasJob, Owning
  <2>2. OneConnPerJob' /\ OnePublication'
    BY DEF OneConnPerJob, Holds, HasJob, Waiting, Owning, OnePublication
  <2>3. QueuedJobs'
    BY DEF QueuedJobs, Busy
  <2>4. ThreadJobs'
    BY DEF ThreadJobs, Busy, Building
  <2>5. RemoteJobs' /\ AwaitedJobs' /\ OwnedJobs'
    BY DEF RemoteJobs, AwaitedJobs, OwnedJobs, WaitedForStates, Waiting, Owning
  <2>6. PublishedJobs' /\ FreshJobs' /\ CancelledJobsAreAborted'
    BY DEF PublishedJobs, FreshJobs, CancelledJobsAreAborted
  <2>7. UsedJobsAreLive'
    BY DEF UsedJobsAreLive, Busy, HasJob, Waiting, Owning
  <2>8. UsedJobsAreBuilding'
    BY DEF UsedJobsAreBuilding, Busy, Owning
  <2> QED
    BY <2>1, <2>2, <2>3, <2>4, <2>5, <2>6, <2>7, <2>8
<1>b. CASE /\ dist[tjob[t]] # "RACING"
           /\ dist' = [dist EXCEPT ![tjob[t]] = "COMPLETED_LOCALLY"]
           /\ inProgress' = inProgress \ {tjob[t]}
           /\ ThreadGoto(t, "append")
  <2> USE <1>0, <1>b, BuiltJobIsPrivate DEF ThreadFinishes, ThreadGoto
  <2>1. JobsAtHand' /\ OneThreadPerJob'
    BY DEF JobsAtHand, OneThreadPerJob, Busy, Building, Waiting, HasJob, Owning
  <2>2. OneConnPerJob' /\ OnePublication'
    BY DEF OneConnPerJob, Holds, HasJob, Waiting, Owning, OnePublication
  <2>3. QueuedJobs'
    BY DEF QueuedJobs, Busy, Building
  <2>4. ThreadJobs'
    BY DEF ThreadJobs, Busy, Building
  <2>5. RemoteJobs' /\ AwaitedJobs' /\ OwnedJobs'
    BY DEF RemoteJobs, AwaitedJobs, OwnedJobs, WaitedForStates, Waiting, Owning
  <2>6. PublishedJobs' /\ FreshJobs' /\ CancelledJobsAreAborted'
    BY DEF PublishedJobs, FreshJobs, CancelledJobsAreAborted
  <2>7. UsedJobsAreLive'
    BY DEF UsedJobsAreLive, Busy, Building, HasJob, Waiting, Owning
  <2>8. UsedJobsAreBuilding'
    BY DEF UsedJobsAreBuilding, Busy, Building, Owning
  <2> QED
    BY <2>1, <2>2, <2>3, <2>4, <2>5, <2>6, <2>7, <2>8
<1>c. CASE dist[tjob[t]] = "RACING" /\ UNCHANGED <<dist, inProgress>> /\ ThreadGoto(t, "append")
  <2> USE <1>0, <1>c DEF ThreadFinishes, ThreadGoto
  <2>1. JobsAtHand' /\ OneThreadPerJob' /\ OneConnPerJob' /\ OnePublication'
    BY DEF JobsAtHand, OneThreadPerJob, OneConnPerJob, OnePublication, Busy, Building,
           Holds, Waiting, HasJob, Owning
  <2>2. QueuedJobs' /\ ThreadJobs' /\ RemoteJobs' /\ AwaitedJobs' /\ OwnedJobs'
    BY DEF QueuedJobs, ThreadJobs, RemoteJobs, AwaitedJobs, OwnedJobs, Busy, Building,
           Waiting, Owning
  <2>3. PublishedJobs' /\ FreshJobs' /\ CancelledJobsAreAborted'
    BY DEF PublishedJobs, FreshJobs, CancelledJobsAreAborted
  <2>4. UsedJobsAreLive' /\ UsedJobsAreBuilding'
    BY DEF UsedJobsAreLive, UsedJobsAreBuilding, Busy, Building, HasJob, Waiting, Owning
  <2> QED
    BY <2>1, <2>2, <2>3, <2>4
<1> QED
  BY <1>0, <1>a, <1>b, <1>c, BuiltJobIsPrivate
     DEF ThreadFinishes, FinishInProgress, LocalWasCancelled, AllowRemoteToWin,
         RemoveInProgress, LocalStates

\* The result of a job that a thread or a connection appends.
LEMMA AppendPublishes ==
  ASSUME TypeInv, NEW j \in Jobs, NEW r \in Results, AppendCompleted(j, r),
         UNCHANGED <<reaped, mainVars>>
  PROVE  Published' = Published \cup {j}
  BY DEF TypeInv, TypeOK, AppendCompleted, Published, mainVars

LEMMA ThreadAppendsKeepsOwnership ==
  ASSUME TypeInv, TypeInv', Ownership, NEW t \in Threads, ThreadAppends(t)
  PROVE  Ownership'
<1> USE DEF TypeInv, TypeOK, Ownership, jobVars, queueVars, batchVars, connVars,
            mainVars, ThreadAppends, ThreadDrops
<1>1. /\ Busy(t) /\ tjob[t] \in Jobs /\ tres[t] \in Results
      /\ tjob[t] \notin Published /\ tjob[t] \in live /\ nodeState[tjob[t]] = "BUILDING"
      /\ \/ dist[tjob[t]] \in LocalStates /\ tjob[t] \in inProgress
         \/ dist[tjob[t]] \in {"NONE", "COMPLETED_LOCALLY"} /\ tjob[t] \notin inProgress
      /\ tjob[t] \notin localQueue
      /\ \A u \in Threads : u # t /\ Busy(u) => tjob[u] # tjob[t]
  BY DEF Busy, JobsAtHand, ThreadJobs, UsedJobsAreLive, UsedJobsAreBuilding, QueuedJobs,
         OneThreadPerJob
<1>2. Published' = Published \cup {tjob[t]}
  BY <1>1, AppendPublishes
<1>3. \A c \in Conns : /\ Owning(c) => cjob[c] # tjob[t]
                       /\ Waiting(c) /\ dist[cjob[c]] = "RACE_WON_REMOTELY"
                            => cjob[c] # tjob[t]
  BY <1>1 DEF OwnedJobs, LocalStates, RemoteResultStates
<1> USE <1>1, <1>2, <1>3
<1>4. JobsAtHand' /\ OneThreadPerJob' /\ OneConnPerJob'
  BY DEF JobsAtHand, OneThreadPerJob, OneConnPerJob, Busy, Holds, Waiting, HasJob, Owning
<1>5. OnePublication'
  BY DEF OnePublication, AppendCompleted, Published, JobsAtHand
<1>6. QueuedJobs' /\ ThreadJobs'
  BY DEF QueuedJobs, ThreadJobs, Busy, Building
<1>7. RemoteJobs' /\ AwaitedJobs' /\ OwnedJobs'
  BY DEF RemoteJobs, AwaitedJobs, OwnedJobs, Waiting, Owning
<1>8. PublishedJobs' /\ FreshJobs' /\ CancelledJobsAreAborted'
  BY DEF PublishedJobs, FreshJobs, CancelledJobsAreAborted
<1>9. UsedJobsAreLive' /\ UsedJobsAreBuilding'
  BY DEF UsedJobsAreLive, UsedJobsAreBuilding, Busy, Waiting, HasJob, Owning
<1> QED
  BY <1>4, <1>5, <1>6, <1>7, <1>8, <1>9

\* No step of a worker thread breaks the invariant.
LEMMA ThreadStepKeepsOwnership ==
  ASSUME TypeInv, TypeInv', Ownership, NEW t \in Threads, ThreadStep(t)
  PROVE  Ownership'
<1>1. "eOk" \in Results
  BY DEF Results
<1> QED
  BY <1>1, ThreadMovesOn, TakeLocalJobKeepsOwnership, TakeDistributableJobKeepsOwnership,
     TakeJobToRaceKeepsOwnership, QueueDistributableJobKeepsOwnership,
     ThreadFinishesKeepsOwnership, ThreadAppendsKeepsOwnership
     DEF ThreadStep

----------------------------------------------------------------------------
(* Connections to remote workers                                            *)

\* Steps that leave all jobs where they are, in the state they are in.
LEMMA ConnMovesOn ==
  ASSUME TypeInv, TypeInv', Ownership, NEW c \in Conns,
         ConnectToWorker(c) \/ TrackJob(c) \/ ProcessResult(c) \/ Disconnect(c)
  PROVE  Ownership'
<1> USE DEF jobVars, queueVars, listVars, batchVars, threadVars, mainVars,
            ConnGoto, ConnHolds, ConnDrops
<1>1. Published' = Published
  BY DEF Published, ConnectToWorker, TrackJob, ProcessResult, Disconnect
<1> USE <1>1 DEF TypeInv, TypeOK, Ownership,
       JobsAtHand, OneThreadPerJob, OneConnPerJob, OnePublication, QueuedJobs,
       ThreadJobs, RemoteJobs, AwaitedJobs, OwnedJobs, PublishedJobs, FreshJobs,
       UsedJobsAreLive, UsedJobsAreBuilding, CancelledJobsAreAborted,
       Busy, Building, Waiting, Owning, HasJob, Holds
<1>2. CASE ConnectToWorker(c)
  BY <1>2 DEF ConnectToWorker
<1>3. CASE TrackJob(c)
  BY <1>3 DEF TrackJob
<1>4. CASE ProcessResult(c)
  BY <1>4 DEF ProcessResult, RetrySystemError
<1>5. CASE Disconnect(c)
  BY <1>5 DEF Disconnect
<1> QED
  BY <1>2, <1>3, <1>4, <1>5

LEMMA RequestJobKeepsOwnership ==
  ASSUME TypeInv, TypeInv', Ownership, NEW c \in Conns, RequestJob(c)
  PROVE  Ownership'
<1> USE DEF TypeInv, TypeOK, Ownership, jobVars, listVars, batchVars, threadVars, mainVars
<1>0. Published' = Published
  BY DEF Published, RequestJob
<1>1. PICK j \in available : /\ TakeDistributable(j, "BUILDING_REMOTELY")
                             /\ ConnHolds(c, "handing", j, cres[c])
  BY DEF RequestJob
<1> USE <1>0, <1>1, AvailableJobIsFree DEF RequestJob, TakeDistributable, ConnHolds
<1>2. JobsAtHand' /\ OneThreadPerJob' /\ OnePublication'
  BY DEF JobsAtHand, OneThreadPerJob, OnePublication, Busy, Waiting, HasJob, Owning
<1>3. /\ \A d \in Conns, k \in Jobs : Holds(d, k)' => Holds(d, k) \/ (d = c /\ k = j)
      /\ HasJob(c)' => cjob'[c] \notin sent'[c]
  BY DEF Holds, HasJob, Waiting, Owning
<1>4. OneConnPerJob'
  <2>1. ASSUME NEW d \in Conns, NEW e \in Conns, NEW k \in Jobs, Holds(d, k)', Holds(e, k)'
        PROVE  d = e
    BY <1>3, <2>1 DEF OneConnPerJob
  <2>2. ASSUME NEW d \in Conns, HasJob(d)'
        PROVE  cjob'[d] \notin sent'[d]
    BY <1>3, <2>2 DEF OneConnPerJob, HasJob, Waiting, Owning
  <2> QED
    BY <2>1, <2>2 DEF OneConnPerJob
<1>5. QueuedJobs' /\ ThreadJobs'
  BY DEF QueuedJobs, ThreadJobs, Busy, Building
<1>6. RemoteJobs' /\ AwaitedJobs' /\ OwnedJobs'
  BY DEF RemoteJobs, AwaitedJobs, OwnedJobs, RemoteStates, Holds, HasJob, Waiting, Owning
<1>7. PublishedJobs' /\ FreshJobs' /\ CancelledJobsAreAborted'
  BY DEF PublishedJobs, FreshJobs, CancelledJobsAreAborted
<1>8. UsedJobsAreLive'
  BY DEF UsedJobsAreLive, Busy, HasJob, Waiting, Owning
<1>9. UsedJobsAreBuilding'
  BY DEF UsedJobsAreBuilding, Busy, Owning
<1> QED
  BY <1>2, <1>4, <1>5, <1>6, <1>7, <1>8, <1>9

\* The job that a connection gets back from its worker, and who has it too.
LEMMA SentJobIsRemote ==
  ASSUME TypeInv, Ownership, NEW c \in Conns, ~HasJob(c), NEW j \in sent[c]
  PROVE  /\ j \in Jobs /\ j \in live /\ j \notin staging
         /\ j \notin localQueue /\ j \notin available /\ j \in inProgress
         /\ dist[j] \in RemoteStates
         /\ \A d \in Conns : d # c => ~Holds(d, j)
         /\ dist[j] # "RACING" =>
              j \notin Published /\ \A t \in Threads : Busy(t) => tjob[t] # j
         /\ dist[j] = "BUILDING_REMOTELY" => nodeState[j] = "BUILDING"
         /\ \A t \in Threads : Busy(t) /\ tjob[t] = j => Building(t) \/ tpc[t] = "append"
<1> USE DEF Ownership, TypeInv, TypeOK
<1>1. j \in Jobs /\ dist[j] \in RemoteStates /\ j \in inProgress
  BY DEF RemoteJobs
<1>2. j \in live /\ j \notin staging
  BY <1>1 DEF UsedJobsAreLive, FreshJobs
<1>3. j \notin localQueue /\ j \notin available
  BY <1>1 DEF QueuedJobs
<1>4. \A d \in Conns : d # c => ~Holds(d, j)
  BY <1>1 DEF OneConnPerJob, Holds
<1>5. dist[j] # "RACING" => j \notin Published
  BY <1>1 DEF PublishedJobs, RemoteStates, LocalStates, RemoteResultStates
<1>6. dist[j] # "RACING" => \A t \in Threads : Busy(t) => tjob[t] # j
  BY <1>1 DEF ThreadJobs, Busy, Building, RemoteStates, LocalStates
<1>7. dist[j] = "BUILDING_REMOTELY" => nodeState[j] = "BUILDING"
  BY <1>1, <1>5, ConstantsAssumption
     DEF UsedJobsAreBuilding, JobsAtHand, Published, ConstantsAssumption
<1>8. \A t \in Threads : Busy(t) /\ tjob[t] = j => Building(t) \/ tpc[t] = "append"
  BY <1>1 DEF ThreadJobs, RemoteStates, Busy, Building
<1> QED
  BY <1>1, <1>2, <1>3, <1>4, <1>5, <1>6, <1>7, <1>8

\* What both OnReturnRemoteJob and ReturnUnfinishedDistributableJob do to a job
\* whose remote side gives up: a race becomes a local build ...
LEMMA RaceBecomesLocal ==
  ASSUME TypeInv, TypeInv', Ownership, NEW c \in Conns, ~HasJob(c), NEW j \in sent[c],
         dist[j] = "RACING", dist' = [dist EXCEPT ![j] = "BUILDING_LOCALLY"],
         sent' = [sent EXCEPT ![c] = @ \ {j}],
         UNCHANGED <<nodeState, aborted, live, staging, queueVars, inProgress, listVars,
                     threadVars, cpc, cjob, cres, mainVars>>
  PROVE  Ownership'
<1> USE DEF TypeInv, TypeOK, Ownership, queueVars, listVars, threadVars, mainVars
<1>0. Published' = Published
  BY DEF Published
<1> USE <1>0, SentJobIsRemote
<1>1. JobsAtHand' /\ OneThreadPerJob' /\ OneConnPerJob' /\ OnePublication'
  BY DEF JobsAtHand, OneThreadPerJob, OneConnPerJob, OnePublication, Busy, Holds,
         HasJob, Waiting, Owning
<1>2. QueuedJobs' /\ ThreadJobs'
  BY DEF QueuedJobs, ThreadJobs, Busy, Building, LocalStates
<1>3. RemoteJobs' /\ AwaitedJobs' /\ OwnedJobs'
  <2>1. \A d \in Conns : HasJob(d) => cjob[d] # j
    BY DEF Holds
  <2>2. RemoteJobs'
    BY <2>1 DEF RemoteJobs, Holds, HasJob
  <2>3. AwaitedJobs' /\ OwnedJobs'
    BY <2>1 DEF AwaitedJobs, OwnedJobs, HasJob, Waiting, Owning
  <2> QED
    BY <2>2, <2>3
<1>4. PublishedJobs' /\ FreshJobs' /\ CancelledJobsAreAborted'
  BY DEF PublishedJobs, FreshJobs, CancelledJobsAreAborted, LocalStates
<1>5. UsedJobsAreLive'
  BY DEF UsedJobsAreLive, Busy, HasJob, Waiting, Owning
<1>6. UsedJobsAreBuilding'
  BY DEF UsedJobsAreBuilding, Busy, Owning
<1> QED
  BY <1>1, <1>2, <1>3, <1>4, <1>5, <1>6

\* ... and a job that was finished without it is deleted.
LEMMA LostRaceIsDeleted ==
  ASSUME TypeInv, TypeInv', Ownership, NEW c \in Conns, ~HasJob(c), NEW j \in sent[c],
         dist[j] = "RACE_WON_LOCALLY",
         inProgress' = inProgress \ {j}, live' = live \ {j},
         sent' = [sent EXCEPT ![c] = @ \ {j}],
         UNCHANGED <<nodeState, dist, aborted, staging, queueVars, listVars,
                     threadVars, cpc, cjob, cres, mainVars>>
  PROVE  Ownership'
<1> USE DEF TypeInv, TypeOK, Ownership, queueVars, listVars, threadVars, mainVars
<1>0. Published' = Published
  BY DEF Published
<1> USE <1>0, SentJobIsRemote
<1>1. JobsAtHand' /\ OneThreadPerJob' /\ OneConnPerJob' /\ OnePublication'
  BY DEF JobsAtHand, OneThreadPerJob, OneConnPerJob, OnePublication, Busy, Holds,
         HasJob, Waiting, Owning
<1>2. QueuedJobs' /\ ThreadJobs'
  BY DEF QueuedJobs, ThreadJobs, Busy, Building
<1>3. RemoteJobs' /\ AwaitedJobs' /\ OwnedJobs'
  <2>1. \A d \in Conns : HasJob(d) => cjob[d] # j
    BY DEF Holds
  <2>2. RemoteJobs'
    BY <2>1 DEF RemoteJobs, Holds, HasJob
  <2>3. AwaitedJobs' /\ OwnedJobs'
    BY <2>1 DEF AwaitedJobs, OwnedJobs, HasJob, Waiting, Owning
  <2> QED
    BY <2>2, <2>3
<1>4. PublishedJobs' /\ FreshJobs' /\ CancelledJobsAreAborted'
  BY DEF PublishedJobs, FreshJobs, CancelledJobsAreAborted
<1>5. UsedJobsAreLive'
  <2>1. \A d \in Conns : HasJob(d) => cjob[d] # j
    BY DEF Holds
  <2>2. \A d \in Conns : j \notin sent'[d]
    BY DEF Holds
  <2> QED
    BY <2>1, <2>2 DEF UsedJobsAreLive, Busy, HasJob, Waiting, Owning
<1>6. UsedJobsAreBuilding'
  BY DEF UsedJobsAreBuilding, Busy, Owning
<1> QED
  BY <1>1, <1>2, <1>3, <1>4, <1>5, <1>6

LEMMA ReceiveJobResultKeepsOwnership ==
  ASSUME TypeInv, TypeInv', Ownership, NEW c \in Conns, NEW j \in Jobs,
         NEW outcome \in Outcomes, ReceiveJobResult(c, j, outcome)
  PROVE  Ownership'
<1> USE DEF TypeInv, TypeOK, Ownership, jobVars, queueVars, listVars, batchVars,
            threadVars, mainVars
<1>0. /\ Published' = Published /\ j \in sent[c] /\ ~HasJob(c)
      /\ sent' = [sent EXCEPT ![c] = @ \ {j}] /\ aborted \subseteq aborted'
  BY DEF Published, ReceiveJobResult, OnReturnRemoteJob, HasJob, Waiting, Owning
<1>1. CASE /\ dist[j] = "RACING" /\ dist' = [dist EXCEPT ![j] = "BUILDING_LOCALLY"]
           /\ UNCHANGED <<aborted, live, inProgress, cpc, cjob, cres>>
  BY <1>0, <1>1, RaceBecomesLocal DEF ReceiveJobResult
<1>2. CASE /\ dist[j] = "BUILDING_REMOTELY"
           /\ dist' = [dist EXCEPT ![j] = "COMPLETED_REMOTELY"]
           /\ ConnHolds(c, "owned", j, outcome)
           /\ UNCHANGED <<live, inProgress>>
  <2> USE <1>0, <1>2, SentJobIsRemote DEF ReceiveJobResult, ConnHolds
  <2>1. JobsAtHand' /\ OneThreadPerJob' /\ OnePublication'
    BY DEF JobsAtHand, OneThreadPerJob, OnePublication, Busy, HasJob, Waiting, Owning
  <2>2. OneConnPerJob'
    BY DEF OneConnPerJob, Holds, HasJob, Waiting, Owning
  <2>3. QueuedJobs' /\ ThreadJobs'
    <3>1. QueuedJobs'
      BY DEF QueuedJobs, Busy
    <3>2. ThreadJobs'
      BY DEF ThreadJobs, Busy, Building
    <3> QED
      BY <3>1, <3>2
  <2>4. RemoteJobs' /\ AwaitedJobs' /\ OwnedJobs'
    <3>1. \A d \in Conns : /\ j \in sent'[d] => FALSE
                           /\ HasJob(d) => d # c /\ cjob[d] # j
      BY DEF OneConnPerJob, Holds, HasJob, Waiting, Owning
    <3>2. RemoteJobs'
      BY <3>1 DEF RemoteJobs, HasJob
    <3>3. AwaitedJobs'
      BY <3>1 DEF AwaitedJobs, HasJob, Waiting
    <3>4. OwnedJobs'
      BY <3>1 DEF OwnedJobs, RemoteResultStates, HasJob, Owning
    <3> QED
      BY <3>2, <3>3, <3>4
  <2>5. PublishedJobs' /\ FreshJobs' /\ CancelledJobsAreAborted'
    BY DEF PublishedJobs, FreshJobs, CancelledJobsAreAborted
  <2>6. UsedJobsAreLive'
    BY DEF UsedJobsAreLive, Busy, HasJob, Waiting, Owning
  <2>7. UsedJobsAreBuilding'
    BY DEF UsedJobsAreBuilding, Busy, Owning
  <2> QED
    BY <2>1, <2>2, <2>3, <2>4, <2>5, <2>6, <2>7
<1>3. CASE /\ dist[j] = "RACE_WON_LOCALLY"
           /\ inProgress' = inProgress \ {j} /\ live' = live \ {j}
           /\ UNCHANGED <<dist, aborted, cpc, cjob, cres>>
  BY <1>0, <1>3, LostRaceIsDeleted DEF ReceiveJobResult
<1>4. CASE /\ outcome # "systemError" /\ dist[j] = "RACING"
           /\ dist' = [dist EXCEPT ![j] = "RACE_WON_REMOTELY_CANCEL_LOCAL"]
           /\ aborted' = aborted \cup {j}
           /\ ConnHolds(c, "awaitCancel", j, outcome)
           /\ UNCHANGED <<live, inProgress>>
  <2> USE <1>0, <1>4, SentJobIsRemote DEF ReceiveJobResult, ConnHolds
  <2>1. JobsAtHand' /\ OneThreadPerJob' /\ OnePublication'
    BY DEF JobsAtHand, OneThreadPerJob, OnePublication, Busy, HasJob, Waiting, Owning
  <2>2. OneConnPerJob'
    BY DEF OneConnPerJob, Holds, HasJob, Waiting, Owning
  <2>3. QueuedJobs' /\ ThreadJobs'
    BY DEF QueuedJobs, ThreadJobs, Busy, Building, LocalStates
  <2>4. RemoteJobs' /\ AwaitedJobs' /\ OwnedJobs'
    <3>1. \A d \in Conns : /\ j \in sent'[d] => FALSE
                           /\ HasJob(d) => d # c /\ cjob[d] # j
      BY DEF OneConnPerJob, Holds, HasJob, Waiting, Owning
    <3>2. RemoteJobs'
      BY <3>1 DEF RemoteJobs, HasJob
    <3>3. AwaitedJobs'
      BY <3>1 DEF AwaitedJobs, WaitedForStates, HasJob, Waiting
    <3>4. OwnedJobs'
      BY <3>1 DEF OwnedJobs, HasJob, Owning
    <3> QED
      BY <3>2, <3>3, <3>4
  <2>5. PublishedJobs' /\ FreshJobs' /\ CancelledJobsAreAborted'
    BY DEF PublishedJobs, FreshJobs, CancelledJobsAreAborted, LocalStates
  <2>6. UsedJobsAreLive'
    BY DEF UsedJobsAreLive, Busy, HasJob, Waiting, Owning
  <2>7. UsedJobsAreBuilding'
    BY DEF UsedJobsAreBuilding, Busy, Owning
  <2> QED
    BY <2>1, <2>2, <2>3, <2>4, <2>5, <2>6, <2>7
<1> QED
  BY <1>1, <1>2, <1>3, <1>4 DEF ReceiveJobResult, OnReturnRemoteJob, RemoveInProgress

LEMMA LocalRaceEndsKeepsOwnership ==
  ASSUME TypeInv, TypeInv', Ownership, NEW c \in Conns, LocalRaceEnds(c)
  PROVE  Ownership'
<1> USE DEF TypeInv, TypeOK, Ownership, jobVars, queueVars, listVars, batchVars,
            threadVars, mainVars
<1>0. Published' = Published
  BY DEF Published, LocalRaceEnds
<1>1. CASE ConnDrops(c, "up")
  <2> USE <1>0, <1>1 DEF LocalRaceEnds, ConnDrops
  <2>1. JobsAtHand' /\ OneThreadPerJob' /\ OnePublication'
    BY DEF JobsAtHand, OneThreadPerJob, OnePublication, Busy, HasJob, Waiting, Owning
  <2>2. OneConnPerJob'
    BY DEF OneConnPerJob, Holds, HasJob, Waiting, Owning
  <2>3. QueuedJobs' /\ ThreadJobs' /\ RemoteJobs' /\ AwaitedJobs' /\ OwnedJobs'
    BY DEF QueuedJobs, ThreadJobs, RemoteJobs, AwaitedJobs, OwnedJobs, Busy, Building,
           HasJob, Waiting, Owning
  <2>4. PublishedJobs' /\ FreshJobs' /\ CancelledJobsAreAborted'
    BY DEF PublishedJobs, FreshJobs, CancelledJobsAreAborted
  <2>5. UsedJobsAreLive' /\ UsedJobsAreBuilding'
    BY DEF UsedJobsAreLive, UsedJobsAreBuilding, Busy, HasJob, Waiting, Owning
  <2> QED
    BY <2>1, <2>2, <2>3, <2>4, <2>5
<1>2. CASE /\ cjob[c] \in inProgress /\ dist[cjob[c]] = "RACE_WON_REMOTELY"
           /\ ConnGoto(c, "owned")
  <2> USE <1>0, <1>2 DEF LocalRaceEnds, ConnGoto
  <2>1. JobsAtHand' /\ OneThreadPerJob' /\ OnePublication'
    BY DEF JobsAtHand, OneThreadPerJob, OnePublication, Busy, HasJob, Waiting, Owning
  <2>2. OneConnPerJob'
    BY DEF OneConnPerJob, Holds, HasJob, Waiting, Owning
  <2>3. /\ cjob[c] \in Jobs /\ cjob[c] \notin Published /\ mainJob # cjob[c]
    BY ConstantsAssumption
       DEF JobsAtHand, AwaitedJobs, HasJob, Waiting, Published, ConstantsAssumption
  <2>4. QueuedJobs' /\ ThreadJobs'
    BY DEF QueuedJobs, ThreadJobs, Busy, Building
  <2>5. RemoteJobs' /\ AwaitedJobs' /\ OwnedJobs'
    BY <2>3 DEF RemoteJobs, AwaitedJobs, OwnedJobs, RemoteResultStates, Waiting, Owning
  <2>6. PublishedJobs' /\ FreshJobs' /\ CancelledJobsAreAborted'
    BY DEF PublishedJobs, FreshJobs, CancelledJobsAreAborted
  <2>7. UsedJobsAreLive'
    BY <2>3 DEF UsedJobsAreLive, Busy, HasJob, Waiting, Owning
  <2>8. UsedJobsAreBuilding'
    BY <2>3 DEF UsedJobsAreBuilding, Busy, Owning
  <2> QED
    BY <2>1, <2>2, <2>4, <2>5, <2>6, <2>7, <2>8
<1> QED
  BY <1>1, <1>2 DEF LocalRaceEnds

\* The job that a connection owns, and that nobody else has.
LEMMA OwnedJobIsPrivate ==
  ASSUME TypeInv, Ownership, NEW c \in Conns, Owning(c)
  PROVE  /\ cjob[c] \in Jobs /\ cjob[c] \in live /\ cjob[c] \notin staging
         /\ nodeState[cjob[c]] = "BUILDING"
         /\ dist[cjob[c]] \in RemoteResultStates
         /\ cjob[c] \notin localQueue /\ cjob[c] \notin available
         /\ cjob[c] \notin Published /\ cjob[c] \notin sent[c]
         /\ \A t \in Threads : Busy(t) => tjob[t] # cjob[c]
         /\ \A d \in Conns : d # c => ~Holds(d, cjob[c])
<1> USE DEF Ownership, TypeInv, TypeOK
<1>1. /\ cjob[c] \in Jobs /\ nodeState[cjob[c]] = "BUILDING"
      /\ dist[cjob[c]] \in RemoteResultStates /\ cjob[c] \notin Published
  BY DEF JobsAtHand, HasJob, UsedJobsAreBuilding, OwnedJobs
<1>2. cjob[c] \in live /\ cjob[c] \notin staging
  BY <1>1 DEF UsedJobsAreLive, FreshJobs, HasJob, Waiting, Owning
<1>3. cjob[c] \notin localQueue /\ cjob[c] \notin available
  BY <1>1 DEF QueuedJobs, RemoteResultStates
<1>4. \A t \in Threads : Busy(t) => tjob[t] # cjob[c]
  BY <1>1 DEF ThreadJobs, Busy, Building, LocalStates, RemoteResultStates
<1>5. cjob[c] \notin sent[c] /\ \A d \in Conns : d # c => ~Holds(d, cjob[c])
  BY <1>1 DEF OneConnPerJob, Holds, HasJob
<1> QED
  BY <1>1, <1>2, <1>3, <1>4, <1>5

LEMMA RequeueAfterSystemErrorKeepsOwnership ==
  ASSUME TypeInv, TypeInv', Ownership, NEW c \in Conns, RequeueAfterSystemError(c)
  PROVE  Ownership'
<1> USE DEF TypeInv, TypeOK, Ownership, jobVars, listVars, batchVars, threadVars, mainVars
<1>0. Published' = Published /\ Owning(c)
  BY DEF Published, RequeueAfterSystemError, Owning
<1>1. /\ inProgress' = inProgress \ {cjob[c]} /\ available' = available \cup {cjob[c]}
      /\ dist' = [dist EXCEPT ![cjob[c]] = "AVAILABLE"] /\ UNCHANGED live
      /\ ConnDrops(c, "up")
  BY <1>0, OwnedJobIsPrivate
     DEF RequeueAfterSystemError, ReturnUnfinished, RemoveInProgress, RemoteResultStates
<1> USE <1>0, <1>1, OwnedJobIsPrivate DEF RequeueAfterSystemError, ConnDrops
<1>2. JobsAtHand' /\ OneThreadPerJob' /\ OnePublication'
  BY DEF JobsAtHand, OneThreadPerJob, OnePublication, Busy, HasJob, Waiting, Owning
<1>3. OneConnPerJob'
  BY DEF OneConnPerJob, Holds, HasJob, Waiting, Owning
<1>4. QueuedJobs' /\ ThreadJobs'
  BY DEF QueuedJobs, ThreadJobs, Busy, Building
<1>5. RemoteJobs' /\ AwaitedJobs' /\ OwnedJobs'
  BY DEF RemoteJobs, AwaitedJobs, OwnedJobs, Holds, HasJob, Waiting, Owning
<1>6. PublishedJobs' /\ FreshJobs' /\ CancelledJobsAreAborted'
  BY DEF PublishedJobs, FreshJobs, CancelledJobsAreAborted
<1>7. UsedJobsAreLive'
  BY DEF UsedJobsAreLive, Busy, HasJob, Waiting, Owning
<1>8. UsedJobsAreBuilding'
  BY DEF UsedJobsAreBuilding, Busy, Owning
<1> QED
  BY <1>2, <1>3, <1>4, <1>5, <1>6, <1>7, <1>8

LEMMA ConnFinishesKeepsOwnership ==
  ASSUME TypeInv, TypeInv', Ownership, NEW c \in Conns, ConnFinishes(c)
  PROVE  Ownership'
<1> USE DEF TypeInv, TypeOK, Ownership, jobVars, queueVars, listVars, batchVars,
            threadVars, mainVars
<1>0. Published' = Published /\ Owning(c)
  BY DEF Published, ConnFinishes, Owning
<1>1. inProgress' = inProgress \ {cjob[c]} /\ UNCHANGED dist /\ ConnGoto(c, "append")
  BY <1>0, OwnedJobIsPrivate
     DEF ConnFinishes, FinishInProgress, LocalWasCancelled, RemoveInProgress,
         RemoteResultStates
<1> USE <1>0, <1>1, OwnedJobIsPrivate DEF ConnFinishes, ConnGoto
<1>2. JobsAtHand' /\ OneThreadPerJob' /\ OnePublication'
  BY DEF JobsAtHand, OneThreadPerJob, OnePublication, Busy, HasJob, Waiting, Owning
<1>3. OneConnPerJob'
  BY DEF OneConnPerJob, Holds, HasJob, Waiting, Owning
<1>4. QueuedJobs' /\ ThreadJobs'
  BY DEF QueuedJobs, ThreadJobs, Busy, Building
<1>5. RemoteJobs' /\ AwaitedJobs' /\ OwnedJobs'
  BY DEF RemoteJobs, AwaitedJobs, OwnedJobs, Holds, HasJob, Waiting, Owning
<1>6. PublishedJobs' /\ FreshJobs' /\ CancelledJobsAreAborted'
  BY DEF PublishedJobs, FreshJobs, CancelledJobsAreAborted
<1>7. UsedJobsAreLive' /\ UsedJobsAreBuilding'
  BY DEF UsedJobsAreLive, UsedJobsAreBuilding, Busy, HasJob, Waiting, Owning
<1> QED
  BY <1>2, <1>3, <1>4, <1>5, <1>6, <1>7

LEMMA ConnAppendsKeepsOwnership ==
  ASSUME TypeInv, TypeInv', Ownership, NEW c \in Conns, ConnAppends(c)
  PROVE  Ownership'
<1> USE DEF TypeInv, TypeOK, Ownership, jobVars, queueVars, batchVars, threadVars,
            mainVars, ConnAppends, ConnDrops
<1>0. Owning(c) /\ cjob[c] \notin inProgress
  BY DEF Owning, OwnedJobs
<1>1. cres[c] \in Results
  BY DEF OwnedJobs, Owning, Outcomes, Results
<1>2. Published' = Published \cup {cjob[c]}
  BY <1>0, <1>1, OwnedJobIsPrivate, AppendPublishes
<1> USE <1>0, <1>2, OwnedJobIsPrivate
<1>3. JobsAtHand' /\ OneThreadPerJob' /\ OneConnPerJob'
  BY DEF JobsAtHand, OneThreadPerJob, OneConnPerJob, Busy, Holds, Waiting, HasJob, Owning
<1>4. OnePublication'
  BY <1>1 DEF OnePublication, AppendCompleted, Published, JobsAtHand
<1>5. QueuedJobs'
  BY DEF QueuedJobs, Busy
<1>6. ThreadJobs'
  BY DEF ThreadJobs, Busy, Building
<1>7. RemoteJobs' /\ AwaitedJobs' /\ OwnedJobs'
  BY DEF RemoteJobs, AwaitedJobs, OwnedJobs, Holds, HasJob, Waiting, Owning
<1>8. PublishedJobs' /\ FreshJobs' /\ CancelledJobsAreAborted'
  BY DEF PublishedJobs, FreshJobs, CancelledJobsAreAborted
<1>9. UsedJobsAreLive' /\ UsedJobsAreBuilding'
  BY DEF UsedJobsAreLive, UsedJobsAreBuilding, Busy, Waiting, HasJob, Owning
<1> QED
  BY <1>3, <1>4, <1>5, <1>6, <1>7, <1>8, <1>9

\* A job that only a remote worker was building is available again.
LEMMA RemoteJobIsRequeued ==
  ASSUME TypeInv, TypeInv', Ownership, NEW c \in Conns, ~HasJob(c), NEW j \in sent[c],
         dist[j] = "BUILDING_REMOTELY", dist' = [dist EXCEPT ![j] = "AVAILABLE"],
         inProgress' = inProgress \ {j}, available' = available \cup {j},
         sent' = [sent EXCEPT ![c] = @ \ {j}],
         UNCHANGED <<nodeState, aborted, live, staging, localQueue, listVars,
                     threadVars, cpc, cjob, cres, mainVars>>
  PROVE  Ownership'
<1> USE DEF TypeInv, TypeOK, Ownership, listVars, threadVars, mainVars
<1>0. Published' = Published
  BY DEF Published
<1> USE <1>0, SentJobIsRemote
<1>1. JobsAtHand' /\ OneThreadPerJob' /\ OnePublication'
  BY DEF JobsAtHand, OneThreadPerJob, OnePublication, Busy, HasJob, Waiting, Owning
<1>2. OneConnPerJob'
  BY DEF OneConnPerJob, Holds, HasJob, Waiting, Owning
<1>3. QueuedJobs' /\ ThreadJobs'
  <2>1. QueuedJobs'
    BY DEF QueuedJobs, Busy
  <2>2. ThreadJobs'
    BY DEF ThreadJobs, Busy, Building
  <2> QED
    BY <2>1, <2>2
<1>4. \A d \in Conns : HasJob(d) => cjob[d] # j
  BY DEF Holds
<1>5. RemoteJobs'
  BY <1>4 DEF RemoteJobs, Holds, HasJob
<1>6. AwaitedJobs' /\ OwnedJobs'
  BY <1>4 DEF AwaitedJobs, OwnedJobs, HasJob, Waiting, Owning
<1>7. PublishedJobs' /\ FreshJobs' /\ CancelledJobsAreAborted'
  BY DEF PublishedJobs, FreshJobs, CancelledJobsAreAborted
<1>8. UsedJobsAreLive'
  BY DEF UsedJobsAreLive, Busy, HasJob, Waiting, Owning
<1>9. UsedJobsAreBuilding'
  BY DEF UsedJobsAreBuilding, Busy, Owning
<1> QED
  BY <1>1, <1>2, <1>3, <1>5, <1>6, <1>7, <1>8, <1>9

LEMMA OnDisconnectedKeepsOwnership ==
  ASSUME TypeInv, TypeInv', Ownership, NEW c \in Conns, OnDisconnected(c)
  PROVE  Ownership'
<1> USE DEF OnDisconnected, jobVars, batchVars
<1>0. ~HasJob(c)
  BY DEF HasJob, Waiting, Owning
<1>1. CASE /\ sent[c] = {} /\ ConnGoto(c, "down")
           /\ UNCHANGED <<dist, live, available, inProgress, sent>>
  <2>1. Published' = Published
    BY DEF Published, listVars, mainVars
  <2> QED
    BY <1>0, <1>1, <2>1
       DEF TypeInv, TypeOK, Ownership, ConnGoto, listVars, threadVars, mainVars,
           JobsAtHand, OneThreadPerJob, OneConnPerJob, OnePublication, QueuedJobs,
           ThreadJobs, RemoteJobs, AwaitedJobs, OwnedJobs, PublishedJobs, FreshJobs,
           UsedJobsAreLive, UsedJobsAreBuilding, CancelledJobsAreAborted,
           Busy, Building, Waiting, Owning, HasJob, Holds
<1>2. ASSUME NEW j \in sent[c], ReturnUnfinished(j), UNCHANGED <<cpc, cjob, cres>>,
             sent' = [sent EXCEPT ![c] = @ \ {j}]
      PROVE  Ownership'
  <2> USE <1>0, <1>2 DEF ReturnUnfinished, RemoveInProgress
  <2>1. dist[j] \in RemoteStates
    BY SentJobIsRemote
  <2>2. CASE dist[j] = "RACING"
    BY <2>2, RaceBecomesLocal DEF queueVars
  <2>3. CASE dist[j] = "RACE_WON_LOCALLY"
    BY <2>3, LostRaceIsDeleted DEF queueVars
  <2>4. CASE dist[j] = "BUILDING_REMOTELY"
    BY <2>4, RemoteJobIsRequeued
  <2> QED
    BY <2>1, <2>2, <2>3, <2>4 DEF RemoteStates
<1> QED
  BY <1>1, <1>2

\* No step of a connection breaks the invariant.
LEMMA ConnStepKeepsOwnership ==
  ASSUME TypeInv, TypeInv', Ownership, NEW c \in Conns, ConnStep(c)
  PROVE  Ownership'
BY ConnMovesOn, RequestJobKeepsOwnership, ReceiveJobResultKeepsOwnership,
   LocalRaceEndsKeepsOwnership, RequeueAfterSystemErrorKeepsOwnership,
   ConnFinishesKeepsOwnership, ConnAppendsKeepsOwnership, OnDisconnectedKeepsOwnership
   DEF ConnStep, ConnProceeds, RemoteAnswers

----------------------------------------------------------------------------
(* The main thread                                                          *)

\* Steps that leave all jobs where they are, in the state they are in.
LEMMA MainMovesOn ==
  ASSUME TypeInv, TypeInv', Ownership,
         FinalizeDone \/ ClientDeleted \/ WaitForWorkers \/ AbortBuild
  PROVE  Ownership'
<1> USE DEF jobVars, queueVars, listVars, batchVars, threadVars, connVars, mainVars, MainGoto
<1>1. Published' = Published
  BY DEF Published, FinalizeDone, ClientDeleted, WaitForWorkers, AbortBuild
<1> USE <1>1 DEF TypeInv, TypeOK, Ownership,
       JobsAtHand, OneThreadPerJob, OneConnPerJob, OnePublication, QueuedJobs,
       ThreadJobs, RemoteJobs, AwaitedJobs, OwnedJobs, PublishedJobs, FreshJobs,
       UsedJobsAreLive, UsedJobsAreBuilding, CancelledJobsAreAborted,
       Busy, Building, Waiting, Owning, HasJob, Holds
<1>2. CASE FinalizeDone
  BY <1>2 DEF FinalizeDone
<1>3. CASE ClientDeleted
  BY <1>3 DEF ClientDeleted
<1>4. CASE WaitForWorkers
  BY <1>4 DEF WaitForWorkers
<1>5. CASE AbortBuild
  BY <1>5 DEF AbortBuild
<1> QED
  BY <1>2, <1>3, <1>4, <1>5

LEMMA SwapCompletedJobsKeepsOwnership ==
  ASSUME TypeInv, TypeInv', Ownership, SwapCompletedJobs
  PROVE  Ownership'
<1> USE DEF TypeInv, TypeOK, Ownership, jobVars, queueVars, batchVars, threadVars, connVars,
            SwapCompletedJobs, MainGoto
<1>0. Published' = Published
  BY DEF Published, NoJobs, OnePublication
<1>1. OnePublication'
  BY DEF OnePublication, NoJobs
<1> USE <1>0
<1>2. JobsAtHand' /\ OneThreadPerJob' /\ OneConnPerJob'
  BY DEF JobsAtHand, OneThreadPerJob, OneConnPerJob, Busy, Holds, HasJob, Waiting, Owning
<1>3. QueuedJobs' /\ ThreadJobs' /\ RemoteJobs'
  BY DEF QueuedJobs, ThreadJobs, RemoteJobs, Busy, Building
<1>4. AwaitedJobs' /\ OwnedJobs' /\ PublishedJobs'
  BY DEF AwaitedJobs, OwnedJobs, PublishedJobs, Waiting, Owning
<1>5. FreshJobs' /\ CancelledJobsAreAborted'
  BY DEF FreshJobs, CancelledJobsAreAborted
<1>6. UsedJobsAreLive'
  BY DEF UsedJobsAreLive, Busy, HasJob, Waiting, Owning
<1>7. UsedJobsAreBuilding'
  BY DEF UsedJobsAreBuilding, JobsAtHand, Busy, Owning
<1> QED
  BY <1>1, <1>2, <1>3, <1>4, <1>5, <1>6, <1>7

LEMMA FinalizeNodeKeepsOwnership ==
  ASSUME TypeInv, TypeInv', Ownership, NEW j \in Jobs, NEW r \in Results, FinalizeNode(j, r)
  PROVE  Ownership'
<1> USE DEF TypeInv, TypeOK, Ownership, jobVars, queueVars, threadVars, connVars, FinalizeNode
<1>1. j \in Published /\ j \in live /\ mainJob = None /\ mainJob' = j
  BY DEF Published, UsedJobsAreLive, JobsAtHand
<1>2. Published' = Published
  BY DEF Published
<1>3. /\ j \notin staging /\ j \notin localQueue /\ j \notin available
      /\ nodeState[j] # "DYNAMIC_DEPS"
      /\ \A t \in Threads : Busy(t) => tjob[t] # j
      /\ \A c \in Conns : Owning(c) => cjob[c] # j
  BY <1>1 DEF FreshJobs, QueuedJobs, ThreadJobs, OwnedJobs, PublishedJobs, LocalStates,
              RemoteResultStates
<1>4. /\ \A k \in Jobs : k # j => nodeState'[k] = nodeState[k]
      /\ nodeState'[j] # "DYNAMIC_DEPS"
  BY DEF FinalState, Results
<1> USE <1>1, <1>2, <1>3, <1>4
<1>5. JobsAtHand' /\ OneThreadPerJob' /\ OneConnPerJob'
  BY DEF JobsAtHand, OneThreadPerJob, OneConnPerJob, Busy, Holds, HasJob, Waiting, Owning
<1>6. OnePublication'
  BY DEF OnePublication
<1>7. QueuedJobs' /\ ThreadJobs' /\ RemoteJobs' /\ AwaitedJobs' /\ OwnedJobs'
  BY DEF QueuedJobs, ThreadJobs, RemoteJobs, AwaitedJobs, OwnedJobs, Busy, Building,
         Waiting, Owning
<1>8. PublishedJobs' /\ CancelledJobsAreAborted'
  BY DEF PublishedJobs, CancelledJobsAreAborted
<1>9. FreshJobs'
  BY DEF FreshJobs
<1>10. UsedJobsAreLive'
  BY DEF UsedJobsAreLive, Busy, HasJob, Waiting, Owning
<1>11. UsedJobsAreBuilding'
  <2>1. \A k \in Jobs : mainJob # k
    BY ConstantsAssumption DEF ConstantsAssumption
  <2>2. \A k \in localQueue \cup available : nodeState'[k] = "BUILDING"
    BY DEF UsedJobsAreBuilding
  <2>3. \A k \in inProgress :
          dist[k] # "RACE_WON_LOCALLY" /\ mainJob' # k => nodeState'[k] = "BUILDING"
    BY <2>1 DEF UsedJobsAreBuilding
  <2>4. \A t \in Threads : Busy(t) => nodeState'[tjob[t]] = "BUILDING"
    BY DEF UsedJobsAreBuilding, JobsAtHand
  <2>5. \A c \in Conns : Owning(c) => nodeState'[cjob[c]] = "BUILDING"
    BY DEF UsedJobsAreBuilding, JobsAtHand, HasJob
  <2>6. \A k \in Published : mainJob' # k => nodeState'[k] = "BUILDING"
    BY <2>1 DEF UsedJobsAreBuilding, Published
  <2> QED
    BY <2>2, <2>3, <2>4, <2>5, <2>6 DEF UsedJobsAreBuilding, Busy, Owning
<1> QED
  BY <1>5, <1>6, <1>7, <1>8, <1>9, <1>10, <1>11

\* The main thread owns the job it is at, but for the remote side of its race and
\* a connection that waits for its cancellation.
LEMMA MainJobIsPrivate ==
  ASSUME TypeInv, Ownership, main = "dispose"
  PROVE  /\ mainJob \in Jobs /\ mainJob \in Published
         /\ \A r \in Results : mainJob \notin completed[r] /\ mainJob \notin reaped[r]
         /\ mainJob \notin localQueue /\ mainJob \notin available
         /\ \/ dist[mainJob] \in LocalStates /\ mainJob \in inProgress
            \/ dist[mainJob] \in {"NONE", "COMPLETED_LOCALLY"} \cup RemoteResultStates
                 /\ mainJob \notin inProgress
         /\ \A t \in Threads : Busy(t) => tjob[t] # mainJob
         /\ \A c \in Conns :
              /\ Owning(c) => cjob[c] # mainJob
              /\ cpc[c] = "handing" /\ cjob[c] = mainJob => dist[mainJob] = "RACING"
              /\ mainJob \in sent[c] => dist[mainJob] = "RACING"
              /\ Waiting(c) /\ cjob[c] = mainJob => dist[mainJob] \in WaitedForStates
<1> USE DEF Ownership, TypeInv, TypeOK
<1>1. mainJob \in Jobs /\ mainJob \in Published
  BY DEF JobsAtHand, Published
<1>2. \A r \in Results : mainJob \notin completed[r] /\ mainJob \notin reaped[r]
  BY DEF OnePublication
<1>3. \/ dist[mainJob] \in LocalStates /\ mainJob \in inProgress
      \/ dist[mainJob] \in {"NONE", "COMPLETED_LOCALLY"} \cup RemoteResultStates
           /\ mainJob \notin inProgress
  BY <1>1 DEF PublishedJobs
<1>4. mainJob \notin localQueue /\ mainJob \notin available
  BY <1>1, <1>3 DEF QueuedJobs, LocalStates, RemoteResultStates
<1>5. \A t \in Threads : Busy(t) => tjob[t] # mainJob
  BY <1>1 DEF ThreadJobs
<1>6. \A c \in Conns : /\ Owning(c) => cjob[c] # mainJob
                       /\ Waiting(c) /\ cjob[c] = mainJob => dist[mainJob] \in WaitedForStates
  BY <1>1 DEF OwnedJobs, AwaitedJobs
<1>7. \A c \in Conns :
        /\ cpc[c] = "handing" /\ cjob[c] = mainJob => dist[mainJob] = "RACING"
        /\ mainJob \in sent[c] => dist[mainJob] = "RACING"
  BY <1>3 DEF RemoteJobs, RemoteStates, LocalStates, RemoteResultStates
<1> QED
  BY <1>1, <1>2, <1>3, <1>4, <1>5, <1>6, <1>7

LEMMA DisposeJobKeepsOwnership ==
  ASSUME TypeInv, TypeInv', Ownership, DisposeJob
  PROVE  Ownership'
<1> USE DEF TypeInv, TypeOK, Ownership, jobVars, queueVars, listVars, batchVars,
            threadVars, connVars, DisposeJob
<1>0. Published' = Published \ {mainJob}
  BY MainJobIsPrivate DEF Published
<1>1. CASE /\ dist[mainJob] # "RACING" /\ live' = live \ {mainJob}
           /\ inProgress' = inProgress \ {mainJob} /\ UNCHANGED dist
  <2> USE <1>0, <1>1, MainJobIsPrivate
  <2>1. JobsAtHand' /\ OneThreadPerJob' /\ OneConnPerJob' /\ OnePublication'
    BY DEF JobsAtHand, OneThreadPerJob, OneConnPerJob, OnePublication, Busy, Holds,
           HasJob, Waiting, Owning
  <2>2. QueuedJobs'
    BY DEF QueuedJobs, Busy
  <2>3. ThreadJobs'
    BY DEF ThreadJobs, Busy, Building
  <2>4. RemoteJobs' /\ AwaitedJobs' /\ OwnedJobs'
    BY DEF RemoteJobs, AwaitedJobs, OwnedJobs, Waiting, Owning
  <2>5. PublishedJobs' /\ FreshJobs' /\ CancelledJobsAreAborted'
    BY DEF PublishedJobs, FreshJobs, CancelledJobsAreAborted
  <2>6. UsedJobsAreLive'
    BY DEF UsedJobsAreLive, Busy, HasJob, Waiting, Owning
  <2>7. UsedJobsAreBuilding'
    BY DEF UsedJobsAreBuilding, Busy, Owning
  <2> QED
    BY <2>1, <2>2, <2>3, <2>4, <2>5, <2>6, <2>7
<1>2. CASE /\ dist[mainJob] \in LocalStates
           /\ dist' = [dist EXCEPT ![mainJob] = "RACE_WON_LOCALLY"]
           /\ UNCHANGED <<live, inProgress>>
  <2> USE <1>0, <1>2, MainJobIsPrivate
  <2>1. JobsAtHand' /\ OneThreadPerJob' /\ OneConnPerJob' /\ OnePublication'
    BY DEF JobsAtHand, OneThreadPerJob, OneConnPerJob, OnePublication, Busy, Holds,
           HasJob, Waiting, Owning
  <2>2. QueuedJobs'
    BY DEF QueuedJobs, Busy
  <2>3. ThreadJobs'
    BY DEF ThreadJobs, Busy, Building
  <2>4. RemoteJobs' /\ AwaitedJobs' /\ OwnedJobs'
    BY DEF RemoteJobs, AwaitedJobs, OwnedJobs, RemoteStates, WaitedForStates, Waiting, Owning
  <2>5. PublishedJobs' /\ FreshJobs' /\ CancelledJobsAreAborted'
    BY DEF PublishedJobs, FreshJobs, CancelledJobsAreAborted, LocalStates
  <2>6. UsedJobsAreLive'
    BY DEF UsedJobsAreLive, Busy, HasJob, Waiting, Owning
  <2>7. UsedJobsAreBuilding'
    BY DEF UsedJobsAreBuilding, Busy, Owning
  <2> QED
    BY <2>1, <2>2, <2>3, <2>4, <2>5, <2>6, <2>7
<1> QED
  BY <1>1, <1>2, MainJobIsPrivate
     DEF DisposableStates, CancelUnderWay, RemoveInProgress, LocalStates, RemoteResultStates

\* A node that is ready or staged has no Job object yet, and nobody has it.
LEMMA FreshJobIsFree ==
  ASSUME TypeInv, Ownership, NEW j \in staging \cup Ready
  PROVE  /\ j \in Jobs /\ dist[j] = "NONE" /\ j \notin live
         /\ j \notin localQueue /\ j \notin available /\ j \notin inProgress
         /\ j \notin Published
         /\ \A t \in Threads : Busy(t) => tjob[t] # j
         /\ \A c \in Conns : Owning(c) => cjob[c] # j
<1> USE DEF Ownership, TypeInv, TypeOK
<1>1. j \in Jobs /\ dist[j] = "NONE" /\ j \notin live
  BY DEF FreshJobs, Ready, In
<1> QED
  BY <1>1 DEF UsedJobsAreLive, HasJob, Waiting, Owning

LEMMA BuildPassKeepsOwnership ==
  ASSUME TypeInv, TypeInv', Ownership, BuildPass
  PROVE  Ownership'
<1> USE DEF TypeInv, TypeOK, Ownership, jobVars, listVars, threadVars, connVars
<1>0. Published' = Published
  BY DEF Published, BuildPass, MainGoto
<1>1. PICK flush \in SUBSET (staging \cup Ready) :
           /\ staging' = (staging \cup Ready) \ flush
           /\ localQueue' = localQueue \cup flush
           /\ live' = live \cup flush
  BY DEF BuildPass
<1>2. \A j \in Jobs : nodeState[j] # "DYNAMIC_DEPS" => nodeState'[j] = nodeState[j]
  BY DEF BuildPass, Ready, Doomed, Blocked, In
<1>3. \A j \in Ready : j \in Jobs /\ nodeState'[j] = "BUILDING"
  BY DEF BuildPass, Ready, In
<1>4. \A j \in flush : /\ j \in Jobs /\ nodeState'[j] = "BUILDING"
                       /\ dist[j] = "NONE" /\ j \notin live
                       /\ j \notin available /\ j \notin inProgress /\ j \notin Published
                       /\ \A t \in Threads : Busy(t) => tjob[t] # j
  BY <1>1, <1>2, <1>3, FreshJobIsFree DEF FreshJobs
<1>5. /\ main' # "dispose" /\ main = "pass" /\ mainJob' = mainJob
      /\ UNCHANGED <<dist, aborted, available, inProgress>>
      /\ UNCHANGED listVars /\ UNCHANGED threadVars /\ UNCHANGED connVars
      /\ reaped = NoJobs /\ main' \notin {"finalize", "dispose"}
  BY DEF BuildPass, MainGoto, OnePublication
<1> USE <1>0, <1>1, <1>4, <1>5
<1>6. JobsAtHand' /\ OneThreadPerJob' /\ OneConnPerJob' /\ OnePublication'
  BY DEF JobsAtHand, OneThreadPerJob, OneConnPerJob, OnePublication, Busy, Holds,
         HasJob, Waiting, Owning
<1>7. QueuedJobs'
  BY DEF QueuedJobs, Busy
<1>8. ThreadJobs' /\ RemoteJobs' /\ AwaitedJobs' /\ OwnedJobs'
  BY DEF ThreadJobs, RemoteJobs, AwaitedJobs, OwnedJobs, Busy, Building, Waiting, Owning
<1>9. PublishedJobs' /\ CancelledJobsAreAborted'
  BY DEF PublishedJobs, CancelledJobsAreAborted
<1>10. FreshJobs'
  <2> SUFFICES ASSUME NEW j \in Jobs, nodeState'[j] = "DYNAMIC_DEPS" \/ j \in staging'
               PROVE  /\ dist[j] = "NONE" /\ j \notin live /\ j \notin flush
                      /\ j \in staging' => nodeState'[j] = "BUILDING"
    BY DEF FreshJobs
  <2>1. CASE j \in staging'
    BY <2>1, <1>2, <1>3, FreshJobIsFree DEF FreshJobs
  <2>2. CASE j \notin staging'
    <3>1. nodeState[j] = "DYNAMIC_DEPS"
      BY <1>2, <2>2
    <3> QED
      BY <2>2, <3>1 DEF FreshJobs
  <2> QED
    BY <2>1, <2>2
<1>11. UsedJobsAreLive'
  BY DEF UsedJobsAreLive, Busy, HasJob, Waiting, Owning
<1>12. UsedJobsAreBuilding'
  <2>1. \A j \in localQueue \cup available : nodeState'[j] = "BUILDING"
    BY <1>2 DEF UsedJobsAreBuilding
  <2>2. \A j \in inProgress :
          dist[j] # "RACE_WON_LOCALLY" /\ mainJob # j => nodeState'[j] = "BUILDING"
    BY <1>2 DEF UsedJobsAreBuilding
  <2>3. \A t \in Threads : Busy(t) => nodeState'[tjob[t]] = "BUILDING"
    BY <1>2 DEF UsedJobsAreBuilding, JobsAtHand
  <2>4. \A c \in Conns : Owning(c) => nodeState'[cjob[c]] = "BUILDING"
    BY <1>2 DEF UsedJobsAreBuilding, JobsAtHand, HasJob
  <2>5. \A j \in Published : mainJob # j => nodeState'[j] = "BUILDING"
    BY <1>2 DEF UsedJobsAreBuilding, Published
  <2> QED
    BY <2>1, <2>2, <2>3, <2>4, <2>5 DEF UsedJobsAreBuilding, Busy, Owning
<1> QED
  BY <1>6, <1>7, <1>8, <1>9, <1>10, <1>11, <1>12

LEMMA DestroyJobQueueKeepsOwnership ==
  ASSUME TypeInv, TypeInv', Ownership, DestroyJobQueue
  PROVE  Ownership'
<1> USE DEF TypeInv, TypeOK, Ownership, jobVars, batchVars, listVars, threadVars, connVars,
            DestroyJobQueue, UntakenJobs, MainGoto
<1>0. Published' = Published
  BY DEF Published
<1> USE <1>0
<1>1. JobsAtHand' /\ OneThreadPerJob' /\ OneConnPerJob' /\ OnePublication'
  BY DEF JobsAtHand, OneThreadPerJob, OneConnPerJob, OnePublication, Busy, Holds,
         HasJob, Waiting, Owning
<1>2. QueuedJobs' /\ ThreadJobs' /\ RemoteJobs' /\ AwaitedJobs' /\ OwnedJobs'
  BY DEF QueuedJobs, ThreadJobs, RemoteJobs, AwaitedJobs, OwnedJobs, Busy, Building,
         Waiting, Owning
<1>3. PublishedJobs' /\ FreshJobs' /\ CancelledJobsAreAborted'
  BY DEF PublishedJobs, FreshJobs, CancelledJobsAreAborted
<1>4. UsedJobsAreLive'
  <2>1. \A j \in localQueue \cup available : dist[j] \in {"NONE", "AVAILABLE"}
    BY DEF QueuedJobs
  <2>2. inProgress \subseteq live'
    BY <2>1 DEF UsedJobsAreLive, QueuedJobs
  <2>3. \A t \in Threads : Busy(t) => tjob[t] \in live'
    BY <2>1 DEF UsedJobsAreLive, QueuedJobs, ThreadJobs, LocalStates, Busy, Building
  <2>4. \A c \in Conns : /\ sent[c] \subseteq live'
                         /\ cpc[c] = "handing" => cjob[c] \in live'
    BY <2>1 DEF UsedJobsAreLive, RemoteJobs, RemoteStates, HasJob, Waiting
  <2>5. \A c \in Conns : Owning(c) => cjob[c] \in live'
    BY <2>1 DEF UsedJobsAreLive, OwnedJobs, RemoteResultStates, HasJob, Waiting, Owning
  <2>6. Published \subseteq live'
    <3> SUFFICES ASSUME NEW j \in Published PROVE j \in live'
      OBVIOUS
    <3>1. j \in live /\ j \notin localQueue
      BY DEF UsedJobsAreLive, QueuedJobs
    <3>2. dist[j] # "AVAILABLE"
      BY DEF PublishedJobs, LocalStates, RemoteResultStates
    <3> QED
      BY <3>1, <3>2 DEF QueuedJobs
  <2> QED
    BY <2>2, <2>3, <2>4, <2>5, <2>6 DEF UsedJobsAreLive, Busy, HasJob, Waiting, Owning
<1>5. UsedJobsAreBuilding'
  BY DEF UsedJobsAreBuilding, Busy, Owning
<1> QED
  BY <1>1, <1>2, <1>3, <1>4, <1>5

\* No step of the main thread breaks the invariant.
LEMMA MainStepKeepsOwnership ==
  ASSUME TypeInv, TypeInv', Ownership, MainStep
  PROVE  Ownership'
<1>1. CASE FinalizeDone \/ ClientDeleted \/ WaitForWorkers
  BY <1>1, MainMovesOn
<1>2. CASE SwapCompletedJobs
  BY <1>2, SwapCompletedJobsKeepsOwnership
<1>3. CASE \E j \in Jobs, r \in Results : FinalizeNode(j, r)
  BY <1>3, FinalizeNodeKeepsOwnership
<1>4. CASE DisposeJob
  BY <1>4, DisposeJobKeepsOwnership
<1>5. CASE BuildPass
  BY <1>5, BuildPassKeepsOwnership
<1>6. CASE DestroyJobQueue
  BY <1>6, DestroyJobQueueKeepsOwnership
<1> QED
  BY <1>1, <1>2, <1>3, <1>4, <1>5, <1>6 DEF MainStep

----------------------------------------------------------------------------
(* The invariant, and what follows from it                                  *)

LEMMA OwnershipInit == Init => Ownership
<1> SUFFICES ASSUME Init PROVE Ownership
  OBVIOUS
<1>1. Published = {}
  BY DEF Init, Published, NoJobs
<1>2. JobsAtHand /\ OneThreadPerJob /\ OneConnPerJob /\ OnePublication
  BY DEF Init, NoJobs, JobsAtHand, OneThreadPerJob, OneConnPerJob, OnePublication, Busy,
         Holds, HasJob, Waiting, Owning
<1>3. QueuedJobs /\ ThreadJobs /\ RemoteJobs /\ AwaitedJobs /\ OwnedJobs
  BY DEF Init, QueuedJobs, ThreadJobs, RemoteJobs, AwaitedJobs, OwnedJobs, Busy, Building,
         Waiting, Owning
<1>4. PublishedJobs /\ FreshJobs /\ CancelledJobsAreAborted
  BY <1>1 DEF Init, PublishedJobs, FreshJobs, CancelledJobsAreAborted
<1>5. UsedJobsAreLive /\ UsedJobsAreBuilding
  BY <1>1 DEF Init, UsedJobsAreLive, UsedJobsAreBuilding, Busy, HasJob, Waiting, Owning
<1> QED
  BY <1>2, <1>3, <1>4, <1>5 DEF Ownership

LEMMA OwnershipStep == TypeInv /\ TypeInv' /\ Ownership /\ [Next]_vars => Ownership'
<1> SUFFICES ASSUME TypeInv, TypeInv', Ownership, [Next]_vars
             PROVE  Ownership'
  OBVIOUS
<1>1. CASE \E t \in Threads : ThreadStep(t)
  BY <1>1, ThreadStepKeepsOwnership
<1>2. CASE \E c \in Conns : ConnStep(c)
  BY <1>2, ConnStepKeepsOwnership
<1>3. CASE MainStep
  BY <1>3, MainStepKeepsOwnership
<1>4. CASE AbortBuild
  BY <1>4, MainMovesOn
<1>5. CASE UNCHANGED vars
  <2>1. Published' = Published
    BY <1>5 DEF vars, Published, listVars, mainVars
  <2> QED
    BY <1>5, <2>1
       DEF Ownership, vars, jobVars, queueVars, listVars, batchVars, threadVars,
           connVars, mainVars,
           JobsAtHand, OneThreadPerJob, OneConnPerJob, OnePublication, QueuedJobs,
           ThreadJobs, RemoteJobs, AwaitedJobs, OwnedJobs, PublishedJobs, FreshJobs,
           UsedJobsAreLive, UsedJobsAreBuilding, CancelledJobsAreAborted,
           Busy, Building, Waiting, Owning, HasJob, Holds
<1> QED
  BY <1>1, <1>2, <1>3, <1>4, <1>5 DEF Next, Finished

\* A job is, at any time, held by those its distribution state admits and by nobody
\* else, whatever threads, connections, the main thread and the user do.
THEOREM OwnershipCorrect == Spec => []Ownership
<1>1. TypeInv /\ Ownership /\ [Next]_vars => Ownership'
  BY TypeStep, OwnershipStep
<1> QED
  BY OwnershipInit, TypeInvariant, <1>1, PTL DEF Spec

\* The five places that delete a Job object never delete one in use.
THEOREM NoJobIsUsedAfterFree == Spec => []NoUseAfterFree
<1>1. TypeInv /\ Ownership => NoUseAfterFree
  <2> SUFFICES ASSUME TypeInv, Ownership, NEW j \in Referenced
               PROVE  j \in live
    BY DEF NoUseAfterFree
  <2>1. CASE j \in localQueue \cup available \cup inProgress
    BY <2>1 DEF Ownership, UsedJobsAreLive
  <2>2. CASE j \in Listed
    BY <2>2 DEF Listed, TypeInv, TypeOK, Ownership, UsedJobsAreLive, Published
  <2>3. CASE j \in UsedByThreads
    BY <2>3 DEF UsedByThreads, Ownership, UsedJobsAreLive
  <2>4. CASE j \in UsedByConns
    <3>1. PICK c \in Conns : j \in UsedByConn(c)
      BY <2>4 DEF UsedByConns
    <3> QED
      BY <3>1 DEF Ownership, UsedJobsAreLive, UsedByConn, HasJob, Waiting, Owning
  <2>5. CASE j \in UsedByMain
    BY <2>5 DEF UsedByMain, Ownership, UsedJobsAreLive, Published, JobsAtHand
  <2> QED
    BY <2>1, <2>2, <2>3, <2>4, <2>5 DEF Referenced
<1> QED
  BY OwnershipCorrect, TypeInvariant, <1>1, PTL

\* The output files of a job have one writer, although both sides of a race work
\* on it.
THEOREM JobsHaveOneWriter == Spec => []OneWriter
<1>1. Ownership => OneWriter
  BY DEF Ownership, OneThreadPerJob, OneConnPerJob, ThreadJobs, OwnedJobs, JobsAtHand,
         OneWriter, Writing, Busy, Building, Owning, Holds, HasJob,
         LocalStates, RemoteResultStates
<1> QED
  BY OwnershipCorrect, <1>1, PTL

\* OnReturnRemoteJob finds the job it is called for, in a state it handles.
THEOREM SentJobsAreInProgress == Spec => []SentIsInProgress
<1>1. Ownership => SentIsInProgress
  BY DEF Ownership, RemoteJobs, OneConnPerJob, SentIsInProgress, RemoteStates, Holds, HasJob,
         UsedByConn
<1> QED
  BY OwnershipCorrect, <1>1, PTL

\* FinishedProcessingJob is called in the states its assertions expect.
THEOREM JobsFinishAsExpected == Spec => []FinishedAsExpected
<1>1. TypeInv /\ Ownership => FinishedAsExpected
  BY DEF TypeInv, TypeOK, Ownership, FinishedAsExpected, JobsAtHand, ThreadJobs, OwnedJobs,
         UsedJobsAreBuilding, CancelledJobsAreAborted, LocalWasCancelled, Busy, Building,
         HasJob, Owning, LocalStates, RemoteResultStates
<1> QED
  BY OwnershipCorrect, TypeInvariant, <1>1, PTL
=============================================================================
