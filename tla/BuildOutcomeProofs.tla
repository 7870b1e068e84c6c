------------------------- MODULE BuildOutcomeProofs -------------------------
(***************************************************************************)
(* Proofs about the outcome of a build, for any graph, build description,  *)
(* number of worker threads, and whatever is edited and aborted: a build   *)
(* that fails has a cause, and one that is repeated builds nothing.        *)
(***************************************************************************)
EXTENDS RebuildProofs

Restarts == SaveEnds \/ Crash \/ \E ts \in TargetSets : StartBuild(ts)
Edits == (\E f \in Files : EditFile(f)) \/ (\E n \in Outputs : OverwriteOutput(n)) \/ EditBff

---------------------------------------------------------------------------
(* What the steps of the main thread do                                    *)

\* A sweep takes node n from one state to the next.
LEMMA Advance ==
  ASSUME TypeInv, OrderInv, NEW n \in Nodes, UNCHANGED session,
         NotReady(n) \/ PreBuildReady(n) \/ StaticReady(n) \/ DynamicReady(n)
  PROVE  /\ UNCHANGED <<disk, bff, statics, built, read, main, control>>
         /\ main = "sweep" /\ stack # <<>> /\ n = Last(stack)
         /\ \A m \in Nodes \ {n} : state'[m] = state[m] /\ stamp'[m] = stamp[m] /\ job'[m] = job[m]
         /\ \A m \in Outputs \ {n} : dynamics'[m] = dynamics[m]
         /\ state[n] \in Pending /\ job[n].at = "none" /\ job[n].result = "none"
         /\ \/ job'[n] = job[n]
            \/ job'[n].at = "staged" /\ job'[n].result = "none" /\ state'[n] = "BUILDING"
         /\ \/ /\ stamp' = stamp /\ dynamics' = dynamics
               /\ \/ state'[n] = state[n]
                  \/ state'[n] = "FAILED" /\ \E d \in Checked(n) : state[d] = "FAILED"
                  \/ state[n] = "NOT_PROCESSED" /\ state'[n] = "STATIC_DEPS"
                  \/ /\ state[n] = "STATIC_DEPS" /\ state'[n] = "DYNAMIC_DEPS"
                     /\ ~NeedToBuildStatic(n) /\ AreUp(Checked(n))
                  \/ /\ state[n] = "DYNAMIC_DEPS" /\ state'[n] = "BUILDING"
                     /\ stamp[n] = 0 \/ (n \in Outputs /\ NeedToBuild(dynamics[n]))
                     /\ AreUp(Checked(n))
                  \/ /\ state[n] = "DYNAMIC_DEPS" /\ state'[n] = "UP_TO_DATE" /\ job'[n] = job[n]
                     /\ stamp[n] # 0 /\ (n \in Outputs => ~NeedToBuild(dynamics[n]))
                     /\ AreUp(Checked(n))
            \/ /\ state[n] = "STATIC_DEPS" /\ NeedToBuildStatic(n) /\ AreUp(Checked(n))
               /\ stamp'[n] = 0 /\ job'[n] = job[n]
               /\ state'[n] = "DYNAMIC_DEPS" \/ (state'[n] = "FAILED" /\ n \in Libraries \cap Faulty)
<1> USE NodeKinds, StampTypes
<1>1. UNCHANGED <<disk, bff, statics, built, read, main, control>>
  BY DEF NotReady, PreBuildReady, StaticReady, DynamicReady, queue, sweep
<1>2. main = "sweep" /\ stack # <<>> /\ n = Last(stack)
  BY DEF NotReady, PreBuildReady, StaticReady, DynamicReady, Ready, Sweeping
<1>3. state[n] \in Pending
  BY DEF NotReady, PreBuildReady, StaticReady, DynamicReady, Ready, Sweeping, Checked, Pending
<1>4. job[n].at = "none" /\ job[n].result = "none"
  BY <1>3 DEF OrderInv, JobsBuild, Pending
<1>5. \A m \in Nodes \ {n} : state'[m] = state[m] /\ stamp'[m] = stamp[m]
  BY DEF NotReady, PreBuildReady, StaticReady, DynamicReady, DirtyNode
<1>6. \A m \in Outputs \ {n} : dynamics'[m] = dynamics[m]
  BY DEF NotReady, PreBuildReady, StaticReady, DynamicReady, DirtyNode
<1>7. \/ job' = job
      \/ DynamicReady(n) /\ Move(n, "staged") /\ state' = [state EXCEPT ![n] = "BUILDING"]
  BY DEF NotReady, PreBuildReady, StaticReady, DynamicReady, queue
<1>8. Move(n, "staged") => /\ \A m \in Nodes \ {n} : job'[m] = job[m]
                           /\ job'[n].at = "staged" /\ job'[n].result = job[n].result
  <2>1. Move(n, "staged") => job' = [job EXCEPT ![n] = [at |-> "staged", result |-> job[n].result]]
    BY TypeOfMove, PlaceNames, <1>4
  <2> QED
    BY <2>1
<1>9. /\ \A m \in Nodes \ {n} : job'[m] = job[m]
      /\ \/ job'[n] = job[n]
         \/ job'[n].at = "staged" /\ job'[n].result = "none" /\ state'[n] = "BUILDING"
  BY <1>4, <1>7, <1>8
<1>10. \/ /\ stamp' = stamp /\ dynamics' = dynamics
          /\ \/ state'[n] = state[n]
             \/ state'[n] = "FAILED" /\ \E d \in Checked(n) : state[d] = "FAILED"
             \/ state[n] = "NOT_PROCESSED" /\ state'[n] = "STATIC_DEPS"
             \/ /\ state[n] = "STATIC_DEPS" /\ state'[n] = "DYNAMIC_DEPS"
                /\ ~NeedToBuildStatic(n) /\ AreUp(Checked(n))
             \/ /\ state[n] = "DYNAMIC_DEPS" /\ state'[n] = "BUILDING"
                /\ stamp[n] = 0 \/ (n \in Outputs /\ NeedToBuild(dynamics[n]))
                /\ AreUp(Checked(n))
             \/ /\ state[n] = "DYNAMIC_DEPS" /\ state'[n] = "UP_TO_DATE" /\ job'[n] = job[n]
                /\ stamp[n] # 0 /\ (n \in Outputs => ~NeedToBuild(dynamics[n]))
                /\ AreUp(Checked(n))
       \/ /\ state[n] = "STATIC_DEPS" /\ NeedToBuildStatic(n) /\ AreUp(Checked(n))
          /\ stamp'[n] = 0 /\ job'[n] = job[n]
          /\ state'[n] = "DYNAMIC_DEPS" \/ (state'[n] = "FAILED" /\ n \in Libraries \cap Faulty)
  <2>1. CASE NotReady(n)
    <3>1. stamp' = stamp /\ dynamics' = dynamics
      BY <2>1 DEF NotReady
    <3>2. \/ state' = state
          \/ state' = [state EXCEPT ![n] = "FAILED"] /\ Failed(n) # {}
      BY <2>1 DEF NotReady
    <3> QED
      BY <3>1, <3>2 DEF Failed
  <2>2. CASE PreBuildReady(n)
    BY <2>2 DEF PreBuildReady, Ready
  <2>3. CASE DynamicReady(n)
    BY <2>3 DEF DynamicReady, Ready, AreUp
  <2>4. CASE StaticReady(n) /\ NeedToBuildStatic(n)
    <3>1. stamp'[n] = 0 /\ job' = job
      BY <2>4 DEF StaticReady, DirtyNode, queue
    <3>2. state[n] = "STATIC_DEPS" /\ AreUp(Checked(n))
          /\ (state'[n] = "DYNAMIC_DEPS" \/ (state'[n] = "FAILED" /\ n \in Libraries \cap Faulty))
      BY <2>4 DEF StaticReady, Ready, AreUp
    <3> QED
      BY <2>4, <3>1, <3>2
  <2>5. CASE StaticReady(n) /\ ~NeedToBuildStatic(n)
    <3>1. stamp' = stamp /\ dynamics' = dynamics /\ state[n] = "STATIC_DEPS"
          /\ state'[n] = "DYNAMIC_DEPS" /\ AreUp(Checked(n))
      BY <2>5 DEF StaticReady, Ready, AreUp
    <3> QED
      BY <2>5, <3>1
  <2> QED
    BY <2>1, <2>2, <2>3, <2>4, <2>5
<1> QED
  BY <1>1, <1>2, <1>3, <1>4, <1>5, <1>6, <1>9, <1>10

\* Finalization: a job that ended well or badly is not left behind by the end of the queue.
LEMMA FinalizeEnds ==
  ASSUME TypeInv, OrderInv, FinalizeCompletedJobs, UNCHANGED session
  PROVE  /\ UNCHANGED <<mtime, made, bff, built, read, control>>
         /\ main = "finalize" /\ main' \in {"finalize", "sweep", "save"}
         /\ stopping => main' # "sweep"
         /\ main' = "save" => stopping
         /\ \A d \in Nodes : stamp'[d] = IF d \in Unseen THEN mtime[d] ELSE stamp[d]
         /\ \A n \in Outputs : stamp'[n] = stamp[n]
         /\ \A n \in Succeeded : /\ state[n] = "BUILDING" /\ state'[n] = "UP_TO_DATE"
                                 /\ job[n].result = "ok" /\ job'[n] = NoJob
         /\ \A n \in Succeeded \cap Outputs :
              /\ statics'[n] = [d \in bff.static[n] |-> stamp'[d]]
              /\ dynamics'[n] = [d \in (IF n \in Objects THEN Includes(n) ELSE DOMAIN dynamics[n])
                                    |-> stamp'[d]]
         /\ \A n \in Nodes \ Succeeded :
              \/ /\ state[n] = "BUILDING" /\ state'[n] = "FAILED"
                 /\ job[n].result = "failed" /\ job'[n] = NoJob
              \/ /\ state'[n] = state[n]
                 /\ \/ job'[n] = job[n]
                    \/ job'[n] = NoJob /\ job[n].result \notin {"ok", "failed"}
         /\ \A n \in Outputs \ Succeeded : statics'[n] = statics[n] /\ dynamics'[n] = dynamics[n]
<1> USE NodeKinds, StampTypes
<1>1. /\ UNCHANGED <<mtime, made, bff, built, read, control>>
      /\ main = "finalize" /\ main' \in {"finalize", "sweep", "save"} /\ FinalizeNodes
      /\ stopping => main' # "sweep"
      /\ main' = "save" => stopping
  BY DEF FinalizeCompletedJobs, FinalizeNodes, disk
<1>2. /\ \A d \in Nodes : stamp'[d] = IF d \in Unseen THEN mtime[d] ELSE stamp[d]
      /\ Unseen \subseteq Files
  BY <1>1 DEF FinalizeNodes, Unseen
<1>3. \A n \in Outputs : stamp'[n] = stamp[n]
  BY <1>2
<1>4. \A n \in Succeeded : /\ n \in Nodes /\ state[n] = "BUILDING" /\ state'[n] = "UP_TO_DATE"
                           /\ job[n].result = "ok" /\ job'[n] = NoJob
  BY <1>1 DEF Succeeded, At, OrderInv, JobsBuild, FinalizeNodes, FinalizeCompletedJobs, Remaining
<1>5. /\ \A n \in Succeeded \cap Outputs :
            /\ statics'[n] = [d \in bff.static[n] |-> stamp'[d]]
            /\ dynamics'[n] = [d \in (IF n \in Objects THEN Includes(n) ELSE DOMAIN dynamics[n])
                                  |-> stamp'[d]]
      /\ \A n \in Outputs \ Succeeded : statics'[n] = statics[n] /\ dynamics'[n] = dynamics[n]
  BY <1>1 DEF FinalizeNodes
<1>6. ASSUME NEW n \in Nodes \ Succeeded
      PROVE  \/ /\ state[n] = "BUILDING" /\ state'[n] = "FAILED"
                /\ job[n].result = "failed" /\ job'[n] = NoJob
             \/ /\ state'[n] = state[n]
                /\ \/ job'[n] = job[n]
                   \/ job'[n] = NoJob /\ job[n].result \notin {"ok", "failed"}
  <2>1. CASE job[n].at = "completed"
    <3>1. state[n] = "BUILDING" /\ job[n].result # "ok" /\ n \in At({"completed"})
      BY <1>6, <2>1 DEF OrderInv, JobsBuild, Succeeded, At
    <3>2. job'[n] = NoJob
      BY <2>1 DEF FinalizeCompletedJobs, Remaining
    <3>3. state'[n] = IF job[n].result = "failed" THEN "FAILED" ELSE state[n]
      BY <1>1, <1>6, <3>1 DEF FinalizeNodes
    <3> QED
      BY <3>1, <3>2, <3>3
  <2>2. CASE job[n].at # "completed"
    <3>1. state'[n] = state[n]
      BY <1>1, <1>6, <2>2 DEF FinalizeNodes, At
    <3>2. CASE ~(stopping /\ exited = NumWorkerThreads)
      BY <2>2, <3>1, <3>2 DEF FinalizeCompletedJobs, Remaining
    <3>3. CASE stopping /\ exited = NumWorkerThreads
      <4>1. job'[n] = NoJob
        BY <3>3 DEF FinalizeCompletedJobs, Remaining
      <4>2. Cardinality(At(Held)) = 0
        BY <3>3, HeldJobs, GraphAssumption DEF GraphAssumption, TypeInv, ThreadsCounted
      <4>3. At(Held) = {}
        BY <4>2, HeldJobs, FS_EmptySet
      <4>4. job[n].result = "none"
        BY <2>2, <4>3 DEF At, Held, OrderInv, JobsBuild
      <4> QED
        BY <3>1, <4>1, <4>4
    <3> QED
      BY <3>2, <3>3
  <2> QED
    BY <2>1, <2>2
<1> QED
  BY <1>1, <1>2, <1>3, <1>4, <1>5, <1>6

---------------------------------------------------------------------------
(* The cause of a failure                                                  *)

\* Nobody interrupted a build so far, and no file is missing.
Undisturbed == interruptions = 0 /\ \A f \in Files : mtime[f] # 0

\* The tool of n failed with its inputs there.
Blamed(n) == state[n] = "FAILED" /\ AreUp(bff.pre[n] \cup bff.static[n])

\* After the check has found a cycle, no sweep comes before the end of the build.
Ending ==
    stopBuild /\ main \in {"flush", "finalize", "save", "writing"} /\ (main = "finalize" => stopping)
Cycle(S) == S # {} /\ \A n \in S : Dependencies(n) \cap S # {}
Stuck == Ending /\ \E S \in SUBSET Nodes : Cycle(S) /\ \A n \in S : state[n] \in Pending

Cause ==
    \/ \E n \in Faulty \cap Outputs : Blamed(n) \/ job[n].result = "failed"
    \/ Stuck

\* What is up to date exists,
OutputsExist ==
    \A n \in Outputs :
        \/ stamp[n] # 0 \/ state[n] = "UP_TO_DATE" \/ job[n].result = "ok"
        \/ db.kind = "saved" /\ db.stamp[n] # 0
        => mtime[n] # 0

\* so tools find their inputs.
InputsExist ==
    /\ \A f \in Files : state[f] = "UP_TO_DATE" \/ job[f].result = "ok" => stamp[f] # 0
    /\ \A n \in Outputs : Running(n) => \A d \in DOMAIN read[n].from : read[n].from[d] # 0

\* The check follows nodes that are not processed, and nothing is processed while it runs.
PathPending == main = "check" => \A n \in ToSet(stack) : state[n] \in Pending

\* The workers are stopped for a reason, and before the graph is saved.
StopInv ==
    /\ interruptions \in Nat
    /\ stopping => stopBuild \/ Complete
    /\ main \in {"save", "writing"} => stopping

\* A node that failed may owe it to one that failed before.
FailuresCaused ==
    /\ stopBuild => Cause
    /\ \A n \in Nodes : job[n].result = "failed" => Cause
    /\ \A n \in Nodes : state[n] = "FAILED" =>
            Cause \/ \E d \in Dependencies(n) : state[d] = "FAILED"

CauseInv ==
    OutputsExist /\ PathPending /\ StopInv /\ (Undisturbed => InputsExist /\ FailuresCaused)

\* Steps that keep a cause
Onward ==
    /\ bff' = bff
    /\ \A n \in Nodes : state[n] \in Final => state'[n] = state[n]
    /\ \A n \in Faulty \cap Outputs : job[n].result = "failed" =>
            job'[n].result = "failed" \/ (state[n] = "BUILDING" /\ state'[n] = "FAILED")
    /\ Ending => /\ Ending'
                 /\ \A n \in Nodes : state[n] \in Pending =>
                        state'[n] = state[n] /\ Dependencies(n)' = Dependencies(n)

LEMMA CauseStays ==
  ASSUME TypeInv, OrderInv, Onward, Cause
  PROVE  Cause'
<1>1. ASSUME NEW n \in Faulty \cap Outputs, Blamed(n)
      PROVE  Blamed(n)'
  <2>1. n \in Nodes /\ bff.pre[n] \cup bff.static[n] \subseteq Nodes /\ bff' = bff
    BY NodeKinds, BffFields DEF TypeInv, TypeOK, Onward
  <2> QED
    BY <1>1, <2>1 DEF Blamed, AreUp, Onward, Final
<1>2. ASSUME NEW n \in Faulty \cap Outputs, state[n] = "BUILDING", state'[n] = "FAILED"
      PROVE  Blamed(n)'
  <2>1. AreUp(bff.pre[n]) /\ AreUp(bff.static[n]) /\ bff' = bff
    BY <1>2 DEF OrderInv, DependenciesFirst, Onward
  <2>2. bff.pre[n] \cup bff.static[n] \subseteq Nodes
    BY BffFields DEF TypeInv, TypeOK
  <2> QED
    BY <1>2, <2>1, <2>2 DEF Blamed, AreUp, Onward, Final
<1>3. ASSUME Stuck
      PROVE  Stuck'
  <2>1. PICK S \in SUBSET Nodes : Cycle(S) /\ \A n \in S : state[n] \in Pending
    BY <1>3 DEF Stuck
  <2>2. Ending' /\ \A n \in S : state'[n] \in Pending /\ Dependencies(n)' = Dependencies(n)
    BY <1>3, <2>1 DEF Stuck, Onward
  <2>3. Cycle(S)'
    BY <2>1, <2>2 DEF Cycle
  <2> QED
    BY <2>1, <2>2, <2>3 DEF Stuck
<1> QED
  BY <1>1, <1>2, <1>3 DEF Cause, Onward

---------------------------------------------------------------------------
(* The path of the sweep and of the check                                  *)

LEMMA ElementsOfAppend ==
  ASSUME NEW S, NEW s \in Seq(S), NEW d \in S
  PROVE  ToSet(Append(s, d)) \subseteq ToSet(s) \cup {d}
<1> SUFFICES ASSUME NEW i \in DOMAIN Append(s, d)
             PROVE  Append(s, d)[i] \in ToSet(s) \cup {d}
  BY DEF ToSet
<1>1. /\ Len(s) \in Nat /\ DOMAIN s = 1 .. Len(s)
      /\ DOMAIN Append(s, d) = 1 .. Len(s) + 1
      /\ Append(s, d)[Len(s) + 1] = d
      /\ \A j \in 1 .. Len(s) : Append(s, d)[j] = s[j]
  BY AppendProperties
<1>2. i = Len(s) + 1 \/ i \in 1 .. Len(s)
  BY <1>1
<1> QED
  BY <1>1, <1>2 DEF ToSet

LEMMA ElementsOfFront ==
  ASSUME NEW S, NEW s \in Seq(S), s # <<>>
  PROVE  ToSet(Front(s)) \subseteq ToSet(s) /\ Last(s) \in ToSet(s)
<1> DEFINE last == Len(s) - 1
<1>1. Len(s) \in Nat \ {0} /\ DOMAIN s = 1 .. Len(s)
  BY EmptySeq
<1>2. last \in Nat /\ last \in Int /\ 1 \in Int /\ last = Len(s) - 1
  BY <1>1
<1>3. \A i \in 1 .. last : s[i] \in S
  BY <1>1, <1>2
<1> HIDE DEF last
<1>4. /\ SubSeq(s, 1, last) \in Seq(S)
      /\ Len(SubSeq(s, 1, last)) = IF 1 <= last THEN last - 1 + 1 ELSE 0
      /\ \A i \in 1 .. last - 1 + 1 : SubSeq(s, 1, last)[i] = s[1 + i - 1]
  BY <1>2, <1>3, SubSeqProperties
<1>5. DOMAIN SubSeq(s, 1, last) = 1 .. last
  BY <1>2, <1>4
<1>6. \A i \in 1 .. last : SubSeq(s, 1, last)[i] = s[i] /\ i \in DOMAIN s
  BY <1>1, <1>2, <1>4
<1>7. Front(s) = SubSeq(s, 1, last)
  BY DEF Front, last
<1>8. ToSet(Front(s)) \subseteq ToSet(s)
  BY <1>5, <1>6, <1>7 DEF ToSet
<1>9. Last(s) \in ToSet(s)
  BY <1>1 DEF Last, ToSet
<1> QED
  BY <1>8, <1>9

\* The stack grows by targets and by dependencies of its nodes; the check's, by nodes that
\* are not processed.
LEMMA StackGrows ==
  ASSUME TypeInv, [Next]_vars, NEW n \in ToSet(stack')
  PROVE  /\ n \in ToSet(stack) \/ n \in targets' \/ \E m \in ToSet(stack) : n \in Dependencies(m)
         /\ main' = "check" => state[n] \in Pending \/ (main = "check" /\ n \in ToSet(stack))
<1>0. stack \in Seq(Nodes) /\ todo \subseteq targets /\ targets \subseteq Nodes
  BY DEF TypeInv, TypeOK
<1> DEFINE Grown == /\ \/ n \in ToSet(stack) \/ n \in targets'
                       \/ \E m \in ToSet(stack) : n \in Dependencies(m)
                    /\ main' = "check" => state[n] \in Pending \/ (main = "check" /\ n \in ToSet(stack))
<1> SUFFICES Grown
  OBVIOUS
<1>1. ASSUME stack' = stack, main' = "check" => main = "check"
      PROVE  Grown
  BY <1>1
<1>2. stack' # <<>>
  BY DEF ToSet
<1>3. ASSUME Return, stack # <<>>, main' = "check" => main = "check"
      PROVE  Grown
  BY <1>0, <1>3, ElementsOfFront DEF Return
<1>4. ASSUME NEW t \in Nodes, StartTarget(t)
      PROVE  Grown
  <2>1. stack' = <<t>> /\ t \in targets /\ targets' = targets /\ main' = main /\ main = "sweep"
    BY <1>0, <1>2, <1>4 DEF StartTarget, control
  <2>2. n = t
    BY <2>1 DEF ToSet
  <2> QED
    BY <2>1, <2>2
<1>5. ASSUME NEW m \in Nodes, NEW d \in Nodes, Descend(m, d)
      PROVE  Grown
  <2>1. stack' = Append(stack, d) /\ stack # <<>> /\ m = Last(stack) /\ main' = "sweep" /\ d \in Checked(m)
    BY <1>5 DEF Descend, Sweeping, Open
  <2>2. n \in ToSet(stack) \/ n = d
    BY <1>0, <2>1, ElementsOfAppend
  <2>3. m \in ToSet(stack)
    BY <1>0, <2>1, ElementsOfFront
  <2>4. d \in Dependencies(m)
    BY <2>1 DEF Checked, Dependencies
  <2> QED
    BY <2>1, <2>2, <2>3, <2>4
<1>6. ASSUME NEW d \in Nodes, CheckDescend(d)
      PROVE  Grown
  <2>1. stack' = Append(stack, d) /\ main = "check" /\ d \in Followed /\ targets' = targets
    BY <1>6 DEF CheckDescend, control
  <2>2. n \in ToSet(stack) \/ n = d
    BY <1>0, <2>1, ElementsOfAppend
  <2>3. state[d] \in Pending
    BY <2>1 DEF Followed
  <2>4. CASE stack = <<>>
    <3>1. d \in targets
      BY <2>1, <2>4 DEF Followed
    <3> QED
      BY <2>1, <2>2, <2>3, <3>1
  <2>5. CASE stack # <<>>
    <3>1. Last(stack) \in ToSet(stack) /\ d \in Dependencies(Last(stack))
      BY <1>0, <2>1, <2>5, ElementsOfFront DEF Followed, Dependencies
    <3> QED
      BY <2>1, <2>2, <2>3, <3>1
  <2> QED
    BY <2>4, <2>5
<1>7. CASE CheckReturn
  <2>1. CASE stack = <<>>
    BY <1>2, <1>7, <2>1 DEF CheckReturn
  <2>2. CASE stack # <<>>
    BY <1>3, <1>7, <2>2 DEF CheckReturn
  <2> QED
    BY <2>1, <2>2
<1>8. ASSUME NEW m \in Nodes,
             NotReady(m) \/ AlreadyFailed(m) \/ PreBuildReady(m) \/ StaticReady(m) \/ DynamicReady(m)
      PROVE  Grown
  BY <1>1, <1>3, <1>8 DEF NotReady, AlreadyFailed, PreBuildReady, StaticReady, DynamicReady, Ready,
     Sweeping, sweep
<1>9. CASE FinalizeCompletedJobs \/ EndSweep \/ FlushAndDecide \/ CycleFound
  <2>1. CASE FinalizeCompletedJobs
    BY <1>1, <2>1 DEF FinalizeCompletedJobs
  <2>2. CASE EndSweep
    BY <1>2, <2>2 DEF EndSweep
  <2>3. CASE FlushAndDecide
    BY <1>1, <2>3 DEF FlushAndDecide
  <2>4. CASE CycleFound
    BY <1>2, <2>4 DEF CycleFound
  <2> QED
    BY <1>9, <2>1, <2>2, <2>3, <2>4
<1>10. CASE WorkerThreads
  <2>1. CASE Exit
    BY <2>1, <1>1 DEF Exit, sweep
  <2>2. ASSUME NEW m \in Nodes, WorkerStep(m)
        PROVE  Grown
    BY <2>2, <1>1 DEF WorkerStep, TakeJob, CountJob, CancelJob, StampFile, ReadInputs, ToolSucceeds,
       ToolFails, UncountJob, AppendCompleted, sweep
  <2> QED
    BY <1>10, <2>1, <2>2 DEF WorkerThreads
<1>11. CASE Abort \/ SaveBegins
  BY <1>1, <1>11 DEF Abort, AbortBuild, SaveBegins, sweep
<1>12. CASE SaveEnds \/ Crash
  BY <1>2, <1>12 DEF SaveEnds, Crash, ProcessEnds
<1>13. CASE \E ts \in TargetSets : StartBuild(ts)
  BY <1>1, <1>13 DEF StartBuild, sweep
<1>14. CASE (\E f \in Files : EditFile(f)) \/ (\E m \in Outputs : OverwriteOutput(m)) \/ EditBff
  BY <1>1, <1>14 DEF EditFile, OverwriteOutput, EditBff, Change, sweep
<1>15. CASE UNCHANGED vars
  BY <1>1, <1>15 DEF vars, sweep
<1> QED
  BY <1>4, <1>5, <1>6, <1>7, <1>8, <1>9, <1>10, <1>11, <1>12, <1>13, <1>14, <1>15
     DEF Next, MainThread, MainStep, Finished

LEMMA PathPendingStep ==
  ASSUME TypeInv, OrderInv, PathPending, [Next]_vars
  PROVE  PathPending'
<1> SUFFICES ASSUME main' = "check", NEW n \in ToSet(stack') PROVE state'[n] \in Pending
  BY DEF PathPending
<1>1. state[n] \in Pending
  BY StackGrows DEF PathPending
<1>2. state' = state
  <2>1. JobsBuild
    BY DEF OrderInv
  <2>2. CASE Framed
    BY <2>2 DEF Framed, graph
  <2>3. CASE \E m \in Nodes : StampFile(m) \/ ReadInputs(m) \/ ToolSucceeds(m) \/ ToolFails(m)
    BY <2>3 DEF StampFile, ReadInputs, ToolSucceeds, ToolFails, graph
  <2>4. CASE Edits
    BY <2>4 DEF Edits, EditFile, OverwriteOutput, EditBff, Change, graph
  <2>5. CASE FinalizeCompletedJobs /\ UNCHANGED session
    BY <2>5, FinalizeEnds
  <2>6. ASSUME NEW m \in Nodes, UNCHANGED session,
               NotReady(m) \/ PreBuildReady(m) \/ StaticReady(m) \/ DynamicReady(m)
        PROVE  state' = state
    BY <2>6, Advance
  <2>7. CASE Restarts
    BY <2>7 DEF Restarts, SaveEnds, Crash, StartBuild, ProcessEnds
  <2> QED
    BY <2>1, <2>2, <2>3, <2>4, <2>5, <2>6, <2>7, Steps DEF Restarts, Edits
<1> QED
  BY <1>1, <1>2

---------------------------------------------------------------------------
(* Every failure has a cause                                               *)

\* What steps that only move a job, the sweep or the check do to the control of the build
Steady ==
    /\ interruptions' \in {interruptions, interruptions + 1}
    /\ \A n \in Nodes : /\ job[n].result = "failed" => job'[n].result = "failed"
                        /\ job'[n].result = "failed" => job[n].result = "failed" \/ stopBuild
    /\ stopBuild => stopBuild'
    /\ stopBuild' => stopBuild \/ CycleFound \/ interruptions' = interruptions + 1
    /\ stopping' => stopping \/ stopBuild' \/ Complete
    /\ Ending => Ending'
    /\ main' \in {"save", "writing"} => main \in {"save", "writing"} /\ stopping' = stopping

LEMMA SteadyJobs ==
  ASSUME TypeInv, OrderInv, NEW n \in Nodes, UNCHANGED session,
         TakeJob(n) \/ CountJob(n) \/ CancelJob(n) \/ UncountJob(n) \/ AppendCompleted(n)
  PROVE  Steady
<1>1. job \in [Nodes -> JobType]
  BY DEF TypeInv, TypeOK, JobType
<1>2. UNCHANGED <<interruptions, main, stopBuild, stopping>>
  BY DEF TakeJob, CountJob, CancelJob, UncountJob, AppendCompleted, control, session
<1>3. CASE CancelJob(n)
  <2>1. /\ \A m \in Nodes \ {n} : job'[m] = job[m]
        /\ job'[n].result = "failed" /\ stopBuild
    BY <1>1, <1>3 DEF CancelJob, Cancelling
  <2> QED
    BY <1>2, <2>1 DEF Steady, Ending
<1>4. CASE ~CancelJob(n)
  <2>1. PICK p \in Places : Move(n, p)
    BY <1>4, PlaceNames DEF TakeJob, CountJob, UncountJob, AppendCompleted
  <2>2. \A m \in Nodes : job'[m].result = job[m].result
    BY <1>1, <2>1 DEF Move, JobType
  <2> QED
    BY <1>2, <2>2 DEF Steady, Ending
<1> QED
  BY <1>3, <1>4

LEMMA SteadySweep ==
  ASSUME TypeInv, UNCHANGED session,
         \/ EndSweep \/ CheckReturn \/ CycleFound \/ FlushAndDecide \/ Exit
         \/ \E n \in Nodes : \/ StartTarget(n) \/ CheckDescend(n) \/ AlreadyFailed(n)
                             \/ \E d \in Nodes : Descend(n, d)
  PROVE  Steady
<1> USE DEF queue, control, session
<1>1. CASE EndSweep \/ CheckReturn
  BY <1>1 DEF EndSweep, CheckReturn, Steady, Ending
<1>2. CASE CycleFound
  BY <1>2 DEF CycleFound, Steady, Ending
<1>3. CASE FlushAndDecide
  <2>1. \A n \in Nodes : job'[n].result = job[n].result
    BY <1>3 DEF FlushAndDecide, TypeInv, TypeOK
  <2>2. /\ main' = "finalize" /\ stopping' = (stopBuild \/ Complete)
        /\ UNCHANGED <<interruptions, stopBuild>>
    BY <1>3 DEF FlushAndDecide
  <2> QED
    BY <2>1, <2>2 DEF Steady, Ending
<1>4. CASE Exit
  BY <1>4 DEF Exit, Steady, Ending
<1>5. ASSUME NEW n \in Nodes,
             \/ StartTarget(n) \/ CheckDescend(n) \/ AlreadyFailed(n)
             \/ \E d \in Nodes : Descend(n, d)
      PROVE  Steady
  BY <1>5 DEF StartTarget, CheckDescend, AlreadyFailed, Descend, Sweeping, Steady, Ending
<1> QED
  BY <1>1, <1>2, <1>3, <1>4, <1>5

LEMMA SteadyRest ==
  ASSUME TypeInv, SaveBegins \/ Abort \/ UNCHANGED vars
  PROVE  Steady
<1> USE DEF queue, control, session
<1>1. CASE SaveBegins
  BY <1>1 DEF SaveBegins, Steady, Ending
<1>2. CASE Abort
  BY <1>2 DEF Abort, AbortBuild, Steady, Ending
<1>3. CASE UNCHANGED vars
  BY <1>3 DEF vars, Steady, Ending
<1> QED
  BY <1>1, <1>2, <1>3

\* The actions again, with what the first group does to the control.
LEMMA SteadySteps ==
  ASSUME TypeInv, OrderInv, [Next]_vars
  PROVE  \/ Framed /\ Steady
         \/ /\ UNCHANGED session
            /\ \E n \in Nodes :
                  StampFile(n) \/ ReadInputs(n) \/ ToolSucceeds(n) \/ ToolFails(n)
         \/ FinalizeCompletedJobs /\ UNCHANGED session
         \/ /\ UNCHANGED session
            /\ \E n \in Nodes :
                  NotReady(n) \/ PreBuildReady(n) \/ StaticReady(n) \/ DynamicReady(n)
         \/ Restarts \/ Edits
<1>0. JobsBuild
  BY DEF OrderInv
<1>1. CASE MainStep /\ UNCHANGED session
  BY <1>0, <1>1, FrameOfSweep, SteadySweep DEF MainStep
<1>2. CASE WorkerThreads
  BY <1>0, <1>2, FrameOfSweep, FrameOfJobs, SteadySweep, SteadyJobs DEF WorkerThreads, WorkerStep
<1>3. CASE SaveBegins \/ Abort \/ UNCHANGED vars
  BY <1>0, <1>3, FrameOfRest, SteadyRest
<1> QED
  BY <1>1, <1>2, <1>3 DEF Next, MainThread, Finished, Restarts, Edits

LEMMA CauseInit == Init => CauseInv
<1> SUFFICES ASSUME Init PROVE CauseInv
  OBVIOUS
<1>1. OutputsExist
  BY NodeKinds DEF Init, OutputsExist, Missing, NoJob
<1>2. PathPending /\ StopInv
  BY DEF Init, PathPending, StopInv
<1>3. InputsExist /\ FailuresCaused
  BY NodeKinds DEF Init, InputsExist, FailuresCaused, Running, NoJob
<1> QED
  BY <1>1, <1>2, <1>3 DEF CauseInv

LEMMA CauseOfFrame ==
  ASSUME TypeInv, OrderInv, CheckPath, CauseInv, Framed, Steady
  PROVE  OutputsExist' /\ StopInv' /\ (Undisturbed' => InputsExist' /\ FailuresCaused')
<1> USE NodeKinds
<1>1. /\ UNCHANGED <<mtime, bff, state, stamp, statics, dynamics, read, targets>>
      /\ db' = db \/ db'.kind # "saved"
      /\ \A n \in Nodes : job'[n].result = "ok" <=> job[n].result = "ok"
      /\ \A n \in Outputs : Running(n)' <=> Running(n)
      /\ \A n \in Nodes : Dependencies(n)' = Dependencies(n)
  BY DEF Framed, disk, graph, Running, Corrupt, Dependencies
<1>2. OutputsExist'
  BY <1>1 DEF CauseInv, OutputsExist
<1>3. StopInv'
  <2>1. Complete' <=> Complete
    BY <1>1 DEF Complete
  <2>2. interruptions' \in Nat
    BY DEF Steady, CauseInv, StopInv
  <2>3. stopping' => stopBuild' \/ Complete'
    BY <2>1 DEF Steady, CauseInv, StopInv
  <2>4. main' \in {"save", "writing"} => stopping'
    BY DEF Steady, CauseInv, StopInv
  <2> QED
    BY <2>2, <2>3, <2>4 DEF StopInv
<1>4. ASSUME Undisturbed'
      PROVE  InputsExist' /\ FailuresCaused'
  <2>1. interruptions = 0 /\ interruptions' = 0
    BY <1>4 DEF Undisturbed, Steady, CauseInv, StopInv
  <2>2. Undisturbed /\ InputsExist /\ FailuresCaused
    BY <1>1, <1>4, <2>1 DEF Undisturbed, CauseInv
  <2>3. InputsExist'
    BY <1>1, <2>2 DEF InputsExist
  <2>4. Onward
    BY <1>1 DEF Onward, Steady
  <2>5. Cause => Cause'
    BY <2>4, CauseStays
  <2>6. CycleFound => Stuck'
    <3> SUFFICES ASSUME CycleFound PROVE Stuck'
      OBVIOUS
    <3>1. Ending'
      BY DEF CycleFound, Ending
    <3>2. \E S \in SUBSET Nodes : Cycle(S) /\ S \subseteq ToSet(stack)
      BY PathIsCycle DEF Cycle
    <3>3. \A n \in ToSet(stack) : state[n] \in Pending
      BY DEF CauseInv, PathPending, CycleFound
    <3>4. \E S \in SUBSET Nodes : Cycle(S) /\ \A n \in S : state[n] \in Pending
      BY <3>2, <3>3
    <3> QED
      <4>1. PICK S \in SUBSET Nodes : Cycle(S) /\ \A n \in S : state[n] \in Pending
        BY <3>4
      <4>2. Cycle(S)' /\ \A n \in S : state'[n] \in Pending
        BY <1>1, <4>1 DEF Cycle
      <4> QED
        BY <3>1, <4>1, <4>2 DEF Stuck
  <2>7. stopBuild' => Cause'
    BY <2>1, <2>2, <2>5, <2>6 DEF FailuresCaused, Steady, Cause
  <2>8. \A n \in Nodes : job'[n].result = "failed" => Cause'
    BY <2>2, <2>5 DEF FailuresCaused, Steady
  <2>9. \A n \in Nodes : state'[n] = "FAILED" =>
            Cause' \/ \E d \in Dependencies(n)' : state'[d] = "FAILED"
    BY <1>1, <2>2, <2>5 DEF FailuresCaused
  <2> QED
    BY <2>3, <2>7, <2>8, <2>9 DEF FailuresCaused
<1> QED
  BY <1>2, <1>3, <1>4

LEMMA CauseOfTools ==
  ASSUME TypeInv, OrderInv, CauseInv, NEW n \in Nodes, UNCHANGED session,
         StampFile(n) \/ ReadInputs(n) \/ ToolSucceeds(n) \/ ToolFails(n)
  PROVE  OutputsExist' /\ StopInv' /\ (Undisturbed' => InputsExist' /\ FailuresCaused')
<1> USE NodeKinds, StampTypes
<1>1. /\ UNCHANGED <<bff, state, statics, dynamics, main, targets, stopping, interruptions, db>>
      /\ state[n] = "BUILDING" /\ job[n].result = "none" /\ job[n].at \in {"active", "reading"}
      /\ \A m \in Nodes : Dependencies(m)' = Dependencies(m)
  BY DEF StampFile, ReadInputs, ToolSucceeds, ToolFails, graph, control, session, OrderInv, JobsBuild,
         Dependencies, JobType
<1>2. \A m \in Nodes \ {n} : job'[m] = job[m]
  BY DEF StampFile, ReadInputs, ToolSucceeds, ToolFails, Move
<1>3. \A f \in Files : mtime'[f] = mtime[f]
  <2>1. StampFile(n) \/ ReadInputs(n) => mtime' = mtime
    BY DEF StampFile, ReadInputs, disk
  <2>2. ToolSucceeds(n) \/ ToolFails(n) => n \in Outputs /\ \A m \in Nodes \ {n} : mtime'[m] = mtime[m]
    BY ToolEnds
  <2> QED
    BY <2>1, <2>2
<1>4. stopBuild => stopBuild'
  BY DEF StampFile, ReadInputs, ToolSucceeds, ToolFails, control
<1>5. StopInv'
  BY <1>1, <1>4 DEF CauseInv, StopInv, Complete
<1>6. Cause => Cause'
  <2>1. \A m \in Faulty \cap Outputs : job[m].result = "failed" => job'[m].result = "failed"
    BY <1>1, <1>2
  <2>2. Onward
    BY <1>1, <1>4, <2>1 DEF Onward, Ending
  <2> QED
    BY <2>2, CauseStays
<1>7. CASE StampFile(n)
  <2>1. /\ n \in Files /\ UNCHANGED <<mtime, read, stopBuild>> /\ stamp'[n] = mtime[n]
        /\ \A m \in Nodes \ {n} : stamp'[m] = stamp[m]
        /\ job'[n].result = "ok"
    BY <1>7 DEF StampFile, control, disk
  <2>2. OutputsExist'
    BY <1>1, <1>2, <2>1 DEF CauseInv, OutputsExist
  <2>3. \A m \in Outputs : Running(m)' <=> Running(m)
    BY <1>2, <2>1 DEF Running
  <2>4. Undisturbed' => Undisturbed /\ InputsExist'
    BY <1>1, <1>2, <2>1, <2>3 DEF CauseInv, Undisturbed, InputsExist
  <2>5. Undisturbed => FailuresCaused'
    BY <1>1, <1>2, <1>6, <2>1 DEF CauseInv, FailuresCaused
  <2> QED
    BY <1>5, <2>2, <2>4, <2>5
<1>8. CASE ReadInputs(n)
  <2>1. /\ n \in Outputs /\ UNCHANGED <<mtime, stamp, stopBuild>>
        /\ \A m \in Outputs \ {n} : read'[m] = read[m]
        /\ read'[n].from = [d \in Inputs(n) |-> Modification(n, d)]
    BY <1>8 DEF ReadInputs, control, disk, graph
  <2>2. job'[n].at = "reading" /\ job'[n].result = "none"
    <3>1. job' = [job EXCEPT ![n] = [at |-> "reading", result |-> job[n].result]]
      BY <1>8, TypeOfMove, PlaceNames, <1>1 DEF ReadInputs
    <3> QED
      BY <1>1, <3>1
  <2>3. OutputsExist'
    BY <1>1, <1>2, <2>1, <2>2 DEF CauseInv, OutputsExist
  <2>4. ASSUME Undisturbed, NEW d \in Inputs(n)
        PROVE  Modification(n, d) # 0
    <3>1. d \in Nodes
      <4>1. n \in Objects => Found(n, mtime[Lead[n]]) \in SUBSET Nodes
        BY FoundNodes
      <4> QED
        BY <2>1, <4>1 DEF Inputs
    <3>2. CASE d \in Outputs
      BY <1>1, <2>1, <3>2, InputsFinished DEF CauseInv, OutputsExist
    <3>3. CASE d \in Files /\ ~(n \in Libraries /\ d = Lead[n])
      BY <2>4, <3>3 DEF Modification, Undisturbed
    <3>4. CASE n \in Libraries /\ d = Lead[n]
      <4>1. state[d] = "UP_TO_DATE" /\ d \in Files
        BY <1>1, <3>4 DEF OrderInv, DependenciesFirst, AreUp
      <4> QED
        BY <2>4, <3>4, <4>1 DEF CauseInv, InputsExist, Modification
    <3> QED
      BY <3>1, <3>2, <3>3, <3>4
  <2>5. Undisturbed' <=> Undisturbed
    BY <1>1, <2>1 DEF Undisturbed
  <2>6. Undisturbed => InputsExist'
    <3> SUFFICES ASSUME Undisturbed PROVE InputsExist'
      OBVIOUS
    <3>1. \A m \in Outputs \ {n} : Running(m)' <=> Running(m)
      BY <1>2 DEF Running
    <3>2. \A d \in DOMAIN read'[n].from : read'[n].from[d] # 0
      BY <2>1, <2>4
    <3> QED
      BY <1>1, <1>2, <2>1, <3>1, <3>2 DEF CauseInv, InputsExist
  <2>7. Undisturbed => FailuresCaused'
    BY <1>1, <1>2, <1>6, <2>1, <2>2 DEF CauseInv, FailuresCaused
  <2> QED
    BY <1>5, <2>3, <2>5, <2>6, <2>7
<1>9. CASE ToolSucceeds(n) \/ ToolFails(n)
  <2>1. /\ n \in Outputs /\ job[n].at = "reading" /\ UNCHANGED read
        /\ \A m \in Nodes \ {n} : mtime'[m] = mtime[m] /\ stamp'[m] = stamp[m]
        /\ \A m \in Outputs \ {n} : Running(m)' <=> Running(m)
        /\ \/ /\ job'[n].at = "ended" /\ job'[n].result = "ok" /\ mtime'[n] = mtime[n] + 1
              /\ \A d \in DOMAIN read[n].from : read[n].from[d] # 0
           \/ /\ job'[n].at = "ended" /\ job'[n].result \in {"failed", "aborted"}
              /\ stamp'[n] = stamp[n]
    BY <1>9, ToolEnds
  <2>2. mtime'[n] = mtime[n] \/ mtime'[n] = mtime[n] + 1
    BY <1>9, <2>1 DEF ToolSucceeds, ToolFails, Write, disk
  <2>3. mtime[n] \in Nat
    BY <2>1
  <2>4. OutputsExist'
    BY <1>1, <1>2, <2>1, <2>2, <2>3 DEF CauseInv, OutputsExist
  <2>5. Undisturbed' <=> Undisturbed
    BY <1>1, <1>3 DEF Undisturbed
  <2>6. InputsExist => InputsExist'
    BY <1>1, <1>2, <2>1 DEF InputsExist, Running
  <2>7. ASSUME Undisturbed
        PROVE  FailuresCaused'
    <3>1. Running(n) /\ InputsExist
      BY <2>1, <2>7 DEF CauseInv, Running
    <3>2. job'[n].result = "failed" => n \in Faulty
      <4>1. ToolFails(n) /\ job'[n].result = "failed" =>
              n \in Faulty \/ \E d \in DOMAIN read[n].from : read[n].from[d] = 0
        BY DEF ToolFails
      <4>2. ToolSucceeds(n) => job'[n].result = "ok"
        BY DEF ToolSucceeds
      <4> QED
        BY <1>9, <2>1, <3>1, <4>1, <4>2 DEF InputsExist
    <3>3. job'[n].result = "failed" => Cause'
      BY <2>1, <3>2 DEF Cause
    <3>4. stopBuild' => stopBuild \/ job'[n].result = "failed"
      <4>1. ASSUME ToolFails(n), stopBuild', ~stopBuild
            PROVE  job'[n].result = "failed"
        <5>1. PICK result \in {"failed", "aborted"} :
                  /\ job' = [job EXCEPT ![n] = [at |-> "ended", result |-> result]]
                  /\ stopBuild' = (stopBuild \/ (result = "failed" /\ StopOnFirstError))
          BY <4>1 DEF ToolFails
        <5>2. result = "failed"
          BY <4>1, <5>1
        <5> QED
          BY <5>1, <5>2 DEF TypeInv, TypeOK
      <4>2. ToolSucceeds(n) => stopBuild' = stopBuild
        BY DEF ToolSucceeds, control
      <4> QED
        BY <1>9, <4>1, <4>2
    <3> QED
      BY <1>1, <1>2, <1>6, <2>7, <3>3, <3>4 DEF CauseInv, FailuresCaused
  <2> QED
    BY <1>5, <2>4, <2>5, <2>6, <2>7 DEF CauseInv
<1> QED
  BY <1>7, <1>8, <1>9

LEMMA CauseOfFinalize ==
  ASSUME TypeInv, OrderInv, CauseInv, FinalizeCompletedJobs, UNCHANGED session
  PROVE  OutputsExist' /\ StopInv' /\ (Undisturbed' => InputsExist' /\ FailuresCaused')
<1> USE NodeKinds, StampTypes, FinalizeEnds
<1>1. /\ UNCHANGED <<mtime, bff, read, targets, stopBuild, stopping, interruptions, db>>
      /\ main = "finalize" /\ (stopping => main' \in {"finalize", "save"})
      /\ main' \in {"save", "writing"} => stopping
      /\ \A n \in Nodes : state[n] # "BUILDING" => state'[n] = state[n]
      /\ \A n \in Nodes : state'[n] = "UP_TO_DATE" => state[n] = "UP_TO_DATE" \/ job[n].result = "ok"
      /\ \A n \in Nodes : state'[n] = "FAILED" =>
            state[n] = "FAILED" \/ (state[n] = "BUILDING" /\ job[n].result = "failed")
  BY DEF control, session
<1>2. \A n \in Nodes : job'[n] = job[n] \/ job'[n] = NoJob
  OBVIOUS
<1>3. \A n \in Nodes : state[n] # "BUILDING" => Dependencies(n)' = Dependencies(n)
  <2>1. \A n \in Outputs : state[n] # "BUILDING" => n \notin Succeeded
    OBVIOUS
  <2> QED
    BY <1>1, <2>1 DEF Dependencies
<1>4. OutputsExist'
  BY <1>1, <1>2 DEF CauseInv, OutputsExist, NoJob
<1>5. StopInv'
  <2>1. Complete => Complete'
    <3>1. targets \subseteq Nodes
      BY DEF TypeInv, TypeOK
    <3> QED
      BY <1>1, <3>1 DEF Complete, Final
  <2> QED
    BY <1>1, <2>1 DEF CauseInv, StopInv
<1>6. Cause => Cause'
  <2>1. \A n \in Faulty \cap Outputs : job[n].result = "failed" =>
            job'[n].result = "failed" \/ (state[n] = "BUILDING" /\ state'[n] = "FAILED")
    <3> SUFFICES ASSUME NEW n \in Faulty \cap Outputs, job[n].result = "failed"
                 PROVE  job'[n].result = "failed" \/ (state[n] = "BUILDING" /\ state'[n] = "FAILED")
      OBVIOUS
    <3>1. n \in Nodes \ Succeeded
      OBVIOUS
    <3> QED
      BY <3>1
  <2>2. Ending => Ending'
    BY <1>1 DEF Ending
  <2>3. Onward
    BY <1>1, <1>3, <2>1, <2>2 DEF Onward, Final, Pending
  <2> QED
    BY <2>3, CauseStays
<1>7. Undisturbed' <=> Undisturbed
  BY <1>1 DEF Undisturbed
<1>8. ASSUME Undisturbed
      PROVE  InputsExist'
  <2>1. \A f \in Files : stamp[f] # 0 => stamp'[f] # 0
    BY <1>8 DEF Undisturbed
  <2>2. \A n \in Outputs : Running(n)' => Running(n)
    BY <1>2 DEF Running, NoJob
  <2> QED
    BY <1>1, <1>2, <1>8, <2>1, <2>2 DEF CauseInv, InputsExist, NoJob
<1>9. ASSUME Undisturbed
      PROVE  FailuresCaused'
  <2>1. FailuresCaused
    BY <1>9 DEF CauseInv
  <2>2. stopBuild' => Cause'
    BY <1>1, <1>6, <2>1 DEF FailuresCaused
  <2>3. \A n \in Nodes : job'[n].result = "failed" => Cause'
    BY <1>2, <1>6, <2>1 DEF FailuresCaused, NoJob
  <2>4. ASSUME NEW n \in Nodes, state'[n] = "FAILED"
        PROVE  Cause' \/ \E d \in Dependencies(n)' : state'[d] = "FAILED"
    <3>1. CASE job[n].result = "failed"
      BY <1>6, <2>1, <3>1 DEF FailuresCaused
    <3>2. CASE state[n] = "FAILED"
      <4>1. Cause \/ \E d \in Dependencies(n) : state[d] = "FAILED"
        BY <2>1, <3>2 DEF FailuresCaused
      <4>2. Dependencies(n) \subseteq Nodes
        BY BffFields DEF Dependencies, TypeInv, TypeOK
      <4>3. Dependencies(n)' = Dependencies(n)
        BY <1>3, <3>2
      <4> QED
        BY <1>1, <1>6, <4>1, <4>2, <4>3
    <3> QED
      BY <1>1, <2>4, <3>1, <3>2
  <2> QED
    BY <2>2, <2>3, <2>4 DEF FailuresCaused
<1> QED
  BY <1>4, <1>5, <1>7, <1>8, <1>9


LEMMA CauseOfAdvance ==
  ASSUME TypeInv, OrderInv, CauseInv, NEW n \in Nodes, UNCHANGED session,
         NotReady(n) \/ PreBuildReady(n) \/ StaticReady(n) \/ DynamicReady(n)
  PROVE  OutputsExist' /\ StopInv' /\ (Undisturbed' => InputsExist' /\ FailuresCaused')
<1> USE NodeKinds, StampTypes
<1>1. /\ UNCHANGED <<mtime, bff, read, main, targets, stopBuild, stopping, interruptions, db>>
      /\ main = "sweep" /\ state[n] \in Pending /\ job[n].at = "none" /\ job[n].result = "none"
      /\ \A m \in Nodes \ {n} : state'[m] = state[m] /\ stamp'[m] = stamp[m] /\ job'[m] = job[m]
      /\ \A m \in Outputs \ {n} : dynamics'[m] = dynamics[m]
      /\ job'[n].at \in {"none", "staged"} /\ job'[n].result = "none"
      /\ stamp'[n] = stamp[n] \/ (stamp'[n] = 0 /\ state'[n] # "UP_TO_DATE")
      /\ state'[n] = "UP_TO_DATE" => stamp[n] # 0
  BY Advance DEF disk, control, session, Pending
<1>2. OutputsExist'
  BY <1>1 DEF CauseInv, OutputsExist
<1>3. StopInv'
  <2>1. Complete => Complete'
    <3>1. targets \subseteq Nodes
      BY DEF TypeInv, TypeOK
    <3> QED
      BY <1>1, <3>1 DEF Complete, Final, Pending
  <2> QED
    BY <1>1, <2>1 DEF CauseInv, StopInv
<1>4. Cause => Cause'
  <2>1. Onward
    BY <1>1 DEF Onward, Ending, Final, Pending
  <2> QED
    BY <2>1, CauseStays
<1>5. ASSUME Undisturbed'
      PROVE  InputsExist'
  <2>1. Undisturbed /\ InputsExist
    BY <1>1, <1>5 DEF Undisturbed, CauseInv
  <2>2. \A m \in Outputs : Running(m)' => Running(m)
    BY <1>1 DEF Running
  <2> QED
    BY <1>1, <2>1, <2>2 DEF InputsExist
<1>6. ASSUME Undisturbed'
      PROVE  FailuresCaused'
  <2>1. Undisturbed /\ FailuresCaused
    BY <1>1, <1>6 DEF Undisturbed, CauseInv
  <2>2. stopBuild' => Cause'
    BY <1>1, <1>4, <2>1 DEF FailuresCaused
  <2>3. \A m \in Nodes : job'[m].result = "failed" => Cause'
    BY <1>1, <1>4, <2>1 DEF FailuresCaused
  <2>4. ASSUME NEW m \in Nodes, state'[m] = "FAILED"
        PROVE  Cause' \/ \E d \in Dependencies(m)' : state'[d] = "FAILED"
    <3>1. Dependencies(m) \subseteq Nodes
      BY BffFields DEF Dependencies, TypeInv, TypeOK
    <3>2. CASE m # n
      <4>1. Cause \/ \E d \in Dependencies(m) : state[d] = "FAILED"
        BY <1>1, <2>1, <2>4, <3>2 DEF FailuresCaused
      <4>2. Dependencies(m)' = Dependencies(m)
        BY <1>1, <3>2 DEF Dependencies
      <4> QED
        BY <1>1, <1>4, <3>1, <4>1, <4>2 DEF Pending
    <3>3. CASE m = n
      <4>1. \/ dynamics' = dynamics /\ \E d \in Checked(n) : state[d] = "FAILED"
            \/ state[n] = "STATIC_DEPS" /\ AreUp(Checked(n)) /\ n \in Libraries \cap Faulty
        BY <1>1, <2>4, <3>3, Advance DEF Pending
      <4>2. CASE dynamics' = dynamics /\ \E d \in Checked(n) : state[d] = "FAILED"
        <5>1. Checked(n) \subseteq Dependencies(n) /\ Dependencies(n)' = Dependencies(n)
          BY <1>1, <4>2 DEF Checked, Dependencies
        <5> QED
          BY <1>1, <3>1, <3>3, <4>2, <5>1 DEF Pending
      <4>3. CASE state[n] = "STATIC_DEPS" /\ AreUp(Checked(n)) /\ n \in Libraries \cap Faulty
        <5>1. n \in Outputs /\ AreUp(bff.pre[n]) /\ AreUp(bff.static[n])
          BY <4>3 DEF Checked, OrderInv, DependenciesFirst
        <5>2. bff.pre[n] \cup bff.static[n] \subseteq Nodes
          BY <5>1, BffFields DEF TypeInv, TypeOK
        <5>3. Blamed(n)'
          BY <1>1, <2>4, <3>3, <5>1, <5>2 DEF Blamed, AreUp, Pending
        <5> QED
          BY <4>3, <5>1, <5>3 DEF Cause
      <4> QED
        BY <4>1, <4>2, <4>3
    <3> QED
      BY <3>2, <3>3
  <2> QED
    BY <2>2, <2>3, <2>4 DEF FailuresCaused
<1> QED
  BY <1>2, <1>3, <1>5, <1>6

LEMMA CauseOfRestarts ==
  ASSUME TypeInv, CauseInv, Restarts
  PROVE  OutputsExist' /\ StopInv' /\ (Undisturbed' => InputsExist' /\ FailuresCaused')
<1> USE NodeKinds, StampTypes
<1>1. /\ \A n \in Nodes : state'[n] = "NOT_PROCESSED" /\ job'[n] = NoJob
      /\ stopBuild' = FALSE /\ stopping' = FALSE /\ main' \in {"idle", "finalize"}
      /\ interruptions' \in {interruptions, interruptions + 1}
  BY DEF Restarts, SaveEnds, Crash, StartBuild, ProcessEnds, TypeInv, AtRest, queue
<1>2. \A n \in Outputs : /\ mtime[n] # 0 => mtime'[n] # 0
                         /\ \/ stamp'[n] = 0
                            \/ db.kind = "saved" /\ stamp'[n] = db.stamp[n]
                         /\ db'.kind = "saved" =>
                              \/ db'.stamp[n] = stamp[n]
                              \/ db.kind = "saved" /\ db'.stamp[n] = db.stamp[n]
  <2>1. CASE SaveEnds
    BY <2>1 DEF SaveEnds, ProcessEnds, disk
  <2>2. CASE Crash
    BY <2>2 DEF Crash, ProcessEnds
  <2>3. ASSUME NEW ts \in TargetSets, StartBuild(ts)
        PROVE  \A n \in Outputs : /\ mtime'[n] = mtime[n] /\ db' = db
                                  /\ \/ stamp'[n] = 0
                                     \/ db.kind = "saved" /\ stamp'[n] = db.stamp[n]
    BY <2>3 DEF StartBuild, Initialize, disk
  <2> QED
    BY <2>1, <2>2, <2>3 DEF Restarts
<1>3. OutputsExist'
  BY <1>1, <1>2 DEF CauseInv, OutputsExist, NoJob
<1>4. StopInv'
  BY <1>1 DEF CauseInv, StopInv
<1>5. InputsExist' /\ FailuresCaused'
  BY <1>1 DEF InputsExist, FailuresCaused, Running, NoJob
<1> QED
  BY <1>3, <1>4, <1>5

LEMMA CauseOfEdits ==
  ASSUME TypeInv, OrderInv, CauseInv, Edits
  PROVE  OutputsExist' /\ StopInv' /\ (Undisturbed' => InputsExist' /\ FailuresCaused')
<1> USE NodeKinds, StampTypes
<1>1. UNCHANGED <<graph, queue, main, control, db, interruptions>>
  BY DEF Edits, EditFile, OverwriteOutput, EditBff, Change
<1>2. \A n \in Outputs : mtime[n] # 0 => mtime'[n] # 0
  <2>1. CASE EditBff
    BY <2>1 DEF EditBff, disk
  <2>2. ASSUME NEW f \in Files, EditFile(f)
        PROVE  \A n \in Outputs : mtime'[n] = mtime[n]
    BY <2>2 DEF EditFile
  <2>3. ASSUME NEW o \in Outputs, OverwriteOutput(o)
        PROVE  \A n \in Outputs : mtime'[n] = mtime[n] \/ mtime'[n] = mtime[n] + 1
    BY <2>3 DEF OverwriteOutput, Write
  <2> QED
    BY <2>1, <2>2, <2>3 DEF Edits
<1>3. \A f \in Files : mtime'[f] # 0 => mtime[f] # 0
  <2>1. CASE EditBff
    BY <2>1 DEF EditBff, disk
  <2>2. ASSUME NEW g \in Files, EditFile(g)
        PROVE  \A f \in Files : mtime[f] = 0 => mtime'[f] = mtime[f]
    BY <2>2 DEF EditFile
  <2>3. ASSUME NEW o \in Outputs, OverwriteOutput(o)
        PROVE  \A f \in Files : mtime'[f] = mtime[f]
    BY <2>3 DEF OverwriteOutput, Write
  <2> QED
    BY <2>1, <2>2, <2>3 DEF Edits
<1>4. OutputsExist'
  BY <1>1, <1>2 DEF CauseInv, OutputsExist, graph, queue
<1>5. StopInv'
  BY <1>1 DEF CauseInv, StopInv, Complete, graph, control
<1>6. Undisturbed' => Undisturbed
  BY <1>1, <1>3 DEF Undisturbed
<1>7. InputsExist => InputsExist'
  BY <1>1 DEF InputsExist, Running, graph, queue
<1>8. FailuresCaused => FailuresCaused'
  <2>1. \A n \in Nodes : Dependencies(n)' = Dependencies(n)
    BY <1>1 DEF Dependencies, graph
  <2>2. Cause => Cause'
    <3>1. Onward
      BY <1>1, <2>1 DEF Onward, Ending, graph, queue, control
    <3> QED
      BY <3>1, CauseStays
  <2> QED
    BY <1>1, <2>1, <2>2 DEF FailuresCaused, graph, queue, control
<1> QED
  BY <1>4, <1>5, <1>6, <1>7, <1>8 DEF CauseInv

LEMMA CauseStep ==
  TypeInv /\ OrderInv /\ CheckPath /\ CauseInv /\ [Next]_vars => CauseInv'
<1> SUFFICES ASSUME TypeInv, OrderInv, CheckPath, CauseInv, [Next]_vars PROVE CauseInv'
  OBVIOUS
<1>1. PathPending'
  BY PathPendingStep DEF CauseInv
<1>2. OutputsExist' /\ StopInv' /\ (Undisturbed' => InputsExist' /\ FailuresCaused')
  BY SteadySteps, CauseOfFrame, CauseOfTools, CauseOfFinalize, CauseOfAdvance, CauseOfRestarts,
     CauseOfEdits
<1> QED
  BY <1>1, <1>2 DEF CauseInv

\* When the graph is saved, what is to blame for a failure is known: a node that failed
\* although what it needs is there, or a file that is missing, or a cycle.
LEMMA CauseAtEnd ==
  ASSUME TypeInv, CauseInv
  PROVE  FailureHasCause
<1> SUFFICES ASSUME main = "save", interruptions = 0, \E t \in targets : state[t] # "UP_TO_DATE",
                    \A f \in Files : mtime[f] # 0
             PROVE  \/ \E n \in Faulty : Blamed(n)
                    \/ \E S \in SUBSET Nodes : Cycle(S)
  BY DEF FailureHasCause, Blamed, AreUp, Cycle
<1>1. Undisturbed /\ FailuresCaused
  BY DEF Undisturbed, CauseInv
<1>2. \A n \in Nodes : job[n].result # "failed"
  BY DEF TypeInv, AtRest, NoJob
<1>3. Cause => (\E n \in Faulty : Blamed(n)) \/ \E S \in SUBSET Nodes : Cycle(S)
  BY <1>2, NodeKinds DEF Cause, Stuck
<1>4. CASE ~Cause
  <2>1. Complete
    BY <1>1, <1>4 DEF CauseInv, StopInv, FailuresCaused
  <2> DEFINE F == {n \in Nodes : state[n] = "FAILED"}
  <2>2. F # {}
    <3>1. targets \subseteq Nodes
      BY DEF TypeInv, TypeOK
    <3> QED
      BY <2>1, <3>1 DEF Complete, Final
  <2>3. \A n \in F : Dependencies(n) \cap F # {}
    <3>1. \A n \in Nodes : Dependencies(n) \subseteq Nodes
      BY NodeKinds, BffFields, StampTypes DEF Dependencies, TypeInv, TypeOK
    <3> QED
      BY <1>1, <1>4, <3>1 DEF FailuresCaused
  <2>4. Cycle(F)
    BY <2>2, <2>3 DEF Cycle
  <2> QED
    BY <2>4
<1> QED
  BY <1>3, <1>4

\* A build that nobody interrupts fails because of the build: a tool fails, a file is missing,
\* or nodes depend on each other. So neither the order in which the threads report,
\* nor the early stop, nor the check for cycles makes up a failure.
THEOREM FailuresHaveCause == Spec => []FailureHasCause
<1>1. Init => CheckPath /\ CauseInv
  BY PathInit, CauseInit
<1>2. TypeInv /\ OrderInv /\ CheckPath /\ CauseInv /\ [Next]_vars => CheckPath' /\ CauseInv'
  BY PathStep, CauseStep
<1>3. TypeInv /\ CauseInv => FailureHasCause
  BY CauseAtEnd
<1> QED
  BY <1>1, <1>2, <1>3, TypeInvariant, OrderInvariant, PTL DEF Spec

---------------------------------------------------------------------------
(* A build that is repeated builds nothing                                 *)

\* A record of an output that agrees with the times of the files
Settled(n, times, s, ss, ds) ==
    /\ s # 0 /\ s = times[n]
    /\ \A d \in DOMAIN ss : ss[d] # 0 /\ ss[d] = times[d]
    /\ \A d \in DOMAIN ds : ds[d] # 0 /\ ds[d] = times[d]

\* Such outputs, with all outputs that they depend on: in memory, and in the saved graph
SettledInMemory(U) ==
    \A n \in U : /\ Settled(n, mtime, stamp[n], statics[n], dynamics[n])
                 /\ Dependencies(n) \cap Outputs \subseteq U
SettledInFile(U) ==
    \A n \in U : /\ Settled(n, mtime, db.stamp[n], db.statics[n], db.dynamics[n])
                 /\ (db.bff.pre[n] \cup db.bff.static[n] \cup DOMAIN db.dynamics[n]) \cap Outputs
                        \subseteq U

\* What is known while nothing is changed: of files,
SettledFiles ==
    \A f \in Files :
        /\ stamp[f] \in {0, mtime[f]}
        /\ f \in built => state[f] \notin Pending
        /\ f \in built \/ state[f] = "UP_TO_DATE" \/ job[f].result = "ok" => stamp[f] = mtime[f]

\* of what tools have read,
SettledRead(n) ==
    /\ \A d \in DOMAIN read[n].from : read[n].from[d] = mtime[d]
    /\ bff.static[n] \subseteq DOMAIN read[n].from
    /\ n \notin Objects => DOMAIN dynamics[n] \subseteq DOMAIN read[n].from
    /\ job[n].result = "ok" => /\ stamp[n] # 0 /\ stamp[n] = mtime[n]
                               /\ \A d \in DOMAIN read[n].from : read[n].from[d] # 0
SettledReads == \A n \in Outputs : Running(n) => SettledRead(n)

\* and of outputs that need not be built.
KeptSettled(n) ==
    /\ stamp[n] = mtime[n]
    /\ \A d \in DOMAIN statics[n] : statics[n][d] # 0 /\ statics[n][d] = mtime[d]
UpIsSettled(n) ==
    /\ Settled(n, mtime, stamp[n], statics[n], dynamics[n])
    /\ AreUp(Dependencies(n) \cap Outputs)
SettledOutputs ==
    \A n \in Outputs :
        /\ state[n] = "DYNAMIC_DEPS" /\ stamp[n] # 0 => KeptSettled(n)
        /\ state[n] = "UP_TO_DATE" => UpIsSettled(n)

SettledBuild == bff = bffOnDisk /\ SettledFiles /\ SettledReads /\ SettledOutputs

\* After a success all that the targets need is settled in the saved graph,
SettledSave ==
    /\ db.kind = "saved" /\ db.bff = bffOnDisk
    /\ \E U \in SUBSET Outputs : targets \cap Outputs \subseteq U /\ SettledInFile(U)

\* and a build that is repeated begins with that and never leaves it.
NothingToBuild ==
    /\ \A n \in Outputs : job[n].at = "none" /\ n \notin built
    /\ \E U \in SUBSET Outputs : /\ (targets \cup ToSet(stack)) \cap Outputs \subseteq U
                                 /\ SettledInMemory(U)

QuietInv ==
    /\ main # "idle" /\ ~edited => SettledBuild
    /\ main = "idle" /\ outcome = "ok" /\ ~edited => SettledSave
    /\ main # "idle" /\ quiet /\ ~edited => NothingToBuild

LEMMA QuietInit == Init => QuietInv
  BY DEF Init, QuietInv

\* Nodes that are up to date have the times of their files.
LEMMA UpIsStamped ==
  ASSUME TypeInv, SettledBuild, NEW d \in Nodes, state[d] = "UP_TO_DATE"
  PROVE  stamp[d] = mtime[d]
  BY NodeKinds DEF SettledBuild, SettledFiles, SettledOutputs, UpIsSettled, Settled

\* The stack stays among the settled nodes when these do.
LEMMA PathIsSettled ==
  ASSUME TypeInv, [Next]_vars, NEW U \in SUBSET Outputs, SettledInMemory(U),
         (targets \cup ToSet(stack)) \cap Outputs \subseteq U, targets' = targets
  PROVE  (targets' \cup ToSet(stack')) \cap Outputs \subseteq U
<1> SUFFICES ASSUME NEW n \in ToSet(stack') \cap Outputs PROVE n \in U
  OBVIOUS
<1>1. n \in ToSet(stack) \/ n \in targets \/ \E m \in ToSet(stack) : n \in Dependencies(m)
  BY StackGrows
<1>2. ASSUME NEW m \in ToSet(stack), n \in Dependencies(m)
      PROVE  n \in U
  <2>1. m \in Nodes
    BY DEF TypeInv, TypeOK, ToSet
  <2>2. m \in U
    BY <1>2, <2>1, NodeKinds DEF Dependencies
  <2> QED
    BY <1>2, <2>2 DEF SettledInMemory
<1> QED
  BY <1>1, <1>2

LEMMA QuietOfFrame ==
  ASSUME TypeInv, QuietInv, [Next]_vars, Framed
  PROVE  QuietInv'
<1> USE NodeKinds
<1>1. /\ UNCHANGED <<mtime, bff, bffOnDisk, state, stamp, statics, dynamics, built, read, targets>>
      /\ UNCHANGED <<edited, outcome, quiet>> /\ (main' = "idle" <=> main = "idle")
      /\ main = "idle" => db' = db
      /\ \A n \in Nodes : job'[n].result = "ok" <=> job[n].result = "ok"
      /\ \A n \in Nodes : job'[n].at # "none" => job[n].at # "none"
      /\ \A n \in Outputs : Running(n)' <=> Running(n)
      /\ \A n \in Nodes : Dependencies(n)' = Dependencies(n)
  BY DEF Framed, disk, graph, Running, Dependencies
<1>2. SettledBuild => SettledBuild'
  <2>1. SettledFiles => SettledFiles'
    BY <1>1 DEF SettledFiles
  <2>2. SettledReads => SettledReads'
    BY <1>1 DEF SettledReads, SettledRead
  <2>3. SettledOutputs => SettledOutputs'
    BY <1>1 DEF SettledOutputs, KeptSettled, UpIsSettled, AreUp
  <2> QED
    BY <1>1, <2>1, <2>2, <2>3 DEF SettledBuild
<1>3. main = "idle" /\ SettledSave => SettledSave'
  BY <1>1 DEF SettledSave, SettledInFile
<1>4. NothingToBuild => NothingToBuild'
  <2> SUFFICES ASSUME NothingToBuild PROVE NothingToBuild'
    OBVIOUS
  <2>1. PICK U \in SUBSET Outputs : /\ (targets \cup ToSet(stack)) \cap Outputs \subseteq U
                                    /\ SettledInMemory(U)
    BY DEF NothingToBuild
  <2>2. (targets' \cup ToSet(stack')) \cap Outputs \subseteq U
    BY <1>1, <2>1, PathIsSettled
  <2>3. SettledInMemory(U)'
    BY <1>1, <2>1 DEF SettledInMemory
  <2> QED
    BY <1>1, <2>2, <2>3 DEF NothingToBuild
<1> QED
  BY <1>1, <1>2, <1>3, <1>4 DEF QuietInv

LEMMA QuietOfStampFile ==
  ASSUME TypeInv, OrderInv, QuietInv, [Next]_vars, NEW n \in Nodes, UNCHANGED session, StampFile(n)
  PROVE  QuietInv'
<1> USE NodeKinds, StampTypes
<1>1. /\ n \in Files /\ UNCHANGED <<mtime, bff, state, statics, dynamics, read, main, targets, stack>>
      /\ UNCHANGED <<bffOnDisk, edited, quiet>>
      /\ \A m \in Nodes \ {n} : stamp'[m] = stamp[m] /\ job'[m] = job[m]
      /\ stamp'[n] = mtime[n] /\ built' = built \cup {n}
  BY DEF StampFile, disk, sweep, control, session, user
<1>2. main # "idle" /\ state[n] = "BUILDING"
  BY DEF StampFile, TypeInv, AtRest, NoJob, OrderInv, JobsBuild
<1>3. \A m \in Outputs : /\ m # n /\ stamp'[m] = stamp[m] /\ job'[m] = job[m]
                         /\ Dependencies(m)' = Dependencies(m)
                         /\ Running(m)' <=> Running(m)
  <2>1. \A m \in Outputs : m # n
    BY <1>1
  <2> QED
    BY <1>1, <2>1 DEF Dependencies, Running
<1>4. SettledBuild => SettledBuild'
  <2>1. SettledFiles => SettledFiles'
    BY <1>1, <1>2 DEF SettledFiles, Pending
  <2>2. SettledReads => SettledReads'
    BY <1>1, <1>3 DEF SettledReads, SettledRead
  <2>3. SettledOutputs => SettledOutputs'
    BY <1>1, <1>3 DEF SettledOutputs, KeptSettled, UpIsSettled, AreUp
  <2> QED
    BY <1>1, <2>1, <2>2, <2>3 DEF SettledBuild
<1>5. NothingToBuild => NothingToBuild'
  <2> SUFFICES ASSUME NothingToBuild PROVE NothingToBuild'
    OBVIOUS
  <2>1. PICK U \in SUBSET Outputs : /\ (targets \cup ToSet(stack)) \cap Outputs \subseteq U
                                    /\ SettledInMemory(U)
    BY DEF NothingToBuild
  <2>2. SettledInMemory(U)'
    BY <1>1, <1>3, <2>1 DEF SettledInMemory
  <2>3. \A m \in Outputs : job'[m].at = "none" /\ m \notin built'
    BY <1>1, <1>3 DEF NothingToBuild
  <2> QED
    BY <1>1, <2>1, <2>2, <2>3 DEF NothingToBuild
<1> QED
  BY <1>1, <1>2, <1>4, <1>5 DEF QuietInv

LEMMA QuietOfReadInputs ==
  ASSUME TypeInv, OrderInv, QuietInv, NEW n \in Nodes, UNCHANGED session, ReadInputs(n)
  PROVE  QuietInv'
<1> USE NodeKinds, StampTypes
<1>1. /\ n \in Outputs /\ job[n].at = "active"
      /\ UNCHANGED <<mtime, bff, state, stamp, statics, dynamics, built, main, targets, stack>>
      /\ UNCHANGED <<bffOnDisk, edited, quiet>>
      /\ \A m \in Nodes \ {n} : job'[m] = job[m]
      /\ \A m \in Outputs \ {n} : read'[m] = read[m]
      /\ read'[n].from = [d \in Inputs(n) |-> Modification(n, d)]
  BY DEF ReadInputs, disk, graph, sweep, control, session, user, Move
<1>2. main # "idle" /\ state[n] = "BUILDING" /\ job[n].result = "none"
  BY <1>1 DEF TypeInv, AtRest, NoJob, OrderInv, JobsBuild
<1>3. job'[n].at = "reading" /\ job'[n].result = "none"
  <2>1. job' = [job EXCEPT ![n] = [at |-> "reading", result |-> job[n].result]]
    BY <1>2, TypeOfMove, PlaceNames DEF ReadInputs
  <2> QED
    BY <1>2, <2>1
<1>4. ~NothingToBuild
  BY <1>1 DEF NothingToBuild
<1>5. SettledBuild => SettledBuild'
  <2> SUFFICES ASSUME SettledBuild PROVE SettledBuild'
    OBVIOUS
  <2>1. SettledFiles'
    <3>1. \A f \in Files : f # n
      BY <1>1
    <3> QED
      BY <1>1, <3>1 DEF SettledBuild, SettledFiles
  <2>2. ASSUME NEW d \in Inputs(n)
        PROVE  Modification(n, d) = mtime[d]
    <3>1. CASE n \in Libraries /\ d = Lead[n]
      <4>1. Lead[n] \in Nodes /\ state[Lead[n]] = "UP_TO_DATE"
        BY <1>2, <3>1 DEF OrderInv, DependenciesFirst, AreUp
      <4> QED
        BY <3>1, <4>1, UpIsStamped DEF Modification
    <3>2. CASE ~(n \in Libraries /\ d = Lead[n])
      BY <3>2 DEF Modification
    <3> QED
      BY <3>1, <3>2
  <2>3. SettledRead(n)'
    <3>1. /\ \A d \in DOMAIN read'[n].from : read'[n].from[d] = mtime'[d]
          /\ bff'.static[n] \subseteq DOMAIN read'[n].from
          /\ n \notin Objects => DOMAIN dynamics'[n] \subseteq DOMAIN read'[n].from
      BY <1>1, <2>2 DEF Inputs
    <3> QED
      BY <1>3, <3>1 DEF SettledRead
  <2>4. SettledReads'
    <3> SUFFICES ASSUME NEW m \in Outputs, Running(m)', m # n PROVE SettledRead(m)'
      BY <2>3 DEF SettledReads
    <3>1. Running(m) /\ job'[m] = job[m] /\ read'[m] = read[m]
      BY <1>1 DEF Running
    <3> QED
      BY <1>1, <3>1 DEF SettledBuild, SettledReads, SettledRead
  <2>5. SettledOutputs'
    <3>1. \A m \in Nodes : Dependencies(m)' = Dependencies(m)
      BY <1>1 DEF Dependencies
    <3> QED
      BY <1>1, <3>1 DEF SettledBuild, SettledOutputs, KeptSettled, UpIsSettled, AreUp
  <2> QED
    BY <1>1, <2>1, <2>4, <2>5 DEF SettledBuild
<1> QED
  BY <1>1, <1>2, <1>4, <1>5 DEF QuietInv

\* The output that is written is no input of another tool that runs, and nothing that is
\* up to date depends on it.
LEMMA QuietOfTool ==
  ASSUME TypeInv, OrderInv, QuietInv, NEW n \in Nodes, UNCHANGED session,
         ToolSucceeds(n) \/ ToolFails(n)
  PROVE  QuietInv'
<1> USE NodeKinds, StampTypes
<1>1. /\ n \in Outputs /\ job[n].at = "reading" /\ state[n] = "BUILDING"
      /\ UNCHANGED <<bff, state, statics, dynamics, read, main, edited>>
      /\ \A m \in Nodes \ {n} : job'[m] = job[m] /\ mtime'[m] = mtime[m] /\ stamp'[m] = stamp[m]
      /\ \A m \in Outputs \ {n} : Running(m)' <=> Running(m)
      /\ \A f \in Files : f \in built' <=> f \in built
      /\ UNCHANGED <<bffOnDisk, quiet>>
  BY ToolEnds DEF session, user
<1>2. main # "idle" /\ ~NothingToBuild
  BY <1>1 DEF TypeInv, AtRest, NoJob, NothingToBuild
<1>3. SettledBuild => SettledBuild'
  <2> SUFFICES ASSUME SettledBuild PROVE SettledBuild'
    OBVIOUS
  <2>1. SettledFiles'
    <3>1. \A f \in Files : f # n
      BY <1>1
    <3> QED
      BY <1>1, <3>1 DEF SettledBuild, SettledFiles
  <2>2. ASSUME NEW m \in Outputs, Running(m), NEW d \in DOMAIN read[m].from
        PROVE  mtime'[d] = mtime[d]
    <3>1. d \in Nodes
      BY <2>2 DEF TypeInv, HasRead, Running, Stamps
    <3>2. d # n
      BY <1>1, <2>2 DEF OrderInv, OutputsAreRead
    <3> QED
      BY <1>1, <3>1, <3>2
  <2>3. ASSUME NEW m \in Outputs, Running(m)'
        PROVE  SettledRead(m)'
    <3>1. Running(m) /\ SettledRead(m)
      BY <1>1, <2>3 DEF Running, SettledBuild, SettledReads
    <3>2. /\ \A d \in DOMAIN read'[m].from : read'[m].from[d] = mtime'[d]
          /\ bff'.static[m] \subseteq DOMAIN read'[m].from
          /\ m \notin Objects => DOMAIN dynamics'[m] \subseteq DOMAIN read'[m].from
      BY <1>1, <2>2, <3>1 DEF SettledRead
    <3>3. job'[m].result = "ok" => /\ stamp'[m] # 0 /\ stamp'[m] = mtime'[m]
                                   /\ \A d \in DOMAIN read'[m].from : read'[m].from[d] # 0
      <4>1. CASE m # n
        BY <1>1, <3>1, <4>1 DEF SettledRead
      <4>2. CASE m = n
        BY <1>1, <4>2, ToolEnds
      <4> QED
        BY <4>1, <4>2
    <3> QED
      BY <3>2, <3>3 DEF SettledRead
  <2>4. ASSUME NEW m \in Outputs, state[m] = "DYNAMIC_DEPS", stamp'[m] # 0
        PROVE  KeptSettled(m)'
    <3>1. m # n /\ KeptSettled(m)
      BY <1>1, <2>4 DEF SettledBuild, SettledOutputs
    <3>2. \A d \in DOMAIN statics[m] : d \in Nodes /\ d # n
      BY <1>1, <2>4 DEF OrderInv, DependenciesFirst, AreUp
    <3> QED
      BY <1>1, <3>1, <3>2 DEF KeptSettled
  <2>5. ASSUME NEW m \in Outputs, state[m] = "UP_TO_DATE"
        PROVE  UpIsSettled(m)'
    <3>1. m # n /\ UpIsSettled(m)
      BY <1>1, <2>5 DEF SettledBuild, SettledOutputs
    <3>2. \A d \in DOMAIN statics[m] \cup DOMAIN dynamics[m] : d \in Nodes /\ d # n
      BY <1>1, <3>1 DEF UpIsSettled, Dependencies, AreUp
    <3>3. Dependencies(m)' = Dependencies(m)
      BY <1>1 DEF Dependencies
    <3> QED
      BY <1>1, <3>1, <3>2, <3>3 DEF UpIsSettled, Settled, AreUp
  <2> QED
    BY <1>1, <2>1, <2>3, <2>4, <2>5 DEF SettledBuild, SettledReads, SettledOutputs
<1> QED
  BY <1>1, <1>2, <1>3 DEF QuietInv

\* What is recorded at the end of a job are the times of now.
LEMMA RecordSettled ==
  ASSUME TypeInv, OrderInv, SettledBuild, FinalizeCompletedJobs, UNCHANGED session,
         NEW n \in Succeeded \cap Outputs
  PROVE  UpIsSettled(n)'
<1> USE NodeKinds, StampTypes, FinalizeEnds
<1>1. /\ UNCHANGED <<mtime, bff, read>>
      /\ state[n] = "BUILDING" /\ job[n].result = "ok" /\ stamp'[n] = stamp[n]
      /\ statics'[n] = [d \in bff.static[n] |-> stamp'[d]]
      /\ dynamics'[n] = [d \in (IF n \in Objects THEN Includes(n) ELSE DOMAIN dynamics[n])
                            |-> stamp'[d]]
      /\ \A d \in Nodes : stamp'[d] = IF d \in Unseen THEN mtime[d] ELSE stamp[d]
      /\ \A m \in Nodes : state[m] = "UP_TO_DATE" => state'[m] = "UP_TO_DATE"
  OBVIOUS
<1>2. Running(n) /\ SettledRead(n)
  BY <1>1 DEF Running, SettledBuild, SettledReads
<1>3. AreUp(bff.pre[n]) /\ AreUp(bff.static[n]) /\ (n \notin Objects => AreUp(DOMAIN dynamics[n]))
  BY <1>1 DEF OrderInv, DependenciesFirst
<1>4. ASSUME NEW d \in Nodes, state[d] = "UP_TO_DATE"
      PROVE  stamp'[d] = mtime[d]
  BY <1>1, <1>4, UpIsStamped
<1>5. ASSUME NEW d \in DOMAIN read[n].from
      PROVE  /\ d \in Nodes /\ mtime[d] # 0
             /\ d \in Outputs => state[d] = "UP_TO_DATE"
  BY <1>1, <1>2 DEF SettledRead, TypeInv, HasRead, Running, Stamps, OrderInv, OutputsAreRead
<1>6. ASSUME n \in Objects, NEW d \in Includes(n)
      PROVE  stamp'[d] = mtime[d] /\ mtime[d] # 0
  <2>1. d \in DOMAIN read[n].from
    BY DEF Includes
  <2>2. CASE d \in Outputs
    BY <1>4, <1>5, <2>1, <2>2
  <2>3. CASE d \in Files
    <3>1. stamp[d] \in {0, mtime[d]} /\ (d \in built => stamp[d] = mtime[d])
      BY <2>3 DEF SettledBuild, SettledFiles
    <3>2. d \notin built /\ stamp[d] = 0 => d \in Unseen
      BY <1>6, <2>3 DEF Unseen
    <3> QED
      BY <1>1, <1>5, <2>1, <3>1, <3>2
  <2> QED
    BY <1>5, <2>1, <2>2, <2>3
<1>7. ASSUME NEW d \in DOMAIN statics'[n]
      PROVE  statics'[n][d] # 0 /\ statics'[n][d] = mtime'[d]
  <2>1. d \in bff.static[n] /\ d \in Nodes /\ state[d] = "UP_TO_DATE" /\ d \in DOMAIN read[n].from
    BY <1>1, <1>2, <1>3 DEF SettledRead, AreUp
  <2> QED
    BY <1>1, <1>4, <1>5, <2>1
<1>8. ASSUME NEW d \in DOMAIN dynamics'[n]
      PROVE  /\ dynamics'[n][d] # 0 /\ dynamics'[n][d] = mtime'[d]
             /\ d \in Outputs => state[d] = "UP_TO_DATE"
  <2>1. CASE n \in Objects
    <3>1. d \in Includes(n) /\ d \in DOMAIN read[n].from
      BY <1>1, <2>1 DEF Includes
    <3> QED
      BY <1>1, <1>5, <1>6, <2>1, <3>1
  <2>2. CASE n \notin Objects
    <3>1. d \in DOMAIN dynamics[n] /\ d \in Nodes /\ state[d] = "UP_TO_DATE"
          /\ d \in DOMAIN read[n].from
      BY <1>1, <1>2, <1>3, <2>2 DEF SettledRead, AreUp
    <3> QED
      BY <1>1, <1>4, <1>5, <2>2, <3>1
  <2> QED
    BY <2>1, <2>2
<1>9. stamp'[n] # 0 /\ stamp'[n] = mtime'[n]
  BY <1>1, <1>2 DEF SettledRead
<1>10. \A d \in Dependencies(n)' \cap Outputs : state'[d] = "UP_TO_DATE"
  <2>1. \A d \in (bff.pre[n] \cup bff.static[n] \cup DOMAIN dynamics'[n]) \cap Outputs :
            state[d] = "UP_TO_DATE"
    BY <1>3, <1>8 DEF AreUp
  <2> QED
    BY <1>1, <2>1 DEF Dependencies
<1> QED
  BY <1>7, <1>8, <1>9, <1>10 DEF UpIsSettled, Settled, AreUp

LEMMA QuietOfFinalize ==
  ASSUME TypeInv, OrderInv, QuietInv, FinalizeCompletedJobs, UNCHANGED session
  PROVE  QuietInv'
<1> USE NodeKinds, StampTypes, FinalizeEnds
<1>1. /\ UNCHANGED <<mtime, bff, built, read, targets, stack, bffOnDisk, edited, quiet>>
      /\ main # "idle" /\ main' # "idle"
      /\ \A n \in Outputs : stamp'[n] = stamp[n]
      /\ \A n \in Succeeded : state'[n] = "UP_TO_DATE" /\ job[n].result = "ok" /\ job'[n] = NoJob
      /\ \A n \in Nodes \ Succeeded : state'[n] = state[n] \/ state'[n] = "FAILED"
      /\ \A n \in Outputs \ Succeeded : statics'[n] = statics[n] /\ dynamics'[n] = dynamics[n]
      /\ \A n \in Nodes : job'[n] = job[n] \/ job'[n] = NoJob
      /\ \A n \in Nodes : state[n] = "UP_TO_DATE" => state'[n] = "UP_TO_DATE"
  BY DEF FinalizeCompletedJobs, control, session, user
<1>2. \A n \in Outputs : Running(n)' => Running(n) /\ n \notin Succeeded /\ job'[n] = job[n]
  BY <1>1 DEF Running, NoJob
<1>3. \A n \in Outputs \ Succeeded : Dependencies(n)' = Dependencies(n)
  BY <1>1 DEF Dependencies
<1>4. SettledBuild => SettledBuild'
  <2> SUFFICES ASSUME SettledBuild PROVE SettledBuild'
    OBVIOUS
  <2>1. ASSUME NEW f \in Files
        PROVE  /\ stamp'[f] \in {0, mtime'[f]}
               /\ f \in built' => state'[f] \notin Pending
               /\ f \in built' \/ state'[f] = "UP_TO_DATE" \/ job'[f].result = "ok" =>
                    stamp'[f] = mtime'[f]
    <3>1. /\ stamp[f] \in {0, mtime[f]}
          /\ f \in built => state[f] \notin Pending
          /\ f \in built \/ state[f] = "UP_TO_DATE" \/ job[f].result = "ok" => stamp[f] = mtime[f]
      BY DEF SettledBuild, SettledFiles
    <3>2. stamp'[f] = stamp[f] \/ stamp'[f] = mtime[f]
      OBVIOUS
    <3>3. f \in built => state'[f] \notin Pending
      BY <1>1, <3>1 DEF Pending
    <3>4. /\ state'[f] = "UP_TO_DATE" => state[f] = "UP_TO_DATE" \/ job[f].result = "ok"
          /\ job'[f].result = "ok" => job[f].result = "ok"
      BY <1>1 DEF NoJob
    <3> QED
      BY <1>1, <3>1, <3>2, <3>3, <3>4
  <2>2. SettledReads'
    BY <1>1, <1>2 DEF SettledBuild, SettledReads, SettledRead
  <2>3. ASSUME NEW n \in Outputs, state'[n] = "DYNAMIC_DEPS", stamp'[n] # 0
        PROVE  KeptSettled(n)'
    <3>1. n \notin Succeeded /\ state[n] = "DYNAMIC_DEPS"
      BY <1>1, <2>3
    <3> QED
      BY <1>1, <2>3, <3>1 DEF SettledBuild, SettledOutputs, KeptSettled
  <2>4. ASSUME NEW n \in Outputs, state'[n] = "UP_TO_DATE"
        PROVE  UpIsSettled(n)'
    <3>1. CASE n \in Succeeded
      BY <3>1, RecordSettled
    <3>2. CASE n \notin Succeeded
      <4>1. UpIsSettled(n)
        BY <1>1, <2>4, <3>2 DEF SettledBuild, SettledOutputs
      <4> QED
        BY <1>1, <1>3, <3>2, <4>1 DEF UpIsSettled, Settled, AreUp
    <3> QED
      BY <3>1, <3>2
  <2> QED
    BY <1>1, <2>1, <2>2, <2>3, <2>4 DEF SettledBuild, SettledFiles, SettledOutputs
<1>5. NothingToBuild => NothingToBuild'
  <2> SUFFICES ASSUME NothingToBuild PROVE NothingToBuild'
    OBVIOUS
  <2>1. \A n \in Outputs : n \notin Succeeded
    BY DEF NothingToBuild, Succeeded, At
  <2>2. PICK U \in SUBSET Outputs : /\ (targets \cup ToSet(stack)) \cap Outputs \subseteq U
                                    /\ SettledInMemory(U)
    BY DEF NothingToBuild
  <2>3. SettledInMemory(U)'
    BY <1>1, <1>3, <2>1, <2>2 DEF SettledInMemory
  <2>4. \A n \in Outputs : job'[n].at = "none" /\ n \notin built'
    BY <1>1 DEF NothingToBuild, NoJob
  <2> QED
    BY <1>1, <2>2, <2>3, <2>4 DEF NothingToBuild
<1> QED
  BY <1>1, <1>4, <1>5 DEF QuietInv

\* The sweep finds nothing to build when a settled node has its dependencies up to date.
LEMMA SettledIsKept ==
  ASSUME TypeInv, SettledBuild, NEW deps, DOMAIN deps \subseteq Nodes, AreUp(DOMAIN deps),
         \A d \in DOMAIN deps : deps[d] # 0 /\ deps[d] = mtime[d]
  PROVE  ~NeedToBuild(deps)
<1>1. \A d \in DOMAIN deps : d \in Nodes /\ stamp[d] = mtime[d]
  BY UpIsStamped DEF AreUp
<1> QED
  BY <1>1 DEF NeedToBuild

LEMMA KeptIsSettled ==
  ASSUME TypeInv, SettledBuild, NEW deps, DOMAIN deps \subseteq Nodes, AreUp(DOMAIN deps),
         ~NeedToBuild(deps)
  PROVE  \A d \in DOMAIN deps : deps[d] # 0 /\ deps[d] = mtime[d]
<1>1. \A d \in DOMAIN deps : d \in Nodes /\ stamp[d] = mtime[d]
  BY UpIsStamped DEF AreUp
<1> QED
  BY <1>1 DEF NeedToBuild

LEMMA QuietOfAdvance ==
  ASSUME TypeInv, OrderInv, QuietInv, [Next]_vars, NEW n \in Nodes, UNCHANGED session,
         NotReady(n) \/ PreBuildReady(n) \/ StaticReady(n) \/ DynamicReady(n)
  PROVE  QuietInv'
<1> USE NodeKinds, StampTypes
<1>1. /\ UNCHANGED <<mtime, bff, statics, built, read, main, targets, bffOnDisk, edited, quiet>>
      /\ main = "sweep" /\ stack # <<>> /\ n = Last(stack)
      /\ state[n] \in Pending /\ job[n].at = "none" /\ job[n].result = "none"
      /\ \A m \in Nodes \ {n} : state'[m] = state[m] /\ stamp'[m] = stamp[m] /\ job'[m] = job[m]
      /\ \A m \in Outputs \ {n} : dynamics'[m] = dynamics[m]
      /\ job'[n].at \in {"none", "staged"} /\ job'[n].result = "none"
  BY Advance DEF disk, control, session, user
<1>2. \/ /\ stamp'[n] = stamp[n] /\ dynamics' = dynamics
         /\ \/ state'[n] = state[n] /\ state'[n] # "UP_TO_DATE"
            \/ state'[n] \notin {"DYNAMIC_DEPS", "UP_TO_DATE"}
            \/ /\ state[n] = "STATIC_DEPS" /\ state'[n] = "DYNAMIC_DEPS"
               /\ ~NeedToBuildStatic(n) /\ AreUp(Checked(n))
            \/ /\ state[n] = "DYNAMIC_DEPS" /\ state'[n] = "UP_TO_DATE"
               /\ stamp[n] # 0 /\ (n \in Outputs => ~NeedToBuild(dynamics[n]))
               /\ AreUp(Checked(n))
      \/ stamp'[n] = 0 /\ state'[n] # "UP_TO_DATE"
  BY <1>1, Advance DEF Pending
<1>3. /\ \A m \in Outputs : Running(m)' => m # n /\ Running(m)
      /\ \A m \in Nodes \ {n} : Dependencies(m)' = Dependencies(m)
      /\ \A m \in Nodes : state[m] = "UP_TO_DATE" => m # n /\ state'[m] = "UP_TO_DATE"
  BY <1>1 DEF Running, Dependencies, Pending
<1>4. SettledBuild => SettledBuild'
  <2> SUFFICES ASSUME SettledBuild PROVE SettledBuild'
    OBVIOUS
  <2>1. SettledFiles'
    BY <1>1, <1>2 DEF SettledBuild, SettledFiles
  <2>2. SettledReads'
    BY <1>1, <1>3 DEF SettledBuild, SettledReads, SettledRead
  <2>3. ASSUME NEW m \in Outputs, state'[m] = "DYNAMIC_DEPS", stamp'[m] # 0
        PROVE  KeptSettled(m)'
    <3>1. CASE m # n \/ state[n] = "DYNAMIC_DEPS"
      BY <1>1, <1>2, <2>3, <3>1 DEF SettledBuild, SettledOutputs, KeptSettled
    <3>2. CASE m = n /\ state[n] # "DYNAMIC_DEPS"
      <4>1. state[n] = "STATIC_DEPS" /\ ~NeedToBuildStatic(n) /\ AreUp(Checked(n))
            /\ stamp'[n] = stamp[n]
        BY <1>2, <2>3, <3>2
      <4>2. stamp[n] = mtime[n] /\ ~NeedToBuild(statics[n]) /\ AreUp(DOMAIN statics[n])
        BY <2>3, <3>2, <4>1 DEF NeedToBuildStatic, Checked
      <4> QED
        BY <1>1, <2>3, <3>2, <4>1, <4>2, KeptIsSettled DEF KeptSettled
    <3> QED
      BY <3>1, <3>2
  <2>4. ASSUME NEW m \in Outputs, state'[m] = "UP_TO_DATE"
        PROVE  UpIsSettled(m)'
    <3>1. CASE m # n
      <4>1. UpIsSettled(m) /\ Dependencies(m)' = Dependencies(m)
        BY <1>1, <1>3, <2>4, <3>1 DEF SettledBuild, SettledOutputs
      <4> QED
        BY <1>1, <1>3, <3>1, <4>1 DEF UpIsSettled, Settled, AreUp
    <3>2. CASE m = n
      <4>1. /\ state[n] = "DYNAMIC_DEPS" /\ stamp[n] # 0 /\ ~NeedToBuild(dynamics[n])
            /\ AreUp(Checked(n)) /\ stamp'[n] = stamp[n] /\ dynamics' = dynamics
        BY <1>2, <2>4, <3>2
      <4>2. AreUp(bff.pre[n]) /\ AreUp(bff.static[n]) /\ AreUp(DOMAIN dynamics[n])
        BY <2>4, <3>2, <4>1 DEF Checked, OrderInv, DependenciesFirst
      <4>3. KeptSettled(n)
        BY <2>4, <3>2, <4>1 DEF SettledBuild, SettledOutputs
      <4>4. \A d \in DOMAIN dynamics[n] : dynamics[n][d] # 0 /\ dynamics[n][d] = mtime[d]
        BY <2>4, <3>2, <4>1, <4>2, KeptIsSettled
      <4>5. AreUp(Dependencies(n)) /\ Dependencies(n)' = Dependencies(n)
        BY <1>1, <2>4, <3>2, <4>1, <4>2 DEF Dependencies, AreUp
      <4> QED
        BY <1>1, <1>3, <3>2, <4>1, <4>3, <4>4, <4>5 DEF UpIsSettled, Settled, KeptSettled, AreUp
    <3> QED
      BY <3>1, <3>2
  <2> QED
    BY <1>1, <2>1, <2>2, <2>3, <2>4 DEF SettledBuild, SettledOutputs
<1>5. SettledBuild /\ NothingToBuild => NothingToBuild'
  <2> SUFFICES ASSUME SettledBuild, NothingToBuild PROVE NothingToBuild'
    OBVIOUS
  <2>1. PICK U \in SUBSET Outputs : /\ (targets \cup ToSet(stack)) \cap Outputs \subseteq U
                                    /\ SettledInMemory(U)
    BY DEF NothingToBuild
  <2>2. (targets' \cup ToSet(stack')) \cap Outputs \subseteq U
    BY <1>1, <2>1, PathIsSettled
  <2>3. CASE n \in Outputs
    <3>1. n \in ToSet(stack)
      BY <1>1, ElementsOfFront DEF TypeInv, TypeOK
    <3>2. Settled(n, mtime, stamp[n], statics[n], dynamics[n])
      BY <2>1, <2>3, <3>1 DEF SettledInMemory
    <3>3. state[n] = "STATIC_DEPS" /\ AreUp(Checked(n)) => ~NeedToBuildStatic(n)
      <4> SUFFICES ASSUME state[n] = "STATIC_DEPS", AreUp(Checked(n)) PROVE ~NeedToBuildStatic(n)
        OBVIOUS
      <4>1. ~NeedToBuild(statics[n])
        BY <2>3, <3>2, SettledIsKept DEF Settled, Checked
      <4> QED
        BY <2>3, <3>2, <4>1 DEF NeedToBuildStatic, Settled
    <3>4. state[n] = "DYNAMIC_DEPS" /\ AreUp(Checked(n)) =>
            stamp[n] # 0 /\ ~NeedToBuild(dynamics[n])
      BY <2>3, <3>2, SettledIsKept DEF Settled, Checked
    <3>5. job'[n].at = "none" /\ stamp' = stamp /\ dynamics' = dynamics
      BY <1>1, <2>3, <3>3, <3>4, Advance DEF Pending
    <3>6. SettledInMemory(U)'
      <4>1. \A m \in Nodes : Dependencies(m)' = Dependencies(m)
        BY <1>1, <3>5 DEF Dependencies
      <4> QED
        BY <1>1, <2>1, <3>5, <4>1 DEF SettledInMemory
    <3>7. \A m \in Outputs : job'[m].at = "none" /\ m \notin built'
      BY <1>1, <3>5 DEF NothingToBuild
    <3> QED
      BY <2>2, <3>6, <3>7 DEF NothingToBuild
  <2>4. CASE n \notin Outputs
    <3>1. \A m \in Outputs : m # n
      BY <2>4
    <3>2. SettledInMemory(U)'
      BY <1>1, <1>3, <2>1, <3>1 DEF SettledInMemory
    <3>3. \A m \in Outputs : job'[m].at = "none" /\ m \notin built'
      BY <1>1, <3>1 DEF NothingToBuild
    <3> QED
      BY <2>2, <3>2, <3>3 DEF NothingToBuild
  <2> QED
    BY <2>3, <2>4
<1> QED
  BY <1>1, <1>4, <1>5 DEF QuietInv

\* The end of a build saves what is settled, and a repeated build begins with it.
LEMMA QuietOfSaveEnds ==
  ASSUME TypeInv, QuietInv, SaveEnds
  PROVE  QuietInv'
<1> USE NodeKinds, StampTypes
<1>1. /\ main = "writing" /\ main' = "idle" /\ UNCHANGED <<mtime, targets, bffOnDisk, edited>>
      /\ db' = [kind |-> "saved", bff |-> bff, stamp |-> [n \in Outputs |-> stamp[n]],
                statics |-> statics, dynamics |-> dynamics]
      /\ outcome' = "ok" => \A t \in targets : state[t] = "UP_TO_DATE"
  BY DEF SaveEnds, ProcessEnds, disk, user
<1> SUFFICES ASSUME outcome' = "ok", ~edited PROVE SettledSave'
  BY <1>1 DEF QuietInv
<1>2. SettledBuild
  BY <1>1 DEF QuietInv
<1> DEFINE U == {n \in Outputs : state[n] = "UP_TO_DATE"}
<1>3. \A n \in U : /\ Settled(n, mtime, stamp[n], statics[n], dynamics[n])
                   /\ Dependencies(n) \cap Outputs \subseteq U
  BY <1>2 DEF SettledBuild, SettledOutputs, UpIsSettled, AreUp
<1>4. PICK V \in SUBSET Outputs : V = U
  OBVIOUS
<1>5. \A n \in V : /\ db'.stamp[n] = stamp[n] /\ db'.statics = statics /\ db'.dynamics = dynamics
                   /\ Dependencies(n) = db'.bff.pre[n] \cup db'.bff.static[n]
                                            \cup DOMAIN db'.dynamics[n]
  BY <1>1, <1>4 DEF Dependencies
<1>6. SettledInFile(V)'
  BY <1>1, <1>3, <1>4, <1>5 DEF SettledInFile
<1>7. targets \cap Outputs \subseteq V
  BY <1>1, <1>4
<1> QED
  BY <1>1, <1>2, <1>6, <1>7 DEF SettledSave, SettledBuild

LEMMA QuietOfStartBuild ==
  ASSUME TypeInv, QuietInv, NEW ts \in TargetSets, StartBuild(ts)
  PROVE  QuietInv'
<1> USE NodeKinds, StampTypes
<1>1. /\ main = "idle" /\ main' = "finalize" /\ UNCHANGED <<mtime, state, built, job, read, stack>>
      /\ UNCHANGED <<bffOnDisk, db>> /\ bff' = bffOnDisk /\ targets' = ts
      /\ quiet' => outcome = "ok" /\ ~edited /\ ts = targets
      /\ stack = <<>> /\ built = {}
      /\ \A n \in Nodes : state[n] = "NOT_PROCESSED" /\ job[n] = NoJob
  BY DEF StartBuild, Initialize, TypeInv, AtRest, disk, queue, sweep
<1>2. SettledBuild'
  <2>1. \A f \in Files : stamp'[f] = 0
    <3> DEFINE kept == IF db.kind # "saved" THEN {}
                       ELSE IF db.bff = bffOnDisk THEN Outputs
                       ELSE Migrated
    <3>1. stamp' = [n \in Nodes |-> IF n \in kept THEN db.stamp[n] ELSE 0]
      BY DEF StartBuild, Initialize
    <3>2. kept \subseteq Outputs
      BY DEF Migrated
    <3> QED
      BY <3>1, <3>2
  <2>2. SettledFiles' /\ SettledReads' /\ SettledOutputs'
    BY <1>1, <2>1 DEF SettledFiles, SettledReads, SettledOutputs, Running, NoJob
  <2> QED
    BY <1>1, <2>2 DEF SettledBuild
<1>3. quiet' => NothingToBuild'
  <2> SUFFICES ASSUME quiet' PROVE NothingToBuild'
    OBVIOUS
  <2>1. SettledSave
    BY <1>1 DEF QuietInv
  <2>2. PICK U \in SUBSET Outputs : targets \cap Outputs \subseteq U /\ SettledInFile(U)
    BY <2>1 DEF SettledSave
  <2>3. \A n \in Outputs : /\ stamp'[n] = db.stamp[n] /\ statics'[n] = db.statics[n]
                           /\ dynamics'[n] = db.dynamics[n]
    BY <2>1 DEF SettledSave, StartBuild, Initialize
  <2>4. SettledInMemory(U)'
    <3>1. \A n \in Outputs : Dependencies(n)' = db.bff.pre[n] \cup db.bff.static[n]
                                                    \cup DOMAIN db.dynamics[n]
      BY <1>1, <2>1, <2>3 DEF Dependencies, SettledSave
    <3> QED
      BY <1>1, <2>2, <2>3, <3>1 DEF SettledInMemory, SettledInFile
  <2>5. (targets' \cup ToSet(stack')) \cap Outputs \subseteq U
    BY <1>1, <2>2 DEF ToSet
  <2> QED
    BY <1>1, <2>4, <2>5 DEF NothingToBuild, NoJob
<1> QED
  BY <1>1, <1>2, <1>3 DEF QuietInv

LEMMA QuietStep == TypeInv /\ OrderInv /\ QuietInv /\ [Next]_vars => QuietInv'
<1> SUFFICES ASSUME TypeInv, OrderInv, QuietInv, [Next]_vars PROVE QuietInv'
  OBVIOUS
<1>1. JobsBuild
  BY DEF OrderInv
<1>2. CASE Crash
  BY <1>2 DEF Crash, ProcessEnds, QuietInv
<1>3. CASE (\E f \in Files : EditFile(f)) \/ (\E n \in Outputs : OverwriteOutput(n)) \/ EditBff
  BY <1>3 DEF EditFile, OverwriteOutput, EditBff, Change, QuietInv
<1> QED
  BY <1>1, <1>2, <1>3, Steps, QuietOfFrame, QuietOfStampFile, QuietOfReadInputs, QuietOfTool,
     QuietOfFinalize, QuietOfAdvance, QuietOfSaveEnds, QuietOfStartBuild

LEMMA QuietInvariant == Spec => []QuietInv
  BY TypeInvariant, OrderInvariant, QuietInit, QuietStep, PTL DEF Spec

\* A build that is repeated builds nothing again, whatever happened before the one that it
\* repeats: what that build saved is enough to know that nothing has changed.
THEOREM RepeatedBuildsAreQuiet == Spec => []QuietBuild
<1>1. TypeInv /\ QuietInv => QuietBuild
  BY DEF TypeInv, AtRest, QuietInv, NothingToBuild, QuietBuild
<1> QED
  BY <1>1, TypeInvariant, QuietInvariant, PTL
=============================================================================
