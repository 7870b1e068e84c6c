----------------------------- MODULE ServerProofs -----------------------------
(***************************************************************************)
(* What the Server keeps true for any number of clients, jobs, tool chains *)
(* and worker threads: every job has one holder and starts with its tool   *)
(* chain, a tool chain that is being uploaded is on its way, and slots are *)
(* not overbooked.                                                         *)
(***************************************************************************)
EXTENDS Server, FiniteSetTheorems, WellFoundedInduction, TLAPS

---------------------------------------------------------------------------
(* Types.  That m_NumJobsActive does not go below zero is left to CountInv. *)

ConnTypes ==
    /\ cpc \in [Clients -> ConnPCs]
    /\ held \in [Clients -> Jobs \cup {None}]
    /\ ready \in [Clients -> Tools \cup {None}]
    /\ cancelled \in [Clients -> SUBSET Tools]
    /\ requested \in [Clients -> Nat] /\ active \in [Clients -> Int]
    /\ offered \in [Clients -> Nat]
    /\ waiting \in [Clients -> SUBSET Jobs]

ToolTypes ==
    /\ manifest \subseteq Tools
    /\ fileState \in [Tools -> [Files -> SyncStates]]
    /\ owner \in [Tools -> Clients \cup {None}]
    /\ askedManifest \in [Clients -> SUBSET Tools]
    /\ askedFiles \in [Clients -> SUBSET (Tools \X Files)]

MainTypes ==
    /\ spc \in {"finalize", "report", "request"}
    /\ sjob \in Jobs \cup {None} /\ sres \in Results
    /\ budget \in Nat
    /\ session \in [Clients -> Nat] /\ sender \in [Jobs -> Nat]

\* What a thread has in its hands while it is at a place
StageInv ==
    /\ \A c \in Clients : cpc[c] = "gotJob" => held[c] \in Jobs
    /\ \A c \in Clients : cpc[c] \in {"gotManifest", "synchronized"} => ready[c] \in Tools
    /\ \A w \in WorkerThreads : wpc[w] = "idle" <=> wjob[w] = None
    /\ spc = "report" <=> sjob # None

TypeInv == QueueTypeOK /\ ConnTypes /\ ToolTypes /\ MainTypes /\ StageInv

---------------------------------------------------------------------------
(* Jobs                                                                    *)

\* A job is received once, and does not exist before it is counted.
ReceivedInv ==
    /\ \A c \in Clients : cpc[c] # "closed" => session[c] > 0
    /\ \A c \in Clients : cpc[c] = "gotJob" => held[c] \notin live /\ sender[held[c]] # 0
    /\ \A c, d \in Clients :
        cpc[c] = "gotJob" /\ cpc[d] = "gotJob" /\ held[c] = held[d] => c = d
    /\ \A j \in live : sender[j] # 0

\* What is in a list exists, what exists is in a list,
ListsInv ==
    /\ pending \subseteq live
    /\ sjob \in live \cup {None}
    /\ \A c \in Clients : waiting[c] \subseteq live
    /\ \A r \in Results : done[r] \subseteq live
    /\ \A w \in WorkerThreads : wjob[w] \in live \cup {None}
    /\ \A j \in inFlight : \E w \in WorkerThreads : wpc[w] = "building" /\ wjob[w] = j
    /\ \A c \in Clients : cpc[c] = "closed" => waiting[c] = {}

HeldInv ==
    \A j \in live :
        \/ j \in pending \/ j = sjob
        \/ \E c \in Clients : j \in waiting[c]
        \/ \E r \in Results : j \in done[r]
        \/ \E w \in WorkerThreads : j = wjob[w]

\* and it is in one list only.
ApartInv ==
    \A j \in live :
        /\ \A c \in Clients : j \in waiting[c] =>
            /\ j \notin pending /\ j # sjob
            /\ \A r \in Results : j \notin done[r]
            /\ \A w \in WorkerThreads : j # wjob[w]
            /\ \A d \in Clients : j \in waiting[d] => c = d
        /\ j \in pending =>
            /\ j # sjob
            /\ \A r \in Results : j \notin done[r]
            /\ \A w \in WorkerThreads : j # wjob[w]
        /\ \A r \in Results : j \in done[r] =>
            /\ j # sjob
            /\ \A w \in WorkerThreads : j # wjob[w]
            /\ \A q \in Results : j \in done[q] => q = r
        /\ \A w \in WorkerThreads : j = wjob[w] =>
            /\ j # sjob
            /\ \A v \in WorkerThreads : j = wjob[v] => v = w

JobInv == ReceivedInv /\ ListsInv /\ HeldInv /\ ApartInv

---------------------------------------------------------------------------
(* Tool chains                                                             *)

\* Only the owner is asked for the manifest, and only while it is missing, so a tool chain
\* that is complete stays so.
ToolInv ==
    /\ \A c \in Clients : \A t \in askedManifest[c] :
        t \notin manifest /\ owner[t] = c /\ cpc[c] \in Serving
    /\ \A c \in Clients : \A r \in askedFiles[c] : r[1] \in manifest
    /\ \A c \in Clients : cpc[c] = "gotManifest" => ready[c] \in manifest
    /\ \A c \in Clients : cpc[c] = "synchronized" => Synchronized(ready[c])
    /\ JobsStartWithTools

---------------------------------------------------------------------------
(* Numbers of jobs                                                         *)

\* A ClientState is not made where another one was: JobsOf(c) may else hold a
\* job that the cancellation of an earlier client missed.
OneSession == MaxSessions <= 1

Own(c) == live \cap JobsOf(c)

\* While its client leaves, jobs of it are deleted that stay counted.
CountOf(c) ==
    /\ Cardinality(Own(c)) <= active[c]
    /\ cpc[c] \in Serving => active[c] = Cardinality(Own(c))

SessionInv ==
    /\ \A c \in Clients : session[c] = 0 => JobsOf(c) = {}
    /\ \A c \in Clients : \A j \in waiting[c] : userData[j] = c

CountInv == SessionInv /\ \A c \in Clients : CountOf(c)

---------------------------------------------------------------------------
(* Uploads                                                                 *)

Needs(c, t) == \E j \in waiting[c] : ToolOf[j] = t

\* The connection of an owner has ended.  Where a connection may be made with the address of
\* an earlier one it cannot be told from it.
Ended(c) == cpc[c] \notin Serving \/ ~OneSession

\* Nothing is to come from a connection that has ended.
LeavingInv ==
    \A c \in Clients : cpc[c] \notin Serving => askedManifest[c] = {} /\ askedFiles[c] = {}

\* Who is asked needs the tool chain, and files are asked of the owner.
AskedInv ==
    /\ \A c \in Clients : \A t \in askedManifest[c] : Needs(c, t)
    /\ \A c \in Clients : \A t \in Tools, f \in Files : <<t, f>> \in askedFiles[c] =>
        owner[t] = c /\ fileState[t][f] = "SYNCHRONIZING" /\ Needs(c, t)
    /\ \A c \in Clients : cpc[c] = "gotManifest" =>
        Synchronized(ready[c]) \/ Needs(c, ready[c])

\* What is being synchronized has been asked of the owner, and all that is missing with it.
ComingInv ==
    \A t \in Tools, f \in Files : fileState[t][f] = "SYNCHRONIZING" =>
        /\ t \in manifest /\ owner[t] # None
        /\ \A g \in Files : fileState[t][g] # "NOT_SYNCHRONIZED"
        /\ <<t, f>> \in askedFiles[owner[t]] \/ Ended(owner[t])

OwnersInv ==
    \A t \in Tools, c \in Clients :
        owner[t] = c /\ ~Synchronized(t) => ComesFrom(c, t) \/ Ended(c)

UploadInv == LeavingInv /\ AskedInv /\ ComingInv /\ OwnersInv

\* An owner was connected at some time.
OwnersConnected == \A t \in Tools, c \in Clients : owner[t] = c => session[c] > 0

---------------------------------------------------------------------------
(* Sums.  What MapThenSumSet adds up is counted: each x has u[x] units.  A *)
(* set that is the least counterexample takes the place of an induction.   *)

\* A set of numbers has a least one.
LEMMA LeastNumber ==
  ASSUME NEW T, T \subseteq Nat, T # {}
  PROVE  \E n \in T : \A m \in T : n <= m
<1> DEFINE R == OpToRel(<, Nat)
<1>1. R = {ss \in Nat \X Nat : ss[1] < ss[2]}
  BY DEF OpToRel
<1>2. IsWellFoundedOn(R, Nat)
  BY NatLessThanWellFounded
<1> HIDE DEF R
<1>3. PICK n \in T : \A m \in T : <<m, n>> \notin R
  BY <1>2, WFMin
<1> SUFFICES ASSUME NEW m \in T PROVE n <= m
  BY <1>3
<1>4. n \in Nat /\ m \in Nat /\ (m < n => <<m, n>> \in R)
  BY <1>1
<1> QED
  BY <1>3, <1>4

\* One element for each of the u[x] units of each x in S.
Units(u, S) == {p \in S \X Nat : 1 <= p[2] /\ p[2] <= u[p[1]]}

LEMMA UnitsOfOne ==
  ASSUME NEW S, NEW x \in S, NEW u, u[x] \in Nat
  PROVE  /\ Units(u, S) = Units(u, S \ {x}) \cup ({x} \X (1 .. u[x]))
         /\ Units(u, S \ {x}) \cap ({x} \X (1 .. u[x])) = {}
         /\ IsFiniteSet({x} \X (1 .. u[x])) /\ Cardinality({x} \X (1 .. u[x])) = u[x]
<1>1. IsFiniteSet(1 .. u[x]) /\ Cardinality(1 .. u[x]) = u[x]
  <2> DEFINE k == u[x]
  <2>1. k \in Int /\ 1 \in Int /\ k \in Nat
    OBVIOUS
  <2> HIDE DEF k
  <2>2. IsFiniteSet(1 .. k) /\ Cardinality(1 .. k) = IF 1 > k THEN 0 ELSE k - 1 + 1
    BY <2>1, FS_Interval, Zenon
  <2>3. Cardinality(1 .. k) = k
    BY <2>1, <2>2
  <2> QED
    BY <2>2, <2>3 DEF k
<1>2. IsFiniteSet({x}) /\ Cardinality({x}) = 1
  BY FS_Singleton
<1>3. IsFiniteSet({x} \X (1 .. u[x])) /\ Cardinality({x} \X (1 .. u[x])) = u[x]
  <2>1. IsFiniteSet({x} \X (1 .. u[x])) /\ Cardinality({x} \X (1 .. u[x])) = 1 * u[x]
    BY <1>1, <1>2, FS_Product
  <2>2. 1 * u[x] = u[x]
    OBVIOUS
  <2> QED
    BY <2>1, <2>2
<1>4. Units(u, S \ {x}) \cap ({x} \X (1 .. u[x])) = {}
  BY DEF Units
<1>5. Units(u, S) = Units(u, S \ {x}) \cup ({x} \X (1 .. u[x]))
  <2>1. \A p \in S \X Nat : p \in Units(u, S) <=> 1 <= p[2] /\ p[2] <= u[p[1]]
    BY DEF Units
  <2>2. \A p \in {x} \X (1 .. u[x]) : p \in S \X Nat /\ p[1] = x /\ 1 <= p[2] /\ p[2] <= u[x]
    OBVIOUS
  <2>3. \A p \in S \X Nat : p[1] = x /\ 1 <= p[2] /\ p[2] <= u[x] => p \in {x} \X (1 .. u[x])
    OBVIOUS
  <2>4. \A p \in S \X Nat : p[1] # x => (p \in Units(u, S) <=> p \in Units(u, S \ {x}))
    BY DEF Units
  <2>5. Units(u, S) \subseteq S \X Nat /\ Units(u, S \ {x}) \subseteq Units(u, S)
    BY DEF Units
  <2>6. \A p \in {x} \X (1 .. u[x]) : p \in Units(u, S)
    BY <2>1, <2>2
  <2>7. \A p \in Units(u, S) : p \in Units(u, S \ {x}) \/ p \in {x} \X (1 .. u[x])
    BY <2>1, <2>3, <2>4, <2>5
  <2> QED
    BY <2>5, <2>6, <2>7
<1> QED
  BY <1>3, <1>4, <1>5, Zenon

LEMMA UnitsAreFinite ==
  ASSUME NEW S, IsFiniteSet(S), NEW u, \A x \in S : u[x] \in Nat
  PROVE  IsFiniteSet(Units(u, S))
<1> DEFINE T == {n \in Nat : \E r \in SUBSET S : Cardinality(r) = n /\ ~IsFiniteSet(Units(u, r))}
<1> SUFFICES ASSUME T # {} PROVE FALSE
  BY FS_CardinalityType
<1>1. PICK n \in T : \A m \in T : n <= m
  BY LeastNumber
<1>2. PICK r \in SUBSET S : Cardinality(r) = n /\ ~IsFiniteSet(Units(u, r))
  OBVIOUS
<1>3. r # {}
  <2>1. Units(u, {}) = {}
    BY DEF Units
  <2> QED
    BY <1>2, <2>1, FS_EmptySet
<1>4. PICK x \in r : TRUE
  BY <1>3
<1>5. IsFiniteSet(r)
  BY FS_Subset
<1>6. Cardinality(r \ {x}) = n - 1 /\ Cardinality(r \ {x}) \in Nat /\ r \ {x} \in SUBSET S
  BY <1>2, <1>5, FS_RemoveElement, FS_CardinalityType
<1>7. ~(n <= n - 1)
  OBVIOUS
<1>8. IsFiniteSet(Units(u, r \ {x}))
  BY <1>1, <1>6, <1>7
<1>9. IsFiniteSet({x} \X (1 .. u[x])) /\ Units(u, r) = Units(u, r \ {x}) \cup ({x} \X (1 .. u[x]))
  BY UnitsOfOne
<1>10. IsFiniteSet(Units(u, r \ {x}) \cup ({x} \X (1 .. u[x])))
  BY <1>8, <1>9, FS_Union
<1> QED
  BY <1>2, <1>9, <1>10, Zenon

\* The equation a sum solves
Totals(u, S, total) ==
    \A r \in SUBSET S :
        total[r] = IF r = {} THEN 0
                   ELSE u[CHOOSE x \in r : TRUE] + total[r \ {CHOOSE x \in r : TRUE}]

LEMMA CountUnits ==
  ASSUME NEW S, IsFiniteSet(S), NEW u, \A x \in S : u[x] \in Nat, NEW x \in S
  PROVE  /\ Cardinality(Units(u, S)) = u[x] + Cardinality(Units(u, S \ {x}))
         /\ Cardinality(Units(u, S \ {x})) \in Nat
<1>1. IsFiniteSet(S \ {x})
  BY FS_RemoveElement
<1>2. IsFiniteSet(Units(u, S \ {x}))
  BY <1>1, UnitsAreFinite
<1> DEFINE A == Units(u, S \ {x})
           B == {x} \X (1 .. u[x])
<1>3. A \cap B = {} /\ Units(u, S) = A \cup B /\ IsFiniteSet(B) /\ Cardinality(B) = u[x]
  BY UnitsOfOne
<1>4. IsFiniteSet(A)
  BY <1>2
<1> HIDE DEF A, B
<1>5. Cardinality(A \cup B) = Cardinality(A) + Cardinality(B) - Cardinality({})
  BY <1>3, <1>4, FS_Union
<1>6. Cardinality(A) \in Nat /\ u[x] \in Nat
  BY <1>4, FS_CardinalityType
<1>7. Cardinality(Units(u, S)) = u[x] + Cardinality(A) /\ Cardinality(A) \in Nat
  BY <1>3, <1>5, <1>6, FS_EmptySet
<1> QED
  BY <1>7 DEF A

LEMMA UnitsTotal ==
  ASSUME NEW S, IsFiniteSet(S), NEW u, \A x \in S : u[x] \in Nat
  PROVE  Totals(u, S, [r \in SUBSET S |-> Cardinality(Units(u, r))])
<1> DEFINE f == [r \in SUBSET S |-> Cardinality(Units(u, r))]
<1> SUFFICES ASSUME NEW r \in SUBSET S
             PROVE  f[r] = IF r = {} THEN 0
                           ELSE u[CHOOSE x \in r : TRUE] + f[r \ {CHOOSE x \in r : TRUE}]
  BY DEF Totals
<1>1. CASE r = {}
  <2>1. Units(u, {}) = {}
    BY DEF Units
  <2> QED
    BY <1>1, <2>1, FS_EmptySet
<1>2. CASE r # {}
  <2>1. PICK x \in r : x = CHOOSE y \in r : TRUE
    BY <1>2
  <2>2. IsFiniteSet(r)
    BY FS_Subset
  <2>3. Cardinality(Units(u, r)) = u[x] + Cardinality(Units(u, r \ {x}))
    BY <2>2, CountUnits
  <2>4. f[r] = Cardinality(Units(u, r)) /\ f[r \ {x}] = Cardinality(Units(u, r \ {x}))
    OBVIOUS
  <2> HIDE DEF f
  <2> QED
    BY <1>2, <2>1, <2>3, <2>4
<1> QED
  BY <1>1, <1>2

LEMMA TotalIsUnits ==
  ASSUME NEW S, IsFiniteSet(S), NEW u, \A x \in S : u[x] \in Nat,
         NEW total, Totals(u, S, total)
  PROVE  total[S] = Cardinality(Units(u, S))
<1> DEFINE T == {n \in Nat : \E r \in SUBSET S :
                    Cardinality(r) = n /\ total[r] # Cardinality(Units(u, r))}
<1> SUFFICES ASSUME T # {} PROVE FALSE
  BY FS_CardinalityType
<1>1. PICK n \in T : \A m \in T : n <= m
  BY LeastNumber
<1>2. PICK r \in SUBSET S : Cardinality(r) = n /\ total[r] # Cardinality(Units(u, r))
  OBVIOUS
<1>3. r # {}
  <2>1. Units(u, {}) = {}
    BY DEF Units
  <2>2. total[{}] = 0
    BY DEF Totals
  <2> QED
    BY <1>2, <2>1, <2>2, FS_EmptySet
<1>4. PICK x \in r : x = CHOOSE y \in r : TRUE
  BY <1>3
<1>5. IsFiniteSet(r)
  BY FS_Subset
<1>6. Cardinality(r \ {x}) = n - 1 /\ Cardinality(r \ {x}) \in Nat /\ r \ {x} \in SUBSET S
  BY <1>2, <1>5, FS_RemoveElement, FS_CardinalityType
<1>7. ~(n <= n - 1)
  OBVIOUS
<1>8. total[r \ {x}] = Cardinality(Units(u, r \ {x}))
  BY <1>1, <1>6, <1>7
<1>9. Cardinality(Units(u, r)) = u[x] + Cardinality(Units(u, r \ {x}))
  BY <1>5, CountUnits
<1>10. total[r] = u[x] + total[r \ {x}]
  BY <1>3, <1>4 DEF Totals
<1> QED
  BY <1>2, <1>8, <1>9, <1>10

LEMMA SumOfUse ==
  ASSUME NEW S, IsFiniteSet(S), \A c \in S : requested[c] \in Nat /\ active[c] \in Nat
  PROVE  MapThenSumSet(InUse, S) = Cardinality(Units([c \in S |-> InUse(c)], S))
<1> DEFINE u == [c \in S |-> InUse(c)]
           step(f) == [s \in SUBSET S |-> IF s = {} THEN 0
                         ELSE InUse(CHOOSE x \in s : TRUE) + f[s \ {CHOOSE x \in s : TRUE}]]
           total == CHOOSE f : f = step(f)
<1>1. MapThenSumSet(InUse, S) = total[S]
  BY DEF MapThenSumSet, MapThenFoldSet
<1>2. \A x \in S : u[x] \in Nat
  BY DEF InUse
<1>3. \E f : f = step(f)
  <2> DEFINE g == [r \in SUBSET S |-> Cardinality(Units(u, r))]
  <2>1. Totals(u, S, g)
    BY <1>2, UnitsTotal
  <2>2. g = step(g)
    <3> SUFFICES ASSUME NEW r \in SUBSET S PROVE g[r] = step(g)[r]
      OBVIOUS
    <3>1. r # {} => (CHOOSE x \in r : TRUE) \in S
      OBVIOUS
    <3> HIDE DEF g
    <3> QED
      BY <2>1, <3>1 DEF Totals
  <2> QED
    BY <2>2
<1>4. total = step(total)
  BY <1>3
<1>5. Totals(u, S, total)
  <2> HIDE DEF total
  <2> SUFFICES ASSUME NEW r \in SUBSET S
               PROVE  total[r] = IF r = {} THEN 0
                           ELSE u[CHOOSE x \in r : TRUE] + total[r \ {CHOOSE x \in r : TRUE}]
    BY DEF Totals
  <2>1. total[r] = step(total)[r]
    BY <1>4
  <2>2. r # {} => (CHOOSE x \in r : TRUE) \in S
    OBVIOUS
  <2> QED
    BY <2>1, <2>2
<1> QED
  BY <1>1, <1>2, <1>5, TotalIsUnits
---------------------------------------------------------------------------
(* Slots                                                                   *)

\* A client's share of the slots: a job that has been received and is not counted yet has one.
Load(c) ==
    IF c \notin Listed THEN 0
    ELSE InUse(c) + (IF cpc[c] = "gotJob" THEN 1 ELSE 0)

Loads == [c \in Clients |-> Load(c)]

\* What may be requested yet is within the slots too.
SlotInv == Cardinality(Units(Loads, Clients)) + budget <= Slots + 1 + Cardinality(Clients)

---------------------------------------------------------------------------
USE QueueAssumption, ServerAssumption DEF QueueAssumption, ServerAssumption

LEMMA Marked ==
  ASSUME TypeInv, NEW t \in Tools
  PROVE  MarkAsSynchronizing(t) \in [Files -> SyncStates]
BY DEF TypeInv, ToolTypes, MarkAsSynchronizing, SyncStates

LEMMA TypeInit == Init => TypeInv
BY DEF Init, QueueInit, TypeInv, QueueTypeOK, ConnTypes, ToolTypes, MainTypes, StageInv,
       Results, ConnPCs, SyncStates

LEMMA TypeConn ==
  ASSUME TypeInv, NEW c \in Clients, ConnStep(c)
  PROVE  TypeInv'
<1> USE DEF TypeInv, QueueTypeOK, ConnTypes, ToolTypes, MainTypes, StageInv, Results, Goto,
            ConnPCs, Serving, LeavingPCs, queueVars, workerVars, handVars, countVars, toolVars,
            askVars, mainVars, boundVars
<1>1. CASE OnConnected(c)
  BY <1>1 DEF OnConnected
<1>2. CASE ReceiveStatus(c) \/ ReceiveNoJob(c)
  BY <1>2 DEF ReceiveStatus, ReceiveNoJob
<1>3. ASSUME NEW j \in Jobs, ReceiveJob(c, j)
      PROVE  TypeInv'
  BY <1>3 DEF ReceiveJob
<1>4. CASE ProcessJob(c)
  <2> DEFINE j == held[c]
             t == ToolOf[j]
  <2>1. j \in Jobs /\ t \in Tools
    BY <1>4 DEF ProcessJob
  <2>2. MarkAsSynchronizing(t) \in [Files -> SyncStates] /\ MissingRequests(t) \subseteq Tools \X Files
    BY <2>1, Marked DEF MissingRequests, Missing, FilesIn
  <2>3. AcceptJob(c, j, t) /\ (StartJob(c, j, t) \/ HoldJob(c, j, t))
    BY <1>4 DEF ProcessJob
  <2>4. /\ owner \in [Tools -> Clients \cup {None}]
        /\ fileState \in [Tools -> [Files -> SyncStates]]
        /\ askedManifest \in [Clients -> SUBSET Tools]
        /\ askedFiles \in [Clients -> SUBSET (Tools \X Files)]
        /\ waiting \in [Clients -> SUBSET Jobs]
        /\ pending \subseteq Jobs /\ manifest \subseteq Tools
        /\ active \in [Clients -> Int]
    OBVIOUS
  <2> HIDE DEF j, t
  <2>5. /\ owner' \in [Tools -> Clients \cup {None}]
        /\ fileState' \in [Tools -> [Files -> SyncStates]]
        /\ askedManifest' \in [Clients -> SUBSET Tools]
        /\ askedFiles' \in [Clients -> SUBSET (Tools \X Files)]
        /\ waiting' \in [Clients -> SUBSET Jobs]
        /\ pending' \subseteq Jobs
    <3> HIDE DEF TypeInv, QueueTypeOK, ConnTypes, ToolTypes, MainTypes, StageInv, ConnPCs, Results
    <3>1. CASE StartJob(c, j, t)
      BY <2>1, <2>4, <3>1 DEF StartJob, QueueJobs
    <3>2. CASE HoldJob(c, j, t) /\ owner[t] # None
      BY <2>1, <2>4, <3>2 DEF HoldJob
    <3>3. CASE HoldJob(c, j, t) /\ TakeOwnership(c, t)
      BY <2>1, <2>2, <2>4, <3>3 DEF HoldJob, TakeOwnership
    <3> QED
      BY <2>3, <3>1, <3>2, <3>3 DEF HoldJob
  <2>6. active' \in [Clients -> Int]
    BY <2>3 DEF AcceptJob
  <2>7. cpc' = [cpc EXCEPT ![c] = "open"] /\ held' = [held EXCEPT ![c] = None]
    BY <2>3 DEF AcceptJob
  <2>8. UNCHANGED <<ready, cancelled, requested, offered>>
    BY <2>3 DEF AcceptJob
  <2>9. ToolTypes'
    BY <2>3, <2>5 DEF AcceptJob
  <2>10. QueueTypeOK'
    BY <2>1, <2>3, <2>5 DEF AcceptJob
  <2>11. ConnTypes'
    BY <2>5, <2>6, <2>7, <2>8
  <2>12. MainTypes' /\ StageInv'
    BY <2>3 DEF AcceptJob
  <2> QED
    BY <2>9, <2>10, <2>11, <2>12
<1>5. ASSUME NEW t \in Tools, ReceiveManifest(c, t)
      PROVE  TypeInv'
  BY <1>5 DEF ReceiveManifest, SyncStates
<1>6. CASE RequestMissingFiles(c)
  <2> DEFINE t == ready[c]
  <2>1. t \in Tools
    BY <1>6 DEF RequestMissingFiles
  <2>2. MarkAsSynchronizing(t) \in [Files -> SyncStates] /\ MissingRequests(t) \subseteq Tools \X Files
    BY <2>1, Marked DEF MissingRequests, Missing, FilesIn
  <2>3. ToolTypes'
    BY <1>6, <2>1, <2>2 DEF RequestMissingFiles
  <2> QED
    BY <1>6, <2>3 DEF RequestMissingFiles
<1>7. ASSUME NEW t \in Tools, NEW f \in Files, ReceiveFile(c, t, f)
      PROVE  TypeInv'
  <2>1. fileState' = [fileState EXCEPT ![t] = [fileState[t] EXCEPT ![f] = "SYNCHRONIZED"]]
    BY <1>7 DEF ReceiveFile
  <2>2. fileState' \in [Tools -> [Files -> SyncStates]]
    BY <2>1 DEF SyncStates
  <2>3. ToolTypes'
    <3>1. UNCHANGED <<manifest, askedManifest>>
      BY <1>7 DEF ReceiveFile
    <3>2. owner' = owner \/ owner' = [owner EXCEPT ![t] = None]
      BY <1>7 DEF ReceiveFile
    <3>3. askedFiles' = [askedFiles EXCEPT ![c] = @ \ {<<t, f>>}]
      BY <1>7 DEF ReceiveFile
    <3>4. /\ manifest \subseteq Tools /\ owner \in [Tools -> Clients \cup {None}]
          /\ askedManifest \in [Clients -> SUBSET Tools]
          /\ askedFiles \in [Clients -> SUBSET (Tools \X Files)]
      OBVIOUS
    <3> HIDE DEF TypeInv, QueueTypeOK, ConnTypes, MainTypes, StageInv
    <3> QED
      BY <2>2, <3>1, <3>2, <3>3, <3>4
  <2>4. QueueTypeOK' /\ MainTypes'
    BY <1>7 DEF ReceiveFile
  <2>5. \/ UNCHANGED <<cpc, ready>>
        \/ cpc' = [cpc EXCEPT ![c] = "synchronized"] /\ ready' = [ready EXCEPT ![c] = t]
    BY <1>7 DEF ReceiveFile
  <2>6. UNCHANGED <<held, cancelled, countVars, waiting, workerVars, mainVars>>
    BY <1>7 DEF ReceiveFile
  <2>7. CASE UNCHANGED <<cpc, ready>>
    BY <2>3, <2>4, <2>6, <2>7
  <2>8. CASE cpc' = [cpc EXCEPT ![c] = "synchronized"] /\ ready' = [ready EXCEPT ![c] = t]
    BY <2>3, <2>4, <2>6, <2>8
  <2> QED
    BY <2>5, <2>7, <2>8
<1>8. CASE CheckWaitingJobs(c)
  <2>1. UNION {WaitingFor(d, ready[c]) : d \in Listed} \subseteq Jobs
    BY DEF WaitingFor, Listed
  <2> QED
    BY <1>8, <2>1 DEF CheckWaitingJobs, QueueJobs, Finished
<1>9. CASE Drop(c)
  BY <1>9 DEF Drop
<1>10. CASE CancelJobs(c)
  <2>1. CancelPending(c) \/ CancelCompleted(c) \/ UnhookInFlight(c)
    BY <1>10 DEF CancelJobs
  <2>2. QueueTypeOK' /\ UNCHANGED workerVars
    BY <2>1 DEF CancelPending, CancelCompleted, UnhookInFlight
  <2>3. PICK pc \in LeavingPCs : cpc' = [cpc EXCEPT ![c] = pc]
    BY <1>10 DEF CancelJobs
  <2> QED
    BY <1>10, <2>2, <2>3 DEF CancelJobs
<1>11. CASE CancelTools(c)
  <2>1. \A t \in Tools : CancelSynchronizingFiles(t) \in [Files -> SyncStates]
    BY DEF CancelSynchronizingFiles, SyncStates
  <2>2. ComingFrom(c) \subseteq Tools
    BY DEF ComingFrom
  <2> QED
    BY <1>11, <2>1, <2>2 DEF CancelTools
<1>12. CASE EraseClient(c)
  <2>1. \A t \in Tools : /\ MarkAsSynchronizing(t) \in [Files -> SyncStates]
                         /\ MissingRequests(t) \subseteq Tools \X Files
    BY Marked DEF MissingRequests, Missing, FilesIn
  <2>2. PICK heir \in [Tools -> Clients \cup {None}] :
        /\ owner' = [t \in Tools |-> IF heir[t] = None THEN owner[t] ELSE heir[t]]
        /\ fileState' = [t \in Tools |-> IF heir[t] = None THEN fileState[t]
                                         ELSE MarkAsSynchronizing(t)]
        /\ askedFiles' = [d \in Clients |-> IF cpc[d] \notin Serving THEN {}
              ELSE askedFiles[d] \cup UNION {MissingRequests(t) : t \in Inherits(heir, d)}]
    BY <1>12 DEF EraseClient
  <2>3. \A d \in Clients : UNION {MissingRequests(t) : t \in Inherits(heir, d)} \subseteq Tools \X Files
    BY <2>1 DEF Inherits
  <2>4. ToolTypes'
    BY <1>12, <2>1, <2>2, <2>3 DEF EraseClient
  <2> QED
    BY <1>12, <2>4 DEF EraseClient
<1> QED
  BY <1>1, <1>2, <1>3, <1>4, <1>5, <1>6, <1>7, <1>8, <1>9, <1>10, <1>11, <1>12 DEF ConnStep

LEMMA TypeStep ==
  ASSUME TypeInv, [Next]_vars
  PROVE  TypeInv'
<1> USE DEF TypeInv, QueueTypeOK, ConnTypes, ToolTypes, MainTypes, StageInv, Results,
            queueVars, workerVars, clientVars, handVars, countVars, toolVars, askVars, mainVars,
            boundVars
<1>1. ASSUME NEW c \in Clients, ConnStep(c)
      PROVE  TypeInv'
  BY <1>1, TypeConn
<1>2. ASSUME NEW w \in WorkerThreads, BuildStep(w)
      PROVE  TypeInv'
  <2>1. CASE GetJobToProcess(w)
    BY <1>2, <2>1 DEF BuildStep, GetJobToProcess
  <2>2. CASE FinishedProcessingJob(w)
    <3>1. CASE wpc' = [wpc EXCEPT ![w] = "idle"] /\ wjob' = [wjob EXCEPT ![w] = None] /\ wres' = wres
      BY <1>2, <2>2, <3>1 DEF BuildStep, FinishedProcessingJob
    <3>2. CASE wpc' = [wpc EXCEPT ![w] = "append"] /\ UNCHANGED <<live, wjob>>
      <4>1. wpc[w] = "building" /\ inFlight' = inFlight \ {wjob[w]}
            /\ UNCHANGED <<userData, pending, done>>
            /\ UNCHANGED <<clientVars, toolVars, askVars, mainVars, boundVars>>
        BY <1>2, <2>2 DEF BuildStep, FinishedProcessingJob
      <4>2. wres' \in [WorkerThreads -> Results]
        BY <2>2, <3>2 DEF FinishedProcessingJob
      <4>3. QueueTypeOK'
        BY <3>2, <4>1, <4>2
      <4>4. ConnTypes' /\ ToolTypes' /\ MainTypes'
        BY <4>1
      <4>5. StageInv'
        BY <3>2, <4>1
      <4> QED
        BY <4>3, <4>4, <4>5
    <3> QED
      BY <2>2, <3>1, <3>2 DEF FinishedProcessingJob
  <2>3. CASE AppendCompletedJob(w)
    BY <1>2, <2>3 DEF BuildStep, AppendCompletedJob
  <2> QED
    BY <1>2, <2>1, <2>2, <2>3 DEF BuildStep, WorkerStep
<1>3. CASE ServerStep
  <2>1. CASE TakeCompletedJob
    BY <2>1 DEF TakeCompletedJob, GetCompletedJob
  <2>2. CASE ReportResult
    BY <2>2 DEF ReportResult, ConnectionStillActive, Listed
  <2>3. CASE BeginRequests
    BY <2>3 DEF BeginRequests
  <2>4. CASE EndRequests
    BY <2>4 DEF EndRequests
  <2>5. ASSUME NEW c \in Clients, RequestJob(c)
        PROVE  TypeInv'
    BY <2>5 DEF RequestJob
  <2> QED
    BY <1>3, <2>1, <2>2, <2>3, <2>4, <2>5 DEF ServerStep
<1>4. CASE UNCHANGED vars
  BY <1>4 DEF vars
<1> QED
  BY <1>1, <1>2, <1>3, <1>4 DEF Next

---------------------------------------------------------------------------
(* Jobs have one holder                                                    *)

LEMMA JobInit == Init => JobInv
BY DEF Init, QueueInit, JobInv, ReceivedInv, ListsInv, HeldInv, ApartInv, Results

LEMMA JobsConn ==
  ASSUME TypeInv, JobInv, NEW c \in Clients, ConnStep(c)
  PROVE  JobInv'
<1> USE DEF JobInv, ReceivedInv, ListsInv, HeldInv, ApartInv, Results, Goto,
            queueVars, workerVars, handVars, countVars, mainVars, boundVars
<1>0. /\ cpc \in [Clients -> ConnPCs] /\ held \in [Clients -> Jobs \cup {None}]
      /\ waiting \in [Clients -> SUBSET Jobs] /\ done \in [Results -> SUBSET Jobs]
      /\ session \in [Clients -> Nat] /\ sender \in [Jobs -> Nat]
      /\ wjob \in [WorkerThreads -> Jobs \cup {None}]
      /\ live \subseteq Jobs
      /\ cpc[c] = "gotJob" => held[c] \in Jobs
  BY DEF TypeInv, QueueTypeOK, ConnTypes, MainTypes, StageInv
<1>1. CASE OnConnected(c)
  BY <1>0, <1>1 DEF OnConnected
<1>2. ASSUME UNCHANGED <<live, pending, inFlight, done, wpc, wjob, sjob, waiting, held, session, sender>>,
             cpc[c] # "closed", cpc[c] # "gotJob",
             NEW pc \in ConnPCs \ {"closed", "gotJob"}, cpc' = [cpc EXCEPT ![c] = pc]
      PROVE  JobInv'
  BY <1>0, <1>2
<1>3. CASE ReceiveStatus(c) \/ ReceiveNoJob(c)
  BY <1>3 DEF ReceiveStatus, ReceiveNoJob
<1>4. ASSUME NEW j \in Jobs, ReceiveJob(c, j)
      PROVE  JobInv'
  BY <1>0, <1>4 DEF ReceiveJob
<1>5. CASE ProcessJob(c)
  <2> DEFINE j == held[c]
  <2>1. j \in Jobs /\ j \notin live /\ sender[j] # 0 /\ j # None
    BY <1>0, <1>5 DEF ProcessJob
  <2>2. /\ live' = live \cup {j} /\ held' = [held EXCEPT ![c] = None]
        /\ cpc' = [cpc EXCEPT ![c] = "open"]
        /\ UNCHANGED <<inFlight, done, wpc, wjob, sjob, session, sender>>
    BY <1>5 DEF ProcessJob, AcceptJob
  <2>3. \/ pending' = pending \cup {j} /\ waiting' = waiting
        \/ pending' = pending /\ waiting' = [waiting EXCEPT ![c] = @ \cup {j}]
    BY <1>5 DEF ProcessJob, StartJob, HoldJob, QueueJobs
  <2>4. cpc[c] = "gotJob"
    BY <1>5 DEF ProcessJob
  <2> HIDE DEF j
  <2>5. CASE pending' = pending \cup {j} /\ waiting' = waiting
    <3> HIDE DEF ReceivedInv, ListsInv, HeldInv, ApartInv
    <3>1. ReceivedInv'
      BY <1>0, <2>1, <2>2, <2>4, <2>5 DEF ReceivedInv, j
    <3>2. ListsInv'
      BY <1>0, <2>1, <2>2, <2>4, <2>5 DEF ListsInv
    <3>3. HeldInv'
      BY <1>0, <2>1, <2>2, <2>4, <2>5 DEF HeldInv
    <3>4. ApartInv'
      BY <1>0, <2>1, <2>2, <2>4, <2>5 DEF ApartInv, ListsInv
    <3> QED
      BY <3>1, <3>2, <3>3, <3>4
  <2>6. CASE pending' = pending /\ waiting' = [waiting EXCEPT ![c] = @ \cup {j}]
    <3> HIDE DEF ReceivedInv, ListsInv, HeldInv, ApartInv
    <3>1. ReceivedInv'
      BY <1>0, <2>1, <2>2, <2>4, <2>6 DEF ReceivedInv, j
    <3>2. ListsInv'
      BY <1>0, <2>1, <2>2, <2>4, <2>6 DEF ListsInv
    <3>3. HeldInv'
      BY <1>0, <2>1, <2>2, <2>4, <2>6 DEF HeldInv
    <3>4. ApartInv'
      BY <1>0, <2>1, <2>2, <2>4, <2>6 DEF ApartInv, ListsInv
    <3> QED
      BY <3>1, <3>2, <3>3, <3>4
  <2> QED
    BY <2>3, <2>5, <2>6
<1>6. ASSUME NEW t \in Tools, ReceiveManifest(c, t)
      PROVE  JobInv'
  BY <1>0, <1>2, <1>6 DEF ReceiveManifest, ConnPCs, Serving
<1>7. CASE RequestMissingFiles(c)
  BY <1>0, <1>2, <1>7 DEF RequestMissingFiles, ConnPCs, Serving
<1>8. ASSUME NEW t \in Tools, NEW f \in Files, ReceiveFile(c, t, f)
      PROVE  JobInv'
  <2>1. PICK pc \in {"open", "synchronized"} : cpc' = [cpc EXCEPT ![c] = pc]
    BY <1>0, <1>8 DEF ReceiveFile
  <2> QED
    BY <1>0, <1>2, <1>8, <2>1 DEF ReceiveFile, ConnPCs, Serving
<1>9. CASE CheckWaitingJobs(c)
  <2> DEFINE t == ready[c]
  <2>1. /\ pending' = pending \cup UNION {WaitingFor(d, t) : d \in Listed}
        /\ waiting' = [d \in Clients |-> waiting[d] \ WaitingFor(d, t)]
        /\ UNCHANGED <<live, inFlight, done, wpc, wjob, sjob, held, session, sender>>
        /\ cpc' = [cpc EXCEPT ![c] = "open"]
        /\ cpc[c] # "closed" /\ cpc[c] # "gotJob"
    BY <1>9 DEF CheckWaitingJobs, QueueJobs, Finished
  <2>2. \A d \in Clients : WaitingFor(d, t) \subseteq waiting[d]
    BY DEF WaitingFor
  <2>3. \A d \in Clients \ Listed : waiting[d] = {}
    BY <1>0 DEF Listed
  <2> QED
    BY <1>0, <2>1, <2>2, <2>3 DEF Listed
<1>10. CASE Drop(c)
  BY <1>0, <1>2, <1>10 DEF Drop, ConnPCs, LeavingPCs
<1>11. CASE CancelJobs(c)
  <2>1. PICK pc \in LeavingPCs : /\ cpc' = [cpc EXCEPT ![c] = pc]
                                 /\ cpc[c] \in LeavingPCs
                                 /\ UNCHANGED <<wpc, wjob, sjob, waiting, held, session, sender>>
    BY <1>11 DEF CancelJobs, LeavingPCs, CancelPending, CancelCompleted, UnhookInFlight
  <2>2. CASE CancelPending(c)
    BY <1>0, <2>1, <2>2 DEF CancelPending, LeavingPCs
  <2>3. CASE CancelCompleted(c)
    BY <1>0, <2>1, <2>3 DEF CancelCompleted, LeavingPCs
  <2>4. CASE UnhookInFlight(c)
    BY <1>0, <1>2, <2>1, <2>4 DEF UnhookInFlight, LeavingPCs, ConnPCs
  <2> QED
    BY <1>11, <2>2, <2>3, <2>4 DEF CancelJobs
<1>12. CASE CancelTools(c)
  BY <1>0, <1>2, <1>12 DEF CancelTools, ConnPCs, LeavingPCs
<1>13. CASE EraseClient(c)
  <2>1. /\ live' = live \ waiting[c] /\ waiting' = [waiting EXCEPT ![c] = {}]
        /\ cpc[c] = "erase" /\ cpc' = [cpc EXCEPT ![c] = "closed"]
        /\ UNCHANGED <<pending, inFlight, done, wpc, wjob, sjob, held, session, sender>>
    BY <1>13 DEF EraseClient
  <2> QED
    BY <1>0, <2>1
<1> QED
  BY <1>1, <1>3, <1>4, <1>5, <1>6, <1>7, <1>8, <1>9, <1>10, <1>11, <1>12, <1>13 DEF ConnStep

LEMMA JobsStep ==
  ASSUME TypeInv, JobInv, [Next]_vars
  PROVE  JobInv'
<1> USE DEF JobInv, ReceivedInv, ListsInv, HeldInv, ApartInv, Results,
            queueVars, workerVars, clientVars, handVars, countVars, mainVars, boundVars
<1>0. /\ cpc \in [Clients -> ConnPCs] /\ held \in [Clients -> Jobs \cup {None}]
      /\ waiting \in [Clients -> SUBSET Jobs] /\ done \in [Results -> SUBSET Jobs]
      /\ wjob \in [WorkerThreads -> Jobs \cup {None}]
      /\ wres \in [WorkerThreads -> Results]
      /\ live \subseteq Jobs
      /\ wpc \in [WorkerThreads -> {"idle", "building", "append"}]
      /\ \A w \in WorkerThreads : wpc[w] = "idle" <=> wjob[w] = None
      /\ spc = "report" <=> sjob # None
  BY DEF TypeInv, QueueTypeOK, ConnTypes, MainTypes, StageInv
<1>1. ASSUME NEW c \in Clients, ConnStep(c)
      PROVE  JobInv'
  BY <1>1, JobsConn
<1>2. ASSUME NEW w \in WorkerThreads, BuildStep(w)
      PROVE  JobInv'
  <2>1. CASE GetJobToProcess(w)
    <3>1. PICK j \in pending : /\ pending' = pending \ {j} /\ inFlight' = inFlight \cup {j}
                                /\ wjob' = [wjob EXCEPT ![w] = j]
      BY <2>1 DEF GetJobToProcess
    <3>2. /\ UNCHANGED <<live, done, sjob, waiting, cpc, held, session, sender>>
          /\ wpc[w] = "idle" /\ wpc' = [wpc EXCEPT ![w] = "building"] /\ wjob[w] = None /\ j # None
      BY <1>0, <1>2, <2>1 DEF BuildStep, GetJobToProcess
    <3>3. \A v \in WorkerThreads : v # w => wjob'[v] = wjob[v] /\ wpc'[v] = wpc[v]
      BY <3>1, <3>2, <1>0
    <3>4. wjob'[w] = j /\ wpc'[w] = "building"
      BY <3>1, <3>2, <1>0
    <3>5. ReceivedInv'
      BY <3>2
    <3>6. ListsInv'
      BY <1>0, <3>1, <3>2, <3>3, <3>4
    <3>7. HeldInv'
      BY <1>0, <3>1, <3>2, <3>3, <3>4
    <3>8. ApartInv'
      BY <1>0, <3>1, <3>2, <3>3, <3>4
    <3> QED
      BY <3>5, <3>6, <3>7, <3>8
  <2>2. CASE FinishedProcessingJob(w)
    BY <1>0, <1>2, <2>2 DEF BuildStep, FinishedProcessingJob
  <2>3. CASE AppendCompletedJob(w)
    <3> DEFINE j == wjob[w]
               r == wres[w]
    <3>1. /\ UNCHANGED <<live, pending, inFlight, sjob, waiting, cpc, held, session, sender>>
          /\ wpc[w] = "append" /\ r \in Results
          /\ done' = [done EXCEPT ![r] = @ \cup {j}]
          /\ j \in live /\ j # None
      BY <1>0, <1>2, <2>3 DEF BuildStep, AppendCompletedJob
    <3>2. \A v \in WorkerThreads : v # w => wjob'[v] = wjob[v] /\ wpc'[v] = wpc[v]
      BY <1>0, <1>2, <2>3 DEF BuildStep, AppendCompletedJob
    <3>3. wjob'[w] = None /\ wpc'[w] = "idle"
      BY <1>0, <1>2, <2>3 DEF BuildStep, AppendCompletedJob
    <3>4. \A i \in Jobs, q \in Results : i \in done'[q] <=> i \in done[q] \/ (i = j /\ q = r)
      BY <1>0, <3>1
    <3> HIDE DEF j, r
    <3>5. ReceivedInv'
      BY <3>1
    <3>6. ListsInv'
      BY <1>0, <3>1, <3>2, <3>3
    <3>7. HeldInv'
      BY <1>0, <3>1, <3>2, <3>3, <3>4 DEF j
    <3>8. ApartInv'
      BY <1>0, <3>1, <3>2, <3>3, <3>4 DEF j
    <3> QED
      BY <3>5, <3>6, <3>7, <3>8
  <2> QED
    BY <1>2, <2>1, <2>2, <2>3 DEF BuildStep, WorkerStep
<1>3. CASE ServerStep
  <2>1. CASE TakeCompletedJob
    BY <1>0, <2>1 DEF TakeCompletedJob, GetCompletedJob
  <2>2. CASE ReportResult
    BY <1>0, <2>2 DEF ReportResult
  <2>3. CASE BeginRequests
    BY <2>3 DEF BeginRequests
  <2>4. CASE EndRequests
    BY <2>4 DEF EndRequests
  <2>5. ASSUME NEW c \in Clients, RequestJob(c)
        PROVE  JobInv'
    BY <2>5 DEF RequestJob
  <2> QED
    BY <1>3, <2>1, <2>2, <2>3, <2>4, <2>5 DEF ServerStep
<1>4. CASE UNCHANGED vars
  BY <1>4 DEF vars
<1> QED
  BY <1>1, <1>2, <1>3, <1>4 DEF Next

LEMMA OneHolder == TypeInv /\ JobInv => JobsHaveOneHolder
<1> SUFFICES ASSUME TypeInv, JobInv, NEW j \in Jobs
             PROVE  Cardinality(Holders(j)) = (IF j \in live THEN 1 ELSE 0)
  BY DEF JobsHaveOneHolder
<1>0. j # None
  OBVIOUS
<1>1. CASE j \notin live
  <2>1. Holders(j) = {}
    BY <1>0, <1>1 DEF JobInv, ListsInv, Holders
  <2> QED
    BY <1>1, <2>1, FS_EmptySet
<1>2. CASE j \in live
  <2>1. \E p : Holders(j) = {p}
    <3> USE <1>2 DEF JobInv, ApartInv
    <3>1. CASE j \in pending
      <4>1. Holders(j) = {<<"pending", 1>>}
        BY <3>1 DEF Holders
      <4> QED
        BY <4>1
    <3>2. CASE j = sjob
      <4>1. Holders(j) = {<<"server", 1>>}
        BY <3>2 DEF Holders
      <4> QED
        BY <4>1
    <3>3. ASSUME NEW c \in Clients, j \in waiting[c]
          PROVE  \E p : Holders(j) = {p}
      <4>1. Holders(j) = {<<"client", c>>}
        BY <3>3 DEF Holders
      <4> QED
        BY <4>1
    <3>4. ASSUME NEW r \in Results, j \in done[r]
          PROVE  \E p : Holders(j) = {p}
      <4>1. Holders(j) = {<<"completed", r>>}
        BY <3>4 DEF Holders
      <4> QED
        BY <4>1
    <3>5. ASSUME NEW w \in WorkerThreads, j = wjob[w]
          PROVE  \E p : Holders(j) = {p}
      <4>1. Holders(j) = {<<"worker", w>>}
        BY <3>5 DEF Holders
      <4> QED
        BY <4>1
    <3> QED
      BY <3>1, <3>2, <3>3, <3>4, <3>5 DEF HeldInv
  <2> QED
    BY <1>2, <2>1, FS_Singleton
<1> QED
  BY <1>1, <1>2

---------------------------------------------------------------------------
(* Jobs start with their tool chain                                        *)

LEMMA ToolInit == Init => ToolInv
BY DEF Init, QueueInit, ToolInv, JobsStartWithTools

\* What a step that receives or requests files may do
LEMMA MarkedStays ==
  ASSUME NEW t \in Tools, NEW u \in Tools, Synchronized(u),
         fileState' = [fileState EXCEPT ![t] = MarkAsSynchronizing(t)],
         fileState \in [Tools -> [Files -> SyncStates]], manifest' = manifest
  PROVE  Synchronized(u)'
BY DEF Synchronized, MarkAsSynchronizing, Missing, FilesIn

LEMMA ToolsConn ==
  ASSUME TypeInv, ToolInv, NEW c \in Clients, ConnStep(c)
  PROVE  ToolInv'
<1> USE DEF ToolInv, JobsStartWithTools, Goto, queueVars, workerVars, handVars, countVars, toolVars,
            askVars, mainVars, boundVars
<1>0. /\ cpc \in [Clients -> ConnPCs] /\ ready \in [Clients -> Tools \cup {None}]
      /\ waiting \in [Clients -> SUBSET Jobs]
      /\ manifest \subseteq Tools
      /\ fileState \in [Tools -> [Files -> SyncStates]]
      /\ owner \in [Tools -> Clients \cup {None}]
      /\ askedManifest \in [Clients -> SUBSET Tools]
      /\ askedFiles \in [Clients -> SUBSET (Tools \X Files)]
      /\ pending \subseteq Jobs /\ inFlight \subseteq Jobs
      /\ \A d \in Clients : cpc[d] = "gotJob" => held[d] \in Jobs
      /\ \A d \in Clients : cpc[d] \in {"gotManifest", "synchronized"} => ready[d] \in Tools
  BY DEF TypeInv, QueueTypeOK, ConnTypes, ToolTypes, StageInv
<1>1. ASSUME UNCHANGED <<toolVars, askVars, pending, inFlight, ready>>,
             NEW pc \in ConnPCs \ {"gotManifest", "synchronized"}, cpc' = [cpc EXCEPT ![c] = pc],
             pc \in Serving \/ askedManifest[c] = {}
      PROVE  ToolInv'
  BY <1>0, <1>1 DEF Synchronized
<1>2. CASE OnConnected(c) \/ ReceiveStatus(c) \/ ReceiveNoJob(c)
  BY <1>0, <1>1, <1>2 DEF OnConnected, ReceiveStatus, ReceiveNoJob, Serving, ConnPCs, Synchronized
<1>3. ASSUME NEW j \in Jobs, ReceiveJob(c, j)
      PROVE  ToolInv'
  BY <1>0, <1>1, <1>3 DEF ReceiveJob, Serving, ConnPCs
<1>4. CASE ProcessJob(c)
  <2> DEFINE j == held[c]
             t == ToolOf[j]
  <2>1. j \in Jobs /\ t \in Tools
    BY <1>0, <1>4 DEF ProcessJob
  <2>2. /\ cpc' = [cpc EXCEPT ![c] = "open"]
        /\ UNCHANGED <<inFlight, ready, manifest>>
    BY <1>4 DEF ProcessJob, AcceptJob
  <2>3. StartJob(c, j, t) \/ HoldJob(c, j, t)
    BY <1>4 DEF ProcessJob
  <2> HIDE DEF j
  <2>4. CASE StartJob(c, j, t)
    BY <1>0, <2>1, <2>2, <2>4 DEF StartJob, QueueJobs, Serving, Synchronized
  <2>5. CASE HoldJob(c, j, t) /\ owner[t] # None
    BY <1>0, <2>1, <2>2, <2>5 DEF HoldJob, Serving, Synchronized
  <2>6. CASE HoldJob(c, j, t) /\ owner[t] = None
    <3>1. TakeOwnership(c, t) /\ pending' = pending
      BY <2>6 DEF HoldJob
    <3>2. \A u \in Tools : Synchronized(u) => Synchronized(u)'
      BY <1>0, <2>1, <2>2, <3>1, MarkedStays DEF TakeOwnership
    <3>3. \A d \in Clients : \A u \in askedManifest'[d] :
             u \notin manifest /\ owner'[u] = d /\ cpc'[d] \in Serving
      BY <1>0, <2>1, <2>2, <2>6, <3>1 DEF TakeOwnership, Serving
    <3>4. \A d \in Clients : \A r \in askedFiles'[d] : r[1] \in manifest
      BY <1>0, <2>1, <2>2, <3>1 DEF TakeOwnership, MissingRequests, Missing, FilesIn
    <3> QED
      BY <1>0, <2>2, <3>1, <3>2, <3>3, <3>4
  <2> QED
    BY <2>3, <2>4, <2>5, <2>6
<1>5. ASSUME NEW t \in Tools, ReceiveManifest(c, t)
      PROVE  ToolInv'
  <2>1. \A u \in Tools : Synchronized(u) => Synchronized(u)'
    BY <1>0, <1>5 DEF ReceiveManifest, Synchronized
  <2>2. \A d \in Clients : \A u \in askedManifest'[d] :
           u \notin manifest' /\ owner'[u] = d /\ cpc'[d] \in Serving
    BY <1>0, <1>5 DEF ReceiveManifest, Serving
  <2> QED
    BY <1>0, <1>5, <2>1, <2>2 DEF ReceiveManifest
<1>6. CASE RequestMissingFiles(c)
  <2> DEFINE t == ready[c]
  <2>1. t \in Tools /\ cpc' = [cpc EXCEPT ![c] = "open"]
    BY <1>0, <1>6 DEF RequestMissingFiles
  <2>2. \A u \in Tools : Synchronized(u) => Synchronized(u)'
    BY <1>0, <1>6, <2>1, MarkedStays DEF RequestMissingFiles
  <2>3. \A d \in Clients : \A u \in askedManifest'[d] :
           u \notin manifest' /\ owner'[u] = d /\ cpc'[d] \in Serving
    BY <1>0, <1>6, <2>1 DEF RequestMissingFiles, Serving
  <2>4. \A d \in Clients : \A r \in askedFiles'[d] : r[1] \in manifest'
    BY <1>0, <1>6, <2>1 DEF RequestMissingFiles, MissingRequests, Missing, FilesIn
  <2> QED
    BY <1>0, <1>6, <2>1, <2>2, <2>3, <2>4 DEF RequestMissingFiles
<1>7. ASSUME NEW t \in Tools, NEW f \in Files, ReceiveFile(c, t, f)
      PROVE  ToolInv'
  <2>1. fileState' = [fileState EXCEPT ![t] = [fileState[t] EXCEPT ![f] = "SYNCHRONIZED"]]
    BY <1>7 DEF ReceiveFile
  <2>2. \A u \in Tools : Synchronized(u) => Synchronized(u)'
    BY <1>0, <1>7, <2>1 DEF ReceiveFile, Synchronized
  <2>3. t \in manifest
    BY <1>7 DEF ReceiveFile
  <2>4. LastFile(t, f) => Synchronized(t)'
    BY <1>0, <1>7, <2>1, <2>3 DEF ReceiveFile, Synchronized, LastFile
  <2>5. \A d \in Clients : \A u \in askedManifest'[d] :
           u \notin manifest' /\ owner'[u] = d /\ cpc'[d] \in Serving
    BY <1>0, <1>7, <2>3 DEF ReceiveFile, Serving
  <2>6. \A d \in Clients : \A r \in askedFiles'[d] : r[1] \in manifest'
    BY <1>0, <1>7 DEF ReceiveFile
  <2>7. \A d \in Clients : cpc'[d] = "synchronized" => Synchronized(ready[d])'
    <3>1. CASE LastFile(t, f)
      <4>1. cpc' = [cpc EXCEPT ![c] = "synchronized"] /\ ready' = [ready EXCEPT ![c] = t]
        BY <1>7, <3>1 DEF ReceiveFile
      <4> QED
        BY <1>0, <2>2, <2>4, <3>1, <4>1
    <3>2. CASE ~LastFile(t, f)
      <4>1. UNCHANGED <<cpc, ready>>
        BY <1>7, <3>2 DEF ReceiveFile
      <4> QED
        BY <1>0, <2>2, <4>1
    <3> QED
      BY <3>1, <3>2
  <2>8. \A d \in Clients : cpc'[d] = "gotManifest" => ready'[d] \in manifest'
    BY <1>0, <1>7 DEF ReceiveFile
  <2>9. manifest' = manifest /\ pending' = pending /\ inFlight' = inFlight
    BY <1>7 DEF ReceiveFile
  <2> QED
    BY <1>0, <2>2, <2>5, <2>6, <2>7, <2>8, <2>9
<1>8. CASE CheckWaitingJobs(c)
  <2> DEFINE t == ready[c]
  <2>1. Synchronized(t)
    BY <1>8 DEF CheckWaitingJobs, Finished
  <2>2. /\ pending' = pending \cup UNION {WaitingFor(d, t) : d \in Listed}
        /\ ready' = [ready EXCEPT ![c] = None]
        /\ cpc' = [cpc EXCEPT ![c] = "open"]
        /\ UNCHANGED <<toolVars, askVars, inFlight>>
    BY <1>8 DEF CheckWaitingJobs, QueueJobs
  <2>3. \A d \in Listed : \A j \in WaitingFor(d, t) : ToolOf[j] = t
    BY DEF WaitingFor
  <2>4. \A j \in pending' : Synchronized(ToolOf[j])
    BY <2>1, <2>2, <2>3
  <2>5. \A u : Synchronized(u)' <=> Synchronized(u)
    BY <2>2 DEF Synchronized
  <2> QED
    BY <1>0, <2>2, <2>4, <2>5 DEF Serving
<1>9. CASE Drop(c)
  BY <1>0, <1>9 DEF Drop, Synchronized
<1>10. CASE CancelJobs(c)
  <2>1. askedManifest[c] = {}
    BY <1>0, <1>10 DEF CancelJobs, Serving
  <2>2. PICK pc \in LeavingPCs : cpc' = [cpc EXCEPT ![c] = pc]
    BY <1>10 DEF CancelJobs, LeavingPCs
  <2>3. UNCHANGED <<toolVars, askVars, inFlight, ready>> /\ pending' \subseteq pending
    BY <1>10 DEF CancelJobs, CancelPending, CancelCompleted, UnhookInFlight
  <2>4. \A u : Synchronized(u)' <=> Synchronized(u)
    BY <2>3 DEF Synchronized
  <2> QED
    BY <1>0, <2>1, <2>2, <2>3, <2>4 DEF LeavingPCs
<1>11. CASE CancelTools(c)
  <2>1. /\ cpc[c] = "cancelTools" /\ cpc' = [cpc EXCEPT ![c] = "erase"]
        /\ UNCHANGED <<ready, manifest, askedManifest, askedFiles, pending, inFlight>>
    BY <1>11 DEF CancelTools
  <2>2. \A u \in Tools : Synchronized(u) => Synchronized(u)'
    BY <1>0, <1>11 DEF CancelTools, Synchronized, ComingFrom
  <2>4. askedManifest[c] = {}
    BY <2>1 DEF Serving
  <2>3. \A d \in Clients : \A u \in askedManifest[d] : owner'[u] = d
    <3>1. owner' = [t \in Tools |-> IF t \in ComingFrom(c) THEN None ELSE owner[t]]
      BY <1>11 DEF CancelTools
    <3> QED
      BY <1>0, <2>4, <3>1 DEF ComingFrom
  <2> QED
    BY <1>0, <2>1, <2>2, <2>3, <2>4
<1>12. CASE EraseClient(c)
  <2>1. PICK heir \in [Tools -> Clients \cup {None}] :
        /\ \A t \in Tools : IF Heirs(c, t) = {} THEN heir[t] = None ELSE heir[t] \in Heirs(c, t)
        /\ owner' = [t \in Tools |-> IF heir[t] = None THEN owner[t] ELSE heir[t]]
        /\ fileState' = [t \in Tools |-> IF heir[t] = None THEN fileState[t]
                                         ELSE MarkAsSynchronizing(t)]
        /\ askedFiles' = [d \in Clients |-> IF cpc[d] \notin Serving THEN {}
              ELSE askedFiles[d] \cup UNION {MissingRequests(t) : t \in Inherits(heir, d)}]
    BY <1>12 DEF EraseClient
  <2>2. /\ cpc[c] = "erase" /\ cpc' = [cpc EXCEPT ![c] = "closed"]
        /\ UNCHANGED <<ready, manifest, askedManifest, pending, inFlight>>
    BY <1>12 DEF EraseClient
  <2>3. \A t \in Tools : heir[t] # None => t \in manifest
    BY <2>1 DEF Heirs, Missing, FilesIn
  <2>4. \A u \in Tools : Synchronized(u) => Synchronized(u)'
    BY <1>0, <1>12, <2>1 DEF EraseClient, Synchronized, MarkAsSynchronizing, Missing, FilesIn
  <2>5. \A d \in Clients : \A u \in askedManifest[d] : owner'[u] = d
    BY <1>0, <2>1, <2>3
  <2>6. \A t : \A r \in MissingRequests(t) : r[1] \in manifest
    BY DEF MissingRequests, Missing, FilesIn
  <2>7. \A d \in Clients : \A r \in askedFiles'[d] : r[1] \in manifest
    BY <1>0, <2>1, <2>6
  <2>8. askedManifest[c] = {}
    BY <2>2 DEF Serving
  <2> QED
    BY <1>0, <2>2, <2>4, <2>5, <2>7, <2>8
<1> QED
  BY <1>2, <1>3, <1>4, <1>5, <1>6, <1>7, <1>8, <1>9, <1>10, <1>11, <1>12 DEF ConnStep

LEMMA ToolsStep ==
  ASSUME TypeInv, ToolInv, [Next]_vars
  PROVE  ToolInv'
<1>1. ASSUME NEW c \in Clients, ConnStep(c)
      PROVE  ToolInv'
  BY <1>1, ToolsConn
<1>2. ASSUME UNCHANGED <<cpc, ready, toolVars, askVars>>,
             pending' \cup inFlight' \subseteq pending \cup inFlight
      PROVE  ToolInv'
  BY <1>2 DEF ToolInv, JobsStartWithTools, Synchronized, toolVars, askVars
<1>3. ASSUME NEW w \in WorkerThreads, BuildStep(w)
      PROVE  ToolInv'
  BY <1>2, <1>3 DEF BuildStep, WorkerStep, GetJobToProcess, FinishedProcessingJob, AppendCompletedJob,
                    clientVars, handVars
<1>4. CASE ServerStep
  BY <1>2, <1>4 DEF ServerStep, TakeCompletedJob, ReportResult, BeginRequests, EndRequests, RequestJob,
                    queueVars, clientVars, handVars
<1>5. CASE UNCHANGED vars
  BY <1>2, <1>5 DEF vars, queueVars, clientVars, handVars
<1> QED
  BY <1>1, <1>3, <1>4, <1>5 DEF Next

---------------------------------------------------------------------------
(* The number of active jobs is exact                                      *)

LEMMA OwnIsFinite ==
  ASSUME live \subseteq Jobs, NEW c
  PROVE  IsFiniteSet(Own(c)) /\ Cardinality(Own(c)) \in Nat
<1>1. Own(c) \subseteq Jobs
  BY DEF Own
<1> QED
  BY <1>1, FS_Subset, FS_CardinalityType

LEMMA CountInit == Init => CountInv
<1> SUFFICES ASSUME Init PROVE CountInv
  OBVIOUS
<1>1. \A c \in Clients : JobsOf(c) = {} /\ Own(c) = {}
  BY DEF Init, QueueInit, JobsOf, Own
<1>2. \A c \in Clients : active[c] = 0 /\ waiting[c] = {}
  BY DEF Init
<1>3. \A c \in Clients : Cardinality(Own(c)) = 0
  BY <1>1, FS_EmptySet
<1> QED
  BY <1>1, <1>2, <1>3 DEF CountInv, SessionInv, CountOf

LEMMA CountKept ==
  ASSUME NEW c \in Clients, CountOf(c), TypeInv, TypeInv', active'[c] = active[c], Own(c)' \subseteq Own(c),
         cpc'[c] \in Serving => cpc[c] \in Serving /\ Own(c)' = Own(c)
  PROVE  CountOf(c)'
<1>1. live \subseteq Jobs /\ live' \subseteq Jobs /\ active[c] \in Int
  BY DEF TypeInv, QueueTypeOK, ConnTypes
<1>2. IsFiniteSet(Own(c)) /\ Cardinality(Own(c)) \in Nat /\ Cardinality(Own(c)') \in Nat
  BY <1>1, OwnIsFinite, FS_Subset, FS_CardinalityType
<1>3. Cardinality(Own(c)') <= Cardinality(Own(c))
  BY <1>2, FS_Subset
<1> QED
  BY <1>1, <1>2, <1>3 DEF CountOf

LEMMA CountConn ==
  ASSUME OneSession, TypeInv, TypeInv', JobInv, CountInv, NEW c \in Clients, ConnStep(c)
  PROVE  CountInv'
<1> USE DEF Goto, queueVars, workerVars, handVars, countVars, toolVars, askVars, mainVars, boundVars
<1>0. /\ cpc \in [Clients -> ConnPCs] /\ active \in [Clients -> Int]
      /\ waiting \in [Clients -> SUBSET Jobs]
      /\ session \in [Clients -> Nat] /\ userData \in [Jobs -> Clients \cup {None}]
      /\ live \subseteq Jobs
  BY DEF TypeInv, QueueTypeOK, ConnTypes, MainTypes
<1>1. ASSUME UNCHANGED <<userData, session, active>>,
             \A d \in Clients : waiting'[d] \subseteq waiting[d],
             live' \subseteq live, live \ live' \subseteq JobsOf(c),
             NEW pc, cpc' = [cpc EXCEPT ![c] = pc],
             pc \in Serving => cpc[c] \in Serving /\ live' = live
      PROVE  CountInv'
  <2>2. ASSUME NEW d \in Clients
        PROVE  CountOf(d)'
    <3>1. active'[d] = active[d] /\ Own(d)' \subseteq Own(d)
      BY <1>0, <1>1 DEF Own, JobsOf
    <3>2. cpc'[d] \in Serving => cpc[d] \in Serving /\ Own(d)' = Own(d)
      BY <1>0, <1>1 DEF Own, JobsOf
    <3>3. CountOf(d)
      BY DEF CountInv
    <3> QED
      BY <3>1, <3>2, <3>3, CountKept
  <2> QED
    BY <1>1, <2>2 DEF CountInv, SessionInv, JobsOf
<1>2. CASE OnConnected(c)
  <2>1. session[c] = 0 /\ JobsOf(c) = {}
    BY <1>0, <1>2 DEF OnConnected, CountInv, SessionInv, OneSession
  <2>2. Own(c)' = {} /\ active'[c] = 0
    BY <1>0, <1>2, <2>1 DEF OnConnected, Own, JobsOf
  <2>3. CountOf(c)'
    BY <2>2, FS_EmptySet DEF CountOf
  <2>4. ASSUME NEW d \in Clients, d # c
        PROVE  CountOf(d)'
    BY <1>0, <1>2, <2>4 DEF OnConnected, CountInv, CountOf, Own, JobsOf
  <2> QED
    BY <1>0, <1>2, <2>3, <2>4 DEF OnConnected, CountInv, SessionInv, JobsOf
<1>3. CASE ReceiveStatus(c) \/ ReceiveNoJob(c)
  BY <1>3 DEF ReceiveStatus, ReceiveNoJob, CountInv, SessionInv, CountOf, Own, JobsOf
<1>4. ASSUME NEW j \in Jobs, ReceiveJob(c, j)
      PROVE  CountInv'
  BY <1>0, <1>1, <1>4 DEF ReceiveJob, Serving
<1>5. CASE ProcessJob(c)
  <2> DEFINE j == held[c]
  <2>1. j \in Jobs /\ j \notin live /\ session[c] > 0 /\ cpc[c] = "gotJob"
    BY <1>5 DEF ProcessJob, JobInv, ReceivedInv, TypeInv, StageInv
  <2>2. /\ live' = live \cup {j} /\ userData' = [userData EXCEPT ![j] = c]
        /\ active' = [active EXCEPT ![c] = @ + 1] /\ cpc' = [cpc EXCEPT ![c] = "open"]
        /\ session' = session
    BY <1>5 DEF ProcessJob, AcceptJob
  <2>3. \/ waiting' = waiting
        \/ waiting' = [waiting EXCEPT ![c] = @ \cup {j}]
    BY <1>5 DEF ProcessJob, StartJob, HoldJob
  <2>4. \A d \in Clients : j \notin waiting[d]
    BY <2>1 DEF JobInv, ListsInv
  <2> HIDE DEF j
  <2>5. Own(c)' = Own(c) \cup {j} /\ j \notin Own(c)
    BY <1>0, <2>1, <2>2 DEF Own, JobsOf
  <2>6. Cardinality(Own(c)') = Cardinality(Own(c)) + 1
    BY <1>0, <2>5, OwnIsFinite, FS_AddElement
  <2>7. CountOf(c)'
    <3>1. Cardinality(Own(c)) \in Nat /\ active[c] = Cardinality(Own(c))
      BY <1>0, <2>1, OwnIsFinite DEF CountInv, CountOf, Serving
    <3> QED
      BY <1>0, <2>2, <2>6, <3>1 DEF CountOf
  <2>8. ASSUME NEW d \in Clients, d # c
        PROVE  CountOf(d)'
    <3>1. Own(d)' = Own(d)
      BY <1>0, <2>1, <2>2, <2>8 DEF Own, JobsOf
    <3> QED
      BY <1>0, <2>2, <2>8, <3>1 DEF CountInv, CountOf
  <2>9. SessionInv'
    BY <1>0, <2>1, <2>2, <2>3, <2>4 DEF CountInv, SessionInv, JobsOf
  <2> QED
    BY <2>7, <2>8, <2>9 DEF CountInv
<1>6. ASSUME NEW t \in Tools, ReceiveManifest(c, t)
      PROVE  CountInv'
  BY <1>0, <1>1, <1>6 DEF ReceiveManifest, Serving
<1>7. CASE RequestMissingFiles(c)
  BY <1>0, <1>1, <1>7 DEF RequestMissingFiles, Serving
<1>8. ASSUME NEW t \in Tools, NEW f \in Files, ReceiveFile(c, t, f)
      PROVE  CountInv'
  <2>1. PICK pc \in {"open", "synchronized"} : cpc' = [cpc EXCEPT ![c] = pc]
    BY <1>0, <1>8 DEF ReceiveFile
  <2> QED
    BY <1>0, <1>1, <1>8, <2>1 DEF ReceiveFile, Serving
<1>9. CASE CheckWaitingJobs(c)
  BY <1>0, <1>1, <1>9 DEF CheckWaitingJobs, Finished, Serving
<1>10. CASE Drop(c)
  BY <1>0, <1>1, <1>10 DEF Drop, Serving
<1>11. CASE CancelJobs(c)
  <2>1. PICK pc \in LeavingPCs : /\ cpc' = [cpc EXCEPT ![c] = pc] /\ pc \notin Serving
                                 /\ UNCHANGED <<active, waiting, session>>
    BY <1>11 DEF CancelJobs, LeavingPCs, Serving
  <2>2. CASE CancelPending(c) \/ CancelCompleted(c)
    BY <1>1, <2>1, <2>2 DEF CancelPending, CancelCompleted
  <2>3. CASE UnhookInFlight(c)
    <3>1. live' = live /\ userData' = [j \in Jobs |-> IF j \in inFlight \cap JobsOf(c) THEN None
                                                      ELSE userData[j]]
      BY <2>3 DEF UnhookInFlight
    <3>2. \A d \in Clients : JobsOf(d)' \subseteq JobsOf(d) /\ (d # c => JobsOf(d)' = JobsOf(d))
      BY <1>0, <3>1 DEF JobsOf
    <3>3. \A d \in Clients : CountOf(d)'
      BY <1>0, <2>1, <3>1, <3>2, CountKept DEF CountInv, Own
    <3>4. \A d \in Clients : \A j \in waiting[d] : j \in Jobs /\ j \notin inFlight
      BY <1>0 DEF JobInv, ListsInv, ApartInv
    <3>5. SessionInv'
      BY <1>0, <2>1, <3>1, <3>2, <3>4 DEF CountInv, SessionInv
    <3> QED
      BY <3>3, <3>5 DEF CountInv
  <2> QED
    BY <1>11, <2>2, <2>3 DEF CancelJobs
<1>12. CASE CancelTools(c)
  BY <1>0, <1>1, <1>12 DEF CancelTools, Serving
<1>13. CASE EraseClient(c)
  <2>1. waiting[c] \subseteq JobsOf(c)
    BY <1>0 DEF CountInv, SessionInv, JobsOf
  <2>2. /\ live' = live \ waiting[c] /\ waiting' = [waiting EXCEPT ![c] = {}]
        /\ cpc' = [cpc EXCEPT ![c] = "closed"] /\ UNCHANGED <<userData, session, active>>
    BY <1>13 DEF EraseClient
  <2> QED
    BY <1>0, <1>1, <2>1, <2>2 DEF Serving
<1> QED
  BY <1>2, <1>3, <1>4, <1>5, <1>6, <1>7, <1>8, <1>9, <1>10, <1>11, <1>12, <1>13 DEF ConnStep

LEMMA CountStep ==
  ASSUME OneSession, TypeInv, TypeInv', JobInv, CountInv, [Next]_vars
  PROVE  CountInv'
<1>0. /\ active \in [Clients -> Int] /\ userData \in [Jobs -> Clients \cup {None}]
      /\ live \subseteq Jobs
  BY DEF TypeInv, QueueTypeOK, ConnTypes
<1>1. ASSUME NEW c \in Clients, ConnStep(c)
      PROVE  CountInv'
  BY <1>1, CountConn
<1>2. ASSUME UNCHANGED <<userData, session, active, waiting, live, cpc>>
      PROVE  CountInv'
  BY <1>2 DEF CountInv, SessionInv, CountOf, Own, JobsOf
<1>3. ASSUME NEW w \in WorkerThreads, BuildStep(w)
      PROVE  CountInv'
  <2>1. UNCHANGED <<userData, session, active, waiting, cpc>>
    BY <1>3 DEF BuildStep, WorkerStep, GetJobToProcess, FinishedProcessingJob, AppendCompletedJob,
                clientVars, countVars, boundVars
  <2>2. CASE live' = live
    BY <1>2, <2>1, <2>2
  <2>3. CASE Unhooked(wjob[w]) /\ live' = live \ {wjob[w]}
    <3>1. \A d \in Clients : Own(d)' = Own(d)
      BY <1>0, <2>1, <2>3 DEF Unhooked, Own, JobsOf
    <3> QED
      BY <2>1, <3>1 DEF CountInv, SessionInv, CountOf, JobsOf
  <2> QED
    BY <1>3, <2>2, <2>3 DEF BuildStep, WorkerStep, GetJobToProcess, FinishedProcessingJob, AppendCompletedJob
<1>4. CASE ReportResult
  <2>1. sjob \in live /\ sjob \in Jobs
    BY <1>4 DEF ReportResult, JobInv, ListsInv, TypeInv, StageInv, QueueTypeOK
  <2>2. /\ live' = live \ {sjob} /\ UNCHANGED <<userData, session, waiting, cpc>>
        /\ active' = IF ConnectionStillActive
                     THEN [active EXCEPT ![userData[sjob]] = @ - 1] ELSE active
    BY <1>4 DEF ReportResult, handVars, boundVars
  <2>3. ASSUME NEW d \in Clients
        PROVE  CountOf(d)'
    <3>1. IsFiniteSet(Own(d)) /\ Cardinality(Own(d)) \in Nat
      BY <1>0, OwnIsFinite
    <3>2. CASE userData[sjob] = d
      <4>1. sjob \in Own(d) /\ Own(d)' = Own(d) \ {sjob}
        BY <2>1, <2>2, <3>2 DEF Own, JobsOf
      <4>2. Cardinality(Own(d)') = Cardinality(Own(d)) - 1
        BY <3>1, <4>1, FS_RemoveElement
      <4>3. ConnectionStillActive <=> cpc[d] # "closed"
        BY <3>2 DEF ConnectionStillActive, Listed
      <4>4. CASE cpc[d] # "closed"
        BY <1>0, <2>2, <3>1, <3>2, <4>2, <4>3, <4>4 DEF CountInv, CountOf
      <4>5. CASE cpc[d] = "closed"
        BY <1>0, <2>2, <3>1, <3>2, <4>2, <4>3, <4>5 DEF CountInv, CountOf, Serving
      <4> QED
        BY <4>4, <4>5
    <3>3. CASE userData[sjob] # d
      <4>1. Own(d)' = Own(d) /\ active'[d] = active[d]
        BY <1>0, <2>1, <2>2, <3>3 DEF Own, JobsOf
      <4> QED
        BY <2>2, <4>1 DEF CountInv, CountOf
    <3> QED
      BY <3>2, <3>3
  <2> QED
    BY <2>2, <2>3 DEF CountInv, SessionInv, JobsOf
<1>5. CASE TakeCompletedJob \/ BeginRequests \/ EndRequests \/ \E c \in Clients : RequestJob(c)
  BY <1>2, <1>5 DEF TakeCompletedJob, BeginRequests, EndRequests, RequestJob, queueVars, clientVars,
                    countVars, boundVars
<1>6. CASE UNCHANGED vars
  BY <1>2, <1>6 DEF vars, queueVars, clientVars, countVars, boundVars
<1> QED
  BY <1>1, <1>3, <1>4, <1>5, <1>6 DEF Next, ServerStep

---------------------------------------------------------------------------
(* Slots are not overbooked                                                *)

\* The units of one client only change.
LEMMA OneChanges ==
  ASSUME NEW u, NEW v, NEW c \in Clients, NEW m \in Nat,
         \A d \in Clients : u[d] \in Nat /\ v[d] \in Nat /\ (d # c => u[d] = v[d]),
         v[c] <= u[c] + m
  PROVE  /\ Cardinality(Units(v, Clients)) <= Cardinality(Units(u, Clients)) + m
         /\ Cardinality(Units(v, Clients)) \in Nat /\ Cardinality(Units(u, Clients)) \in Nat
<1>1. Units(u, Clients \ {c}) = Units(v, Clients \ {c})
  BY DEF Units
<1>2. /\ Cardinality(Units(u, Clients)) = u[c] + Cardinality(Units(u, Clients \ {c}))
      /\ Cardinality(Units(u, Clients \ {c})) \in Nat
  BY CountUnits
<1>3. Cardinality(Units(v, Clients)) = v[c] + Cardinality(Units(v, Clients \ {c}))
  BY CountUnits
<1>4. u[c] \in Nat /\ v[c] \in Nat
  OBVIOUS
<1> QED
  BY <1>1, <1>2, <1>3, <1>4

Counts == \A c \in Clients : requested[c] \in Nat /\ active[c] \in Nat

LEMMA CountsAreNumbers == TypeInv /\ CountInv => Counts
<1> SUFFICES ASSUME TypeInv, CountInv, NEW c \in Clients
             PROVE  requested[c] \in Nat /\ active[c] \in Nat
  BY DEF Counts
<1>1. active[c] \in Int /\ Cardinality(Own(c)) \in Nat /\ Cardinality(Own(c)) <= active[c]
  BY OwnIsFinite DEF TypeInv, QueueTypeOK, ConnTypes, CountInv, CountOf
<1> QED
  BY <1>1 DEF TypeInv, ConnTypes

LEMMA LoadTypes ==
  Counts => /\ \A c \in Clients : Loads[c] \in Nat /\ Loads[c] = Load(c)
            /\ Cardinality(Units(Loads, Clients)) \in Nat
<1> SUFFICES ASSUME Counts
             PROVE  /\ \A c \in Clients : Loads[c] \in Nat /\ Loads[c] = Load(c)
                    /\ Cardinality(Units(Loads, Clients)) \in Nat
  OBVIOUS
<1>1. \A c \in Clients : Loads[c] = Load(c) /\ Load(c) \in Nat
  BY DEF Counts, Loads, Load, InUse
<1> QED
  BY <1>1, UnitsAreFinite, FS_CardinalityType

LEMMA LoadTypesNext ==
  Counts' => (/\ \A c \in Clients : Loads[c] \in Nat /\ Loads[c] = Load(c)
              /\ Cardinality(Units(Loads, Clients)) \in Nat)'
BY LoadTypes, PTL

LEMMA ListedUse ==
  ASSUME Counts
  PROVE  /\ MapThenSumSet(InUse, Listed) <= Cardinality(Units(Loads, Clients))
         /\ Cardinality(Units(Loads, Clients)) <= MapThenSumSet(InUse, Listed) + Cardinality(Clients)
         /\ MapThenSumSet(InUse, Listed) \in Nat
<1> DEFINE u == [c \in Listed |-> InUse(c)]
           U == Units(u, Listed)
           V == Units(Loads, Clients)
           f == [c \in Clients |-> <<c, Loads[c]>>]
           T == {f[c] : c \in Clients}
<1>1. IsFiniteSet(Listed) /\ Listed \subseteq Clients
  BY FS_Subset DEF Listed
<1>2. MapThenSumSet(InUse, Listed) = Cardinality(U)
  BY <1>1, SumOfUse DEF Counts
<1>3. \A c \in Clients : Loads[c] \in Nat /\ Loads[c] = Load(c)
  BY LoadTypes
<1>4. IsFiniteSet(V)
  BY <1>3, UnitsAreFinite
<1>5. \A c \in Listed : InUse(c) \in Nat /\ InUse(c) <= Load(c) /\ Load(c) <= InUse(c) + 1
  BY <1>1 DEF Counts, InUse, Load
<1>6. U \subseteq V
  BY <1>1, <1>3, <1>5 DEF Units
<1>7. IsFiniteSet(U)
  BY <1>4, <1>6, FS_Subset
<1>8. IsFiniteSet(T) /\ Cardinality(T) <= Cardinality(Clients)
  <2>1. f \in Surjection(Clients, T)
    BY DEF Surjection
  <2> QED
    BY <2>1, FS_Surjection
<1>9. V \subseteq U \cup T
  <2> SUFFICES ASSUME NEW p \in V PROVE p \in U \cup T
    OBVIOUS
  <2>1. p \in Clients \X Nat /\ 1 <= p[2] /\ p[2] <= Load(p[1])
    BY <1>3 DEF Units
  <2>2. p[1] \in Listed
    BY <2>1 DEF Load
  <2>3. CASE p[2] <= InUse(p[1])
    BY <2>1, <2>2, <2>3 DEF Units
  <2>4. CASE ~(p[2] <= InUse(p[1]))
    <3>1. p[2] = Load(p[1])
      BY <1>5, <2>1, <2>2, <2>4, <1>3, <1>1
    <3>2. p = f[p[1]]
      BY <1>3, <2>1, <3>1
    <3> QED
      BY <2>1, <3>2
  <2> QED
    BY <2>3, <2>4
<1>10. Cardinality(U) <= Cardinality(V) /\ Cardinality(V) <= Cardinality(U \cup T)
  BY <1>4, <1>6, <1>7, <1>8, <1>9, FS_Subset, FS_Union
<1>11. Cardinality(U \cup T) <= Cardinality(U) + Cardinality(T)
  <2>1. Cardinality(U \cup T) = Cardinality(U) + Cardinality(T) - Cardinality(U \cap T)
    BY <1>7, <1>8, FS_Union
  <2>2. IsFiniteSet(U \cap T)
    BY <1>7, FS_Intersection
  <2> HIDE DEF U, T
  <2> QED
    BY <1>7, <1>8, <2>1, <2>2, FS_CardinalityType
<1>12. /\ Cardinality(U) \in Nat /\ Cardinality(V) \in Nat /\ Cardinality(T) \in Nat
       /\ Cardinality(U \cup T) \in Nat /\ Cardinality(Clients) \in Nat
  BY <1>4, <1>7, <1>8, FS_Union, FS_CardinalityType
<1> HIDE DEF U, V, T
<1>13. Cardinality(U) <= Cardinality(V) /\ Cardinality(V) <= Cardinality(U) + Cardinality(Clients)
  BY <1>8, <1>10, <1>11, <1>12
<1> QED
  BY <1>2, <1>12, <1>13 DEF V

LEMMA SlotInit == Init => SlotInv
<1> SUFFICES ASSUME Init PROVE SlotInv
  OBVIOUS
<1>1. Units(Loads, Clients) = {}
  BY DEF Init, Units, Loads, Load, Listed
<1>2. Cardinality(Clients) \in Nat
  BY FS_CardinalityType
<1> QED
  BY <1>1, <1>2, FS_EmptySet DEF SlotInv, Init

\* A step of one client's load that asks for nothing
LEMMA SlotsKept ==
  ASSUME Counts, Counts', SlotInv, NEW c \in Clients, budget' = budget, budget \in Nat,
         \A d \in Clients : d # c => Load(d)' = Load(d),
         Load(c)' <= Load(c)
  PROVE  SlotInv'
<1> DEFINE u == Loads
           v == Loads'
<1>1. \A d \in Clients : u[d] \in Nat /\ u[d] = Load(d)
  BY LoadTypes
<1>2. \A d \in Clients : v[d] \in Nat /\ v[d] = Load(d)'
  BY LoadTypesNext
<1> HIDE DEF u, v
<1>3. /\ Cardinality(Units(v, Clients)) <= Cardinality(Units(u, Clients)) + 0
      /\ Cardinality(Units(v, Clients)) \in Nat /\ Cardinality(Units(u, Clients)) \in Nat
  <2>1. \A d \in Clients : u[d] \in Nat /\ v[d] \in Nat /\ (d # c => u[d] = v[d])
    BY <1>1, <1>2
  <2>2. v[c] <= u[c] + 0
    BY <1>1, <1>2
  <2> QED
    BY <2>1, <2>2, OneChanges
<1>4. Cardinality(Clients) \in Nat
  BY FS_CardinalityType
<1>5. Cardinality(Units(u, Clients)) + budget <= Slots + 1 + Cardinality(Clients)
  BY DEF SlotInv, u
<1>6. Cardinality(Units(v, Clients)) + budget' <= Slots + 1 + Cardinality(Clients)
  BY <1>3, <1>4, <1>5
<1> QED
  BY <1>6 DEF SlotInv, v

LEMMA SlotsConn ==
  ASSUME Counts, Counts', TypeInv, SlotInv, NEW c \in Clients, ConnStep(c)
  PROVE  SlotInv'
<1> USE DEF Goto, countVars, mainVars
<1>0. /\ cpc \in [Clients -> ConnPCs] /\ budget \in Nat
      /\ requested \in [Clients -> Nat] /\ active \in [Clients -> Int]
  BY DEF TypeInv, ConnTypes, MainTypes
<1>1. ASSUME UNCHANGED <<requested, active, budget>>, cpc[c] # "closed",
             NEW pc, pc # "gotJob", cpc' = [cpc EXCEPT ![c] = pc]
      PROVE  SlotInv'
  <2>1. \A d \in Clients : d # c => Load(d)' = Load(d)
    BY <1>0, <1>1 DEF Load, Listed, InUse
  <2>2. Load(c)' <= Load(c)
    BY <1>0, <1>1 DEF Load, Listed, InUse, Counts
  <2> QED
    BY <1>0, <1>1, <2>1, <2>2, SlotsKept
<1>2. CASE OnConnected(c)
  <2>1. Load(c)' <= Load(c) /\ budget' = budget
    BY <1>0, <1>2 DEF OnConnected, Load, Listed, InUse
  <2>2. \A d \in Clients : d # c => Load(d)' = Load(d)
    BY <1>0, <1>2 DEF OnConnected, Load, Listed, InUse
  <2> QED
    BY <1>0, <2>1, <2>2, SlotsKept
<1>3. CASE ReceiveStatus(c)
  <2>1. budget' = budget /\ \A d \in Clients : Load(d)' = Load(d)
    BY <1>3 DEF ReceiveStatus, Load, Listed, InUse
  <2> QED
    BY <1>0, <2>1, SlotsKept DEF Load, InUse, Counts
<1>4. CASE ReceiveNoJob(c)
  <2>1. Load(c)' <= Load(c) /\ budget' = budget
    BY <1>0, <1>4 DEF ReceiveNoJob, Load, Listed, InUse, Counts
  <2>2. \A d \in Clients : d # c => Load(d)' = Load(d)
    BY <1>0, <1>4 DEF ReceiveNoJob, Load, Listed, InUse
  <2> QED
    BY <1>0, <2>1, <2>2, SlotsKept
<1>5. ASSUME NEW j \in Jobs, ReceiveJob(c, j)
      PROVE  SlotInv'
  <2>1. Load(c)' <= Load(c) /\ budget' = budget
    BY <1>0, <1>5 DEF ReceiveJob, Load, Listed, InUse, Counts
  <2>2. \A d \in Clients : d # c => Load(d)' = Load(d)
    BY <1>0, <1>5 DEF ReceiveJob, Load, Listed, InUse
  <2> QED
    BY <1>0, <2>1, <2>2, SlotsKept
<1>6. CASE ProcessJob(c)
  <2>0. /\ cpc[c] = "gotJob" /\ cpc' = [cpc EXCEPT ![c] = "open"]
        /\ active' = [active EXCEPT ![c] = @ + 1] /\ UNCHANGED <<requested, budget>>
    BY <1>6 DEF ProcessJob, AcceptJob
  <2>1. Load(c)' <= Load(c)
    BY <1>0, <2>0 DEF Load, Listed, InUse, Counts
  <2>2. \A d \in Clients : d # c => Load(d)' = Load(d)
    BY <1>0, <2>0 DEF Load, Listed, InUse
  <2> QED
    BY <1>0, <2>0, <2>1, <2>2, SlotsKept
<1>7. ASSUME NEW t \in Tools, ReceiveManifest(c, t)
      PROVE  SlotInv'
  BY <1>1, <1>7 DEF ReceiveManifest
<1>8. CASE RequestMissingFiles(c)
  BY <1>1, <1>8 DEF RequestMissingFiles
<1>9. ASSUME NEW t \in Tools, NEW f \in Files, ReceiveFile(c, t, f)
      PROVE  SlotInv'
  <2>1. PICK pc \in {"open", "synchronized"} : cpc' = [cpc EXCEPT ![c] = pc]
    BY <1>0, <1>9 DEF ReceiveFile
  <2> QED
    BY <1>1, <1>9, <2>1 DEF ReceiveFile
<1>10. CASE CheckWaitingJobs(c)
  BY <1>1, <1>10 DEF CheckWaitingJobs, Finished
<1>11. CASE Drop(c)
  BY <1>1, <1>11 DEF Drop
<1>12. CASE CancelJobs(c)
  BY <1>1, <1>12 DEF CancelJobs
<1>13. CASE CancelTools(c)
  BY <1>1, <1>13 DEF CancelTools
<1>14. CASE EraseClient(c)
  BY <1>1, <1>14 DEF EraseClient
<1> QED
  BY <1>2, <1>3, <1>4, <1>5, <1>6, <1>7, <1>8, <1>9, <1>10, <1>11, <1>12, <1>13, <1>14 DEF ConnStep

LEMMA SlotsKeptAll ==
  ASSUME Counts, SlotInv, UNCHANGED <<cpc, requested, active>>, budget \in Nat, budget' \in Nat,
         budget' <= budget
  PROVE  SlotInv'
<1>1. Loads' = Loads
  BY DEF Loads, Load, Listed, InUse
<1>2. Cardinality(Units(Loads, Clients)) \in Nat /\ Cardinality(Clients) \in Nat
  BY LoadTypes, FS_CardinalityType
<1>3. Cardinality(Units(Loads, Clients)) + budget' <= Slots + 1 + Cardinality(Clients)
  BY <1>2 DEF SlotInv
<1> QED
  BY <1>1, <1>3 DEF SlotInv

LEMMA SlotStep ==
  ASSUME Counts, Counts', TypeInv, TypeInv', JobInv, SlotInv, [Next]_vars
  PROVE  SlotInv'
<1>0. /\ cpc \in [Clients -> ConnPCs] /\ budget \in Nat /\ budget' \in Nat
      /\ requested \in [Clients -> Nat] /\ active \in [Clients -> Int]
      /\ userData \in [Jobs -> Clients \cup {None}]
  BY DEF TypeInv, QueueTypeOK, ConnTypes, MainTypes
<1>1. ASSUME NEW c \in Clients, ConnStep(c)
      PROVE  SlotInv'
  BY <1>1, SlotsConn
<1>2. ASSUME UNCHANGED <<cpc, requested, active, budget>>
      PROVE  SlotInv'
  BY <1>0, <1>2, SlotsKeptAll
<1>3. ASSUME NEW w \in WorkerThreads, BuildStep(w)
      PROVE  SlotInv'
  BY <1>2, <1>3 DEF BuildStep, clientVars, countVars, mainVars
<1>4. CASE TakeCompletedJob
  BY <1>2, <1>4 DEF TakeCompletedJob, clientVars, countVars
<1>5. CASE ReportResult
  <2>0. UNCHANGED <<cpc, requested, budget>>
    BY <1>5 DEF ReportResult
  <2>1. CASE ConnectionStillActive
    <3>1. PICK c \in Clients : active' = [active EXCEPT ![c] = @ - 1]
      BY <1>5, <2>1 DEF ReportResult, ConnectionStillActive, Listed
    <3>2. Load(c)' <= Load(c)
      BY <1>0, <2>0, <3>1 DEF Load, Listed, InUse, Counts
    <3>3. \A d \in Clients : d # c => Load(d)' = Load(d)
      BY <1>0, <2>0, <3>1 DEF Load, Listed, InUse
    <3> QED
      BY <1>0, <2>0, <3>1, <3>2, <3>3, SlotsKept
  <2>2. CASE ~ConnectionStillActive
    BY <1>2, <1>5, <2>0, <2>2 DEF ReportResult
  <2> QED
    BY <2>1, <2>2
<1>6. CASE BeginRequests
  <2>1. /\ UNCHANGED <<cpc, requested, active>> /\ Unreserved \in 1 .. Slots + 1
        /\ budget' = Unreserved
    BY <1>6 DEF BeginRequests, clientVars, countVars
  <2>2. MapThenSumSet(InUse, Listed) = MapThenSumSet(Reserved, Listed)
    BY DEF MapThenSumSet, MapThenFoldSet, InUse, Reserved
  <2>3. Unreserved = Slots + 1 - MapThenSumSet(InUse, Listed)
    BY <2>2 DEF Unreserved
  <2>4. Loads' = Loads
    BY <2>1 DEF Loads, Load, Listed, InUse
  <2>5. /\ Cardinality(Units(Loads, Clients)) <= MapThenSumSet(InUse, Listed) + Cardinality(Clients)
        /\ MapThenSumSet(InUse, Listed) \in Nat
    BY ListedUse
  <2>6. Cardinality(Clients) \in Nat /\ Cardinality(Units(Loads, Clients)) \in Nat
    BY FS_CardinalityType, LoadTypes
  <2>7. Cardinality(Units(Loads, Clients)) + budget' <= Slots + 1 + Cardinality(Clients)
    BY <2>1, <2>3, <2>5, <2>6
  <2> QED
    BY <2>4, <2>7 DEF SlotInv
<1>7. ASSUME NEW c \in Clients, RequestJob(c)
      PROVE  SlotInv'
  <2>1. /\ UNCHANGED <<cpc, active>> /\ requested' = [requested EXCEPT ![c] = @ + 1]
        /\ budget > 0 /\ budget' = budget - 1
    BY <1>7 DEF RequestJob
  <2>2. \A d \in Clients : Loads[d] \in Nat /\ Loads[d] = Load(d)
    BY LoadTypes
  <2>3. \A d \in Clients : Loads'[d] \in Nat /\ Loads'[d] = Load(d)'
    BY LoadTypesNext
  <2>4. Loads'[c] <= Loads[c] + 1
    BY <1>0, <2>1, <2>2, <2>3 DEF Load, Listed, InUse, Counts
  <2>5. \A d \in Clients : d # c => Loads[d] = Loads'[d]
    BY <1>0, <2>1, <2>2, <2>3 DEF Load, Listed, InUse
  <2>6. /\ Cardinality(Units(Loads', Clients)) <= Cardinality(Units(Loads, Clients)) + 1
        /\ Cardinality(Units(Loads', Clients)) \in Nat /\ Cardinality(Units(Loads, Clients)) \in Nat
    <3> DEFINE u == Loads
               v == Loads'
    <3>1. \A d \in Clients : u[d] \in Nat /\ v[d] \in Nat /\ (d # c => u[d] = v[d])
      BY <2>2, <2>3, <2>5
    <3>2. v[c] <= u[c] + 1
      BY <2>4
    <3> HIDE DEF u, v
    <3>3. /\ Cardinality(Units(v, Clients)) <= Cardinality(Units(u, Clients)) + 1
          /\ Cardinality(Units(v, Clients)) \in Nat /\ Cardinality(Units(u, Clients)) \in Nat
      BY <3>1, <3>2, OneChanges
    <3> QED
      BY <3>3 DEF u, v
  <2>7. Cardinality(Clients) \in Nat
    BY FS_CardinalityType
  <2>8. Cardinality(Units(Loads', Clients)) + budget' <= Slots + 1 + Cardinality(Clients)
    BY <1>0, <2>1, <2>6, <2>7 DEF SlotInv
  <2> QED
    BY <2>8 DEF SlotInv
<1>8. CASE EndRequests
  <2>1. UNCHANGED <<cpc, requested, active>> /\ budget' = 0
    BY <1>8 DEF EndRequests, clientVars, countVars
  <2> QED
    BY <1>0, <2>1, SlotsKeptAll
<1>9. CASE UNCHANGED vars
  BY <1>2, <1>9 DEF vars, clientVars, countVars, mainVars
<1> QED
  BY <1>1, <1>3, <1>4, <1>5, <1>6, <1>7, <1>8, <1>9 DEF Next, ServerStep

---------------------------------------------------------------------------
(* Tool chains are on their way                                            *)

LEMMA UploadInit == Init => UploadInv
BY DEF Init, QueueInit, UploadInv, LeavingInv, AskedInv, ComingInv, OwnersInv, Serving

\* When a file of a tool chain is synchronizing none is still to be asked for.
LEMMA NoneMissing ==
  ASSUME UploadInv, NEW t \in Tools, NEW f \in Files, fileState[t][f] = "SYNCHRONIZING",
         NEW g \in Files
  PROVE  fileState[t][g] # "NOT_SYNCHRONIZED"
BY DEF UploadInv, ComingInv

\* H[t] takes the tool chain t over, and is asked for all that is missing if it is connected.
LEMMA Handover ==
  ASSUME TypeInv, ToolInv, UploadInv, NEW H \in [Tools -> Clients \cup {None}],
         manifest' = manifest,
         \A t \in Tools : H[t] = None => fileState'[t] = fileState[t] /\ owner'[t] = owner[t],
         \A t \in Tools : H[t] # None => /\ fileState'[t] = MarkAsSynchronizing(t)
                                         /\ owner'[t] = H[t] /\ Missing(t) # {},
         \A d \in Clients : askedFiles'[d] = IF cpc[d] \notin Serving THEN {}
             ELSE askedFiles[d] \cup UNION {MissingRequests(t) : t \in Inherits(H, d)}
  PROVE  /\ \A t \in Tools : Synchronized(t)' <=> Synchronized(t)
         /\ \A d \in Clients, t \in Tools, f \in Files : <<t, f>> \in askedFiles'[d] =>
              /\ owner'[t] = d /\ fileState'[t][f] = "SYNCHRONIZING"
              /\ <<t, f>> \in askedFiles[d] \/ H[t] = d
         /\ \A t \in Tools, f \in Files : fileState'[t][f] = "SYNCHRONIZING" =>
              /\ t \in manifest /\ owner'[t] # None
              /\ \A g \in Files : fileState'[t][g] # "NOT_SYNCHRONIZED"
              /\ <<t, f>> \in askedFiles'[owner'[t]] \/ Ended(owner'[t])
         /\ \A t \in Tools : H[t] # None /\ cpc[H[t]] \in Serving =>
              \E f \in Files : <<t, f>> \in askedFiles'[H[t]]
<1>0. /\ fileState \in [Tools -> [Files -> SyncStates]]
      /\ owner \in [Tools -> Clients \cup {None}]
      /\ askedFiles \in [Clients -> SUBSET (Tools \X Files)]
  BY DEF TypeInv, ToolTypes
<1>1. ASSUME NEW t \in Tools, H[t] # None
      PROVE  /\ t \in manifest
             /\ \A f \in Files : IF fileState[t][f] = "NOT_SYNCHRONIZED"
                  THEN <<t, f>> \in MissingRequests(t) /\ fileState'[t][f] = "SYNCHRONIZING"
                  ELSE <<t, f>> \notin MissingRequests(t) /\ fileState'[t][f] = fileState[t][f]
  <2>1. Missing(t) # {} /\ fileState'[t] = MarkAsSynchronizing(t)
    BY <1>1
  <2>2. t \in manifest
    BY <2>1 DEF Missing, FilesIn
  <2>3. \A f \in Files : f \in Missing(t) <=> fileState[t][f] = "NOT_SYNCHRONIZED"
    BY <2>2 DEF Missing, FilesIn
  <2> QED
    BY <2>1, <2>2, <2>3 DEF MissingRequests, MarkAsSynchronizing
<1>2. \A t \in Tools : H[t] # None =>
        \E f \in Files : fileState[t][f] = "NOT_SYNCHRONIZED" /\ <<t, f>> \in MissingRequests(t)
  BY <1>0 DEF Missing, MissingRequests, FilesIn
<1>3. ASSUME NEW t \in Tools, H[t] # None
      PROVE  /\ \A f \in Files : fileState[t][f] # "SYNCHRONIZING"
             /\ \A d \in Clients, f \in Files : <<t, f>> \notin askedFiles[d]
  <2>1. PICK g \in Files : fileState[t][g] = "NOT_SYNCHRONIZED"
    BY <1>2, <1>3
  <2>2. \A f \in Files : fileState[t][f] # "SYNCHRONIZING"
    BY <2>1, NoneMissing
  <2> QED
    BY <2>2 DEF UploadInv, AskedInv
<1>4. ASSUME NEW d \in Clients, NEW t \in Tools, NEW f \in Files
      PROVE  <<t, f>> \in askedFiles'[d] <=>
               /\ cpc[d] \in Serving
               /\ <<t, f>> \in askedFiles[d] \/ (H[t] = d /\ <<t, f>> \in MissingRequests(t))
  <2>1. \A u : <<t, f>> \in MissingRequests(u) => u = t
    BY DEF MissingRequests
  <2>2. <<t, f>> \in askedFiles'[d] <=>
          /\ cpc[d] \in Serving
          /\ <<t, f>> \in askedFiles[d] \/ \E u \in Inherits(H, d) : <<t, f>> \in MissingRequests(u)
    <3>1. CASE cpc[d] \in Serving
      <4>1. askedFiles'[d] = askedFiles[d] \cup UNION {MissingRequests(u) : u \in Inherits(H, d)}
        BY <3>1
      <4> QED
        BY <3>1, <4>1
    <3>2. CASE cpc[d] \notin Serving
      <4>1. askedFiles'[d] = {}
        BY <3>2
      <4> QED
        BY <3>2, <4>1
    <3> QED
      BY <3>1, <3>2
  <2>3. t \in Inherits(H, d) <=> H[t] = d
    BY DEF Inherits
  <2>4. ASSUME NEW u \in Inherits(H, d), <<t, f>> \in MissingRequests(u)
        PROVE  H[t] = d /\ <<t, f>> \in MissingRequests(t)
    <3>1. u = t
      BY <2>1, <2>4
    <3> QED
      BY <2>3, <2>4, <3>1
  <2>5. H[t] = d /\ <<t, f>> \in MissingRequests(t) =>
          \E u \in Inherits(H, d) : <<t, f>> \in MissingRequests(u)
    BY <2>3
  <2>6. (\E u \in Inherits(H, d) : <<t, f>> \in MissingRequests(u)) =>
          H[t] = d /\ <<t, f>> \in MissingRequests(t)
    BY <2>4
  <2> QED
    BY <2>2, <2>5, <2>6
<1>5. \A t \in Tools : Synchronized(t)' <=> Synchronized(t)
  <2> SUFFICES ASSUME NEW t \in Tools PROVE Synchronized(t)' <=> Synchronized(t)
    OBVIOUS
  <2>1. CASE H[t] = None
    BY <2>1 DEF Synchronized
  <2>2. CASE H[t] # None
    <3>1. PICK f \in Files : fileState[t][f] = "NOT_SYNCHRONIZED" /\ fileState'[t][f] = "SYNCHRONIZING"
      BY <1>1, <1>2, <2>2
    <3> QED
      BY <3>1 DEF Synchronized
  <2> QED
    BY <2>1, <2>2
<1>6. ASSUME NEW d \in Clients, NEW t \in Tools, NEW f \in Files, <<t, f>> \in askedFiles'[d]
      PROVE  /\ owner'[t] = d /\ fileState'[t][f] = "SYNCHRONIZING"
             /\ <<t, f>> \in askedFiles[d] \/ H[t] = d
  <2>1. CASE <<t, f>> \in askedFiles[d]
    <3>1. H[t] = None /\ owner[t] = d /\ fileState[t][f] = "SYNCHRONIZING"
      BY <1>3, <2>1 DEF UploadInv, AskedInv
    <3> QED
      BY <2>1, <3>1
  <2>2. CASE H[t] = d /\ <<t, f>> \in MissingRequests(t)
    BY <1>1, <2>2
  <2> QED
    BY <1>4, <1>6, <2>1, <2>2
<1>7. ASSUME NEW t \in Tools, NEW f \in Files, fileState'[t][f] = "SYNCHRONIZING"
      PROVE  /\ t \in manifest /\ owner'[t] # None
             /\ \A g \in Files : fileState'[t][g] # "NOT_SYNCHRONIZED"
             /\ <<t, f>> \in askedFiles'[owner'[t]] \/ Ended(owner'[t])
  <2>1. CASE H[t] = None
    <3>1. fileState[t][f] = "SYNCHRONIZING" /\ fileState'[t] = fileState[t] /\ owner'[t] = owner[t]
      BY <1>7, <2>1
    <3>2. /\ t \in manifest /\ owner[t] \in Clients
          /\ \A g \in Files : fileState[t][g] # "NOT_SYNCHRONIZED"
          /\ <<t, f>> \in askedFiles[owner[t]] \/ Ended(owner[t])
      BY <1>0, <3>1 DEF UploadInv, ComingInv
    <3> QED
      BY <1>4, <2>1, <3>1, <3>2 DEF Ended
  <2>2. CASE H[t] # None
    <3>1. t \in manifest /\ owner'[t] = H[t] /\ H[t] \in Clients
      BY <1>1, <2>2
    <3>2. ASSUME NEW g \in Files
          PROVE  fileState'[t][g] # "NOT_SYNCHRONIZED"
      <4>1. IF fileState[t][g] = "NOT_SYNCHRONIZED" THEN fileState'[t][g] = "SYNCHRONIZING"
            ELSE fileState'[t][g] = fileState[t][g]
        BY <1>1, <2>2
      <4> QED
        BY <4>1
    <3>3. <<t, f>> \in MissingRequests(t)
      BY <1>1, <1>3, <1>7, <2>2
    <3> QED
      BY <1>4, <2>2, <3>1, <3>2, <3>3 DEF Ended
  <2> QED
    BY <2>1, <2>2
<1>8. ASSUME NEW t \in Tools, H[t] # None, cpc[H[t]] \in Serving
      PROVE  \E f \in Files : <<t, f>> \in askedFiles'[H[t]]
  <2>1. PICK f \in Files : <<t, f>> \in MissingRequests(t)
    BY <1>2, <1>8
  <2> QED
    BY <1>4, <1>8, <2>1
<1> QED
  BY <1>5, <1>6, <1>7, <1>8

\* Who is asked for a file is asked for its tool chain.
LEMMA FileAsked ==
  ASSUME NEW c \in Clients, NEW t \in Tools, NEW f \in Files, <<t, f>> \in askedFiles[c]
  PROVE  t \in Asked(c)
<1>1. <<t, f>>[1] = t
  OBVIOUS
<1> QED
  BY <1>1 DEF Asked

LEMMA UploadConn ==
  ASSUME TypeInv, ToolInv, UploadInv, OwnersConnected, NEW c \in Clients, ConnStep(c)
  PROVE  UploadInv'
<1> USE DEF Goto, queueVars, workerVars, handVars, countVars, toolVars, askVars, mainVars, boundVars
<1>0. /\ cpc \in [Clients -> ConnPCs] /\ ready \in [Clients -> Tools \cup {None}]
      /\ waiting \in [Clients -> SUBSET Jobs]
      /\ manifest \subseteq Tools
      /\ fileState \in [Tools -> [Files -> SyncStates]]
      /\ owner \in [Tools -> Clients \cup {None}]
      /\ askedManifest \in [Clients -> SUBSET Tools]
      /\ askedFiles \in [Clients -> SUBSET (Tools \X Files)]
      /\ \A d \in Clients : cpc[d] = "gotJob" => held[d] \in Jobs
      /\ \A d \in Clients : cpc[d] \in {"gotManifest", "synchronized"} => ready[d] \in Tools
  BY DEF TypeInv, QueueTypeOK, ConnTypes, ToolTypes, StageInv
<1>1. ASSUME UNCHANGED <<toolVars, askVars, ready>>, cpc[c] \in Serving \ {"gotManifest"},
             NEW pc \in Serving \ {"gotManifest"}, cpc' = [cpc EXCEPT ![c] = pc],
             \A d \in Clients : waiting[d] \subseteq waiting'[d]
      PROVE  UploadInv'
  <2> USE DEF UploadInv
  <2>1. \A d \in Clients : \A t : Needs(d, t) => Needs(d, t)'
    BY <1>1 DEF Needs
  <2>2. LeavingInv'
    BY <1>0, <1>1 DEF LeavingInv, Serving
  <2>3. AskedInv'
    BY <1>0, <1>1, <2>1 DEF AskedInv, Synchronized
  <2>4. ComingInv'
    BY <1>0, <1>1 DEF ComingInv, Ended, Serving
  <2>5. OwnersInv'
    BY <1>0, <1>1 DEF OwnersInv, ComesFrom, Ended, Synchronized, Asked, Serving
  <2> QED
    BY <2>2, <2>3, <2>4, <2>5
<1>2. CASE OnConnected(c)
  <2> USE DEF UploadInv
  <2>1. /\ cpc[c] = "closed" /\ cpc' = [cpc EXCEPT ![c] = "open"]
        /\ UNCHANGED <<toolVars, askVars, ready, waiting>>
        /\ session[c] < MaxSessions
    BY <1>2 DEF OnConnected
  <2>2. LeavingInv'
    BY <1>0, <2>1 DEF LeavingInv, Serving
  <2>3. AskedInv'
    BY <1>0, <2>1 DEF AskedInv, Synchronized, Needs
  <2>6. ASSUME NEW t \in Tools, NEW d \in Clients, owner[t] = d, Ended(d)
        PROVE  Ended(d)'
    <3>1. CASE ~OneSession
      BY <3>1 DEF Ended, OneSession
    <3>2. CASE OneSession
      <4>1. session[c] = 0
        BY <2>1, <3>2, ServerAssumption DEF OneSession, TypeInv, MainTypes
      <4>2. d # c
        BY <2>6, <4>1 DEF OwnersConnected
      <4> QED
        BY <1>0, <2>1, <2>6, <4>2 DEF Ended, OneSession
    <3> QED
      BY <3>1, <3>2
  <2>4. ComingInv'
    BY <1>0, <2>1, <2>6 DEF ComingInv
  <2>5. OwnersInv'
    <3> SUFFICES ASSUME NEW u \in Tools, NEW d \in Clients, owner[u] = d, ~Synchronized(u)
                 PROVE  ComesFrom(d, u)' \/ Ended(d)'
      BY <2>1 DEF OwnersInv, Synchronized
    <3>1. CASE ComesFrom(d, u)
      BY <1>0, <2>1, <3>1 DEF ComesFrom, Asked
    <3> QED
      BY <2>6, <3>1 DEF OwnersInv
  <2> QED
    BY <2>2, <2>3, <2>4, <2>5
<1>3. CASE ReceiveStatus(c) \/ ReceiveNoJob(c)
  <2>1. cpc[c] = "open" /\ cpc' = [cpc EXCEPT ![c] = "open"]
    BY <1>0, <1>3 DEF ReceiveStatus, ReceiveNoJob
  <2> QED
    BY <1>1, <1>3, <2>1 DEF ReceiveStatus, ReceiveNoJob, Serving
<1>4. ASSUME NEW j \in Jobs, ReceiveJob(c, j)
      PROVE  UploadInv'
  BY <1>1, <1>4 DEF ReceiveJob, Serving
<1>5. CASE ProcessJob(c)
  <2> PICK j \in Jobs, t \in Tools : j = held[c] /\ t = ToolOf[j]
    BY <1>0, <1>5 DEF ProcessJob
  <2>1. cpc[c] = "gotJob"
    BY <1>5 DEF ProcessJob
  <2>2. /\ cpc' = [cpc EXCEPT ![c] = "open"]
        /\ UNCHANGED <<ready, manifest>>
    BY <1>5 DEF ProcessJob, AcceptJob
  <2>3. StartJob(c, j, t) \/ HoldJob(c, j, t)
    BY <1>5 DEF ProcessJob
  <2>4. CASE StartJob(c, j, t)
    BY <1>1, <2>1, <2>2, <2>4 DEF StartJob, Serving
  <2>5. CASE HoldJob(c, j, t) /\ owner[t] # None
    BY <1>0, <1>1, <2>1, <2>2, <2>5 DEF HoldJob, Serving
  <2>6. CASE HoldJob(c, j, t) /\ owner[t] = None
    <3> USE DEF UploadInv
    <3>1. /\ ~Synchronized(t) /\ TakeOwnership(c, t)
          /\ waiting' = [waiting EXCEPT ![c] = @ \cup {j}]
      BY <2>6 DEF HoldJob
    <3>2. \A d \in Clients : \A u : Needs(d, u) => Needs(d, u)'
      BY <1>0, <3>1 DEF Needs
    <3>3. Needs(c, t)'
      BY <1>0, <2>1, <3>1 DEF Needs
    <3>4. \A d \in Clients : t \notin askedManifest[d] /\ \A f \in Files : <<t, f>> \notin askedFiles[d]
      BY <2>1, <2>6 DEF ToolInv, AskedInv
    <3>5. \A f \in Files : fileState[t][f] # "SYNCHRONIZING"
      BY <2>1, <2>6 DEF ComingInv
    <3>6. t \in manifest => \A f \in Files :
            IF fileState[t][f] = "NOT_SYNCHRONIZED"
            THEN <<t, f>> \in MissingRequests(t) /\ fileState'[t][f] = "SYNCHRONIZING"
            ELSE <<t, f>> \notin MissingRequests(t) /\ fileState'[t][f] = fileState[t][f]
      BY <1>0, <2>1, <3>1 DEF TakeOwnership, MarkAsSynchronizing, MissingRequests, Missing, FilesIn
    <3>7. t \notin manifest => MissingRequests(t) = {} /\ fileState'[t] = fileState[t]
      BY <1>0, <2>1, <3>1 DEF TakeOwnership, MarkAsSynchronizing, MissingRequests, Missing, FilesIn
    <3>8. \A u \in Tools : u # t => /\ fileState'[u] = fileState[u] /\ owner'[u] = owner[u]
                                    /\ \A f \in Files : <<u, f>> \notin MissingRequests(t)
      BY <1>0, <2>1, <3>1 DEF TakeOwnership, MissingRequests
    <3>9. /\ owner'[t] = c
          /\ \A d \in Clients : d # c => askedFiles'[d] = askedFiles[d] /\ askedManifest'[d] = askedManifest[d]
          /\ askedFiles'[c] = askedFiles[c] \cup MissingRequests(t)
          /\ askedManifest'[c] = IF t \in manifest THEN askedManifest[c] ELSE askedManifest[c] \cup {t}
      BY <1>0, <2>1, <3>1 DEF TakeOwnership
    <3>10. ~Synchronized(t)'
      <4>1. CASE t \in manifest
        <5>1. PICK f \in Files : fileState[t][f] # "SYNCHRONIZED"
          BY <3>1, <4>1 DEF Synchronized
        <5>2. fileState[t][f] = "NOT_SYNCHRONIZED"
          BY <1>0, <3>5, <5>1 DEF SyncStates
        <5> QED
          BY <3>6, <4>1, <5>2 DEF Synchronized
      <4>2. CASE t \notin manifest
        BY <2>2, <4>2 DEF Synchronized
      <4> QED
        BY <4>1, <4>2
    <3>19. \A u \in Tools : u # t => (Synchronized(u)' <=> Synchronized(u))
      BY <2>2, <3>8 DEF Synchronized
    <3>11. LeavingInv'
      BY <1>0, <2>1, <2>2, <3>9 DEF LeavingInv, Serving
    <3>12. \A d \in Clients : \A u \in askedManifest'[d] : Needs(d, u)'
      BY <3>2, <3>3, <3>9 DEF AskedInv
    <3>13. \A d \in Clients : \A u \in Tools, f \in Files : <<u, f>> \in askedFiles'[d] =>
             owner'[u] = d /\ fileState'[u][f] = "SYNCHRONIZING" /\ Needs(d, u)'
      BY <2>1, <3>2, <3>3, <3>4, <3>6, <3>7, <3>8, <3>9 DEF AskedInv
    <3>14. \A d \in Clients : cpc'[d] = "gotManifest" => Synchronized(ready[d])' \/ Needs(d, ready[d])'
      <4> SUFFICES ASSUME NEW d \in Clients, cpc'[d] = "gotManifest"
                   PROVE  Synchronized(ready[d])' \/ Needs(d, ready[d])'
        OBVIOUS
      <4>1. cpc[d] = "gotManifest" /\ ready'[d] = ready[d] /\ ready[d] \in Tools
        BY <1>0, <2>2
      <4>2. CASE Synchronized(ready[d])
        BY <2>2, <3>1, <3>19, <4>1, <4>2
      <4>3. CASE Needs(d, ready[d])
        BY <3>1, <1>0, <4>1, <4>3 DEF Needs
      <4> QED
        BY <4>1, <4>2, <4>3 DEF AskedInv
    <3>15. AskedInv'
      BY <3>12, <3>13, <3>14 DEF AskedInv
    <3>16. ComingInv'
      <4> SUFFICES ASSUME NEW u \in Tools, NEW f \in Files, fileState'[u][f] = "SYNCHRONIZING"
                   PROVE  /\ u \in manifest' /\ owner'[u] # None
                          /\ \A g \in Files : fileState'[u][g] # "NOT_SYNCHRONIZED"
                          /\ <<u, f>> \in askedFiles'[owner'[u]] \/ Ended(owner[u])'
        BY DEF ComingInv
      <4>1. CASE u = t
        <5>1. t \in manifest
          BY <3>5, <3>7, <4>1
        <5>2. \A g \in Files : fileState'[t][g] # "NOT_SYNCHRONIZED"
          BY <3>6, <5>1
        <5>3. <<t, f>> \in MissingRequests(t)
          BY <3>5, <3>6, <4>1, <5>1
        <5> QED
          BY <2>2, <3>9, <4>1, <5>1, <5>2, <5>3
      <4>2. CASE u # t
        <5>1. fileState'[u] = fileState[u] /\ owner'[u] = owner[u]
          BY <3>8, <4>2
        <5>2. /\ u \in manifest /\ owner[u] \in Clients
              /\ \A g \in Files : fileState[u][g] # "NOT_SYNCHRONIZED"
              /\ <<u, f>> \in askedFiles[owner[u]] \/ Ended(owner[u])
          BY <1>0, <5>1 DEF ComingInv
        <5>3. \A d \in Clients : askedFiles[d] \subseteq askedFiles'[d]
          BY <3>9
        <5>4. \A d \in Clients : Ended(d) => Ended(d)'
          BY <1>0, <2>1, <2>2 DEF Ended, Serving
        <5> QED
          BY <2>2, <5>1, <5>2, <5>3, <5>4
      <4> QED
        BY <4>1, <4>2
    <3>17. t \in manifest => \E f \in Files : <<t, f>> \in askedFiles'[c]
      BY <1>0, <2>1, <3>1, <3>5, <3>6, <3>9 DEF Synchronized, SyncStates
    <3>18. OwnersInv'
      <4> SUFFICES ASSUME NEW u \in Tools, NEW d \in Clients, owner'[u] = d, ~Synchronized(u)'
                   PROVE  ComesFrom(d, u)' \/ Ended(d)'
        BY <1>0, <3>8, <3>9 DEF OwnersInv
      <4>1. CASE u = t
        <5>1. d = c /\ cpc'[c] \in Serving
          BY <1>0, <2>2, <3>9, <4>1 DEF Serving
        <5>2. t \in Asked(c)'
          <6>1. CASE t \in manifest
            <7>1. PICK f \in Files : <<t, f>> \in askedFiles'[c]
              BY <3>17, <6>1
            <7>2. <<t, f>>[1] = t
              OBVIOUS
            <7> QED
              BY <7>1, <7>2 DEF Asked
          <6>2. CASE t \notin manifest
            BY <3>9, <6>2 DEF Asked
          <6> QED
            BY <6>1, <6>2
        <5> QED
          BY <4>1, <5>1, <5>2 DEF ComesFrom
      <4>2. CASE u # t
        <5>1. owner[u] = d /\ ~Synchronized(u)
          BY <3>8, <3>19, <4>2
        <5>2. u \in Asked(d) => u \in Asked(d)'
          BY <1>0, <3>9 DEF Asked
        <5> QED
          BY <1>0, <2>1, <2>2, <5>1, <5>2 DEF OwnersInv, ComesFrom, Ended, Serving
      <4> QED
        BY <4>1, <4>2
    <3> QED
      BY <3>11, <3>15, <3>16, <3>18
  <2> QED
    BY <2>3, <2>4, <2>5, <2>6

<1>6. ASSUME NEW t \in Tools, ReceiveManifest(c, t)
      PROVE  UploadInv'
  <2> USE DEF UploadInv
  <2>1. /\ cpc[c] = "open" /\ t \in askedManifest[c] /\ t \notin manifest /\ owner[t] = c
        /\ cpc' = [cpc EXCEPT ![c] = "gotManifest"] /\ ready' = [ready EXCEPT ![c] = t]
        /\ askedManifest' = [askedManifest EXCEPT ![c] = @ \ {t}]
        /\ manifest' = manifest \cup {t}
        /\ UNCHANGED <<owner, waiting, askedFiles>>
    BY <1>6 DEF ReceiveManifest, ToolInv
  <2>2. /\ \A u \in Tools : u # t => fileState'[u] = fileState[u]
        /\ \A f \in Files : fileState'[t][f] # "SYNCHRONIZING"
    BY <1>0, <1>6 DEF ReceiveManifest
  <2>3. \A d \in Clients, f \in Files : <<t, f>> \notin askedFiles[d]
    BY <2>1 DEF AskedInv, ComingInv
  <2>4. \A u \in Tools : u # t => (Synchronized(u)' <=> Synchronized(u))
    BY <2>1, <2>2 DEF Synchronized
  <2>5. LeavingInv'
    BY <1>0, <2>1 DEF LeavingInv, Serving
  <2>6. AskedInv'
    <3>1. \A d \in Clients : \A u \in askedManifest'[d] : Needs(d, u)'
      BY <1>0, <2>1 DEF AskedInv, Needs
    <3>2. \A d \in Clients : \A u \in Tools, f \in Files : <<u, f>> \in askedFiles'[d] =>
            owner'[u] = d /\ fileState'[u][f] = "SYNCHRONIZING" /\ Needs(d, u)'
      BY <2>1, <2>2, <2>3 DEF AskedInv, Needs
    <3>3. ASSUME NEW d \in Clients, cpc'[d] = "gotManifest"
          PROVE  Synchronized(ready[d])' \/ Needs(d, ready[d])'
      <4>1. CASE d = c
        BY <1>0, <2>1, <4>1 DEF AskedInv, Needs
      <4>2. CASE d # c
        <5>1. cpc[d] = "gotManifest" /\ ready'[d] = ready[d] /\ ready[d] \in Tools /\ ready[d] # t
          BY <1>0, <2>1, <3>3, <4>2 DEF ToolInv
        <5>2. CASE Synchronized(ready[d])
          BY <2>4, <5>1, <5>2
        <5>3. CASE Needs(d, ready[d])
          BY <2>1, <5>1, <5>3 DEF Needs
        <5> QED
          BY <5>1, <5>2, <5>3 DEF AskedInv
      <4> QED
        BY <4>1, <4>2
    <3> QED
      BY <3>1, <3>2, <3>3 DEF AskedInv
  <2>7. ComingInv'
    BY <1>0, <2>1, <2>2 DEF ComingInv, Ended, Serving
  <2>8. OwnersInv'
    <3> SUFFICES ASSUME NEW u \in Tools, NEW d \in Clients, owner[u] = d, ~Synchronized(u)'
                 PROVE  ComesFrom(d, u)' \/ Ended(d)'
      BY <1>0, <2>1 DEF OwnersInv
    <3>1. CASE u = t
      BY <1>0, <2>1, <3>1 DEF ComesFrom
    <3>2. CASE u # t
      <4>1. ~Synchronized(u)
        BY <2>4, <3>2
      <4>2. u \in Asked(d) => u \in Asked(d)'
        BY <1>0, <2>1, <3>2 DEF Asked
      <4> QED
        BY <1>0, <2>1, <3>2, <4>1, <4>2 DEF OwnersInv, ComesFrom, Ended, Serving
    <3> QED
      BY <3>1, <3>2
  <2> QED
    BY <2>5, <2>6, <2>7, <2>8
<1>7. CASE RequestMissingFiles(c)
  <2> USE DEF UploadInv
  <2> PICK t \in Tools : t = ready[c]
    BY <1>0, <1>7 DEF RequestMissingFiles
  <2> DEFINE H == [u \in Tools |-> IF u = t /\ Missing(t) # {} THEN c ELSE None]
  <2>1. /\ cpc[c] = "gotManifest" /\ ~Synchronized(t) /\ t \in manifest /\ Needs(c, t)
        /\ cpc' = [cpc EXCEPT ![c] = "open"] /\ ready' = [ready EXCEPT ![c] = None]
        /\ UNCHANGED <<waiting, manifest, askedManifest>>
    BY <1>7 DEF RequestMissingFiles, ToolInv, AskedInv
  <2>2. /\ fileState' = [fileState EXCEPT ![t] = MarkAsSynchronizing(t)]
        /\ owner' = [owner EXCEPT ![t] = IF Missing(t) = {} THEN @ ELSE c]
        /\ askedFiles' = [askedFiles EXCEPT ![c] = @ \cup MissingRequests(t)]
    BY <1>7 DEF RequestMissingFiles
  <2>3. Missing(t) = {} => MissingRequests(t) = {} /\ MarkAsSynchronizing(t) = fileState[t]
    BY <1>0 DEF MissingRequests, MarkAsSynchronizing
  <2>4. H \in [Tools -> Clients \cup {None}]
    OBVIOUS
  <2>5. \A u \in Tools : H[u] = None => fileState'[u] = fileState[u] /\ owner'[u] = owner[u]
    BY <1>0, <2>2, <2>3
  <2>6. \A u \in Tools : H[u] # None => /\ fileState'[u] = MarkAsSynchronizing(u)
                                         /\ owner'[u] = H[u] /\ Missing(u) # {}
    BY <1>0, <2>2
  <2>7. \A d \in Clients : askedFiles'[d] = askedFiles[d] \cup
                                UNION {MissingRequests(u) : u \in Inherits(H, d)}
    <3>1. Missing(t) # {} => Inherits(H, c) = {t}
      BY DEF Inherits
    <3>2. \A d \in Clients : d # c \/ Missing(t) = {} => Inherits(H, d) = {}
      BY DEF Inherits
    <3>3. CASE Missing(t) # {}
      <4>1. UNION {MissingRequests(u) : u \in Inherits(H, c)} = MissingRequests(t)
        BY <3>1, <3>3
      <4>2. \A d \in Clients : d # c => UNION {MissingRequests(u) : u \in Inherits(H, d)} = {}
        BY <3>2
      <4>3. \A d \in Clients : askedFiles'[d] = IF d = c THEN askedFiles[d] \cup MissingRequests(t)
                                                ELSE askedFiles[d]
        BY <1>0, <2>2
      <4> QED
        BY <4>1, <4>2, <4>3
    <3>4. CASE Missing(t) = {}
      BY <1>0, <2>2, <2>3, <3>2, <3>4
    <3> QED
      BY <3>3, <3>4
  <2>8. \A u \in Tools : H[u] # None => u = t /\ H[u] = c
    OBVIOUS
  <2>14. \A d \in Clients : cpc[d] \notin Serving => askedFiles'[d] = {}
    BY <1>0, <2>1, <2>2 DEF LeavingInv, Serving
  <2> HIDE DEF H
  <2>9. /\ \A u \in Tools : Synchronized(u)' <=> Synchronized(u)
        /\ \A d \in Clients, u \in Tools, f \in Files : <<u, f>> \in askedFiles'[d] =>
              /\ owner'[u] = d /\ fileState'[u][f] = "SYNCHRONIZING"
              /\ <<u, f>> \in askedFiles[d] \/ H[u] = d
        /\ \A u \in Tools, f \in Files : fileState'[u][f] = "SYNCHRONIZING" =>
              /\ u \in manifest /\ owner'[u] # None
              /\ \A g \in Files : fileState'[u][g] # "NOT_SYNCHRONIZED"
              /\ <<u, f>> \in askedFiles'[owner'[u]] \/ Ended(owner'[u])
        /\ \A u \in Tools : H[u] # None /\ cpc[H[u]] \in Serving =>
              \E f \in Files : <<u, f>> \in askedFiles'[H[u]]
    <3>1. \A d \in Clients : askedFiles'[d] = IF cpc[d] \notin Serving THEN {}
             ELSE askedFiles[d] \cup UNION {MissingRequests(u) : u \in Inherits(H, d)}
      BY <2>7, <2>14
    <3> HIDE DEF UploadInv
    <3> QED
      BY <2>1, <2>4, <2>5, <2>6, <3>1, Handover
  <2>10. LeavingInv'
    BY <1>0, <2>1, <2>2 DEF LeavingInv, Serving
  <2>11. AskedInv'
    <3>1. \A d \in Clients : \A u \in askedManifest'[d] : Needs(d, u)'
      BY <2>1 DEF AskedInv, Needs
    <3>2. ASSUME NEW d \in Clients, NEW u \in Tools, NEW f \in Files, <<u, f>> \in askedFiles'[d]
          PROVE  owner'[u] = d /\ fileState'[u][f] = "SYNCHRONIZING" /\ Needs(d, u)'
      <4>1. Needs(d, u)
        BY <2>1, <2>8, <2>9, <3>2 DEF AskedInv
      <4> QED
        BY <2>1, <2>9, <3>2, <4>1 DEF Needs
    <3>3. ASSUME NEW d \in Clients, cpc'[d] = "gotManifest"
          PROVE  Synchronized(ready[d])' \/ Needs(d, ready[d])'
      <4>1. cpc[d] = "gotManifest" /\ ready'[d] = ready[d] /\ ready[d] \in Tools
        BY <1>0, <2>1, <3>3
      <4>2. CASE Synchronized(ready[d])
        BY <2>9, <4>1, <4>2
      <4>3. CASE Needs(d, ready[d])
        BY <2>1, <4>1, <4>3 DEF Needs
      <4> QED
        BY <4>1, <4>2, <4>3 DEF AskedInv
    <3> QED
      BY <3>1, <3>2, <3>3 DEF AskedInv
  <2>12. ComingInv'
    <3> SUFFICES ASSUME NEW u \in Tools, NEW f \in Files, fileState'[u][f] = "SYNCHRONIZING"
                 PROVE  /\ u \in manifest' /\ owner'[u] # None
                        /\ \A g \in Files : fileState'[u][g] # "NOT_SYNCHRONIZED"
                        /\ <<u, f>> \in askedFiles'[owner'[u]] \/ Ended(owner[u])'
      BY DEF ComingInv
    <3>1. \A d \in Clients : Ended(d) => Ended(d)'
      BY <1>0, <2>1 DEF Ended, Serving
    <3>2. owner'[u] \in Clients \cup {None}
      BY <1>0, <2>2
    <3> QED
      BY <2>1, <2>9, <3>1, <3>2
  <2>13. OwnersInv'
    <3> SUFFICES ASSUME NEW u \in Tools, NEW d \in Clients, owner'[u] = d, ~Synchronized(u)'
                 PROVE  ComesFrom(d, u)' \/ Ended(d)'
      BY <1>0, <2>2 DEF OwnersInv
    <3>1. \A f \in Files : <<u, f>> \in askedFiles'[d] => u \in Asked(d)'
      <4> SUFFICES ASSUME NEW f \in Files, <<u, f>> \in askedFiles'[d] PROVE u \in Asked(d)'
        OBVIOUS
      <4>1. <<u, f>>[1] = u
        OBVIOUS
      <4> QED
        BY <4>1 DEF Asked
    <3>2. CASE H[u] # None
      <4>1. owner'[u] = H[u] /\ H[u] = c
        BY <2>6, <2>8, <3>2
      <4>2. u \in Asked(d)'
        BY <2>1, <2>9, <3>1, <3>2, <4>1 DEF Serving
      <4> QED
        BY <4>2 DEF ComesFrom
    <3>3. CASE H[u] = None /\ d = c /\ u = t
      <4>1. Missing(t) = {}
        BY <3>3 DEF H
      <4>2. PICK f \in Files : fileState[t][f] = "SYNCHRONIZING"
        BY <1>0, <2>1, <4>1 DEF Missing, FilesIn, Synchronized, SyncStates
      <4>3. <<t, f>> \in askedFiles'[c] \/ Ended(c)
        <5>1. fileState'[t][f] = "SYNCHRONIZING" /\ owner'[t] = c /\ owner[t] = c
          BY <2>5, <3>3, <4>2
        <5> QED
          BY <2>9, <5>1
      <4> QED
        BY <1>0, <2>1, <3>1, <3>3, <4>3 DEF ComesFrom, Ended, Serving
    <3>4. CASE H[u] = None /\ ~(d = c /\ u = t)
      <4>1. owner[u] = d /\ ~Synchronized(u)
        BY <2>5, <2>9, <3>4
      <4>2. u \in Asked(d) => u \in Asked(d)'
        BY <1>0, <2>1, <2>7 DEF Asked
      <4>3. Ended(d) => Ended(d)'
        BY <1>0, <2>1 DEF Ended, Serving
      <4>4. cpc[d] = "gotManifest" /\ ready[d] = u => cpc'[d] = cpc[d] /\ ready'[d] = u
        BY <1>0, <2>1, <3>4
      <4> QED
        BY <4>1, <4>2, <4>3, <4>4 DEF OwnersInv, ComesFrom
    <3> QED
      BY <3>2, <3>3, <3>4
  <2> QED
    BY <2>10, <2>11, <2>12, <2>13
<1>8. ASSUME NEW t \in Tools, NEW f \in Files, ReceiveFile(c, t, f)
      PROVE  UploadInv'
  <2> USE DEF UploadInv
  <2>1. /\ cpc[c] = "open" /\ <<t, f>> \in askedFiles[c]
        /\ askedFiles' = [askedFiles EXCEPT ![c] = @ \ {<<t, f>>}]
        /\ fileState' = [fileState EXCEPT ![t] = [fileState[t] EXCEPT ![f] = "SYNCHRONIZED"]]
        /\ UNCHANGED <<waiting, manifest, askedManifest>>
    BY <1>8 DEF ReceiveFile
  <2>2. owner[t] = c /\ fileState[t][f] = "SYNCHRONIZING" /\ t \in manifest
    BY <2>1 DEF AskedInv, ComingInv
  <2>3. \/ /\ LastFile(t, f)
           /\ owner' = [owner EXCEPT ![t] = None]
           /\ ready' = [ready EXCEPT ![c] = t]
           /\ cpc' = [cpc EXCEPT ![c] = "synchronized"]
        \/ /\ ~LastFile(t, f)
           /\ UNCHANGED <<owner, ready, cpc>>
    BY <1>8 DEF ReceiveFile
  <2>4. /\ fileState'[t][f] = "SYNCHRONIZED"
        /\ \A u \in Tools, g \in Files : <<u, g>> # <<t, f>> => fileState'[u][g] = fileState[u][g]
    BY <1>0, <2>1
  <2>5. \A u \in Tools : /\ u # t => (Synchronized(u)' <=> Synchronized(u))
                         /\ Synchronized(u) => Synchronized(u)'
    BY <2>1, <2>4 DEF Synchronized
  <2>6. ASSUME NEW d \in Clients, NEW u \in Tools, NEW g \in Files
        PROVE  <<u, g>> \in askedFiles'[d] <=> (<<u, g>> \in askedFiles[d] /\ <<u, g>> # <<t, f>>)
    <3>1. CASE d = c
      BY <1>0, <2>1, <3>1
    <3>2. CASE d # c
      BY <1>0, <2>1, <2>2, <3>2 DEF AskedInv
    <3> QED
      BY <3>1, <3>2
  <2>7. LastFile(t, f) => \A g \in Files : fileState'[t][g] = "SYNCHRONIZED"
    BY <2>4 DEF LastFile
  <2>8. /\ \A d \in Clients : cpc'[d] \in Serving <=> cpc[d] \in Serving
        /\ \A d \in Clients : cpc[d] \notin Serving => cpc'[d] = cpc[d]
        /\ \A d \in Clients : cpc'[d] = "gotManifest" <=> cpc[d] = "gotManifest"
        /\ \A d \in Clients : cpc[d] = "gotManifest" => ready'[d] = ready[d]
    BY <1>0, <2>1, <2>3 DEF Serving
  <2>9. \A d \in Clients : Ended(d) => Ended(d)'
    BY <2>8 DEF Ended
  <2>10. LeavingInv'
    BY <1>0, <2>1, <2>8 DEF LeavingInv
  <2>11. AskedInv'
    <3>1. \A d \in Clients : \A u \in askedManifest'[d] : Needs(d, u)'
      BY <2>1 DEF AskedInv, Needs
    <3>2. ASSUME NEW d \in Clients, NEW u \in Tools, NEW g \in Files, <<u, g>> \in askedFiles'[d]
          PROVE  owner'[u] = d /\ fileState'[u][g] = "SYNCHRONIZING" /\ Needs(d, u)'
      <4>1. <<u, g>> \in askedFiles[d] /\ <<u, g>> # <<t, f>>
        BY <2>6, <3>2
      <4>2. owner[u] = d /\ fileState[u][g] = "SYNCHRONIZING" /\ Needs(d, u)
        BY <4>1 DEF AskedInv
      <4>3. fileState'[u][g] = "SYNCHRONIZING" /\ Needs(d, u)'
        BY <2>1, <2>4, <4>1, <4>2 DEF Needs
      <4>4. owner'[u] = owner[u]
        BY <1>0, <2>3, <2>7, <4>3
      <4> QED
        BY <4>2, <4>3, <4>4
    <3>3. ASSUME NEW d \in Clients, cpc'[d] = "gotManifest"
          PROVE  Synchronized(ready[d])' \/ Needs(d, ready[d])'
      <4>1. cpc[d] = "gotManifest" /\ ready'[d] = ready[d] /\ ready[d] \in Tools
        BY <1>0, <2>8, <3>3
      <4>2. CASE Synchronized(ready[d])
        BY <2>5, <4>1, <4>2
      <4>3. CASE Needs(d, ready[d])
        BY <2>1, <4>1, <4>3 DEF Needs
      <4> QED
        BY <4>1, <4>2, <4>3 DEF AskedInv
    <3> QED
      BY <3>1, <3>2, <3>3 DEF AskedInv
  <2>12. ComingInv'
    <3> SUFFICES ASSUME NEW u \in Tools, NEW g \in Files, fileState'[u][g] = "SYNCHRONIZING"
                 PROVE  /\ u \in manifest' /\ owner'[u] # None
                        /\ \A h \in Files : fileState'[u][h] # "NOT_SYNCHRONIZED"
                        /\ <<u, g>> \in askedFiles'[owner'[u]] \/ Ended(owner[u])'
      BY DEF ComingInv
    <3>1. <<u, g>> # <<t, f>>
      BY <2>4
    <3>2. fileState[u][g] = "SYNCHRONIZING"
      BY <2>4, <3>1
    <3>3. /\ u \in manifest /\ owner[u] \in Clients
          /\ \A h \in Files : fileState[u][h] # "NOT_SYNCHRONIZED"
          /\ <<u, g>> \in askedFiles[owner[u]] \/ Ended(owner[u])
      BY <1>0, <3>2 DEF ComingInv
    <3>4. owner'[u] = owner[u]
      BY <1>0, <2>3, <2>7
    <3>5. \A h \in Files : fileState'[u][h] # "NOT_SYNCHRONIZED"
      BY <2>4, <3>3
    <3> QED
      BY <2>1, <2>6, <2>9, <3>1, <3>3, <3>4, <3>5
  <2>13. OwnersInv'
    <3> SUFFICES ASSUME NEW u \in Tools, NEW d \in Clients, owner'[u] = d, ~Synchronized(u)'
                 PROVE  ComesFrom(d, u)' \/ Ended(d)'
      BY <1>0, <2>3 DEF OwnersInv
    <3>1. owner[u] = d
      BY <1>0, <2>3
    <3>2. CASE u = t
      <4>1. d = c
        BY <2>2, <3>1, <3>2
      <4>2. ~LastFile(t, f)
        BY <2>1, <2>2, <2>7, <3>2 DEF Synchronized
      <4>3. PICK g \in Files : g # f /\ fileState[t][g] # "SYNCHRONIZED"
        BY <4>2 DEF LastFile
      <4>4. fileState[t][g] = "SYNCHRONIZING"
        <5>1. fileState[t][g] \in SyncStates /\ fileState[t][g] # "NOT_SYNCHRONIZED"
          <6>1. fileState[t][g] # "NOT_SYNCHRONIZED"
            BY <2>2 DEF ComingInv
          <6> QED
            BY <1>0, <6>1
        <5> QED
          BY <4>3, <5>1 DEF SyncStates
      <4>5. <<t, g>> \in askedFiles[c] \/ Ended(c)
        BY <2>1, <2>2, <4>4 DEF ComingInv
      <4>6. <<t, g>> \in askedFiles'[c] \/ Ended(c)'
        BY <2>6, <2>9, <4>3, <4>5
      <4>7. <<t, g>>[1] = t
        OBVIOUS
      <4> QED
        BY <3>2, <4>1, <4>6, <4>7 DEF Asked, ComesFrom
    <3>3. CASE u # t
      <4>1. ~Synchronized(u)
        BY <2>5, <3>3
      <4>2. \A r \in askedFiles[d] : r[1] = u => r \in askedFiles'[d]
        BY <1>0, <2>1, <3>3
      <4>3. u \in Asked(d) => u \in Asked(d)'
        BY <2>1, <4>2 DEF Asked
      <4> QED
        BY <2>8, <2>9, <3>1, <4>1, <4>3 DEF OwnersInv, ComesFrom
    <3> QED
      BY <3>2, <3>3
  <2> QED
    BY <2>10, <2>11, <2>12, <2>13
<1>9. CASE CheckWaitingJobs(c)
  <2> USE DEF UploadInv
  <2> PICK t \in Tools : t = ready[c]
    BY <1>0, <1>9 DEF CheckWaitingJobs, Finished
  <2>1. /\ cpc[c] \in {"synchronized", "gotManifest"} /\ Synchronized(t)
        /\ cpc' = [cpc EXCEPT ![c] = "open"] /\ ready' = [ready EXCEPT ![c] = None]
        /\ waiting' = [d \in Clients |-> waiting[d] \ WaitingFor(d, t)]
        /\ UNCHANGED <<toolVars, askVars>>
    BY <1>9 DEF CheckWaitingJobs, Finished, ToolInv
  <2>2. \A u : Synchronized(u)' <=> Synchronized(u)
    BY <2>1 DEF Synchronized
  <2>3. \A d \in Clients : \A u : u # t /\ Needs(d, u) => Needs(d, u)'
    BY <2>1 DEF Needs, WaitingFor
  <2>4. \A d \in Clients : Ended(d) => Ended(d)'
    BY <1>0, <2>1 DEF Ended, Serving
  <2>5. LeavingInv'
    BY <1>0, <2>1 DEF LeavingInv, Serving
  <2>6. AskedInv'
    <3>1. ASSUME NEW d \in Clients, NEW u \in askedManifest[d]
          PROVE  Needs(d, u)'
      <4>1. u \notin manifest /\ Needs(d, u)
        BY <3>1 DEF ToolInv, AskedInv
      <4> QED
        BY <2>1, <2>3, <4>1 DEF Synchronized
    <3>2. ASSUME NEW d \in Clients, NEW u \in Tools, NEW f \in Files, <<u, f>> \in askedFiles[d]
          PROVE  owner[u] = d /\ fileState[u][f] = "SYNCHRONIZING" /\ Needs(d, u)'
      <4>1. owner[u] = d /\ fileState[u][f] = "SYNCHRONIZING" /\ Needs(d, u)
        BY <3>2 DEF AskedInv
      <4> QED
        BY <2>1, <2>3, <4>1 DEF Synchronized
    <3>3. ASSUME NEW d \in Clients, cpc'[d] = "gotManifest"
          PROVE  Synchronized(ready[d])' \/ Needs(d, ready[d])'
      <4>1. cpc[d] = "gotManifest" /\ ready'[d] = ready[d]
        BY <1>0, <2>1, <3>3
      <4>2. CASE Synchronized(ready[d])
        BY <2>1, <4>1, <4>2 DEF Synchronized
      <4>3. CASE Needs(d, ready[d]) /\ ready[d] # t
        <5>1. PICK j \in waiting[d] : ToolOf[j] = ready[d]
          BY <4>3 DEF Needs
        <5>2. j \in waiting'[d]
          BY <2>1, <4>3, <5>1 DEF WaitingFor
        <5> QED
          BY <4>1, <5>1, <5>2 DEF Needs
      <4> QED
        BY <2>1, <4>1, <4>2, <4>3 DEF AskedInv
    <3> QED
      BY <2>1, <3>1, <3>2, <3>3 DEF AskedInv
  <2>7. ComingInv'
    BY <1>0, <2>1, <2>4 DEF ComingInv
  <2>8. OwnersInv'
    <3> SUFFICES ASSUME NEW u \in Tools, NEW d \in Clients, owner[u] = d, ~Synchronized(u)
                 PROVE  ComesFrom(d, u)' \/ Ended(d)'
      BY <1>0, <2>1, <2>2 DEF OwnersInv
    <3>1. u # t
      BY <2>1
    <3> QED
      BY <1>0, <2>1, <3>1 DEF OwnersInv, ComesFrom, Ended, Asked, Serving
  <2> QED
    BY <2>5, <2>6, <2>7, <2>8
<1>10. CASE Drop(c)
  <2> USE DEF UploadInv
  <2>1. /\ cpc[c] = "open"
        /\ cpc' = [cpc EXCEPT ![c] = "cancelPending"]
        /\ askedManifest' = [askedManifest EXCEPT ![c] = {}]
        /\ askedFiles' = [askedFiles EXCEPT ![c] = {}]
        /\ UNCHANGED <<toolVars, waiting, ready>>
    BY <1>10 DEF Drop
  <2>2. \A d \in Clients : d # c => cpc'[d] = cpc[d]
    BY <1>0, <2>1
  <2>7. cpc'[c] \notin Serving
    BY <1>0, <2>1 DEF Serving
  <2>3. LeavingInv'
    BY <1>0, <2>1, <2>2, <2>7 DEF LeavingInv
  <2>4. AskedInv'
    BY <1>0, <2>1 DEF AskedInv, Synchronized, Needs
  <2>5. ComingInv'
    BY <1>0, <2>1, <2>2, <2>7 DEF ComingInv, Ended
  <2>6. OwnersInv'
    BY <1>0, <2>1, <2>2, <2>7 DEF OwnersInv, ComesFrom, Ended, Synchronized, Asked
  <2> QED
    BY <2>3, <2>4, <2>5, <2>6
<1>11. CASE CancelJobs(c)
  <2> USE DEF UploadInv
  <2>1. UNCHANGED <<toolVars, askVars, ready, waiting>>
    BY <1>11 DEF CancelJobs
  <2>2. PICK pc \in LeavingPCs \ {"erase"} : cpc' = [cpc EXCEPT ![c] = pc]
    BY <1>11 DEF CancelJobs, LeavingPCs
  <2>3. cpc[c] \in LeavingPCs \ {"erase"}
    BY <1>11 DEF CancelJobs, LeavingPCs
  <2>5. \A d \in Clients : cpc[d] # cpc'[d] => /\ cpc[d] \in LeavingPCs \ {"erase"}
                                               /\ cpc'[d] \in LeavingPCs \ {"erase"}
    BY <1>0, <2>2, <2>3
  <2>6. LeavingInv'
    BY <2>1, <2>5 DEF LeavingInv, LeavingPCs, Serving
  <2>7. AskedInv'
    BY <2>1, <2>5 DEF AskedInv, Synchronized, Needs, LeavingPCs
  <2>8. ComingInv'
    BY <1>0, <2>1, <2>5 DEF ComingInv, Ended, LeavingPCs, Serving
  <2>9. OwnersInv'
    BY <1>0, <2>1, <2>5 DEF OwnersInv, ComesFrom, Ended, Synchronized, Asked, Serving, LeavingPCs
  <2> QED
    BY <2>6, <2>7, <2>8, <2>9
<1>12. CASE CancelTools(c)
  <2> USE DEF UploadInv
  <2>1. /\ cpc[c] = "cancelTools" /\ cpc' = [cpc EXCEPT ![c] = "erase"]
        /\ owner' = [t \in Tools |-> IF t \in ComingFrom(c) THEN None ELSE owner[t]]
        /\ fileState' = [t \in Tools |-> IF t \in ComingFrom(c)
                            THEN CancelSynchronizingFiles(t) ELSE fileState[t]]
        /\ UNCHANGED <<ready, waiting, manifest, askVars>>
    BY <1>12 DEF CancelTools
  <2>2. ASSUME NEW t \in Tools, t \in ComingFrom(c)
        PROVE  /\ owner'[t] = None /\ ~Synchronized(t) /\ ~Synchronized(t)'
               /\ \A f \in Files : fileState'[t][f] # "SYNCHRONIZING"
    <3>1. owner'[t] = None /\ fileState'[t] = CancelSynchronizingFiles(t)
      BY <2>1, <2>2
    <3>2. ~Synchronized(t)
      BY <2>2 DEF ComingFrom
    <3>3. \A f \in Files : fileState'[t][f] = "SYNCHRONIZED" => fileState[t][f] = "SYNCHRONIZED"
      BY <3>1 DEF CancelSynchronizingFiles
    <3>4. \A f \in Files : fileState'[t][f] # "SYNCHRONIZING"
      BY <3>1 DEF CancelSynchronizingFiles, FilesIn, ComingInv
    <3> QED
      BY <2>1, <3>1, <3>2, <3>3, <3>4 DEF Synchronized
  <2>3. ASSUME NEW t \in Tools, t \notin ComingFrom(c)
        PROVE  /\ owner'[t] = owner[t] /\ fileState'[t] = fileState[t]
               /\ Synchronized(t)' <=> Synchronized(t)
               /\ ~Synchronized(t) => owner[t] # c
    BY <2>1, <2>3 DEF Synchronized, ComingFrom
  <2>4. /\ askedFiles[c] = {} /\ askedManifest[c] = {}
        /\ \A t \in ComingFrom(c) : t \in Tools /\ owner[t] = c
    BY <2>1 DEF LeavingInv, Serving, ComingFrom
  <2>5. LeavingInv'
    BY <1>0, <2>1 DEF LeavingInv, Serving
  <2>6. AskedInv'
    <3>1. \A d \in Clients : \A u \in askedManifest'[d] : Needs(d, u)'
      BY <2>1 DEF AskedInv, Needs
    <3>2. ASSUME NEW d \in Clients, NEW u \in Tools, NEW f \in Files, <<u, f>> \in askedFiles[d]
          PROVE  owner'[u] = d /\ fileState'[u][f] = "SYNCHRONIZING" /\ Needs(d, u)'
      <4>1. owner[u] = d /\ fileState[u][f] = "SYNCHRONIZING" /\ Needs(d, u) /\ d # c
        BY <2>4, <3>2 DEF AskedInv
      <4> QED
        BY <2>1, <2>3, <2>4, <4>1 DEF Needs
    <3>3. ASSUME NEW d \in Clients, cpc'[d] = "gotManifest"
          PROVE  Synchronized(ready[d])' \/ Needs(d, ready[d])'
      <4>1. cpc[d] = "gotManifest" /\ ready'[d] = ready[d] /\ ready[d] \in Tools
        BY <1>0, <2>1, <3>3
      <4>2. CASE Synchronized(ready[d])
        BY <2>2, <2>3, <4>1, <4>2
      <4>3. CASE Needs(d, ready[d])
        BY <2>1, <4>1, <4>3 DEF Needs
      <4> QED
        BY <4>1, <4>2, <4>3 DEF AskedInv
    <3> QED
      BY <2>1, <3>1, <3>2, <3>3 DEF AskedInv
  <2>7. ComingInv'
    <3> SUFFICES ASSUME NEW u \in Tools, NEW f \in Files, fileState'[u][f] = "SYNCHRONIZING"
                 PROVE  /\ u \in manifest' /\ owner'[u] # None
                        /\ \A g \in Files : fileState'[u][g] # "NOT_SYNCHRONIZED"
                        /\ <<u, f>> \in askedFiles'[owner'[u]] \/ Ended(owner[u])'
      BY DEF ComingInv
    <3>1. u \notin ComingFrom(c)
      BY <2>2
    <3>2. /\ owner'[u] = owner[u] /\ fileState'[u] = fileState[u]
          /\ ~Synchronized(u) => owner[u] # c
      BY <2>3, <3>1
    <3>3. ~Synchronized(u)
      BY <3>2 DEF Synchronized
    <3>4. /\ u \in manifest /\ owner[u] \in Clients
          /\ \A g \in Files : fileState[u][g] # "NOT_SYNCHRONIZED"
          /\ <<u, f>> \in askedFiles[owner[u]] \/ Ended(owner[u])
      BY <1>0, <3>2, <3>3 DEF ComingInv
    <3>5. \A d \in Clients : Ended(d) => Ended(d)'
      BY <1>0, <2>1 DEF Ended, Serving
    <3> QED
      BY <1>0, <2>1, <3>2, <3>4, <3>5
  <2>8. OwnersInv'
    <3> SUFFICES ASSUME NEW u \in Tools, NEW d \in Clients, owner'[u] = d, ~Synchronized(u)'
                 PROVE  ComesFrom(d, u)' \/ Ended(d)'
      <4>1. \A u \in Tools : owner'[u] \in Clients \cup {None}
        BY <1>0, <2>1
      <4> QED
        BY <4>1 DEF OwnersInv
    <3>1. u \notin ComingFrom(c)
      BY <2>2
    <3>2. owner[u] = d /\ d # c /\ ~Synchronized(u)
      BY <2>3, <3>1
    <3> QED
      BY <1>0, <2>1, <3>2 DEF OwnersInv, ComesFrom, Ended, Asked, Serving
  <2> QED
    BY <2>5, <2>6, <2>7, <2>8
<1>13. CASE EraseClient(c)
  <2> USE DEF UploadInv
  <2>1. PICK H \in [Tools -> Clients \cup {None}] :
        /\ \A t \in Tools : IF Heirs(c, t) = {} THEN H[t] = None ELSE H[t] \in Heirs(c, t)
        /\ owner' = [t \in Tools |-> IF H[t] = None THEN owner[t] ELSE H[t]]
        /\ fileState' = [t \in Tools |-> IF H[t] = None THEN fileState[t]
                                         ELSE MarkAsSynchronizing(t)]
        /\ askedFiles' = [d \in Clients |-> IF cpc[d] \notin Serving THEN {}
              ELSE askedFiles[d] \cup UNION {MissingRequests(t) : t \in Inherits(H, d)}]
    BY <1>13 DEF EraseClient
  <2>2. /\ cpc[c] = "erase" /\ cpc' = [cpc EXCEPT ![c] = "closed"]
        /\ waiting' = [waiting EXCEPT ![c] = {}]
        /\ UNCHANGED <<ready, manifest, askedManifest>>
    BY <1>13 DEF EraseClient
  <2>3. askedFiles[c] = {} /\ askedManifest[c] = {}
    BY <2>2 DEF LeavingInv, Serving
  <2>4. cpc[c] \notin Serving /\ \A d \in Clients : Ended(d) => Ended(d)'
    BY <1>0, <2>2 DEF Ended, Serving
  <2>5. ASSUME NEW t \in Tools, H[t] # None
        PROVE  Missing(t) # {} /\ H[t] \in Clients \ {c} /\ Needs(H[t], t)
    <3>1. H[t] \in Heirs(c, t)
      BY <2>1, <2>5
    <3>2. Missing(t) # {} /\ H[t] \in Listed \ {c} /\ WaitingFor(H[t], t) # {}
      BY <3>1 DEF Heirs
    <3> QED
      BY <3>2 DEF WaitingFor, Needs, Listed
  <2>6. \A d \in Clients : askedFiles'[d] = IF cpc[d] \notin Serving THEN {}
             ELSE askedFiles[d] \cup UNION {MissingRequests(t) : t \in Inherits(H, d)}
    BY <2>1
  <2>7. /\ \A u \in Tools : Synchronized(u)' <=> Synchronized(u)
        /\ \A d \in Clients, u \in Tools, f \in Files : <<u, f>> \in askedFiles'[d] =>
              /\ owner'[u] = d /\ fileState'[u][f] = "SYNCHRONIZING"
              /\ <<u, f>> \in askedFiles[d] \/ H[u] = d
        /\ \A u \in Tools, f \in Files : fileState'[u][f] = "SYNCHRONIZING" =>
              /\ u \in manifest /\ owner'[u] # None
              /\ \A g \in Files : fileState'[u][g] # "NOT_SYNCHRONIZED"
              /\ <<u, f>> \in askedFiles'[owner'[u]] \/ Ended(owner'[u])
        /\ \A u \in Tools : H[u] # None /\ cpc[H[u]] \in Serving =>
              \E f \in Files : <<u, f>> \in askedFiles'[H[u]]
    <3>1. \A t \in Tools : H[t] = None => fileState'[t] = fileState[t] /\ owner'[t] = owner[t]
      BY <2>1
    <3>2. \A t \in Tools : H[t] # None => /\ fileState'[t] = MarkAsSynchronizing(t)
                                          /\ owner'[t] = H[t] /\ Missing(t) # {}
      BY <2>1, <2>5
    <3>3. manifest' = manifest
      BY <2>2
    <3> HIDE DEF UploadInv
    <3> QED
      BY <2>6, <3>1, <3>2, <3>3, Handover
  <2>8. \A d \in Clients \ {c} : \A u : Needs(d, u) => Needs(d, u)'
    BY <1>0, <2>2 DEF Needs
  <2>9. LeavingInv'
    <3>1. \A d \in Clients : cpc'[d] \notin Serving => cpc[d] \notin Serving
      BY <1>0, <2>2, <2>4
    <3> QED
      BY <2>2, <2>6, <3>1 DEF LeavingInv
  <2>10. AskedInv'
    <3>1. \A d \in Clients : \A u \in askedManifest'[d] : Needs(d, u)'
      BY <2>2, <2>3, <2>8 DEF AskedInv
    <3>2. ASSUME NEW d \in Clients, NEW u \in Tools, NEW f \in Files, <<u, f>> \in askedFiles'[d]
          PROVE  owner'[u] = d /\ fileState'[u][f] = "SYNCHRONIZING" /\ Needs(d, u)'
      <4>1. d # c
        BY <2>4, <2>6, <3>2
      <4>2. owner'[u] = d /\ fileState'[u][f] = "SYNCHRONIZING"
            /\ (<<u, f>> \in askedFiles[d] \/ H[u] = d)
        BY <2>7, <3>2
      <4>3. Needs(d, u)
        BY <2>5, <4>2 DEF AskedInv
      <4> QED
        BY <2>8, <4>1, <4>2, <4>3
    <3>3. ASSUME NEW d \in Clients, cpc'[d] = "gotManifest"
          PROVE  Synchronized(ready[d])' \/ Needs(d, ready[d])'
      <4>1. cpc[d] = "gotManifest" /\ ready'[d] = ready[d] /\ ready[d] \in Tools /\ d # c
        BY <1>0, <2>2, <3>3
      <4>2. CASE Synchronized(ready[d])
        BY <2>7, <4>1, <4>2
      <4>3. CASE Needs(d, ready[d])
        BY <1>0, <2>2, <4>1, <4>3 DEF Needs
      <4> QED
        BY <4>1, <4>2, <4>3 DEF AskedInv
    <3> QED
      BY <3>1, <3>2, <3>3 DEF AskedInv
  <2>11. ComingInv'
    <3> SUFFICES ASSUME NEW u \in Tools, NEW f \in Files, fileState'[u][f] = "SYNCHRONIZING"
                 PROVE  /\ u \in manifest' /\ owner'[u] # None
                        /\ \A g \in Files : fileState'[u][g] # "NOT_SYNCHRONIZED"
                        /\ <<u, f>> \in askedFiles'[owner'[u]] \/ Ended(owner[u])'
      BY DEF ComingInv
    <3>1. owner'[u] \in Clients \cup {None}
      BY <1>0, <2>1
    <3> QED
      BY <2>2, <2>4, <2>7, <3>1
  <2>12. OwnersInv'
    <3> SUFFICES ASSUME NEW u \in Tools, NEW d \in Clients, owner'[u] = d, ~Synchronized(u)'
                 PROVE  ComesFrom(d, u)' \/ Ended(d)'
      <4>1. \A u \in Tools : owner'[u] \in Clients \cup {None}
        BY <1>0, <2>1
      <4> QED
        BY <4>1 DEF OwnersInv
    <3>1. CASE H[u] # None
      <4>1. d = H[u]
        BY <2>1, <3>1
      <4>2. CASE cpc[d] \in Serving
        <5>1. PICK f \in Files : <<u, f>> \in askedFiles'[d]
          BY <2>7, <3>1, <4>1, <4>2
        <5>2. <<u, f>>[1] = u
          OBVIOUS
        <5> QED
          BY <5>1, <5>2 DEF Asked, ComesFrom
      <4>3. CASE cpc[d] \notin Serving
        BY <2>4, <4>3 DEF Ended
      <4> QED
        BY <4>2, <4>3
    <3>2. CASE H[u] = None
      <4>1. owner[u] = d /\ ~Synchronized(u)
        BY <2>1, <2>7, <3>2
      <4>2. cpc[d] \in Serving => (u \in Asked(d) => u \in Asked(d)')
        BY <2>2, <2>6 DEF Asked
      <4>3. cpc[d] = "gotManifest" => cpc'[d] = cpc[d]
        BY <1>0, <2>2
      <4> QED
        BY <2>2, <2>4, <4>1, <4>2, <4>3 DEF OwnersInv, ComesFrom, Ended
    <3> QED
      BY <3>1, <3>2
  <2> QED
    BY <2>9, <2>10, <2>11, <2>12
<1> QED
  BY <1>2, <1>3, <1>4, <1>5, <1>6, <1>7, <1>8, <1>9, <1>10, <1>11, <1>12, <1>13 DEF ConnStep

LEMMA UploadStep ==
  ASSUME TypeInv, ToolInv, UploadInv, OwnersConnected, [Next]_vars
  PROVE  UploadInv'
<1>1. ASSUME NEW c \in Clients, ConnStep(c)
      PROVE  UploadInv'
  BY <1>1, UploadConn
<1>2. ASSUME UNCHANGED <<cpc, ready, waiting, toolVars, askVars>>
      PROVE  UploadInv'
  BY <1>2 DEF UploadInv, LeavingInv, AskedInv, ComingInv, OwnersInv, ComesFrom, Ended, Needs, Asked,
              Synchronized, toolVars, askVars
<1>3. ASSUME NEW w \in WorkerThreads, BuildStep(w)
      PROVE  UploadInv'
  BY <1>2, <1>3 DEF BuildStep, clientVars, handVars
<1>4. CASE ServerStep
  BY <1>2, <1>4 DEF ServerStep, TakeCompletedJob, ReportResult, BeginRequests, EndRequests, RequestJob,
                    clientVars, handVars
<1>5. CASE UNCHANGED vars
  BY <1>2, <1>5 DEF vars, clientVars, handVars
<1> QED
  BY <1>1, <1>3, <1>4, <1>5 DEF Next

LEMMA OwnersInit == Init => OwnersConnected
BY ServerAssumption, QueueAssumption DEF Init, OwnersConnected

LEMMA OwnersStep ==
  ASSUME TypeInv, JobInv, OwnersConnected, [Next]_vars
  PROVE  OwnersConnected'
<1> USE DEF queueVars, workerVars, handVars, countVars, toolVars, askVars, mainVars, boundVars
<1>0. /\ owner \in [Tools -> Clients \cup {None}] /\ session \in [Clients -> Nat]
      /\ \A c \in Clients : cpc[c] # "closed" => session[c] > 0
  BY DEF TypeInv, ToolTypes, MainTypes, JobInv, ReceivedInv
<1>1. ASSUME UNCHANGED session,
             \A t \in Tools, c \in Clients : owner'[t] = c => owner[t] = c \/ cpc[c] # "closed"
      PROVE  OwnersConnected'
  BY <1>0, <1>1 DEF OwnersConnected
<1>2. ASSUME UNCHANGED <<owner, session>>
      PROVE  OwnersConnected'
  BY <1>2 DEF OwnersConnected
<1>3. ASSUME NEW c \in Clients, ConnStep(c)
      PROVE  OwnersConnected'
  <2>1. CASE OnConnected(c)
    <3>1. UNCHANGED owner /\ session' = [session EXCEPT ![c] = @ + 1]
      BY <2>1 DEF OnConnected
    <3> QED
      BY <1>0, <3>1 DEF OwnersConnected
  <2>2. CASE \/ ReceiveStatus(c) \/ ReceiveNoJob(c) \/ \E j \in Jobs : ReceiveJob(c, j)
             \/ \E t \in Tools : ReceiveManifest(c, t)
             \/ CheckWaitingJobs(c) \/ Drop(c) \/ CancelJobs(c)
    BY <1>2, <2>2 DEF ReceiveStatus, ReceiveNoJob, ReceiveJob, ReceiveManifest, CheckWaitingJobs,
                      Drop, CancelJobs
  <2>3. CASE ProcessJob(c)
    <3>1. cpc[c] # "closed" /\ UNCHANGED session
      BY <2>3 DEF ProcessJob, AcceptJob
    <3>2. \A t \in Tools : owner'[t] \in {owner[t], c}
      BY <1>0, <2>3 DEF ProcessJob, StartJob, HoldJob, TakeOwnership
    <3> QED
      BY <1>1, <3>1, <3>2
  <2>4. CASE RequestMissingFiles(c)
    <3>1. cpc[c] # "closed" /\ UNCHANGED session
      BY <2>4 DEF RequestMissingFiles
    <3>2. \A t \in Tools : owner'[t] \in {owner[t], c}
      BY <1>0, <2>4 DEF RequestMissingFiles
    <3> QED
      BY <1>1, <3>1, <3>2
  <2>5. ASSUME NEW u \in Tools, NEW f \in Files, ReceiveFile(c, u, f)
        PROVE  OwnersConnected'
    <3>1. UNCHANGED session /\ \A t \in Tools : owner'[t] \in {owner[t], None}
      BY <1>0, <2>5 DEF ReceiveFile
    <3> QED
      BY <1>1, <3>1, QueueAssumption
  <2>6. CASE CancelTools(c)
    <3>1. UNCHANGED session /\ \A t \in Tools : owner'[t] \in {owner[t], None}
      BY <1>0, <2>6 DEF CancelTools
    <3> QED
      BY <1>1, <3>1, QueueAssumption
  <2>7. CASE EraseClient(c)
    <3>1. UNCHANGED session /\ \A t \in Tools : owner'[t] = owner[t] \/ owner'[t] \in Heirs(c, t)
      BY <1>0, <2>7 DEF EraseClient
    <3>2. \A t \in Tools : \A d \in Heirs(c, t) : cpc[d] # "closed"
      BY DEF Heirs, Listed
    <3> QED
      BY <1>1, <3>1, <3>2
  <2> QED
    BY <1>3, <2>1, <2>2, <2>3, <2>4, <2>5, <2>6, <2>7 DEF ConnStep
<1>4. ASSUME NEW w \in WorkerThreads, BuildStep(w)
      PROVE  OwnersConnected'
  BY <1>2, <1>4 DEF BuildStep
<1>5. CASE ServerStep
  BY <1>2, <1>5 DEF ServerStep, TakeCompletedJob, ReportResult, BeginRequests, EndRequests, RequestJob
<1>6. CASE UNCHANGED vars
  BY <1>2, <1>6 DEF vars
<1> QED
  BY <1>3, <1>4, <1>5, <1>6 DEF Next

---------------------------------------------------------------------------
(* Complete tool chains                                                    *)

LEMMA NoticeConn ==
  ASSUME TypeInv, ToolInv, CompleteToolsAreNoticed, NEW c \in Clients, ConnStep(c)
  PROVE  CompleteToolsAreNoticed'
<1> USE DEF Goto, queueVars, workerVars, handVars, countVars, toolVars, askVars, mainVars, boundVars
<1>0. /\ cpc \in [Clients -> ConnPCs] /\ ready \in [Clients -> Tools \cup {None}]
      /\ waiting \in [Clients -> SUBSET Jobs] /\ ToolOf \in [Jobs -> Tools]
      /\ fileState \in [Tools -> [Files -> SyncStates]]
      /\ askedManifest \in [Clients -> SUBSET Tools]
      /\ \A d \in Clients : cpc[d] = "gotJob" => held[d] \in Jobs
      /\ \A d \in Clients : cpc[d] \in {"gotManifest", "synchronized"} => ready[d] \in Tools
  BY ServerAssumption DEF TypeInv, QueueTypeOK, ConnTypes, ToolTypes, StageInv
\* No tool chain becomes complete, no job begins to wait, and c was not to queue jobs.
<1>1. ASSUME \A d \in Clients : d # c => cpc'[d] = cpc[d] /\ ready'[d] = ready[d],
             ~Finished(c), \A t \in Tools : Synchronized(t) <=> Synchronized(t)',
             \A d \in Clients : \A j \in waiting'[d] :
                j \in Jobs /\ (j \in waiting[d] \/ ~Synchronized(ToolOf[j]))
      PROVE  CompleteToolsAreNoticed'
  <2> SUFFICES ASSUME NEW d \in Clients, NEW j \in waiting'[d], Synchronized(ToolOf[j])'
               PROVE  \E e \in Clients : Finished(e)' /\ ready'[e] = ToolOf[j]
    BY DEF CompleteToolsAreNoticed
  <2>1. ToolOf[j] \in Tools /\ Synchronized(ToolOf[j]) /\ j \in waiting[d]
    BY <1>0, <1>1
  <2>2. PICK e \in Clients : Finished(e) /\ ready[e] = ToolOf[j]
    BY <2>1 DEF CompleteToolsAreNoticed
  <2>3. e # c /\ cpc'[e] = cpc[e] /\ ready'[e] = ready[e]
    BY <1>1, <2>2
  <2> QED
    BY <1>1, <2>1, <2>2, <2>3 DEF Finished
\* The tool chain t becomes complete, and c is to queue the jobs that wait for it.
<1>2. ASSUME \A d \in Clients : d # c => cpc'[d] = cpc[d] /\ ready'[d] = ready[d],
             ~Finished(c), NEW t \in Tools,
             \A u \in Tools : u # t => (Synchronized(u) <=> Synchronized(u)'),
             ready'[c] = t, Synchronized(t)' => Finished(c)', UNCHANGED waiting
      PROVE  CompleteToolsAreNoticed'
  <2> SUFFICES ASSUME NEW d \in Clients, NEW j \in waiting[d], Synchronized(ToolOf[j])'
               PROVE  \E e \in Clients : Finished(e)' /\ ready'[e] = ToolOf[j]
    BY <1>2 DEF CompleteToolsAreNoticed
  <2>1. CASE ToolOf[j] = t
    BY <1>2, <2>1
  <2>2. CASE ToolOf[j] # t
    <3>1. ToolOf[j] \in Tools /\ Synchronized(ToolOf[j])
      BY <1>0, <1>2, <2>2
    <3>2. PICK e \in Clients : Finished(e) /\ ready[e] = ToolOf[j]
      BY <3>1 DEF CompleteToolsAreNoticed
    <3>3. e # c /\ cpc'[e] = cpc[e] /\ ready'[e] = ready[e]
      BY <1>2, <3>2
    <3> QED
      BY <3>2, <3>3, <1>2, <2>2 DEF Finished
  <2> QED
    BY <2>1, <2>2
<1>3. ASSUME cpc[c] \notin {"gotManifest", "synchronized"}
      PROVE  ~Finished(c)
  BY <1>3 DEF Finished
<1>4. CASE OnConnected(c)
  BY <1>0, <1>1, <1>3, <1>4 DEF OnConnected, Synchronized
<1>5. CASE ReceiveStatus(c) \/ ReceiveNoJob(c) \/ \E j \in Jobs : ReceiveJob(c, j)
  BY <1>0, <1>1, <1>3, <1>5 DEF ReceiveStatus, ReceiveNoJob, ReceiveJob, Synchronized
<1>6. CASE ProcessJob(c)
  <2> DEFINE j == held[c]
             t == ToolOf[j]
  <2>1. j \in Jobs /\ t \in Tools /\ cpc[c] = "gotJob"
    BY <1>0, <1>6 DEF ProcessJob
  <2>2. /\ cpc' = [cpc EXCEPT ![c] = "open"] /\ UNCHANGED <<ready, manifest>>
        /\ StartJob(c, j, t) \/ HoldJob(c, j, t)
    BY <1>6 DEF ProcessJob, AcceptJob
  <2> HIDE DEF j, t
  <2>3. CASE StartJob(c, j, t)
    BY <1>0, <1>1, <1>3, <2>1, <2>2, <2>3 DEF StartJob, Synchronized
  <2>4. CASE HoldJob(c, j, t)
    <3>1. waiting' = [waiting EXCEPT ![c] = @ \cup {j}] /\ ~Synchronized(t)
      BY <2>4 DEF HoldJob
    <3>2. fileState' = fileState \/ fileState' = [fileState EXCEPT ![t] = MarkAsSynchronizing(t)]
      BY <2>4 DEF HoldJob, TakeOwnership
    <3>3. \A u \in Tools : Synchronized(u) <=> Synchronized(u)'
      BY <1>0, <2>1, <2>2, <3>1, <3>2 DEF Synchronized, MarkAsSynchronizing, Missing, FilesIn
    <3>4. t = ToolOf[j]
      BY DEF t
    <3> QED
      BY <1>0, <1>1, <1>3, <2>1, <2>2, <3>1, <3>3, <3>4
  <2> QED
    BY <2>2, <2>3, <2>4
<1>7. ASSUME NEW t \in Tools, ReceiveManifest(c, t)
      PROVE  CompleteToolsAreNoticed'
  <2>1. /\ cpc[c] = "open" /\ t \notin manifest
        /\ cpc' = [cpc EXCEPT ![c] = "gotManifest"] /\ ready' = [ready EXCEPT ![c] = t]
        /\ manifest' = manifest \cup {t} /\ UNCHANGED waiting
    BY <1>7 DEF ReceiveManifest, ToolInv
  <2>2. \A u \in Tools : u # t => fileState'[u] = fileState[u]
    BY <1>0, <1>7 DEF ReceiveManifest
  <2>3. \A u \in Tools : u # t => (Synchronized(u) <=> Synchronized(u)')
    BY <2>1, <2>2 DEF Synchronized
  <2> QED
    BY <1>0, <1>2, <1>3, <2>1, <2>3 DEF Finished
<1>8. CASE RequestMissingFiles(c)
  <2> DEFINE t == ready[c]
  <2>1. /\ cpc[c] = "gotManifest" /\ t \in Tools /\ ~Synchronized(t)
        /\ cpc' = [cpc EXCEPT ![c] = "open"] /\ ready' = [ready EXCEPT ![c] = None]
        /\ fileState' = [fileState EXCEPT ![t] = MarkAsSynchronizing(t)]
        /\ UNCHANGED <<waiting, manifest>>
    BY <1>0, <1>8 DEF RequestMissingFiles
  <2>2. ~Finished(c)
    BY <2>1 DEF Finished
  <2> HIDE DEF t
  <2>3. \A u \in Tools : Synchronized(u) <=> Synchronized(u)'
    BY <1>0, <2>1 DEF Synchronized, MarkAsSynchronizing, Missing, FilesIn
  <2> QED
    BY <1>0, <1>1, <2>1, <2>2, <2>3
<1>9. ASSUME NEW t \in Tools, NEW f \in Files, ReceiveFile(c, t, f)
      PROVE  CompleteToolsAreNoticed'
  <2>1. /\ cpc[c] = "open" /\ UNCHANGED <<waiting, manifest>>
        /\ fileState' = [fileState EXCEPT ![t] = [fileState[t] EXCEPT ![f] = "SYNCHRONIZED"]]
    BY <1>9 DEF ReceiveFile
  <2>2. \A u \in Tools : u # t => (Synchronized(u) <=> Synchronized(u)')
    BY <1>0, <2>1 DEF Synchronized
  <2>3. CASE LastFile(t, f)
    <3>1. cpc' = [cpc EXCEPT ![c] = "synchronized"] /\ ready' = [ready EXCEPT ![c] = t]
      BY <1>9, <2>3 DEF ReceiveFile
    <3> QED
      BY <1>0, <1>2, <1>3, <2>1, <2>2, <3>1 DEF Finished
  <2>4. CASE ~LastFile(t, f)
    <3>1. UNCHANGED <<cpc, ready>>
      BY <1>9, <2>4 DEF ReceiveFile
    <3>2. ~Synchronized(t) /\ ~Synchronized(t)'
      BY <1>0, <2>1, <2>4 DEF Synchronized, LastFile
    <3> QED
      BY <1>0, <1>1, <1>3, <2>1, <2>2, <3>1, <3>2
  <2> QED
    BY <2>3, <2>4
<1>10. CASE CheckWaitingJobs(c)
  <2> DEFINE t == ready[c]
  <2>1. /\ Finished(c) /\ UNCHANGED <<manifest, fileState>>
        /\ cpc' = [cpc EXCEPT ![c] = "open"] /\ ready' = [ready EXCEPT ![c] = None]
        /\ waiting' = [d \in Clients |-> waiting[d] \ WaitingFor(d, t)]
    BY <1>10 DEF CheckWaitingJobs
  <2> SUFFICES ASSUME NEW d \in Clients, NEW j \in waiting'[d], Synchronized(ToolOf[j])'
               PROVE  \E e \in Clients : Finished(e)' /\ ready'[e] = ToolOf[j]
    BY DEF CompleteToolsAreNoticed
  <2>2. j \in waiting[d] /\ ToolOf[j] # t /\ Synchronized(ToolOf[j])
    BY <2>1 DEF WaitingFor, Synchronized
  <2>3. PICK e \in Clients : Finished(e) /\ ready[e] = ToolOf[j]
    BY <2>2 DEF CompleteToolsAreNoticed
  <2>4. cpc'[e] = cpc[e] /\ ready'[e] = ready[e]
    BY <1>0, <2>1, <2>2, <2>3
  <2> QED
    BY <2>1, <2>3, <2>4 DEF Finished, Synchronized
<1>11. CASE Drop(c) \/ CancelJobs(c)
  <2>1. /\ cpc[c] \notin {"gotManifest", "synchronized"}
        /\ UNCHANGED <<ready, waiting, manifest, fileState>>
        /\ \A d \in Clients : d # c => cpc'[d] = cpc[d]
    BY <1>0, <1>11 DEF Drop, CancelJobs
  <2> QED
    BY <1>0, <1>1, <1>3, <2>1 DEF Synchronized
<1>12. CASE CancelTools(c)
  <2>1. /\ cpc[c] = "cancelTools" /\ cpc' = [cpc EXCEPT ![c] = "erase"]
        /\ fileState' = [t \in Tools |-> IF t \in ComingFrom(c)
                            THEN CancelSynchronizingFiles(t) ELSE fileState[t]]
        /\ UNCHANGED <<ready, waiting, manifest>>
    BY <1>12 DEF CancelTools
  <2>2. ASSUME NEW t \in Tools
        PROVE  Synchronized(t) <=> Synchronized(t)'
    <3>1. CASE t \notin ComingFrom(c)
      BY <2>1, <3>1 DEF Synchronized
    <3>2. CASE t \in ComingFrom(c)
      <4>1. ~Synchronized(t) /\ fileState'[t] = CancelSynchronizingFiles(t)
        BY <2>1, <3>2 DEF ComingFrom
      <4>2. \A f \in Files : fileState'[t][f] = "SYNCHRONIZED" => fileState[t][f] = "SYNCHRONIZED"
        BY <4>1 DEF CancelSynchronizingFiles
      <4> QED
        BY <2>1, <4>1, <4>2 DEF Synchronized
    <3> QED
      BY <3>1, <3>2
  <2> QED
    BY <1>0, <1>1, <1>3, <2>1, <2>2
<1>13. CASE EraseClient(c)
  <2>1. PICK H \in [Tools -> Clients \cup {None}] :
          fileState' = [t \in Tools |-> IF H[t] = None THEN fileState[t] ELSE MarkAsSynchronizing(t)]
    BY <1>13 DEF EraseClient
  <2>2. /\ cpc[c] = "erase" /\ cpc' = [cpc EXCEPT ![c] = "closed"]
        /\ waiting' = [waiting EXCEPT ![c] = {}] /\ UNCHANGED <<ready, manifest>>
    BY <1>13 DEF EraseClient
  <2>3. ASSUME NEW t \in Tools
        PROVE  Synchronized(t) <=> Synchronized(t)'
    <3>1. fileState'[t] = fileState[t] \/ fileState'[t] = MarkAsSynchronizing(t)
      BY <2>1
    <3>2. \A f \in Files : MarkAsSynchronizing(t)[f] =
            IF t \in manifest /\ fileState[t][f] = "NOT_SYNCHRONIZED" THEN "SYNCHRONIZING"
                                                                     ELSE fileState[t][f]
      BY DEF MarkAsSynchronizing, Missing, FilesIn
    <3> QED
      BY <2>2, <3>1, <3>2 DEF Synchronized
  <2> QED
    BY <1>0, <1>1, <1>3, <2>2, <2>3
<1> QED
  BY <1>4, <1>5, <1>6, <1>7, <1>8, <1>9, <1>10, <1>11, <1>12, <1>13 DEF ConnStep

LEMMA NoticeStep ==
  ASSUME TypeInv, ToolInv, CompleteToolsAreNoticed, [Next]_vars
  PROVE  CompleteToolsAreNoticed'
<1>1. ASSUME NEW c \in Clients, ConnStep(c)
      PROVE  CompleteToolsAreNoticed'
  BY <1>1, NoticeConn
<1>2. ASSUME UNCHANGED <<cpc, ready, waiting, toolVars>>
      PROVE  CompleteToolsAreNoticed'
  BY <1>2 DEF CompleteToolsAreNoticed, Finished, Synchronized, toolVars
<1>3. ASSUME NEW w \in WorkerThreads, BuildStep(w)
      PROVE  CompleteToolsAreNoticed'
  BY <1>2, <1>3 DEF BuildStep, clientVars, handVars
<1>4. CASE ServerStep
  BY <1>2, <1>4 DEF ServerStep, TakeCompletedJob, ReportResult, BeginRequests, EndRequests, RequestJob,
                    clientVars, handVars
<1>5. CASE UNCHANGED vars
  BY <1>2, <1>5 DEF vars, clientVars, handVars
<1> QED
  BY <1>1, <1>3, <1>4, <1>5 DEF Next

---------------------------------------------------------------------------
(* Theorems                                                                *)

LEMMA Inductive == Spec => [](TypeInv /\ JobInv /\ ToolInv)
<1>1. Init => TypeInv /\ JobInv /\ ToolInv
  BY TypeInit, JobInit, ToolInit
<1>2. TypeInv /\ JobInv /\ ToolInv /\ [Next]_vars => TypeInv' /\ JobInv' /\ ToolInv'
  BY TypeStep, JobsStep, ToolsStep
<1> QED
  BY <1>1, <1>2, PTL DEF Spec

LEMMA Counted ==
  ASSUME OneSession
  PROVE  Spec => []CountInv
<1>1. Init => CountInv
  BY CountInit
<1>2. TypeInv /\ TypeInv' /\ JobInv /\ CountInv /\ [Next]_vars => CountInv'
  BY CountStep
<1> QED
  BY <1>1, <1>2, Inductive, PTL DEF Spec

LEMMA Uploading == Spec => []UploadInv
<1>1. Init => UploadInv /\ OwnersConnected
  BY UploadInit, OwnersInit
<1>2. /\ TypeInv /\ JobInv /\ ToolInv /\ UploadInv /\ OwnersConnected /\ [Next]_vars
      => UploadInv' /\ OwnersConnected'
  BY UploadStep, OwnersStep
<1> QED
  BY <1>1, <1>2, Inductive, PTL DEF Spec

\* The variables of the server, of its connections and of the queue have their types, and
\* m_NumJobsActive, a counter without sign, does not go below zero (Server.cpp:751).
THEOREM TypeCorrect ==
  ASSUME OneSession
  PROVE  Spec => []TypeOK
<1>1. TypeInv /\ CountInv => TypeOK
  <2> SUFFICES ASSUME TypeInv, CountInv PROVE TypeOK
    OBVIOUS
  <2>1. \A c \in Clients : active[c] \in Int /\ Cardinality(Own(c)) \in Nat
    BY OwnIsFinite DEF TypeInv, QueueTypeOK, ConnTypes
  <2>2. \A c \in Clients : active[c] \in Nat
    BY <2>1 DEF CountInv, CountOf
  <2> QED
    BY <2>2 DEF TypeInv, ConnTypes, ToolTypes, MainTypes, TypeOK
<1> QED
  BY <1>1, Inductive, Counted, PTL

\* Whatever threads of the worker queue, build, cancel, unhook and report jobs, and whoever
\* of the clients leaves meanwhile: a job that exists is in one place, and a deleted one in none.
THEOREM OneHolderEach == Spec => []JobsHaveOneHolder
BY OneHolder, Inductive, PTL

\* A job is queued and built with its whole tool chain, however files of the tool chain came
\* in, were cancelled, and were asked of another client.
THEOREM StartWithTools == Spec => []JobsStartWithTools
<1>1. ToolInv => JobsStartWithTools
  BY DEF ToolInv
<1> QED
  BY <1>1, Inductive, PTL

\* While a client is served, m_NumJobsActive is the number of jobs the worker has of it: each job
\* is counted when it is received and once when it is reported.
THEOREM ActiveExact ==
  ASSUME OneSession
  PROVE  Spec => []ActiveIsExact
<1>1. CountInv => ActiveIsExact
  BY DEF CountInv, CountOf, Own, ActiveIsExact
<1> QED
  BY <1>1, Counted, PTL

\* However requests, answers, jobs and results follow each other, and clients come and leave:
\* the worker has or requests no more jobs than it has slots, one, and one for each client whose
\* MsgJob is being counted.
THEOREM SlotsShared ==
  ASSUME OneSession
  PROVE  Spec => []SlotsNotOverbooked
<1>1. Init => SlotInv
  BY SlotInit
<1>2. TypeInv /\ CountInv => Counts
  BY CountsAreNumbers
<1>3. Counts /\ Counts' /\ TypeInv /\ TypeInv' /\ JobInv /\ SlotInv /\ [Next]_vars => SlotInv'
  BY SlotStep
<1>4. Counts /\ TypeInv /\ SlotInv => SlotsNotOverbooked
  <2> SUFFICES ASSUME Counts, TypeInv, SlotInv PROVE SlotsNotOverbooked
    OBVIOUS
  <2>1. /\ MapThenSumSet(InUse, Listed) <= Cardinality(Units(Loads, Clients))
        /\ MapThenSumSet(InUse, Listed) \in Nat /\ Cardinality(Units(Loads, Clients)) \in Nat
    BY ListedUse, LoadTypes
  <2>2. budget \in Nat /\ Cardinality(Clients) \in Nat
    BY FS_CardinalityType DEF TypeInv, MainTypes
  <2> QED
    BY <2>1, <2>2 DEF SlotInv, SlotsNotOverbooked
<1> QED
  BY <1>1, <1>2, <1>3, <1>4, Inductive, Counted, PTL DEF Spec

\* A client is asked for the manifest or the files of a tool chain only while a job of it waits for
\* them, so its FindManifest finds it, and while the tool chain comes from it.
THEOREM RequestsAnswerable == Spec => []RequestsCanBeAnswered
<1>1. TypeInv /\ ToolInv /\ UploadInv => RequestsCanBeAnswered
  <2> SUFFICES ASSUME TypeInv, ToolInv, UploadInv, NEW c \in Clients, NEW t \in Asked(c)
               PROVE  owner[t] = c /\ WaitingFor(c, t) # {}
    BY DEF RequestsCanBeAnswered
  <2>1. owner[t] = c /\ Needs(c, t)
    <3>1. CASE t \in askedManifest[c]
      BY <3>1 DEF ToolInv, UploadInv, AskedInv
    <3>2. CASE \E r \in askedFiles[c] : r[1] = t
      <4>1. PICK r \in askedFiles[c] : r[1] = t
        BY <3>2
      <4>2. PICK u \in Tools, f \in Files : r = <<u, f>>
        BY <4>1 DEF TypeInv, ToolTypes
      <4>3. u = t
        BY <4>1, <4>2
      <4> QED
        BY <4>1, <4>2, <4>3 DEF UploadInv, AskedInv
    <3> QED
      BY <3>1, <3>2 DEF Asked
  <2> QED
    BY <2>1 DEF Needs, WaitingFor
<1> QED
  BY <1>1, Inductive, Uploading, PTL

\* However many clients leave at once: a connected owner of an unfinished tool chain has been
\* asked for it, so that a job for which MsgJob asks nobody does not wait for a client that was
\* never asked.
THEOREM OwnersAreUploading ==
  ASSUME OneSession
  PROVE  Spec => []OwnersUpload
<1>1. UploadInv => OwnersUpload
  BY DEF UploadInv, OwnersInv, OwnersUpload, Ended
<1> QED
  BY <1>1, Uploading, PTL

\* Whichever connection completes a tool chain, and whoever puts jobs on hold, leaves or inherits
\* tool chains meanwhile: a job does not wait for a complete tool chain unless some connection's
\* thread is about to queue it.
THEOREM CompleteToolsNoticed == Spec => []CompleteToolsAreNoticed
<1>1. Init => CompleteToolsAreNoticed
  BY DEF Init, CompleteToolsAreNoticed
<1>2. TypeInv /\ ToolInv /\ CompleteToolsAreNoticed /\ [Next]_vars => CompleteToolsAreNoticed'
  BY NoticeStep
<1> QED
  BY <1>1, <1>2, Inductive, PTL DEF Spec
=============================================================================
