------------------------------- MODULE Server -------------------------------
(***************************************************************************)
(* fbuildworker: the Server that takes jobs from several clients, the tool *)
(* chains (ToolManifest) that the jobs need and the clients upload, and,   *)
(* extended, the queue that builds the jobs.                               *)
(*                                                                         *)
(* Each connection has a thread, which receives one message after another  *)
(* and, when the connection ended, cleans up after the client.  The thread *)
(* of the Server collects results and asks clients for jobs, and holds     *)
(* m_ClientListMutex while it asks.  A step is one critical section.       *)
(*                                                                         *)
(* The clients are modelled by their answers: a job or none for each job   *)
(* requested, the manifest and the files they are asked for, in any order. *)
(* A connection may be lost whenever its thread reads.  The order in which *)
(* needy clients are asked is abstracted.                                  *)
(***************************************************************************)
EXTENDS JobQueueRemote, FiniteSetsExt

CONSTANTS Tools,       \* tool chains
          ToolOf,      \* job -> the tool chain it needs
          Files,       \* the files of a tool chain
          Slots,       \* WorkerThreadRemote::GetNumCPUsToUse
          Offers,      \* numbers of available jobs a client may announce
          MaxSessions, \* bound: connections made with one ClientState address
          Leavers,     \* clients whose connection may end
          MaxLeaving   \* bound: connections that end at the same time

ASSUME ServerAssumption ==
    /\ ToolOf \in [Jobs -> Tools]
    /\ None \notin Tools
    /\ Files # {}
    /\ Slots \in Nat \ {0}
    /\ Offers \subseteq Nat /\ Leavers \subseteq Clients
    /\ {MaxSessions, MaxLeaving} \subseteq Nat

VARIABLES
    cpc,           \* connection thread: where it is
    held,          \* connection thread: the job it just received
    ready,         \* connection thread: the tool chain it is handling
    cancelled,     \* connection thread: cancelledManifests of OnDisconnected
    requested,     \* client -> ClientState::m_NumJobsRequested
    active,        \* client -> ClientState::m_NumJobsActive
    offered,       \* client -> ClientState::m_NumJobsAvailable
    waiting,       \* client -> ClientState::m_WaitingJobs
    manifest,      \* tool chains whose manifest was received
    fileState,     \* tool chain -> file -> ToolManifestFile::SyncState
    owner,         \* tool chain -> its user data: the connection it comes from
    askedManifest, \* client -> tool chains it has to send the manifest of
    askedFiles,    \* client -> files it has to send
    spc,           \* server thread: where it is
    sjob, sres,    \* server thread: the completed job it reports, its result
    budget,        \* server thread: availableJobs of FindNeedyClients
    session,       \* client -> connections made with this ClientState so far
    sender         \* history: job -> session of the client that sent it, or 0

handVars  == <<held, ready, cancelled>>
countVars == <<requested, active, offered>>
toolVars  == <<manifest, fileState, owner>>
askVars   == <<askedManifest, askedFiles>>
mainVars  == <<spc, sjob, sres, budget>>
boundVars == <<session, sender>>
clientVars == <<cpc, handVars, countVars, waiting>>
vars == <<queueVars, clientVars, toolVars, askVars, mainVars, boundVars>>

Serving == {"open", "gotJob", "gotManifest", "synchronized"}
LeavingPCs == {"cancelPending", "cancelCompleted", "unhook",
               "cancelTools", "erase"}
ConnPCs == {"closed"} \cup Serving \cup LeavingPCs
SyncStates == {"NOT_SYNCHRONIZED", "SYNCHRONIZING", "SYNCHRONIZED"}

TypeOK ==
    /\ QueueTypeOK
    /\ cpc \in [Clients -> ConnPCs]
    /\ held \in [Clients -> Jobs \cup {None}]
    /\ ready \in [Clients -> Tools \cup {None}]
    /\ cancelled \in [Clients -> SUBSET Tools]
    /\ requested \in [Clients -> Nat] /\ active \in [Clients -> Nat]
    /\ offered \in [Clients -> Nat]
    /\ waiting \in [Clients -> SUBSET Jobs]
    /\ manifest \subseteq Tools
    /\ fileState \in [Tools -> [Files -> SyncStates]]
    /\ owner \in [Tools -> Clients \cup {None}]
    /\ askedManifest \in [Clients -> SUBSET Tools]
    /\ askedFiles \in [Clients -> SUBSET (Tools \X Files)]
    /\ spc \in {"finalize", "report", "request"}
    /\ sjob \in Jobs \cup {None} /\ sres \in Results
    /\ budget \in Nat
    /\ session \in [Clients -> Nat] /\ sender \in [Jobs -> Nat]

Init ==
    /\ QueueInit
    /\ cpc = [c \in Clients |-> "closed"]
    /\ held = [c \in Clients |-> None] /\ ready = [c \in Clients |-> None]
    /\ cancelled = [c \in Clients |-> {}]
    /\ requested = [c \in Clients |-> 0] /\ active = [c \in Clients |-> 0]
    /\ offered = [c \in Clients |-> 0]
    /\ waiting = [c \in Clients |-> {}]
    /\ manifest = {} /\ owner = [t \in Tools |-> None]
    /\ fileState = [t \in Tools |-> [f \in Files |-> "NOT_SYNCHRONIZED"]]
    /\ askedManifest = [c \in Clients |-> {}]
    /\ askedFiles = [c \in Clients |-> {}]
    /\ spc = "finalize" /\ sjob = None /\ sres = "eOk" /\ budget = 0
    /\ session = [c \in Clients |-> 0] /\ sender = [j \in Jobs |-> 0]

----------------------------------------------------------------------------
(* Tool chains                                                              *)

\* A manifest has at least one file: one without files was not received.
Synchronized(t) ==
    t \in manifest /\ \A f \in Files : fileState[t][f] = "SYNCHRONIZED"

FilesIn(t, state) ==
    IF t \in manifest THEN {f \in Files : fileState[t][f] = state} ELSE {}

\* The files RequestMissingFiles asks for, and how they are marked.
Missing(t) == FilesIn(t, "NOT_SYNCHRONIZED")
MissingRequests(t) == {t} \X Missing(t)
MarkAsSynchronizing(t) ==
    [f \in Files |-> IF f \in Missing(t) THEN "SYNCHRONIZING" ELSE fileState[t][f]]

\* The connections in m_ClientList, and the mutex that guards it: the thread
\* of the server holds it from its first request for a job to its last.
Listed == {c \in Clients : cpc[c] # "closed"}
Leaving == {c \in Clients : cpc[c] \in LeavingPCs}
ClientListFree == spc # "request"

WaitingFor(c, t) == {j \in waiting[c] : ToolOf[j] = t}

----------------------------------------------------------------------------
(* A connection thread receives                                             *)

Goto(c, pc) == cpc' = [cpc EXCEPT ![c] = pc]

\* A ClientState is made when a connection is, at the address of one that was
\* deleted, perhaps.
OnConnected(c) ==
    /\ cpc[c] = "closed" /\ session[c] < MaxSessions
    /\ ClientListFree
    /\ Goto(c, "open")
    /\ requested' = [requested EXCEPT ![c] = 0]
    /\ active' = [active EXCEPT ![c] = 0]
    /\ offered' = [offered EXCEPT ![c] = 0]
    /\ session' = [session EXCEPT ![c] = @ + 1]
    /\ UNCHANGED <<queueVars, handVars, waiting, toolVars, askVars, mainVars,
                   sender>>

\* MsgConnection and MsgStatus: the client says how many jobs it could offer.
ReceiveStatus(c) ==
    /\ cpc[c] = "open"
    /\ \E n \in Offers : offered' = [offered EXCEPT ![c] = n]
    /\ UNCHANGED <<queueVars, cpc, handVars, requested, active, waiting,
                   toolVars, askVars, mainVars, boundVars>>

ReceiveNoJob(c) ==
    /\ cpc[c] = "open" /\ requested[c] > 0
    /\ requested' = [requested EXCEPT ![c] = @ - 1]
    /\ UNCHANGED <<queueVars, cpc, handVars, active, offered, waiting,
                   toolVars, askVars, mainVars, boundVars>>

\* MsgJob, up to the lock: the two counters are changed one after the other,
\* and the thread of the server may read them in between.
ReceiveJob(c, j) ==
    /\ cpc[c] = "open" /\ requested[c] > 0
    /\ sender[j] = 0
    /\ requested' = [requested EXCEPT ![c] = @ - 1]
    /\ held' = [held EXCEPT ![c] = j]
    /\ sender' = [sender EXCEPT ![j] = session[c]]
    /\ Goto(c, "gotJob")
    /\ UNCHANGED <<queueVars, ready, cancelled, active, offered, waiting,
                   toolVars, askVars, mainVars, session>>

\* Mutant: the job is not counted.
AcceptUncounted(c, j, t) ==
    /\ live' = live \cup {j}
    /\ userData' = [userData EXCEPT ![j] = c]
    /\ held' = [held EXCEPT ![c] = None]
    /\ Goto(c, "open")
    /\ UNCHANGED <<inFlight, done, workerVars, ready, cancelled, countVars,
                   manifest, mainVars, boundVars>>

\* The rest of MsgJob: the job is queued if its tool chain is there, and waits
\* otherwise.  If nobody is uploading the tool chain this client will.
AcceptJob(c, j, t) ==
    /\ active' = [active EXCEPT ![c] = @ + 1]
    /\ live' = live \cup {j}
    /\ userData' = [userData EXCEPT ![j] = c]
    /\ held' = [held EXCEPT ![c] = None]
    /\ Goto(c, "open")
    /\ UNCHANGED <<inFlight, done, workerVars, ready, cancelled, requested,
                   offered, manifest, mainVars, boundVars>>

TakeOwnership(c, t) ==
    /\ owner' = [owner EXCEPT ![t] = c]
    /\ fileState' = [fileState EXCEPT ![t] = MarkAsSynchronizing(t)]
    /\ askedFiles' = [askedFiles EXCEPT ![c] = @ \cup MissingRequests(t)]
    /\ askedManifest' = [askedManifest EXCEPT
                             ![c] = IF t \in manifest THEN @ ELSE @ \cup {t}]

StartJob(c, j, t) ==
    /\ Synchronized(t)
    /\ QueueJobs({j})
    /\ UNCHANGED <<waiting, owner, fileState, askVars>>

HoldJob(c, j, t) ==
    /\ ~Synchronized(t)
    /\ waiting' = [waiting EXCEPT ![c] = @ \cup {j}]
    /\ IF owner[t] = None THEN TakeOwnership(c, t)
                          ELSE UNCHANGED <<owner, fileState, askVars>>
    /\ UNCHANGED pending

ProcessJob(c) ==
    /\ cpc[c] = "gotJob"
    /\ LET j == held[c]  t == ToolOf[j] IN
        /\ AcceptJob(c, j, t)
        /\ StartJob(c, j, t) \/ HoldJob(c, j, t)

\* MsgManifest: some of the files may be there from an earlier session of the
\* worker.
ReceiveManifest(c, t) ==
    /\ cpc[c] = "open" /\ t \in askedManifest[c]
    /\ askedManifest' = [askedManifest EXCEPT ![c] = @ \ {t}]
    /\ manifest' = manifest \cup {t}
    /\ \E present \in SUBSET Files :
        fileState' = [fileState EXCEPT ![t] =
            [f \in Files |-> IF f \in present THEN "SYNCHRONIZED"
                                              ELSE "NOT_SYNCHRONIZED"]]
    /\ ready' = [ready EXCEPT ![c] = t]
    /\ Goto(c, "gotManifest")
    /\ UNCHANGED <<queueVars, held, cancelled, countVars, waiting, owner,
                   askedFiles, mainVars, boundVars>>

RequestMissingFiles(c) ==
    /\ cpc[c] = "gotManifest"
    /\ LET t == ready[c] IN
        /\ ~Synchronized(t)
        /\ fileState' = [fileState EXCEPT ![t] = MarkAsSynchronizing(t)]
        /\ owner' = [owner EXCEPT ![t] = IF Missing(t) = {} THEN @ ELSE c]
        /\ askedFiles' = [askedFiles EXCEPT ![c] = @ \cup MissingRequests(t)]
    /\ ready' = [ready EXCEPT ![c] = None]
    /\ Goto(c, "open")
    /\ UNCHANGED <<queueVars, held, cancelled, countVars, waiting, manifest,
                   askedManifest, mainVars, boundVars>>

\* Mutant: the first file ends the synchronization.
AnyFile(t, f) == TRUE

LastFile(t, f) == \A g \in Files \ {f} : fileState[t][g] = "SYNCHRONIZED"

\* MsgFile, stored: the last file ends the synchronization.
ReceiveFile(c, t, f) ==
    /\ cpc[c] = "open" /\ <<t, f>> \in askedFiles[c]
    /\ askedFiles' = [askedFiles EXCEPT ![c] = @ \ {<<t, f>>}]
    /\ fileState' = [fileState EXCEPT ![t][f] = "SYNCHRONIZED"]
    /\ IF LastFile(t, f)
         THEN /\ owner' = [owner EXCEPT ![t] = None]
              /\ ready' = [ready EXCEPT ![c] = t]
              /\ Goto(c, "synchronized")
         ELSE UNCHANGED <<owner, ready, cpc>>
    /\ UNCHANGED <<queueVars, held, cancelled, countVars, waiting, manifest,
                   askedManifest, mainVars, boundVars>>

\* The connection's thread found the tool chain to be complete.
Finished(c) ==
    \/ cpc[c] = "synchronized"
    \/ cpc[c] = "gotManifest" /\ Synchronized(ready[c])

\* Mutant: the jobs of other clients are left waiting.
CheckOwnJobs(c) ==
    /\ Finished(c)
    /\ ClientListFree
    /\ QueueJobs(WaitingFor(c, ready[c]))
    /\ waiting' = [waiting EXCEPT ![c] = @ \ WaitingFor(c, ready[c])]
    /\ ready' = [ready EXCEPT ![c] = None]
    /\ Goto(c, "open")
    /\ UNCHANGED <<live, userData, inFlight, done, workerVars, held, cancelled,
                   countVars, toolVars, askVars, mainVars, boundVars>>

\* The jobs of all clients that waited for the tool chain are queued.
CheckWaitingJobs(c) ==
    /\ Finished(c)
    /\ ClientListFree
    /\ QueueJobs(UNION {WaitingFor(d, ready[c]) : d \in Listed})
    /\ waiting' = [d \in Clients |-> waiting[d] \ WaitingFor(d, ready[c])]
    /\ ready' = [ready EXCEPT ![c] = None]
    /\ Goto(c, "open")
    /\ UNCHANGED <<live, userData, inFlight, done, workerVars, held, cancelled,
                   countVars, toolVars, askVars, mainVars, boundVars>>

----------------------------------------------------------------------------
(* A connection ends                                                        *)

\* The socket is closed, or a message could not be handled (the file cannot be
\* stored, say), and what the client was asked for will not come.
Drop(c) ==
    /\ cpc[c] = "open" /\ c \in Leavers /\ Cardinality(Leaving) < MaxLeaving
    /\ askedManifest' = [askedManifest EXCEPT ![c] = {}]
    /\ askedFiles' = [askedFiles EXCEPT ![c] = {}]
    /\ Goto(c, "cancelPending")
    /\ UNCHANGED <<queueVars, handVars, countVars, waiting, toolVars, mainVars,
                   boundVars>>

\* OnDisconnected first cancels the client's jobs, one list after the other.
CancelJobs(c) ==
    /\ \/ cpc[c] = "cancelPending" /\ CancelPending(c) /\ Goto(c, "cancelCompleted")
       \/ cpc[c] = "cancelCompleted" /\ CancelCompleted(c) /\ Goto(c, "unhook")
       \/ cpc[c] = "unhook" /\ UnhookInFlight(c) /\ Goto(c, "cancelTools")
    /\ UNCHANGED <<handVars, countVars, waiting, toolVars, askVars, mainVars,
                   boundVars>>

\* Tool chains that were coming from the client are nobody's.
ComingFrom(c) == {t \in Tools : ~Synchronized(t) /\ owner[t] = c}

\* Mutant: the files stay marked as being synchronized.
KeepSynchronizingFiles(t) == fileState[t]

CancelSynchronizingFiles(t) ==
    [f \in Files |-> IF f \in FilesIn(t, "SYNCHRONIZING")
                     THEN "NOT_SYNCHRONIZED" ELSE fileState[t][f]]

CancelTools(c) ==
    /\ cpc[c] = "cancelTools"
    /\ cancelled' = [cancelled EXCEPT ![c] = ComingFrom(c)]
    /\ owner' = [t \in Tools |-> IF t \in ComingFrom(c) THEN None ELSE owner[t]]
    /\ fileState' = [t \in Tools |-> IF t \in ComingFrom(c)
                        THEN CancelSynchronizingFiles(t) ELSE fileState[t]]
    /\ Goto(c, "erase")
    /\ UNCHANGED <<queueVars, held, ready, countVars, waiting, manifest, askVars,
                   mainVars, boundVars>>

\* Mutant: any client is asked, whether it waits for the tool chain or not.
AnyHeirs(c, t) ==
    IF t \in cancelled[c] /\ Missing(t) # {} THEN Listed \ {c} ELSE {}

\* Mutant: nobody is asked.
NoHeirs(c, t) == {}

\* The client leaves the list, and the first client found waiting for one of
\* those tool chains is asked for all the files that are missing: in vain, if
\* its own connection has ended.
Heirs(c, t) ==
    IF t \in cancelled[c] /\ Missing(t) # {}
    THEN {d \in Listed \ {c} : WaitingFor(d, t) # {}} ELSE {}

Inherits(heir, d) == {t \in Tools : heir[t] = d}

EraseClient(c) ==
    /\ cpc[c] = "erase" /\ ClientListFree
    /\ \E heir \in [Tools -> Clients \cup {None}] :
        /\ \A t \in Tools : IF Heirs(c, t) = {} THEN heir[t] = None
                                                ELSE heir[t] \in Heirs(c, t)
        /\ owner' = [t \in Tools |-> IF heir[t] = None THEN owner[t] ELSE heir[t]]
        /\ fileState' = [t \in Tools |-> IF heir[t] = None THEN fileState[t]
                                         ELSE MarkAsSynchronizing(t)]
        /\ askedFiles' = [d \in Clients |-> IF cpc[d] \notin Serving THEN {}
              ELSE askedFiles[d] \cup UNION {MissingRequests(t) : t \in Inherits(heir, d)}]
    /\ live' = live \ waiting[c]
    /\ waiting' = [waiting EXCEPT ![c] = {}]
    /\ cancelled' = [cancelled EXCEPT ![c] = {}]
    /\ Goto(c, "closed")
    /\ UNCHANGED <<userData, pending, inFlight, done, workerVars, held, ready,
                   countVars, manifest, askedManifest, mainVars, boundVars>>

ConnStep(c) ==
    \/ OnConnected(c) \/ ReceiveStatus(c) \/ ReceiveNoJob(c)
    \/ \E j \in Jobs : ReceiveJob(c, j)
    \/ ProcessJob(c)
    \/ \E t \in Tools : ReceiveManifest(c, t)
    \/ RequestMissingFiles(c)
    \/ \E t \in Tools, f \in Files : ReceiveFile(c, t, f)
    \/ CheckWaitingJobs(c)
    \/ Drop(c) \/ CancelJobs(c) \/ CancelTools(c) \/ EraseClient(c)

----------------------------------------------------------------------------
(* The thread of the server                                                 *)

\* FinalizeCompletedJobs takes a job and then looks for its client.
TakeCompletedJob ==
    /\ spc = "finalize"
    /\ \E j \in Jobs, r \in Results :
        /\ GetCompletedJob(j, r)
        /\ sjob' = j /\ sres' = r
    /\ spc' = "report"
    /\ UNCHANGED <<live, userData, pending, inFlight, workerVars, clientVars,
                   toolVars, askVars, budget, boundVars>>

ConnectionStillActive == userData[sjob] \in Listed

ReportResult ==
    /\ spc = "report"
    /\ active' = IF ConnectionStillActive
                 THEN [active EXCEPT ![userData[sjob]] = @ - 1] ELSE active
    /\ live' = live \ {sjob}
    /\ sjob' = None /\ spc' = "finalize"
    /\ UNCHANGED <<userData, pending, inFlight, done, workerVars, cpc, handVars,
                   requested, offered, waiting, toolVars, askVars, sres, budget,
                   boundVars>>

\* Mutant: jobs requested before are forgotten.
ActiveOnly(c) == active[c]

\* Jobs requested or being worked on take a slot; one more is requested than
\* there are slots, to have it there in time.
Reserved(c) == requested[c] + active[c]
Unreserved == Slots + 1 - MapThenSumSet(Reserved, Listed)

BeginRequests ==
    /\ spc = "finalize" /\ NoneCompleted
    /\ Unreserved \in 1 .. Slots + 1
    /\ budget' = Unreserved
    /\ spc' = "request"
    /\ UNCHANGED <<queueVars, clientVars, toolVars, askVars, sjob, sres,
                   boundVars>>

RequestJob(c) ==
    /\ spc = "request" /\ budget > 0
    /\ c \in Listed /\ requested[c] < offered[c]
    /\ requested' = [requested EXCEPT ![c] = @ + 1]
    /\ budget' = budget - 1
    /\ UNCHANGED <<queueVars, cpc, handVars, active, offered, waiting, toolVars,
                   askVars, spc, sjob, sres, boundVars>>

\* Nothing is requested of a client whose lock is taken, by ProcessJob.
EndRequests ==
    /\ spc = "request"
    /\ budget > 0 => \A c \in Listed :
                        requested[c] >= offered[c] \/ cpc[c] = "gotJob"
    /\ spc' = "finalize" /\ budget' = 0
    /\ UNCHANGED <<queueVars, clientVars, toolVars, askVars, sjob, sres,
                   boundVars>>

ServerStep ==
    \/ TakeCompletedJob \/ ReportResult
    \/ BeginRequests \/ EndRequests \/ \E c \in Clients : RequestJob(c)

BuildStep(w) ==
    /\ WorkerStep(w)
    /\ UNCHANGED <<clientVars, toolVars, askVars, mainVars, boundVars>>

Next ==
    \/ \E c \in Clients : ConnStep(c)
    \/ \E w \in WorkerThreads : BuildStep(w)
    \/ ServerStep

Spec == Init /\ [][Next]_vars

(***************************************************************************)
(* Fairness.  Every thread runs, and a client answers what it is asked as  *)
(* long as it is connected.  The thread of the server takes                *)
(* m_ClientListMutex again and again, and waits for up to 100 ms in        *)
(* between: whoever else wants the mutex gets it.  Nothing is assumed of   *)
(* connecting, of job offers, of the jobs a client sends, or of the end of *)
(* a connection.                                                           *)
(***************************************************************************)
Fairness ==
    /\ \A w \in WorkerThreads : WF_vars(BuildStep(w))
    /\ WF_vars(ServerStep)
    /\ \A c \in Clients :
        /\ WF_vars(ProcessJob(c)) /\ WF_vars(RequestMissingFiles(c))
        /\ WF_vars(CancelJobs(c)) /\ WF_vars(CancelTools(c))
        /\ WF_vars(\E t \in Tools : ReceiveManifest(c, t))
        /\ WF_vars(\E t \in Tools, f \in Files : ReceiveFile(c, t, f))
        /\ SF_vars(CheckWaitingJobs(c)) /\ SF_vars(EraseClient(c))

FairSpec == Spec /\ Fairness

----------------------------------------------------------------------------
(* Safety                                                                   *)

\* Who has a job: a client's waiting list, the queue, a worker thread, a
\* completed list, or the thread of the server.
Holders(j) ==
    {<<"client", c>> : c \in {d \in Clients : j \in waiting[d]}}
        \cup {<<"worker", w>> : w \in {v \in WorkerThreads : wjob[v] = j}}
        \cup {<<"completed", r>> : r \in {q \in Results : j \in done[q]}}
        \cup {p \in {<<"pending", 1>>} : j \in pending}
        \cup {p \in {<<"server", 1>>} : sjob = j}

\* A Job has no reference count: whatever thread cancels the jobs of a client,
\* finishes a job or reports it, a job that exists has exactly one holder
\* (nothing leaks, nobody else will delete it) and a deleted one has none (it
\* is not used again).
JobsHaveOneHolder ==
    \A j \in Jobs : Cardinality(Holders(j)) = (IF j \in live THEN 1 ELSE 0)

\* A job in one of the lists the worker threads use has its whole tool chain.
JobsStartWithTools ==
    \A j \in pending \cup inFlight : Synchronized(ToolOf[j])

\* m_NumJobsActive, which slots are shared out by, is exactly the number of
\* jobs the worker has of a client, as long as the client is connected.
ActiveIsExact ==
    \A c \in Clients : cpc[c] \in Serving => active[c] = Cardinality(live \cap JobsOf(c))

\* The worker never has or requests more than its slots and one, and one job
\* for each client whose MsgJob it is about to count.
InUse(c) == requested[c] + active[c]

SlotsNotOverbooked ==
    MapThenSumSet(InUse, Listed) <= Slots + 1 + Cardinality(Clients)

\* What is asked of a client, for its FindManifest to find: the client is
\* asked for a tool chain that comes from it, and it has a job here that
\* waits for it.
Asked(c) == askedManifest[c] \cup {r[1] : r \in askedFiles[c]}

RequestsCanBeAnswered ==
    \A c \in Clients : \A t \in Asked(c) :
        owner[t] = c /\ WaitingFor(c, t) # {}

\* MsgJob does nothing but wait when a tool chain has an owner already.  It
\* relies on this: a connected owner of an unfinished tool chain has been asked
\* for it, or is about to be.
ComesFrom(c, t) == t \in Asked(c) \/ (cpc[c] = "gotManifest" /\ ready[c] = t)

OwnersUpload ==
    \A t \in Tools, c \in Clients :
        owner[t] = c /\ cpc[c] \in Serving /\ ~Synchronized(t) => ComesFrom(c, t)

\* MsgJob puts a job on hold while another connection completes its tool chain
\* and queues the jobs that wait: none comes too late for that.  A job waits
\* for a complete tool chain only as long as CheckWaitingJobs is still to come.
CompleteToolsAreNoticed ==
    \A c \in Clients : \A j \in waiting[c] :
        Synchronized(ToolOf[j])
            => \E d \in Clients : Finished(d) /\ ready[d] = ToolOf[j]

----------------------------------------------------------------------------
(* Liveness                                                                 *)

\* A job whose tool chain has begun to come in ends: it is built, and reported
\* or discarded, whoever of the clients leaves meanwhile, as long as the
\* connections end one at a time.
OneLeavesAtATime == [](Cardinality(Leaving) <= 1)

ReadyJobsEnd ==
    OneLeavesAtATime =>
        \A j \in Jobs : (j \in live /\ ToolOf[j] \in manifest) ~> (j \notin live)

----------------------------------------------------------------------------
(* What the code says and does not do                                       *)

\* While no client is leaving, a job waits for a tool chain that is complete or
\* comes from a connected client.
SomebodyUploads ==
    Leaving = {} =>
        \A c \in Clients : \A j \in waiting[c] :
            \/ Synchronized(ToolOf[j])
            \/ \E d \in Listed : owner[ToolOf[j]] = d /\ ComesFrom(d, ToolOf[j])

\* CheckWaitingJobs is called for a tool chain some job waits for (its
\* assertion), because files of a tool chain are requested from one connection
\* only (the assertion of RequestMissingFiles).
SomeJobWaits ==
    \A c \in Clients : Finished(c)
        => \E d \in Listed : WaitingFor(d, ready[c]) # {}

\* The result of a job goes to the client that sent it.
ResultsGoToSender ==
    spc = "report" /\ ConnectionStillActive =>
        sender[sjob] = session[userData[sjob]]
=============================================================================
