------------------------- MODULE ClientConnections -------------------------
(***************************************************************************)
(* The threads of a client's connections to its workers                    *)
(* (FBuildCore/Protocol/Client, Core/Network/TCPConnectionPool).           *)
(*                                                                         *)
(* The client thread creates a ClientToWorkerConnection for a worker and   *)
(* deletes it. Each has a send thread, which connects and then sends what  *)
(* the others queue, and, once connected, the connection's own thread,     *)
(* which receives. A ClientToWorkerConnection is a TCPConnectionPool with  *)
(* one connection at most. What the messages do is in DistributedJobs and  *)
(* Server; here are the lives of threads and objects, the send queue and   *)
(* its wake-ups, and what a worker is told about available jobs.           *)
(***************************************************************************)
EXTENDS Naturals, Sequences, FiniteSets

CONSTANTS
    Workers,                \* ClientWorkerInfo
    Nobody,
    WorkerConnectionLimit,
    MaxAvailable,           \* bound on the number of available jobs
    MaxRequests,            \* bound on the requests of a worker not answered yet
    MaxSignals              \* bound on a semaphore's count: more make no difference

ASSUME ClientAssumption ==
    /\ IsFiniteSet(Workers) /\ Nobody \notin Workers
    /\ WorkerConnectionLimit \in Nat
    /\ MaxAvailable \in Nat /\ MaxRequests \in Nat
    /\ MaxSignals \in Nat /\ MaxSignals >= 2

VARIABLES
    available,      \* JobQueue::GetNumDistributableJobsAvailable
    shouldExit,     \* Client::m_ShouldExit
    \* the client thread
    phase,          \* the function of ThreadFunc it is in
    visit,          \* the connections this function has still to look at
    step,           \* what it does with the one it looks at
    current,        \* this one
    number,         \* local of CommunicateJobAvailability: numJobsAvailable
    expired,        \* local of CommunicateJobAvailability: timerExpired
    \* members of each worker's ClientToWorkerConnection
    alive,          \* it exists
    sendThread,     \* what its send thread does
    counted,        \* local of SendQueueThreadFunc: num
    sending,        \* local of SendQueueMainLoop: sendQueue
    wakeUps,        \* m_SendThreadWakeSemaphore
    sendQuit,       \* m_SendThreadQuit
    complete,       \* m_Complete
    msgStatus,      \* m_MsgStatus
    sendQueue,      \* m_SendQueue
    told,           \* m_NumJobsAvailableSentToClient
    \* members of its TCPConnectionPool
    shuttingDown,   \* m_ShuttingDown
    connected,      \* its ConnectionInfo is in m_Connections
    quitting,       \* ConnectionInfo::m_ThreadQuitNotification
    connThread,     \* what the connection's thread does
    \* the worker at the other end
    linked,         \* the socket is open at both ends
    believed,       \* ClientState::m_NumJobsAvailable
    requests        \* its requests for a job, not answered yet

clientThread == <<phase, visit, step, current, number, expired>>
sender == <<sendThread, counted, sending, complete>>
queue == <<wakeUps, msgStatus, sendQueue, told>>
pool == <<shuttingDown, connected, quitting>>
peer == <<linked, believed, requests>>
vars == <<available, shouldExit, clientThread, alive, sender, queue, sendQuit, pool,
          connThread, peer>>

Numbers == 0 .. MaxAvailable
Empty == MaxAvailable + 1   \* of m_MsgStatus

Message(type, n) == [type |-> type, number |-> n]

Init ==
    /\ available = 0 /\ shouldExit = FALSE
    /\ phase = "communicate" /\ visit = {} /\ step = "visit" /\ current = Nobody
    /\ number = 0 /\ expired = FALSE
    /\ alive = [w \in Workers |-> FALSE]
    /\ sendThread = [w \in Workers |-> "exited"] /\ counted = [w \in Workers |-> 0]
    /\ sending = [w \in Workers |-> <<>>] /\ complete = [w \in Workers |-> FALSE]
    /\ wakeUps = [w \in Workers |-> 0] /\ msgStatus = [w \in Workers |-> Empty]
    /\ sendQueue = [w \in Workers |-> <<>>] /\ told = [w \in Workers |-> 0]
    /\ sendQuit = [w \in Workers |-> FALSE] /\ shuttingDown = [w \in Workers |-> FALSE]
    /\ connected = [w \in Workers |-> FALSE] /\ quitting = [w \in Workers |-> FALSE]
    /\ connThread = [w \in Workers |-> "none"] /\ linked = [w \in Workers |-> FALSE]
    /\ believed = [w \in Workers |-> 0] /\ requests = [w \in Workers |-> 0]

Signal(w) == wakeUps' = [wakeUps EXCEPT ![w] = IF @ < MaxSignals THEN @ + 1 ELSE @]

---------------------------------------------------------------------------
(* The client thread: Client::ThreadFunc                                   *)

Active == {w \in Workers : alive[w]}
NextPhase == CASE phase = "cleanUp" -> "connect"
               [] phase = "connect" -> "communicate"
               [] phase = "communicate" -> "cleanUp"
               [] phase = "shutdown" -> "clear"
               [] phase = "clear" -> "exited"

\* m_ShouldExit is looked at after FindPotentialWorkers, ConnectToWorkers and
\* CommunicateJobAvailability.
EndPhase ==
    /\ step = "visit" /\ visit = {} /\ phase # "exited"
    /\ LET next == IF phase \in {"connect", "communicate"} /\ shouldExit THEN "shutdown"
                   ELSE NextPhase
       IN  /\ phase' = next
           /\ IF next = "communicate"
              THEN /\ number' = available
                   /\ expired' \in BOOLEAN
                   /\ visit' = IF expired' \/ available > 0 THEN Active ELSE {}
              ELSE /\ visit' = IF next = "connect" THEN Workers ELSE Active
                   /\ number' = 0 /\ expired' = FALSE
    /\ UNCHANGED <<available, shouldExit, step, current, alive, sender, queue,
                   sendQuit, pool, connThread, peer>>

Visits(p, w) == phase = p /\ step = "visit" /\ w \in visit

LookAt(w, s) ==
    /\ step' = s /\ current' = w
    /\ UNCHANGED <<phase, visit, number, expired>>
Done(w) ==
    /\ step' = "visit" /\ current' = Nobody /\ visit' = visit \ {w}
    /\ UNCHANGED <<phase, number, expired>>

\* ConnectToWorkers, first loop; and m_ActiveConnections.Clear() at the end
CleanUp(w) ==
    /\ Visits("cleanUp", w)
    /\ IF complete[w] THEN LookAt(w, "quit") ELSE Done(w)
    /\ UNCHANGED <<available, shouldExit, alive, sender, queue, sendQuit, pool, connThread, peer>>

Clear(w) ==
    /\ Visits("clear", w)
    /\ LookAt(w, "quit")
    /\ UNCHANGED <<available, shouldExit, alive, sender, queue, sendQuit, pool, connThread, peer>>

\* ClientToWorkerConnection::~ClientToWorkerConnection
Quit(w) ==
    /\ step = "quit" /\ current = w
    /\ sendQuit' = [sendQuit EXCEPT ![w] = TRUE]
    /\ LookAt(w, "signalQuit")
    /\ UNCHANGED <<available, shouldExit, alive, sender, queue, pool, connThread, peer>>

SignalQuit(w) ==
    /\ step = "signalQuit" /\ current = w
    /\ Signal(w)
    /\ LookAt(w, "join")
    /\ UNCHANGED <<available, shouldExit, alive, sender, msgStatus, sendQueue, told, sendQuit,
                   pool, connThread, peer>>

\* The members of a deleted object are as in a new one.
Join(w) ==
    /\ step = "join" /\ current = w
    /\ sendThread[w] = "exited"
    /\ alive' = [alive EXCEPT ![w] = FALSE]
    /\ complete' = [complete EXCEPT ![w] = FALSE]
    /\ wakeUps' = [wakeUps EXCEPT ![w] = 0]
    /\ msgStatus' = [msgStatus EXCEPT ![w] = Empty]
    /\ sendQueue' = [sendQueue EXCEPT ![w] = <<>>]
    /\ told' = [told EXCEPT ![w] = 0]
    /\ sendQuit' = [sendQuit EXCEPT ![w] = FALSE]
    /\ shuttingDown' = [shuttingDown EXCEPT ![w] = FALSE]
    /\ Done(w)
    /\ UNCHANGED <<available, shouldExit, sendThread, counted, sending, connected, quitting,
                   connThread, peer>>

\* ConnectToWorkers, second loop
Connect(w) ==
    /\ Visits("connect", w)
    /\ ~alive[w]
    /\ Cardinality(Active) < WorkerConnectionLimit
    /\ alive' = [alive EXCEPT ![w] = TRUE]
    /\ sendThread' = [sendThread EXCEPT ![w] = "connect"]
    /\ visit' = visit \ {w}
    /\ UNCHANGED <<available, shouldExit, phase, step, current, number, expired, counted, sending,
                   complete, queue, sendQuit, pool, connThread, peer>>

\* ... leaves a worker alone that is in use, on the deny list or was tried very recently
DoNotConnect(w) ==
    /\ Visits("connect", w)
    /\ Done(w)
    /\ UNCHANGED <<available, shouldExit, alive, sender, queue, sendQuit, pool, connThread, peer>>

\* CommunicateJobAvailability
Communicate(w) ==
    /\ Visits("communicate", w)
    /\ IF (expired /\ told[w] # number) \/ (number > 0 /\ told[w] = 0)
       THEN LookAt(w, "enqueue") ELSE Done(w)
    /\ UNCHANGED <<available, shouldExit, alive, sender, queue, sendQuit, pool, connThread, peer>>

EnqueueSendJobAvailability(w) ==
    /\ step = "enqueue" /\ current = w
    /\ msgStatus' = [msgStatus EXCEPT ![w] = number]
    /\ told' = [told EXCEPT ![w] = number]
    /\ LookAt(w, "signal")
    /\ UNCHANGED <<available, shouldExit, alive, sender, wakeUps, sendQueue, sendQuit, pool,
                   connThread, peer>>

SignalAvailability(w) ==
    /\ step = "signal" /\ current = w
    /\ Signal(w)
    /\ Done(w)
    /\ UNCHANGED <<available, shouldExit, alive, sender, msgStatus, sendQueue, told, sendQuit,
                   pool, connThread, peer>>

\* The cleanup when ThreadFunc ends
ShutDown(w) ==
    /\ Visits("shutdown", w)
    /\ shuttingDown' = [shuttingDown EXCEPT ![w] = TRUE]
    /\ LookAt(w, "disconnect")
    /\ UNCHANGED <<available, shouldExit, alive, sender, queue, sendQuit, connected, quitting,
                   connThread, peer>>

\* The loop of TCPConnectionPool::ShutdownAllConnections, for either thread
Disconnect(w) ==
    /\ connected[w] /\ ~quitting[w]
    /\ quitting' = [quitting EXCEPT ![w] = TRUE]
    /\ UNCHANGED <<shuttingDown, connected>>

ClientDisconnects(w) ==
    /\ step = "disconnect" /\ current = w
    /\ \/ Disconnect(w) /\ UNCHANGED clientThread
       \/ ~connected[w] /\ Done(w) /\ UNCHANGED pool
    /\ UNCHANGED <<available, shouldExit, alive, sender, queue, sendQuit, connThread, peer>>

ClientStep ==
    \/ EndPhase
    \/ \E w \in Workers :
        \/ CleanUp(w) \/ Clear(w) \/ Quit(w) \/ SignalQuit(w) \/ Join(w)
        \/ Connect(w) \/ DoNotConnect(w)
        \/ Communicate(w) \/ EnqueueSendJobAvailability(w) \/ SignalAvailability(w)
        \/ ShutDown(w) \/ ClientDisconnects(w)

---------------------------------------------------------------------------
(* The send thread: SendQueueThreadFunc, SendQueueMainLoop                 *)

\* What the worker at the other end does with a message. Messages on their way are not
\* told from those that have arrived.
Deliver(w, m) ==
    IF ~linked[w] THEN UNCHANGED peer
    ELSE /\ IF m.type \in {"Connection", "Status"}
            THEN believed' = [believed EXCEPT ![w] = m.number] /\ UNCHANGED requests
            ELSE requests' = [requests EXCEPT ![w] = @ - 1] /\ UNCHANGED believed
         /\ UNCHANGED linked

\* TCPConnectionPool::SendInternal
SendSucceeds(w, m) ==
    /\ ~quitting[w] /\ ~shuttingDown[w]
    /\ Deliver(w, m)
    /\ UNCHANGED pool

\* ... is told to give up, or has an error or a timeout
SendFails(w) ==
    /\ \/ (quitting[w] \/ shuttingDown[w]) /\ UNCHANGED pool
       \/ Disconnect(w)
    /\ UNCHANGED peer

SenderAt(w, s) == sendThread[w] = s
SenderGoes(w, s) == sendThread' = [sendThread EXCEPT ![w] = s]

\* TCPConnectionPool::Connect, which does not look at m_ShuttingDown if it succeeds at
\* once, and CreateConnectionThread
ConnectToWorker(w) ==
    /\ SenderAt(w, "connect")
    /\ \/ /\ connected' = [connected EXCEPT ![w] = TRUE]
          /\ connThread' = [connThread EXCEPT ![w] = "receive"]
          /\ linked' = [linked EXCEPT ![w] = TRUE]
          /\ SenderGoes(w, "count")
          /\ UNCHANGED <<shuttingDown, quitting, believed, requests>>
       \/ SenderGoes(w, "ended") /\ UNCHANGED <<pool, connThread, peer>>
    /\ UNCHANGED <<available, shouldExit, clientThread, alive, counted, sending, complete, queue,
                   sendQuit>>

CountJobs(w) ==
    /\ SenderAt(w, "count")
    /\ counted' = [counted EXCEPT ![w] = available]
    /\ SenderGoes(w, "store")
    /\ UNCHANGED <<available, shouldExit, clientThread, alive, sending, complete, queue,
                   sendQuit, pool, connThread, peer>>

StoreCount(w) ==
    /\ SenderAt(w, "store")
    /\ told' = [told EXCEPT ![w] = counted[w]]
    /\ SenderGoes(w, "greet")
    /\ UNCHANGED <<available, shouldExit, clientThread, alive, counted, sending, complete, wakeUps,
                   msgStatus, sendQueue, sendQuit, pool, connThread, peer>>

Greet(w) ==
    /\ SenderAt(w, "greet")
    /\ \/ SendSucceeds(w, Message("Connection", counted[w])) /\ SenderGoes(w, "wait")
       \/ SendFails(w) /\ SenderGoes(w, "ended")
    /\ counted' = [counted EXCEPT ![w] = 0]
    /\ UNCHANGED <<available, shouldExit, clientThread, alive, sending, complete, queue,
                   sendQuit, connThread>>

\* Mutant: it uses up every wake-up, but takes the messages of one.
WakeUpOnce(w) ==
    /\ SenderAt(w, "wait")
    /\ wakeUps[w] > 0
    /\ wakeUps' = [wakeUps EXCEPT ![w] = 0]
    /\ SenderGoes(w, IF sendQuit[w] THEN "ended" ELSE "take")
    /\ UNCHANGED <<available, shouldExit, clientThread, alive, counted, sending, complete,
                   msgStatus, sendQueue, told, sendQuit, pool, connThread, peer>>

WakeUp(w) ==
    /\ SenderAt(w, "wait")
    /\ wakeUps[w] > 0
    /\ wakeUps' = [wakeUps EXCEPT ![w] = @ - 1]
    /\ SenderGoes(w, IF sendQuit[w] THEN "ended" ELSE "take")
    /\ UNCHANGED <<available, shouldExit, clientThread, alive, counted, sending, complete,
                   msgStatus, sendQueue, told, sendQuit, pool, connThread, peer>>

\* Mutant: the queue is copied, not swapped with an empty one.
CopyMessages(w) ==
    /\ SenderAt(w, "take")
    /\ SenderGoes(w, "send")
    /\ IF msgStatus[w] # Empty
       THEN /\ sending' = [sending EXCEPT ![w] = <<Message("Status", msgStatus[w])>>]
            /\ msgStatus' = [msgStatus EXCEPT ![w] = Empty]
       ELSE /\ sending' = [sending EXCEPT ![w] = sendQueue[w]]
            /\ UNCHANGED msgStatus
    /\ UNCHANGED <<available, shouldExit, clientThread, alive, counted, complete, wakeUps, sendQueue,
                   told, sendQuit, pool, connThread, peer>>

\* The status, or the queue
TakeMessages(w) ==
    /\ SenderAt(w, "take")
    /\ SenderGoes(w, "send")
    /\ IF msgStatus[w] # Empty
       THEN /\ sending' = [sending EXCEPT ![w] = <<Message("Status", msgStatus[w])>>]
            /\ msgStatus' = [msgStatus EXCEPT ![w] = Empty]
            /\ UNCHANGED sendQueue
       ELSE /\ sending' = [sending EXCEPT ![w] = sendQueue[w]]
            /\ sendQueue' = [sendQueue EXCEPT ![w] = <<>>]
            /\ UNCHANGED msgStatus
    /\ UNCHANGED <<available, shouldExit, clientThread, alive, counted, complete, wakeUps, told,
                   sendQuit, pool, connThread, peer>>

SendNext(w) ==
    /\ SenderAt(w, "send") /\ sending[w] # <<>>
    /\ SendSucceeds(w, Head(sending[w])) \/ SendFails(w)
    /\ sending' = [sending EXCEPT ![w] = IF sendQuit[w] THEN <<>> ELSE Tail(@)]
    /\ SenderGoes(w, IF sendQuit[w] THEN "ended" ELSE "send")
    /\ UNCHANGED <<available, shouldExit, clientThread, alive, counted, complete, queue,
                   sendQuit, connThread>>

AllSent(w) ==
    /\ SenderAt(w, "send") /\ sending[w] = <<>>
    /\ SenderGoes(w, "wait")
    /\ UNCHANGED <<available, shouldExit, clientThread, alive, counted, sending, complete, queue,
                   sendQuit, pool, connThread, peer>>

\* Mutant: ShutdownAllConnections before m_Complete
CompleteLast(w) ==
    /\ SenderAt(w, "ended") \/ (SenderAt(w, "exited") /\ alive[w] /\ ~complete[w])
    /\ complete' = [complete EXCEPT ![w] = SenderAt(w, "exited")]
    /\ SenderGoes(w, IF SenderAt(w, "exited") THEN "exited" ELSE "shutdown")
    /\ UNCHANGED <<available, shouldExit, clientThread, alive, counted, sending, queue,
                   sendQuit, pool, connThread, peer>>

\* Mutant: no ShutdownAllConnections
CompleteOnly(w) ==
    /\ SenderAt(w, "ended")
    /\ complete' = [complete EXCEPT ![w] = TRUE]
    /\ SenderGoes(w, "exited")
    /\ UNCHANGED <<available, shouldExit, clientThread, alive, counted, sending, queue,
                   sendQuit, pool, connThread, peer>>

\* SendQueueThreadFuncStatic: m_Complete, then ShutdownAllConnections
Complete(w) ==
    /\ SenderAt(w, "ended")
    /\ complete' = [complete EXCEPT ![w] = TRUE]
    /\ SenderGoes(w, "shutdown")
    /\ UNCHANGED <<available, shouldExit, clientThread, alive, counted, sending, queue,
                   sendQuit, pool, connThread, peer>>

SenderShutsDown(w) ==
    /\ SenderAt(w, "shutdown")
    /\ shuttingDown' = [shuttingDown EXCEPT ![w] = TRUE]
    /\ SenderGoes(w, "disconnect")
    /\ UNCHANGED <<available, shouldExit, clientThread, alive, counted, sending, complete, queue,
                   sendQuit, connected, quitting, connThread, peer>>

SenderDisconnects(w) ==
    /\ SenderAt(w, "disconnect")
    /\ \/ Disconnect(w) /\ UNCHANGED sendThread
       \/ ~connected[w] /\ SenderGoes(w, "exited") /\ UNCHANGED pool
    /\ UNCHANGED <<available, shouldExit, clientThread, alive, counted, sending, complete, queue,
                   sendQuit, connThread, peer>>

SenderStep(w) ==
    \/ ConnectToWorker(w) \/ CountJobs(w) \/ StoreCount(w) \/ Greet(w)
    \/ WakeUp(w) \/ TakeMessages(w) \/ SendNext(w) \/ AllSent(w)
    \/ Complete(w) \/ SenderShutsDown(w) \/ SenderDisconnects(w)

---------------------------------------------------------------------------
(* The connection's thread: TCPConnectionPool::ConnectionThreadFunction,   *)
(* ClientToWorkerConnection::OnReceive and OnDisconnected                  *)

ConnAt(w, s) == connThread[w] = s
ConnGoes(w, s) == connThread' = [connThread EXCEPT ![w] = s]

\* Process(MsgRequestJob): no job may be left, or none for this worker (it is on the deny
\* list, or of an older version)
RequestJob(w) ==
    /\ ConnAt(w, "receive")
    /\ linked[w] /\ requests[w] < believed[w] /\ requests[w] < MaxRequests
    /\ requests' = [requests EXCEPT ![w] = @ + 1]
    /\ \/ available > 0 /\ available' = available - 1 /\ ConnGoes(w, "track")
       \/ ConnGoes(w, "refuse") /\ UNCHANGED available
    /\ UNCHANGED <<shouldExit, clientThread, alive, sender, queue, sendQuit, pool, linked, believed>>

TrackJob(w) ==
    /\ ConnAt(w, "track")
    /\ told' = [told EXCEPT ![w] = 0]
    /\ ConnGoes(w, "grant")
    /\ UNCHANGED <<available, shouldExit, clientThread, alive, sender, wakeUps, msgStatus,
                   sendQueue, sendQuit, pool, peer>>

EnqueueSend(w) ==
    /\ ConnAt(w, "grant") \/ ConnAt(w, "refuse")
    /\ sendQueue' = [sendQueue EXCEPT ![w] = Append(@, Message(connThread[w], 0))]
    /\ ConnGoes(w, "signal")
    /\ UNCHANGED <<available, shouldExit, clientThread, alive, sender, wakeUps, msgStatus, told,
                   sendQuit, pool, peer>>

SignalReply(w) ==
    /\ ConnAt(w, "signal")
    /\ Signal(w)
    /\ ConnGoes(w, "receive")
    /\ UNCHANGED <<available, shouldExit, clientThread, alive, sender, msgStatus, sendQueue, told,
                   sendQuit, pool, peer>>

\* The end of the loop: it was told to, the socket was closed, or the pool is being shut
\* down while a part of a message is still missing. A thread at "receive" may also be inside
\* Process(MsgJobResult), where it waits for the local side of a race to be cancelled
\* (JobQueue.cpp:598): it comes here when that wait is over, so nothing says that it does.
Leave(w) ==
    /\ ConnAt(w, "receive")
    /\ quitting[w] \/ shuttingDown[w] \/ ~linked[w]
    /\ ConnGoes(w, "disconnected")
    /\ UNCHANGED <<available, shouldExit, clientThread, alive, sender, queue, sendQuit, pool, peer>>

\* Mutant: the send thread is not woken.
OnDisconnectedQuietly(w) ==
    /\ ConnAt(w, "disconnected")
    /\ sendQuit' = [sendQuit EXCEPT ![w] = TRUE]
    /\ ConnGoes(w, "waitForSender")
    /\ UNCHANGED <<available, shouldExit, clientThread, alive, sender, queue, pool, peer>>

OnDisconnected(w) ==
    /\ ConnAt(w, "disconnected")
    /\ sendQuit' = [sendQuit EXCEPT ![w] = TRUE]
    /\ ConnGoes(w, "signalQuit")
    /\ UNCHANGED <<available, shouldExit, clientThread, alive, sender, queue, pool, peer>>

SignalSender(w) ==
    /\ ConnAt(w, "signalQuit")
    /\ Signal(w)
    /\ ConnGoes(w, "waitForSender")
    /\ UNCHANGED <<available, shouldExit, clientThread, alive, sender, msgStatus, sendQueue, told,
                   sendQuit, pool, peer>>

\* Mutant: OnDisconnected does not wait.
NeedNotWait(w) == TRUE

\* m_Complete is seen: the socket is closed and the ConnectionInfo deleted
SenderDone(w) == complete[w]
HangUp(w) ==
    /\ linked' = [linked EXCEPT ![w] = FALSE]
    /\ believed' = [believed EXCEPT ![w] = 0]
    /\ requests' = [requests EXCEPT ![w] = 0]
Close(w) ==
    /\ ConnAt(w, "waitForSender") /\ SenderDone(w)
    /\ connected' = [connected EXCEPT ![w] = FALSE]
    /\ quitting' = [quitting EXCEPT ![w] = FALSE]
    /\ HangUp(w)
    /\ ConnGoes(w, "none")
    /\ UNCHANGED <<available, shouldExit, clientThread, alive, sender, queue, sendQuit, shuttingDown>>

ConnStep(w) ==
    \/ TrackJob(w) \/ EnqueueSend(w) \/ SignalReply(w)
    \/ Leave(w) \/ OnDisconnected(w) \/ SignalSender(w) \/ Close(w)

---------------------------------------------------------------------------
(* The rest of the system                                                  *)

\* Other threads queue, take and return jobs
JobsChange ==
    /\ available' \in Numbers \ {available}
    /\ UNCHANGED <<shouldExit, clientThread, alive, sender, queue, sendQuit, pool, connThread, peer>>

\* Client::~Client
ClientDeleted ==
    /\ ~shouldExit
    /\ shouldExit' = TRUE
    /\ UNCHANGED <<available, clientThread, alive, sender, queue, sendQuit, pool, connThread, peer>>

LinkLost(w) ==
    /\ linked[w]
    /\ HangUp(w)
    /\ UNCHANGED <<available, shouldExit, clientThread, alive, sender, queue, sendQuit, pool,
                   connThread>>

\* FBuild goes on without its client
Exited == phase = "exited" /\ shouldExit /\ UNCHANGED vars

Next ==
    \/ Exited \/ ClientStep \/ JobsChange \/ ClientDeleted
    \/ \E w \in Workers : SenderStep(w) \/ RequestJob(w) \/ ConnStep(w) \/ LinkLost(w)

Spec == Init /\ [][Next]_vars

\* Threads run, except for a connection's thread in its receive loop: it may wait there for
\* threads that are not part of this module
FairSpec ==
    /\ Spec
    /\ WF_vars(ClientStep)
    /\ \A w \in Workers :
        WF_vars(SenderStep(w)) /\ WF_vars(~ConnAt(w, "receive") /\ ConnStep(w))

---------------------------------------------------------------------------
(* Properties                                                              *)

MessageTypes == {"Connection", "Status", "grant", "refuse"}
Messages == [type : MessageTypes, number : Numbers]

\* Every variable has the values its counterpart in the code can have.
TypeOK ==
    /\ available \in Numbers /\ shouldExit \in BOOLEAN
    /\ phase \in {"cleanUp", "connect", "communicate", "shutdown", "clear", "exited"}
    /\ visit \subseteq Workers /\ current \in Workers \cup {Nobody}
    /\ step \in {"visit", "quit", "signalQuit", "join", "enqueue", "signal", "disconnect"}
    /\ number \in Numbers /\ expired \in BOOLEAN
    /\ alive \in [Workers -> BOOLEAN]
    /\ sendThread \in [Workers -> {"connect", "count", "store", "greet", "wait", "take", "send",
                                   "ended", "shutdown", "disconnect", "exited"}]
    /\ counted \in [Workers -> Numbers] /\ told \in [Workers -> Numbers]
    /\ sending \in [Workers -> Seq(Messages)] /\ sendQueue \in [Workers -> Seq(Messages)]
    /\ complete \in [Workers -> BOOLEAN] /\ sendQuit \in [Workers -> BOOLEAN]
    /\ wakeUps \in [Workers -> 0 .. MaxSignals]
    /\ msgStatus \in [Workers -> Numbers \cup {Empty}]
    /\ shuttingDown \in [Workers -> BOOLEAN]
    /\ connected \in [Workers -> BOOLEAN] /\ quitting \in [Workers -> BOOLEAN]
    /\ connThread \in [Workers -> {"none", "receive", "track", "grant", "refuse", "signal",
                                   "disconnected", "signalQuit", "waitForSender"}]
    /\ linked \in [Workers -> BOOLEAN]
    /\ believed \in [Workers -> Numbers] /\ requests \in [Workers -> 0 .. MaxRequests]

\* The send thread only uses a ConnectionInfo that exists, a ClientToWorkerConnection is
\* only deleted when neither of its threads runs and its pool has no connection, and
\* the client thread looks at none that is deleted.
NoUseAfterFree ==
    /\ current # Nobody => alive[current]
    /\ \A w \in Workers :
        /\ sendThread[w] \in {"count", "store", "greet", "wait", "take", "send"} => connected[w]
        /\ connThread[w] # "none" => connected[w]
        /\ sendThread[w] # "exited" \/ connected[w] => alive[w]

\* "ShutdownAllConnections not called": ~TCPConnectionPool asserts that it was, as no
\* callback may come any more.
ShutDownBeforeDeleted ==
    \A w \in Workers : alive[w] /\ sendThread[w] = "exited" => shuttingDown[w] /\ ~connected[w]

\* What was queued, and that the send thread must quit, has a wake-up that is not used
\* up yet or about to be given: its wait has no timeout.
One(condition) == IF condition THEN 1 ELSE 0
WakeUpsSuffice ==
    \A w \in Workers :
        LET coming == wakeUps[w] + One(ConnAt(w, "signal")) + One(step = "signal" /\ current = w)
        IN  /\ SenderAt(w, "wait") \/ SenderAt(w, "take") \/ SenderAt(w, "send") =>
                One(msgStatus[w] # Empty) + One(sendQueue[w] # <<>>) <= coming + One(SenderAt(w, "take"))
            /\ sendQuit[w] /\ SenderAt(w, "wait") =>
                coming + One(ConnAt(w, "signalQuit")) + One(step = "signalQuit" /\ current = w) > 0

\* No connection's thread waits for ever for the local side of a race: each that should leave
\* its receive loop comes to it. ~Client takes this for granted, and it is not always so: with
\* races allowed the main thread, which would end the race, may be waiting in ~Client
\* (WaitForCancelEnds of DistributedJobs).
RaceWaitsEnd == \A w \in Workers : WF_vars(Leave(w))

\* The client can be deleted if all waits for a race end: its thread ends, whatever else
\* happens to its connections.
ClientExits == RaceWaitsEnd => (shouldExit ~> phase = "exited")

\* A connection that is lost is cleaned up, so that the worker can be connected again, if
\* the client thread is not kept waiting for another connection whose race does not end.
LostConnectionsEnd ==
    RaceWaitsEnd => \A w \in Workers : connThread[w] = "disconnected" ~> ~alive[w]

\* Once the number of available jobs settles, every message leaves the queue (or its
\* connection ends).
Settled == <>[][available' = available]_available
MessagesLeave ==
    Settled => \A w \in Workers : []<>(sendQueue[w] = <<>> \/ ~alive[w])

\* "Ensure workers are updated with the state of available work" (Client.cpp:259): a connected
\* worker does not believe for ever that there are no jobs when there are.
Served(w) == linked[w] /\ SenderAt(w, "wait") /\ ~quitting[w] /\ ~shouldExit
WorkersAreTold ==
    Settled => \A w \in Workers : ~<>[](Served(w) /\ available > 0 /\ believed[w] = 0)
=============================================================================
