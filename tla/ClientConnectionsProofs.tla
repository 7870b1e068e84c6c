----------------------- MODULE ClientConnectionsProofs -----------------------
(***************************************************************************)
(* The threads of a client's connections never use what is deleted, and    *)
(* every message that waits for the send thread has a wake-up, for any     *)
(* number of workers and jobs.                                             *)
(***************************************************************************)
EXTENDS ClientConnections, SequenceTheorems, TLAPS

---------------------------------------------------------------------------
(* The inductive invariant                                                 *)

Answers == [type : {"grant", "refuse"}, number : {0}]
Using == {"count", "store", "greet", "wait", "take", "send"}
Ended == {"ended", "shutdown", "disconnect", "exited"}

\* The client thread visits objects that exist.
ClientInv ==
    /\ step = "visit" <=> current = Nobody
    /\ current # Nobody => alive[current]
    /\ phase # "connect" => visit \subseteq Active

\* How the lives of the two threads, the ConnectionInfo and the object nest
LivesOf(w) ==
    /\ connected[w] <=> connThread[w] # "none"
    /\ linked[w] => connected[w]
    /\ sendThread[w] \in Using => connected[w]
    /\ sendThread[w] \in {"disconnect", "exited"} /\ alive[w] => shuttingDown[w]
    /\ sendThread[w] \in {"connect", "exited"} => ~connected[w]
    /\ sendThread[w] # "exited" => alive[w]
    /\ connected[w] => alive[w]
    /\ complete[w] => alive[w] /\ sendThread[w] \in {"shutdown", "disconnect", "exited"}
LivesInv == \A w \in Workers : LivesOf(w)

\* A new object has nothing to send and need not quit.
FreshOf(w) ==
    /\ ~alive[w] => ~sendQuit[w] /\ msgStatus[w] = Empty
    /\ ~alive[w] \/ sendThread[w] = "connect" => sendQueue[w] = <<>>
    /\ sendThread[w] # "send" => sending[w] = <<>>
FreshInv == \A w \in Workers : FreshOf(w)

\* Wake-ups given, or about to be given, for messages and to quit
ReplyComing(w) == One(ConnAt(w, "signal"))
AvailabilityComing(w) == One(step = "signal" /\ current = w)
ComingOf(w) == wakeUps[w] + ReplyComing(w) + AvailabilityComing(w)
WaitingOf(w) == One(msgStatus[w] # Empty) + One(sendQueue[w] # <<>>)
PendingOf(w) == sendThread[w] \notin Ended => WaitingOf(w) <= ComingOf(w) + One(SenderAt(w, "take"))
QuitOf(w) ==
    sendQuit[w] /\ sendThread[w] \notin Ended =>
        \/ wakeUps[w] > 0
        \/ ConnAt(w, "signal") \/ ConnAt(w, "signalQuit")
        \/ step \in {"signal", "signalQuit"} /\ current = w
WakeInv == \A w \in Workers : PendingOf(w) /\ QuitOf(w)

\* Every answer queued, or about to be, is one to a request that still counts.
AnswersSent(w) == IF sending[w] \in Seq(Answers) THEN Len(sending[w]) ELSE 0
AnswersDue(w) == One(connThread[w] \in {"track", "grant", "refuse"})
AnswersOf(w) ==
    /\ sendQueue[w] \in Seq(Answers)
    /\ sending[w] \in Seq(Answers)
         \/ \E n \in Numbers : sending[w] = <<Message("Status", n)>>
    /\ linked[w] => requests[w] >= Len(sendQueue[w]) + AnswersSent(w) + AnswersDue(w)
AnswerInv == \A w \in Workers : AnswersOf(w)

IInv == TypeOK /\ ClientInv /\ LivesInv /\ FreshInv /\ WakeInv /\ AnswerInv

---------------------------------------------------------------------------
USE ClientAssumption

\* What most steps need of the types: every variable of a connection has one value for
\* each worker.
Domains ==
    /\ DOMAIN alive = Workers /\ DOMAIN sendThread = Workers /\ DOMAIN sending = Workers
    /\ DOMAIN complete = Workers /\ DOMAIN wakeUps = Workers /\ DOMAIN msgStatus = Workers
    /\ DOMAIN sendQueue = Workers /\ DOMAIN told = Workers /\ DOMAIN sendQuit = Workers
    /\ DOMAIN shuttingDown = Workers /\ DOMAIN connected = Workers /\ DOMAIN quitting = Workers
    /\ DOMAIN connThread = Workers /\ DOMAIN linked = Workers /\ DOMAIN requests = Workers

LEMMA DomainsOf == TypeOK => Domains
  BY DEF TypeOK, Domains


LEMMA LivesStep ==
  ASSUME TypeOK, ClientInv, LivesInv, Next
  PROVE  LivesInv'
<1> SUFFICES ASSUME NEW v \in Workers PROVE LivesOf(v)'
  BY DEF LivesInv
<1> LivesOf(v)
  BY DEF LivesInv
<1> Domains
  BY DomainsOf
<1> USE DEF Domains, LivesOf, Using, vars, clientThread, sender, queue, pool, peer, LookAt, Done,
            SenderAt, SenderGoes, ConnAt, ConnGoes, Disconnect
<1>1. CASE Exited
  BY <1>1 DEF Exited
<1>2. CASE EndPhase
  BY <1>2 DEF EndPhase
<1>3. CASE JobsChange \/ ClientDeleted
  BY <1>3 DEF JobsChange, ClientDeleted
<1>4. ASSUME NEW w \in Workers,
             CleanUp(w) \/ Clear(w) \/ Quit(w) \/ SignalQuit(w) \/ DoNotConnect(w) \/ Communicate(w)
               \/ EnqueueSendJobAvailability(w) \/ SignalAvailability(w)
      PROVE  LivesOf(v)'
  BY <1>4 DEF CleanUp, Clear, Quit, SignalQuit, DoNotConnect, Communicate,
              EnqueueSendJobAvailability, SignalAvailability
<1>5. ASSUME NEW w \in Workers, Join(w)
      PROVE  LivesOf(v)'
  BY <1>5 DEF Join
<1>6. ASSUME NEW w \in Workers, Connect(w)
      PROVE  LivesOf(v)'
  BY <1>6 DEF Connect
<1>7. ASSUME NEW w \in Workers, ShutDown(w) \/ ClientDisconnects(w)
      PROVE  LivesOf(v)'
  BY <1>7 DEF ShutDown, ClientDisconnects
<1>8. ASSUME NEW w \in Workers, ConnectToWorker(w)
      PROVE  LivesOf(v)'
  BY <1>8 DEF ConnectToWorker
<1>9. ASSUME NEW w \in Workers, CountJobs(w) \/ StoreCount(w) \/ WakeUp(w) \/ TakeMessages(w) \/ AllSent(w)
      PROVE  LivesOf(v)'
  BY <1>9 DEF CountJobs, StoreCount, WakeUp, TakeMessages, AllSent
<1>10. ASSUME NEW w \in Workers, Greet(w) \/ SendNext(w)
       PROVE  LivesOf(v)'
  <2>1. UNCHANGED <<alive, connThread, connected, shuttingDown, linked, complete>>
    BY <1>10 DEF Greet, SendNext, SendSucceeds, SendFails, Deliver
  <2>2. sendThread[w] \in Using
    BY <1>10 DEF Greet, SendNext
  <2>3. PICK s \in Using \cup {"ended"} : sendThread' = [sendThread EXCEPT ![w] = s]
    BY <1>10 DEF Greet, SendNext
  <2> QED
    BY <2>1, <2>2, <2>3
<1>11. ASSUME NEW w \in Workers, Complete(w) \/ SenderShutsDown(w) \/ SenderDisconnects(w)
       PROVE  LivesOf(v)'
  BY <1>11 DEF Complete, SenderShutsDown, SenderDisconnects
<1>12. ASSUME NEW w \in Workers, RequestJob(w) \/ TrackJob(w) \/ EnqueueSend(w) \/ SignalReply(w)
                                   \/ Leave(w) \/ OnDisconnected(w) \/ SignalSender(w)
       PROVE  LivesOf(v)'
  BY <1>12 DEF RequestJob, TrackJob, EnqueueSend, SignalReply, Leave, OnDisconnected, SignalSender
<1>13. ASSUME NEW w \in Workers, Close(w)
       PROVE  LivesOf(v)'
  BY <1>13 DEF Close, HangUp, SenderDone
<1>14. ASSUME NEW w \in Workers, LinkLost(w)
       PROVE  LivesOf(v)'
  BY <1>14 DEF LinkLost, HangUp
<1> QED
  BY <1>1, <1>2, <1>3, <1>4, <1>5, <1>6, <1>7, <1>8, <1>9, <1>10, <1>11, <1>12, <1>13, <1>14
     DEF Next, ClientStep, SenderStep, ConnStep
LEMMA ClientThreadStep ==
  ASSUME TypeOK, ClientInv, Next
  PROVE  ClientInv'
<1> USE DEF TypeOK, ClientInv, Active, vars, clientThread, LookAt, Done
<1>1. CASE Exited
  BY <1>1 DEF Exited
<1>2. CASE EndPhase
  <2>1. visit' \subseteq Workers /\ (phase' # "connect" => visit' \subseteq Active)
    BY <1>2 DEF EndPhase, NextPhase
  <2> QED
    BY <1>2, <2>1 DEF EndPhase
<1>3. CASE UNCHANGED <<clientThread, alive>>
  BY <1>3
<1>4. ASSUME NEW w \in Workers,
             CleanUp(w) \/ Clear(w) \/ Communicate(w) \/ ShutDown(w) \/ DoNotConnect(w)
      PROVE  ClientInv'
  <2>1. alive' = alive /\ w \in visit /\ (phase = "connect" => DoNotConnect(w))
    BY <1>4 DEF CleanUp, Clear, Communicate, ShutDown, DoNotConnect, Visits
  <2>2. \/ (LookAt(w, "quit") \/ LookAt(w, "enqueue") \/ LookAt(w, "disconnect")) /\ phase # "connect"
        \/ Done(w)
    BY <1>4 DEF CleanUp, Clear, Communicate, ShutDown, DoNotConnect, Visits
  <2> QED
    BY <2>1, <2>2, ClientAssumption DEF ClientAssumption
<1>5. ASSUME NEW w \in Workers,
             Quit(w) \/ SignalQuit(w) \/ EnqueueSendJobAvailability(w)
               \/ SignalAvailability(w) \/ ClientDisconnects(w)
      PROVE  ClientInv'
  BY <1>5, ClientAssumption
     DEF ClientAssumption, Quit, SignalQuit, EnqueueSendJobAvailability, SignalAvailability,
         ClientDisconnects
<1>6. ASSUME NEW w \in Workers, Join(w)
      PROVE  ClientInv'
  <2>1. /\ alive' = [alive EXCEPT ![w] = FALSE]
        /\ Done(w) /\ current = w
    BY <1>6 DEF Join
  <2> QED
    BY <2>1
<1>7. ASSUME NEW w \in Workers, Connect(w)
      PROVE  ClientInv'
  BY <1>7 DEF Connect, Visits
<1>8. CASE \/ JobsChange \/ ClientDeleted
           \/ \E w \in Workers : SenderStep(w) \/ RequestJob(w) \/ ConnStep(w) \/ LinkLost(w)
  <2>1. UNCHANGED <<clientThread, alive>>
    BY <1>8 DEF JobsChange, ClientDeleted, SenderStep, RequestJob, ConnStep, LinkLost,
                ConnectToWorker, CountJobs, StoreCount, Greet, WakeUp, TakeMessages, SendNext,
                AllSent, Complete, SenderShutsDown, SenderDisconnects, TrackJob, EnqueueSend,
                SignalReply, Leave, OnDisconnected, SignalSender, Close
  <2> QED
    BY <1>3, <2>1
<1> QED
  BY <1>1, <1>2, <1>4, <1>5, <1>6, <1>7, <1>8 DEF Next, ClientStep

LEMMA FreshStep ==
  ASSUME TypeOK, ClientInv, LivesInv, FreshInv, Next
  PROVE  FreshInv'
<1> SUFFICES ASSUME NEW v \in Workers PROVE FreshOf(v)'
  BY DEF FreshInv
<1> FreshOf(v) /\ LivesOf(v)
  BY DEF FreshInv, LivesInv
<1> Domains
  BY DomainsOf
<1> USE DEF Domains, FreshOf, Using, vars, clientThread, sender, queue, pool, peer, SenderAt, SenderGoes
<1>1. CASE Exited \/ EndPhase \/ JobsChange \/ ClientDeleted
  BY <1>1 DEF Exited, EndPhase, JobsChange, ClientDeleted
<1>2. ASSUME NEW w \in Workers,
             CleanUp(w) \/ Clear(w) \/ SignalQuit(w) \/ DoNotConnect(w) \/ Communicate(w)
               \/ SignalAvailability(w) \/ ShutDown(w) \/ ClientDisconnects(w)
      PROVE  FreshOf(v)'
  BY <1>2 DEF CleanUp, Clear, SignalQuit, DoNotConnect, Communicate, SignalAvailability, ShutDown,
              ClientDisconnects
<1>3. ASSUME NEW w \in Workers, Quit(w) \/ EnqueueSendJobAvailability(w)
      PROVE  FreshOf(v)'
  <2>1. alive[w]
    BY <1>3, ClientAssumption DEF Quit, EnqueueSendJobAvailability, ClientInv, ClientAssumption
  <2> QED
    BY <1>3, <2>1 DEF Quit, EnqueueSendJobAvailability
<1>4. ASSUME NEW w \in Workers, Join(w) \/ Connect(w)
      PROVE  FreshOf(v)'
  BY <1>4 DEF Join, Connect, LivesOf
<1>5. ASSUME NEW w \in Workers,
             ConnectToWorker(w) \/ CountJobs(w) \/ StoreCount(w) \/ WakeUp(w) \/ Greet(w)
      PROVE  FreshOf(v)'
  BY <1>5 DEF ConnectToWorker, CountJobs, StoreCount, WakeUp, Greet
<1>6. ASSUME NEW w \in Workers, TakeMessages(w)
      PROVE  FreshOf(v)'
  <2>1. UNCHANGED <<alive, sendQuit>> /\ alive[w]
    BY <1>6 DEF TakeMessages, LivesInv, LivesOf
  <2> QED
    BY <1>6, <2>1 DEF TakeMessages
<1>7. ASSUME NEW w \in Workers, SendNext(w) \/ AllSent(w)
      PROVE  FreshOf(v)'
  BY <1>7 DEF SendNext, AllSent
<1>8. ASSUME NEW w \in Workers, Complete(w) \/ SenderShutsDown(w) \/ SenderDisconnects(w)
      PROVE  FreshOf(v)'
  BY <1>8 DEF Complete, SenderShutsDown, SenderDisconnects
<1>9. ASSUME NEW w \in Workers, RequestJob(w) \/ TrackJob(w) \/ SignalReply(w) \/ Leave(w)
                                  \/ SignalSender(w) \/ Close(w) \/ LinkLost(w)
      PROVE  FreshOf(v)'
  BY <1>9 DEF RequestJob, TrackJob, SignalReply, Leave, SignalSender, Close, LinkLost
<1>10. ASSUME NEW w \in Workers, EnqueueSend(w) \/ OnDisconnected(w)
       PROVE  FreshOf(v)'
  <2>1. alive[w] /\ sendThread[w] # "connect"
    BY <1>10 DEF EnqueueSend, OnDisconnected, ConnAt, LivesInv, LivesOf
  <2> QED
    BY <1>10, <2>1 DEF EnqueueSend, OnDisconnected
<1> QED
  BY <1>1, <1>2, <1>3, <1>4, <1>5, <1>6, <1>7, <1>8, <1>9, <1>10
     DEF Next, ClientStep, SenderStep, ConnStep

---------------------------------------------------------------------------
(* Wake-ups                                                                *)

LEMMA SignalCounts ==
  ASSUME TypeOK, NEW w \in Workers, Signal(w)
  PROVE  /\ wakeUps' \in [Workers -> 0 .. MaxSignals]
         /\ wakeUps'[w] \in 0 .. MaxSignals
         /\ wakeUps'[w] = wakeUps[w] + 1 \/ wakeUps'[w] = MaxSignals
         /\ wakeUps'[w] > 0
         /\ \A v \in Workers \ {w} : wakeUps'[v] = wakeUps[v]
  BY ClientAssumption DEF TypeOK, Signal, ClientAssumption

\* Two messages can wait at most, for which MaxSignals is enough.
LEMMA WakeUpsUnchanged ==
  ASSUME TypeOK, TypeOK', NEW v \in Workers, PendingOf(v), QuitOf(v),
         UNCHANGED <<msgStatus[v], sendQueue[v], sendQuit[v], wakeUps[v]>>,
         sendThread'[v] \in Ended \/ sendThread[v] \notin Ended,
         SenderAt(v, "take") => sendThread'[v] \in Ended \cup {"take"},
         \A s \in {"signal", "signalQuit"} :
             /\ ConnAt(v, s) => ConnAt(v, s)'
             /\ step = s /\ current = v => step' = s /\ current' = v
  PROVE  PendingOf(v)' /\ QuitOf(v)'
<1>1. ComingOf(v) \in Nat /\ ComingOf(v)' \in Nat /\ ComingOf(v)' >= ComingOf(v)
  <2>1. wakeUps[v] \in Nat /\ wakeUps'[v] = wakeUps[v]
    BY ClientAssumption DEF TypeOK, ClientAssumption
  <2>2. ReplyComing(v)' >= ReplyComing(v) /\ ReplyComing(v)' \in Nat /\ ReplyComing(v) \in Nat
    BY DEF ReplyComing, One
  <2>3. /\ AvailabilityComing(v)' >= AvailabilityComing(v)
        /\ AvailabilityComing(v)' \in Nat /\ AvailabilityComing(v) \in Nat
    BY DEF AvailabilityComing, One
  <2> QED
    BY <2>1, <2>2, <2>3 DEF ComingOf
<1>2. PendingOf(v)'
  BY <1>1 DEF PendingOf, WaitingOf, One, SenderAt
<1>3. QuitOf(v)'
  BY DEF QuitOf, ConnAt
<1> QED
  BY <1>2, <1>3

\* Steps that neither queue nor signal nor take
LEMMA WakeQuietStep ==
  ASSUME TypeOK, TypeOK', LivesInv, WakeInv, NEW v \in Workers, NEW w \in Workers,
         \/ Exited \/ EndPhase \/ JobsChange \/ ClientDeleted
         \/ CleanUp(w) \/ Clear(w) \/ DoNotConnect(w) \/ Communicate(w) \/ ShutDown(w)
         \/ ClientDisconnects(w)
         \/ ConnectToWorker(w) \/ CountJobs(w) \/ StoreCount(w) \/ Greet(w) \/ SendNext(w)
         \/ AllSent(w) \/ Complete(w) \/ SenderShutsDown(w) \/ SenderDisconnects(w)
         \/ RequestJob(w) \/ TrackJob(w) \/ Leave(w) \/ LinkLost(w)
  PROVE  PendingOf(v)' /\ QuitOf(v)'
<1> PendingOf(v) /\ QuitOf(v)
  BY DEF WakeInv
<1> Domains
  BY DomainsOf
<1> USE DEF Domains, Ended, vars, clientThread, sender, queue, pool, peer, LookAt, Done, SenderAt,
            SenderGoes, ConnAt, ConnGoes, Visits
<1>1. UNCHANGED <<msgStatus, sendQueue, sendQuit, wakeUps>>
  BY DEF Exited, EndPhase, JobsChange, ClientDeleted, CleanUp, Clear, DoNotConnect, Communicate,
         ShutDown, ClientDisconnects, ConnectToWorker, CountJobs, StoreCount, Greet, SendNext,
         AllSent, Complete, SenderShutsDown, SenderDisconnects, RequestJob, TrackJob, Leave, LinkLost
<1>2. \/ UNCHANGED <<step, current>>
      \/ step \in {"visit", "disconnect"}
  BY DEF Exited, EndPhase, JobsChange, ClientDeleted, CleanUp, Clear, DoNotConnect, Communicate,
         ShutDown, ClientDisconnects, ConnectToWorker, CountJobs, StoreCount, Greet, SendNext,
         AllSent, Complete, SenderShutsDown, SenderDisconnects, RequestJob, TrackJob, Leave, LinkLost
<1>3. \/ UNCHANGED connThread
      \/ /\ connThread[w] \notin {"signal", "signalQuit"}
         /\ \E s \in {"receive", "track", "grant", "refuse", "disconnected"} :
                connThread' = [connThread EXCEPT ![w] = s]
  <2>1. CASE ConnectToWorker(w)
    BY <2>1 DEF ConnectToWorker, LivesInv, LivesOf
  <2> QED
    BY <2>1
     DEF Exited, EndPhase, JobsChange, ClientDeleted, CleanUp, Clear, DoNotConnect, Communicate,
         ShutDown, ClientDisconnects, CountJobs, StoreCount, Greet, SendNext,
         AllSent, Complete, SenderShutsDown, SenderDisconnects, RequestJob, TrackJob, Leave, LinkLost
<1>4. \/ UNCHANGED sendThread
      \/ /\ sendThread[w] \notin Ended \cup {"take"}
         /\ \E s \in {"count", "store", "greet", "wait", "send", "ended"} :
                sendThread' = [sendThread EXCEPT ![w] = s]
      \/ \E s \in Ended : sendThread' = [sendThread EXCEPT ![w] = s]
  BY DEF Exited, EndPhase, JobsChange, ClientDeleted, CleanUp, Clear, DoNotConnect, Communicate,
         ShutDown, ClientDisconnects, ConnectToWorker, CountJobs, StoreCount, Greet, SendNext,
         AllSent, Complete, SenderShutsDown, SenderDisconnects, RequestJob, TrackJob, Leave, LinkLost
<1>5. UNCHANGED <<msgStatus[v], sendQueue[v], sendQuit[v], wakeUps[v]>>
  BY <1>1
<1>6. /\ sendThread'[v] \in Ended \/ sendThread[v] \notin Ended
      /\ SenderAt(v, "take") => sendThread'[v] \in Ended \cup {"take"}
  BY <1>4
<1>7. \A s \in {"signal", "signalQuit"} :
          /\ ConnAt(v, s) => ConnAt(v, s)'
          /\ step = s /\ current = v => step' = s /\ current' = v
  BY <1>2, <1>3
<1> QED
  BY <1>5, <1>6, <1>7, WakeUpsUnchanged

\* Steps that queue, signal or take for another worker's connection
LEMMA WakeOther ==
  ASSUME TypeOK, TypeOK', WakeInv, NEW v \in Workers, NEW w \in Workers, v # w,
         \/ Quit(w) \/ SignalQuit(w) \/ EnqueueSendJobAvailability(w) \/ SignalAvailability(w)
         \/ Join(w) \/ Connect(w) \/ WakeUp(w) \/ TakeMessages(w)
         \/ EnqueueSend(w) \/ SignalReply(w) \/ OnDisconnected(w) \/ SignalSender(w) \/ Close(w)
  PROVE  PendingOf(v)' /\ QuitOf(v)'
<1> PendingOf(v) /\ QuitOf(v)
  BY DEF WakeInv
<1> Domains
  BY DomainsOf
<1> USE DEF Domains, Ended, vars, clientThread, sender, queue, pool, peer, LookAt, Done, SenderAt,
            SenderGoes, ConnAt, ConnGoes, Visits
<1>1. UNCHANGED <<msgStatus[v], sendQueue[v], sendQuit[v], wakeUps[v]>>
  <2>1. CASE Signal(w) /\ UNCHANGED <<msgStatus, sendQueue, sendQuit>>
    <3>1. Signal(w)
      BY <2>1
    <3>2. wakeUps'[v] = wakeUps[v]
      BY <3>1 DEF Signal
    <3> QED
      BY <2>1, <3>2
  <2>2. CASE Join(w) \/ Connect(w) \/ WakeUp(w)
    BY <2>2 DEF Join, Connect, WakeUp
  <2>3. CASE TakeMessages(w)
    <3>1. UNCHANGED <<sendQuit, wakeUps>>
      BY <2>3 DEF TakeMessages
    <3>2. CASE msgStatus[w] # Empty
      BY <2>3, <3>1, <3>2 DEF TakeMessages
    <3>3. CASE msgStatus[w] = Empty
      BY <2>3, <3>1, <3>3 DEF TakeMessages
    <3> QED
      BY <3>2, <3>3
  <2> QED
    BY <2>1, <2>2, <2>3
       DEF Quit, SignalQuit, EnqueueSendJobAvailability, SignalAvailability, EnqueueSend,
           SignalReply, OnDisconnected, SignalSender, Close
<1>2. UNCHANGED <<step, current>> \/ step = "visit" \/ current = w
  BY DEF Quit, SignalQuit, EnqueueSendJobAvailability, SignalAvailability, Join, Connect, WakeUp,
         TakeMessages, EnqueueSend, SignalReply, OnDisconnected, SignalSender, Close
<1>3. UNCHANGED <<connThread[v], sendThread[v]>>
  <2>1. CASE Quit(w) \/ SignalQuit(w) \/ EnqueueSendJobAvailability(w) \/ SignalAvailability(w) \/ Join(w)
    BY <2>1 DEF Quit, SignalQuit, EnqueueSendJobAvailability, SignalAvailability, Join
  <2>2. CASE Connect(w) \/ WakeUp(w) \/ TakeMessages(w)
    BY <2>2 DEF Connect, WakeUp, TakeMessages
  <2>3. CASE EnqueueSend(w) \/ SignalReply(w) \/ OnDisconnected(w) \/ SignalSender(w) \/ Close(w)
    BY <2>3 DEF EnqueueSend, SignalReply, OnDisconnected, SignalSender, Close
  <2> QED
    BY <2>1, <2>2, <2>3
<1>4. /\ sendThread'[v] \in Ended \/ sendThread[v] \notin Ended
      /\ SenderAt(v, "take") => sendThread'[v] \in Ended \cup {"take"}
  BY <1>3
<1>5. \A s \in {"signal", "signalQuit"} :
          /\ ConnAt(v, s) => ConnAt(v, s)'
          /\ step = s /\ current = v => step' = s /\ current' = v
  BY <1>2, <1>3
<1> QED
  BY <1>1, <1>4, <1>5, WakeUpsUnchanged

LEMMA CountsOf ==
  ASSUME TypeOK, TypeOK', NEW w \in Workers
  PROVE  /\ WaitingOf(w) \in 0 .. 2 /\ WaitingOf(w)' \in 0 .. 2
         /\ ComingOf(w) \in Nat /\ ComingOf(w)' \in Nat /\ ComingOf(w)' >= wakeUps'[w]
         /\ One(SenderAt(w, "take")) \in 0 .. 1 /\ One(SenderAt(w, "take"))' \in 0 .. 1
         /\ ReplyComing(w) \in 0 .. 1 /\ AvailabilityComing(w) \in 0 .. 1
         /\ ReplyComing(w)' \in 0 .. 1 /\ AvailabilityComing(w)' \in 0 .. 1
<1>1. wakeUps[w] \in Nat /\ wakeUps'[w] \in Nat
  BY ClientAssumption DEF TypeOK, ClientAssumption
<1>2. /\ One(SenderAt(w, "take")) \in 0 .. 1 /\ One(SenderAt(w, "take"))' \in 0 .. 1
      /\ ReplyComing(w) \in 0 .. 1 /\ ReplyComing(w)' \in 0 .. 1
  BY DEF ReplyComing, One
<1>3. AvailabilityComing(w) \in 0 .. 1 /\ AvailabilityComing(w)' \in 0 .. 1
  BY DEF AvailabilityComing, One
<1>4. WaitingOf(w) \in 0 .. 2
  BY DEF WaitingOf, One
<1>5. WaitingOf(w)' \in 0 .. 2
  BY DEF WaitingOf, One
<1>6. /\ ComingOf(w) \in Nat /\ ComingOf(w)' \in Nat /\ ComingOf(w)' >= wakeUps'[w]
  BY <1>1, <1>2, <1>3 DEF ComingOf
<1> QED
  BY <1>2, <1>3, <1>4, <1>5, <1>6

LEMMA WakeClientStep ==
  ASSUME TypeOK, TypeOK', LivesInv, FreshInv, WakeInv, NEW w \in Workers,
         Quit(w) \/ SignalQuit(w) \/ EnqueueSendJobAvailability(w) \/ SignalAvailability(w)
           \/ Join(w) \/ Connect(w)
  PROVE  PendingOf(w)' /\ QuitOf(w)'
<1> PendingOf(w) /\ QuitOf(w) /\ LivesOf(w) /\ FreshOf(w)
  BY DEF WakeInv, LivesInv, FreshInv
<1> USE DEF Ended, clientThread, sender, queue, pool, peer, LookAt, Done, SenderAt, ConnAt
<1>0. wakeUps[w] \in 0 .. MaxSignals /\ MaxSignals \in Nat /\ MaxSignals >= 2
  BY ClientAssumption DEF TypeOK, ClientAssumption
<1>a. /\ WaitingOf(w) \in 0 .. 2 /\ WaitingOf(w)' \in 0 .. 2
      /\ ComingOf(w) \in Nat /\ ComingOf(w)' \in Nat /\ ComingOf(w)' >= wakeUps'[w]
      /\ One(SenderAt(w, "take")) \in 0 .. 1 /\ One(SenderAt(w, "take"))' \in 0 .. 1
      /\ ReplyComing(w) \in 0 .. 1 /\ AvailabilityComing(w) \in 0 .. 1
      /\ ReplyComing(w)' \in 0 .. 1 /\ AvailabilityComing(w)' \in 0 .. 1
  BY CountsOf
<1>1. CASE Quit(w)
  <2>1. step = "quit" /\ step' = "signalQuit" /\ current' = w
    BY <1>1 DEF Quit, TypeOK
  <2>2. UNCHANGED <<msgStatus, sendQueue, sendThread, connThread, wakeUps>>
    BY <1>1 DEF Quit, TypeOK
  <2>a. WaitingOf(w)' = WaitingOf(w)
    BY <2>1, <2>2 DEF WaitingOf, One
  <2>c. ReplyComing(w)' = ReplyComing(w) /\ AvailabilityComing(w)' = AvailabilityComing(w)
    BY <2>1, <2>2 DEF ReplyComing, AvailabilityComing, One
  <2>b. ComingOf(w)' = ComingOf(w)
    BY <1>0, <1>a, <2>c, <2>1, <2>2 DEF ComingOf
  <2>3. PendingOf(w)'
    BY <1>0, <1>a, <2>a, <2>b, <2>1, <2>2 DEF PendingOf, One
  <2> QED
    BY <2>1, <2>3 DEF QuitOf
<1>2. CASE SignalQuit(w)
  <2>1. step = "signalQuit" /\ step' = "join" /\ Signal(w)
    BY <1>2 DEF SignalQuit, TypeOK
  <2>2. UNCHANGED <<msgStatus, sendQueue, sendThread, connThread>>
    BY <1>2 DEF SignalQuit, TypeOK
  <2>a. WaitingOf(w)' = WaitingOf(w)
    BY <2>1, <2>2, SignalCounts DEF WaitingOf, One
  <2>c. ReplyComing(w)' = ReplyComing(w) /\ AvailabilityComing(w)' = AvailabilityComing(w)
    BY <2>1, <2>2 DEF ReplyComing, AvailabilityComing, One
  <2>b. ComingOf(w)' >= ComingOf(w) \/ ComingOf(w)' >= 2
    BY <1>0, <1>a, <2>c, <2>1, <2>2, SignalCounts DEF ComingOf
  <2>3. PendingOf(w)'
    BY <1>0, <1>a, <2>a, <2>b, <2>1, <2>2, SignalCounts DEF PendingOf, One
  <2> QED
    BY <2>1, <2>3, SignalCounts DEF QuitOf
<1>3. CASE EnqueueSendJobAvailability(w)
  <2>1. step = "enqueue" /\ step' = "signal" /\ current' = w
    BY <1>3 DEF EnqueueSendJobAvailability, TypeOK
  <2>2. UNCHANGED <<sendQueue, sendThread, connThread, wakeUps>>
    BY <1>3 DEF EnqueueSendJobAvailability, TypeOK
  <2>a. WaitingOf(w)' <= WaitingOf(w) + 1
    BY <2>1, <2>2 DEF WaitingOf, One
  <2>c. ReplyComing(w)' = ReplyComing(w) /\ AvailabilityComing(w)' = 1 /\ AvailabilityComing(w) = 0
    BY <2>1, <2>2 DEF ReplyComing, AvailabilityComing, One
  <2>b. ComingOf(w)' = ComingOf(w) + 1
    BY <1>0, <1>a, <2>c, <2>1, <2>2 DEF ComingOf
  <2>3. PendingOf(w)'
    BY <1>0, <1>a, <2>a, <2>b, <2>1, <2>2 DEF PendingOf, One
  <2> QED
    BY <2>1, <2>3 DEF QuitOf
<1>4. CASE SignalAvailability(w)
  <2>1. step = "signal" /\ current = w /\ step' = "visit" /\ Signal(w)
    BY <1>4 DEF SignalAvailability, TypeOK
  <2>2. UNCHANGED <<msgStatus, sendQueue, sendThread, connThread>>
    BY <1>4 DEF SignalAvailability, TypeOK
  <2>a. WaitingOf(w)' = WaitingOf(w)
    BY <2>1, <2>2, SignalCounts DEF WaitingOf, One
  <2>c. ReplyComing(w)' = ReplyComing(w) /\ AvailabilityComing(w)' = 0 /\ AvailabilityComing(w) = 1
    BY <2>1, <2>2 DEF ReplyComing, AvailabilityComing, One
  <2>b. ComingOf(w)' >= ComingOf(w) \/ ComingOf(w)' >= 2
    BY <1>0, <1>a, <2>c, <2>1, <2>2, SignalCounts DEF ComingOf
  <2>3. PendingOf(w)'
    BY <1>0, <1>a, <2>a, <2>b, <2>1, <2>2, SignalCounts DEF PendingOf, One
  <2> QED
    BY <2>1, <2>3, SignalCounts DEF QuitOf
<1>5. CASE Join(w)
  BY <1>5 DEF Join, LivesOf, PendingOf, QuitOf
<1>6. CASE Connect(w)
  <2>1. /\ ~alive[w] /\ msgStatus'[w] = Empty /\ sendQueue'[w] = <<>> /\ ~sendQuit'[w]
        /\ wakeUps' = wakeUps
    BY <1>6 DEF Connect, FreshOf, TypeOK
  <2>2. WaitingOf(w)' = 0
    BY <2>1 DEF WaitingOf, One
  <2>3. PendingOf(w)'
    BY <1>a, <2>2 DEF PendingOf
  <2> QED
    BY <2>1, <2>3 DEF QuitOf
<1> QED
  BY <1>1, <1>2, <1>3, <1>4, <1>5, <1>6

LEMMA WakeThreadStep ==
  ASSUME TypeOK, TypeOK', LivesInv, FreshInv, WakeInv, NEW w \in Workers,
         WakeUp(w) \/ TakeMessages(w) \/ EnqueueSend(w) \/ SignalReply(w) \/ OnDisconnected(w)
           \/ SignalSender(w) \/ Close(w)
  PROVE  PendingOf(w)' /\ QuitOf(w)'
<1> PendingOf(w) /\ QuitOf(w) /\ LivesOf(w) /\ FreshOf(w)
  BY DEF WakeInv, LivesInv, FreshInv
<1> USE DEF Ended, clientThread, sender, queue, pool, peer, SenderAt, SenderGoes, ConnAt,
            ConnGoes
<1>0. wakeUps[w] \in 0 .. MaxSignals /\ MaxSignals \in Nat /\ MaxSignals >= 2
  BY ClientAssumption DEF TypeOK, ClientAssumption
<1>a. /\ WaitingOf(w) \in 0 .. 2 /\ WaitingOf(w)' \in 0 .. 2
      /\ ComingOf(w) \in Nat /\ ComingOf(w)' \in Nat /\ ComingOf(w)' >= wakeUps'[w]
      /\ One(SenderAt(w, "take")) \in 0 .. 1 /\ One(SenderAt(w, "take"))' \in 0 .. 1
      /\ ReplyComing(w) \in 0 .. 1 /\ AvailabilityComing(w) \in 0 .. 1
      /\ ReplyComing(w)' \in 0 .. 1 /\ AvailabilityComing(w)' \in 0 .. 1
  BY CountsOf
<1>1. CASE WakeUp(w)
  <2>1. /\ sendThread[w] = "wait" /\ wakeUps[w] > 0 /\ wakeUps'[w] = wakeUps[w] - 1
        /\ sendThread'[w] = IF sendQuit[w] THEN "ended" ELSE "take"
        /\ UNCHANGED <<msgStatus, sendQueue, sendQuit, connThread, step, current>>
    BY <1>1 DEF WakeUp, TypeOK
  <2>a. WaitingOf(w)' = WaitingOf(w)
    BY <2>1 DEF WaitingOf, One
  <2>c. ReplyComing(w)' = ReplyComing(w) /\ AvailabilityComing(w)' = AvailabilityComing(w)
    BY <2>1 DEF ReplyComing, AvailabilityComing, One
  <2>b. ComingOf(w)' = ComingOf(w) - 1
    BY <1>0, <1>a, <2>c, <2>1 DEF ComingOf
  <2>2. PendingOf(w)'
    BY <1>0, <1>a, <2>a, <2>b, <2>1 DEF PendingOf, One
  <2> QED
    BY <2>1, <2>2 DEF QuitOf
<1>2. CASE TakeMessages(w)
  <2>1. /\ sendThread[w] = "take" /\ sendThread'[w] = "send"
        /\ UNCHANGED <<sendQuit, connThread, step, current, wakeUps>>
    BY <1>2 DEF TakeMessages, TypeOK
  <2>2. \/ msgStatus[w] # Empty /\ msgStatus'[w] = Empty /\ sendQueue' = sendQueue
        \/ msgStatus[w] = Empty /\ sendQueue'[w] = <<>> /\ msgStatus' = msgStatus
    BY <1>2 DEF TakeMessages, TypeOK
  <2>a. WaitingOf(w)' <= WaitingOf(w) - 1 \/ WaitingOf(w)' = 0
    BY <2>1, <2>2 DEF WaitingOf, One
  <2>c. ReplyComing(w)' = ReplyComing(w) /\ AvailabilityComing(w)' = AvailabilityComing(w)
    BY <2>1, <2>2 DEF ReplyComing, AvailabilityComing, One
  <2>b. ComingOf(w)' = ComingOf(w)
    BY <1>0, <1>a, <2>c, <2>1, <2>2 DEF ComingOf
  <2>3. PendingOf(w)'
    BY <1>0, <1>a, <2>a, <2>b, <2>1, <2>2 DEF PendingOf, One
  <2> QED
    BY <2>1, <2>3 DEF QuitOf
<1>3. CASE EnqueueSend(w)
  <2>1. /\ connThread[w] \in {"grant", "refuse"} /\ connThread'[w] = "signal"
        /\ UNCHANGED <<sendQuit, sendThread, step, current, wakeUps, msgStatus>>
    BY <1>3 DEF EnqueueSend, TypeOK
  <2>a. WaitingOf(w)' <= WaitingOf(w) + 1
    BY <2>1 DEF WaitingOf, One
  <2>c. ReplyComing(w)' = 1 /\ ReplyComing(w) = 0 /\ AvailabilityComing(w)' = AvailabilityComing(w)
    BY <2>1 DEF ReplyComing, AvailabilityComing, One
  <2>b. ComingOf(w)' = ComingOf(w) + 1
    BY <1>0, <1>a, <2>c, <2>1 DEF ComingOf
  <2>2. PendingOf(w)'
    BY <1>0, <1>a, <2>a, <2>b, <2>1 DEF PendingOf, One
  <2> QED
    BY <2>1, <2>2 DEF QuitOf
<1>4. CASE SignalReply(w)
  <2>1. /\ connThread[w] = "signal" /\ connThread'[w] = "receive" /\ Signal(w)
        /\ UNCHANGED <<sendQuit, sendThread, step, current, sendQueue, msgStatus>>
    BY <1>4 DEF SignalReply, TypeOK
  <2>a. WaitingOf(w)' = WaitingOf(w)
    BY <2>1, SignalCounts DEF WaitingOf, One
  <2>c. ReplyComing(w)' = 0 /\ ReplyComing(w) = 1 /\ AvailabilityComing(w)' = AvailabilityComing(w)
    BY <2>1 DEF ReplyComing, AvailabilityComing, One
  <2>b. ComingOf(w)' >= ComingOf(w) \/ ComingOf(w)' >= 2
    BY <1>0, <1>a, <2>c, <2>1, SignalCounts DEF ComingOf
  <2>2. PendingOf(w)'
    BY <1>0, <1>a, <2>a, <2>b, <2>1, SignalCounts DEF PendingOf, One
  <2> QED
    BY <2>1, <2>2, SignalCounts DEF QuitOf
<1>5. CASE OnDisconnected(w)
  <2>1. /\ connThread[w] = "disconnected" /\ connThread'[w] = "signalQuit"
        /\ UNCHANGED <<sendThread, step, current, sendQueue, msgStatus, wakeUps>>
    BY <1>5 DEF OnDisconnected, TypeOK
  <2>a. WaitingOf(w)' = WaitingOf(w)
    BY <2>1 DEF WaitingOf, One
  <2>c. ReplyComing(w)' = ReplyComing(w) /\ AvailabilityComing(w)' = AvailabilityComing(w)
    BY <2>1 DEF ReplyComing, AvailabilityComing, One
  <2>b. ComingOf(w)' = ComingOf(w)
    BY <1>0, <1>a, <2>c, <2>1 DEF ComingOf
  <2>2. PendingOf(w)'
    BY <1>0, <1>a, <2>a, <2>b, <2>1 DEF PendingOf, One
  <2> QED
    BY <2>1, <2>2 DEF QuitOf
<1>6. CASE SignalSender(w)
  <2>1. /\ connThread[w] = "signalQuit" /\ connThread'[w] = "waitForSender" /\ Signal(w)
        /\ UNCHANGED <<sendQuit, sendThread, step, current, sendQueue, msgStatus>>
    BY <1>6 DEF SignalSender, TypeOK
  <2>a. WaitingOf(w)' = WaitingOf(w)
    BY <2>1, SignalCounts DEF WaitingOf, One
  <2>c. ReplyComing(w)' = ReplyComing(w) /\ AvailabilityComing(w)' = AvailabilityComing(w)
    BY <2>1 DEF ReplyComing, AvailabilityComing, One
  <2>b. ComingOf(w)' >= ComingOf(w) \/ ComingOf(w)' >= 2
    BY <1>0, <1>a, <2>c, <2>1, SignalCounts DEF ComingOf
  <2>2. PendingOf(w)'
    BY <1>0, <1>a, <2>a, <2>b, <2>1, SignalCounts DEF PendingOf, One
  <2> QED
    BY <2>1, <2>2, SignalCounts DEF QuitOf
<1>7. CASE Close(w)
  BY <1>7 DEF Close, TypeOK, SenderDone, LivesOf, PendingOf, QuitOf
<1> QED
  BY <1>1, <1>2, <1>3, <1>4, <1>5, <1>6, <1>7

LEMMA WakeStep ==
  ASSUME TypeOK, TypeOK', LivesInv, FreshInv, WakeInv, Next
  PROVE  WakeInv'
<1> SUFFICES ASSUME NEW v \in Workers PROVE PendingOf(v)' /\ QuitOf(v)'
  BY DEF WakeInv
<1>1. CASE Exited \/ EndPhase \/ JobsChange \/ ClientDeleted
  BY <1>1, WakeQuietStep
<1>2. ASSUME NEW w \in Workers,
             \/ CleanUp(w) \/ Clear(w) \/ DoNotConnect(w) \/ Communicate(w) \/ ShutDown(w)
             \/ ClientDisconnects(w)
             \/ ConnectToWorker(w) \/ CountJobs(w) \/ StoreCount(w) \/ Greet(w) \/ SendNext(w)
             \/ AllSent(w) \/ Complete(w) \/ SenderShutsDown(w) \/ SenderDisconnects(w)
             \/ RequestJob(w) \/ TrackJob(w) \/ Leave(w) \/ LinkLost(w)
      PROVE  PendingOf(v)' /\ QuitOf(v)'
  BY <1>2, WakeQuietStep
<1>3. ASSUME NEW w \in Workers,
             \/ Quit(w) \/ SignalQuit(w) \/ EnqueueSendJobAvailability(w) \/ SignalAvailability(w)
             \/ Join(w) \/ Connect(w) \/ WakeUp(w) \/ TakeMessages(w)
             \/ EnqueueSend(w) \/ SignalReply(w) \/ OnDisconnected(w) \/ SignalSender(w) \/ Close(w)
      PROVE  PendingOf(v)' /\ QuitOf(v)'
  <2>1. CASE v # w
    BY <1>3, <2>1, WakeOther
  <2>2. CASE v = w
    BY <1>3, <2>2, WakeClientStep, WakeThreadStep
  <2> QED
    BY <2>1, <2>2
<1> QED
  BY <1>1, <1>2, <1>3 DEF Next, ClientStep, SenderStep, ConnStep

---------------------------------------------------------------------------
(* Answers                                                                 *)

LEMMA StatusIsNoAnswer ==
  ASSUME NEW n
  PROVE  <<Message("Status", n)>> \notin Seq(Answers)
<1> DEFINE s == <<Message("Status", n)>>
<1>1. SUFFICES ASSUME s \in Seq(Answers) PROVE FALSE
  OBVIOUS
<1>2. Len(s) = 1 /\ s[1] = Message("Status", n)
  OBVIOUS
<1>3. s[1] \in Answers
  BY <1>1, <1>2, ElementOfSeq
<1> QED
  BY <1>2, <1>3 DEF Answers, Message

LEMMA NothingSent ==
  ASSUME NEW w \in Workers, sending[w] = <<>>
  PROVE  AnswersSent(w) = 0
  BY EmptySeq DEF AnswersSent

\* What leaves the messages alone and does not add to the answers due
LEMMA AnswersUnchanged ==
  ASSUME NEW v \in Workers, TypeOK, TypeOK', AnswersOf(v),
         UNCHANGED <<sendQueue[v], sending[v]>>,
         linked'[v] => linked[v] /\ requests'[v] = requests[v],
         connThread'[v] \in {"track", "grant", "refuse"} => connThread[v] \in {"track", "grant", "refuse"}
  PROVE  AnswersOf(v)'
<1>1. Len(sendQueue[v]) \in Nat /\ AnswersSent(v) \in Nat /\ requests[v] \in Nat
  BY LenProperties, ClientAssumption DEF TypeOK, AnswersOf, AnswersSent, ClientAssumption
<1>2. AnswersSent(v)' = AnswersSent(v)
  BY DEF AnswersSent
<1> QED
  BY <1>1, <1>2 DEF AnswersOf, AnswersDue, One

LEMMA AnswerQuietStep ==
  ASSUME TypeOK, TypeOK', AnswerInv, NEW v \in Workers, NEW w \in Workers,
         \/ Exited \/ EndPhase \/ JobsChange \/ ClientDeleted
         \/ CleanUp(w) \/ Clear(w) \/ Quit(w) \/ SignalQuit(w) \/ Connect(w) \/ DoNotConnect(w)
         \/ Communicate(w) \/ EnqueueSendJobAvailability(w) \/ SignalAvailability(w)
         \/ ShutDown(w) \/ ClientDisconnects(w)
         \/ CountJobs(w) \/ StoreCount(w) \/ Greet(w) \/ WakeUp(w) \/ AllSent(w)
         \/ Complete(w) \/ SenderShutsDown(w) \/ SenderDisconnects(w)
         \/ TrackJob(w) \/ SignalReply(w) \/ Leave(w) \/ OnDisconnected(w) \/ SignalSender(w)
         \/ Close(w) \/ LinkLost(w)
  PROVE  AnswersOf(v)'
<1> AnswersOf(v)
  BY DEF AnswerInv
<1> Domains
  BY DomainsOf
<1> USE DEF Domains, vars, clientThread, sender, queue, pool, peer, LookAt, Done, SenderAt,
            SenderGoes, ConnAt, ConnGoes, Visits
<1>1. CASE Greet(w)
  <2>1. UNCHANGED <<sendQueue, sending, connThread, linked, requests>>
    BY <1>1 DEF Greet, SendSucceeds, SendFails, Deliver, Message
  <2> QED
    BY <2>1, AnswersUnchanged
<1>2. CASE Close(w) \/ LinkLost(w)
  <2>1. UNCHANGED <<sendQueue, sending>>
    BY <1>2 DEF Close, LinkLost
  <2>2. linked'[v] => linked[v] /\ requests'[v] = requests[v]
    BY <1>2 DEF Close, LinkLost, HangUp
  <2>3. connThread'[v] = "none" \/ connThread'[v] = connThread[v]
    BY <1>2 DEF Close, LinkLost, HangUp
  <2> QED
    BY <2>1, <2>2, <2>3, AnswersUnchanged
<1>3. CASE TrackJob(w) \/ SignalReply(w) \/ Leave(w) \/ OnDisconnected(w) \/ SignalSender(w)
  <2>1. UNCHANGED <<sendQueue, sending, linked, requests>>
    BY <1>3 DEF TrackJob, SignalReply, Leave, OnDisconnected, SignalSender
  <2>2. connThread'[v] \in {"track", "grant", "refuse"}
          => connThread[v] \in {"track", "grant", "refuse"}
    BY <1>3 DEF TrackJob, SignalReply, Leave, OnDisconnected, SignalSender
  <2> QED
    BY <2>1, <2>2, AnswersUnchanged
<1>4. CASE ~(Greet(w) \/ Close(w) \/ LinkLost(w) \/ TrackJob(w) \/ SignalReply(w) \/ Leave(w)
               \/ OnDisconnected(w) \/ SignalSender(w))
  <2>1. UNCHANGED <<sendQueue, sending, connThread, linked, requests>>
    BY <1>4
       DEF Exited, EndPhase, JobsChange, ClientDeleted, CleanUp, Clear, Quit, SignalQuit, Connect,
           DoNotConnect, Communicate, EnqueueSendJobAvailability, SignalAvailability, ShutDown,
           ClientDisconnects, CountJobs, StoreCount, WakeUp, AllSent, Complete, SenderShutsDown,
           SenderDisconnects
  <2> QED
    BY <2>1, AnswersUnchanged
<1> QED
  BY <1>1, <1>2, <1>3, <1>4

\* The steps of a worker's connection that change its messages or requests
LEMMA AnswerOther ==
  ASSUME TypeOK, TypeOK', AnswerInv, NEW v \in Workers, NEW w \in Workers, v # w,
         Join(w) \/ ConnectToWorker(w) \/ TakeMessages(w) \/ SendNext(w) \/ RequestJob(w)
           \/ EnqueueSend(w)
  PROVE  AnswersOf(v)'
<1> AnswersOf(v)
  BY DEF AnswerInv
<1> Domains
  BY DomainsOf
<1> USE DEF Domains, queue, pool, peer, sender, SenderAt, SenderGoes, ConnAt, ConnGoes
<1>1. CASE SendNext(w)
  <2>1. UNCHANGED <<sendQueue, connThread, linked>> /\ sending'[v] = sending[v]
    BY <1>1 DEF SendNext, SendSucceeds, SendFails, Deliver
  <2>2. requests'[v] = requests[v]
    BY <1>1 DEF SendNext, SendSucceeds, SendFails, Deliver
  <2> QED
    BY <2>1, <2>2, AnswersUnchanged
<1>2. CASE TakeMessages(w)
  <2>1. UNCHANGED <<connThread, linked, requests>>
    BY <1>2 DEF TakeMessages
  <2>2. CASE msgStatus[w] # Empty
    <3>1. UNCHANGED <<sendQueue[v], sending[v]>>
      BY <1>2, <2>2 DEF TakeMessages
    <3> QED
      BY <2>1, <3>1, AnswersUnchanged
  <2>3. CASE msgStatus[w] = Empty
    <3>1. UNCHANGED <<sendQueue[v], sending[v]>>
      BY <1>2, <2>3 DEF TakeMessages
    <3> QED
      BY <2>1, <3>1, AnswersUnchanged
  <2> QED
    BY <2>2, <2>3
<1>3. CASE Join(w) \/ ConnectToWorker(w)
  <2>1. /\ UNCHANGED <<sendQueue[v], sending[v], connThread[v], linked[v]>>
        /\ requests' = requests
    BY <1>3 DEF Join, ConnectToWorker
  <2> QED
    BY <2>1, AnswersUnchanged
<1>4. CASE RequestJob(w) \/ EnqueueSend(w)
  <2>1. UNCHANGED <<sendQueue[v], sending[v], connThread[v], linked[v], requests[v]>>
    BY <1>4 DEF RequestJob, EnqueueSend
  <2> QED
    BY <2>1, AnswersUnchanged
<1> QED
  BY <1>1, <1>2, <1>3, <1>4

LEMMA OneAnswered ==
  ASSUME NEW r \in Nat, NEW s \in Nat, NEW l \in Nat, NEW a \in Nat, NEW b \in Nat, NEW d \in Nat,
         r >= l + a + d, s >= r - 1, b <= a - 1
  PROVE  s >= l + b + d
  OBVIOUS

LEMMA AnswerSent ==
  ASSUME TypeOK, TypeOK', AnswerInv, NEW w \in Workers, SendNext(w)
  PROVE  AnswersOf(w)'
<1> AnswersOf(w)
  BY DEF AnswerInv
<1>1. /\ sending[w] # <<>>
      /\ sending'[w] = <<>> \/ sending'[w] = Tail(sending[w])
      /\ UNCHANGED <<sendQueue, connThread, linked>>
  BY DEF SendNext, SendSucceeds, SendFails, Deliver, TypeOK, pool, peer, queue
<1>2. /\ requests[w] \in Nat /\ requests'[w] \in Nat /\ Len(sendQueue[w]) \in Nat
  BY LenProperties, ClientAssumption DEF TypeOK, AnswersOf, ClientAssumption
<1>3. CASE sending[w] \in Seq(Answers)
  <2>1. /\ AnswersSent(w) = Len(sending[w]) /\ AnswersSent(w) \in Nat
        /\ sending'[w] \in Seq(Answers)
        /\ AnswersSent(w)' \in Nat /\ AnswersSent(w)' <= AnswersSent(w) - 1
    <3>1. /\ AnswersSent(w) = Len(sending[w]) /\ Len(sending[w]) \in Nat \ {0}
      BY <1>1, <1>3, EmptySeq, LenProperties DEF AnswersSent
    <3>2. /\ Tail(sending[w]) \in Seq(Answers) /\ Len(Tail(sending[w])) = Len(sending[w]) - 1
      BY <1>1, <1>3, HeadTailProperties
    <3>3. sending'[w] \in Seq(Answers)
            /\ (Len(sending'[w]) = 0 \/ Len(sending'[w]) = Len(sending[w]) - 1)
      BY <1>1, <3>2, EmptySeq
    <3>4. AnswersSent(w)' = Len(sending'[w])
      BY <3>3 DEF AnswersSent
    <3> QED
      BY <3>1, <3>3, <3>4
  <2>2. linked[w] => requests'[w] >= requests[w] - 1
    BY <1>2 DEF SendNext, SendSucceeds, SendFails, Deliver, TypeOK, peer
  <2>3. linked'[w] => requests'[w] >= Len(sendQueue'[w]) + AnswersSent(w)' + AnswersDue(w)'
    <3> SUFFICES ASSUME linked'[w]
                 PROVE  requests'[w] >= Len(sendQueue'[w]) + AnswersSent(w)' + AnswersDue(w)'
      OBVIOUS
    <3>1. AnswersDue(w)' = AnswersDue(w) /\ AnswersDue(w) \in Nat
      BY <1>1 DEF AnswersDue, One
    <3>2. Len(sendQueue'[w]) = Len(sendQueue[w]) /\ linked[w]
      BY <1>1
    <3>3. requests[w] >= Len(sendQueue[w]) + AnswersSent(w) + AnswersDue(w)
      BY <3>2 DEF AnswersOf
    <3>4. requests'[w] >= requests[w] - 1
      BY <2>2, <3>2
    <3>5. AnswersSent(w) \in Nat /\ AnswersSent(w)' \in Nat /\ AnswersSent(w)' <= AnswersSent(w) - 1
      BY <2>1
    <3>6. requests'[w] >= Len(sendQueue[w]) + AnswersSent(w)' + AnswersDue(w)
      BY <1>2, <3>1, <3>3, <3>4, <3>5, OneAnswered
    <3> QED
      BY <3>1, <3>2, <3>6
  <2> QED
    BY <1>1, <2>1, <2>3 DEF AnswersOf
<1>4. CASE sending[w] \notin Seq(Answers)
  <2>1. PICK n \in Numbers : sending[w] = <<Message("Status", n)>>
    BY <1>4 DEF AnswersOf
  <2>2. AnswersSent(w) = 0 /\ sending'[w] = <<>>
    BY <1>1, <1>4, <2>1 DEF AnswersSent
  <2>3. Head(sending[w]).type = "Status"
    BY <2>1 DEF Message
  <2>4. requests' = requests
    BY <2>3 DEF SendNext, SendSucceeds, SendFails, Deliver, peer
  <2>5. sending'[w] \in Seq(Answers) /\ AnswersSent(w)' = 0
    BY <2>2, EmptySeq DEF AnswersSent
  <2> QED
    BY <1>1, <1>2, <2>2, <2>4, <2>5 DEF AnswersOf, AnswersDue, One
<1> QED
  BY <1>3, <1>4

LEMMA AnswerBusyStep ==
  ASSUME TypeOK, TypeOK', LivesInv, FreshInv, AnswerInv, NEW w \in Workers,
         Join(w) \/ ConnectToWorker(w) \/ TakeMessages(w) \/ RequestJob(w) \/ EnqueueSend(w)
  PROVE  AnswersOf(w)'
<1> AnswersOf(w) /\ LivesOf(w) /\ FreshOf(w)
  BY DEF AnswerInv, LivesInv, FreshInv
<1>0. /\ requests[w] \in Nat /\ requests'[w] \in Nat
      /\ Len(sendQueue[w]) \in Nat /\ AnswersSent(w) \in Nat
  BY LenProperties, ClientAssumption DEF TypeOK, AnswersOf, AnswersSent, ClientAssumption
<1>1. CASE Join(w)
  <2>1. /\ ~linked[w] /\ sending[w] = <<>>
        /\ UNCHANGED <<sending, linked>> /\ sendQueue'[w] = <<>>
    BY <1>1 DEF Join, LivesOf, FreshOf, TypeOK, peer
  <2> QED
    BY <2>1, EmptySeq DEF AnswersOf
<1>2. CASE ConnectToWorker(w)
  <2>1. /\ sendQueue[w] = <<>> /\ sending[w] = <<>> /\ UNCHANGED <<sendQueue, sending>>
        /\ connThread[w] = "none" /\ ~linked[w] /\ connThread'[w] \in {"none", "receive"}
    BY <1>2 DEF ConnectToWorker, LivesOf, FreshOf, TypeOK, queue, SenderAt
  <2>2. AnswersSent(w)' = 0 /\ Len(sendQueue'[w]) = 0
    BY <2>1, EmptySeq DEF AnswersSent
  <2>3. AnswersDue(w)' = 0
    BY <2>1 DEF AnswersDue, One
  <2>4. sendQueue'[w] \in Seq(Answers) /\ sending'[w] \in Seq(Answers)
    BY <2>1, EmptySeq
  <2> QED
    BY <1>0, <2>2, <2>3, <2>4 DEF AnswersOf
<1>3. CASE TakeMessages(w)
  <2>1. /\ sending[w] = <<>> /\ UNCHANGED <<linked, requests, connThread>>
    BY <1>3 DEF TakeMessages, FreshOf, SenderAt, peer
  <2>2. AnswersSent(w) = 0
    BY <2>1, NothingSent
  <2>3. CASE msgStatus[w] # Empty
    <3>1. /\ sendQueue' = sendQueue /\ sending'[w] = <<Message("Status", msgStatus[w])>>
          /\ msgStatus[w] \in Numbers
      BY <1>3, <2>3 DEF TakeMessages, TypeOK
    <3>2. AnswersSent(w)' = 0
      BY <3>1, StatusIsNoAnswer DEF AnswersSent
    <3>3. AnswersDue(w)' = AnswersDue(w) /\ AnswersDue(w) \in Nat
      BY <2>1 DEF AnswersDue, One
    <3> QED
      BY <1>0, <2>1, <2>2, <3>1, <3>2, <3>3 DEF AnswersOf
  <2>4. CASE msgStatus[w] = Empty
    <3>1. sending'[w] = sendQueue[w] /\ sendQueue'[w] = <<>>
      BY <1>3, <2>4 DEF TakeMessages, TypeOK
    <3>2. AnswersSent(w)' = Len(sendQueue[w])
      BY <3>1 DEF AnswersSent, AnswersOf
    <3>3. AnswersDue(w)' = AnswersDue(w) /\ AnswersDue(w) \in Nat
      BY <2>1 DEF AnswersDue, One
    <3>4. sendQueue'[w] \in Seq(Answers) /\ Len(sendQueue'[w]) = 0
      BY <3>1, EmptySeq
    <3> QED
      BY <1>0, <2>1, <2>2, <3>1, <3>2, <3>3, <3>4 DEF AnswersOf
  <2> QED
    BY <2>3, <2>4
<1>4. CASE RequestJob(w)
  <2>1. /\ UNCHANGED <<sendQueue, sending, linked>> /\ requests'[w] = requests[w] + 1
        /\ connThread[w] = "receive"
    BY <1>4 DEF RequestJob, TypeOK, queue, sender, ConnAt
  <2>2. AnswersSent(w)' = AnswersSent(w)
    BY <2>1 DEF AnswersSent
  <2> QED
    BY <1>0, <2>1, <2>2 DEF AnswersOf, AnswersDue, One
<1>5. CASE EnqueueSend(w)
  <2>1. /\ UNCHANGED <<sending, linked, requests>>
        /\ sendQueue'[w] = Append(sendQueue[w], Message(connThread[w], 0))
        /\ connThread[w] \in {"grant", "refuse"} /\ connThread'[w] = "signal"
    BY <1>5 DEF EnqueueSend, TypeOK, peer, sender, ConnAt, ConnGoes
  <2>2. AnswersSent(w)' = AnswersSent(w)
    BY <2>1 DEF AnswersSent
  <2>3. Message(connThread[w], 0) \in Answers
    BY <2>1 DEF Message, Answers
  <2>4. sendQueue'[w] \in Seq(Answers) /\ Len(sendQueue'[w]) = Len(sendQueue[w]) + 1
    BY <2>1, <2>3, AppendProperties DEF AnswersOf
  <2> QED
    BY <1>0, <2>1, <2>2, <2>4 DEF AnswersOf, AnswersDue, One
<1> QED
  BY <1>1, <1>2, <1>3, <1>4, <1>5

LEMMA AnswerStep ==
  ASSUME TypeOK, TypeOK', LivesInv, FreshInv, AnswerInv, Next
  PROVE  AnswerInv'
<1> SUFFICES ASSUME NEW v \in Workers PROVE AnswersOf(v)'
  BY DEF AnswerInv
<1>1. CASE Exited \/ EndPhase \/ JobsChange \/ ClientDeleted
  BY <1>1, AnswerQuietStep
<1>2. ASSUME NEW w \in Workers,
             \/ CleanUp(w) \/ Clear(w) \/ Quit(w) \/ SignalQuit(w) \/ Connect(w) \/ DoNotConnect(w)
             \/ Communicate(w) \/ EnqueueSendJobAvailability(w) \/ SignalAvailability(w)
             \/ ShutDown(w) \/ ClientDisconnects(w)
             \/ CountJobs(w) \/ StoreCount(w) \/ Greet(w) \/ WakeUp(w) \/ AllSent(w)
             \/ Complete(w) \/ SenderShutsDown(w) \/ SenderDisconnects(w)
             \/ TrackJob(w) \/ SignalReply(w) \/ Leave(w) \/ OnDisconnected(w) \/ SignalSender(w)
             \/ Close(w) \/ LinkLost(w)
      PROVE  AnswersOf(v)'
  BY <1>2, AnswerQuietStep
<1>3. ASSUME NEW w \in Workers,
             Join(w) \/ ConnectToWorker(w) \/ TakeMessages(w) \/ SendNext(w) \/ RequestJob(w)
               \/ EnqueueSend(w)
      PROVE  AnswersOf(v)'
  BY <1>3, AnswerOther, AnswerSent, AnswerBusyStep
<1> QED
  BY <1>1, <1>2, <1>3 DEF Next, ClientStep, SenderStep, ConnStep

---------------------------------------------------------------------------
(* Types                                                                   *)

\* TypeOK in parts, one for each group of variables
TypeClient ==
    /\ available \in Numbers /\ shouldExit \in BOOLEAN
    /\ phase \in {"cleanUp", "connect", "communicate", "shutdown", "clear", "exited"}
    /\ visit \subseteq Workers /\ current \in Workers \cup {Nobody}
    /\ step \in {"visit", "quit", "signalQuit", "join", "enqueue", "signal", "disconnect"}
    /\ number \in Numbers /\ expired \in BOOLEAN
    /\ alive \in [Workers -> BOOLEAN]
TypeSender ==
    /\ sendThread \in [Workers -> {"connect", "count", "store", "greet", "wait", "take", "send",
                                   "ended", "shutdown", "disconnect", "exited"}]
    /\ counted \in [Workers -> Numbers] /\ sending \in [Workers -> Seq(Messages)]
    /\ complete \in [Workers -> BOOLEAN]
TypeQueue ==
    /\ told \in [Workers -> Numbers] /\ sendQueue \in [Workers -> Seq(Messages)]
    /\ sendQuit \in [Workers -> BOOLEAN] /\ wakeUps \in [Workers -> 0 .. MaxSignals]
    /\ msgStatus \in [Workers -> Numbers \cup {Empty}]
TypePool ==
    /\ shuttingDown \in [Workers -> BOOLEAN]
    /\ connected \in [Workers -> BOOLEAN] /\ quitting \in [Workers -> BOOLEAN]
TypeReceiver ==
    connThread \in [Workers -> {"none", "receive", "track", "grant", "refuse", "signal",
                                "disconnected", "signalQuit", "waitForSender"}]
TypePeer ==
    /\ linked \in [Workers -> BOOLEAN]
    /\ believed \in [Workers -> Numbers] /\ requests \in [Workers -> 0 .. MaxRequests]

LEMMA TypeParts ==
  TypeOK <=> TypeClient /\ TypeSender /\ TypeQueue /\ TypePool /\ TypeReceiver /\ TypePeer
  BY DEF TypeOK, TypeClient, TypeSender, TypeQueue, TypePool, TypeReceiver, TypePeer

LEMMA TypePartsNext ==
  TypeOK' <=> TypeClient' /\ TypeSender' /\ TypeQueue' /\ TypePool' /\ TypeReceiver' /\ TypePeer'
  BY DEF TypeOK, TypeClient, TypeSender, TypeQueue, TypePool, TypeReceiver, TypePeer

\* A group that a step leaves alone keeps its types.
LEMMA TypeFrame ==
  ASSUME TypeOK
  PROVE  /\ UNCHANGED <<available, shouldExit, clientThread, alive>> => TypeClient'
         /\ UNCHANGED sender => TypeSender'
         /\ UNCHANGED <<queue, sendQuit>> => TypeQueue'
         /\ UNCHANGED pool => TypePool'
         /\ UNCHANGED connThread => TypeReceiver'
         /\ UNCHANGED peer => TypePeer'
<1>1. UNCHANGED <<available, shouldExit, clientThread, alive>> => TypeClient'
  BY TypeParts DEF TypeClient, clientThread
<1>2. UNCHANGED sender => TypeSender'
  BY TypeParts DEF TypeSender, sender
<1>3. UNCHANGED <<queue, sendQuit>> => TypeQueue'
  BY TypeParts DEF TypeQueue, queue
<1>4. UNCHANGED pool => TypePool'
  BY TypeParts DEF TypePool, pool
<1>5. UNCHANGED connThread => TypeReceiver'
  BY TypeParts DEF TypeReceiver
<1>6. UNCHANGED peer => TypePeer'
  BY TypeParts DEF TypePeer, peer
<1> QED
  BY <1>1, <1>2, <1>3, <1>4, <1>5, <1>6

LEMMA TypeClientStep ==
  ASSUME TypeOK, ClientStep
  PROVE  TypeOK'
<1> TypeClient /\ TypeSender /\ TypeQueue /\ TypePool /\ TypeReceiver /\ TypePeer
  BY TypeParts
<1>0. 0 \in Numbers /\ 0 \in 0 .. MaxSignals /\ 0 \in 0 .. MaxRequests /\ <<>> \in Seq(Messages)
  BY EmptySeq, ClientAssumption DEF ClientAssumption, Numbers
<1>1. CASE EndPhase
  <2>1. TypeClient'
    <3>1. phase' \in {"cleanUp", "connect", "communicate", "shutdown", "clear", "exited"}
      BY <1>1 DEF EndPhase, NextPhase, TypeClient
    <3>2. number' \in Numbers /\ visit' \subseteq Workers /\ expired' \in BOOLEAN
      BY <1>0, <1>1 DEF EndPhase, Active, TypeClient
    <3>3. UNCHANGED <<available, shouldExit, step, current, alive>>
      BY <1>1 DEF EndPhase
    <3> QED
      BY <3>1, <3>2, <3>3 DEF TypeClient
  <2>2. TypeSender' /\ TypeQueue' /\ TypePool' /\ TypeReceiver' /\ TypePeer'
    BY <1>1, TypeFrame DEF EndPhase
  <2> QED
    BY <2>1, <2>2, TypePartsNext
<1>2. ASSUME NEW w \in Workers, CleanUp(w) \/ Clear(w) \/ DoNotConnect(w) \/ Communicate(w)
      PROVE  TypeOK'
  <2>1. TypeClient'
    BY <1>0, <1>2 DEF CleanUp, Clear, DoNotConnect, Communicate, TypeClient, clientThread, LookAt, Done, Visits
  <2>2. TypeSender' /\ TypeQueue' /\ TypePool' /\ TypeReceiver' /\ TypePeer'
    BY <1>2, TypeFrame DEF CleanUp, Clear, DoNotConnect, Communicate
  <2> QED
    BY <2>1, <2>2, TypePartsNext
<1>3. ASSUME NEW w \in Workers, Quit(w)
      PROVE  TypeOK'
  <2>1. TypeClient'
    BY <1>0, <1>3 DEF Quit, TypeClient, clientThread, LookAt, Done, Visits
  <2>2. TypeQueue'
    BY <1>0, <1>3 DEF Quit, TypeQueue, queue, Signal
  <2>3. TypeSender' /\ TypePool' /\ TypeReceiver' /\ TypePeer'
    BY <1>3, TypeFrame DEF Quit
  <2> QED
    BY <2>1, <2>2, <2>3, TypePartsNext
<1>4. ASSUME NEW w \in Workers, SignalQuit(w)
      PROVE  TypeOK'
  <2>1. TypeClient'
    BY <1>0, <1>4 DEF SignalQuit, TypeClient, clientThread, LookAt, Done, Visits
  <2>2. TypeQueue'
    <3>1. wakeUps' \in [Workers -> 0 .. MaxSignals]
      BY <1>4, SignalCounts DEF SignalQuit
    <3> QED
      BY <1>4, <3>1 DEF SignalQuit, TypeQueue, queue
  <2>3. TypeSender' /\ TypePool' /\ TypeReceiver' /\ TypePeer'
    BY <1>4, TypeFrame DEF SignalQuit
  <2> QED
    BY <2>1, <2>2, <2>3, TypePartsNext
<1>5. ASSUME NEW w \in Workers, SignalAvailability(w)
      PROVE  TypeOK'
  <2>1. TypeClient'
    BY <1>0, <1>5 DEF SignalAvailability, TypeClient, clientThread, LookAt, Done, Visits
  <2>2. TypeQueue'
    <3>1. wakeUps' \in [Workers -> 0 .. MaxSignals]
      BY <1>5, SignalCounts DEF SignalAvailability
    <3> QED
      BY <1>5, <3>1 DEF SignalAvailability, TypeQueue, queue
  <2>3. TypeSender' /\ TypePool' /\ TypeReceiver' /\ TypePeer'
    BY <1>5, TypeFrame DEF SignalAvailability
  <2> QED
    BY <2>1, <2>2, <2>3, TypePartsNext
<1>6. ASSUME NEW w \in Workers, Join(w)
      PROVE  TypeOK'
  <2>1. TypeClient'
    BY <1>0, <1>6 DEF Join, TypeClient, clientThread, LookAt, Done, Visits
  <2>2. TypeSender'
    BY <1>0, <1>6 DEF Join, TypeSender, SenderGoes, SenderAt, sender
  <2>3. TypeQueue'
    BY <1>0, <1>6 DEF Join, TypeQueue, queue, Signal
  <2>4. TypePool'
    BY <1>0, <1>6 DEF Join, TypePool, pool, Disconnect
  <2>5. TypeReceiver' /\ TypePeer'
    BY <1>6, TypeFrame DEF Join
  <2> QED
    BY <2>1, <2>2, <2>3, <2>4, <2>5, TypePartsNext
<1>7. ASSUME NEW w \in Workers, Connect(w)
      PROVE  TypeOK'
  <2>1. TypeClient'
    BY <1>0, <1>7 DEF Connect, TypeClient, clientThread, LookAt, Done, Visits
  <2>2. TypeSender'
    BY <1>0, <1>7 DEF Connect, TypeSender, SenderGoes, SenderAt, sender
  <2>3. TypeQueue' /\ TypePool' /\ TypeReceiver' /\ TypePeer'
    BY <1>7, TypeFrame DEF Connect
  <2> QED
    BY <2>1, <2>2, <2>3, TypePartsNext
<1>8. ASSUME NEW w \in Workers, EnqueueSendJobAvailability(w)
      PROVE  TypeOK'
  <2>1. TypeClient'
    BY <1>0, <1>8 DEF EnqueueSendJobAvailability, TypeClient, clientThread, LookAt, Done, Visits
  <2>2. TypeQueue'
    <3>1. /\ msgStatus' = [msgStatus EXCEPT ![w] = number]
          /\ told' = [told EXCEPT ![w] = number]
      BY <1>8 DEF EnqueueSendJobAvailability
    <3>2. UNCHANGED <<wakeUps, sendQueue, sendQuit>>
      BY <1>8 DEF EnqueueSendJobAvailability
    <3> QED
      BY <3>1, <3>2 DEF TypeQueue, TypeClient
  <2>3. TypeSender' /\ TypePool' /\ TypeReceiver' /\ TypePeer'
    BY <1>8, TypeFrame DEF EnqueueSendJobAvailability
  <2> QED
    BY <2>1, <2>2, <2>3, TypePartsNext
<1>9. ASSUME NEW w \in Workers, ShutDown(w)
      PROVE  TypeOK'
  <2>1. TypeClient'
    BY <1>0, <1>9 DEF ShutDown, TypeClient, clientThread, LookAt, Done, Visits
  <2>2. TypePool'
    BY <1>0, <1>9 DEF ShutDown, TypePool, pool, Disconnect
  <2>3. TypeSender' /\ TypeQueue' /\ TypeReceiver' /\ TypePeer'
    BY <1>9, TypeFrame DEF ShutDown
  <2> QED
    BY <2>1, <2>2, <2>3, TypePartsNext
<1>10. ASSUME NEW w \in Workers, ClientDisconnects(w)
       PROVE  TypeOK'
  <2>1. TypeClient'
    BY <1>0, <1>10 DEF ClientDisconnects, TypeClient, clientThread, LookAt, Done, Visits
  <2>2. TypePool'
    BY <1>0, <1>10 DEF ClientDisconnects, TypePool, pool, Disconnect
  <2>3. TypeSender' /\ TypeQueue' /\ TypeReceiver' /\ TypePeer'
    BY <1>10, TypeFrame DEF ClientDisconnects
  <2> QED
    BY <2>1, <2>2, <2>3, TypePartsNext
<1> QED
  BY <1>1, <1>2, <1>3, <1>4, <1>5, <1>6, <1>7, <1>8, <1>9, <1>10 DEF ClientStep

\* Only an answer to a request that counts is sent.
LEMMA DeliverType ==
  ASSUME TypeOK, NEW w \in Workers, NEW m \in Messages, Deliver(w, m),
         linked[w] /\ m.type \notin {"Connection", "Status"} => requests[w] > 0
  PROVE  TypePeer'
<1> TypePeer
  BY TypeParts
<1>1. CASE ~linked[w]
  BY <1>1, TypeFrame DEF Deliver
<1>2. CASE linked[w] /\ m.type \in {"Connection", "Status"}
  <2>1. m.number \in Numbers
    BY DEF Messages
  <2>2. believed' = [believed EXCEPT ![w] = m.number] /\ UNCHANGED <<linked, requests>>
    BY <1>2 DEF Deliver
  <2> QED
    BY <2>1, <2>2 DEF TypePeer
<1>3. CASE linked[w] /\ m.type \notin {"Connection", "Status"}
  <2>1. requests[w] - 1 \in 0 .. MaxRequests
    BY <1>3, ClientAssumption DEF ClientAssumption, TypePeer
  <2>2. requests' = [requests EXCEPT ![w] = requests[w] - 1] /\ UNCHANGED <<linked, believed>>
    BY <1>3 DEF Deliver
  <2> QED
    BY <2>1, <2>2 DEF TypePeer
<1> QED
  BY <1>1, <1>2, <1>3

\* There is a request for every answer that is to be sent.
LEMMA AnswerCounts ==
  ASSUME TypeOK, AnswerInv, NEW w \in Workers, sending[w] # <<>>
  PROVE  linked[w] /\ Head(sending[w]).type \notin {"Connection", "Status"} => requests[w] > 0
<1>1. AnswersOf(w)
  BY DEF AnswerInv
<1>2. CASE sending[w] \in Seq(Answers)
  <2>1. AnswersSent(w) \in Nat \ {0}
    BY <1>2, EmptySeq, LenProperties DEF AnswersSent
  <2>2. Len(sendQueue[w]) \in Nat /\ AnswersDue(w) \in Nat /\ requests[w] \in Nat
    BY <1>1, LenProperties, ClientAssumption
       DEF AnswersOf, AnswersDue, One, ClientAssumption, TypeOK
  <2>3. linked[w] => requests[w] >= Len(sendQueue[w]) + AnswersSent(w) + AnswersDue(w)
    BY <1>1 DEF AnswersOf
  <2> QED
    BY <2>1, <2>2, <2>3
<1>3. CASE sending[w] \notin Seq(Answers)
  <2>1. PICK n \in Numbers : sending[w] = <<Message("Status", n)>>
    BY <1>1, <1>3 DEF AnswersOf
  <2>2. Head(sending[w]) = Message("Status", n)
    BY <2>1
  <2> QED
    BY <2>2 DEF Message
<1> QED
  BY <1>2, <1>3

LEMMA TypeSenderStep ==
  ASSUME TypeOK, AnswerInv, NEW w \in Workers, SenderStep(w)
  PROVE  TypeOK'
<1> TypeClient /\ TypeSender /\ TypeQueue /\ TypePool /\ TypeReceiver /\ TypePeer
  BY TypeParts
<1>0. 0 \in Numbers /\ 0 \in 0 .. MaxSignals /\ 0 \in 0 .. MaxRequests /\ <<>> \in Seq(Messages)
  BY EmptySeq, ClientAssumption DEF ClientAssumption, Numbers
<1>1. CASE ConnectToWorker(w)
  <2>1. TypeSender'
    BY <1>0, <1>1 DEF ConnectToWorker, TypeSender, SenderGoes, SenderAt, sender
  <2>2. TypePool'
    BY <1>0, <1>1 DEF ConnectToWorker, TypePool, pool, Disconnect
  <2>3. TypeReceiver'
    BY <1>0, <1>1 DEF ConnectToWorker, TypeReceiver, ConnGoes, ConnAt
  <2>4. TypePeer'
    BY <1>0, <1>1 DEF ConnectToWorker, TypePeer, peer, HangUp
  <2>5. TypeClient' /\ TypeQueue'
    BY <1>1, TypeFrame DEF ConnectToWorker
  <2> QED
    BY <2>1, <2>2, <2>3, <2>4, <2>5, TypePartsNext
<1>2. CASE CountJobs(w)
  <2>1. TypeSender'
    <3>1. counted' = [counted EXCEPT ![w] = available] /\ available \in Numbers
      BY <1>2 DEF CountJobs, TypeClient
    <3>2. counted' \in [Workers -> Numbers]
      BY <3>1 DEF TypeSender
    <3> QED
      BY <1>2, <3>2 DEF CountJobs, TypeSender, SenderGoes
  <2>2. TypeClient' /\ TypeQueue' /\ TypePool' /\ TypeReceiver' /\ TypePeer'
    BY <1>2, TypeFrame DEF CountJobs
  <2> QED
    BY <2>1, <2>2, TypePartsNext
<1>3. CASE StoreCount(w)
  <2>1. TypeSender'
    BY <1>0, <1>3 DEF StoreCount, TypeSender, SenderGoes, SenderAt, sender
  <2>2. TypeQueue'
    <3>1. told' = [told EXCEPT ![w] = counted[w]] /\ counted[w] \in Numbers
      BY <1>3 DEF StoreCount, TypeSender
    <3> QED
      BY <1>3, <3>1 DEF StoreCount, TypeQueue
  <2>3. TypeClient' /\ TypePool' /\ TypeReceiver' /\ TypePeer'
    BY <1>3, TypeFrame DEF StoreCount
  <2> QED
    BY <2>1, <2>2, <2>3, TypePartsNext
<1>4. CASE Greet(w)
  <2>1. TypeSender'
    BY <1>0, <1>4 DEF Greet, TypeSender, SenderGoes, SenderAt, sender
  <2>2. TypePool'
    BY <1>4 DEF Greet, SendSucceeds, SendFails, Disconnect, TypePool, pool
  <2>3. TypePeer'
    <3>1. CASE UNCHANGED peer
      BY <3>1, TypeFrame
    <3>2. CASE Deliver(w, Message("Connection", counted[w]))
      <4>1. Message("Connection", counted[w]) \in Messages
        BY DEF Message, Messages, MessageTypes, TypeSender
      <4>2. Message("Connection", counted[w]).type = "Connection"
        BY DEF Message
      <4> QED
        BY <3>2, <4>1, <4>2, DeliverType
    <3> QED
      BY <1>4, <3>1, <3>2 DEF Greet, SendSucceeds, SendFails
  <2>4. TypeClient' /\ TypeQueue' /\ TypeReceiver'
    BY <1>4, TypeFrame DEF Greet
  <2> QED
    BY <2>1, <2>2, <2>3, <2>4, TypePartsNext
<1>5. CASE WakeUp(w)
  <2>1. TypeSender'
    BY <1>0, <1>5 DEF WakeUp, TypeSender, SenderGoes, SenderAt, sender
  <2>2. TypeQueue'
    <3>1. wakeUps' \in [Workers -> 0 .. MaxSignals]
      <4>1. wakeUps[w] \in 0 .. MaxSignals /\ wakeUps[w] > 0
        BY <1>5 DEF WakeUp, TypeQueue
      <4>2. wakeUps[w] - 1 \in 0 .. MaxSignals
        BY <4>1, ClientAssumption DEF ClientAssumption
      <4> QED
        BY <1>5, <4>2 DEF WakeUp, TypeQueue
    <3> QED
      BY <1>5, <3>1 DEF WakeUp, TypeQueue
  <2>3. TypeClient' /\ TypePool' /\ TypeReceiver' /\ TypePeer'
    BY <1>5, TypeFrame DEF WakeUp
  <2> QED
    BY <2>1, <2>2, <2>3, TypePartsNext
<1>6. CASE TakeMessages(w)
  <2>1. TypeSender'
    <3>1. sending' \in [Workers -> Seq(Messages)]
      <4>1. CASE msgStatus[w] # Empty
        <5>1. msgStatus[w] \in Numbers
          BY <4>1 DEF TypeQueue
        <5>2. <<Message("Status", msgStatus[w])>> \in Seq(Messages)
          BY <5>1 DEF Message, Messages, MessageTypes
        <5> QED
          BY <1>6, <4>1, <5>2 DEF TakeMessages, TypeSender
      <4>2. CASE msgStatus[w] = Empty
        BY <1>6, <4>2 DEF TakeMessages, TypeSender, TypeQueue
      <4> QED
        BY <4>1, <4>2
    <3> QED
      BY <1>6, <3>1 DEF TakeMessages, TypeSender, SenderGoes
  <2>2. TypeQueue'
    BY <1>0, <1>6 DEF TakeMessages, TypeQueue, queue, Signal
  <2>3. TypeClient' /\ TypePool' /\ TypeReceiver' /\ TypePeer'
    BY <1>6, TypeFrame DEF TakeMessages
  <2> QED
    BY <2>1, <2>2, <2>3, TypePartsNext
<1>7. CASE SendNext(w)
  <2>1. TypeSender'
    <3>1. Tail(sending[w]) \in Seq(Messages)
      BY <1>7, HeadTailProperties DEF SendNext, TypeSender
    <3> QED
      BY <1>0, <1>7, <3>1 DEF SendNext, TypeSender, SenderGoes
  <2>2. TypePool'
    BY <1>7 DEF SendNext, SendSucceeds, SendFails, Disconnect, TypePool, pool
  <2>3. TypePeer'
    <3>1. CASE UNCHANGED peer
      BY <3>1, TypeFrame
    <3>2. CASE Deliver(w, Head(sending[w]))
      <4>1. sending[w] \in Seq(Messages) /\ sending[w] # <<>>
        BY <1>7 DEF SendNext, TypeSender
      <4>2. Head(sending[w]) \in Messages
        BY <4>1, HeadTailProperties
      <4>3. linked[w] /\ Head(sending[w]).type \notin {"Connection", "Status"} => requests[w] > 0
        BY <4>1, AnswerCounts
      <4> QED
        BY <3>2, <4>2, <4>3, DeliverType
    <3> QED
      BY <1>7, <3>1, <3>2 DEF SendNext, SendSucceeds, SendFails
  <2>4. TypeClient' /\ TypeQueue' /\ TypeReceiver'
    BY <1>7, TypeFrame DEF SendNext
  <2> QED
    BY <2>1, <2>2, <2>3, <2>4, TypePartsNext
<1>8. CASE AllSent(w) \/ Complete(w)
  <2>1. TypeSender'
    BY <1>0, <1>8 DEF AllSent, Complete, TypeSender, SenderGoes, SenderAt, sender
  <2>2. TypeClient' /\ TypeQueue' /\ TypePool' /\ TypeReceiver' /\ TypePeer'
    BY <1>8, TypeFrame DEF AllSent, Complete
  <2> QED
    BY <2>1, <2>2, TypePartsNext
<1>9. CASE SenderShutsDown(w)
  <2>1. TypeSender'
    BY <1>0, <1>9 DEF SenderShutsDown, TypeSender, SenderGoes, SenderAt, sender
  <2>2. TypePool'
    BY <1>0, <1>9 DEF SenderShutsDown, TypePool, pool, Disconnect
  <2>3. TypeClient' /\ TypeQueue' /\ TypeReceiver' /\ TypePeer'
    BY <1>9, TypeFrame DEF SenderShutsDown
  <2> QED
    BY <2>1, <2>2, <2>3, TypePartsNext
<1>10. CASE SenderDisconnects(w)
  <2>1. TypeSender'
    BY <1>0, <1>10 DEF SenderDisconnects, TypeSender, SenderGoes, SenderAt, sender
  <2>2. TypePool'
    BY <1>0, <1>10 DEF SenderDisconnects, TypePool, pool, Disconnect
  <2>3. TypeClient' /\ TypeQueue' /\ TypeReceiver' /\ TypePeer'
    BY <1>10, TypeFrame DEF SenderDisconnects
  <2> QED
    BY <2>1, <2>2, <2>3, TypePartsNext
<1> QED
  BY <1>1, <1>2, <1>3, <1>4, <1>5, <1>6, <1>7, <1>8, <1>9, <1>10 DEF SenderStep

LEMMA TypeOtherStep ==
  ASSUME TypeOK, NEW w \in Workers, RequestJob(w) \/ ConnStep(w) \/ LinkLost(w)
  PROVE  TypeOK'
<1> TypeClient /\ TypeSender /\ TypeQueue /\ TypePool /\ TypeReceiver /\ TypePeer
  BY TypeParts
<1>0. 0 \in Numbers /\ 0 \in 0 .. MaxSignals /\ 0 \in 0 .. MaxRequests /\ <<>> \in Seq(Messages)
  BY EmptySeq, ClientAssumption DEF ClientAssumption, Numbers
<1>1. CASE RequestJob(w)
  <2>1. TypeClient'
    <3>1. available' = available \/ (available > 0 /\ available' = available - 1)
      BY <1>1 DEF RequestJob
    <3>2. available' \in Numbers
      BY <3>1, ClientAssumption DEF ClientAssumption, Numbers, TypeClient
    <3>3. UNCHANGED <<shouldExit, phase, visit, step, current, number, expired, alive>>
      BY <1>1 DEF RequestJob, clientThread
    <3> QED
      BY <3>2, <3>3 DEF TypeClient
  <2>2. TypeReceiver'
    BY <1>0, <1>1 DEF RequestJob, TypeReceiver, ConnGoes, ConnAt
  <2>3. TypePeer'
    <3>1. requests[w] \in 0 .. MaxRequests /\ requests[w] < MaxRequests
      BY <1>1 DEF RequestJob, TypePeer
    <3>2. requests[w] + 1 \in 0 .. MaxRequests
      BY <3>1, ClientAssumption DEF ClientAssumption
    <3> QED
      BY <1>1, <3>2 DEF RequestJob, TypePeer
  <2>4. TypeSender' /\ TypeQueue' /\ TypePool'
    BY <1>1, TypeFrame DEF RequestJob
  <2> QED
    BY <2>1, <2>2, <2>3, <2>4, TypePartsNext
<1>2. CASE TrackJob(w)
  <2>1. TypeQueue'
    BY <1>0, <1>2 DEF TrackJob, TypeQueue, queue, Signal
  <2>2. TypeReceiver'
    BY <1>0, <1>2 DEF TrackJob, TypeReceiver, ConnGoes, ConnAt
  <2>3. TypeClient' /\ TypeSender' /\ TypePool' /\ TypePeer'
    BY <1>2, TypeFrame DEF TrackJob
  <2> QED
    BY <2>1, <2>2, <2>3, TypePartsNext
<1>3. CASE EnqueueSend(w)
  <2>1. TypeQueue'
    <3>1. Message(connThread[w], 0) \in Messages
      BY <1>0, <1>3 DEF EnqueueSend, Message, Messages, MessageTypes, ConnAt
    <3>2. Append(sendQueue[w], Message(connThread[w], 0)) \in Seq(Messages)
      BY <3>1, AppendProperties DEF TypeQueue
    <3> QED
      BY <1>3, <3>2 DEF EnqueueSend, TypeQueue
  <2>2. TypeReceiver'
    BY <1>0, <1>3 DEF EnqueueSend, TypeReceiver, ConnGoes, ConnAt
  <2>3. TypeClient' /\ TypeSender' /\ TypePool' /\ TypePeer'
    BY <1>3, TypeFrame DEF EnqueueSend
  <2> QED
    BY <2>1, <2>2, <2>3, TypePartsNext
<1>4. CASE SignalReply(w)
  <2>1. TypeQueue'
    <3>1. wakeUps' \in [Workers -> 0 .. MaxSignals]
      BY <1>4, SignalCounts DEF SignalReply
    <3> QED
      BY <1>4, <3>1 DEF SignalReply, TypeQueue, queue
  <2>2. TypeReceiver'
    BY <1>0, <1>4 DEF SignalReply, TypeReceiver, ConnGoes, ConnAt
  <2>3. TypeClient' /\ TypeSender' /\ TypePool' /\ TypePeer'
    BY <1>4, TypeFrame DEF SignalReply
  <2> QED
    BY <2>1, <2>2, <2>3, TypePartsNext
<1>5. CASE Leave(w)
  <2>1. TypeReceiver'
    BY <1>0, <1>5 DEF Leave, TypeReceiver, ConnGoes, ConnAt
  <2>2. TypeClient' /\ TypeSender' /\ TypeQueue' /\ TypePool' /\ TypePeer'
    BY <1>5, TypeFrame DEF Leave
  <2> QED
    BY <2>1, <2>2, TypePartsNext
<1>6. CASE OnDisconnected(w)
  <2>1. TypeQueue'
    BY <1>0, <1>6 DEF OnDisconnected, TypeQueue, queue, Signal
  <2>2. TypeReceiver'
    BY <1>0, <1>6 DEF OnDisconnected, TypeReceiver, ConnGoes, ConnAt
  <2>3. TypeClient' /\ TypeSender' /\ TypePool' /\ TypePeer'
    BY <1>6, TypeFrame DEF OnDisconnected
  <2> QED
    BY <2>1, <2>2, <2>3, TypePartsNext
<1>7. CASE SignalSender(w)
  <2>1. TypeQueue'
    <3>1. wakeUps' \in [Workers -> 0 .. MaxSignals]
      BY <1>7, SignalCounts DEF SignalSender
    <3> QED
      BY <1>7, <3>1 DEF SignalSender, TypeQueue, queue
  <2>2. TypeReceiver'
    BY <1>0, <1>7 DEF SignalSender, TypeReceiver, ConnGoes, ConnAt
  <2>3. TypeClient' /\ TypeSender' /\ TypePool' /\ TypePeer'
    BY <1>7, TypeFrame DEF SignalSender
  <2> QED
    BY <2>1, <2>2, <2>3, TypePartsNext
<1>8. CASE Close(w)
  <2>1. TypePool'
    BY <1>0, <1>8 DEF Close, TypePool, pool, Disconnect
  <2>2. TypeReceiver'
    BY <1>0, <1>8 DEF Close, TypeReceiver, ConnGoes, ConnAt
  <2>3. TypePeer'
    BY <1>0, <1>8 DEF Close, TypePeer, peer, HangUp
  <2>4. TypeClient' /\ TypeSender' /\ TypeQueue'
    BY <1>8, TypeFrame DEF Close
  <2> QED
    BY <2>1, <2>2, <2>3, <2>4, TypePartsNext
<1>9. CASE LinkLost(w)
  <2>1. TypePeer'
    BY <1>0, <1>9 DEF LinkLost, TypePeer, peer, HangUp
  <2>2. TypeClient' /\ TypeSender' /\ TypeQueue' /\ TypePool' /\ TypeReceiver'
    BY <1>9, TypeFrame DEF LinkLost
  <2> QED
    BY <2>1, <2>2, TypePartsNext
<1> QED
  BY <1>1, <1>2, <1>3, <1>4, <1>5, <1>6, <1>7, <1>8, <1>9 DEF ConnStep

LEMMA TypeUnchanged ==
  ASSUME TypeOK, UNCHANGED vars
  PROVE  TypeOK'
<1>1. UNCHANGED <<available, shouldExit, clientThread, alive, sender, queue, sendQuit, pool,
                  connThread, peer>>
  BY DEF vars
<1> QED
  BY <1>1, TypeFrame, TypePartsNext

LEMMA TypeStep ==
  ASSUME TypeOK, AnswerInv, Next
  PROVE  TypeOK'
<1>1. CASE Exited
  BY <1>1, TypeUnchanged DEF Exited
<1>2. CASE \E w \in Workers : SenderStep(w) \/ RequestJob(w) \/ ConnStep(w) \/ LinkLost(w)
  BY <1>2, TypeSenderStep, TypeOtherStep
<1>3. CASE JobsChange \/ ClientDeleted
  <2>1. TypeClient'
    BY <1>3, TypeParts DEF JobsChange, ClientDeleted, TypeClient, clientThread
  <2>2. TypeSender' /\ TypeQueue' /\ TypePool' /\ TypeReceiver' /\ TypePeer'
    BY <1>3, TypeFrame DEF JobsChange, ClientDeleted
  <2> QED
    BY <2>1, <2>2, TypePartsNext
<1> QED
  BY <1>1, <1>2, <1>3, TypeClientStep DEF Next

LEMMA InitIInv == Init => IInv
<1> SUFFICES ASSUME Init PROVE IInv
  OBVIOUS
<1>0. /\ 0 \in Numbers /\ 0 \in 0 .. MaxSignals /\ 0 \in 0 .. MaxRequests
      /\ <<>> \in Seq(Messages) /\ <<>> \in Seq(Answers)
  BY EmptySeq, ClientAssumption DEF ClientAssumption, Numbers
<1>1. TypeOK
  BY <1>0 DEF Init, TypeOK
<1>2. ClientInv
  BY DEF Init, ClientInv
<1>3. LivesInv /\ FreshInv
  BY DEF Init, LivesInv, LivesOf, FreshInv, FreshOf, Using
<1>4. WakeInv
  BY DEF Init, WakeInv, PendingOf, QuitOf, Ended
<1>5. AnswerInv
  BY <1>0 DEF Init, AnswerInv, AnswersOf
<1> QED
  BY <1>1, <1>2, <1>3, <1>4, <1>5 DEF IInv

LEMMA NextIInv == IInv /\ [Next]_vars => IInv'
<1> SUFFICES ASSUME IInv, [Next]_vars PROVE IInv'
  OBVIOUS
<1>1. CASE Next
  BY <1>1, TypeStep, ClientThreadStep, LivesStep, FreshStep, WakeStep, AnswerStep DEF IInv
<1>2. CASE UNCHANGED vars
  <2> USE DEF vars, clientThread, sender, queue, pool, peer
  <2>1. TypeOK'
    BY <1>2, TypeUnchanged DEF IInv
  <2>2. ClientInv' /\ LivesInv' /\ FreshInv'
    BY <1>2 DEF IInv, ClientInv, Active, LivesInv, LivesOf, FreshInv, FreshOf
  <2>3. WakeInv' /\ AnswerInv'
    BY <1>2 DEF IInv, WakeInv, PendingOf, QuitOf, WaitingOf, ComingOf, ReplyComing,
                AvailabilityComing, SenderAt, ConnAt, AnswerInv, AnswersOf, AnswersSent, AnswersDue
  <2> QED
    BY <2>1, <2>2, <2>3 DEF IInv
<1> QED
  BY <1>1, <1>2

LEMMA Inductive == Spec => []IInv
  BY InitIInv, NextIInv, PTL DEF Spec

---------------------------------------------------------------------------
(* Theorems                                                                *)

\* Every variable keeps the values its counterpart in the code can have; in particular no
\* answer is sent to a request that has been answered (Client.cpp, Process(MsgRequestJob) and
\* SendQueueMainLoop).
THEOREM ConnectionsTypeCorrect == Spec => []TypeOK
<1>1. IInv => TypeOK
  BY DEF IInv
<1> QED
  BY <1>1, Inductive, PTL

\* The send thread, the connection's thread and the client thread only use objects that
\* exist, however connections fail, end and are cleaned up (Client.cpp, OnDisconnected and
\* SendQueueThreadFuncStatic).
THEOREM ThreadsUseWhatExists == Spec => []NoUseAfterFree
<1>1. IInv => NoUseAfterFree
  BY DEF IInv, ClientInv, LivesInv, LivesOf, Using, NoUseAfterFree
<1> QED
  BY <1>1, Inductive, PTL

\* A pool is shut down, and its connection is gone, before it is destroyed
\* (~TCPConnectionPool).
THEOREM PoolsAreShutDown == Spec => []ShutDownBeforeDeleted
<1>1. IInv => ShutDownBeforeDeleted
  BY DEF IInv, LivesInv, LivesOf, ShutDownBeforeDeleted
<1> QED
  BY <1>1, Inductive, PTL

\* No message and no request to quit waits for the send thread without a wake-up, given or
\* about to be given, although it takes only the status or the queue each time
\* (SendQueueMainLoop).
THEOREM NoWakeUpIsLost == Spec => []WakeUpsSuffice
<1>1. ASSUME TypeOK, WakeInv PROVE WakeUpsSuffice
  <2> SUFFICES ASSUME NEW w \in Workers, PendingOf(w), QuitOf(w)
               PROVE  WakeUpsSuffice!(w)
    BY <1>1 DEF WakeInv, WakeUpsSuffice
  <2>1. SenderAt(w, "wait") \/ SenderAt(w, "take") \/ SenderAt(w, "send") =>
            WaitingOf(w) <= ComingOf(w) + One(SenderAt(w, "take"))
    BY DEF PendingOf, SenderAt, Ended
  <2>2. /\ wakeUps[w] \in Nat /\ ReplyComing(w) \in 0 .. 1 /\ AvailabilityComing(w) \in 0 .. 1
        /\ One(ConnAt(w, "signalQuit")) \in 0 .. 1
        /\ One(step = "signalQuit" /\ current = w) \in 0 .. 1
    BY <1>1, ClientAssumption
       DEF TypeOK, ClientAssumption, ReplyComing, AvailabilityComing, One
  <2>3. ASSUME sendQuit[w], SenderAt(w, "wait")
        PROVE  \/ wakeUps[w] > 0
               \/ ReplyComing(w) = 1 \/ One(ConnAt(w, "signalQuit")) = 1
               \/ AvailabilityComing(w) = 1 \/ One(step = "signalQuit" /\ current = w) = 1
    BY <2>3 DEF QuitOf, SenderAt, Ended, ReplyComing, AvailabilityComing, One
  <2>4. ASSUME sendQuit[w], SenderAt(w, "wait")
        PROVE  ComingOf(w) + One(ConnAt(w, "signalQuit")) + One(step = "signalQuit" /\ current = w) > 0
    BY <2>2, <2>3, <2>4 DEF ComingOf
  <2> QED
    BY <2>1, <2>4 DEF WaitingOf, ComingOf, ReplyComing, AvailabilityComing
<1> QED
  BY <1>1, Inductive, PTL DEF IInv
=============================================================================
