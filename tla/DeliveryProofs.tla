--------------------------- MODULE DeliveryProofs ---------------------------
(* What becomes of the messages of SpectreWebsocket: none is sent twice on a *)
(* connection, none out of order, and one session at a time loses none.      *)
EXTENDS SpectreWebsocketProofs

(***************************************************************************)
(* A message is made once: the response when it is sent, a notification    *)
(* when the handler of its request queues it or writes it to disk.  All    *)
(* else is copying.  What is made stays made (MadeStays), the message a    *)
(* handler is at comes after all that have been made (NewestLast), and     *)
(* every copy keeps the order (StreamStep, StoreStep).                     *)
(***************************************************************************)
Wired(c, m) == \E i \in DOMAIN wire[c] : wire[c][i].msg = m
Popped(c) == worker[c].pc \in {"formulate", "send"}

\* A request is brought in once; a connection is at work on its last one, and has answered
\* it before it schedules the notifications.
RequestInv ==
  /\ \A c, d \in Conn : \A x \in DOMAIN served[c], y \in DOMAIN served[d] :
       served[c][x] = served[d][y] => c = d /\ x = y
  /\ \A c \in Conn : loop[c].pc # "idle" =>
       /\ Len(served[c]) \in DOMAIN served[c]
       /\ loop[c].req = served[c][Len(served[c])]
       /\ loop[c].pc \in {"process", "send"} => loop[c].next = 0
       /\ loop[c].pc \notin {"process", "send"} =>
            loop[c].next > 0 /\ Wired(c, <<loop[c].req, 0>>)

\* m belongs to a request that was brought in.
Asked(m) == \E c \in Conn : \E x \in DOMAIN served[c] : served[c][x] = m[1]

\* The handler that makes m has made it, after it answered the request.
MadeBy(c, m) ==
  /\ \E x \in DOMAIN served[c] : served[c][x] = m[1]
  /\ m[2] > 0 => Wired(c, <<m[1], 0>>)
  /\ loop[c].pc # "idle" /\ loop[c].req = m[1] => m[2] < loop[c].next
Made(m) == m \in Message /\ \E c \in Conn : MadeBy(c, m)

\* Wherever there is a message, it has been made, except the last of those a handler is
\* about to write, which it is making.
MadeInv ==
  /\ \A c \in Conn :
       /\ \A i \in DOMAIN wire[c] : Made(wire[c][i].msg)
       /\ \A i \in DOMAIN queue[c] : Made(queue[c][i])
       /\ Popped(c) => Made(worker[c].msg)
       /\ worker[c].pc = "persist" => \A i \in DOMAIN worker[c].saved : Made(worker[c].saved[i])
       /\ loop[c].pc = "writeDisk" => LET s == loop[c].saved IN
            /\ Len(s) \in DOMAIN s /\ s[Len(s)] = <<loop[c].req, loop[c].next>>
            /\ \A i \in DOMAIN s : i < Len(s) => Made(s[i])
  /\ \A p \in Player : \A i \in DOMAIN disk[p] : Made(disk[p][i])

\* m is the earlier of two notifications that the requests of one connection produced.
Earlier(m, n) ==
  /\ m[2] > 0 /\ n[2] > 0
  /\ \E c \in Conn : \E x, y \in DOMAIN served[c] :
       /\ m[1] = served[c][x] /\ n[1] = served[c][y]
       /\ x < y \/ (x = y /\ m[2] < n[2])
MayPrecede(m, n) == m # n /\ ~Earlier(n, m)
InOrder(s) == \A i, j \in DOMAIN s : i < j => MayPrecede(s[i], s[j])

\* What a connection has been sent, what its worker holds and its queue are in order, one
\* after the other.
StreamInv(c) ==
  /\ \A i, j \in DOMAIN wire[c] : i < j => MayPrecede(wire[c][i].msg, wire[c][j].msg)
  /\ Popped(c) =>
       /\ \A i \in DOMAIN wire[c] : MayPrecede(wire[c][i].msg, worker[c].msg)
       /\ \A j \in DOMAIN queue[c] : MayPrecede(worker[c].msg, queue[c][j])
  /\ \A i \in DOMAIN wire[c], j \in DOMAIN queue[c] : MayPrecede(wire[c][i].msg, queue[c][j])
  /\ InOrder(queue[c])
  /\ worker[c].pc = "persist" =>
       /\ InOrder(worker[c].saved)
       /\ \A i \in DOMAIN wire[c], j \in DOMAIN worker[c].saved :
            MayPrecede(wire[c][i].msg, worker[c].saved[j])
StoreInv ==
  /\ \A p \in Player : InOrder(disk[p])
  /\ \A c \in Conn : loop[c].pc = "writeDisk" => InOrder(loop[c].saved)

\* On its own connection a notification comes after the response.
AnsweredInv ==
  \A c \in Conn : \A i \in DOMAIN wire[c] : LET m == wire[c][i].msg IN
    m[2] > 0 /\ (\E x \in DOMAIN served[c] : served[c][x] = m[1]) =>
      \E j \in DOMAIN wire[c] : j <= i /\ wire[c][j].msg = <<m[1], 0>>
BlankInv ==
  \A c \in Conn : session[c] = "new" => wire[c] = <<>> /\ queue[c] = <<>>
DeliveryInv ==
  RequestInv /\ MadeInv /\ (\A c \in Conn : StreamInv(c)) /\ StoreInv /\ AnsweredInv /\ BlankInv

-----------------------------------------------------------------------------
\* What one step can do to a handler ...
Rests(c) == loop'[c].pc = "idle" /\ served'[c] = served[c]
Continues(c) ==
  /\ loop[c].pc # "idle" /\ loop'[c].pc # "idle" /\ served'[c] = served[c]
  /\ loop'[c].req = loop[c].req /\ loop'[c].next = loop[c].next
  /\ loop[c].pc \in {"process", "send"} <=> loop'[c].pc \in {"process", "send"}
  /\ loop'[c].pc = "writeDisk" =>
       \/ loop[c].pc = "writeDisk" /\ loop'[c].saved = loop[c].saved
       \/ loop'[c].saved = Append(disk[Owner[c]], <<loop[c].req, loop[c].next>>)
Advances(c) ==
  /\ loop[c].pc \in {"send", "push", "writeDisk"} /\ served'[c] = served[c]
  /\ loop'[c].pc = "lookup"
  /\ loop'[c].req = loop[c].req /\ loop'[c].next = loop[c].next + 1
  /\ loop[c].pc = "send" => Wired(c, <<loop[c].req, 0>>)'
Receives(c) ==
  /\ loop[c].pc = "idle" /\ loop'[c].pc = "process" /\ loop'[c].next = 0
  /\ loop'[c].req \in Request
  /\ \A d \in Conn : \A y \in DOMAIN served[d] : served[d][y] # loop'[c].req
  /\ served' = [served EXCEPT ![c] = Append(@, loop'[c].req)]

\* ... to the messages on their way to a connection ...
Keeps(c) ==
  /\ wire'[c] = wire[c] /\ queue'[c] \in {queue[c], <<>>}
  /\ Popped(c)' => Popped(c) /\ worker'[c].msg = worker[c].msg
  /\ worker'[c].pc = "persist" => worker[c].pc = "persist" /\ worker'[c].saved = worker[c].saved
  /\ session'[c] = "new" => session[c] = "new"
  /\ Connected(c)' =>
       /\ Connected(c) /\ queue'[c] = queue[c]
       /\ Popped(c) => Popped(c)' /\ worker'[c].msg = worker[c].msg
Loads(c) ==
  /\ session[c] = "new" /\ session'[c] # "new"
  /\ wire'[c] = wire[c] /\ queue'[c] = disk[Owner[c]] /\ disk' = disk
  /\ worker'[c].pc = "check"
Pops(c) ==
  /\ queue[c] # <<>> /\ wire'[c] = wire[c] /\ queue'[c] = Tail(queue[c])
  /\ worker[c].pc = "check" /\ worker'[c].pc = "formulate" /\ worker'[c].msg = Head(queue[c])
  /\ session'[c] = session[c]
SendsPopped(c) ==
  /\ Popped(c) /\ worker'[c].pc = "snapshot" /\ queue'[c] = queue[c]
  /\ \E s \in Nat : wire'[c] = Append(wire[c], [seq |-> s, msg |-> worker[c].msg])
  /\ session'[c] = session[c]
Snapshots(c) ==
  /\ wire'[c] = wire[c] /\ queue'[c] = queue[c]
  /\ worker[c].pc = "snapshot" /\ worker'[c].pc = "persist" /\ worker'[c].saved = queue[c]
  /\ session'[c] = session[c]
Answers(c) ==
  /\ loop[c].pc = "send" /\ (loop'[c].pc # "idle" => Advances(c)) /\ served' = served
  /\ queue'[c] = queue[c] /\ worker'[c] = worker[c] /\ session'[c] = session[c]
  /\ \E s \in Nat : wire'[c] = Append(wire[c], [seq |-> s, msg |-> <<loop[c].req, 0>>])
Queues(c) ==
  \E e \in Conn :
    /\ loop[e].pc = "push" /\ (loop'[e].pc # "idle" => Advances(e)) /\ served' = served
    /\ queue'[c] = Append(queue[c], <<loop[e].req, loop[e].next>>)
    /\ wire' = wire /\ session'[c] = session[c] /\ session[c] # "new"
    /\ Popped(c)' <=> Popped(c)
    /\ worker'[c].pc = "persist" <=> worker[c].pc = "persist"
    /\ worker'[c].msg = worker[c].msg /\ worker'[c].saved = worker[c].saved

\* ... and to what a player has on disk.
DiskEffect(p) ==
  \/ disk'[p] = disk[p]
  \/ \E e \in Conn :
       /\ loop[e].pc = "writeDisk" /\ disk'[p] = loop[e].saved
       /\ (loop'[e].pc # "idle" => Advances(e)) /\ served' = served /\ wire' = wire
  \/ \E e \in Conn :
       /\ worker[e].pc = "persist" /\ worker'[e].pc = "release" /\ queue' = queue
       /\ Owner[e] = p /\ disk'[p] = worker[e].saved /\ wire' = wire

LEMMA NextPostSendMoves ==
  ASSUME TypeInv, NEW c \in Conn, loop[c].pc \in {"send", "push", "writeDisk"},
         loop' = [loop EXCEPT ![c] = NextPostSend(c)], served' = served,
         loop[c].pc = "send" => \A m : m = <<loop[c].req, 0>> => Wired(c, m)'
  PROVE  Rests(c) \/ Advances(c)
<1>1. loop \in [Conn -> LoopState]
  BY DEF TypeInv, TypeOK
<1>2. loop'[c] = NextPostSend(c)
  BY <1>1
<1> QED BY <1>2 DEF NextPostSend, IdleLoop, Handling, Rests, Advances

LEMMA LastWired ==
  ASSUME NEW c \in Conn, NEW f \in Frame, wire[c] \in Seq(Frame), wire'[c] = Append(wire[c], f)
  PROVE  /\ DOMAIN wire'[c] = DOMAIN wire[c] \union {Len(wire[c]) + 1}
         /\ \A i \in DOMAIN wire[c] : wire'[c][i] = wire[c][i] /\ i < Len(wire[c]) + 1
         /\ wire'[c][Len(wire[c]) + 1] = f
         /\ Len(wire[c]) + 1 \in DOMAIN wire'[c]
OBVIOUS

LEMMA LoopEffects ==
  ASSUME TypeInv, [Next]_vars, NEW c \in Conn
  PROVE  Rests(c) \/ Continues(c) \/ Advances(c) \/ Receives(c)
<1>0. loop \in [Conn -> LoopState] /\ wire \in [Conn -> Seq(Frame)] /\ served \in [Conn -> Seq(Request)]
  BY DEF TypeInv, TypeOK
<1>1. CASE Die
  BY <1>1 DEF Die, IdleLoop, Handling, Rests
<1>2. CASE UNCHANGED <<loop, served>>
  BY <1>2 DEF Rests, Continues
<1>3. ASSUME NEW e \in Conn, LoopStep(e)
      PROVE  \/ Die \/ UNCHANGED <<loop, served>>
             \/ Rests(c) \/ Continues(c) \/ Advances(c)
  <2>0. served' = served \/ Die
    BY <1>3 DEF LoopStep, AddConnection, SetContext, Refuse, FormulateFinalResponse, SendResponse,
         GetConnectionForPlayer, ScheduleNotification, ScheduleWithoutContext, ReadSavedNotifications,
         WriteSavedNotifications, AbandonPostSend, HandleConnectionClosed
  <2>1. CASE Refuse(e) \/ AbandonPostSend(e)
    <3>1. loop' = [loop EXCEPT ![e] = IdleLoop] /\ served' = served
      BY <2>1 DEF Refuse, AbandonPostSend
    <3>2. e = c => Rests(c)
      BY <1>0, <3>1 DEF IdleLoop, Handling, Rests
    <3>3. e # c => Rests(c) \/ Continues(c)
      BY <1>0, <3>1 DEF Rests, Continues
    <3> QED BY <3>2, <3>3
  <2>2. CASE FormulateFinalResponse(e)
    BY <1>0, <2>2 DEF FormulateFinalResponse, LoopState, Rests, Continues
  <2>3. CASE SendResponse(e)
    <3>1. ASSUME NEW m, m = <<loop[e].req, 0>> PROVE Wired(e, m)'
      <4> DEFINE f == [seq |-> loop[e].seq, msg |-> <<loop[e].req, 0>>]
      <4>1. f \in Frame
        BY <1>0, <2>3 DEF SendResponse, TypeInv, HandlerBusy, LoopState, Frame, Message
      <4>2. wire'[e] = Append(wire[e], f)
        BY <1>0, <2>3 DEF SendResponse, Deliver
      <4>3. f.msg = m
        BY <3>1
      <4> HIDE DEF f
      <4>4. wire[e] \in Seq(Frame)
        BY <1>0
      <4>5. Len(wire[e]) + 1 \in DOMAIN wire'[e] /\ wire'[e][Len(wire[e]) + 1] = f
        BY <4>1, <4>2, <4>4, LastWired
      <4> QED BY <4>3, <4>5 DEF Wired
    <3>2. Rests(e) \/ Advances(e)
      BY <2>3, <3>1, NextPostSendMoves DEF SendResponse
    <3>3. loop' = [loop EXCEPT ![e] = NextPostSend(e)] /\ served' = served
      BY <2>3 DEF SendResponse
    <3> QED BY <1>0, <3>2, <3>3 DEF Rests, Continues
  <2>4. CASE GetConnectionForPlayer(e)
    BY <1>0, <2>4 DEF GetConnectionForPlayer, LoopState, Rests, Continues
  <2>5. CASE ScheduleNotification(e) \/ WriteSavedNotifications(e)
    <3>1. /\ loop' = [loop EXCEPT ![e] = NextPostSend(e)] /\ served' = served
          /\ loop[e].pc \in {"push", "writeDisk"}
      BY <2>5 DEF ScheduleNotification, WriteSavedNotifications
    <3>2. Rests(e) \/ Advances(e)
      BY <3>1, NextPostSendMoves
    <3> QED BY <1>0, <3>1, <3>2 DEF Rests, Continues
  <2>6. CASE ReadSavedNotifications(e)
    BY <1>0, <2>6 DEF ReadSavedNotifications, LoopState, Rests, Continues
  <2> QED
    BY <1>3, <2>1, <2>2, <2>3, <2>4, <2>5, <2>6
       DEF LoopStep, AddConnection, SetContext, ScheduleWithoutContext, HandleConnectionClosed
<1>4. ASSUME NEW e \in Conn, WorkerStep(e)
      PROVE  Die \/ UNCHANGED <<loop, served>>
  BY <1>4
     DEF WorkerStep, WorkerPop, WorkerSleep, FormulateFinalNotification, WorkerSend,
         WorkerSnapshot, WorkerPersist, WorkerRelease, WorkerReleaseLast, WorkerStop
<1>5. ASSUME NEW e \in Conn, ClientStep(e)
      PROVE  UNCHANGED <<loop, served>> \/ Rests(c) \/ Continues(c) \/ Receives(c)
  <2>1. ASSUME NEW r \in Request, Receive(e, r)
        PROVE  Rests(c) \/ Continues(c) \/ Receives(c)
    <3>1. /\ loop' = [loop EXCEPT ![e] = Handling("process", r, 0)] /\ loop[e].pc = "idle"
          /\ served' = [served EXCEPT ![e] = Append(@, r)]
          /\ \A d \in Conn : \A y \in DOMAIN served[d] : served[d][y] # r
      BY <2>1 DEF Receive, Range
    <3>2. CASE e = c
      BY <1>0, <3>1, <3>2 DEF Receives, Handling
    <3>3. CASE e # c
      BY <1>0, <3>1, <3>3 DEF Rests, Continues
    <3> QED BY <3>2, <3>3
  <2> QED BY <1>5, <2>1 DEF ClientStep, LoadSavedNotifications, Disconnect
<1> QED BY <1>1, <1>2, <1>3, <1>4, <1>5 DEF Next, Crash, vars

LEMMA DieKeeps ==
  ASSUME TypeInv, NumberInv, Die, NEW c \in Conn
  PROVE  Keeps(c)
BY DEF Die, Keeps, Connected, Popped, Worker, TypeInv, TypeOK

LEMMA StreamEffects ==
  ASSUME TypeInv, NumberInv, [Next]_vars, NEW c \in Conn
  PROVE  \/ Keeps(c) \/ Loads(c) \/ Pops(c) \/ SendsPopped(c) \/ Snapshots(c)
         \/ Answers(c) \/ Queues(c)
<1>0. /\ loop \in [Conn -> LoopState] /\ worker \in [Conn -> WorkerState]
      /\ wire \in [Conn -> Seq(Frame)] /\ queue \in [Conn -> Seq(Message)]
      /\ session \in [Conn -> SessionState]
      /\ session[c] = "new" => worker[c].pc = "none"
      /\ \A e \in Conn : loop[e].pc # "idle" => session[e] = "open"
  BY DEF TypeInv, TypeOK, HandlerBusy, NumberInv, FreshInv
<1>1. CASE Die
  BY <1>1, DieKeeps
<1>2. CASE UNCHANGED <<wire, queue, worker, session>>
  BY <1>2 DEF Keeps, Connected, Popped
<1>3. ASSUME NEW e \in Conn, LoopStep(e), ~Die PROVE Keeps(c) \/ Answers(c) \/ Queues(c)
  <2>1. CASE AddConnection(e) \/ SetContext(e) \/ HandleConnectionClosed(e)
    BY <1>0, <2>1 DEF AddConnection, SetContext, HandleConnectionClosed, Keeps, Connected, Popped
  <2>2. CASE UNCHANGED <<wire, queue, worker, session>>
    BY <2>2 DEF Keeps, Connected, Popped
  <2>3. CASE SendResponse(e)
    <3>1. /\ loop[e].pc = "send" /\ loop' = [loop EXCEPT ![e] = NextPostSend(e)]
          /\ UNCHANGED <<session, worker, queue, served>>
          /\ wire' = [wire EXCEPT ![e] = Append(@, [seq |-> loop[e].seq, msg |-> <<loop[e].req, 0>>])]
      BY <2>3 DEF SendResponse, Deliver
    <3>2. CASE e = c
      <4>1. Rests(c) \/ Continues(c) \/ Advances(c) \/ Receives(c)
        BY LoopEffects
      <4>2. loop'[c].pc # "idle" => Advances(c)
        <5>1. loop'[c] = NextPostSend(c)
          BY <1>0, <3>1, <3>2
        <5>2. loop'[c].pc \in {"idle", "lookup"}
          BY <5>1 DEF NextPostSend, IdleLoop, Handling
        <5> QED BY <3>1, <3>2, <4>1, <5>2 DEF Rests, Continues, Receives
      <4>3. loop[c].seq \in Nat /\ session[c] = "open"
        BY <1>0, <3>1, <3>2 DEF LoopState
      <4> QED BY <1>0, <3>1, <3>2, <4>2, <4>3 DEF Answers
    <3>3. CASE e # c
      BY <1>0, <3>1, <3>3 DEF Keeps, Connected, Popped
    <3> QED BY <3>2, <3>3
  <2>4. CASE ScheduleNotification(e)
    <3> DEFINE d == loop[e].target
    <3>1. /\ loop[e].pc = "push" /\ loop' = [loop EXCEPT ![e] = NextPostSend(e)]
          /\ UNCHANGED <<session, wire, served>> /\ HasContext(d) /\ d \in Conn
          /\ queue' = [queue EXCEPT ![d] = Append(@, <<loop[e].req, loop[e].next>>)]
          /\ worker' = [worker EXCEPT ![d].pc = IF @ = "asleep" THEN "check" ELSE @]
      BY <2>4 DEF ScheduleNotification, NotifyWorker, TypeInv, HandlerBusy
    <3> HIDE DEF d
    <3>2. /\ worker'[c].msg = worker[c].msg /\ worker'[c].saved = worker[c].saved
          /\ worker'[c].pc = "persist" <=> worker[c].pc = "persist"
          /\ Popped(c)' <=> Popped(c)
      BY <1>0, <3>1 DEF WorkerState, Popped
    <3>3. CASE d = c
      <4>1. Rests(e) \/ Continues(e) \/ Advances(e) \/ Receives(e)
        BY LoopEffects
      <4>2. loop'[e].pc # "idle" => Advances(e)
        <5>1. loop'[e] = NextPostSend(e)
          BY <1>0, <3>1
        <5>2. loop'[e].pc \in {"idle", "lookup"} /\ (loop'[e].pc # "idle" => loop'[e].next = loop[e].next + 1)
          BY <5>1 DEF NextPostSend, IdleLoop, Handling
        <5>3. loop[e].next \in Nat
          BY <1>0 DEF LoopState
        <5> QED BY <3>1, <4>1, <5>2, <5>3 DEF Rests, Continues, Receives
      <4>3. queue'[c] = Append(queue[c], <<loop[e].req, loop[e].next>>) /\ session[c] # "new"
        BY <1>0, <3>1, <3>3 DEF HasContext
      <4> QED BY <3>1, <3>2, <4>2, <4>3 DEF Queues
    <3>4. CASE d # c
      BY <1>0, <3>1, <3>2, <3>4 DEF Keeps, Connected
    <3> QED BY <3>3, <3>4
  <2> QED
    BY <1>3, <2>1, <2>2, <2>3, <2>4
       DEF LoopStep, Refuse, FormulateFinalResponse, GetConnectionForPlayer, ScheduleWithoutContext,
           ReadSavedNotifications, WriteSavedNotifications, AbandonPostSend
<1>4. ASSUME NEW e \in Conn, WorkerStep(e), ~Die
      PROVE  Keeps(c) \/ Pops(c) \/ SendsPopped(c) \/ Snapshots(c)
  <2>1. CASE WorkerPop(e)
    BY <1>0, <2>1 DEF WorkerPop, PopFront, Worker, Connected, Pops, Keeps, Popped
  <2>2. CASE WorkerSleep(e) \/ WorkerRelease(e)
    BY <1>0, <2>2 DEF WorkerSleep, WorkerRelease, WorkerState, Keeps, Connected, Popped
  <2>3. CASE FormulateFinalNotification(e)
    BY <1>0, <2>3 DEF FormulateFinalNotification, WorkerState, Keeps, Connected, Popped
  <2>4. CASE WorkerSend(e)
    <3>1. CASE e = c /\ Connected(c)
      BY <1>0, <2>4, <3>1 DEF WorkerSend, Deliver, Connected, SendsPopped, Popped, WorkerState
    <3>2. CASE ~(e = c /\ Connected(c))
      BY <1>0, <2>4, <3>2 DEF WorkerSend, Deliver, Keeps, Connected, Popped, WorkerState
    <3> QED BY <3>1, <3>2
  <2>5. CASE WorkerSnapshot(e)
    BY <1>0, <2>5 DEF WorkerSnapshot, Snapshot, WorkerState, Keeps, Connected, Snapshots, Popped
  <2>6. CASE WorkerPersist(e)
    BY <1>0, <2>6 DEF WorkerPersist, Worker, Keeps, Connected, Popped
  <2>7. CASE WorkerStop(e)
    BY <1>0, <2>7 DEF WorkerStop, RefByOthers, WorkerState, Keeps, Connected, Popped
  <2> QED
    BY <1>4, <2>1, <2>2, <2>3, <2>4, <2>5, <2>6, <2>7 DEF WorkerStep, WorkerReleaseLast
<1>5. ASSUME NEW e \in Conn, ClientStep(e) PROVE Keeps(c) \/ Loads(c)
  <2>1. CASE LoadSavedNotifications(e)
    BY <1>0, <2>1 DEF LoadSavedNotifications, LoadFromDisk, Worker, Loads, Keeps, Connected, Popped
  <2>2. CASE Disconnect(e)
    BY <1>0, <2>2 DEF Disconnect, Keeps, Connected, Popped
  <2>3. CASE \E r \in Request : Receive(e, r)
    BY <2>3 DEF Receive, Keeps, Connected, Popped
  <2> QED BY <1>5, <2>1, <2>2, <2>3 DEF ClientStep
<1> QED BY <1>1, <1>2, <1>3, <1>4, <1>5 DEF Next, Crash, vars

LEMMA DiskEffects ==
  ASSUME TypeInv, [Next]_vars, NEW p \in Player
  PROVE  DiskEffect(p)
<1>0. loop \in [Conn -> LoopState] /\ disk \in [Player -> Seq(Message)]
  BY DEF TypeInv, TypeOK
<1>1. CASE Die \/ UNCHANGED disk
  BY <1>1 DEF Die, DiskEffect
<1>2. ASSUME NEW e \in Conn, WriteSavedNotifications(e) PROVE DiskEffect(p)
  <2>1. /\ loop[e].pc = "writeDisk" /\ disk' = [disk EXCEPT ![Owner[e]] = loop[e].saved]
        /\ loop' = [loop EXCEPT ![e] = NextPostSend(e)] /\ UNCHANGED <<wire, served>>
    BY <1>2 DEF WriteSavedNotifications
  <2>2. Rests(e) \/ Advances(e)
    BY <2>1, NextPostSendMoves
  <2>3. disk'[p] = disk[p] \/ disk'[p] = loop[e].saved
    BY <1>0, <2>1
  <2> QED BY <2>1, <2>2, <2>3 DEF DiskEffect, Rests
<1>3. ASSUME NEW e \in Conn, WorkerPersist(e) PROVE DiskEffect(p)
  <2>1. worker \in [Conn -> WorkerState] /\ Owner \in [Conn -> Player]
    BY ConstantsAssumption DEF TypeInv, TypeOK
  <2> QED BY <1>0, <1>3, <2>1 DEF WorkerPersist, Worker, DiskEffect
<1>4. Die \/ UNCHANGED disk \/ \E e \in Conn : WriteSavedNotifications(e) \/ WorkerPersist(e)
  BY DEF Next, vars, Crash, LoopStep, WorkerStep, ClientStep, LoadSavedNotifications, AddConnection,
         SetContext, Receive, Refuse, FormulateFinalResponse, SendResponse,
         GetConnectionForPlayer, ScheduleNotification, ScheduleWithoutContext,
         ReadSavedNotifications, AbandonPostSend, WorkerPop, HandleConnectionClosed,
         WorkerSleep, FormulateFinalNotification, WorkerSend, WorkerSnapshot,
         WorkerRelease, WorkerReleaseLast, WorkerStop, Disconnect
<1> QED BY <1>1, <1>2, <1>3, <1>4

\* One more message on the wire.
Sends(c, m) ==
  LET n == Len(wire[c]) + 1 IN
  /\ DOMAIN wire'[c] = DOMAIN wire[c] \union {n}
  /\ \A i \in DOMAIN wire[c] : wire'[c][i] = wire[c][i] /\ i < n
  /\ wire'[c][n].msg = m

LEMMA SendingWires ==
  ASSUME TypeInv, NEW c \in Conn
  PROVE  /\ SendsPopped(c) => Sends(c, worker[c].msg)
         /\ Answers(c) => Sends(c, <<loop[c].req, 0>>)
<1>1. ASSUME NEW m \in Message, NEW s \in Nat, wire'[c] = Append(wire[c], [seq |-> s, msg |-> m])
      PROVE  Sends(c, m)
  <2> DEFINE f == [seq |-> s, msg |-> m]
  <2>1. f \in Frame /\ f.msg = m /\ wire[c] \in Seq(Frame) /\ wire'[c] = Append(wire[c], f)
    BY <1>1 DEF Frame, TypeInv, TypeOK
  <2> HIDE DEF f
  <2> QED BY <2>1, LastWired DEF Sends
<1>2. SendsPopped(c) => worker[c].msg \in Message
  BY DEF SendsPopped, Popped, TypeInv, WorkerBusy
<1>3. Answers(c) => <<loop[c].req, 0>> \in Message
  BY DEF Answers, TypeInv, HandlerBusy, Message
<1> QED BY <1>1, <1>2, <1>3 DEF SendsPopped, Answers

LEMMA WireGrows ==
  ASSUME TypeInv, NumberInv, [Next]_vars, NEW c \in Conn
  PROVE  \A i \in DOMAIN wire[c] : i \in DOMAIN wire'[c] /\ wire'[c][i] = wire[c][i]
<1>1. wire'[c] = wire[c] \/ SendsPopped(c) \/ Answers(c)
  BY StreamEffects DEF Keeps, Loads, Pops, Snapshots, Queues
<1> QED BY <1>1, SendingWires DEF Sends

LEMMA ServedGrows ==
  ASSUME TypeInv, [Next]_vars, NEW c \in Conn
  PROVE  /\ \A x \in DOMAIN served[c] : x \in DOMAIN served'[c] /\ served'[c][x] = served[c][x]
         /\ \A x \in DOMAIN served'[c] : x \notin DOMAIN served[c] =>
              /\ Receives(c) /\ x = Len(served[c]) + 1
              /\ \A d \in Conn : \A y \in DOMAIN served[d] : served[d][y] # served'[c][x]
<1>0. served \in [Conn -> Seq(Request)]
  BY DEF TypeInv, TypeOK
<1>1. CASE served'[c] = served[c]
  BY <1>1
<1>2. CASE Receives(c)
  <2>1. served'[c] = Append(served[c], loop'[c].req) /\ loop'[c].req \in Request
    BY <1>0, <1>2 DEF Receives
  <2> QED BY <1>0, <1>2, <2>1 DEF Receives
<1> QED BY <1>1, <1>2, LoopEffects DEF Rests, Continues, Advances

LEMMA RequestStep ==
  ASSUME TypeInv, NumberInv, RequestInv, [Next]_vars
  PROVE  RequestInv'
<1>0. served \in [Conn -> Seq(Request)] /\ loop \in [Conn -> LoopState]
  BY DEF TypeInv, TypeOK
<1>1. ASSUME NEW c \in Conn, NEW d \in Conn, NEW x \in DOMAIN served'[c], NEW y \in DOMAIN served'[d],
             served'[c][x] = served'[d][y]
      PROVE  c = d /\ x = y
  <2>1. CASE x \in DOMAIN served[c] /\ y \in DOMAIN served[d]
    BY <1>1, <2>1, ServedGrows DEF RequestInv
  <2>2. CASE x \notin DOMAIN served[c] /\ y \notin DOMAIN served[d]
    <3>1. Receives(c) /\ Receives(d) /\ x = Len(served[c]) + 1 /\ y = Len(served[d]) + 1
      BY <2>2, ServedGrows
    <3>2. c = d
      <4>1. served'[c] # served[c]
        BY <2>2
      <4>2. c # d => served'[c] = served[c]
        BY <1>0, <3>1 DEF Receives
      <4> QED BY <4>1, <4>2
    <3> QED BY <3>1, <3>2
  <2>3. CASE x \in DOMAIN served[c] /\ y \notin DOMAIN served[d]
    BY <1>1, <2>3, ServedGrows
  <2>4. CASE x \notin DOMAIN served[c] /\ y \in DOMAIN served[d]
    BY <1>1, <2>4, ServedGrows
  <2> QED BY <2>1, <2>2, <2>3, <2>4
<1>2. ASSUME NEW c \in Conn, loop'[c].pc # "idle"
      PROVE  /\ Len(served'[c]) \in DOMAIN served'[c]
             /\ loop'[c].req = served'[c][Len(served'[c])]
             /\ loop'[c].pc \in {"process", "send"} => loop'[c].next = 0
             /\ loop'[c].pc \notin {"process", "send"} =>
                  loop'[c].next > 0 /\ Wired(c, <<loop[c].req, 0>>)'
  <2>1. CASE Continues(c)
    <3>1. \A m : Wired(c, m) => Wired(c, m)'
      BY WireGrows DEF Wired
    <3> QED BY <2>1, <3>1 DEF Continues, RequestInv
  <2>2. CASE Advances(c)
    <3>1. loop[c].next \in Nat
      BY <1>0 DEF LoopState
    <3>2. \A m : Wired(c, m) => Wired(c, m)'
      BY WireGrows DEF Wired
    <3>3. loop[c].pc # "send" => Wired(c, <<loop[c].req, 0>>)'
      BY <2>2, <3>2 DEF Advances, RequestInv
    <3> QED BY <2>2, <3>1, <3>3 DEF Advances, RequestInv, Wired
  <2>3. CASE Receives(c)
    <3>1. /\ served'[c] = Append(served[c], loop'[c].req) /\ loop'[c].req \in Request
          /\ loop'[c].pc = "process" /\ loop'[c].next = 0
      BY <1>0, <2>3 DEF Receives
    <3>2. /\ Len(served'[c]) \in DOMAIN served'[c]
          /\ loop'[c].req = served'[c][Len(served'[c])]
      BY <1>0, <3>1
    <3> QED BY <3>1, <3>2
  <2> QED BY <1>2, <2>1, <2>2, <2>3, LoopEffects DEF Rests
<1> QED BY <1>1, <1>2 DEF RequestInv

\* What is made stays made, and the order of what is made stays what it is.
LEMMA MadeIsAsked == \A m : Made(m) => Asked(m)
BY DEF Made, MadeBy, Asked

LEMMA MadeStays ==
  ASSUME TypeInv, NumberInv, RequestInv, [Next]_vars, NEW m, Made(m)
  PROVE  Made(m)'
<1>1. PICK c \in Conn : MadeBy(c, m)
  BY DEF Made
<1>2. m \in Message
  BY DEF Made
<1>3. \E x \in DOMAIN served'[c] : served'[c][x] = m[1]
  BY <1>1, ServedGrows DEF MadeBy
<1>4. m[2] > 0 => Wired(c, <<m[1], 0>>)'
  BY <1>1, WireGrows DEF MadeBy, Wired
<1>5. ASSUME loop'[c].pc # "idle", loop'[c].req = m[1] PROVE m[2] < loop'[c].next
  <2>1. loop[c].next \in Nat /\ m[2] \in Nat
    BY <1>2 DEF TypeInv, TypeOK, LoopState, Message
  <2>2. CASE Continues(c) \/ Advances(c)
    BY <1>1, <1>5, <2>1, <2>2 DEF Continues, Advances, MadeBy
  <2>3. CASE Receives(c)
    BY <1>1, <1>5, <2>3 DEF Receives, MadeBy
  <2> QED BY <1>5, <2>2, <2>3, LoopEffects DEF Rests
<1> QED BY <1>2, <1>3, <1>4, <1>5 DEF Made, MadeBy

LEMMA OrderStays ==
  ASSUME TypeInv, [Next]_vars, NEW m, NEW n, Asked(m), Asked(n), MayPrecede(m, n)
  PROVE  MayPrecede(m, n)'
<1> SUFFICES ASSUME Earlier(n, m)' PROVE Earlier(n, m)
  BY DEF MayPrecede
<1>1. PICK c \in Conn : \E x, y \in DOMAIN served'[c] :
        /\ n[1] = served'[c][x] /\ m[1] = served'[c][y]
        /\ x < y \/ (x = y /\ n[2] < m[2])
  BY DEF Earlier
<1>2. PICK x \in DOMAIN served'[c], y \in DOMAIN served'[c] :
        /\ n[1] = served'[c][x] /\ m[1] = served'[c][y]
        /\ x < y \/ (x = y /\ n[2] < m[2])
  BY <1>1
<1>3. x \in DOMAIN served[c] /\ y \in DOMAIN served[c]
  BY <1>2, ServedGrows DEF Asked
<1>4. n[1] = served[c][x] /\ m[1] = served[c][y]
  BY <1>2, <1>3, ServedGrows
<1>5. n[2] > 0 /\ m[2] > 0
  BY DEF Earlier
<1> QED BY <1>2, <1>3, <1>4, <1>5 DEF Earlier

\* The message a handler is at has not been made, is made when the handler goes on, and comes
\* after all that have been made.
LEMMA NewestLast ==
  ASSUME TypeInv, RequestInv, NEW c \in Conn, loop[c].pc # "idle", NEW m, Made(m)
  PROVE  MayPrecede(m, <<loop[c].req, loop[c].next>>)
<1> DEFINE new == <<loop[c].req, loop[c].next>>
<1>0. /\ served[c] \in Seq(Request) /\ m \in Message /\ loop[c].next \in Nat /\ m[2] \in Nat
      /\ new[1] = loop[c].req /\ new[2] = loop[c].next
  BY DEF TypeInv, TypeOK, LoopState, Made, Message
<1>1. PICK d \in Conn : MadeBy(d, m)
  BY DEF Made
<1>2. loop[c].req = served[c][Len(served[c])] /\ Len(served[c]) \in DOMAIN served[c]
  BY DEF RequestInv
<1>3. m[1] = loop[c].req => m[2] < loop[c].next
  <2>1. m[1] = loop[c].req => c = d
    BY <1>1, <1>2 DEF MadeBy, RequestInv
  <2> QED BY <1>1, <2>1 DEF MadeBy
<1>4. m # new
  BY <1>0, <1>3
<1>5. ASSUME Earlier(new, m) PROVE FALSE
  <2>1. PICK e \in Conn : \E x, y \in DOMAIN served[e] :
        /\ new[1] = served[e][x] /\ m[1] = served[e][y]
        /\ x < y \/ (x = y /\ new[2] < m[2])
    BY <1>5 DEF Earlier
  <2>2. PICK x \in DOMAIN served[e], y \in DOMAIN served[e] :
        /\ new[1] = served[e][x] /\ m[1] = served[e][y]
        /\ x < y \/ (x = y /\ new[2] < m[2])
    BY <2>1
  <2>3. e = c /\ x = Len(served[c])
    BY <1>0, <1>2, <2>2 DEF RequestInv
  <2>4. y <= Len(served[c])
    BY <1>0, <2>2, <2>3
  <2>5. x = y /\ new[2] < m[2]
    BY <1>0, <2>2, <2>3, <2>4
  <2> QED BY <1>0, <1>3, <2>2, <2>5
<1> QED BY <1>4, <1>5 DEF MayPrecede

LEMMA NewestMade ==
  ASSUME TypeInv, NumberInv, RequestInv, [Next]_vars, NEW c \in Conn,
         loop[c].pc \in {"send", "push", "writeDisk"},
         loop'[c].pc # "idle" => Advances(c), served' = served,
         NEW m, m = <<loop[c].req, loop[c].next>>
  PROVE  Made(m)'
<1>1. loop[c].req \in Request /\ loop[c].next \in Nat
  BY DEF TypeInv, TypeOK, LoopState, HandlerBusy
<1>2. m \in Message /\ m[1] = loop[c].req /\ m[2] = loop[c].next
  BY <1>1 DEF Message
<1>3. \E x \in DOMAIN served'[c] : served'[c][x] = m[1]
  BY <1>2 DEF RequestInv
<1>4. m[2] > 0 => Wired(c, <<m[1], 0>>)'
  <2>1. m[2] > 0 => Wired(c, <<m[1], 0>>)
    BY <1>2 DEF RequestInv
  <2> QED BY <2>1, WireGrows DEF Wired
<1>5. loop'[c].pc # "idle" /\ loop'[c].req = m[1] => m[2] < loop'[c].next
  BY <1>1, <1>2 DEF Advances
<1> QED BY <1>2, <1>3, <1>4, <1>5 DEF Made, MadeBy

\* Where a message can be; a handler's own copy of a column is apart.
Somewhere(c, m) ==
  \/ Wired(c, m)
  \/ \E i \in DOMAIN queue[c] : queue[c][i] = m
  \/ Popped(c) /\ worker[c].msg = m
  \/ worker[c].pc = "persist" /\ \E i \in DOMAIN worker[c].saved : worker[c].saved[i] = m
OnDisk(p, m) == \E i \in DOMAIN disk[p] : disk[p][i] = m

LEMMA MadeEverywhere ==
  MadeInv <=>
    /\ \A c \in Conn : \A m : Somewhere(c, m) => Made(m)
    /\ \A p \in Player : \A m : OnDisk(p, m) => Made(m)
    /\ \A c \in Conn : loop[c].pc = "writeDisk" => LET s == loop[c].saved IN
         /\ Len(s) \in DOMAIN s /\ s[Len(s)] = <<loop[c].req, loop[c].next>>
         /\ \A i \in DOMAIN s : i < Len(s) => Made(s[i])
BY DEF MadeInv, Somewhere, Wired, OnDisk

\* Whatever is somewhere was there, on disk, or is what a handler makes in this step.
LEMMA OnlyCopies ==
  ASSUME TypeInv, NumberInv, RequestInv, [Next]_vars, NEW c \in Conn, NEW m, Somewhere(c, m)'
  PROVE  \/ Somewhere(c, m)
         \/ OnDisk(Owner[c], m)
         \/ \E e \in Conn :
              /\ loop[e].pc \in {"send", "push"} /\ m = <<loop[e].req, loop[e].next>>
              /\ loop'[e].pc # "idle" => Advances(e)
              /\ served' = served
<1>0. /\ queue[c] \in Seq(Message) /\ Owner[c] \in Player
      /\ \A e \in Conn : loop[e].pc \in {"send", "push"} =>
           loop[e].req \in Request /\ loop[e].next \in Nat
  BY ConstantsAssumption DEF TypeInv, TypeOK, HandlerBusy, LoopState
<1>1. CASE Keeps(c)
  BY <1>0, <1>1 DEF Keeps, Somewhere, Wired
<1>2. CASE Loads(c)
  BY <1>0, <1>2 DEF Loads, Somewhere, Wired, OnDisk, Popped
<1>3. CASE Pops(c)
  <2>1. /\ 1 \in DOMAIN queue[c] /\ Head(queue[c]) = queue[c][1]
        /\ \A i \in DOMAIN Tail(queue[c]) : i + 1 \in DOMAIN queue[c] /\ Tail(queue[c])[i] = queue[c][i + 1]
    BY <1>0, <1>3 DEF Pops
  <2> QED BY <1>3, <2>1 DEF Pops, Somewhere, Wired
<1>4. CASE SendsPopped(c)
  <2>1. Sends(c, worker[c].msg)
    BY <1>4, SendingWires
  <2> QED BY <1>4, <2>1 DEF SendsPopped, Sends, Somewhere, Wired, Popped
<1>5. CASE Snapshots(c)
  BY <1>0, <1>5 DEF Snapshots, Somewhere, Wired, Popped
<1>6. CASE Answers(c)
  <2>1. Sends(c, <<loop[c].req, 0>>)
    BY <1>6, SendingWires
  <2>2. Somewhere(c, m) \/ m = <<loop[c].req, 0>>
    BY <1>6, <2>1 DEF Answers, Sends, Somewhere, Wired, Popped
  <2> QED BY <1>6, <2>2 DEF Answers, RequestInv
<1>7. CASE Queues(c)
  <2>1. PICK e \in Conn :
          /\ loop[e].pc = "push" /\ (loop'[e].pc # "idle" => Advances(e)) /\ served' = served
          /\ queue'[c] = Append(queue[c], <<loop[e].req, loop[e].next>>)
    BY <1>7 DEF Queues
  <2>2. <<loop[e].req, loop[e].next>> \in Message
    BY <1>0, <2>1 DEF Message
  <2>3. \A i \in DOMAIN queue'[c] : queue'[c][i] = <<loop[e].req, loop[e].next>> \/ (i \in DOMAIN queue[c] /\ queue'[c][i] = queue[c][i])
    BY <1>0, <2>1, <2>2, AppendLast
  <2>4. Somewhere(c, m) \/ m = <<loop[e].req, loop[e].next>>
    BY <1>7, <2>3 DEF Queues, Somewhere, Wired
  <2> QED BY <2>1, <2>4
<1> QED BY <1>1, <1>2, <1>3, <1>4, <1>5, <1>6, <1>7, StreamEffects

LEMMA MadeStep ==
  ASSUME TypeInv, TypeInv', NumberInv, RequestInv, MadeInv, [Next]_vars
  PROVE  MadeInv'
<1>0. Owner \in [Conn -> Player] /\ disk \in [Player -> Seq(Message)]
  BY ConstantsAssumption DEF TypeInv, TypeOK
<1>1. ASSUME NEW c \in Conn, NEW m, Somewhere(c, m)' PROVE Made(m)'
  <2>1. CASE Somewhere(c, m) \/ OnDisk(Owner[c], m)
    BY <1>0, <2>1, MadeEverywhere, MadeStays
  <2>2. CASE \E e \in Conn :
              /\ loop[e].pc \in {"send", "push"} /\ m = <<loop[e].req, loop[e].next>>
              /\ loop'[e].pc # "idle" => Advances(e)
              /\ served' = served
    BY <2>2, NewestMade
  <2> QED BY <1>1, <2>1, <2>2, OnlyCopies
<1>2. ASSUME NEW p \in Player, NEW m, OnDisk(p, m)' PROVE Made(m)'
  <2>1. CASE disk'[p] = disk[p]
    BY <1>2, <2>1, MadeEverywhere, MadeStays DEF OnDisk
  <2>2. ASSUME NEW e \in Conn, worker[e].pc = "persist", disk'[p] = worker[e].saved
        PROVE  Made(m)'
    BY <1>2, <2>2, MadeStays DEF OnDisk, MadeInv
  <2>3. ASSUME NEW e \in Conn, loop[e].pc = "writeDisk", disk'[p] = loop[e].saved,
               loop'[e].pc # "idle" => Advances(e), served' = served
        PROVE  Made(m)'
    <3>1. PICK i \in DOMAIN loop[e].saved : loop[e].saved[i] = m
      BY <1>2, <2>3 DEF OnDisk
    <3>2. loop[e].saved \in Seq(Message)
      BY DEF TypeInv, TypeOK, LoopState
    <3>3. i < Len(loop[e].saved) => Made(m)
      BY <2>3, <3>1 DEF MadeInv
    <3>4. i = Len(loop[e].saved) => m = <<loop[e].req, loop[e].next>>
      BY <2>3, <3>1 DEF MadeInv
    <3> QED BY <2>3, <3>2, <3>3, <3>4, MadeStays, NewestMade
  <2> QED BY <2>1, <2>2, <2>3, DiskEffects DEF DiskEffect
<1>3. ASSUME NEW c \in Conn, loop'[c].pc = "writeDisk"
      PROVE  /\ Len(loop'[c].saved) \in DOMAIN loop'[c].saved
             /\ loop'[c].saved[Len(loop'[c].saved)] = <<loop'[c].req, loop'[c].next>>
             /\ \A i \in DOMAIN loop'[c].saved : i < Len(loop'[c].saved) => Made(loop[c].saved[i])'
  <2>1. Continues(c)
    BY <1>3, LoopEffects DEF Rests, Advances, Receives
  <2>2. CASE loop[c].pc = "writeDisk" /\ loop'[c].saved = loop[c].saved
    <3>1. \A i \in DOMAIN loop[c].saved : i < Len(loop[c].saved) => Made(loop[c].saved[i])
      BY <2>2 DEF MadeInv
    <3>2. ASSUME NEW i \in DOMAIN loop'[c].saved, i < Len(loop'[c].saved), NEW m, m = loop'[c].saved[i]
          PROVE Made(m)'
      BY <2>2, <3>1, <3>2, MadeStays
    <3> QED BY <2>1, <2>2, <3>2 DEF Continues, MadeInv
  <2>3. CASE loop'[c].saved = Append(disk[Owner[c]], <<loop[c].req, loop[c].next>>)
    <3>0. disk[Owner[c]] \in Seq(Message) /\ <<loop[c].req, loop[c].next>> \in Message
      BY <1>0, <2>1 DEF Continues, TypeInv, TypeOK, HandlerBusy, LoopState, Message
    <3>1. \A i \in DOMAIN disk[Owner[c]] : Made(disk[Owner[c]][i])
      BY <1>0 DEF MadeInv
    <3>2. /\ Len(loop'[c].saved) \in DOMAIN loop'[c].saved
          /\ loop'[c].saved[Len(loop'[c].saved)] = <<loop[c].req, loop[c].next>>
          /\ \A i \in DOMAIN loop'[c].saved : i < Len(loop'[c].saved) =>
               i \in DOMAIN disk[Owner[c]] /\ loop'[c].saved[i] = disk[Owner[c]][i]
      BY <2>3, <3>0
    <3>3. ASSUME NEW i \in DOMAIN loop'[c].saved, i < Len(loop'[c].saved), NEW m, m = loop'[c].saved[i]
          PROVE Made(m)'
      BY <3>1, <3>2, <3>3, MadeStays
    <3> QED BY <2>1, <3>2, <3>3 DEF Continues
  <2> QED BY <1>3, <2>1, <2>2, <2>3 DEF Continues
<1>4. MadeInv' <=>
    /\ \A c \in Conn : \A m : Somewhere(c, m)' => Made(m)'
    /\ \A p \in Player : \A m : OnDisk(p, m)' => Made(m)'
    /\ \A c \in Conn : loop'[c].pc = "writeDisk" =>
         /\ Len(loop'[c].saved) \in DOMAIN loop'[c].saved
         /\ loop'[c].saved[Len(loop'[c].saved)] = <<loop'[c].req, loop'[c].next>>
         /\ \A i \in DOMAIN loop'[c].saved : i < Len(loop'[c].saved) => Made(loop[c].saved[i])'
  BY DEF MadeInv, Somewhere, Wired, OnDisk, Popped
<1> QED BY <1>1, <1>2, <1>3, <1>4

\* While no request comes in, the order is the same.
LEMMA SameOrder ==
  ASSUME served' = served, NEW m, NEW n
  PROVE  MayPrecede(m, n)' <=> MayPrecede(m, n)
BY DEF MayPrecede, Earlier

\* A response is no notification: it may come before any message but itself.
LEMMA ResponseMayPrecede ==
  ASSUME NEW r, NEW m, m # <<r, 0>>
  PROVE  MayPrecede(<<r, 0>>, m)
BY DEF MayPrecede, Earlier

\* One case per way in which the stream of a connection can change.
LEMMA StreamStep ==
  ASSUME TypeInv, TypeInv', NumberInv, RequestInv, MadeInv, StoreInv, BlankInv, [Next]_vars,
         NEW c \in Conn, StreamInv(c)
  PROVE  StreamInv(c)'
<1>0. /\ queue[c] \in Seq(Message) /\ wire[c] \in Seq(Frame) /\ Owner[c] \in Player
      /\ worker[c].saved \in Seq(Message)
      /\ disk[Owner[c]] \in Seq(Message)
      /\ \A e \in Conn : loop[e].pc \in {"send", "push"} =>
           loop[e].req \in Request /\ loop[e].next \in Nat
  BY ConstantsAssumption DEF TypeInv, TypeOK, HandlerBusy, LoopState, WorkerState
<1>1. \A m, n : Made(m) /\ Made(n) /\ MayPrecede(m, n) => MayPrecede(m, n)'
  BY OrderStays, MadeIsAsked
<1>2. /\ \A i \in DOMAIN wire[c] : Made(wire[c][i].msg)
      /\ \A i \in DOMAIN queue[c] : Made(queue[c][i])
      /\ Popped(c) => Made(worker[c].msg)
      /\ worker[c].pc = "persist" => \A i \in DOMAIN worker[c].saved : Made(worker[c].saved[i])
      /\ \A i \in DOMAIN disk[Owner[c]] : Made(disk[Owner[c]][i])
  BY <1>0 DEF MadeInv
<1>3. CASE Keeps(c)
  BY <1>0, <1>1, <1>2, <1>3 DEF Keeps, StreamInv, InOrder
<1>4. CASE Loads(c)
  <2>1. wire[c] = <<>> /\ InOrder(disk[Owner[c]])
    BY <1>0, <1>4 DEF Loads, BlankInv, StoreInv
  <2> QED BY <1>0, <1>1, <1>2, <1>4, <2>1 DEF Loads, StreamInv, InOrder, Popped
<1>5. CASE Pops(c)
  <2>1. /\ 1 \in DOMAIN queue[c] /\ Head(queue[c]) = queue[c][1]
        /\ \A i \in DOMAIN Tail(queue[c]) :
             i \in Nat /\ i + 1 \in DOMAIN queue[c] /\ 1 < i + 1 /\ Tail(queue[c])[i] = queue[c][i + 1]
    BY <1>0, <1>5 DEF Pops
  <2>2. /\ wire'[c] = wire[c] /\ queue'[c] = Tail(queue[c])
        /\ worker'[c].pc = "formulate" /\ worker'[c].msg = queue[c][1]
    BY <1>5, <2>1 DEF Pops
  <2> QED BY <1>1, <1>2, <2>1, <2>2 DEF StreamInv, InOrder
<1>6. CASE SendsPopped(c)
  <2>1. Sends(c, worker[c].msg) /\ Popped(c) /\ worker'[c].pc = "snapshot" /\ queue'[c] = queue[c]
    BY <1>6, SendingWires DEF SendsPopped
  <2> DEFINE n == Len(wire[c]) + 1
  <2>2. /\ DOMAIN wire'[c] = DOMAIN wire[c] \union {n}
        /\ \A i \in DOMAIN wire[c] : wire'[c][i] = wire[c][i] /\ i < n /\ i \in Nat
        /\ n \in Nat
        /\ wire'[c][n].msg = worker[c].msg
    BY <1>0, <2>1 DEF Sends
  <2> HIDE DEF n
  <2>3. ASSUME NEW i \in DOMAIN wire'[c], NEW j \in DOMAIN wire'[c], i < j
        PROVE  MayPrecede(wire[c][i].msg, wire[c][j].msg)'
    <3>1. i \in DOMAIN wire[c] /\ (j \in DOMAIN wire[c] \/ j = n)
      BY <2>2, <2>3
    <3>2. MayPrecede(wire[c][i].msg, wire'[c][j].msg)
      BY <2>1, <2>2, <2>3, <3>1 DEF StreamInv
    <3>3. Made(wire[c][i].msg) /\ Made(wire'[c][j].msg)
      BY <1>2, <2>1, <2>2, <3>1
    <3> QED BY <1>1, <2>2, <3>1, <3>2, <3>3
  <2>4. \A i \in DOMAIN wire'[c], j \in DOMAIN queue'[c] : MayPrecede(wire[c][i].msg, queue[c][j])'
    BY <1>1, <1>2, <2>1, <2>2 DEF StreamInv
  <2>5. InOrder(queue[c])'
    BY <1>1, <1>2, <2>1 DEF StreamInv, InOrder
  <2> QED BY <2>1, <2>3, <2>4, <2>5 DEF StreamInv, Popped
<1>7. CASE Snapshots(c)
  BY <1>0, <1>1, <1>2, <1>7 DEF Snapshots, StreamInv, InOrder, Popped
<1>8. CASE Answers(c)
  <2> DEFINE r == <<loop[c].req, 0>>
  <2> DEFINE n == Len(wire[c]) + 1
  <2>1. /\ Sends(c, r) /\ loop[c].pc = "send" /\ served' = served
        /\ queue'[c] = queue[c] /\ worker'[c] = worker[c]
    BY <1>8, SendingWires DEF Answers
  <2>2. /\ DOMAIN wire'[c] = DOMAIN wire[c] \union {n}
        /\ \A i \in DOMAIN wire[c] : wire'[c][i] = wire[c][i] /\ i < n /\ i \in Nat
        /\ n \in Nat
        /\ wire'[c][n].msg = r
    BY <1>0, <2>1 DEF Sends
  <2>3. \A m : Made(m) => MayPrecede(m, r)
    BY <2>1, NewestLast DEF RequestInv
  <2>4. \A m : Made(m) => MayPrecede(r, m)
    BY <2>3, ResponseMayPrecede DEF MayPrecede
  <2>5. \A m, k : MayPrecede(m, k)' <=> MayPrecede(m, k)
    BY <2>1, SameOrder
  <2> HIDE DEF n, r
  <2>6. ASSUME NEW i \in DOMAIN wire'[c], NEW j \in DOMAIN wire'[c], i < j
        PROVE  MayPrecede(wire[c][i].msg, wire[c][j].msg)'
    <3>1. i \in DOMAIN wire[c] /\ (j \in DOMAIN wire[c] \/ j = n)
      BY <2>2, <2>6
    <3>2. MayPrecede(wire[c][i].msg, wire'[c][j].msg)
      BY <1>2, <2>2, <2>3, <2>6, <3>1 DEF StreamInv
    <3> QED BY <2>2, <2>5, <3>1, <3>2
  <2>7. \A i \in DOMAIN wire'[c] : \A m :
          Made(m) /\ (\A k \in DOMAIN wire[c] : MayPrecede(wire[c][k].msg, m)) =>
            MayPrecede(wire[c][i].msg, m)'
    BY <2>2, <2>4, <2>5
  <2>8. Popped(c)' => Popped(c)
    BY <2>1 DEF Popped
  <2> QED BY <1>2, <2>1, <2>5, <2>6, <2>7, <2>8 DEF StreamInv, InOrder
<1>9. CASE Queues(c)
  <2>1. PICK e \in Conn :
          /\ loop[e].pc = "push" /\ served' = served
          /\ queue'[c] = Append(queue[c], <<loop[e].req, loop[e].next>>)
    BY <1>9 DEF Queues
  <2> DEFINE m == <<loop[e].req, loop[e].next>>
  <2> DEFINE n == Len(queue[c]) + 1
  <2>2. /\ DOMAIN queue'[c] = DOMAIN queue[c] \union {n}
        /\ \A i \in DOMAIN queue[c] : queue'[c][i] = queue[c][i] /\ i < n /\ i \in Nat
        /\ n \in Nat
        /\ queue'[c][n] = m
    <3>1. m \in Message
      BY <1>0, <2>1 DEF Message
    <3> QED BY <1>0, <2>1, <3>1
  <2>3. \A k : Made(k) => MayPrecede(k, m)
    BY <2>1, NewestLast
  <2>4. \A k, l : MayPrecede(k, l)' <=> MayPrecede(k, l)
    BY <2>1, SameOrder
  <2>5. /\ wire'[c] = wire[c] /\ (Popped(c)' <=> Popped(c))
        /\ worker'[c].pc = "persist" <=> worker[c].pc = "persist"
        /\ worker'[c].msg = worker[c].msg /\ worker'[c].saved = worker[c].saved
    BY <1>9 DEF Queues
  <2> HIDE DEF m, n
  <2>6. \A k : Made(k) /\ (\A j \in DOMAIN queue[c] : MayPrecede(k, queue[c][j])) =>
          \A j \in DOMAIN queue'[c] : MayPrecede(k, queue[c][j])'
    BY <2>2, <2>3, <2>4
  <2>7. ASSUME NEW i \in DOMAIN queue'[c], NEW j \in DOMAIN queue'[c], i < j
        PROVE  MayPrecede(queue[c][i], queue[c][j])'
    <3>1. i \in DOMAIN queue[c] /\ (j \in DOMAIN queue[c] \/ j = n)
      BY <2>2, <2>7
    <3>2. MayPrecede(queue[c][i], queue'[c][j])
      BY <1>2, <2>2, <2>3, <2>7, <3>1 DEF StreamInv, InOrder
    <3> QED BY <2>2, <2>4, <3>1, <3>2
  <2> QED BY <1>2, <2>4, <2>5, <2>6, <2>7 DEF StreamInv, InOrder
<1> QED BY <1>3, <1>4, <1>5, <1>6, <1>7, <1>8, <1>9, StreamEffects

LEMMA StoreStep ==
  ASSUME TypeInv, TypeInv', NumberInv, RequestInv, MadeInv, StoreInv,
         \A c \in Conn : StreamInv(c), [Next]_vars
  PROVE  StoreInv'
<1>0. /\ Owner \in [Conn -> Player] /\ disk \in [Player -> Seq(Message)]
      /\ \A c \in Conn : loop[c].saved \in Seq(Message) /\ loop[c].next \in Nat
  BY ConstantsAssumption DEF TypeInv, TypeOK, LoopState
<1>1. \A m, n : Asked(m) /\ Asked(n) /\ MayPrecede(m, n) => MayPrecede(m, n)'
  BY OrderStays
<1>2. /\ \A p \in Player : \A i \in DOMAIN disk[p] : Asked(disk[p][i])
      /\ \A c \in Conn : worker[c].pc = "persist" =>
           \A i \in DOMAIN worker[c].saved : Asked(worker[c].saved[i])
  BY MadeIsAsked DEF MadeInv
<1>3. ASSUME NEW c \in Conn, loop[c].pc # "idle" PROVE Asked(<<loop[c].req, loop[c].next>>)
  BY <1>3 DEF RequestInv, Asked
<1>4. ASSUME NEW c \in Conn, loop[c].pc = "writeDisk", NEW i \in DOMAIN loop[c].saved
      PROVE  Asked(loop[c].saved[i])
  <2>1. i = Len(loop[c].saved) => Asked(loop[c].saved[i])
    <3>1. loop[c].saved[Len(loop[c].saved)] = <<loop[c].req, loop[c].next>>
      BY <1>4 DEF MadeInv
    <3> QED BY <1>3, <1>4, <3>1
  <2>2. i < Len(loop[c].saved) => Asked(loop[c].saved[i])
    BY <1>4, MadeIsAsked DEF MadeInv
  <2> QED BY <1>0, <2>1, <2>2
<1>5. ASSUME NEW p \in Player PROVE InOrder(disk[p])'
  <2>1. CASE disk'[p] = disk[p]
    BY <1>1, <1>2, <2>1 DEF StoreInv, InOrder
  <2>2. ASSUME NEW e \in Conn, worker[e].pc = "persist", disk'[p] = worker[e].saved
        PROVE  InOrder(disk[p])'
    BY <1>1, <1>2, <2>2 DEF StreamInv, InOrder
  <2>3. ASSUME NEW e \in Conn, loop[e].pc = "writeDisk", disk'[p] = loop[e].saved
        PROVE  InOrder(disk[p])'
    BY <1>1, <1>4, <2>3 DEF StoreInv, InOrder
  <2> QED BY <2>1, <2>2, <2>3, DiskEffects DEF DiskEffect
<1>6. ASSUME NEW c \in Conn, loop'[c].pc = "writeDisk" PROVE InOrder(loop[c].saved)'
  <2>1. Continues(c)
    BY <1>6, LoopEffects DEF Rests, Advances, Receives
  <2>2. CASE loop[c].pc = "writeDisk" /\ loop'[c].saved = loop[c].saved
    BY <1>1, <1>4, <2>2 DEF StoreInv, InOrder
  <2>3. CASE loop'[c].saved = Append(disk[Owner[c]], <<loop[c].req, loop[c].next>>)
    <3> DEFINE s == disk[Owner[c]]
    <3> DEFINE t == loop'[c].saved
    <3> DEFINE m == <<loop[c].req, loop[c].next>>
    <3>0. s \in Seq(Message) /\ m \in Message /\ loop[c].pc # "idle" /\ Owner[c] \in Player
      BY <1>0, <2>1 DEF Continues, TypeInv, TypeOK, HandlerBusy, LoopState, Message
    <3>1. /\ \A i \in DOMAIN s : Made(s[i]) /\ Asked(s[i]) /\ MayPrecede(s[i], m)
          /\ InOrder(s) /\ Asked(m)
      BY <1>2, <1>3, <3>0, NewestLast DEF MadeInv, StoreInv
    <3>2. /\ DOMAIN t = DOMAIN s \union {Len(s) + 1}
          /\ \A i \in DOMAIN s : t[i] = s[i] /\ i < Len(s) + 1 /\ i \in Nat /\ Len(s) + 1 \in Nat
          /\ t[Len(s) + 1] = m
      BY <2>3, <3>0
    <3> HIDE DEF s, m
    <3>3. ASSUME NEW i \in DOMAIN t, NEW j \in DOMAIN t, i < j
          PROVE  MayPrecede(t[i], t[j]) /\ Asked(t[i]) /\ Asked(t[j])
      <4>1. i \in DOMAIN s /\ (j \in DOMAIN s \/ j = Len(s) + 1)
        BY <3>2, <3>3
      <4> QED BY <3>1, <3>2, <3>3, <4>1 DEF InOrder
    <3> QED BY <1>1, <3>3 DEF InOrder
  <2> QED BY <1>6, <2>1, <2>2, <2>3 DEF Continues
<1> QED BY <1>5, <1>6 DEF StoreInv

LEMMA AnsweredStep ==
  ASSUME TypeInv, TypeInv', NumberInv, RequestInv, MadeInv, AnsweredInv, [Next]_vars
  PROVE  AnsweredInv'
<1> SUFFICES ASSUME NEW c \in Conn, NEW i \in DOMAIN wire'[c], NEW m, m = wire'[c][i].msg, m[2] > 0,
                    \E x \in DOMAIN served'[c] : served'[c][x] = m[1]
             PROVE  \E j \in DOMAIN wire'[c] : j <= i /\ wire'[c][j].msg = <<m[1], 0>>
  BY DEF AnsweredInv
<1>0. wire[c] \in Seq(Frame) /\ wire'[c] \in Seq(Frame)
  BY DEF TypeInv, TypeOK
<1>1. Made(m) => \E x \in DOMAIN served[c] : served[c][x] = m[1]
  BY ServedGrows DEF Made, MadeBy
<1>2. CASE i \in DOMAIN wire[c]
  <2>1. wire[c][i].msg = m /\ Made(m)
    BY <1>2, WireGrows DEF MadeInv
  <2>2. \E j \in DOMAIN wire[c] : j <= i /\ wire[c][j].msg = <<m[1], 0>>
    BY <1>1, <1>2, <2>1 DEF AnsweredInv
  <2> QED BY <2>2, WireGrows
<1>3. CASE i \notin DOMAIN wire[c]
  <2>1. SendsPopped(c) \/ Answers(c)
    BY <1>3, StreamEffects DEF Keeps, Loads, Pops, Snapshots, Queues
  <2>2. CASE Answers(c)
    <3>1. m = <<loop[c].req, 0>>
      BY <1>3, <2>2, SendingWires DEF Sends
    <3> QED BY <3>1
  <2>3. CASE SendsPopped(c)
    <3>1. Sends(c, worker[c].msg) /\ Made(worker[c].msg)
      BY <2>3, SendingWires DEF SendsPopped, MadeInv
    <3>2. m = worker[c].msg /\ \A j \in DOMAIN wire[c] : j < i
      BY <1>3, <3>1 DEF Sends
    <3>3. PICK d \in Conn : MadeBy(d, m)
      BY <3>1, <3>2 DEF Made
    <3>4. d = c
      BY <1>1, <3>1, <3>2, <3>3 DEF MadeBy, RequestInv
    <3>5. Wired(c, <<m[1], 0>>)
      BY <3>3, <3>4 DEF MadeBy
    <3>6. PICK j \in DOMAIN wire[c] : wire[c][j].msg = <<m[1], 0>>
      BY <3>5 DEF Wired
    <3> QED BY <1>0, <3>2, <3>6, WireGrows
  <2> QED BY <2>1, <2>2, <2>3
<1> QED BY <1>2, <1>3

LEMMA BlankStep ==
  ASSUME TypeInv, NumberInv, BlankInv, [Next]_vars
  PROVE  BlankInv'
BY StreamEffects
   DEF NumberInv, FreshInv, TypeInv, HandlerBusy, Popped, BlankInv, Keeps, Loads, Pops, SendsPopped, Snapshots, Answers, Queues

LEMMA DeliveryInvariant == Spec => [](TypeInv /\ NumberInv /\ DeliveryInv)
<1>1. Init => DeliveryInv
  BY DEF Init, DeliveryInv, RequestInv, MadeInv, StreamInv, StoreInv, AnsweredInv, BlankInv,
         InOrder, Popped, IdleLoop, Handling, NoWorker, Worker
<1>2. TypeInv /\ TypeInv' /\ NumberInv /\ DeliveryInv /\ [Next]_vars => DeliveryInv'
  BY RequestStep, MadeStep, StreamStep, StoreStep, AnsweredStep, BlankStep DEF DeliveryInv
<1> QED BY <1>1, <1>2, NumberInvariant, InitType, NextType, PTL DEF Spec

\* No connection is sent a message twice, however its notifications come to it: queued, or
\* copied to disk and back by workers and handlers of overlapping sessions, through crashes.
THEOREM AtMostOncePerConnectionHolds == Spec => []AtMostOncePerConnection
<1>1. TypeInv /\ DeliveryInv => AtMostOncePerConnection
  <2> SUFFICES ASSUME TypeInv, DeliveryInv, NEW c \in Conn, NEW i \in DOMAIN wire[c],
                      NEW j \in DOMAIN wire[c], wire[c][i].msg = wire[c][j].msg
               PROVE  i = j
    BY DEF AtMostOncePerConnection
  <2>1. i \in Nat /\ j \in Nat
    BY DEF TypeInv, TypeOK
  <2>2. ~(i < j) /\ ~(j < i)
    BY DEF DeliveryInv, StreamInv, MayPrecede
  <2> QED BY <2>1, <2>2
<1> QED BY <1>1, DeliveryInvariant, PTL

\* What a worker is about to save has not been sent on its connection.
THEOREM SavedIsUnsentHolds == Spec => []SavedIsUnsent
<1>1. DeliveryInv => SavedIsUnsent
  BY DEF DeliveryInv, StreamInv, MayPrecede, SavedIsUnsent, SentOn, Range
<1> QED BY <1>1, DeliveryInvariant, PTL

\* A client has the response to a request before any of its notifications.
THEOREM ResponseBeforeItsNotificationsHolds == Spec => []ResponseBeforeItsNotifications
<1>1. TypeInv /\ DeliveryInv => ResponseBeforeItsNotifications
  <2> SUFFICES ASSUME TypeInv, DeliveryInv, NEW c \in Conn, NEW d \in Conn,
                      NEW i \in DOMAIN wire[d], NEW m, m = wire[d][i].msg,
                      m[2] > 0, m[1] \in Range(served[c])
               PROVE  /\ <<m[1], 0>> \in SentOn(c)
                      /\ c = d => \E j \in 1 .. i : wire[c][j].msg = <<m[1], 0>>
    BY DEF ResponseBeforeItsNotifications
  <2>1. \E x \in DOMAIN served[c] : served[c][x] = m[1]
    BY DEF Range
  <2>2. PICK e \in Conn : MadeBy(e, m)
    BY DEF DeliveryInv, MadeInv, Made
  <2>3. e = c
    BY <2>1, <2>2 DEF MadeBy, DeliveryInv, RequestInv
  <2>4. <<m[1], 0>> \in SentOn(c)
    BY <2>2, <2>3 DEF MadeBy, Wired, SentOn
  <2>5. ASSUME c = d PROVE \E j \in 1 .. i : wire[c][j].msg = <<m[1], 0>>
    <3>1. PICK j \in DOMAIN wire[c] : j <= i /\ wire[c][j].msg = <<m[1], 0>>
      BY <2>1, <2>5 DEF DeliveryInv, AnsweredInv
    <3>2. wire[c] \in Seq(Frame)
      BY DEF TypeInv, TypeOK
    <3>3. j \in 1 .. i
      BY <2>5, <3>1, <3>2
    <3> QED BY <3>1, <3>3
  <2> QED BY <2>4, <2>5
<1> QED BY <1>1, DeliveryInvariant, PTL

\* Notifications of one connection's requests arrive in the order of the requests and of the
\* handlers' lists, on whichever connection they arrive.
THEOREM NotificationsInOrderHolds == Spec => []NotificationsInOrder
<1>1. TypeInv /\ DeliveryInv => NotificationsInOrder
  <2> SUFFICES ASSUME TypeInv, DeliveryInv, NEW c \in Conn, NEW d \in Conn,
                      NEW i \in DOMAIN wire[d], NEW j \in DOMAIN wire[d],
                      NEW x \in DOMAIN served[c], NEW y \in DOMAIN served[c],
                      NEW m, m = wire[d][i].msg, NEW n, n = wire[d][j].msg,
                      m[1] = served[c][x], n[1] = served[c][y], m[2] > 0, n[2] > 0,
                      x < y \/ (x = y /\ m[2] < n[2])
               PROVE  i < j
    BY DEF NotificationsInOrder
  <2>1. Earlier(m, n)
    BY DEF Earlier
  <2>2. ~(j < i)
    BY <2>1 DEF DeliveryInv, StreamInv, MayPrecede
  <2>3. i # j
    <3>1. served[c] \in Seq(Request) /\ m \in Message
      BY DEF TypeInv, TypeOK, DeliveryInv, MadeInv, Made
    <3>2. i = j => x = y
      BY DEF DeliveryInv, RequestInv
    <3> QED BY <3>1, <3>2 DEF Message
  <2>4. i \in Nat /\ j \in Nat
    BY DEF TypeInv, TypeOK
  <2> QED BY <2>2, <2>3, <2>4
<1> QED BY <1>1, DeliveryInvariant, PTL
-----------------------------------------------------------------------------
(***************************************************************************)
(* What is saved, when a player has one session at a time.  Such a session *)
(* has the column to itself and keeps its route, so that only its worker   *)
(* writes the column; what it has not sent yet it has in its queue.        *)
(***************************************************************************)
Idle(c) ==
  \/ session[c] = "new"
  \/ session[c] = "gone" /\ worker[c].pc \in {"none", "exited"}
AloneInv ==
  /\ \A c, d \in Conn : c # d /\ Owner[c] = Owner[d] => Idle(c) \/ Idle(d)
  /\ \A c \in Conn :
       /\ session[c] \in {"registered", "open"} => connectionsByPlayerId[Owner[c]] = c
       /\ loop[c].pc \notin {"readDisk", "writeDisk"}
       /\ loop[c].pc = "push" => loop[c].target = c
AccountedInv ==
  \A c \in Conn : Connected(c) =>
    /\ \A i \in DOMAIN disk[Owner[c]] : LET m == disk[Owner[c]][i] IN
         /\ \/ Wired(c, m)
            \/ Popped(c) /\ worker[c].msg = m
            \/ \E j \in DOMAIN queue[c] : queue[c][j] = m
         /\ worker[c].pc = "persist" =>
              Wired(c, m) \/ \E j \in DOMAIN worker[c].saved : worker[c].saved[j] = m
    /\ worker[c].pc = "persist" => \A i \in DOMAIN worker[c].saved :
         \E j \in DOMAIN queue[c] : queue[c][j] = worker[c].saved[i]
SavedInv == ~setting.overlap => AloneInv /\ AccountedInv

LEMMA IdleStays ==
  ASSUME TypeInv, NumberInv, [Next]_vars, NEW c \in Conn, Idle(c), ~LoadSavedNotifications(c)
  PROVE  Idle(c)'
<1>0. /\ session \in [Conn -> SessionState] /\ worker \in [Conn -> WorkerState]
      /\ loop[c].pc = "idle" /\ (session[c] = "new" => worker[c].pc = "none")
  BY DEF TypeInv, TypeOK, HandlerBusy, NumberInv, FreshInv, Idle
<1> USE DEF Idle
<1>1. CASE Die
  BY <1>0, <1>1 DEF Die, Worker
<1>2. CASE UNCHANGED <<session, worker>>
  BY <1>2
<1>3. ASSUME NEW e \in Conn, LoopStep(e), ~Die PROVE Idle(c)'
  <2>1. CASE AddConnection(e) \/ SetContext(e) \/ HandleConnectionClosed(e)
    BY <1>0, <2>1 DEF AddConnection, SetContext, HandleConnectionClosed
  <2>2. CASE ScheduleNotification(e)
    <3>1. worker'[c].pc = worker[c].pc \/ worker[c].pc = "asleep"
      BY <1>0, <2>2 DEF ScheduleNotification, NotifyWorker, WorkerState
    <3>2. session' = session
      BY <2>2 DEF ScheduleNotification
    <3> QED BY <1>0, <3>1, <3>2
  <2>3. CASE UNCHANGED <<session, worker>>
    BY <2>3
  <2> QED
    BY <1>3, <2>1, <2>2, <2>3
       DEF LoopStep, Refuse, FormulateFinalResponse, SendResponse, GetConnectionForPlayer,
           ScheduleWithoutContext, ReadSavedNotifications, WriteSavedNotifications, AbandonPostSend
<1>4. ASSUME NEW e \in Conn, WorkerStep(e), ~Die PROVE Idle(c)'
  <2>1. session' = session /\ (e # c => worker'[c] = worker[c])
    BY <1>0, <1>4
       DEF WorkerStep, WorkerPop, WorkerSleep, FormulateFinalNotification, WorkerSend,
           WorkerSnapshot, WorkerPersist, WorkerRelease, WorkerReleaseLast, WorkerStop
  <2>2. e # c
    BY <1>0, <1>4
       DEF WorkerStep, WorkerPop, WorkerSleep, FormulateFinalNotification, WorkerSend,
           WorkerSnapshot, WorkerPersist, WorkerRelease, WorkerReleaseLast, WorkerStop
  <2> QED BY <2>1, <2>2
<1>5. ASSUME NEW e \in Conn, ClientStep(e) PROVE Idle(c)'
  BY <1>0, <1>5 DEF ClientStep, LoadSavedNotifications, Disconnect, Receive
<1> QED BY <1>1, <1>2, <1>3, <1>4, <1>5 DEF Next, Crash, vars

LEMMA RoutesKept ==
  ASSUME TypeInv, RouteInv, AloneInv, [Next]_vars, NEW c \in Conn,
         session'[c] \in {"registered", "open"}
  PROVE  connectionsByPlayerId'[Owner[c]] = c
<1>0. /\ session \in [Conn -> SessionState] /\ Owner \in [Conn -> Player]
      /\ connectionsByPlayerId \in [Player -> Conn \union {NoConn}]
  BY ConstantsAssumption DEF TypeInv, TypeOK
<1>1. CASE Die
  BY <1>1 DEF Die
<1>2. CASE UNCHANGED <<session, connectionsByPlayerId>>
  BY <1>2 DEF AloneInv
<1>3. ASSUME NEW e \in Conn, AddConnection(e) PROVE connectionsByPlayerId'[Owner[c]] = c
  BY <1>0, <1>3 DEF AddConnection, AloneInv, Idle
<1>4. ASSUME NEW e \in Conn, HandleConnectionClosed(e) PROVE connectionsByPlayerId'[Owner[c]] = c
  BY <1>0, <1>4 DEF HandleConnectionClosed, EraseOwnRoute, AloneInv
<1>5. ASSUME NEW e \in Conn, SetContext(e) \/ LoadSavedNotifications(e) \/ Disconnect(e)
      PROVE connectionsByPlayerId'[Owner[c]] = c
  BY <1>0, <1>5 DEF SetContext, LoadSavedNotifications, Disconnect, AloneInv
<1>6. \/ Die \/ UNCHANGED <<session, connectionsByPlayerId>>
      \/ \E e \in Conn : \/ AddConnection(e) \/ HandleConnectionClosed(e) \/ SetContext(e)
                         \/ LoadSavedNotifications(e) \/ Disconnect(e)
  BY DEF Next, vars, Crash, LoopStep, WorkerStep, ClientStep, Receive, Refuse, FormulateFinalResponse,
         SendResponse, GetConnectionForPlayer, ScheduleNotification, ScheduleWithoutContext,
         ReadSavedNotifications, WriteSavedNotifications, AbandonPostSend, WorkerPop,
         WorkerSleep, FormulateFinalNotification, WorkerSend, WorkerSnapshot, WorkerPersist,
         WorkerRelease, WorkerReleaseLast, WorkerStop
<1> QED BY <1>1, <1>2, <1>3, <1>4, <1>5, <1>6

\* A handler finds the route of its own connection, and pushes to it.
LEMMA HandlersPush ==
  ASSUME TypeInv, AloneInv, [Next]_vars, NEW c \in Conn
  PROVE  /\ loop'[c].pc \notin {"readDisk", "writeDisk"}
         /\ loop'[c].pc = "push" => loop'[c].target = c
<1>0. /\ loop \in [Conn -> LoopState] /\ NoConn \notin Conn
      /\ loop[c].pc # "idle" => session[c] = "open"
      /\ loop[c].pc \notin {"readDisk", "writeDisk"}
      /\ loop[c].pc = "push" => loop[c].target = c
      /\ session[c] = "open" => connectionsByPlayerId[Owner[c]] = c
  BY ConstantsAssumption DEF TypeInv, TypeOK, HandlerBusy, AloneInv
<1>1. CASE Die
  BY <1>1 DEF Die, IdleLoop, Handling
<1>2. CASE UNCHANGED loop
  BY <1>0, <1>2
<1>3. ASSUME NEW e \in Conn, LoopStep(e), ~Die, loop' # loop
      PROVE  /\ loop'[c].pc \notin {"readDisk", "writeDisk"}
             /\ loop'[c].pc = "push" => loop'[c].target = c
  <2>1. CASE e # c
    <3>1. loop'[c] = loop[c]
      BY <1>0, <1>3, <2>1
         DEF LoopStep, AddConnection, SetContext, Refuse, FormulateFinalResponse, SendResponse,
             GetConnectionForPlayer, ScheduleNotification, ScheduleWithoutContext,
             ReadSavedNotifications, WriteSavedNotifications, AbandonPostSend, HandleConnectionClosed
    <3> QED BY <1>0, <3>1
  <2>2. CASE e = c /\ (Refuse(c) \/ AbandonPostSend(c))
    BY <1>0, <2>2 DEF Refuse, AbandonPostSend, IdleLoop, Handling
  <2>3. CASE e = c /\ FormulateFinalResponse(c)
    BY <1>0, <2>3 DEF FormulateFinalResponse, LoopState
  <2>4. CASE e = c /\ (SendResponse(c) \/ ScheduleNotification(c))
    BY <1>0, <2>4 DEF SendResponse, ScheduleNotification, NextPostSend, IdleLoop, Handling
  <2>5. CASE e = c /\ GetConnectionForPlayer(c)
    BY <1>0, <2>5 DEF GetConnectionForPlayer, LoopState
  <2> QED
    BY <1>0, <1>3, <2>1, <2>2, <2>3, <2>4, <2>5
       DEF LoopStep, AddConnection, SetContext, ScheduleWithoutContext, ReadSavedNotifications,
           WriteSavedNotifications, HandleConnectionClosed
<1>4. ASSUME NEW e \in Conn, WorkerStep(e) \/ ClientStep(e), ~Die
      PROVE  /\ loop'[c].pc \notin {"readDisk", "writeDisk"}
             /\ loop'[c].pc = "push" => loop'[c].target = c
  <2>1. UNCHANGED loop \/ \E r \in Request : loop' = [loop EXCEPT ![e] = Handling("process", r, 0)]
    BY <1>4
       DEF WorkerStep, WorkerPop, WorkerSleep, FormulateFinalNotification, WorkerSend,
           WorkerSnapshot, WorkerPersist, WorkerRelease, WorkerReleaseLast, WorkerStop,
           ClientStep, LoadSavedNotifications, Disconnect, Receive
  <2> QED BY <1>0, <2>1 DEF Handling
<1> QED BY <1>1, <1>2, <1>3, <1>4 DEF Next, Crash, vars

LEMMA AloneStep ==
  ASSUME TypeInv, NumberInv, RouteInv, ~setting.overlap, AloneInv, [Next]_vars
  PROVE  AloneInv'
<1>1. ASSUME NEW c \in Conn, NEW d \in Conn, c # d, Owner[c] = Owner[d] PROVE (Idle(c) \/ Idle(d))'
  <2>1. CASE LoadSavedNotifications(c)
    <3>1. MayConnect(c) /\ ~LoadSavedNotifications(d)
      BY <1>1, <2>1 DEF LoadSavedNotifications, TypeInv, TypeOK
    <3>2. Idle(d)
      BY <1>1, <3>1 DEF MayConnect, Idle
    <3> QED BY <3>1, <3>2, IdleStays
  <2>2. CASE LoadSavedNotifications(d)
    <3>1. MayConnect(d) /\ ~LoadSavedNotifications(c)
      BY <1>1, <2>2 DEF LoadSavedNotifications, TypeInv, TypeOK
    <3>2. Idle(c)
      BY <1>1, <3>1 DEF MayConnect, Idle
    <3> QED BY <3>1, <3>2, IdleStays
  <2>3. Idle(c) \/ Idle(d)
    BY <1>1 DEF AloneInv
  <2> QED BY <2>1, <2>2, <2>3, IdleStays
<1> QED BY <1>1, RoutesKept, HandlersPush DEF AloneInv, Idle

\* Only the worker of the connection itself writes its player's column.
LEMMA OwnDisk ==
  ASSUME TypeInv, NumberInv, AloneInv, [Next]_vars, NEW c \in Conn, ~Idle(c)
  PROVE  \/ disk'[Owner[c]] = disk[Owner[c]]
         \/ /\ worker[c].pc = "persist" /\ worker'[c].pc = "release" /\ queue' = queue
            /\ disk'[Owner[c]] = worker[c].saved /\ wire' = wire
<1>1. Owner[c] \in Player
  BY ConstantsAssumption
<1>2. ASSUME NEW e \in Conn, e # c, Owner[e] = Owner[c] PROVE worker[e].pc # "persist"
  <2>1. Idle(e)
    BY <1>2 DEF AloneInv
  <2> QED BY <2>1 DEF Idle, NumberInv, FreshInv
<1>3. \A e \in Conn : loop[e].pc # "writeDisk"
  BY DEF AloneInv
<1> QED BY <1>1, <1>2, <1>3, DiskEffects DEF DiskEffect

LEMMA AccountedStep ==
  ASSUME TypeInv, TypeInv', NumberInv, AloneInv, AccountedInv, [Next]_vars
  PROVE  AccountedInv'
<1> SUFFICES ASSUME NEW c \in Conn, Connected(c)'
             PROVE  /\ \A i \in DOMAIN disk'[Owner[c]] : \A m : m = disk'[Owner[c]][i] =>
                         /\ \/ Wired(c, m)'
                            \/ Popped(c)' /\ worker'[c].msg = m
                            \/ \E j \in DOMAIN queue'[c] : queue'[c][j] = m
                         /\ worker'[c].pc = "persist" =>
                              Wired(c, m)' \/ \E j \in DOMAIN worker'[c].saved : worker'[c].saved[j] = m
                    /\ worker'[c].pc = "persist" => \A i \in DOMAIN worker'[c].saved :
                         \E j \in DOMAIN queue'[c] : queue'[c][j] = worker'[c].saved[i]
  BY DEF AccountedInv, Wired
<1>0. /\ queue[c] \in Seq(Message) /\ Owner[c] \in Player
      /\ \A e \in Conn : loop[e].pc = "push" => loop[e].req \in Request /\ loop[e].next \in Nat
  BY ConstantsAssumption DEF TypeInv, TypeOK, HandlerBusy, LoopState
<1>1. \A m : Wired(c, m) => Wired(c, m)'
  BY WireGrows DEF Wired
<1>2. CASE Loads(c)
  BY <1>2 DEF Loads
<1>3. CASE /\ ~Loads(c)
           /\ worker[c].pc = "persist" /\ worker'[c].pc = "release" /\ queue' = queue
           /\ disk'[Owner[c]] = worker[c].saved /\ wire' = wire
  <2>1. Connected(c)
    BY <1>3, StreamEffects DEF Keeps, Pops, SendsPopped, Snapshots, Answers, Queues, Connected
  <2> QED BY <1>3, <2>1 DEF AccountedInv
<1>4. CASE ~Loads(c) /\ disk'[Owner[c]] = disk[Owner[c]]
  <2>1. Connected(c)
    BY <1>4, StreamEffects DEF Keeps, Pops, SendsPopped, Snapshots, Answers, Queues, Connected
  <2>2. /\ \A i \in DOMAIN disk[Owner[c]] : \A m : m = disk[Owner[c]][i] =>
             /\ \/ Wired(c, m)
                \/ Popped(c) /\ worker[c].msg = m
                \/ \E j \in DOMAIN queue[c] : queue[c][j] = m
             /\ worker[c].pc = "persist" =>
                  Wired(c, m) \/ \E j \in DOMAIN worker[c].saved : worker[c].saved[j] = m
        /\ worker[c].pc = "persist" => \A i \in DOMAIN worker[c].saved :
             \E j \in DOMAIN queue[c] : queue[c][j] = worker[c].saved[i]
    BY <2>1 DEF AccountedInv
  <2>3. CASE Keeps(c)
    BY <1>1, <1>4, <2>2, <2>3 DEF Keeps
  <2>4. CASE Pops(c)
    <3>1. \A j \in DOMAIN queue[c] : queue[c][j] = Head(queue[c])
             \/ \E k \in DOMAIN Tail(queue[c]) : Tail(queue[c])[k] = queue[c][j]
      <4> SUFFICES ASSUME NEW j \in DOMAIN queue[c], j # 1
                   PROVE  \E k \in DOMAIN Tail(queue[c]) : Tail(queue[c])[k] = queue[c][j]
        BY <1>0, <2>4 DEF Pops
      <4>1. j - 1 \in DOMAIN Tail(queue[c]) /\ Tail(queue[c])[j - 1] = queue[c][j]
        BY <1>0, <2>4 DEF Pops
      <4> QED BY <4>1
    <3>2. ~Popped(c)
      BY <2>4 DEF Pops, Popped
    <3> QED BY <1>1, <1>4, <2>2, <2>4, <3>1, <3>2 DEF Pops, Popped
  <2>5. CASE SendsPopped(c)
    <3>1. \A m : m = worker[c].msg => Wired(c, m)'
      BY <2>5, SendingWires DEF Sends, Wired
    <3> QED BY <1>1, <1>4, <2>2, <2>5, <3>1 DEF SendsPopped
  <2>6. CASE Snapshots(c)
    BY <1>1, <1>4, <2>2, <2>6 DEF Snapshots, Popped
  <2>7. CASE Answers(c)
    BY <1>1, <1>4, <2>2, <2>7 DEF Answers, Popped
  <2>8. CASE Queues(c)
    <3>1. \A j \in DOMAIN queue[c] : j \in DOMAIN queue'[c] /\ queue'[c][j] = queue[c][j]
      <4>1. PICK e \in Conn : loop[e].pc = "push" /\ queue'[c] = Append(queue[c], <<loop[e].req, loop[e].next>>)
        BY <2>8 DEF Queues
      <4>2. <<loop[e].req, loop[e].next>> \in Message
        BY <1>0, <4>1 DEF Message
      <4> QED BY <1>0, <4>1, <4>2, AppendLast
    <3> QED BY <1>1, <1>4, <2>2, <2>8, <3>1 DEF Queues
  <2> QED BY <1>4, <2>3, <2>4, <2>5, <2>6, <2>7, <2>8, StreamEffects
<1>5. ~Loads(c) => ~Idle(c)
  BY StreamEffects DEF Keeps, Pops, SendsPopped, Snapshots, Answers, Queues, Connected, Idle
<1> QED BY <1>2, <1>3, <1>4, <1>5, OwnDisk

LEMMA SavedInvariant == Spec => [](TypeInv /\ NumberInv /\ SavedInv)
<1>1. Init => SavedInv
  BY DEF Init, SavedInv, AloneInv, AccountedInv, Idle, Connected, IdleLoop, Handling
<1>2. [Next]_vars => setting' = setting
  BY DEF Next, Crash, LoopStep, WorkerStep, ClientStep, vars
<1>3. TypeInv /\ TypeInv' /\ NumberInv /\ RouteInv /\ SavedInv /\ [Next]_vars => SavedInv'
  BY <1>2, AloneStep, AccountedStep DEF SavedInv
<1> QED BY <1>1, <1>3, NumberInvariant, RouteInvariant, InitType, NextType, PTL DEF Spec

\* With one session at a time a notification leaves its player's column only when he has been
\* sent it, or when the connection that has taken it over is down.
THEOREM SavedUntilSentHolds == Spec => SavedUntilSent
<1> DEFINE Lost(p, m) == m \in Range(disk[p]) \ Range(disk'[p])
<1> DEFINE Covered(p, m) ==
      \E c \in Conn :
         /\ Owner[c] = p
         /\ \/ m \in SentOn(c)
            \/ worker[c].pc = "persist" /\ ~Connected(c)
<1>1. ASSUME TypeInv, NumberInv, SavedInv, [Next]_vars, ~setting.overlap,
             NEW p \in Player, NEW m, Lost(p, m)
      PROVE  Covered(p, m)
  <2>1. AloneInv /\ AccountedInv
    BY <1>1 DEF SavedInv
  <2>2. disk'[p] # disk[p] /\ \A e \in Conn : loop[e].pc # "writeDisk"
    BY <1>1, <2>1 DEF AloneInv
  <2>3. PICK c \in Conn : Owner[c] = p /\ worker[c].pc = "persist" /\ disk'[p] = worker[c].saved
    BY <1>1, <2>2, DiskEffects DEF DiskEffect
  <2>4. CASE Connected(c)
    <3>1. PICK i \in DOMAIN disk[p] : disk[p][i] = m
      BY <1>1 DEF Range
    <3>2. \A j \in DOMAIN worker[c].saved : worker[c].saved[j] # m
      BY <1>1, <2>3 DEF Range
    <3>3. Wired(c, m)
      BY <2>1, <2>3, <2>4, <3>1, <3>2 DEF AccountedInv
    <3> QED BY <2>3, <3>3 DEF Wired, SentOn
  <2> QED BY <2>3, <2>4
<1>2. TypeInv /\ NumberInv /\ SavedInv /\ [Next]_vars =>
        [~setting.overlap => \A p \in Player : \A m \in Range(disk[p]) \ Range(disk'[p]) : Covered(p, m)]_vars
  BY <1>1
<1>3. Spec => [][~setting.overlap => \A p \in Player : \A m \in Range(disk[p]) \ Range(disk'[p]) : Covered(p, m)]_vars
  BY <1>2, SavedInvariant, PTL DEF Spec
<1> QED BY <1>3 DEF SavedUntilSent
=============================================================================
