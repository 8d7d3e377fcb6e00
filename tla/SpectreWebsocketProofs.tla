----------------------- MODULE SpectreWebsocketProofs -----------------------
(* Theorems about SpectreWebsocket, for any players, connections and        *)
(* requests, whether or not sessions overlap and the process crashes.       *)
EXTENDS SpectreWebsocket, TLAPS

(***************************************************************************)
(* Type correctness.  TypeOK alone is not inductive: what a handler or a   *)
(* worker puts into a queue, a column or a frame is a Message only because *)
(* it is at work on a request, or on a notification it has popped.         *)
(***************************************************************************)
HandlerBusy ==
  \A c \in Conn :
    /\ loop[c].pc # "idle" => loop[c].req \in Request /\ session[c] = "open"
    /\ loop[c].pc = "push" => loop[c].target \in Conn

WorkerBusy ==
  \A c \in Conn :
    worker[c].pc \in {"formulate", "send", "snapshot", "persist"} => worker[c].msg \in Message

TypeInv == TypeOK /\ HandlerBusy /\ WorkerBusy

LEMMA IdleType ==
  /\ IdleLoop \in LoopState
  /\ NoWorker \in WorkerState
  /\ Worker("exited", NoMessage) \in WorkerState
BY DEF IdleLoop, Handling, LoopState, NoWorker, Worker, WorkerState

LEMMA NextPostSendType ==
  ASSUME TypeInv, NEW c \in Conn, loop[c].pc # "idle"
  PROVE  /\ NextPostSend(c) \in LoopState
         /\ NextPostSend(c).pc \in {"idle", "lookup"}
         /\ NextPostSend(c).pc # "idle" => NextPostSend(c).req \in Request
<1>1. loop[c] \in LoopState /\ loop[c].req \in Request
  BY DEF TypeInv, TypeOK, HandlerBusy
<1>2. loop[c].next \in Nat
  BY <1>1 DEF LoopState
<1> QED BY <1>1, <1>2 DEF NextPostSend, IdleLoop, Handling, LoopState

LEMMA DieType ==
  ASSUME TypeInv, Die, UNCHANGED setting
  PROVE  TypeInv'
<1> USE DEF TypeInv, TypeOK, Die
<1>1. session' \in [Conn -> SessionState]
  BY DEF SessionState
<1>2. loop' \in [Conn -> LoopState]
  BY IdleType
<1>3. worker' \in [Conn -> WorkerState]
  BY IdleType DEF NoWorker
<1>4. (HandlerBusy /\ WorkerBusy)'
  BY DEF HandlerBusy, WorkerBusy, IdleLoop, Handling, Worker
<1>5. connectionsByPlayerId' \in [Player -> Conn \union {NoConn}] /\ queue' \in [Conn -> Seq(Message)]
  OBVIOUS
<1> QED BY <1>1, <1>2, <1>3, <1>4, <1>5

LEMMA InitType == Init => TypeInv
BY IdleType, ConstantsAssumption
   DEF Init, TypeInv, TypeOK, HandlerBusy, WorkerBusy, SessionState, IdleLoop, Handling,
       NoWorker, Worker

LEMMA LoopStepType ==
  ASSUME TypeInv, NEW c \in Conn, LoopStep(c)
  PROVE  TypeInv'
<1> UNCHANGED setting
  BY DEF LoopStep
<1>0. /\ loop[c] \in LoopState /\ worker[c] \in WorkerState
      /\ nextSeq[c] \in Nat /\ Owner[c] \in Player
  BY ConstantsAssumption DEF TypeInv, TypeOK
<1> USE DEF TypeInv, TypeOK, HandlerBusy, WorkerBusy
<1>1. CASE AddConnection(c)
  BY <1>0, <1>1 DEF AddConnection, SessionState
<1>2. CASE SetContext(c)
  BY <1>2 DEF SetContext, SessionState
<1>3. CASE Refuse(c)
  BY <1>3, IdleType DEF Refuse, IdleLoop, Handling
<1>4. CASE FormulateFinalResponse(c)
  <2>1. loop' \in [Conn -> LoopState]
    BY <1>0, <1>4 DEF FormulateFinalResponse, LoopState
  <2>2. nextSeq' \in [Conn -> Nat]
    BY <1>0, <1>4 DEF FormulateFinalResponse, FetchAddSequenceNumber
  <2>3. HandlerBusy'
    BY <1>0, <1>4 DEF FormulateFinalResponse, LoopState
  <2> QED BY <1>4, <2>1, <2>2, <2>3 DEF FormulateFinalResponse
<1>5. CASE SendResponse(c)
  <2>1. loop[c].seq \in Nat /\ <<loop[c].req, 0>> \in Message
    BY <1>0, <1>5 DEF SendResponse, Message, LoopState
  <2>2. [seq |-> loop[c].seq, msg |-> <<loop[c].req, 0>>] \in Frame
    BY <2>1 DEF Frame
  <2>3. wire' \in [Conn -> Seq(Frame)]
    BY <1>5, <2>2 DEF SendResponse, Deliver
  <2> QED BY <1>5, <2>3, NextPostSendType DEF SendResponse
<1>6. CASE GetConnectionForPlayer(c)
  BY <1>0, <1>6 DEF GetConnectionForPlayer, LoopState
<1>7. CASE ScheduleNotification(c)
  <2>1. <<loop[c].req, loop[c].next>> \in Message
    BY <1>0, <1>7 DEF ScheduleNotification, Message, LoopState
  <2>2. worker' \in [Conn -> WorkerState] /\ WorkerBusy'
    <3> DEFINE d == loop[c].target
    <3>1. d \in Conn /\ worker' = [worker EXCEPT ![d].pc = IF @ = "asleep" THEN "check" ELSE @]
      BY <1>7 DEF ScheduleNotification, NotifyWorker
    <3>2. worker[d] \in WorkerState
      BY <3>1
    <3> HIDE DEF d
    <3> QED BY <3>1, <3>2 DEF WorkerState
  <2>3. queue' \in [Conn -> Seq(Message)]
    <3>1. loop[c].target \in Conn /\ queue[loop[c].target] \in Seq(Message)
      BY <1>7 DEF ScheduleNotification
    <3>2. Append(queue[loop[c].target], <<loop[c].req, loop[c].next>>) \in Seq(Message)
      BY <2>1, <3>1
    <3> QED BY <1>7, <3>1, <3>2 DEF ScheduleNotification
  <2>4. loop' \in [Conn -> LoopState] /\ HandlerBusy'
    <3>1. loop' = [loop EXCEPT ![c] = NextPostSend(c)] /\ session' = session /\ loop[c].pc = "push"
      BY <1>7 DEF ScheduleNotification
    <3>2. /\ NextPostSend(c) \in LoopState
          /\ NextPostSend(c).pc # "push"
          /\ NextPostSend(c).pc # "idle" => NextPostSend(c).req \in Request
      BY <3>1, NextPostSendType
    <3> QED BY <3>1, <3>2
  <2>5. UNCHANGED <<session, nextSeq, connectionsByPlayerId, disk, wire, served>>
    BY <1>7 DEF ScheduleNotification
  <2> QED BY <2>2, <2>3, <2>4, <2>5
<1>8. CASE ScheduleWithoutContext(c)
  BY <1>8, DieType DEF ScheduleWithoutContext
<1>9. CASE ReadSavedNotifications(c)
  <2>1. Append(disk[Owner[c]], <<loop[c].req, loop[c].next>>) \in Seq(Message)
    <3>1. <<loop[c].req, loop[c].next>> \in Message
      BY <1>0, <1>9 DEF ReadSavedNotifications, Message, LoopState
    <3> QED BY <1>0, <3>1
  <2>2. loop' \in [Conn -> LoopState] /\ HandlerBusy'
    BY <1>0, <1>9, <2>1 DEF ReadSavedNotifications, LoopState
  <2> QED BY <1>9, <2>2 DEF ReadSavedNotifications
<1>10. CASE WriteSavedNotifications(c)
  <2>1. disk' \in [Player -> Seq(Message)]
    BY <1>0, <1>10 DEF WriteSavedNotifications, LoopState
  <2> QED BY <1>10, <2>1, NextPostSendType DEF WriteSavedNotifications
<1>11. CASE AbandonPostSend(c)
  BY <1>11, IdleType DEF AbandonPostSend, IdleLoop, Handling
<1>12. CASE HandleConnectionClosed(c)
  BY <1>0, <1>12 DEF HandleConnectionClosed, EraseOwnRoute, SessionState
<1> QED
  BY <1>1, <1>2, <1>3, <1>4, <1>5, <1>6, <1>7, <1>8, <1>9, <1>10, <1>11, <1>12 DEF LoopStep

LEMMA WorkerStepType ==
  ASSUME TypeInv, NEW c \in Conn, WorkerStep(c)
  PROVE  TypeInv'
<1> UNCHANGED setting
  BY DEF WorkerStep
<1>0. /\ worker[c] \in WorkerState /\ nextSeq[c] \in Nat /\ Owner[c] \in Player
      /\ queue[c] \in Seq(Message) /\ wire[c] \in Seq(Frame)
  BY ConstantsAssumption DEF TypeInv, TypeOK
<1> USE DEF TypeInv, TypeOK, HandlerBusy, WorkerBusy
<1>1. CASE WorkerPop(c)
  <2>1. Head(queue[c]) \in Message /\ Tail(queue[c]) \in Seq(Message)
    BY <1>0, <1>1 DEF WorkerPop
  <2>2. Worker("formulate", Head(queue[c])) \in WorkerState
    BY <2>1 DEF Worker, WorkerState
  <2> QED BY <1>1, <2>1, <2>2 DEF WorkerPop, PopFront, Worker
<1>2. CASE WorkerSleep(c)
  BY <1>0, <1>2 DEF WorkerSleep, WorkerState
<1>3. CASE FormulateFinalNotification(c)
  <2>1. worker' \in [Conn -> WorkerState] /\ WorkerBusy'
    BY <1>0, <1>3 DEF FormulateFinalNotification, WorkerState
  <2>2. nextSeq' \in [Conn -> Nat]
    BY <1>0, <1>3 DEF FormulateFinalNotification, FetchAddSequenceNumber
  <2> QED BY <1>3, <2>1, <2>2 DEF FormulateFinalNotification
<1>4. CASE WorkerSend(c)
  <2>0. worker[c].seq \in Nat /\ worker[c].msg \in Message
    BY <1>0, <1>4 DEF WorkerSend, WorkerState
  <2>1. [seq |-> worker[c].seq, msg |-> worker[c].msg] \in Frame
    BY <2>0 DEF Frame
  <2>2. wire' \in [Conn -> Seq(Frame)]
    <3>1. wire' = wire \/ wire' = [wire EXCEPT ![c] = Append(@, [seq |-> worker[c].seq, msg |-> worker[c].msg])]
      BY <1>4 DEF WorkerSend, Deliver
    <3>2. Append(wire[c], [seq |-> worker[c].seq, msg |-> worker[c].msg]) \in Seq(Frame)
      BY <1>0, <2>1
    <3> QED BY <3>1, <3>2
  <2> QED BY <1>0, <1>4, <2>2 DEF WorkerSend, WorkerState
<1>5. CASE WorkerSnapshot(c)
  BY <1>0, <1>5 DEF WorkerSnapshot, Snapshot, WorkerState
<1>6. CASE WorkerPersist(c)
  <2>1. worker[c].saved \in Seq(Message)
    BY <1>0 DEF WorkerState
  <2>2. Worker("release", NoMessage) \in WorkerState
    BY DEF Worker, WorkerState
  <2> QED BY <1>0, <1>6, <2>1, <2>2 DEF WorkerPersist, Worker
<1>7. CASE WorkerRelease(c)
  BY <1>0, <1>7 DEF WorkerRelease, WorkerState
<1>8. CASE WorkerReleaseLast(c)
  BY <1>8, DieType DEF WorkerReleaseLast
<1>9. CASE WorkerStop(c)
  <2>1. worker' \in [Conn -> WorkerState] /\ WorkerBusy'
    BY <1>0, <1>9 DEF WorkerStop, WorkerState
  <2>2. queue' \in [Conn -> Seq(Message)]
    BY <1>9 DEF WorkerStop
  <2> QED BY <1>9, <2>1, <2>2 DEF WorkerStop
<1> QED
  BY <1>1, <1>2, <1>3, <1>4, <1>5, <1>6, <1>7, <1>8, <1>9 DEF WorkerStep

LEMMA ClientStepType ==
  ASSUME TypeInv, NEW c \in Conn, ClientStep(c)
  PROVE  TypeInv'
<1> UNCHANGED setting
  BY DEF ClientStep
<1>0. Owner[c] \in Player
  BY ConstantsAssumption
<1> USE DEF TypeInv, TypeOK, HandlerBusy, WorkerBusy
<1>1. CASE LoadSavedNotifications(c)
  <2>1. Worker("check", NoMessage) \in WorkerState
    BY DEF Worker, WorkerState
  <2> QED BY <1>0, <1>1, <2>1 DEF LoadSavedNotifications, LoadFromDisk, SessionState, Worker
<1>2. ASSUME NEW r \in Request, Receive(c, r) PROVE TypeInv'
  <2>1. Handling("process", r, 0) \in LoopState
    BY DEF Handling, LoopState
  <2> QED BY <1>2, <2>1 DEF Receive, Handling
<1>3. CASE Disconnect(c)
  BY <1>3 DEF Disconnect, SessionState
<1> QED BY <1>1, <1>2, <1>3 DEF ClientStep

LEMMA NextType == TypeInv /\ [Next]_vars => TypeInv'
<1> SUFFICES ASSUME TypeInv, [Next]_vars PROVE TypeInv'
  OBVIOUS
<1>1. CASE Crash
  BY <1>1, DieType DEF Crash
<1>2. ASSUME NEW c \in Conn, LoopStep(c) \/ WorkerStep(c) \/ ClientStep(c) PROVE TypeInv'
  BY <1>2, LoopStepType, WorkerStepType, ClientStepType
<1>3. CASE UNCHANGED vars
  BY <1>3 DEF vars, TypeInv, TypeOK, HandlerBusy, WorkerBusy
<1> QED BY <1>1, <1>2, <1>3 DEF Next

\* Every variable keeps its type: what is queued, saved and sent is always a message of a
\* request somebody made, whatever the interleaving of handlers, workers and closes.
THEOREM TypeCorrect == Spec => []TypeOK
<1>1. Spec => []TypeInv
  BY InitType, NextType, PTL DEF Spec
<1>2. TypeInv => TypeOK
  BY DEF TypeInv
<1> QED BY <1>1, <1>2, PTL

-----------------------------------------------------------------------------
(***************************************************************************)
(* Routing.  An entry of connectionsByPlayerId belongs to its player and   *)
(* names a connection between AddConnection and handleConnectionClosed;    *)
(* the second follows because the close of a connection erases every entry *)
(* that can name it, the one of its own player.                            *)
(***************************************************************************)
RouteInv ==
  \A p \in Player : connectionsByPlayerId[p] # NoConn =>
    /\ Owner[connectionsByPlayerId[p]] = p
    /\ session[connectionsByPlayerId[p]] \in {"registered", "open", "closing"}

LEMMA DieRoutes == TypeInv /\ Die => RouteInv'
BY DEF Die, RouteInv, TypeInv, TypeOK

LEMMA NextRoutes == TypeInv /\ RouteInv /\ [Next]_vars => RouteInv'
<1> SUFFICES ASSUME TypeInv, RouteInv, [Next]_vars PROVE RouteInv'
  OBVIOUS
<1> USE DEF RouteInv
<1>1. CASE Crash
  BY <1>1, DieRoutes DEF Crash
<1>2. ASSUME NEW c \in Conn, LoopStep(c) PROVE RouteInv'
  <2>0. /\ Owner[c] \in Player /\ NoConn \notin Conn /\ session \in [Conn -> SessionState]
        /\ connectionsByPlayerId \in [Player -> Conn \union {NoConn}]
    BY ConstantsAssumption DEF TypeInv, TypeOK
  <2>1. CASE AddConnection(c)
    BY <2>0, <2>1 DEF AddConnection
  <2>2. CASE SetContext(c)
    BY <2>0, <2>2 DEF SetContext
  <2>3. CASE HandleConnectionClosed(c)
    BY <2>0, <2>3 DEF HandleConnectionClosed, EraseOwnRoute
  <2>4. CASE ScheduleWithoutContext(c)
    BY <2>4, DieRoutes DEF ScheduleWithoutContext
  <2>5. CASE UNCHANGED <<session, connectionsByPlayerId>>
    BY <2>5
  <2> QED
    BY <1>2, <2>1, <2>2, <2>3, <2>4, <2>5
       DEF LoopStep, Refuse, FormulateFinalResponse, SendResponse, GetConnectionForPlayer,
           ScheduleNotification, ReadSavedNotifications, WriteSavedNotifications, AbandonPostSend
<1>3. ASSUME NEW c \in Conn, WorkerStep(c) PROVE RouteInv'
  <2>1. CASE WorkerReleaseLast(c)
    BY <2>1, DieRoutes DEF WorkerReleaseLast
  <2>2. CASE UNCHANGED <<session, connectionsByPlayerId>>
    BY <2>2
  <2> QED
    BY <1>3, <2>1, <2>2
       DEF WorkerStep, WorkerPop, WorkerSleep, FormulateFinalNotification, WorkerSend,
           WorkerSnapshot, WorkerPersist, WorkerRelease, WorkerStop
<1>4. ASSUME NEW c \in Conn, ClientStep(c) PROVE RouteInv'
  <2>0. session \in [Conn -> SessionState]
    BY DEF TypeInv, TypeOK
  <2>1. CASE LoadSavedNotifications(c)
    BY <2>0, <2>1 DEF LoadSavedNotifications
  <2>2. CASE \E r \in Request : Receive(c, r)
    BY <2>2 DEF Receive
  <2>3. CASE Disconnect(c)
    BY <2>0, <2>3 DEF Disconnect
  <2> QED BY <1>4, <2>1, <2>2, <2>3 DEF ClientStep
<1>5. CASE UNCHANGED vars
  BY <1>5 DEF vars
<1> QED BY <1>1, <1>2, <1>3, <1>4, <1>5 DEF Next

LEMMA RouteInvariant == Spec => [](TypeInv /\ RouteInv)
<1>1. Init => RouteInv
  BY DEF Init, RouteInv
<1> QED BY <1>1, InitType, NextType, NextRoutes, PTL DEF Spec

\* Notifications are never routed to a connection whose close has been handled.
THEOREM RoutesOnlyToLiveHolds == Spec => []RoutesOnlyToLive
<1>1. RouteInv => RoutesOnlyToLive
  BY DEF RouteInv, RoutesOnlyToLive
<1> QED BY <1>1, RouteInvariant, PTL

LEMMA DieLosesAll == TypeInv /\ Die => \A e \in Conn : session'[e] \in {"new", "gone"}
BY DEF Die

\* A late close of an old connection never takes the route of a newer one away.
THEOREM RouteKeptHolds == Spec => RouteKept
<1> DEFINE Kept(p) ==
      LET c == connectionsByPlayerId[p]
          d == connectionsByPlayerId'[p] IN
      c # NoConn /\ d # c =>
        \/ session[c] = "closing" /\ d = NoConn
        \/ d # NoConn /\ session[d] = "loaded" /\ Owner[d] = p
        \/ \A e \in Conn : session'[e] \in {"new", "gone"}
<1>1. ASSUME TypeInv, RouteInv, [Next]_vars, NEW p \in Player PROVE Kept(p)
  <2>0. /\ NoConn \notin Conn
        /\ connectionsByPlayerId \in [Player -> Conn \union {NoConn}]
    BY <1>1, ConstantsAssumption DEF TypeInv, TypeOK
  <2>1. CASE Die
    BY <1>1, <2>1, DieLosesAll
  <2>2. CASE UNCHANGED connectionsByPlayerId
    BY <2>2
  <2>3. ASSUME NEW c \in Conn, AddConnection(c) PROVE Kept(p)
    BY <2>0, <2>3 DEF AddConnection
  <2>4. ASSUME NEW c \in Conn, HandleConnectionClosed(c) PROVE Kept(p)
    BY <2>0, <2>4 DEF HandleConnectionClosed, EraseOwnRoute
  <2>5. \/ Die \/ UNCHANGED connectionsByPlayerId
        \/ \E c \in Conn : AddConnection(c) \/ HandleConnectionClosed(c)
    BY <1>1
       DEF Next, vars, Crash, LoopStep, WorkerStep, ClientStep, LoadSavedNotifications,
           SetContext, Receive, Refuse, FormulateFinalResponse, SendResponse,
           GetConnectionForPlayer, ScheduleNotification, ScheduleWithoutContext,
           ReadSavedNotifications, WriteSavedNotifications, AbandonPostSend, WorkerPop,
           WorkerSleep, FormulateFinalNotification, WorkerSend, WorkerSnapshot,
           WorkerPersist, WorkerRelease, WorkerReleaseLast, WorkerStop, Disconnect
  <2> HIDE DEF Kept
  <2> QED BY <2>1, <2>2, <2>3, <2>4, <2>5
<1>2. TypeInv /\ RouteInv /\ [Next]_vars => [\A p \in Player : Kept(p)]_vars
  BY <1>1
<1>3. Spec => [][\A p \in Player : Kept(p)]_vars
  BY <1>2, RouteInvariant, PTL DEF Spec
<1> QED BY <1>3 DEF RouteKept

-----------------------------------------------------------------------------
(***************************************************************************)
(* Sequence numbers.  Uniqueness on the wire is not inductive: the numbers *)
(* the two threads hold between fetch_add and send count as well.          *)
(***************************************************************************)
SeqInv(c) ==
  /\ \A i, j \in DOMAIN wire[c] : wire[c][i].seq = wire[c][j].seq => i = j
  /\ \A i \in DOMAIN wire[c] : wire[c][i].seq < nextSeq[c]
  /\ loop[c].pc = "send" =>
       loop[c].seq < nextSeq[c] /\ \A i \in DOMAIN wire[c] : wire[c][i].seq # loop[c].seq
  /\ worker[c].pc = "send" =>
       worker[c].seq < nextSeq[c] /\ \A i \in DOMAIN wire[c] : wire[c][i].seq # worker[c].seq
  /\ loop[c].pc = "send" /\ worker[c].pc = "send" => loop[c].seq # worker[c].seq

\* While the connection is up, no number is unaccounted for.
DenseInv(c) ==
  Connected(c) => \A n \in 0 .. nextSeq[c] - 1 :
    \/ \E i \in DOMAIN wire[c] : wire[c][i].seq = n
    \/ loop[c].pc = "send" /\ loop[c].seq = n
    \/ worker[c].pc = "send" /\ worker[c].seq = n

\* A connection that does not exist yet has numbered nothing.
FreshInv(c) == session[c] = "new" => nextSeq[c] = 0 /\ worker[c].pc = "none"

NumberInv == \A c \in Conn : SeqInv(c) /\ DenseInv(c) /\ FreshInv(c)

\* What one step can do to the numbers of one connection.
SameLoopNumber(c) == loop'[c].pc = "send" <=> loop[c].pc = "send"
SameWorkerNumber(c) == worker'[c].pc = "send" <=> worker[c].pc = "send"
Unnumbered(c) ==
  /\ wire'[c] = wire[c] /\ nextSeq'[c] = nextSeq[c]
  /\ loop'[c].pc = "send" => loop[c].pc = "send" /\ loop'[c].seq = loop[c].seq
  /\ worker'[c].pc = "send" => worker[c].pc = "send" /\ worker'[c].seq = worker[c].seq
  /\ session'[c] = "new" => session[c] = "new" /\ worker'[c].pc = worker[c].pc
  /\ Connected(c)' =>
       session[c] = "new" \/ (Connected(c) /\ SameLoopNumber(c) /\ SameWorkerNumber(c))
LoopNumbers(c) ==
  /\ wire'[c] = wire[c] /\ nextSeq'[c] = nextSeq[c] + 1 /\ loop'[c].seq = nextSeq[c]
  /\ worker'[c] = worker[c] /\ session'[c] = session[c] /\ session[c] # "new"
  /\ loop[c].pc # "send" /\ loop'[c].pc = "send"
WorkerNumbers(c) ==
  /\ wire'[c] = wire[c] /\ nextSeq'[c] = nextSeq[c] + 1 /\ worker'[c].seq = nextSeq[c]
  /\ loop'[c] = loop[c] /\ session'[c] = session[c]
  /\ worker[c].pc = "formulate" /\ worker'[c].pc = "send"
LoopSends(c) ==
  /\ loop[c].pc = "send" /\ loop'[c].pc # "send"
  /\ wire'[c] = Append(wire[c], [seq |-> loop[c].seq, msg |-> <<loop[c].req, 0>>])
  /\ worker'[c] = worker[c] /\ nextSeq'[c] = nextSeq[c] /\ session'[c] = session[c]
WorkerSends(c) ==
  /\ worker[c].pc = "send" /\ worker'[c].pc = "snapshot"
  /\ wire'[c] = Append(wire[c], [seq |-> worker[c].seq, msg |-> worker[c].msg])
  /\ loop'[c] = loop[c] /\ nextSeq'[c] = nextSeq[c] /\ session'[c] = session[c]

LEMMA AppendLast ==
  ASSUME NEW S, NEW s \in Seq(S), NEW e \in S
  PROVE  /\ DOMAIN Append(s, e) = DOMAIN s \union {Len(s) + 1}
         /\ Len(s) + 1 \notin DOMAIN s
         /\ \A i \in DOMAIN s : Append(s, e)[i] = s[i]
         /\ Append(s, e)[Len(s) + 1] = e
OBVIOUS

LEMMA NumberEffects ==
  ASSUME TypeInv, TypeInv', NEW c \in Conn, SeqInv(c), DenseInv(c), FreshInv(c),
         \/ Unnumbered(c) \/ LoopNumbers(c) \/ WorkerNumbers(c)
         \/ LoopSends(c) \/ WorkerSends(c)
  PROVE  SeqInv(c)' /\ DenseInv(c)' /\ FreshInv(c)'
<1>0. /\ nextSeq[c] \in Nat /\ wire[c] \in Seq(Frame) /\ loop[c].seq \in Nat /\ worker[c].seq \in Nat
      /\ \A i \in DOMAIN wire[c] : wire[c][i].seq \in Nat
  <2>1. wire[c] \in Seq(Frame) /\ loop[c] \in LoopState /\ worker[c] \in WorkerState
    BY DEF TypeInv, TypeOK
  <2>2. \A i \in DOMAIN wire[c] : wire[c][i] \in Frame
    BY <2>1
  <2> QED BY <2>1, <2>2 DEF TypeInv, TypeOK, LoopState, WorkerState, Frame
<1>1. CASE Unnumbered(c)
  <2>1. SeqInv(c)'
    BY <1>1 DEF Unnumbered, SeqInv
  <2>2. DenseInv(c)'
    BY <1>0, <1>1 DEF Unnumbered, SameLoopNumber, SameWorkerNumber, DenseInv, FreshInv
  <2>3. FreshInv(c)'
    BY <1>1 DEF Unnumbered, FreshInv
  <2> QED BY <2>1, <2>2, <2>3
<1>2. CASE LoopNumbers(c)
  <2>1. SeqInv(c)'
    BY <1>0, <1>2 DEF LoopNumbers, SeqInv
  <2>2. DenseInv(c)'
    BY <1>0, <1>2 DEF LoopNumbers, DenseInv, Connected
  <2> QED BY <1>2, <2>1, <2>2 DEF LoopNumbers, FreshInv
<1>3. CASE WorkerNumbers(c)
  <2>1. SeqInv(c)'
    BY <1>0, <1>3 DEF WorkerNumbers, SeqInv
  <2>2. DenseInv(c)'
    BY <1>0, <1>3 DEF WorkerNumbers, DenseInv, Connected
  <2> QED BY <1>3, <2>1, <2>2 DEF WorkerNumbers, FreshInv
<1>4. CASE LoopSends(c)
  <2> DEFINE f == [seq |-> loop[c].seq, msg |-> <<loop[c].req, 0>>]
  <2>1. f \in Frame /\ f.seq = loop[c].seq
    <3>1. <<loop[c].req, 0>> \in Message
      BY <1>4 DEF LoopSends, TypeInv, HandlerBusy, Message
    <3> QED BY <1>0, <3>1 DEF Frame
  <2>2. wire'[c] = Append(wire[c], f)
    BY <1>4 DEF LoopSends
  <2> HIDE DEF f
  <2>3. /\ DOMAIN wire'[c] = DOMAIN wire[c] \union {Len(wire[c]) + 1}
        /\ Len(wire[c]) + 1 \notin DOMAIN wire[c]
        /\ \A i \in DOMAIN wire[c] : wire'[c][i] = wire[c][i]
        /\ wire'[c][Len(wire[c]) + 1] = f
    BY <1>0, <2>1, <2>2, AppendLast
  <2>4. SeqInv(c)'
    BY <1>0, <1>4, <2>1, <2>3 DEF LoopSends, SeqInv
  <2>5. DenseInv(c)'
    <3> SUFFICES ASSUME Connected(c)', NEW n \in 0 .. nextSeq[c] - 1
                 PROVE  \/ \E i \in DOMAIN wire'[c] : wire'[c][i].seq = n
                        \/ worker'[c].pc = "send" /\ worker'[c].seq = n
      BY <1>4 DEF LoopSends, DenseInv
    <3>1. CASE n = loop[c].seq
      BY <2>1, <2>3, <3>1
    <3>2. CASE n # loop[c].seq
      <4>1. \/ \E i \in DOMAIN wire[c] : wire[c][i].seq = n
            \/ worker[c].pc = "send" /\ worker[c].seq = n
        BY <1>4, <3>2 DEF LoopSends, DenseInv, Connected
      <4> QED BY <1>4, <2>3, <4>1 DEF LoopSends
    <3> QED BY <3>1, <3>2
  <2> QED BY <1>4, <2>4, <2>5 DEF LoopSends, FreshInv
<1>5. CASE WorkerSends(c)
  <2> DEFINE f == [seq |-> worker[c].seq, msg |-> worker[c].msg]
  <2>1. f \in Frame /\ f.seq = worker[c].seq
    <3>1. worker[c].msg \in Message
      BY <1>5 DEF WorkerSends, TypeInv, WorkerBusy
    <3> QED BY <1>0, <3>1 DEF Frame
  <2>2. wire'[c] = Append(wire[c], f)
    BY <1>5 DEF WorkerSends
  <2> HIDE DEF f
  <2>3. /\ DOMAIN wire'[c] = DOMAIN wire[c] \union {Len(wire[c]) + 1}
        /\ Len(wire[c]) + 1 \notin DOMAIN wire[c]
        /\ \A i \in DOMAIN wire[c] : wire'[c][i] = wire[c][i]
        /\ wire'[c][Len(wire[c]) + 1] = f
    BY <1>0, <2>1, <2>2, AppendLast
  <2>4. SeqInv(c)'
    BY <1>0, <1>5, <2>1, <2>3 DEF WorkerSends, SeqInv
  <2>5. DenseInv(c)'
    BY <1>0, <1>5, <2>1, <2>3 DEF WorkerSends, DenseInv, Connected
  <2> QED BY <1>5, <2>4, <2>5 DEF WorkerSends, FreshInv
<1> QED BY <1>1, <1>2, <1>3, <1>4, <1>5

LEMMA DieEffect ==
  ASSUME TypeInv, Die, NEW c \in Conn, FreshInv(c)
  PROVE  Unnumbered(c)
<1>1. loop'[c].pc = "idle"
  BY DEF Die, IdleLoop, Handling
<1>2. worker'[c].pc = IF worker[c].pc = "none" THEN "none" ELSE "exited"
  BY DEF Die, Worker
<1>3. /\ session'[c] \in {"new", "gone"} /\ wire'[c] = wire[c] /\ nextSeq'[c] = nextSeq[c]
      /\ session'[c] = "new" <=> session[c] = "new"
  BY DEF Die
<1>4. session[c] = "new" => worker'[c].pc = worker[c].pc
  BY <1>2 DEF FreshInv
<1>5. Connected(c)' => FALSE
  BY <1>3 DEF Connected
<1> QED BY <1>1, <1>2, <1>3, <1>4, <1>5 DEF Unnumbered

LEMMA StepEffects ==
  ASSUME TypeInv, NumberInv, [Next]_vars, NEW c \in Conn
  PROVE  \/ Unnumbered(c) \/ LoopNumbers(c) \/ WorkerNumbers(c)
         \/ LoopSends(c) \/ WorkerSends(c)
<1>0. /\ loop \in [Conn -> LoopState] /\ worker \in [Conn -> WorkerState]
      /\ nextSeq \in [Conn -> Nat] /\ wire \in [Conn -> Seq(Frame)]
      /\ session \in [Conn -> SessionState]
      /\ FreshInv(c) /\ (loop[c].pc # "idle" => session[c] = "open")
  BY DEF TypeInv, TypeOK, HandlerBusy, NumberInv
<1> USE DEF Unnumbered, SameLoopNumber, SameWorkerNumber, Connected
<1>1. CASE Die
  BY <1>0, <1>1, DieEffect
<1>2. CASE UNCHANGED vars
  BY <1>2 DEF vars
<1>3. ASSUME NEW e \in Conn, LoopStep(e), ~Die PROVE
        Unnumbered(c) \/ LoopNumbers(c) \/ LoopSends(c)
  <2>1. CASE AddConnection(e)
    BY <1>0, <2>1 DEF AddConnection
  <2>2. CASE SetContext(e)
    BY <1>0, <2>2 DEF SetContext
  <2>3. CASE Refuse(e)
    BY <1>0, <2>3 DEF Refuse, IdleLoop, Handling
  <2>4. CASE FormulateFinalResponse(e)
    <3>1. CASE e = c
      BY <1>0, <2>4, <3>1 DEF FormulateFinalResponse, FetchAddSequenceNumber, LoopNumbers, LoopState
    <3> QED BY <1>0, <2>4, <3>1 DEF FormulateFinalResponse, FetchAddSequenceNumber
  <2>5. CASE SendResponse(e)
    <3>1. NextPostSend(e).pc # "send"
      BY <2>5, NextPostSendType DEF SendResponse
    <3>2. CASE e = c
      BY <1>0, <2>5, <3>1, <3>2 DEF SendResponse, Deliver, LoopSends
    <3> QED BY <1>0, <2>5, <3>2 DEF SendResponse, Deliver
  <2>6. CASE GetConnectionForPlayer(e)
    BY <1>0, <2>6 DEF GetConnectionForPlayer, LoopState
  <2>7. CASE ScheduleNotification(e)
    <3>1. NextPostSend(e).pc # "send" /\ loop[e].pc = "push"
      BY <2>7, NextPostSendType DEF ScheduleNotification
    <3>2. /\ loop' = [loop EXCEPT ![e] = NextPostSend(e)]
          /\ UNCHANGED <<session, nextSeq, wire>>
      BY <2>7 DEF ScheduleNotification
    <3>3. /\ worker'[c].pc = "send" <=> worker[c].pc = "send"
          /\ worker[c].pc = "none" => worker'[c].pc = worker[c].pc
          /\ worker'[c].seq = worker[c].seq
      BY <1>0, <2>7 DEF ScheduleNotification, NotifyWorker, WorkerState
    <3>4. loop'[c].pc = "send" <=> loop[c].pc = "send"
      BY <1>0, <3>1, <3>2
    <3>5. loop'[c].pc = "send" => loop'[c].seq = loop[c].seq
      BY <1>0, <3>1, <3>2
    <3> QED BY <1>0, <3>2, <3>3, <3>4, <3>5 DEF FreshInv
  <2>8. CASE ReadSavedNotifications(e)
    BY <1>0, <2>8 DEF ReadSavedNotifications, LoopState
  <2>9. CASE WriteSavedNotifications(e)
    <3>1. NextPostSend(e).pc # "send"
      BY <2>9, NextPostSendType DEF WriteSavedNotifications
    <3> QED BY <1>0, <2>9, <3>1 DEF WriteSavedNotifications
  <2>10. CASE AbandonPostSend(e)
    BY <1>0, <2>10 DEF AbandonPostSend, IdleLoop, Handling
  <2>11. CASE HandleConnectionClosed(e)
    BY <1>0, <2>11 DEF HandleConnectionClosed
  <2> QED
    BY <1>3, <2>1, <2>2, <2>3, <2>4, <2>5, <2>6, <2>7, <2>8, <2>9, <2>10, <2>11
       DEF LoopStep, ScheduleWithoutContext
<1>4. ASSUME NEW e \in Conn, WorkerStep(e), ~Die PROVE
        Unnumbered(c) \/ WorkerNumbers(c) \/ WorkerSends(c)
  <2>1. CASE WorkerPop(e)
    BY <1>0, <2>1 DEF WorkerPop, Worker, FreshInv
  <2>2. CASE WorkerSleep(e)
    BY <1>0, <2>2 DEF WorkerSleep, FreshInv, WorkerState
  <2>3. CASE FormulateFinalNotification(e)
    <3>1. CASE e = c
      BY <1>0, <2>3, <3>1 DEF FormulateFinalNotification, FetchAddSequenceNumber, WorkerNumbers, WorkerState
    <3> QED BY <1>0, <2>3, <3>1 DEF FormulateFinalNotification, FetchAddSequenceNumber
  <2>4. CASE WorkerSend(e)
    <3>1. CASE e = c /\ Connected(c)
      BY <1>0, <2>4, <3>1 DEF WorkerSend, Deliver, WorkerSends, WorkerState
    <3>2. CASE e = c /\ ~Connected(c)
      BY <1>0, <2>4, <3>2 DEF WorkerSend, FreshInv, WorkerState
    <3> QED BY <1>0, <2>4, <3>1, <3>2 DEF WorkerSend, Deliver
  <2>5. CASE WorkerSnapshot(e)
    BY <1>0, <2>5 DEF WorkerSnapshot, FreshInv, WorkerState
  <2>6. CASE WorkerPersist(e)
    BY <1>0, <2>6 DEF WorkerPersist, Worker, FreshInv
  <2>7. CASE WorkerRelease(e)
    BY <1>0, <2>7 DEF WorkerRelease, FreshInv, WorkerState
  <2>8. CASE WorkerStop(e)
    BY <1>0, <2>8 DEF WorkerStop, FreshInv, WorkerState
  <2> QED
    BY <1>4, <2>1, <2>2, <2>3, <2>4, <2>5, <2>6, <2>7, <2>8 DEF WorkerStep, WorkerReleaseLast
<1>5. ASSUME NEW e \in Conn, ClientStep(e) PROVE Unnumbered(c)
  <2>1. CASE LoadSavedNotifications(e)
    BY <1>0, <2>1 DEF LoadSavedNotifications, Worker, FreshInv
  <2>2. ASSUME NEW r \in Request, Receive(e, r) PROVE Unnumbered(c)
    BY <1>0, <2>2 DEF Receive, Handling
  <2>3. CASE Disconnect(e)
    BY <1>0, <2>3 DEF Disconnect
  <2> QED BY <1>5, <2>1, <2>2, <2>3 DEF ClientStep
<1> HIDE DEF Unnumbered
<1> QED BY <1>1, <1>2, <1>3, <1>4, <1>5 DEF Next, Crash

LEMMA NumberInvariant == Spec => []NumberInv
<1>1. Init => NumberInv
  BY DEF Init, NumberInv, SeqInv, DenseInv, FreshInv, Connected, IdleLoop, Handling, NoWorker, Worker
<1>2. TypeInv /\ NumberInv /\ [Next]_vars => NumberInv'
  <2> SUFFICES ASSUME TypeInv, NumberInv, [Next]_vars, NEW c \in Conn
               PROVE  SeqInv(c)' /\ DenseInv(c)' /\ FreshInv(c)'
    BY DEF NumberInv
  <2>1. TypeInv' /\ SeqInv(c) /\ DenseInv(c) /\ FreshInv(c)
    BY NextType DEF NumberInv
  <2> QED BY <2>1, StepEffects, NumberEffects
<1> QED BY <1>1, <1>2, InitType, NextType, PTL DEF Spec

\* The loop thread and the worker of a connection never put one number on two frames.
THEOREM SequenceNumbersUniqueHolds == Spec => []SequenceNumbersUnique
<1>1. NumberInv => SequenceNumbersUnique
  BY DEF NumberInv, SeqInv, SequenceNumbersUnique
<1> QED BY <1>1, NumberInvariant, PTL

\* No number is lost while the connection is up: the client can take a gap for a frame that
\* is still under way.
THEOREM SequenceNumbersDenseHolds == Spec => []SequenceNumbersDense
<1>1. TypeInv /\ NumberInv => SequenceNumbersDense
  <2> SUFFICES ASSUME TypeInv, NumberInv, NEW c \in Conn, Connected(c)
               PROVE  SeqOnWire(c) \union SeqHeldByLoop(c) \union SeqHeldByWorker(c)
                        = 0 .. nextSeq[c] - 1
    BY DEF SequenceNumbersDense
  <2>1. SeqInv(c) /\ DenseInv(c)
    BY DEF NumberInv
  <2>2. wire[c] \in Seq(Frame) /\ loop[c] \in LoopState /\ worker[c] \in WorkerState
    BY DEF TypeInv, TypeOK
  <2>3. \A i \in DOMAIN wire[c] : wire[c][i] \in Frame
    BY <2>2
  <2>4. /\ \A i \in DOMAIN wire[c] : wire[c][i].seq \in Nat
        /\ loop[c].seq \in Nat /\ worker[c].seq \in Nat /\ nextSeq[c] \in Nat
    BY <2>2, <2>3 DEF Frame, LoopState, WorkerState, TypeInv, TypeOK
  <2> QED
    BY <2>1, <2>4 DEF SeqInv, DenseInv, SeqOnWire, SeqHeldByLoop, SeqHeldByWorker
<1>2. Spec => []TypeInv
  BY InitType, NextType, PTL DEF Spec
<1> QED BY <1>1, <1>2, NumberInvariant, PTL
=============================================================================
