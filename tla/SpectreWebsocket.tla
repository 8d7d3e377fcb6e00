-------------------------- MODULE SpectreWebsocket --------------------------
(***************************************************************************)
(* Websocket sessions and notification delivery:                           *)
(* Packets/Implementation/SpectreWebsocket.cpp.                            *)
(*                                                                         *)
(* A connection's three callbacks run on one event loop thread, one after  *)
(* the other; callbacks of different connections run concurrently.  Every  *)
(* connection owns a SpectreWebsocket: a queue of notifications and a      *)
(* worker thread that sends them.  connectionsByPlayerId routes a player's *)
(* notifications to his newest connection; those that find no connection   *)
(* are appended to the player's NOTIFICATION_DATA column, which is also    *)
(* where every worker saves what is left of its queue after a send.        *)
(***************************************************************************)
EXTENDS Integers, Sequences, Functions

CONSTANTS Player, Conn, Request,
          NoConn, NoRequest,
          Owner,     \* the player whose bearer token a connection carries
          Posts,     \* how many post-send notifications a request's handler returns
          Settings,  \* what clients do: the requests they bring in (bound), and whether a player
                     \* may connect while his last connection is still torn down
          MayFail,   \* may a database statement throw (busy timeout, I/O error)?
          MayCrash   \* may the process be killed?

ASSUME ConstantsAssumption ==
  /\ Owner \in [Conn -> Player] /\ Posts \in [Request -> Nat]
  /\ NoConn \notin Conn /\ NoRequest \notin Request
  /\ Settings \subseteq [requests : SUBSET Request, overlap : BOOLEAN]
  /\ {MayFail, MayCrash} \subseteq BOOLEAN

VARIABLES
  setting,     \* one of Settings, for good
  session,     \* where a connection is in its life
  loop,        \* what the connection's event loop thread is doing for it
  worker,      \* the connection's notification worker thread
  queue,       \* notificationsToDeliver
  nextSeq,     \* curSequenceNumber
  connectionsByPlayerId,
  disk,        \* the NOTIFICATION_DATA column of each player
  wire,        \* history: the frames handed to each connection while it was connected
  served       \* history: the requests each connection brought in, in order

vars == <<setting, session, loop, worker, queue, nextSeq, connectionsByPlayerId, disk, wire, served>>

-----------------------------------------------------------------------------
\* <<r, 0>> is the response to request r and <<r, k>> its k-th post-send notification.
Message == Request \X Nat
NoMessage == <<NoRequest, 0>>
Frame == [seq : Nat, msg : Message]

SessionState == {"new", "loaded", "registered", "open", "closing", "gone"}
Connected(c) == session[c] \in {"loaded", "registered", "open"}
HasContext(c) == session[c] \in {"open", "closing", "gone"}

LoopState ==
  [pc : {"idle", "process", "send", "lookup", "push", "readDisk", "writeDisk"},
   req : Request \union {NoRequest}, seq : Nat, next : Nat,
   target : Conn \union {NoConn}, saved : Seq(Message)]
Handling(pc, r, k) == [pc |-> pc, req |-> r, seq |-> 0, next |-> k,
                       target |-> NoConn, saved |-> <<>>]
IdleLoop == Handling("idle", NoRequest, 0)

WorkerState ==
  [pc : {"none", "check", "asleep", "formulate", "send", "snapshot", "persist",
         "release", "exited"},
   msg : Message \union {NoMessage}, seq : Nat, saved : Seq(Message)]
Worker(pc, m) == [pc |-> pc, msg |-> m, seq |-> 0, saved |-> <<>>]
NoWorker == Worker("none", NoMessage)

\* Strong references to the connection, and through its context to the SpectreWebsocket:
\* drogon's own, the routing table's and that of a handler about to push.  The worker
\* holds one more from the pop to the end of its round.
RefByOthers(c) ==
  \/ session[c] # "gone"
  \/ \E p \in Player : connectionsByPlayerId[p] = c
  \/ \E d \in Conn : loop[d].pc = "push" /\ loop[d].target = c

SentOn(c) == {wire[c][i].msg : i \in DOMAIN wire[c]}

Deliver(c, s, m) == wire' = [wire EXCEPT ![c] = Append(@, [seq |-> s, msg |-> m])]

TypeOK ==
  /\ setting \in Settings
  /\ session \in [Conn -> SessionState]
  /\ loop \in [Conn -> LoopState]
  /\ worker \in [Conn -> WorkerState]
  /\ queue \in [Conn -> Seq(Message)]
  /\ nextSeq \in [Conn -> Nat]
  /\ connectionsByPlayerId \in [Player -> Conn \union {NoConn}]
  /\ disk \in [Player -> Seq(Message)]
  /\ wire \in [Conn -> Seq(Frame)]
  /\ served \in [Conn -> Seq(Request)]

Init ==
  /\ setting \in Settings
  /\ session = [c \in Conn |-> "new"]
  /\ loop = [c \in Conn |-> IdleLoop]
  /\ worker = [c \in Conn |-> NoWorker]
  /\ queue = [c \in Conn |-> <<>>]
  /\ nextSeq = [c \in Conn |-> 0]
  /\ connectionsByPlayerId = [p \in Player |-> NoConn]
  /\ disk = [p \in Player |-> <<>>]
  /\ wire = [c \in Conn |-> <<>>]
  /\ served = [c \in Conn |-> <<>>]

\* std::terminate, or a kill: memory is lost, the database is not.  The restarted process
\* knows no connection.
Die ==
  /\ session' = [c \in Conn |-> IF session[c] = "new" THEN "new" ELSE "gone"]
  /\ loop' = [c \in Conn |-> IdleLoop]
  /\ worker' = [c \in Conn |-> Worker(IF worker[c].pc = "none" THEN "none" ELSE "exited", NoMessage)]
  /\ queue' = [c \in Conn |-> <<>>]
  /\ connectionsByPlayerId' = [p \in Player |-> NoConn]
  /\ UNCHANGED <<nextSeq, disk, wire, served>>

-----------------------------------------------------------------------------
(* handleNewConnection: the constructor of SpectreWebsocket, then setContext *)

MayConnect(c) ==
  setting.overlap \/ \A d \in Conn \ {c} :
    Owner[d] = Owner[c] =>
      \/ session[d] = "new"
      \/ session[d] = "gone" /\ worker[d].pc \in {"none", "exited"}

\* mutant: the saved notifications are not taken over from the column
LoadNothing(c) == queue' = [queue EXCEPT ![c] = <<>>]
LoadFromDisk(c) == queue' = [queue EXCEPT ![c] = disk[Owner[c]]]

\* The column is read, not cleared, and the worker starts.
LoadSavedNotifications(c) ==
  /\ session[c] = "new"
  /\ MayConnect(c)
  /\ session' = [session EXCEPT ![c] = "loaded"]
  /\ LoadFromDisk(c)
  /\ worker' = [worker EXCEPT ![c] = Worker("check", NoMessage)]
  /\ UNCHANGED <<loop, nextSeq, connectionsByPlayerId, disk, wire, served>>

AddConnection(c) ==
  /\ session[c] = "loaded"
  /\ session' = [session EXCEPT ![c] = "registered"]
  /\ connectionsByPlayerId' = [connectionsByPlayerId EXCEPT ![Owner[c]] = c]
  /\ UNCHANGED <<loop, worker, queue, nextSeq, disk, wire, served>>

SetContext(c) ==
  /\ session[c] = "registered"
  /\ session' = [session EXCEPT ![c] = "open"]
  /\ UNCHANGED <<loop, worker, queue, nextSeq, connectionsByPlayerId, disk, wire, served>>

-----------------------------------------------------------------------------
(* handleNewMessage and ScheduleNotificationForPlayer, on the loop thread *)

Receive(c, r) ==
  /\ session[c] = "open"
  /\ loop[c].pc = "idle"
  /\ r \in setting.requests /\ \A d \in Conn : r \notin Range(served[d])
  /\ served' = [served EXCEPT ![c] = Append(@, r)]
  /\ loop' = [loop EXCEPT ![c] = Handling("process", r, 0)]
  /\ UNCHANGED <<session, worker, queue, nextSeq, connectionsByPlayerId, disk, wire>>

\* mutant: a refused request uses up a sequence number
RefuseNumbered(c) ==
  /\ loop[c].pc = "process"
  /\ loop' = [loop EXCEPT ![c] = IdleLoop]
  /\ nextSeq' = [nextSeq EXCEPT ![c] = @ + 1]
  /\ UNCHANGED <<session, worker, queue, connectionsByPlayerId, disk, wire, served>>

\* The processor throws, or returns nullopt: nothing is sent.
Refuse(c) ==
  /\ loop[c].pc = "process"
  /\ loop' = [loop EXCEPT ![c] = IdleLoop]
  /\ UNCHANGED <<session, worker, queue, nextSeq, connectionsByPlayerId, disk, wire, served>>

\* mutant: the counter runs down
FetchSubSequenceNumber(c) == nextSeq' = [nextSeq EXCEPT ![c] = @ - 1]
\* mutant: the number is read and left for the next frame
ReadSequenceNumber(c) == UNCHANGED nextSeq
\* curSequenceNumber.fetch_add(1); the caller has read nextSeq[c]
FetchAddSequenceNumber(c) == nextSeq' = [nextSeq EXCEPT ![c] = @ + 1]

\* mutant: the processor schedules its first notification itself, instead of returning it
FormulateAfterScheduling(c) ==
  /\ loop[c].pc = "process"
  /\ loop' = [loop EXCEPT ![c].pc = "send", ![c].seq = nextSeq[c]]
  /\ FetchAddSequenceNumber(c)
  /\ queue' = [queue EXCEPT ![c] = Append(@, <<loop[c].req, 1>>)]
  /\ UNCHANGED <<session, worker, connectionsByPlayerId, disk, wire, served>>

FormulateFinalResponse(c) ==
  /\ loop[c].pc = "process"
  /\ loop' = [loop EXCEPT ![c].pc = "send", ![c].seq = nextSeq[c]]
  /\ FetchAddSequenceNumber(c)
  /\ UNCHANGED <<session, worker, queue, connectionsByPlayerId, disk, wire, served>>

\* mutant: the notifications are scheduled backwards, the last one first
SchedulesBackwards(c) ==
  LET r == loop[c].req  n == Posts[r]  k == loop[c].next IN
  IF k = 0 /\ n > 0 THEN Handling("lookup", r, n)
  ELSE IF k > 1 THEN Handling("lookup", r, k - 1) ELSE IdleLoop
\* mutant: the loop stops one notification short
SkipsTheLast(c) ==
  IF loop[c].next + 1 < Posts[loop[c].req]
  THEN Handling("lookup", loop[c].req, loop[c].next + 1)
  ELSE IdleLoop
\* The next post-send notification to schedule, or the end of the handler.
NextPostSend(c) ==
  IF loop[c].next < Posts[loop[c].req]
  THEN Handling("lookup", loop[c].req, loop[c].next + 1)
  ELSE IdleLoop

SendResponse(c) ==
  /\ loop[c].pc = "send"
  /\ Deliver(c, loop[c].seq, <<loop[c].req, 0>>)
  /\ loop' = [loop EXCEPT ![c] = NextPostSend(c)]
  /\ UNCHANGED <<session, worker, queue, nextSeq, connectionsByPlayerId, disk, served>>

\* GetConnectionForPlayer: the table's lock is given up with the answer in hand.
GetConnectionForPlayer(c) ==
  /\ loop[c].pc = "lookup"
  /\ LET d == connectionsByPlayerId[Owner[c]] IN
     loop' = [loop EXCEPT ![c].pc = IF d = NoConn THEN "readDisk" ELSE "push", ![c].target = d]
  /\ UNCHANGED <<session, worker, queue, nextSeq, connectionsByPlayerId, disk, wire, served>>

\* mutant: the condition variable is not notified
NotifyNobody(d) == UNCHANGED worker
NotifyWorker(d) ==
  worker' = [worker EXCEPT ![d].pc = IF @ = "asleep" THEN "check" ELSE @]

ScheduleNotification(c) ==
  /\ loop[c].pc = "push"
  /\ LET d == loop[c].target IN
     /\ HasContext(d)
     /\ queue' = [queue EXCEPT ![d] = Append(@, <<loop[c].req, loop[c].next>>)]
     /\ NotifyWorker(d)
  /\ loop' = [loop EXCEPT ![c] = NextPostSend(c)]
  /\ UNCHANGED <<session, nextSeq, connectionsByPlayerId, disk, wire, served>>

\* The target registered itself before setContext: getContext() is null and is dereferenced.
ScheduleWithoutContext(c) ==
  /\ loop[c].pc = "push"
  /\ ~HasContext(loop[c].target)
  /\ Die

\* No connection: read the column, append, write it back, in two statements.
ReadSavedNotifications(c) ==
  /\ loop[c].pc = "readDisk"
  /\ loop' = [loop EXCEPT ![c].pc = "writeDisk",
                          ![c].saved = Append(disk[Owner[c]], <<loop[c].req, loop[c].next>>)]
  /\ UNCHANGED <<session, worker, queue, nextSeq, connectionsByPlayerId, disk, wire, served>>

WriteSavedNotifications(c) ==
  /\ loop[c].pc = "writeDisk"
  /\ disk' = [disk EXCEPT ![Owner[c]] = loop[c].saved]
  /\ loop' = [loop EXCEPT ![c] = NextPostSend(c)]
  /\ UNCHANGED <<session, worker, queue, nextSeq, connectionsByPlayerId, wire, served>>

\* Either statement throws: handleNewMessage catches, the remaining notifications are dropped.
AbandonPostSend(c) ==
  /\ MayFail
  /\ loop[c].pc \in {"readDisk", "writeDisk"}
  /\ loop' = [loop EXCEPT ![c] = IdleLoop]
  /\ UNCHANGED <<session, worker, queue, nextSeq, connectionsByPlayerId, disk, wire, served>>

-----------------------------------------------------------------------------
(* NotificationThread *)

\* mutant: the notification is copied from the front of the queue and not removed
PeekFront(c) == UNCHANGED queue
PopFront(c) == queue' = [queue EXCEPT ![c] = Tail(@)]

WorkerPop(c) ==
  /\ worker[c].pc = "check"
  /\ Connected(c)
  /\ queue[c] # <<>>
  /\ worker' = [worker EXCEPT ![c] = Worker("formulate", Head(queue[c]))]
  /\ PopFront(c)
  /\ UNCHANGED <<session, loop, nextSeq, connectionsByPlayerId, disk, wire, served>>

WorkerSleep(c) ==
  /\ worker[c].pc = "check"
  /\ RefByOthers(c)
  /\ ~Connected(c) \/ queue[c] = <<>>
  /\ worker' = [worker EXCEPT ![c].pc = "asleep"]
  /\ UNCHANGED <<session, loop, queue, nextSeq, connectionsByPlayerId, disk, wire, served>>

FormulateFinalNotification(c) ==
  /\ worker[c].pc = "formulate"
  /\ worker' = [worker EXCEPT ![c].pc = "send", ![c].seq = nextSeq[c]]
  /\ FetchAddSequenceNumber(c)
  /\ UNCHANGED <<session, loop, queue, connectionsByPlayerId, disk, wire, served>>

\* send() on a connection that has gone down drops the frame.
WorkerSend(c) ==
  /\ worker[c].pc = "send"
  /\ IF Connected(c) THEN Deliver(c, worker[c].seq, worker[c].msg) ELSE UNCHANGED wire
  /\ worker' = [worker EXCEPT ![c].pc = "snapshot"]
  /\ UNCHANGED <<session, loop, queue, nextSeq, connectionsByPlayerId, disk, served>>

\* mutant: the notification just sent is saved again with the rest of the queue
SnapshotWithCurrent(c) == <<worker[c].msg>> \o queue[c]
Snapshot(c) == queue[c]

WorkerSnapshot(c) ==
  /\ worker[c].pc = "snapshot"
  /\ worker' = [worker EXCEPT ![c].pc = "persist", ![c].saved = Snapshot(c)]
  /\ UNCHANGED <<session, loop, queue, nextSeq, connectionsByPlayerId, disk, wire, served>>

WorkerPersist(c) ==
  /\ worker[c].pc = "persist"
  /\ \/ disk' = [disk EXCEPT ![Owner[c]] = worker[c].saved]
     \/ MayFail /\ UNCHANGED disk       \* caught and logged
  /\ worker' = [worker EXCEPT ![c] = Worker("release", NoMessage)]
  /\ UNCHANGED <<session, loop, queue, nextSeq, connectionsByPlayerId, wire, served>>

\* The end of a round drops the worker's reference to the connection.
WorkerRelease(c) ==
  /\ worker[c].pc = "release"
  /\ RefByOthers(c)
  /\ worker' = [worker EXCEPT ![c].pc = "check"]
  /\ UNCHANGED <<session, loop, queue, nextSeq, connectionsByPlayerId, disk, wire, served>>

\* If it was the last one, ~SpectreWebsocket runs on the worker, whose jthread member joins
\* the thread it runs on: std::terminate.
WorkerReleaseLast(c) ==
  /\ worker[c].pc = "release"
  /\ ~RefByOthers(c)
  /\ Die

\* The last reference was dropped elsewhere: ~SpectreWebsocket requests the stop and joins.
WorkerStop(c) ==
  /\ worker[c].pc \in {"check", "asleep"}
  /\ ~RefByOthers(c)
  /\ worker' = [worker EXCEPT ![c].pc = "exited"]
  /\ queue' = [queue EXCEPT ![c] = <<>>]
  /\ UNCHANGED <<session, loop, nextSeq, connectionsByPlayerId, disk, wire, served>>

-----------------------------------------------------------------------------
(* The end of a connection *)

\* The client leaves or the network does: connected() is false from here on.
Disconnect(c) ==
  /\ session[c] = "open"
  /\ loop[c].pc = "idle"
  /\ session' = [session EXCEPT ![c] = "closing"]
  /\ UNCHANGED <<loop, worker, queue, nextSeq, connectionsByPlayerId, disk, wire, served>>

\* mutant: the player's entry goes whichever connection it names
EraseAnyRoute(c) ==
  connectionsByPlayerId' = [connectionsByPlayerId EXCEPT ![Owner[c]] = NoConn]
\* mutant: the entry stays
KeepRoute(c) == UNCHANGED connectionsByPlayerId
EraseOwnRoute(c) ==
  connectionsByPlayerId' = [connectionsByPlayerId EXCEPT ![Owner[c]] = IF @ = c THEN NoConn ELSE @]

\* handleConnectionClosed; the party cleanup it starts is PartyDatabase's.
HandleConnectionClosed(c) ==
  /\ session[c] = "closing"
  /\ session' = [session EXCEPT ![c] = "gone"]
  /\ EraseOwnRoute(c)
  /\ UNCHANGED <<loop, worker, queue, nextSeq, disk, wire, served>>

Crash ==
  /\ MayCrash /\ (\E c \in Conn : session[c] \notin {"new", "gone"}) /\ Die
  /\ UNCHANGED setting

-----------------------------------------------------------------------------
LoopStep(c) ==
  /\ \/ AddConnection(c) \/ SetContext(c)
     \/ Refuse(c) \/ FormulateFinalResponse(c) \/ SendResponse(c)
     \/ GetConnectionForPlayer(c) \/ ScheduleNotification(c) \/ ScheduleWithoutContext(c)
     \/ ReadSavedNotifications(c) \/ WriteSavedNotifications(c) \/ AbandonPostSend(c)
     \/ HandleConnectionClosed(c)
  /\ UNCHANGED setting

WorkerStep(c) ==
  /\ \/ WorkerPop(c) \/ WorkerSleep(c) \/ FormulateFinalNotification(c) \/ WorkerSend(c)
     \/ WorkerSnapshot(c) \/ WorkerPersist(c)
     \/ WorkerRelease(c) \/ WorkerReleaseLast(c) \/ WorkerStop(c)
  /\ UNCHANGED setting

ClientStep(c) ==
  /\ \/ LoadSavedNotifications(c)
     \/ \E r \in Request : Receive(c, r)
     \/ Disconnect(c)
  /\ UNCHANGED setting

Next == Crash \/ \E c \in Conn : LoopStep(c) \/ WorkerStep(c) \/ ClientStep(c)

Spec == Init /\ [][Next]_vars

\* Threads that can run are scheduled.  Nothing obliges a client to connect, to ask or to
\* leave, nor the process to crash.
FairSpec == Spec /\ \A c \in Conn : WF_vars(LoopStep(c)) /\ WF_vars(WorkerStep(c))

-----------------------------------------------------------------------------
(* Properties *)

SeqHeldByLoop(c) == IF loop[c].pc = "send" THEN {loop[c].seq} ELSE {}
SeqHeldByWorker(c) == IF worker[c].pc = "send" THEN {worker[c].seq} ELSE {}
SeqOnWire(c) == {wire[c][i].seq : i \in DOMAIN wire[c]}

\* No two frames of a connection carry the same sequenceNumber, although the loop thread
\* and the worker both number frames (fetch_add on curSequenceNumber).
SequenceNumbersUnique ==
  \A c \in Conn : \A i, j \in DOMAIN wire[c] : wire[c][i].seq = wire[c][j].seq => i = j

\* While a connection is up no number is skipped: each one handed out is on the wire or in
\* the hands of the thread about to send it.
SequenceNumbersDense ==
  \A c \in Conn : Connected(c) =>
    SeqOnWire(c) \union SeqHeldByLoop(c) \union SeqHeldByWorker(c) = 0 .. nextSeq[c] - 1

\* The routing table never keeps a connection whose close has been handled, nor one that
\* has not registered: a notification is not queued on a dead session for want of cleanup.
RoutesOnlyToLive ==
  \A p \in Player : connectionsByPlayerId[p] # NoConn =>
    session[connectionsByPlayerId[p]] \in {"registered", "open", "closing"}

\* A connection loses its route only by its own close or to a connection of the same player
\* that registered later (the it->second == conPtr test of handleConnectionClosed), short of
\* the death of the process, which loses them all.
RouteKept ==
  [][\A p \in Player :
       LET c == connectionsByPlayerId[p]
           d == connectionsByPlayerId'[p] IN
       c # NoConn /\ d # c =>
         \/ session[c] = "closing" /\ d = NoConn
         \/ d # NoConn /\ session[d] = "loaded" /\ Owner[d] = p
         \/ \A e \in Conn : session'[e] \in {"new", "gone"}]_vars

\* A client never sees a notification of a request before the response to the request.
ResponseBeforeItsNotifications ==
  \A c, d \in Conn : \A i \in DOMAIN wire[d] : LET m == wire[d][i].msg IN
    (m[2] > 0 /\ m[1] \in Range(served[c])) =>
      /\ <<m[1], 0>> \in SentOn(c)
      /\ c = d => \E j \in 1 .. i : wire[c][j].msg = <<m[1], 0>>

\* No connection is sent the same message twice, wherever the copies on disk come from.
AtMostOncePerConnection ==
  \A c \in Conn : \A i, j \in DOMAIN wire[c] : wire[c][i].msg = wire[c][j].msg => i = j

\* Of two notifications a connection's requests produced, the earlier one comes first on
\* any connection that gets both (matchmaking's "-added" and "-host").
NotificationsInOrder ==
  \A c, d \in Conn : \A i, j \in DOMAIN wire[d] : \A x, y \in DOMAIN served[c] :
    LET m == wire[d][i].msg  n == wire[d][j].msg IN
    (/\ m[1] = served[c][x] /\ n[1] = served[c][y] /\ m[2] > 0 /\ n[2] > 0
     /\ x < y \/ (x = y /\ m[2] < n[2])) => i < j

\* What a worker is about to save holds nothing its own connection has been sent: after the
\* save, a crash or a reconnect repeats none of this connection's notifications.
SavedIsUnsent ==
  \A c \in Conn : worker[c].pc = "persist" => Range(worker[c].saved) \intersect SentOn(c) = {}

\* With one session at a time, a saved notification leaves the disk only once it has been
\* sent to its player, or when the connection that took it over went down with it.
SavedUntilSent ==
  [][~setting.overlap => \A p \in Player : \A m \in Range(disk[p]) \ Range(disk'[p]) :
       \E c \in Conn :
         /\ Owner[c] = p
         /\ \/ m \in SentOn(c)
            \/ worker[c].pc = "persist" /\ ~Connected(c)]_vars

\* With one session at a time, answering a request is followed by all its notifications,
\* unless the connection goes down.
PostSendNotificationsFollow ==
  \A c \in Conn : \A r \in Request :
    (~setting.overlap /\ <<r, 0>> \in SentOn(c)) ~>
      ((\A k \in 1 .. Posts[r] : <<r, k>> \in SentOn(c)) \/ ~Connected(c))

\* What is queued on a connection is sent unless the connection goes down, whatever other
\* connections the player has.
QueuedIsSent ==
  \A c \in Conn : \A r \in Request : \A k \in 1 .. Posts[r] :
    (<<r, k>> \in Range(queue[c])) ~> (<<r, k>> \in SentOn(c) \/ ~Connected(c))

\* A closed connection's worker thread ends: nothing keeps a reference to it for good.
WorkerEndsAfterClose ==
  \A c \in Conn : (session[c] = "gone") ~> (worker[c].pc = "exited")

\* Refuted: "player is not logged in, save the notification to disk instead".  The branch
\* runs for a player whose connection is open, when a newer one took the route and left.
SavedMeansNotLoggedIn ==
  \A c \in Conn : loop[c].pc = "readDisk" =>
    \A d \in Conn : Owner[d] = Owner[c] => ~(session[d] = "open")
=============================================================================
