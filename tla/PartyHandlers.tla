---------------------------- MODULE PartyHandlers ----------------------------
(***************************************************************************)
(* The party request handlers and the clean-up of closed connections over  *)
(* PartyDatabase: CreateParty-, SetReady-, UpdateParty-, UpdatePartyPlayer- *)
(* and EnterMatchmakingProcessor, and the thread handleConnectionClosed    *)
(* detaches.                                                               *)
(*                                                                         *)
(* A handler runs on its connection's loop thread from the request to the  *)
(* response.  Those that change a party read it with one call and save it  *)
(* with another, and hold no lock in between.  A client names only parties *)
(* a response told its player of: there is no request that joins a party.  *)
(***************************************************************************)
EXTENDS PartyDatabase

CONSTANTS Conn,
          CreatedExt,      \* the extBroadcastParty of a new party
          Settings         \* whose the connections are, how many requests each brings in (bound),
                           \* what codes are drawn (bound), and what may happen to the server

ASSUME HandlersAssumption ==
  /\ CreatedExt \in Ext
  /\ Thread = Conn \X {"loop", "cleanup"}
  /\ Settings \subseteq [owner : [Conn -> Player], requests : [Conn -> Nat], codes : SUBSET Code,
                          restarts : BOOLEAN, failures : BOOLEAN]

VARIABLES
  setting,   \* one of Settings, for good
  conn,      \* where a connection is in its life
  handler,   \* the request its loop thread is handling
  asked,     \* how many requests it has brought in
  drawn,     \* history: the connections that drew each party id
  overlap,   \* history: has a player had two connections open at once?
  shown      \* history: what responses told each player of his parties

vars == <<rows, mutex, call, setting, conn, handler, asked, drawn, overlap, shown>>

\* The player whose bearer token a connection carries
Owner(c) == setting.owner[c]

Loop(c) == <<c, "loop">>
Cleanup(c) == <<c, "cleanup">>

Changes == {"SetReady", "UpdateParty", "UpdatePartyPlayer"}
Handler == [op : Changes \union {"none", "CreateParty", "EnterMatchmaking"},
            id : PartyId \union {NoId}]
NoHandler == [op |-> "none", id |-> NoId]

Known(p) == {s.id : s \in shown[p]}

HandlersTypeOK ==
  /\ TypeOK
  /\ setting \in Settings
  /\ conn \in [Conn -> {"new", "open", "gone"}]
  /\ handler \in [Conn -> Handler]
  /\ asked \in [Conn -> Nat]
  /\ overlap \in BOOLEAN
  /\ drawn \in [PartyId -> SUBSET Conn]
  /\ \A p \in Player :
       shown[p] \subseteq [id : PartyId, ext : Ext \union {DefaultExt}, version : Nat]

Init ==
  /\ DatabaseInit
  /\ setting \in Settings
  /\ conn = [c \in Conn |-> "new"]
  /\ handler = [c \in Conn |-> NoHandler]
  /\ asked = [c \in Conn |-> 0]
  /\ overlap = FALSE
  /\ drawn = [id \in PartyId |-> {}]
  /\ shown = [p \in Player |-> {}]

-----------------------------------------------------------------------------
Connect(c) ==
  /\ conn[c] = "new"
  /\ conn' = [conn EXCEPT ![c] = "open"]
  /\ overlap' = (overlap \/ \E d \in Conn : Owner(d) = Owner(c) /\ conn[d] = "open")
  /\ UNCHANGED <<partyVars, setting, handler, asked, drawn, shown>>

\* Idle, and allowed one more request
Receiving(c, op, id) ==
  /\ conn[c] = "open"
  /\ handler[c] = NoHandler
  /\ asked[c] < setting.requests[c]
  /\ asked' = [asked EXCEPT ![c] = @ + 1]
  /\ handler' = [handler EXCEPT ![c] = [op |-> op, id |-> id]]

-----------------------------------------------------------------------------
(* CreateParty *)

Drawing(c) == handler[c].op = "CreateParty" /\ call[Loop(c)].op = "none"

\* GetRandomUUIDAsString.  All loops share one processor and its generator, unsynchronised:
\* two that draw at the same time can draw the same numbers.
NewPartyId(id) ==
  \/ drawn[id] = {}
  \/ \E d \in Conn : Drawing(d) /\ handler[d].id = id

CreateParty(c) ==
  /\ \E id \in PartyId :
       /\ NewPartyId(id)
       /\ drawn' = [drawn EXCEPT ![id] = @ \union {c}]
       /\ Receiving(c, "CreateParty", id)
  /\ UNCHANGED <<partyVars, setting, conn, overlap, shown>>

\* The player's stored outfits lack a selected one: the processor throws before it saves.
CreationRefused(c) ==
  /\ Drawing(c)
  /\ handler' = [handler EXCEPT ![c] = NoHandler]
  /\ UNCHANGED <<partyVars, setting, conn, asked, drawn, overlap, shown>>

\* GetNewInviteCode: one statement, outside the mutex.
FreeCode(code) ==
  \A id \in PartyId : rows[id] # NoRow /\ rows[id].meta # Null => rows[id].meta.code # code

NewParty(c, code) ==
  [members |-> <<[player |-> Owner(c), leader |-> TRUE, ready |-> FALSE, team |-> "TEAM0"]>>,
   ext |-> CreatedExt, code |-> code, version |-> 1]

SaveNewParty(c) ==
  /\ Drawing(c)
  /\ \E code \in setting.codes :
       FreeCode(code) /\ CallSaveParty(Loop(c), handler[c].id, NewParty(c, code))
  /\ UNCHANGED <<setting, conn, handler, asked, drawn, overlap, shown>>

-----------------------------------------------------------------------------
(* The handlers that begin with GetPartyRes *)

AskForParty(c) ==
  /\ \E op \in Changes \union {"EnterMatchmaking"} : \E id \in Known(Owner(c)) :
       Receiving(c, op, id) /\ CallGetPartyRes(Loop(c), id)
  /\ UNCHANGED <<setting, conn, drawn, overlap, shown>>

PartyIsRead(c) == call[Loop(c)].op = "get" /\ call[Loop(c)].pc = "done"
Positions(c) == {i \in DOMAIN call[Loop(c)].party.members :
                   call[Loop(c)].party.members[i].player = Owner(c)}

SaveChanged(c, party) ==
  /\ Becomes(Loop(c), Saving(handler[c].id, party))
  /\ UNCHANGED <<rows, mutex, setting, conn, handler, asked, drawn, overlap, shown>>

\* The first member that is the player; a party without him is saved as it was read.
SetReady(c) ==
  /\ handler[c].op = "SetReady"
  /\ PartyIsRead(c)
  /\ LET party == call[Loop(c)].party IN
     \/ Positions(c) = {} /\ SaveChanged(c, party)
     \/ \E ready \in BOOLEAN : \E i \in Positions(c) :
          /\ \A j \in Positions(c) : i <= j
          /\ SaveChanged(c, [party EXCEPT !.members[i] = [@ EXCEPT !.ready = ready]])

\* mutant: the version stays
SameVersion(version) == version
BumpPartyVersion(version) == version + 1

UpdateParty(c) ==
  /\ handler[c].op = "UpdateParty"
  /\ PartyIsRead(c)
  /\ \E ext \in Ext :
       SaveChanged(c, [call[Loop(c)].party EXCEPT !.ext = ext, !.version = BumpPartyVersion(@)])

\* The last member that is the player
UpdatePartyPlayer(c) ==
  /\ handler[c].op = "UpdatePartyPlayer"
  /\ PartyIsRead(c)
  /\ \E team \in {"TEAM0", "TEAM1"} : \E i \in Positions(c) :
       /\ \A j \in Positions(c) : j <= i
       /\ SaveChanged(c, [call[Loop(c)].party EXCEPT !.members[i] = [@ EXCEPT !.team = team]])

-----------------------------------------------------------------------------
(* The end of a handler *)

HandlerReturns(c) ==
  /\ Return(Loop(c))
  /\ handler' = [handler EXCEPT ![c] = NoHandler]
  /\ UNCHANGED <<setting, conn, asked, drawn, overlap>>

\* The response holds the party as saved, or as read by EnterMatchmaking.
Respond(c) ==
  LET party == call[Loop(c)].party IN
  /\ call[Loop(c)].pc = "done"
  /\ call[Loop(c)].op = "save" \/ handler[c].op = "EnterMatchmaking"
  /\ shown' = [shown EXCEPT ![Owner(c)] =
       @ \union {[id |-> handler[c].id, ext |-> party.ext, version |-> party.version]}]
  /\ HandlerReturns(c)

\* UpdatePartyPlayer of a player who is not in the party returns nullopt.
NoSuchMember(c) ==
  /\ handler[c].op = "UpdatePartyPlayer"
  /\ PartyIsRead(c)
  /\ Positions(c) = {}
  /\ HandlerReturns(c)
  /\ UNCHANGED shown

\* GetPartyRes or a statement threw; handleNewMessage catches it and answers nothing.
HandlerThrows(c) ==
  /\ call[Loop(c)].pc = "failed"
  /\ HandlerReturns(c)
  /\ UNCHANGED shown

-----------------------------------------------------------------------------
(* The end of a connection *)

\* mutant: the close is handled beside the connection's handler, not after it
AnyTime(c) == TRUE
LoopIdle(c) == handler[c] = NoHandler

\* mutant: no clean-up is started
NoCleanup(c) == UNCHANGED partyVars
StartCleanup(c) == CallRemovePlayer(Cleanup(c), Owner(c))

HandleConnectionClosed(c) ==
  /\ conn[c] = "open"
  /\ LoopIdle(c)
  /\ conn' = [conn EXCEPT ![c] = "gone"]
  /\ StartCleanup(c)
  /\ UNCHANGED <<setting, handler, asked, drawn, overlap, shown>>

CleanupEnds(c) ==
  /\ Return(Cleanup(c))
  /\ UNCHANGED <<setting, conn, handler, asked, drawn, overlap, shown>>

ClearAllParties == rows' = [id \in PartyId |-> NoRow]

\* The process ends, at any point, and starts again: nobody is connected, and
\* InitializeHandlers clears the table before it listens.
Restart ==
  /\ setting.restarts
  /\ \E c \in Conn : conn[c] = "open" \/ call[Cleanup(c)] # NoCall
  /\ ClearAllParties
  /\ mutex' = Free
  /\ call' = [t \in Thread |-> NoCall]
  /\ conn' = [c \in Conn |-> IF conn[c] = "new" THEN "new" ELSE "gone"]
  /\ handler' = [c \in Conn |-> NoHandler]
  /\ UNCHANGED <<setting, asked, drawn, overlap, shown>>

-----------------------------------------------------------------------------
InCall(t) ==
  /\ CallProceeds(t) \/ (setting.failures /\ StatementFails(t))
  /\ UNCHANGED <<setting, conn, handler, asked, drawn, overlap, shown>>

HandlerStep(c) ==
  \/ InCall(Loop(c))
  \/ CreationRefused(c) \/ SaveNewParty(c)
  \/ SetReady(c) \/ UpdateParty(c) \/ UpdatePartyPlayer(c)
  \/ Respond(c) \/ NoSuchMember(c) \/ HandlerThrows(c)

CleanupStep(c) == InCall(Cleanup(c)) \/ CleanupEnds(c)

ClientStep(c) ==
  Connect(c) \/ CreateParty(c) \/ AskForParty(c) \/ HandleConnectionClosed(c)

Next == Restart \/ \E c \in Conn : HandlerStep(c) \/ CleanupStep(c) \/ ClientStep(c)

Spec == Init /\ [][Next]_vars

\* Threads that can run are scheduled; clients need do nothing.  With finitely many requests
\* weak fairness is enough for the mutex: nobody can be passed over for ever.
FairSpec == Spec /\ \A c \in Conn : WF_vars(HandlerStep(c)) /\ WF_vars(CleanupStep(c))

-----------------------------------------------------------------------------
(* Properties *)

\* Two racing creations drew one id, and their players know each other's party.
Collided == \E id \in PartyId : \E c, d \in drawn[id] : c # d

InParty(p, id) ==
  rows[id] # NoRow /\ \E i \in DOMAIN rows[id].members : rows[id].members[i].player = p

\* While no statement fails, a player all of whose connections are closed and cleaned up after
\* is in no party, with sessions that overlap and clean-ups that are late, short of a collision
\* of ids: no handler's save, which wrote back what it read earlier, has put him there again.
NoGhostMembers ==
  ~setting.failures /\ ~Collided => \A p \in Player :
    (\A c \in Conn : Owner(c) = p => conn[c] # "open" /\ call[Cleanup(c)] = NoCall)
      => \A id \in PartyId : ~InParty(p, id)

\* While no statement fails and every player has one session at a time, the version of a party
\* names its broadcast contents: no two responses show one version of a party with different
\* contents.  (A save that breaks off between the contents and the version leaves new contents
\* under the old version.)
VersionNamesContents ==
  ~setting.failures /\ ~Collided /\ ~overlap => \A p, q \in Player : \A s \in shown[p], u \in shown[q] :
    s.id = u.id /\ s.version = u.version => s.ext = u.ext

\* Every handler ends, whatever it waits for.
HandlersEnd == \A c \in Conn : (handler[c] # NoHandler) ~> (handler[c] = NoHandler)

\* While no statement fails, a player who leaves for good is eventually in no party.
LeaversLeaveTheirParties ==
  \A p \in Player : \A id \in PartyId :
    InParty(p, id) ~>
      (setting.failures \/ Collided \/ ~InParty(p, id) \/ \E c \in Conn : Owner(c) = p /\ conn[c] = "open")
=============================================================================
