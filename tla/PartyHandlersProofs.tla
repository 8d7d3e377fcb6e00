------------------------ MODULE PartyHandlersProofs ------------------------
(***************************************************************************)
(* The party handlers, for any numbers of players, connections and         *)
(* requests: types; parties keep a leader; nobody is left in a party by    *)
(* handlers that save after he has gone; versions name contents.           *)
(***************************************************************************)
EXTENDS PartyHandlers, PartyDatabaseProofs

\* The thread of a loop is no clean-up's, and no other loop's.
LEMMA Threads ==
  /\ \A c \in Conn : Loop(c) \in Thread /\ Cleanup(c) \in Thread
  /\ \A c, d \in Conn : Loop(c) # Cleanup(d)
  /\ \A c, d \in Conn : Loop(c) = Loop(d) => c = d
  /\ \A c, d \in Conn : Cleanup(c) = Cleanup(d) => c = d
  /\ \A t \in Thread : \E c \in Conn : t \in {Loop(c), Cleanup(c)}
BY HandlersAssumption DEF Loop, Cleanup

LEMMA SettingTypes ==
  ASSUME setting \in Settings
  PROVE  /\ \A c \in Conn : Owner(c) \in Player /\ setting.requests[c] \in Nat
         /\ setting.codes \in SUBSET Code
         /\ setting.failures \in BOOLEAN
<1>1. setting \in [owner : [Conn -> Player], requests : [Conn -> Nat], codes : SUBSET Code,
                   restarts : BOOLEAN, failures : BOOLEAN]
  BY HandlersAssumption
<1> QED BY <1>1 DEF Owner

-----------------------------------------------------------------------------
(* Types, and how a handler and its thread's call go together *)

HistoryTypes ==
  /\ setting \in Settings
  /\ conn \in [Conn -> {"new", "open", "gone"}]
  /\ handler \in [Conn -> Handler]
  /\ asked \in [Conn -> Nat]
  /\ overlap \in BOOLEAN
  /\ drawn \in [PartyId -> SUBSET Conn]
  /\ DOMAIN shown = Player
  /\ \A p \in Player :
       shown[p] \subseteq [id : PartyId, ext : Ext \union {DefaultExt}, version : Nat]

\* What the call of a loop thread can be while it handles h
LoopShape(h, k) ==
  /\ h.op = "none" => h = NoHandler /\ k = NoCall
  /\ h.op # "none" => h.id \in PartyId
  /\ k.op \in {"none", "get", "save"}
  /\ k.op = "none" => k = NoCall /\ h.op \in {"none", "CreateParty"}
  /\ k.op # "none" => k.pc # "idle" /\ k.id = h.id
  /\ k.op = "get" => h.op \in Changes \union {"EnterMatchmaking"}
  /\ k.op = "save" => h.op \in Changes \union {"CreateParty"}
  /\ k.op = "get" => k.pc \in {"lock", "unlock", "done", "failed"} \union Reads
  /\ k.op = "save" => k.pc \in Saves \union {"done", "failed"}
  /\ k.pc = "done" => k.party \in Party

CleanupShape(c, k) ==
  /\ k = NoCall \/ (k.op = "remove" /\ k.pc # "idle" /\ k.who = Owner(c))
  /\ conn[c] # "gone" => k = NoCall

ShapeInv ==
  /\ IInv
  /\ HistoryTypes
  /\ \A c \in Conn :
       /\ LoopShape(handler[c], call[Loop(c)])
       /\ handler[c].op # "none" => conn[c] = "open"
       /\ CleanupShape(c, call[Cleanup(c)])

LEMMA ShapeImpliesTypes == ShapeInv => HandlersTypeOK
BY DEF ShapeInv, IInv, HistoryTypes, HandlersTypeOK

\* What a step of the thread t does to the others' calls: nothing.
Only(t) == \A u \in Thread \ {t} : call'[u] = call[u]

LEMMA BecomesOnly ==
  ASSUME IInv, NEW t \in Thread, NEW d, Becomes(t, d)
  PROVE  call'[t] = d /\ Only(t)
BY BecomesOne DEF Only

LEMMA NoCallFacts ==
  NoCall.op = "none" /\ NoCall.pc = "idle" /\ NoHandler.op = "none" /\ NoHandler \in Handler
BY DEF NoCall, NoHandler, Handler

\* A step inside a call keeps the shapes.
LEMMA InCallKeepsShape ==
  ASSUME ShapeInv, NEW t \in Thread, CallStep(t),
         UNCHANGED <<setting, conn, handler, asked, drawn, overlap, shown>>
  PROVE  ShapeInv'
<1>1. IInv' /\ IInv
  BY CallStepPreserves DEF ShapeInv
<1>2. Only(t) /\ Moves(call[t], call'[t])
  BY CallStepEffect DEF ShapeInv, Only
<1>3. HistoryTypes'
  BY DEF ShapeInv, HistoryTypes
<1>4. call[t] # NoCall
  BY NoCallFacts DEF CallStep, CallProceeds, EnterAndLock, NextParty, UnlockAndReturn,
     ReadMembers, ReadExtras, ReadMeta, StripMember, Stripped, DeleteParty,
     SaveMembers, SaveExtras, SaveMeta, StatementFails
<1>5. ASSUME NEW c \in Conn
      PROVE  LoopShape(handler'[c], call'[Loop(c)])
  <2>1. CASE t = Loop(c)
    BY <1>2, <1>4, <2>1 DEF ShapeInv, LoopShape, Moves, Saves
  <2>2. CASE t # Loop(c)
    BY <1>2, <2>2, Threads DEF ShapeInv, Only
  <2> QED BY <2>1, <2>2
<1>6. ASSUME NEW c \in Conn
      PROVE  CleanupShape(c, call[Cleanup(c)])'
  <2>1. CASE t = Cleanup(c)
    BY <1>2, <1>4, <2>1 DEF ShapeInv, CleanupShape, Moves, Owner
  <2>2. CASE t # Cleanup(c)
    BY <1>2, <2>2, Threads DEF ShapeInv, Only, CleanupShape, Owner
  <2> QED BY <2>1, <2>2
<1> QED BY <1>1, <1>3, <1>5, <1>6 DEF ShapeInv, CleanupShape, Owner

\* A loop thread turns to another handler, or another call of its handler.
LEMMA TurnKeepsShape ==
  ASSUME ShapeInv, NEW c \in Conn, NEW h \in Handler, NEW k, IInv',
         conn[c] = "open",
         call' = [call EXCEPT ![Loop(c)] = k], handler' = [handler EXCEPT ![c] = h],
         LoopShape(h, k), HistoryTypes', UNCHANGED <<setting, conn>>
  PROVE  ShapeInv'
<1>1. call'[Loop(c)] = k /\ Only(Loop(c))
  BY Threads, BecomesOnly DEF Becomes, ShapeInv
<1>2. handler'[c] = h /\ \A d \in Conn : d # c => handler'[d] = handler[d]
  BY DEF ShapeInv, HistoryTypes
<1>3. ASSUME NEW d \in Conn
      PROVE  /\ LoopShape(handler'[d], call'[Loop(d)])
             /\ handler'[d].op # "none" => conn'[d] = "open"
  BY <1>1, <1>2, Threads DEF Only, ShapeInv
<1>4. ASSUME NEW d \in Conn
      PROVE  CleanupShape(d, call[Cleanup(d)])' /\ call'[Cleanup(d)] = call[Cleanup(d)]
  BY <1>1, Threads DEF Only, ShapeInv, CleanupShape, Owner
<1> QED BY <1>3, <1>4 DEF ShapeInv

\* The handler's own thread is at the end of its call.
LEMMA EndKeepsShape ==
  ASSUME ShapeInv, NEW c \in Conn, Return(Loop(c)), HistoryTypes',
         handler' = [handler EXCEPT ![c] = NoHandler], UNCHANGED <<setting, conn>>
  PROVE  ShapeInv'
<1>1. IInv'
  BY CallsPreserve, Threads DEF ShapeInv
<1>2. call' = [call EXCEPT ![Loop(c)] = NoCall] /\ call[Loop(c)].pc \in {"done", "failed"}
  BY DEF Return, Becomes
<1>3. handler[c].op # "none"
  BY <1>2, NoCallFacts DEF ShapeInv, LoopShape
<1>4. LoopShape(NoHandler, NoCall)
  BY NoCallFacts DEF LoopShape
<1>5. conn[c] = "open"
  BY <1>3 DEF ShapeInv
<1> QED BY <1>1, <1>2, <1>4, <1>5, NoCallFacts, TurnKeepsShape

-----------------------------------------------------------------------------
(* What the handlers save *)

LEMMA NewPartyFacts ==
  ASSUME setting \in Settings, NEW c \in Conn, NEW code \in setting.codes
  PROVE  /\ NewParty(c, code) \in Party
         /\ \A who : In(who, NewParty(c, code).members) => who = Owner(c)
         /\ LedMembers(NewParty(c, code).members)
<1> DEFINE member == [player |-> Owner(c), leader |-> TRUE, ready |-> FALSE, team |-> "TEAM0"]
           members == <<member>>
<1>1. member \in Member /\ code \in Code /\ CreatedExt \in Ext
  BY SettingTypes, HandlersAssumption DEF Member
<1>2. members \in Seq(Member) /\ DOMAIN members = {1} /\ members[1] = member
  BY <1>1
<1>3. NewParty(c, code).members = members /\ NewParty(c, code) \in Party
  BY <1>1, <1>2 DEF NewParty, Party
<1> QED BY <1>2, <1>3 DEF In, LedMembers, HasLeader

\* A change of one member's readiness or team, or of the whole party's broadcast contents
Changed(read, party) ==
  /\ \A who : In(who, party.members) => In(who, read.members)
  /\ LedMembers(read.members) => LedMembers(party.members)
  /\ \/ party.version = read.version /\ party.ext = read.ext
     \/ party.version > read.version

LEMMA ChangedMember ==
  ASSUME NEW read \in Party, NEW i \in DOMAIN read.members, NEW m \in Member,
         m.player = read.members[i].player, m.leader = read.members[i].leader
  PROVE  LET party == [read EXCEPT !.members = [read.members EXCEPT ![i] = m]]
         IN  party \in Party /\ Changed(read, party)
<1> DEFINE members == [read.members EXCEPT ![i] = m]
           party == [read EXCEPT !.members = members]
<1>1. read.members \in Seq(Member)
  BY DEF Party
<1>2. members \in Seq(Member) /\ DOMAIN members = DOMAIN read.members
  BY <1>1, ExceptSeq
<1>3. party \in Party /\ party.members = members /\ party.ext = read.ext /\ party.version = read.version
  BY <1>2 DEF Party
<1>4. \A j \in DOMAIN members : /\ members[j].player = read.members[j].player
                                /\ members[j].leader = read.members[j].leader
  BY <1>1, <1>2
<1>5. members # <<>>
  BY <1>2
<1> QED BY <1>2, <1>3, <1>4, <1>5 DEF Changed, In, LedMembers, HasLeader

\* What a changing handler saves is the party it has read, changed.
LEMMA Changing ==
  ASSUME ShapeInv, NEW c \in Conn, SetReady(c) \/ UpdateParty(c) \/ UpdatePartyPlayer(c)
  PROVE  /\ PartyIsRead(c) /\ handler[c].op \in Changes
         /\ \E party \in Party : SaveChanged(c, party) /\ Changed(call[Loop(c)].party, party)
<1> DEFINE read == call[Loop(c)].party
<1>1. PartyIsRead(c) /\ handler[c].op \in Changes
  BY DEF SetReady, UpdateParty, UpdatePartyPlayer, Changes
<1>2. read \in Party
  BY <1>1 DEF ShapeInv, LoopShape, PartyIsRead
<1>3. read.members \in Seq(Member) /\ read.version \in Nat
  BY <1>2 DEF Party
<1>4. Changed(read, read)
  BY DEF Changed
<1>5. ASSUME NEW i \in Positions(c)
      PROVE  i \in DOMAIN read.members /\ read.members[i] \in Member
  BY <1>3 DEF Positions
<1>6. CASE SetReady(c)
  <2>1. CASE SaveChanged(c, read)
    BY <1>1, <1>2, <1>4, <2>1
  <2>2. ASSUME NEW ready \in BOOLEAN, NEW i \in Positions(c),
               SaveChanged(c, [read EXCEPT !.members[i] = [@ EXCEPT !.ready = ready]])
        PROVE  \E party \in Party : SaveChanged(c, party) /\ Changed(read, party)
    <3> DEFINE m == [read.members[i] EXCEPT !.ready = ready]
               party == [read EXCEPT !.members = [read.members EXCEPT ![i] = m]]
    <3>1. m \in Member /\ m.player = read.members[i].player /\ m.leader = read.members[i].leader
      BY <1>5 DEF Member
    <3>2. party \in Party /\ Changed(read, party)
      BY <1>2, <1>5, <3>1, ChangedMember
    <3>3. SaveChanged(c, party)
      BY <2>2
    <3> QED BY <3>2, <3>3
  <2> QED BY <1>1, <1>6, <2>1, <2>2 DEF SetReady
<1>7. CASE UpdatePartyPlayer(c)
  <2>1. ASSUME NEW team \in {"TEAM0", "TEAM1"}, NEW i \in Positions(c),
               SaveChanged(c, [read EXCEPT !.members[i] = [@ EXCEPT !.team = team]])
        PROVE  \E party \in Party : SaveChanged(c, party) /\ Changed(read, party)
    <3> DEFINE m == [read.members[i] EXCEPT !.team = team]
               party == [read EXCEPT !.members = [read.members EXCEPT ![i] = m]]
    <3>1. m \in Member /\ m.player = read.members[i].player /\ m.leader = read.members[i].leader
      BY <1>5 DEF Member
    <3>2. party \in Party /\ Changed(read, party)
      BY <1>2, <1>5, <3>1, ChangedMember
    <3>3. SaveChanged(c, party)
      BY <2>1
    <3> QED BY <3>2, <3>3
  <2> QED BY <1>1, <1>7, <2>1 DEF UpdatePartyPlayer
<1>8. CASE UpdateParty(c)
  <2>1. PICK ext \in Ext :
          SaveChanged(c, [read EXCEPT !.ext = ext, !.version = BumpPartyVersion(@)])
    BY <1>8 DEF UpdateParty
  <2> DEFINE party == [read EXCEPT !.ext = ext, !.version = read.version + 1]
  <2>2. party \in Party /\ party.members = read.members /\ party.version > read.version
    <3> HIDE DEF read
    <3>1. ext \in Ext \union {DefaultExt} /\ read.version + 1 \in Nat
      BY <1>3
    <3>2. party.members = read.members /\ party.version = read.version + 1
      BY <1>2 DEF Party
    <3>3. party \in Party
      BY <1>2, <3>1 DEF Party
    <3>4. read.version + 1 > read.version
      BY <1>3
    <3> QED BY <3>2, <3>3, <3>4
  <2>3. Changed(read, party)
    BY <2>2 DEF Changed
  <2>4. SaveChanged(c, party)
    BY <2>1 DEF BumpPartyVersion
  <2> HIDE DEF party
  <2> QED BY <1>1, <2>2, <2>3, <2>4
<1> QED BY <1>6, <1>7, <1>8

-----------------------------------------------------------------------------
(* Types: one action at a time *)

LEMMA SavingFacts ==
  ASSUME NEW id \in PartyId, NEW party \in Party
  PROVE  LET d == Saving(id, party)
         IN  /\ d \in Call /\ d.op = "save" /\ d.pc = "saveMembers" /\ d.id = id /\ d.party = party
             /\ CallShape(d) /\ ~Held(d)
<1> DEFINE d == Saving(id, party)
<1>1. d \in Call /\ d.op = "save" /\ d.pc = "saveMembers" /\ d.id = id /\ d.party = party
  BY DEF Saving, NoCall, Call
<1> HIDE DEF d
<1> QED BY <1>1 DEF d, CallShape, Held, HeldOnce, HeldTwice, Reads, Saves

LEMMA ConnectKeepsShape ==
  ASSUME ShapeInv, NEW c \in Conn, Connect(c) PROVE ShapeInv'
<1>1. IInv' /\ HistoryTypes'
  BY DEF Connect, ShapeInv, HistoryTypes, partyVars, IInv, TypeOK, LockInv, RowsInv, MembersColumnSet
<1>2. ASSUME NEW d \in Conn
      PROVE  /\ call'[Cleanup(d)] = call[Cleanup(d)] /\ call'[Loop(d)] = call[Loop(d)]
             /\ handler'[d] = handler[d]
             /\ conn'[d] = IF d = c THEN "open" ELSE conn[d]
             /\ d = c => conn[d] = "new"
  BY DEF Connect, partyVars, ShapeInv, HistoryTypes
<1> QED BY <1>1, <1>2 DEF ShapeInv, CleanupShape, Owner, Connect

LEMMA CreatePartyKeepsShape ==
  ASSUME ShapeInv, NEW c \in Conn, CreateParty(c) PROVE ShapeInv'
<1>1. PICK id \in PartyId : /\ drawn' = [drawn EXCEPT ![id] = @ \union {c}]
                            /\ Receiving(c, "CreateParty", id)
  BY DEF CreateParty
<1> DEFINE h == [op |-> "CreateParty", id |-> id]
<1>2. h \in Handler /\ LoopShape(h, NoCall)
  BY NoCallFacts DEF Handler, LoopShape
<1>3. IInv' /\ HistoryTypes'
  BY <1>1, <1>2 DEF CreateParty, Receiving, ShapeInv, HistoryTypes, partyVars, IInv, TypeOK, LockInv,
     RowsInv, MembersColumnSet
<1>4. call[Loop(c)] = NoCall
  BY <1>1, NoCallFacts DEF Receiving, ShapeInv, LoopShape
<1>5. call' = [call EXCEPT ![Loop(c)] = NoCall]
  BY <1>4, Threads DEF CreateParty, partyVars, ShapeInv, IInv, TypeOK
<1> QED BY <1>1, <1>2, <1>3, <1>5, TurnKeepsShape DEF CreateParty, Receiving

LEMMA CreationRefusedKeepsShape ==
  ASSUME ShapeInv, NEW c \in Conn, CreationRefused(c) PROVE ShapeInv'
<1>1. LoopShape(NoHandler, NoCall) /\ NoHandler \in Handler
  BY NoCallFacts DEF LoopShape
<1>2. IInv' /\ HistoryTypes'
  BY <1>1 DEF CreationRefused, ShapeInv, HistoryTypes, partyVars, IInv, TypeOK, LockInv,
     RowsInv, MembersColumnSet
<1>3. call[Loop(c)] = NoCall /\ conn[c] = "open"
  BY DEF CreationRefused, Drawing, ShapeInv, LoopShape
<1>4. call' = [call EXCEPT ![Loop(c)] = NoCall]
  BY <1>3, Threads DEF CreationRefused, partyVars, ShapeInv, IInv, TypeOK
<1> QED BY <1>1, <1>2, <1>3, <1>4, TurnKeepsShape DEF CreationRefused

LEMMA SaveNewPartyKeepsShape ==
  ASSUME ShapeInv, NEW c \in Conn, SaveNewParty(c) PROVE ShapeInv'
<1>1. PICK code \in setting.codes :
        CallSaveParty(Loop(c), handler[c].id, NewParty(c, code))
  BY DEF SaveNewParty
<1> DEFINE party == NewParty(c, code)
           d == Saving(handler[c].id, party)
<1>2. party \in Party
  BY NewPartyFacts DEF ShapeInv, HistoryTypes
<1>3. handler[c].id \in PartyId /\ conn[c] = "open" /\ handler[c].op = "CreateParty"
      /\ handler[c] \in Handler
  BY DEF SaveNewParty, Drawing, ShapeInv, LoopShape, HistoryTypes
<1>4. IInv'
  BY <1>1, <1>2, <1>3, Threads, CallsPreserve DEF ShapeInv
<1>5. HistoryTypes'
  BY DEF SaveNewParty, ShapeInv, HistoryTypes
<1>6. d.op = "save" /\ d.pc = "saveMembers" /\ d.id = handler[c].id
  BY <1>2, <1>3, SavingFacts
<1>7. call' = [call EXCEPT ![Loop(c)] = d]
  BY <1>1 DEF CallSaveParty, Becomes
<1> HIDE DEF d
<1>8. LoopShape(handler[c], d)
  BY <1>3, <1>6 DEF LoopShape, Saves
<1>9. handler' = [handler EXCEPT ![c] = handler[c]]
  BY DEF SaveNewParty, ShapeInv, HistoryTypes
<1> QED BY <1>3, <1>4, <1>5, <1>7, <1>8, <1>9, TurnKeepsShape DEF SaveNewParty

LEMMA AskForPartyKeepsShape ==
  ASSUME ShapeInv, NEW c \in Conn, AskForParty(c) PROVE ShapeInv'
<1>1. PICK op \in Changes \union {"EnterMatchmaking"}, id \in Known(Owner(c)) :
        Receiving(c, op, id) /\ CallGetPartyRes(Loop(c), id)
  BY DEF AskForParty
<1> DEFINE d == [NoCall EXCEPT !.op = "get", !.pc = "lock", !.id = id]
           h == [op |-> op, id |-> id]
<1>2. id \in PartyId
  BY SettingTypes DEF Known, ShapeInv, HistoryTypes
<1>3. h \in Handler
  BY <1>2 DEF Handler
<1>4. IInv'
  BY <1>1, <1>2, Threads, CallsPreserve DEF ShapeInv
<1>5. HistoryTypes'
  BY <1>1, <1>3 DEF AskForParty, Receiving, ShapeInv, HistoryTypes
<1>6. d.op = "get" /\ d.pc = "lock" /\ d.id = id
  BY DEF NoCall
<1>7. call' = [call EXCEPT ![Loop(c)] = d] /\ handler' = [handler EXCEPT ![c] = h] /\ conn[c] = "open"
  BY <1>1 DEF CallGetPartyRes, Becomes, Receiving
<1> HIDE DEF d
<1>8. LoopShape(h, d)
  BY <1>2, <1>6 DEF LoopShape, Changes
<1> HIDE DEF h
<1> QED BY <1>3, <1>4, <1>5, <1>7, <1>8, TurnKeepsShape DEF AskForParty

LEMMA SaveChangedKeepsShape ==
  ASSUME ShapeInv, NEW c \in Conn, NEW party \in Party,
         PartyIsRead(c), handler[c].op \in Changes, SaveChanged(c, party)
  PROVE  ShapeInv'
<1> DEFINE d == Saving(handler[c].id, party)
<1>1. handler[c].id \in PartyId /\ conn[c] = "open" /\ handler[c] \in Handler
  BY DEF ShapeInv, LoopShape, HistoryTypes, Changes
<1>2. d \in Call /\ d.op = "save" /\ d.pc = "saveMembers" /\ d.id = handler[c].id
      /\ CallShape(d) /\ ~Held(d)
  BY <1>1, SavingFacts
<1>3. Becomes(Loop(c), d) /\ UNCHANGED <<rows, mutex, setting, conn, handler, asked, drawn, overlap, shown>>
  BY DEF SaveChanged
<1> HIDE DEF d
<1>4. IInv'
  BY <1>2, <1>3, OutsidePreserves, Threads DEF ShapeInv, PartyIsRead, Held
<1>5. HistoryTypes'
  BY <1>3 DEF ShapeInv, HistoryTypes
<1>6. LoopShape(handler[c], d)
  BY <1>1, <1>2 DEF LoopShape, Saves, Changes
<1>7. handler' = [handler EXCEPT ![c] = handler[c]]
  BY <1>3 DEF ShapeInv, HistoryTypes
<1> QED BY <1>1, <1>3, <1>4, <1>5, <1>6, <1>7, TurnKeepsShape DEF Becomes

LEMMA HandlerEndKeepsShape ==
  ASSUME ShapeInv, NEW c \in Conn, Respond(c) \/ NoSuchMember(c) \/ HandlerThrows(c)
  PROVE  ShapeInv'
<1>1. HandlerReturns(c)
  BY DEF Respond, NoSuchMember, HandlerThrows
<1>2. \/ UNCHANGED shown
      \/ \E s \in [id : PartyId, ext : Ext \union {DefaultExt}, version : Nat] :
           shown' = [shown EXCEPT ![Owner(c)] = @ \union {s}]
  <2>1. CASE Respond(c)
    <3> DEFINE party == call[Loop(c)].party
               s == [id |-> handler[c].id, ext |-> party.ext, version |-> party.version]
    <3>1. party \in Party /\ handler[c].id \in PartyId
      BY <2>1, NoCallFacts DEF Respond, ShapeInv, LoopShape
    <3>2. s \in [id : PartyId, ext : Ext \union {DefaultExt}, version : Nat]
      BY <3>1 DEF Party
    <3> QED BY <2>1, <3>2 DEF Respond
  <2> QED BY <2>1 DEF NoSuchMember, HandlerThrows
<1>3. HistoryTypes'
  BY <1>1, <1>2, SettingTypes, NoCallFacts DEF HandlerReturns, ShapeInv, HistoryTypes
<1> QED BY <1>1, <1>3, EndKeepsShape DEF HandlerReturns

LEMMA CloseKeepsShape ==
  ASSUME ShapeInv, NEW c \in Conn, HandleConnectionClosed(c) PROVE ShapeInv'
<1> DEFINE d == [NoCall EXCEPT !.op = "remove", !.pc = "lock", !.who = Owner(c)]
<1>1. IInv'
  BY Threads, SettingTypes, CallsPreserve DEF HandleConnectionClosed, StartCleanup, ShapeInv, HistoryTypes
<1>2. HistoryTypes'
  BY DEF HandleConnectionClosed, ShapeInv, HistoryTypes
<1>3. d.op = "remove" /\ d.pc = "lock" /\ d.who = Owner(c)
  BY DEF NoCall
<1>4. Becomes(Cleanup(c), d)
  BY DEF HandleConnectionClosed, StartCleanup, CallRemovePlayer
<1> HIDE DEF d
<1>5. call'[Cleanup(c)] = d /\ Only(Cleanup(c))
  BY <1>4, Threads, BecomesOnly DEF ShapeInv
<1>6. conn'[c] = "gone" /\ handler[c] = NoHandler /\ handler' = handler /\ setting' = setting
      /\ \A e \in Conn : e # c => conn'[e] = conn[e]
  BY DEF HandleConnectionClosed, ShapeInv, HistoryTypes, LoopIdle
<1>7. ASSUME NEW e \in Conn
      PROVE  /\ LoopShape(handler'[e], call'[Loop(e)])
             /\ handler'[e].op # "none" => conn'[e] = "open"
  BY <1>5, <1>6, Threads, NoCallFacts DEF ShapeInv, Only
<1>8. ASSUME NEW e \in Conn PROVE CleanupShape(e, call[Cleanup(e)])'
  <2>1. CASE e = c
    BY <1>3, <1>5, <1>6, <2>1 DEF CleanupShape, Owner
  <2>2. CASE e # c
    BY <1>5, <1>6, <2>2, Threads DEF ShapeInv, CleanupShape, Only, Owner
  <2> QED BY <2>1, <2>2
<1> QED BY <1>1, <1>2, <1>7, <1>8 DEF ShapeInv

LEMMA CleanupEndsKeepsShape ==
  ASSUME ShapeInv, NEW c \in Conn, CleanupEnds(c) PROVE ShapeInv'
<1>1. IInv'
  BY Threads, CallsPreserve DEF CleanupEnds, ShapeInv
<1>2. HistoryTypes'
  BY DEF CleanupEnds, ShapeInv, HistoryTypes
<1>3. call'[Cleanup(c)] = NoCall /\ Only(Cleanup(c))
  BY Threads, BecomesOnly DEF CleanupEnds, Return, ShapeInv
<1>4. ASSUME NEW e \in Conn
      PROVE  LoopShape(handler'[e], call'[Loop(e)]) /\ (handler'[e].op # "none" => conn'[e] = "open")
  BY <1>3, Threads DEF CleanupEnds, ShapeInv, Only
<1>5. ASSUME NEW e \in Conn PROVE CleanupShape(e, call[Cleanup(e)])'
  <2>1. CASE e = c
    BY <1>3, <2>1 DEF CleanupShape
  <2>2. CASE e # c
    BY <1>3, <2>2, Threads DEF ShapeInv, CleanupShape, Only, Owner, CleanupEnds
  <2> QED BY <2>1, <2>2
<1> QED BY <1>1, <1>2, <1>4, <1>5 DEF ShapeInv

LEMMA RestartKeepsShape ==
  ASSUME ShapeInv, Restart PROVE ShapeInv'
<1>1. TypeOK'
  BY NoCallShape DEF Restart, ClearAllParties, TypeOK, Free
<1>2. LockInv'
  BY NoCallShape, PartyAssumption DEF Restart, LockInv, Free, Held
<1>3. RowsInv'
  BY DEF Restart, ClearAllParties, RowsInv, MembersColumnSet, NoCall
<1>4. IInv'
  BY <1>1, <1>2, <1>3, NoCallShape DEF Restart, IInv, CleanupInv
<1>5. HistoryTypes'
  BY NoCallFacts DEF Restart, ShapeInv, HistoryTypes
<1>6. ASSUME NEW c \in Conn
      PROVE  /\ handler'[c] = NoHandler /\ call'[Loop(c)] = NoCall /\ call'[Cleanup(c)] = NoCall
  BY Threads DEF Restart
<1>7. LoopShape(NoHandler, NoCall)
  BY NoCallFacts DEF LoopShape
<1> QED BY <1>4, <1>5, <1>6, <1>7, NoCallFacts DEF ShapeInv, CleanupShape

LEMMA InitShape == Init => ShapeInv
<1> SUFFICES ASSUME Init PROVE ShapeInv
  OBVIOUS
<1>1. IInv
  BY InitPreserves DEF Init
<1>2. HistoryTypes
  BY NoCallFacts DEF Init, HistoryTypes
<1>3. \A c \in Conn : handler[c] = NoHandler /\ call[Loop(c)] = NoCall /\ call[Cleanup(c)] = NoCall
  BY Threads DEF Init, DatabaseInit
<1>4. LoopShape(NoHandler, NoCall)
  BY NoCallFacts DEF LoopShape
<1> QED BY <1>1, <1>2, <1>3, <1>4, NoCallFacts DEF ShapeInv, CleanupShape

LEMMA StutterKeepsShape ==
  ASSUME ShapeInv, UNCHANGED vars PROVE ShapeInv'
<1>1. IInv' /\ HistoryTypes'
  BY DEF vars, ShapeInv, HistoryTypes, IInv, TypeOK, LockInv, RowsInv, MembersColumnSet
<1> QED BY <1>1 DEF vars, ShapeInv, CleanupShape, Owner

LEMMA InCallIsACallStep ==
  ASSUME NEW t, InCall(t)
  PROVE  /\ CallStep(t) /\ UNCHANGED <<setting, conn, handler, asked, drawn, overlap, shown>>
         /\ ~setting.failures => CallProceeds(t)
BY DEF InCall, CallStep

LEMMA NextKeepsShape ==
  ASSUME ShapeInv, [Next]_vars PROVE ShapeInv'
<1>1. ASSUME NEW c \in Conn, InCall(Loop(c)) \/ InCall(Cleanup(c)) PROVE ShapeInv'
  BY <1>1, Threads, InCallIsACallStep, InCallKeepsShape
<1>2. ASSUME NEW c \in Conn, SetReady(c) \/ UpdateParty(c) \/ UpdatePartyPlayer(c) PROVE ShapeInv'
  BY <1>2, Changing, SaveChangedKeepsShape
<1> QED
  BY <1>1, <1>2, ConnectKeepsShape, CreatePartyKeepsShape, CreationRefusedKeepsShape,
     SaveNewPartyKeepsShape, AskForPartyKeepsShape, HandlerEndKeepsShape, CloseKeepsShape,
     CleanupEndsKeepsShape, RestartKeepsShape, StutterKeepsShape
     DEF Next, HandlerStep, CleanupStep, ClientStep

\* The inductive invariant of the calls and the handlers that make them
THEOREM ShapeInductive == Spec => []ShapeInv
BY InitShape, NextKeepsShape, PTL DEF Spec

\* A loop thread's call is one that its handler makes, about the party the handler is about; a
\* connection that is not open has no handler under way; a connection's clean-up thread only
\* removes its owner, and only once it is gone.
CallsFitHandlers ==
  \A c \in Conn :
    /\ LoopShape(handler[c], call[Loop(c)])
    /\ handler[c].op # "none" => conn[c] = "open"
    /\ CleanupShape(c, call[Cleanup(c)])

\* Every variable of the handlers keeps its type, and the calls of the threads into the
\* parties' table go with the handlers and the connections they run for.
THEOREM CallsFitHandlersHolds == Spec => [](HandlersTypeOK /\ CallsFitHandlers)
<1>1. ShapeInv => CallsFitHandlers
  BY DEF ShapeInv, CallsFitHandlers
<1> QED BY <1>1, ShapeInductive, ShapeImpliesTypes, PTL

-----------------------------------------------------------------------------
(* What a step of a thread does to the calls and the table, whichever action it is: *)
(* a step of its call; or it turns, outside of any, to another call (or to none).   *)

Turns(t, d) ==
  /\ Becomes(t, d) /\ UNCHANGED <<rows, mutex>>
  /\ call[t].pc \in {"idle", "done", "failed"}

\* A call that begins with a party to save
Presents(d, id, party) == d.op = "save" /\ d.pc = "saveMembers" /\ d.id = id /\ d.party = party

LEMMA OutsideTurns ==
  ASSUME ShapeInv, NEW c \in Conn
  PROVE  /\ SaveNewParty(c) => \E d \in Call, code \in setting.codes :
              Turns(Loop(c), d) /\ Presents(d, handler[c].id, NewParty(c, code))
         /\ \A party \in Party : SaveChanged(c, party) /\ PartyIsRead(c) =>
              \E d \in Call : Turns(Loop(c), d) /\ Presents(d, handler[c].id, party)
         /\ AskForParty(c) => \E d \in Call : Turns(Loop(c), d) /\ d.op = "get" /\ d.pc = "lock"
         /\ HandlerReturns(c) => Turns(Loop(c), NoCall)
         /\ HandleConnectionClosed(c) =>
              \E d \in Call : Turns(Cleanup(c), d) /\ d.op = "remove" /\ d.pc = "lock" /\ d.who = Owner(c)
         /\ CleanupEnds(c) => Turns(Cleanup(c), NoCall)
<1>1. ASSUME SaveNewParty(c)
      PROVE  \E d \in Call, code \in setting.codes :
               Turns(Loop(c), d) /\ Presents(d, handler[c].id, NewParty(c, code))
  <2>1. PICK code \in setting.codes :
          CallSaveParty(Loop(c), handler[c].id, NewParty(c, code))
    BY <1>1 DEF SaveNewParty
  <2> DEFINE d == Saving(handler[c].id, NewParty(c, code))
  <2>2. NewParty(c, code) \in Party /\ handler[c].id \in PartyId
    BY <1>1, NewPartyFacts DEF SaveNewParty, Drawing, ShapeInv, LoopShape, HistoryTypes
  <2>3. d \in Call /\ Presents(d, handler[c].id, NewParty(c, code))
    BY <2>2, SavingFacts DEF Presents
  <2>4. Turns(Loop(c), d)
    BY <2>1 DEF Turns, CallSaveParty
  <2> HIDE DEF d
  <2> QED BY <2>3, <2>4
<1>2. ASSUME NEW party \in Party, SaveChanged(c, party), PartyIsRead(c)
      PROVE  \E d \in Call : Turns(Loop(c), d) /\ Presents(d, handler[c].id, party)
  <2> DEFINE d == Saving(handler[c].id, party)
  <2>1. handler[c].id \in PartyId
    BY <1>2, NoCallFacts DEF PartyIsRead, ShapeInv, LoopShape
  <2>2. d \in Call /\ Presents(d, handler[c].id, party)
    BY <2>1, SavingFacts DEF Presents
  <2>3. Turns(Loop(c), d)
    BY <1>2 DEF Turns, SaveChanged, PartyIsRead
  <2> HIDE DEF d
  <2> QED BY <2>2, <2>3
<1>3. ASSUME AskForParty(c)
      PROVE  \E d \in Call : Turns(Loop(c), d) /\ d.op = "get" /\ d.pc = "lock"
  <2>1. PICK id \in Known(Owner(c)) : CallGetPartyRes(Loop(c), id)
    BY <1>3 DEF AskForParty
  <2> DEFINE d == [NoCall EXCEPT !.op = "get", !.pc = "lock", !.id = id]
  <2>2. id \in PartyId
    BY SettingTypes DEF Known, ShapeInv, HistoryTypes
  <2>3. d \in Call /\ d.op = "get" /\ d.pc = "lock"
    BY <2>2 DEF NoCall, Call
  <2>4. Turns(Loop(c), d)
    BY <2>1 DEF Turns, CallGetPartyRes
  <2> HIDE DEF d
  <2> QED BY <2>3, <2>4
<1>4. ASSUME HandleConnectionClosed(c)
      PROVE  \E d \in Call : Turns(Cleanup(c), d) /\ d.op = "remove" /\ d.pc = "lock" /\ d.who = Owner(c)
  <2> DEFINE d == [NoCall EXCEPT !.op = "remove", !.pc = "lock", !.who = Owner(c)]
  <2>1. d \in Call /\ d.op = "remove" /\ d.pc = "lock" /\ d.who = Owner(c)
    BY SettingTypes, NoCallShape DEF NoCall, Call, ShapeInv, HistoryTypes
  <2>2. Turns(Cleanup(c), d)
    BY <1>4 DEF Turns, HandleConnectionClosed, StartCleanup, CallRemovePlayer
  <2> HIDE DEF d
  <2> QED BY <2>1, <2>2
<1>5. (HandlerReturns(c) => Turns(Loop(c), NoCall)) /\ (CleanupEnds(c) => Turns(Cleanup(c), NoCall))
  BY DEF HandlerReturns, CleanupEnds, Return, Turns
<1> QED BY <1>1, <1>2, <1>3, <1>4, <1>5

\* The end of a handler
LEMMA HandlerEnds ==
  ASSUME NEW c, Respond(c) \/ NoSuchMember(c) \/ HandlerThrows(c)
  PROVE  HandlerReturns(c)
BY DEF Respond, NoSuchMember, HandlerThrows

-----------------------------------------------------------------------------
(* Parties keep a leader *)

LEMMA TurnKeepsLed ==
  ASSUME ShapeInv, LedInv, NEW t \in Thread, NEW d, Turns(t, d),
         Bears(d) => LedMembers(d.party.members)
  PROVE  LedInv'
BY OutsideKeepsLed DEF Turns, ShapeInv

LEMMA NextKeepsLed ==
  ASSUME ShapeInv, LedInv, [Next]_vars PROVE LedInv'
<1>1. ASSUME NEW c \in Conn, InCall(Loop(c)) \/ InCall(Cleanup(c)) PROVE LedInv'
  BY <1>1, Threads, InCallIsACallStep, CallStepKeepsLed DEF ShapeInv
<1>2. ASSUME NEW c \in Conn, SaveNewParty(c) PROVE LedInv'
  <2>1. PICK d \in Call, code \in setting.codes :
          Turns(Loop(c), d) /\ Presents(d, handler[c].id, NewParty(c, code))
    BY <1>2, OutsideTurns
  <2>2. LedMembers(d.party.members)
    BY <2>1, NewPartyFacts DEF Presents, ShapeInv, HistoryTypes
  <2> QED BY <2>1, <2>2, Threads, TurnKeepsLed
<1>3. ASSUME NEW c \in Conn, SetReady(c) \/ UpdateParty(c) \/ UpdatePartyPlayer(c) PROVE LedInv'
  <2>1. PICK party \in Party : SaveChanged(c, party) /\ Changed(call[Loop(c)].party, party)
    BY <1>3, Changing
  <2>2. PartyIsRead(c)
    BY <1>3, Changing
  <2>3. LedMembers(party.members)
    <3>1. Bears(call[Loop(c)]) /\ call[Loop(c)].pc # "strip"
      BY <2>2 DEF Bears, PartyIsRead, Saves
    <3>2. LedMembers(call[Loop(c)].party.members)
      BY <3>1, Threads DEF LedInv
    <3> QED BY <2>1, <3>2 DEF Changed
  <2>4. PICK d \in Call : Turns(Loop(c), d) /\ Presents(d, handler[c].id, party)
    BY <2>1, <2>2, OutsideTurns
  <2> QED BY <2>3, <2>4, Threads, TurnKeepsLed DEF Presents
<1>4. ASSUME NEW c \in Conn,
             AskForParty(c) \/ Respond(c) \/ NoSuchMember(c) \/ HandlerThrows(c)
               \/ HandleConnectionClosed(c) \/ CleanupEnds(c)
      PROVE  LedInv'
  <2>1. PICK t \in Thread : \E d : Turns(t, d) /\ (d = NoCall \/ d.pc = "lock")
    BY <1>4, HandlerEnds, OutsideTurns, Threads
  <2>2. PICK d : Turns(t, d) /\ (d = NoCall \/ d.pc = "lock")
    BY <2>1
  <2>3. ~Bears(d)
    BY <2>2, NoCallBearsNothing DEF Bears, Saves
  <2> QED BY <2>2, <2>3, TurnKeepsLed
<1>5. ASSUME UNCHANGED partyVars PROVE LedInv'
  BY <1>5 DEF partyVars, LedInv
<1>6. ASSUME NEW c \in Conn, Connect(c) \/ CreateParty(c) \/ CreationRefused(c) PROVE LedInv'
  BY <1>5, <1>6 DEF Connect, CreateParty, CreationRefused
<1>7. CASE Restart
  BY <1>7, NoCallBearsNothing DEF Restart, ClearAllParties, LedInv
<1>8. CASE UNCHANGED vars
  BY <1>5, <1>8 DEF vars, partyVars
<1> QED
  BY <1>1, <1>2, <1>3, <1>4, <1>6, <1>7, <1>8 DEF Next, HandlerStep, CleanupStep, ClientStep

\* In the handlers' hands, as in anybody's: the members column is always set, the mutex is held
\* inside operations only, and a clean-up that returns has its player in no row.
THEOREM HandlersKeepParties == Spec => [](MembersColumnSet /\ LockFollowsCalls /\ CleanupIsComplete)
<1>1. ShapeInv => MembersColumnSet /\ LockFollowsCalls /\ CleanupIsComplete
  BY Implied DEF ShapeInv
<1> QED BY <1>1, ShapeInductive, PTL

\* The parties that the handlers save have a leader, and so has every party in the table.
THEOREM HandlersPartiesLed == Spec => []PartiesLed
<1>1. Init => LedInv
  BY NoCallBearsNothing DEF Init, DatabaseInit, LedInv
<1>2. ShapeInv /\ LedInv /\ [Next]_vars => LedInv'
  BY NextKeepsLed
<1>3. ShapeInv /\ LedInv => PartiesLed
  BY LedImplied DEF ShapeInv
<1> QED BY <1>1, <1>2, <1>3, ShapeInductive, PTL DEF Spec

-----------------------------------------------------------------------------
(* Whose a party is, and how what a thread has read agrees with the table *)

\* The players whose connections drew a party id are the only ones who are ever told of it.
Drawers(id) == {Owner(c) : c \in drawn[id]}

MembersDrew(members, id) == \A who : In(who, members) => who \in Drawers(id)

OwnInv ==
  /\ \A id \in PartyId : rows[id] # NoRow => MembersDrew(rows[id].members, id)
  /\ \A t \in Thread : Bears(call[t]) => MembersDrew(call[t].party.members, call[t].id)
  /\ \A c \in Conn : handler[c].op # "none" => Owner(c) \in Drawers(handler[c].id)
  /\ \A c \in Conn : handler[c].op = "CreateParty" => c \in drawn[handler[c].id]
  /\ \A p \in Player : \A s \in shown[p] : p \in Drawers(s.id)

\* Version and broadcast contents of a party, as a row would be read
SameContents(party, row) == party.ext = ReadExt(row) /\ party.version = MetaOf(row).version

\* What has been read, while the mutex keeps everybody else out
ReadInv(c, table) ==
  /\ c.pc \in {"readExtras", "readMeta"} => table[c.id] # NoRow
  /\ c.pc = "readExtras" => c.party.ext = DefaultExt
  /\ c.pc = "readMeta" => c.party.ext = ReadExt(table[c.id])
  /\ c.op = "remove" /\ c.pc \in Saves \union {"strip"} =>
       table[c.id] # NoRow /\ SameContents(c.party, table[c.id])
  /\ c.op = "get" /\ c.pc = "unlock" /\ Bears(c) =>
       table[c.id] # NoRow /\ SameContents(c.party, table[c.id])
  /\ c.op = "remove" /\ c.pc \in {"readExtras", "readMeta", "strip", "saveMembers"} =>
       \A who : In(who, c.party.members) => In(who, table[c.id].members)

SingleInv ==
  ~overlap => \A c, d \in Conn : Owner(c) = Owner(d) /\ conn[c] = "open" /\ conn[d] = "open" => c = d

\* The inductive invariant, whatever happens
HandlersInv ==
  /\ ShapeInv
  /\ OwnInv
  /\ \A t \in Thread : ReadInv(call[t], rows)
  /\ SingleInv

\* With no failing statement and no collision: who is in a party is connected or being removed.
Cleaning(c) == call[Cleanup(c)].op = "remove" /\ call[Cleanup(c)].pc \notin {"done", "failed"}

PresentInv ==
  ~setting.failures /\ ~Collided =>
    \A p \in Player, id \in PartyId : InParty(p, id) =>
      \E c \in Conn : Owner(c) = p /\ (conn[c] = "open" \/ Cleaning(c))

\* With one session at a time on top: who shows a version has the contents of that version.
Calm == ~setting.failures /\ ~Collided /\ ~overlap

Told == UNION {shown[p] : p \in Player}
Follows(ext, version, s) == s.version < version \/ (s.version = version /\ s.ext = ext)
Newest(told, id, ext, version) == \A s \in told : s.id = id => Follows(ext, version, s)

\* A handler's save is between its statements: the row has not all of its party yet.
Midway(k, id) == k.op = "save" /\ k.pc \in {"saveExtras", "saveMeta"} /\ k.id = id

LoopContents(k, table, told) ==
  /\ k.op = "save" => Newest(told, k.id, k.party.ext, k.party.version)
  /\ k.op = "get" /\ k.pc \in {"unlock", "done"} /\ Bears(k) =>
       Newest(told, k.id, k.party.ext, k.party.version)
  /\ k.op = "save" /\ k.pc = "saveMeta" => ReadExt(table[k.id]) = k.party.ext
  /\ k.pc = "done" /\ table[k.id] # NoRow => SameContents(k.party, table[k.id])

NamesContents ==
  \A s, u \in Told : s.id = u.id /\ s.version = u.version => s.ext = u.ext

RowsNewest ==
  \A id \in PartyId : rows[id] # NoRow /\ (\A c \in Conn : ~Midway(call[Loop(c)], id)) =>
    Newest(Told, id, ReadExt(rows[id]), MetaOf(rows[id]).version)

LoopsContents ==
  \A c \in Conn :
    /\ LoopContents(call[Loop(c)], rows, Told)
    /\ Drawing(c) => \A s \in Told : s.id # handler[c].id

VersionInv == Calm => NamesContents /\ RowsNewest /\ LoopsContents

-----------------------------------------------------------------------------
(* Steps inside a call *)

LEMMA CallStepKeepsOwn ==
  ASSUME ShapeInv, OwnInv, NEW t \in Thread, CallStep(t),
         UNCHANGED <<setting, conn, handler, asked, drawn, overlap, shown>>
  PROVE  OwnInv'
<1> DEFINE c == call[t]
           d == call'[t]
<1>1. /\ \A u \in Thread \ {t} : call'[u] = call[u]
      /\ Moves(c, d) /\ Effect(c, d)
      /\ CallShape(c) /\ rows \in [PartyId -> Row \union {NoRow}]
  BY CallStepEffect DEF ShapeInv, IInv, TypeOK
<1>2. \A id : Drawers(id)' = Drawers(id)
  BY DEF Drawers, Owner
<1>3. Bears(c) => \A who : In(who, c.party.members) => who \in Drawers(c.id)
  BY DEF OwnInv, MembersDrew
<1>4. \A id \in PartyId : rows[id] # NoRow => \A who : In(who, rows[id].members) => who \in Drawers(id)
  BY DEF OwnInv, MembersDrew
<1>5. c.pc \in Reads \union Saves \union {"delete"} => c.id \in PartyId
  BY <1>1 DEF CallShape
<1>6. SUFFICES /\ \A id \in PartyId : rows'[id] # NoRow =>
                    \A who : In(who, rows'[id].members) => who \in Drawers(id)
               /\ Bears(d) => \A who : In(who, d.party.members) => who \in Drawers(d.id)
  <2>1. \A u \in Thread : Bears(call'[u]) =>
          \A who : In(who, call'[u].party.members) => who \in Drawers(call'[u].id)
    BY <1>1, <1>6 DEF OwnInv, MembersDrew
  <2>2. \A e \in Conn : /\ handler'[e].op # "none" => Owner(e)' \in Drawers(handler'[e].id)
                        /\ handler'[e].op = "CreateParty" => e \in drawn'[handler'[e].id]
    BY DEF OwnInv, Owner
  <2>3. \A p \in Player : \A s \in shown'[p] : p \in Drawers(s.id)
    BY DEF OwnInv
  <2> QED BY <1>2, <1>6, <2>1, <2>2, <2>3 DEF OwnInv, MembersDrew
<1> HIDE DEF c, d
<1>7. CASE UNCHANGED rows
  <2>1. \A id \in PartyId : rows'[id] # NoRow =>
          \A who : In(who, rows'[id].members) => who \in Drawers(id)
    BY <1>4, <1>7
  <2>2. ASSUME Bears(d), NEW who, In(who, d.party.members) PROVE who \in Drawers(d.id)
    <3>1. CASE Fetches(c, d)
      BY <1>4, <1>5, <2>2, <3>1 DEF Fetches, Reads
    <3>2. CASE FetchesExtras(c, d) \/ FetchesMeta(c, d)
      BY <1>3, <2>2, <3>2 DEF FetchesExtras, FetchesMeta, Bears
    <3>3. CASE Delivers(c, d)
      BY <1>3, <2>2, <3>3 DEF Delivers
    <3>4. CASE Strips(c, d) \/ HandsOn(c, d)
      BY <1>3, <2>2, <3>4 DEF Strips, HandsOn, Bears
    <3>5. CASE WritesMembers(c, d) \/ WritesExtras(c, d) \/ WritesMeta(c, d)
      BY <1>3, <2>2, <3>5 DEF WritesMembers, WritesExtras, WritesMeta, Writes, Saves, Bears
    <3>6. CASE Empties(c, d)
      BY <2>2, <3>6 DEF Empties
    <3>7. CASE Deletes(c, d)
      BY <1>1, <2>2, <3>7 DEF Deletes, Moves, Bears, Saves
    <3> QED BY <1>1, <3>1, <3>2, <3>3, <3>4, <3>5, <3>6, <3>7 DEF Effect
  <2> QED BY <2>1, <2>2
<1>8. CASE Deletes(c, d)
  <2>1. ~Bears(d)
    BY <1>8 DEF Deletes, Bears, Saves
  <2> QED BY <1>1, <1>4, <1>8, <2>1 DEF Deletes
<1>9. CASE WritesMembers(c, d) \/ WritesExtras(c, d) \/ WritesMeta(c, d)
  <2>1. PICK row : /\ Writes(c, d, row)
                   /\ \/ row.members = c.party.members
                      \/ rows[c.id] # NoRow /\ row.members = rows[c.id].members
                   /\ c.pc \in Saves
    BY <1>9 DEF WritesMembers, WritesExtras, WritesMeta, Saves
  <2>2. c.id \in PartyId /\ \A who : In(who, row.members) => who \in Drawers(c.id)
    BY <1>3, <1>4, <2>1 DEF Writes, Bears
  <2>3. \A id \in PartyId : rows'[id] # NoRow =>
          \A who : In(who, rows'[id].members) => who \in Drawers(id)
    BY <1>1, <1>4, <2>1, <2>2 DEF Writes
  <2>4. Bears(d) => \A who : In(who, d.party.members) => who \in Drawers(d.id)
    BY <1>3, <2>1 DEF Writes, Bears
  <2> QED BY <2>3, <2>4
<1> QED
  BY <1>1, <1>7, <1>8, <1>9
  DEF Effect, Empties, Fetches, FetchesExtras, FetchesMeta, Delivers, Strips, HandsOn

\* Whose state ReadInv speaks of, holds the mutex.
LEMMA ReadersHold ==
  ASSUME NEW c, CallShape(c)
  PROVE  /\ c.op = "get" /\ c.pc \in Reads \union {"unlock"} => Held(c)
         /\ c.op = "remove" /\ c.pc \in Reads \union Saves \union {"strip"} => Held(c)
BY DEF Held, HeldOnce, HeldTwice, Reads, Saves

LEMMA CallStepKeepsRead ==
  ASSUME IInv, \A u \in Thread : ReadInv(call[u], rows), NEW t \in Thread, CallStep(t)
  PROVE  \A u \in Thread : ReadInv(call'[u], rows')
<1> DEFINE c == call[t]
           d == call'[t]
<1>1. /\ \A u \in Thread \ {t} : call'[u] = call[u]
      /\ Moves(c, d) /\ Effect(c, d)
      /\ CallShape(c) /\ rows \in [PartyId -> Row \union {NoRow}]
  BY CallStepEffect DEF IInv, TypeOK
<1>2. ASSUME NEW u \in Thread \ {t} PROVE ReadInv(call'[u], rows')
  <2>1. call'[u] = call[u] /\ CallShape(call[u]) /\ ReadInv(call[u], rows)
    BY <1>1 DEF IInv
  <2>2. CASE rows' = rows
    BY <2>1, <2>2
  <2>3. CASE ~Held(call[u])
    <3>1. call[u].pc \in Reads => call[u].op \in {"get", "remove"}
      BY <2>1 DEF CallShape
    <3> QED BY <2>1, <2>3, <3>1, ReadersHold DEF ReadInv, Reads, Saves
  <2> QED BY <2>2, <2>3, WriterAlone DEF Alone
<1>3. ReadInv(c, rows)
  OBVIOUS
<1>4. c.pc \in Saves => c.party \in Party /\ c.id \in PartyId
  BY <1>1 DEF CallShape
<1> HIDE DEF c, d
<1>5. ReadInv(d, rows')
  <2>1. CASE Empties(c, d)
    BY <2>1 DEF Empties, Bears, ReadInv, Saves
  <2>2. CASE Fetches(c, d)
    BY <2>2 DEF Fetches, ReadInv, Saves
  <2>3. CASE FetchesExtras(c, d)
    BY <1>1, <1>3, <2>3 DEF FetchesExtras, ReadInv, Saves, ReadExt, Moves
  <2>4. CASE FetchesMeta(c, d)
    BY <1>1, <1>3, <2>4 DEF FetchesMeta, ReadInv, Saves, SameContents, Moves
  <2>5. CASE Delivers(c, d)
    BY <1>1, <2>5 DEF Delivers, ReadInv, Saves, Moves
  <2>6. CASE Strips(c, d) \/ HandsOn(c, d)
    <3>1. c.op = "remove"
      BY <1>1, <2>6 DEF Strips, HandsOn, CallShape
    <3> QED BY <1>1, <1>3, <2>6, <3>1 DEF Strips, HandsOn, ReadInv, Saves, SameContents, Moves
  <2>7. CASE Deletes(c, d)
    BY <2>7 DEF Deletes, ReadInv, Saves
  <2>8. CASE WritesMembers(c, d)
    <3>1. PICK row : /\ Writes(c, d, row)
                     /\ c.pc = "saveMembers" /\ d.pc = "saveExtras"
                     /\ rows[c.id] # NoRow => row.ext = rows[c.id].ext /\ row.meta = rows[c.id].meta
      BY <2>8 DEF WritesMembers
    <3>2. rows'[c.id] = row /\ d.id = c.id /\ d.party = c.party /\ row # NoRow /\ d.op = c.op
      BY <1>1, <3>1 DEF Writes, Moves
    <3>3. c.op = "remove" => SameContents(c.party, rows[c.id]) /\ rows[c.id] # NoRow
      BY <1>3, <3>1 DEF ReadInv, Saves
    <3>4. c.op = "remove" => SameContents(c.party, row)
      BY <3>1, <3>3 DEF SameContents, ReadExt, MetaOf
    <3> QED BY <3>1, <3>2, <3>4 DEF ReadInv, Saves
  <2>9. CASE WritesExtras(c, d)
    <3>1. PICK row : /\ Writes(c, d, row)
                     /\ c.pc = "saveExtras" /\ d.pc = "saveMeta"
                     /\ row.meta = rows[c.id].meta /\ row.ext = c.party.ext
      BY <2>9 DEF WritesExtras
    <3>2. rows'[c.id] = row /\ d.id = c.id /\ d.party = c.party /\ row # NoRow /\ d.op = c.op
      BY <1>1, <3>1 DEF Writes, Moves
    <3>3. c.op = "remove" => SameContents(c.party, rows[c.id]) /\ rows[c.id] # NoRow
      BY <1>3, <3>1 DEF ReadInv, Saves
    <3>4. c.party.ext # Null
      BY <1>4, <3>1, PartyAssumption DEF Saves, Party
    <3>5. c.op = "remove" => SameContents(c.party, row)
      BY <3>1, <3>3, <3>4 DEF SameContents, ReadExt, MetaOf
    <3> QED BY <3>1, <3>2, <3>5 DEF ReadInv, Saves
  <2>10. CASE WritesMeta(c, d)
    <3>1. d.pc \in {"done", "next"}
      BY <2>10 DEF WritesMeta
    <3> QED BY <3>1 DEF ReadInv, Saves
  <2> QED BY <1>1, <2>1, <2>2, <2>3, <2>4, <2>5, <2>6, <2>7, <2>8, <2>9, <2>10 DEF Effect
<1> QED BY <1>2, <1>5 DEF d

\* Nobody gets into a party but by the save of a handler: what a clean-up writes back is what
\* it has just read there, less a member.
LEMMA WhoGetsIn ==
  ASSUME IInv, \A u \in Thread : ReadInv(call[u], rows), NEW t \in Thread, CallStep(t),
         NEW p, NEW id \in PartyId, rows'[id] # NoRow, In(p, rows'[id].members)
  PROVE  \/ rows[id] # NoRow /\ In(p, rows[id].members)
         \/ /\ call[t].op = "save" /\ call[t].id = id
            /\ call[t].pc \in Saves /\ In(p, call[t].party.members)
<1> DEFINE c == call[t]
           d == call'[t]
<1>1. /\ Moves(c, d) /\ Effect(c, d)
      /\ CallShape(c) /\ rows \in [PartyId -> Row \union {NoRow}] /\ ReadInv(c, rows)
  BY CallStepEffect DEF IInv, TypeOK
<1> HIDE DEF c, d
<1>2. CASE UNCHANGED rows
  BY <1>2
<1>3. CASE Deletes(c, d)
  BY <1>1, <1>3 DEF Deletes
<1>4. CASE WritesMembers(c, d) \/ WritesExtras(c, d) \/ WritesMeta(c, d)
  <2>1. PICK row : /\ Writes(c, d, row) /\ c.pc \in Saves
                   /\ \/ c.pc = "saveMembers" /\ row.members = c.party.members
                      \/ rows[c.id] # NoRow /\ row.members = rows[c.id].members
    BY <1>4 DEF WritesMembers, WritesExtras, WritesMeta, Saves
  <2>2. rows'[id] = IF id = c.id THEN row ELSE rows[id]
    BY <1>1, <2>1 DEF Writes
  <2>3. CASE \/ id # c.id
             \/ row.members = rows[c.id].members /\ rows[c.id] # NoRow
    BY <2>2, <2>3
  <2>4. CASE id = c.id /\ c.pc = "saveMembers" /\ row.members = c.party.members
    <3>1. In(p, c.party.members)
      BY <2>2, <2>4
    <3>2. CASE c.op = "save"
      BY <2>1, <2>4, <3>1, <3>2 DEF c
    <3>3. CASE c.op = "remove"
      BY <1>1, <2>4, <3>1, <3>3 DEF ReadInv, Saves
    <3>4. c.op \in {"save", "remove"}
      BY <1>1, <2>1 DEF CallShape
    <3> QED BY <3>2, <3>3, <3>4
  <2> QED BY <2>1, <2>3, <2>4
<1> QED
  BY <1>1, <1>2, <1>3, <1>4
  DEF Effect, Empties, Fetches, FetchesExtras, FetchesMeta, Delivers, Strips, HandsOn

\* Reading and cleaning up change nobody's version or broadcast contents.
LEMMA ContentsKept ==
  ASSUME IInv, \A u \in Thread : ReadInv(call[u], rows), NEW t \in Thread, CallStep(t),
         call[t].op # "save", NEW id \in PartyId, rows'[id] # NoRow
  PROVE  /\ rows[id] # NoRow
         /\ ReadExt(rows'[id]) = ReadExt(rows[id])
         /\ MetaOf(rows'[id]).version = MetaOf(rows[id]).version
<1> DEFINE c == call[t]
           d == call'[t]
<1>1. /\ Moves(c, d) /\ Effect(c, d)
      /\ CallShape(c) /\ rows \in [PartyId -> Row \union {NoRow}] /\ ReadInv(c, rows)
      /\ c.op # "save"
  BY CallStepEffect DEF IInv, TypeOK
<1> HIDE DEF c, d
<1>2. CASE UNCHANGED rows
  BY <1>2
<1>3. CASE Deletes(c, d)
  BY <1>1, <1>3 DEF Deletes
<1>4. CASE WritesMembers(c, d) \/ WritesExtras(c, d) \/ WritesMeta(c, d)
  <2>1. c.pc \in Saves /\ c.op = "remove"
    BY <1>1, <1>4 DEF WritesMembers, WritesExtras, WritesMeta, Saves, CallShape
  <2>2. rows[c.id] # NoRow /\ SameContents(c.party, rows[c.id])
    BY <1>1, <2>1 DEF ReadInv
  <2>3. c.party.ext # Null /\ [code |-> c.party.code, version |-> c.party.version] # Null
    BY <1>1, <2>1, PartyAssumption DEF CallShape, Party
  <2>4. PICK row : /\ Writes(c, d, row)
                   /\ row.ext \in {rows[c.id].ext, c.party.ext}
                   /\ row.meta \in {rows[c.id].meta,
                                    [code |-> c.party.code, version |-> c.party.version]}
    BY <1>4, <2>2 DEF WritesMembers, WritesExtras, WritesMeta
  <2>5. ReadExt(row) = ReadExt(rows[c.id])
    BY <2>2, <2>3, <2>4 DEF ReadExt, SameContents
  <2>6. MetaOf(row).version = MetaOf(rows[c.id]).version
    BY <2>2, <2>3, <2>4 DEF MetaOf, SameContents
  <2>7. rows'[id] = IF id = c.id THEN row ELSE rows[id]
    BY <1>1, <2>4 DEF Writes
  <2> QED BY <2>2, <2>5, <2>6, <2>7
<1> QED
  BY <1>1, <1>2, <1>3, <1>4
  DEF Effect, Empties, Fetches, FetchesExtras, FetchesMeta, Delivers, Strips, HandsOn

-----------------------------------------------------------------------------
(* Steps outside the calls *)

LEMMA TurnKeepsRead ==
  ASSUME IInv, \A u \in Thread : ReadInv(call[u], rows), NEW t \in Thread, NEW d, Turns(t, d),
         d = NoCall \/ d.pc = "lock" \/ (d.op = "save" /\ d.pc = "saveMembers")
  PROVE  \A u \in Thread : ReadInv(call'[u], rows')
<1>1. call'[t] = d /\ \A u \in Thread \ {t} : call'[u] = call[u]
  BY BecomesOne DEF Turns
<1>2. ReadInv(d, rows)
  BY DEF ReadInv, NoCall, Saves
<1> QED BY <1>1, <1>2 DEF Turns

LEMMA TurnKeepsOwn ==
  ASSUME ShapeInv, OwnInv, NEW t \in Thread, NEW d, Turns(t, d), UNCHANGED <<setting, drawn>>,
         Bears(d) => MembersDrew(d.party.members, d.id),
         \A c \in Conn : \/ handler'[c] = handler[c]
                         \/ handler'[c].op = "none"
                         \/ /\ handler'[c].op # "CreateParty"
                            /\ Owner(c) \in Drawers(handler'[c].id),
         \A p \in Player : \A s \in shown'[p] : p \in Drawers(s.id)
  PROVE  OwnInv'
<1>1. \A id : Drawers(id)' = Drawers(id)
  BY DEF Drawers, Owner
<1>2. call'[t] = d /\ \A u \in Thread \ {t} : call'[u] = call[u]
  BY BecomesOne DEF Turns, ShapeInv
<1>3. \A u \in Thread : Bears(call'[u]) =>
        \A who : In(who, call'[u].party.members) => who \in Drawers(call'[u].id)
  BY <1>2 DEF OwnInv, MembersDrew
<1>4. \A id \in PartyId : rows'[id] # NoRow =>
        \A who : In(who, rows'[id].members) => who \in Drawers(id)
  BY DEF OwnInv, MembersDrew, Turns
<1>5. \A c \in Conn : /\ handler'[c].op # "none" => Owner(c)' \in Drawers(handler'[c].id)
                      /\ handler'[c].op = "CreateParty" => c \in drawn'[handler'[c].id]
  BY DEF OwnInv, Owner
<1> QED BY <1>1, <1>3, <1>4, <1>5 DEF OwnInv, MembersDrew

\* All calls and the table as they are; ids may be drawn and handlers end.
LEMMA QuietKeepsOwn ==
  ASSUME ShapeInv, OwnInv, UNCHANGED <<rows, call, setting, shown>>,
         \A id \in PartyId : drawn[id] \subseteq drawn'[id],
         \A c \in Conn : \/ handler'[c] = handler[c]
                         \/ handler'[c].op = "none"
                         \/ handler'[c].id \in PartyId /\ c \in drawn'[handler'[c].id]
  PROVE  OwnInv'
<1>1. \A id \in PartyId : \A who \in Drawers(id) : who \in Drawers(id)'
  BY DEF Drawers, Owner
<1>2. \A t \in Thread : Bears(call[t]) => call[t].id \in PartyId
  <2> SUFFICES ASSUME NEW t \in Thread, Bears(call[t]) PROVE call[t].id \in PartyId
    OBVIOUS
  <2>1. CallShape(call[t])
    BY DEF ShapeInv, IInv
  <2>2. CASE call[t].pc \in Saves \union {"readExtras", "readMeta", "strip"}
    BY <2>1, <2>2 DEF CallShape, Reads
  <2>3. CASE call[t].pc \notin Saves \union {"readExtras", "readMeta", "strip"}
    <3>1. call[t].op # "remove" /\ call[t].pc \in {"done", "unlock"}
      BY <2>3 DEF Bears
    <3>2. PICK c \in Conn : t \in {Loop(c), Cleanup(c)}
      BY Threads
    <3>3. t = Loop(c)
      BY <3>1, <3>2, NoCallFacts DEF ShapeInv, CleanupShape
    <3> QED BY <3>1, <3>3, NoCallFacts DEF ShapeInv, LoopShape
  <2> QED BY <2>2, <2>3
<1>3. (\A t \in Thread : Bears(call[t]) => MembersDrew(call[t].party.members, call[t].id))'
  BY <1>1, <1>2 DEF OwnInv, MembersDrew, Drawers, Owner
<1>4. (\A id \in PartyId : rows[id] # NoRow => MembersDrew(rows[id].members, id))'
  BY <1>1 DEF OwnInv, MembersDrew
<1>5. \A c \in Conn : handler[c].op # "none" => handler[c].id \in PartyId
  BY DEF ShapeInv, LoopShape
<1>6. (\A c \in Conn : handler[c].op # "none" => Owner(c) \in Drawers(handler[c].id))'
  <2> SUFFICES ASSUME NEW c \in Conn, handler'[c].op # "none"
               PROVE  setting'.owner[c] \in {setting'.owner[e] : e \in drawn'[handler'[c].id]}
    BY DEF Drawers, Owner
  <2>1. CASE handler'[c] = handler[c]
    BY <1>5, <2>1 DEF OwnInv, Drawers, Owner
  <2>2. CASE handler'[c].id \in PartyId /\ c \in drawn'[handler'[c].id]
    BY <2>2
  <2> QED BY <2>1, <2>2
<1>7. \A c \in Conn : handler'[c].op = "CreateParty" => c \in drawn'[handler'[c].id]
  BY <1>5 DEF OwnInv
<1>8. (\A p \in Player : \A s \in shown[p] : p \in Drawers(s.id))'
  BY <1>1 DEF OwnInv, ShapeInv, HistoryTypes, Drawers, Owner
<1> QED BY <1>3, <1>4, <1>6, <1>7, <1>8 DEF OwnInv

LEMMA NextKeepsOwn ==
  ASSUME ShapeInv, OwnInv, [Next]_vars PROVE OwnInv'
<1>1. ASSUME NEW c \in Conn, InCall(Loop(c)) \/ InCall(Cleanup(c)) PROVE OwnInv'
  BY <1>1, Threads, InCallIsACallStep, CallStepKeepsOwn
<1>2. ASSUME NEW c \in Conn, Connect(c) \/ CreateParty(c) \/ CreationRefused(c) PROVE OwnInv'
  <2>1. UNCHANGED <<rows, call, setting, shown>>
    BY <1>2 DEF Connect, CreateParty, CreationRefused, partyVars
  <2>2. \A id \in PartyId : drawn[id] \subseteq drawn'[id]
    BY <1>2 DEF Connect, CreateParty, CreationRefused, ShapeInv, HistoryTypes
  <2>3. \A e \in Conn : \/ handler'[e] = handler[e]
                        \/ handler'[e].op = "none"
                        \/ handler'[e].id \in PartyId /\ e \in drawn'[handler'[e].id]
    BY <1>2, NoCallFacts DEF Connect, CreateParty, CreationRefused, Receiving, ShapeInv, HistoryTypes
  <2> QED BY <2>1, <2>2, <2>3, QuietKeepsOwn
<1>3. ASSUME NEW c \in Conn, SaveNewParty(c) PROVE OwnInv'
  <2>1. PICK d \in Call, code \in setting.codes :
          Turns(Loop(c), d) /\ Presents(d, handler[c].id, NewParty(c, code))
    BY <1>3, OutsideTurns
  <2>2. MembersDrew(d.party.members, d.id)
    BY <1>3, <2>1, NewPartyFacts
    DEF Presents, MembersDrew, OwnInv, SaveNewParty, Drawing, ShapeInv, HistoryTypes
  <2>3. UNCHANGED <<setting, drawn, handler, shown>>
    BY <1>3 DEF SaveNewParty
  <2> QED BY <2>1, <2>2, <2>3, Threads, TurnKeepsOwn DEF OwnInv
<1>4. ASSUME NEW c \in Conn, SetReady(c) \/ UpdateParty(c) \/ UpdatePartyPlayer(c) PROVE OwnInv'
  <2>1. PICK party \in Party : SaveChanged(c, party) /\ Changed(call[Loop(c)].party, party)
    BY <1>4, Changing
  <2>2. PartyIsRead(c)
    BY <1>4, Changing
  <2>3. PICK d \in Call : Turns(Loop(c), d) /\ Presents(d, handler[c].id, party)
    BY <2>1, <2>2, OutsideTurns
  <2>4. call[Loop(c)].id = handler[c].id /\ Bears(call[Loop(c)])
    BY <2>2, NoCallFacts DEF PartyIsRead, ShapeInv, LoopShape, Bears
  <2>5. MembersDrew(d.party.members, d.id)
    BY <2>1, <2>3, <2>4, Threads DEF Presents, MembersDrew, OwnInv, Changed
  <2>6. UNCHANGED <<setting, drawn, handler, shown>>
    BY <2>1 DEF SaveChanged
  <2> QED BY <2>3, <2>5, <2>6, Threads, TurnKeepsOwn DEF OwnInv
<1>5. ASSUME NEW c \in Conn, AskForParty(c) PROVE OwnInv'
  <2>1. PICK d \in Call : Turns(Loop(c), d) /\ d.op = "get" /\ d.pc = "lock"
    BY <1>5, OutsideTurns
  <2>2. ~Bears(d)
    BY <2>1 DEF Bears, Saves
  <2>3. PICK op \in Changes \union {"EnterMatchmaking"}, id \in Known(Owner(c)) :
          handler' = [handler EXCEPT ![c] = [op |-> op, id |-> id]]
    BY <1>5 DEF AskForParty, Receiving
  <2>4. Owner(c) \in Drawers(id)
    BY SettingTypes DEF Known, OwnInv, ShapeInv, HistoryTypes
  <2>5. \A e \in Conn : \/ handler'[e] = handler[e]
                        \/ e = c /\ handler'[e] = [op |-> op, id |-> id]
    BY <2>3 DEF ShapeInv, HistoryTypes
  <2>6. UNCHANGED <<setting, drawn, shown>>
    BY <1>5 DEF AskForParty
  <2> QED BY <2>1, <2>2, <2>4, <2>5, <2>6, Threads, TurnKeepsOwn DEF OwnInv, Changes
<1>6. ASSUME NEW c \in Conn, Respond(c) \/ NoSuchMember(c) \/ HandlerThrows(c) PROVE OwnInv'
  <2>1. HandlerReturns(c) /\ Turns(Loop(c), NoCall)
    BY <1>6, HandlerEnds, OutsideTurns
  <2>2. handler[c].op # "none"
    BY <2>1, NoCallFacts DEF HandlerReturns, Return, ShapeInv, LoopShape
  <2>3. \A p \in Player : \A s \in shown'[p] :
          s \in shown[p] \/ (p = Owner(c) /\ s.id = handler[c].id)
    BY <1>6 DEF Respond, NoSuchMember, HandlerThrows, ShapeInv, HistoryTypes
  <2>4. \A p \in Player : \A s \in shown'[p] : p \in Drawers(s.id)
    BY <2>2, <2>3 DEF OwnInv
  <2>5. \A e \in Conn : handler'[e] = handler[e] \/ handler'[e].op = "none"
    BY <2>1, NoCallFacts DEF HandlerReturns, ShapeInv, HistoryTypes
  <2>6. UNCHANGED <<setting, drawn>>
    BY <2>1 DEF HandlerReturns
  <2> QED BY <2>1, <2>4, <2>5, <2>6, Threads, NoCallBearsNothing, TurnKeepsOwn
<1>7. ASSUME NEW c \in Conn, HandleConnectionClosed(c) \/ CleanupEnds(c) PROVE OwnInv'
  <2>1. PICK d : Turns(Cleanup(c), d) /\ (d = NoCall \/ d.pc = "lock")
    BY <1>7, OutsideTurns
  <2>2. ~Bears(d)
    BY <2>1, NoCallBearsNothing DEF Bears, Saves
  <2>3. UNCHANGED <<setting, drawn, handler, shown>>
    BY <1>7 DEF HandleConnectionClosed, CleanupEnds
  <2> QED BY <2>1, <2>2, <2>3, Threads, TurnKeepsOwn DEF OwnInv
<1>8. CASE Restart
  <2>1. \A id \in PartyId : rows'[id] = NoRow
    BY <1>8 DEF Restart, ClearAllParties
  <2>2. \A t \in Thread : ~Bears(call'[t])
    BY <1>8, NoCallBearsNothing DEF Restart
  <2>3. \A c \in Conn : handler'[c].op = "none"
    BY <1>8, NoCallFacts DEF Restart
  <2> QED BY <1>8, <2>1, <2>2, <2>3 DEF Restart, OwnInv, Drawers, Owner
<1>9. CASE UNCHANGED vars
  BY <1>9 DEF vars, OwnInv, MembersDrew, Drawers, Owner
<1> QED
  BY <1>1, <1>2, <1>3, <1>4, <1>5, <1>6, <1>7, <1>8, <1>9
  DEF Next, HandlerStep, CleanupStep, ClientStep

LEMMA NextKeepsRead ==
  ASSUME ShapeInv, \A u \in Thread : ReadInv(call[u], rows), [Next]_vars
  PROVE  \A u \in Thread : ReadInv(call'[u], rows')
<1> USE DEF ShapeInv
<1>1. ASSUME NEW c \in Conn, InCall(Loop(c)) \/ InCall(Cleanup(c))
      PROVE  \A u \in Thread : ReadInv(call'[u], rows')
  BY <1>1, Threads, InCallIsACallStep, CallStepKeepsRead
<1>2. ASSUME UNCHANGED <<rows, call>> PROVE \A u \in Thread : ReadInv(call'[u], rows')
  BY <1>2
<1>3. ASSUME NEW c \in Conn, SetReady(c) \/ UpdateParty(c) \/ UpdatePartyPlayer(c)
      PROVE  \E d : Turns(Loop(c), d) /\ d.op = "save" /\ d.pc = "saveMembers"
  BY <1>3, Changing, OutsideTurns DEF Presents
<1>4. ASSUME NEW c \in Conn, SaveNewParty(c)
      PROVE  \E d : Turns(Loop(c), d) /\ d.op = "save" /\ d.pc = "saveMembers"
  BY <1>4, OutsideTurns DEF Presents
<1>5. ASSUME NEW c \in Conn,
             AskForParty(c) \/ Respond(c) \/ NoSuchMember(c) \/ HandlerThrows(c)
               \/ HandleConnectionClosed(c) \/ CleanupEnds(c)
      PROVE  \E t \in Thread : \E d : Turns(t, d) /\ (d = NoCall \/ d.pc = "lock")
  BY <1>5, HandlerEnds, OutsideTurns, Threads
<1>6. ASSUME NEW t \in Thread, NEW d, Turns(t, d),
             d = NoCall \/ d.pc = "lock" \/ (d.op = "save" /\ d.pc = "saveMembers")
      PROVE  \A u \in Thread : ReadInv(call'[u], rows')
  BY <1>6, TurnKeepsRead
<1>7. ASSUME NEW c \in Conn, Connect(c) \/ CreateParty(c) \/ CreationRefused(c)
      PROVE  UNCHANGED <<rows, call>>
  BY <1>7 DEF Connect, CreateParty, CreationRefused, partyVars
<1>8. CASE Restart
  BY <1>8 DEF Restart, ReadInv, NoCall, Saves
<1>9. CASE UNCHANGED vars
  BY <1>2, <1>9 DEF vars
<1> QED
  BY <1>1, <1>2, <1>3, <1>4, <1>5, <1>6, <1>7, <1>8, <1>9, Threads
  DEF Next, HandlerStep, CleanupStep, ClientStep

\* What a step never does to the history
LEMMA HistoryGrows ==
  ASSUME ShapeInv, [Next]_vars
  PROVE  /\ setting' = setting /\ (overlap => overlap')
         /\ \A id \in PartyId : drawn[id] \subseteq drawn'[id]
<1>1. ASSUME NEW c \in Conn, HandlerStep(c) PROVE UNCHANGED <<setting, overlap, drawn>>
  <2>1. ASSUME SetReady(c) \/ UpdateParty(c) \/ UpdatePartyPlayer(c)
        PROVE  UNCHANGED <<setting, overlap, drawn>>
    BY <2>1, Changing DEF SaveChanged
  <2>2. ASSUME Respond(c) \/ NoSuchMember(c) \/ HandlerThrows(c)
        PROVE  UNCHANGED <<setting, overlap, drawn>>
    BY <2>2, HandlerEnds DEF HandlerReturns
  <2> QED BY <1>1, <2>1, <2>2 DEF HandlerStep, InCall, CreationRefused, SaveNewParty
<1>2. ASSUME NEW c \in Conn, CleanupStep(c) PROVE UNCHANGED <<setting, overlap, drawn>>
  BY <1>2 DEF CleanupStep, InCall, CleanupEnds
<1>3. ASSUME NEW c \in Conn, ClientStep(c)
      PROVE  /\ setting' = setting /\ (overlap => overlap')
             /\ \A id \in PartyId : drawn[id] \subseteq drawn'[id]
  BY <1>3 DEF ClientStep, Connect, CreateParty, AskForParty, HandleConnectionClosed, ShapeInv, HistoryTypes
<1>4. CASE Restart
  BY <1>4 DEF Restart
<1>5. CASE UNCHANGED vars
  BY <1>5 DEF vars
<1> QED BY <1>1, <1>2, <1>3, <1>4, <1>5 DEF Next

LEMMA CollidedStays == ASSUME ShapeInv, [Next]_vars, ~Collided' PROVE ~Collided
BY HistoryGrows DEF Collided

LEMMA NextKeepsSingle ==
  ASSUME ShapeInv, SingleInv, [Next]_vars PROVE SingleInv'
<1>1. setting' = setting /\ (overlap => overlap')
  BY HistoryGrows
<1>2. ASSUME NEW c \in Conn, Connect(c) PROVE SingleInv'
  BY <1>2 DEF Connect, SingleInv, ShapeInv, HistoryTypes, Owner
<1>3. ASSUME \A c \in Conn : conn'[c] = "open" => conn[c] = "open" PROVE SingleInv'
  BY <1>1, <1>3 DEF SingleInv, Owner
<1>4. ASSUME NEW c \in Conn, HandleConnectionClosed(c) PROVE SingleInv'
  BY <1>3, <1>4 DEF HandleConnectionClosed, ShapeInv, HistoryTypes
<1>5. CASE Restart
  BY <1>3, <1>5 DEF Restart
<1> QED
  BY <1>2, <1>3, <1>4, <1>5
  DEF Next, HandlerStep, CleanupStep, ClientStep, vars, InCall, CreationRefused, SaveNewParty,
     SetReady, UpdateParty, UpdatePartyPlayer, SaveChanged, Respond, NoSuchMember, HandlerThrows,
     HandlerReturns, CleanupEnds, CreateParty, AskForParty

LEMMA NextKeepsHandlers ==
  ASSUME HandlersInv, [Next]_vars PROVE HandlersInv'
BY NextKeepsShape, NextKeepsOwn, NextKeepsRead, NextKeepsSingle DEF HandlersInv

LEMMA InitHandlers == Init => HandlersInv
<1> SUFFICES ASSUME Init PROVE HandlersInv
  OBVIOUS
<1>1. \A t \in Thread : call[t] = NoCall /\ ~Bears(call[t])
  BY NoCallBearsNothing DEF Init, DatabaseInit
<1>2. OwnInv
  BY <1>1, NoCallFacts DEF Init, DatabaseInit, OwnInv
<1>3. \A t \in Thread : ReadInv(call[t], rows)
  <2>1. ReadInv(NoCall, rows)
    BY DEF ReadInv, NoCall, Saves
  <2> QED BY <1>1, <2>1
<1>4. SingleInv
  BY DEF Init, SingleInv
<1> QED BY <1>2, <1>3, <1>4, InitShape DEF HandlersInv

\* What holds of the handlers and the table whatever fails, collides or overlaps
THEOREM HandlersInductive == Spec => []HandlersInv
BY InitHandlers, NextKeepsHandlers, PTL DEF Spec

-----------------------------------------------------------------------------
(* Nobody is left in a party *)

\* Where a call ends that meets no failing statement
LEMMA ProceedsToEnd ==
  ASSUME IInv, NEW t \in Thread, CallProceeds(t), call'[t].pc \in {"done", "failed"}
  PROVE  \/ call[t].pc = "unlock" /\ call[t].op \in {"get", "remove"} /\ UNCHANGED rows
         \/ call[t].pc = "saveMeta" /\ call[t].op = "save" /\ call'[t].pc = "done"
<1> DEFINE c == call[t]
<1>1. c \in Call /\ CallShape(c)
  BY DEF IInv, TypeOK
<1>2. ASSUME NEW d, Becomes(t, d) PROVE call'[t] = d
  BY <1>2, BecomesOne
<1>3. ASSUME NEW pc, Step(t, pc) PROVE call'[t].pc = pc
  BY <1>1, <1>2, <1>3 DEF Step, Call
<1>4. CASE UnlockAndReturn(t)
  BY <1>1, <1>4 DEF UnlockAndReturn, CallShape
<1>5. CASE SaveMeta(t)
  BY <1>1, <1>3, <1>5 DEF SaveMeta, CallShape, Saves
<1>6. CASE EnterAndLock(t) \/ NextParty(t)
  <2>1. \A d : Becomes(t, d) => call'[t] = d
    BY <1>2
  <2> QED BY <1>1, <1>3, <1>6, <2>1 DEF EnterAndLock, NextParty, Call
<1>7. CASE ReadMembers(t) \/ ReadExtras(t) \/ ReadMeta(t)
  <2>1. \A d : Becomes(t, d) => call'[t] = d
    BY <1>2
  <2>2. Absent(c).pc \in {"unlock", "delete"} /\ \A party : Stripping(c, party).pc = "strip"
    BY <1>1 DEF Absent, Stripping, Call
  <2> DEFINE row == rows[c.id]
             party == WithMeta(c.party, MetaOf(row))
  <2>3. CASE Becomes(t, Absent(c)) \/ Becomes(t, Stripping(c, party))
    BY <2>1, <2>2, <2>3
  <2> HIDE DEF party
  <2>4. ASSUME NEW q, NEW pc \in {"readExtras", "readMeta", "unlock"},
               Becomes(t, [c EXCEPT !.pc = pc, !.party = q])
        PROVE  call'[t].pc \notin {"done", "failed"}
    BY <1>1, <2>1, <2>4 DEF Call
  <2>5. CASE ReadMembers(t)
    BY <2>3, <2>4, <2>5 DEF ReadMembers
  <2>6. CASE ReadExtras(t)
    BY <1>3, <2>4, <2>6 DEF ReadExtras
  <2>7. CASE ReadMeta(t)
    BY <2>3, <2>4, <2>7 DEF ReadMeta, party
  <2> QED BY <1>7, <2>5, <2>6, <2>7
<1>8. CASE StripMember(t) \/ Stripped(t)
  <2>1. \A d : Becomes(t, d) => call'[t] = d
    BY <1>2
  <2> QED BY <1>1, <1>3, <1>8, <2>1 DEF StripMember, Stripped, Call
<1>9. CASE DeleteParty(t) \/ SaveMembers(t) \/ SaveExtras(t)
  BY <1>3, <1>9 DEF DeleteParty, SaveMembers, SaveExtras
<1> QED BY <1>4, <1>5, <1>6, <1>7, <1>8, <1>9 DEF CallProceeds

LEMMA SoleDrawer ==
  ASSUME ~Collided, NEW id \in PartyId, NEW p \in Drawers(id), NEW q \in Drawers(id)
  PROVE  p = q
BY DEF Collided, Drawers

\* Whose call saves or reads a party is one of a handler, of an open connection.
LEMMA HandlersCall ==
  ASSUME ShapeInv, NEW t \in Thread, call[t].op \in {"save", "get"}
  PROVE  \E c \in Conn : /\ t = Loop(c) /\ handler[c].op # "none" /\ conn[c] = "open"
                         /\ call[t].id = handler[c].id /\ handler[c].id \in PartyId
<1>1. PICK c \in Conn : t \in {Loop(c), Cleanup(c)}
  BY Threads
<1>2. t = Loop(c)
  BY <1>1, NoCallFacts DEF ShapeInv, CleanupShape
<1> QED BY <1>2, NoCallFacts DEF ShapeInv, LoopShape

LEMMA CallKeepsPresent ==
  ASSUME HandlersInv, PresentInv, ~setting.failures, ~Collided,
         NEW t \in Thread, CallProceeds(t), UNCHANGED <<setting, conn, handler, asked, drawn, overlap, shown>>,
         NEW p \in Player, NEW id \in PartyId, rows'[id] # NoRow, In(p, rows'[id].members)
  PROVE  \E c \in Conn : Owner(c) = p /\ (conn[c] = "open" \/ Cleaning(c)')
<1>1. CallStep(t) /\ ShapeInv /\ OwnInv /\ IInv /\ \A u \in Thread : ReadInv(call[u], rows)
  BY DEF CallStep, HandlersInv, ShapeInv
<1>2. CASE call[t].op = "save" /\ call[t].id = id /\ call[t].pc \in Saves /\ In(p, call[t].party.members)
  <2>1. PICK c \in Conn : handler[c].op # "none" /\ conn[c] = "open" /\ id = handler[c].id
    BY <1>1, <1>2, HandlersCall
  <2>2. p \in Drawers(id) /\ Owner(c) \in Drawers(id)
    BY <1>1, <1>2, <2>1 DEF OwnInv, Bears, MembersDrew
  <2> QED BY <2>1, <2>2, SoleDrawer
<1>3. CASE rows[id] # NoRow /\ In(p, rows[id].members)
  <2>1. PICK c \in Conn : Owner(c) = p /\ (conn[c] = "open" \/ Cleaning(c))
    BY <1>3 DEF PresentInv, InParty, In
  <2>2. CASE Cleaning(c) /\ t # Cleanup(c)
    <3>1. call'[Cleanup(c)] = call[Cleanup(c)]
      BY <1>1, <2>2, CallStepEffect, Threads
    <3> QED BY <2>1, <2>2, <3>1 DEF Cleaning
  <2>3. CASE Cleaning(c) /\ t = Cleanup(c)
    <3>1. call'[t].op = "remove" /\ call[t].op = "remove"
      BY <1>1, <2>3, CallStepEffect DEF Moves, Cleaning
    <3>2. CASE call'[t].pc \notin {"done", "failed"}
      BY <2>1, <2>3, <3>1, <3>2 DEF Cleaning
    <3>3. CASE call'[t].pc \in {"done", "failed"}
      <4>1. call[t].pc = "unlock" /\ UNCHANGED rows
        BY <1>1, <3>1, <3>3, ProceedsToEnd
      <4>2. call[t].who = p
        BY <1>1, <2>1, <2>3, <3>1, NoCallFacts DEF ShapeInv, CleanupShape
      <4>3. ~In(p, rows[id].members)
        BY <1>1, <1>3, <3>1, <4>1, <4>2, Implied DEF CleanupIsComplete, In
      <4> QED BY <1>3, <4>3
    <3> QED BY <3>2, <3>3
  <2> QED BY <2>1, <2>2, <2>3
<1> QED BY <1>1, <1>2, <1>3, WhoGetsIn

LEMMA NextKeepsPresent ==
  ASSUME HandlersInv, PresentInv, [Next]_vars PROVE PresentInv'
<1>1. ShapeInv /\ setting' = setting /\ (~Collided' => ~Collided)
  BY HistoryGrows, CollidedStays DEF HandlersInv
<1> SUFFICES ASSUME ~setting.failures, ~Collided, NEW p \in Player, NEW id \in PartyId,
                    rows'[id] # NoRow, In(p, rows'[id].members)
             PROVE  \E c \in Conn : Owner(c) = p /\ (conn'[c] = "open" \/ Cleaning(c)')
  BY <1>1 DEF PresentInv, InParty, In, Owner
<1>2. ASSUME NEW c \in Conn, InCall(Loop(c)) \/ InCall(Cleanup(c))
      PROVE  \E d \in Conn : Owner(d) = p /\ (conn'[d] = "open" \/ Cleaning(d)')
  BY <1>2, Threads, InCallIsACallStep, CallKeepsPresent
<1>3. ASSUME UNCHANGED rows,
             \A d \in Conn : \/ conn'[d] = conn[d] /\ (Cleaning(d) => Cleaning(d)')
                             \/ conn'[d] = "open"
                             \/ Cleaning(d)'
      PROVE  \E d \in Conn : Owner(d) = p /\ (conn'[d] = "open" \/ Cleaning(d)')
  BY <1>3 DEF PresentInv, InParty, In
<1>4. ASSUME NEW c \in Conn, NEW d, Turns(Loop(c), d), UNCHANGED conn
      PROVE  \E e \in Conn : Owner(e) = p /\ (conn'[e] = "open" \/ Cleaning(e)')
  <2>1. \A e \in Conn : call'[Cleanup(e)] = call[Cleanup(e)]
    BY <1>1, <1>4, BecomesOne, Threads DEF Turns, ShapeInv
  <2>2. \A e \in Conn : Cleaning(e) => Cleaning(e)'
    BY <2>1 DEF Cleaning
  <2> QED BY <1>3, <1>4, <2>2 DEF Turns
<1>5. ASSUME NEW c \in Conn,
             SaveNewParty(c) \/ AskForParty(c) \/ SetReady(c) \/ UpdateParty(c) \/ UpdatePartyPlayer(c)
               \/ Respond(c) \/ NoSuchMember(c) \/ HandlerThrows(c)
      PROVE  UNCHANGED conn /\ \E d : Turns(Loop(c), d)
  <2>1. ASSUME SetReady(c) \/ UpdateParty(c) \/ UpdatePartyPlayer(c)
        PROVE  UNCHANGED conn /\ \E d : Turns(Loop(c), d)
    BY <1>1, <2>1, Changing, OutsideTurns DEF SaveChanged
  <2>2. ASSUME Respond(c) \/ NoSuchMember(c) \/ HandlerThrows(c)
        PROVE  UNCHANGED conn /\ \E d : Turns(Loop(c), d)
    BY <1>1, <2>2, HandlerEnds, OutsideTurns DEF HandlerReturns
  <2> QED BY <1>1, <1>5, <2>1, <2>2, OutsideTurns DEF SaveNewParty, AskForParty
<1>6. ASSUME NEW c \in Conn, Connect(c) \/ CreateParty(c) \/ CreationRefused(c)
      PROVE  \E d \in Conn : Owner(d) = p /\ (conn'[d] = "open" \/ Cleaning(d)')
  <2>1. UNCHANGED <<rows, call>> /\ \A d \in Conn : conn'[d] = conn[d] \/ conn'[d] = "open"
    BY <1>1, <1>6 DEF Connect, CreateParty, CreationRefused, partyVars, ShapeInv, HistoryTypes
  <2> QED BY <1>3, <2>1 DEF Cleaning
<1>7. ASSUME NEW c \in Conn, HandleConnectionClosed(c)
      PROVE  \E d \in Conn : Owner(d) = p /\ (conn'[d] = "open" \/ Cleaning(d)')
  <2>1. PICK d : Turns(Cleanup(c), d) /\ d.op = "remove" /\ d.pc = "lock"
    BY <1>1, <1>7, OutsideTurns
  <2>2. call'[Cleanup(c)] = d /\ \A e \in Conn : e # c => call'[Cleanup(e)] = call[Cleanup(e)]
    BY <1>1, <2>1, BecomesOne, Threads DEF Turns, ShapeInv
  <2>3. Cleaning(c)' /\ \A e \in Conn : e # c => conn'[e] = conn[e] /\ (Cleaning(e) => Cleaning(e)')
    BY <1>1, <1>7, <2>1, <2>2 DEF Cleaning, HandleConnectionClosed, ShapeInv, HistoryTypes
  <2> QED BY <1>3, <2>1, <2>3 DEF Turns
<1>8. ASSUME NEW c \in Conn, CleanupEnds(c)
      PROVE  \E d \in Conn : Owner(d) = p /\ (conn'[d] = "open" \/ Cleaning(d)')
  <2>1. Turns(Cleanup(c), NoCall) /\ UNCHANGED conn /\ ~Cleaning(c)
    BY <1>1, <1>8, OutsideTurns DEF CleanupEnds, Return, Cleaning
  <2>2. \A e \in Conn : e # c => call'[Cleanup(e)] = call[Cleanup(e)]
    BY <1>1, <2>1, BecomesOne, Threads DEF Turns, ShapeInv
  <2>3. \A e \in Conn : conn'[e] = conn[e] /\ (Cleaning(e) => Cleaning(e)')
    BY <2>1, <2>2 DEF Cleaning
  <2> QED BY <1>3, <2>1, <2>3 DEF Turns
<1>9. CASE Restart
  BY <1>9 DEF Restart, ClearAllParties
<1>10. CASE UNCHANGED vars
  BY <1>3, <1>10 DEF vars, Cleaning
<1> QED
  BY <1>2, <1>4, <1>5, <1>6, <1>7, <1>8, <1>9, <1>10
  DEF Next, HandlerStep, CleanupStep, ClientStep

\* A player none of whose connections is open, and after whom every clean-up has run to its
\* end, is in no party: no save of a handler that read a party earlier, and no clean-up that
\* wrote back what it had read, has put him there again.
THEOREM NoGhostMembersHolds == Spec => []NoGhostMembers
<1>1. Init => PresentInv
  BY DEF Init, DatabaseInit, PresentInv, InParty
<1>2. HandlersInv /\ PresentInv /\ [Next]_vars => PresentInv'
  BY NextKeepsPresent
<1>3. PresentInv => NoGhostMembers
  BY NoCallFacts DEF PresentInv, NoGhostMembers, Cleaning
<1> QED BY <1>1, <1>2, <1>3, HandlersInductive, PTL DEF Spec

-----------------------------------------------------------------------------
(* Versions name contents *)

LEMMA CalmStays == ASSUME ShapeInv, [Next]_vars, Calm' PROVE Calm
BY HistoryGrows, CollidedStays DEF Calm

\* With one session at a time and no collision, no two handlers are about the same party.
LEMMA HandlerUnique ==
  ASSUME HandlersInv, Calm, NEW c \in Conn, NEW d \in Conn,
         handler[c].op # "none", handler[d].op # "none", handler[c].id = handler[d].id
  PROVE  c = d
<1>1. handler[c].id \in PartyId /\ conn[c] = "open" /\ conn[d] = "open"
  BY DEF HandlersInv, ShapeInv, LoopShape
<1>2. Owner(c) = Owner(d)
  BY <1>1, SoleDrawer DEF HandlersInv, OwnInv, Calm
<1> QED BY <1>1, <1>2 DEF HandlersInv, SingleInv, Calm

\* Loop threads' calls are of their handlers.
LEMMA LoopCalls ==
  ASSUME HandlersInv, NEW c \in Conn, call[Loop(c)].op # "none"
  PROVE  /\ handler[c].op # "none" /\ call[Loop(c)].id = handler[c].id /\ handler[c].id \in PartyId
         /\ call[Loop(c)].op \in {"get", "save"}
BY NoCallFacts DEF HandlersInv, ShapeInv, LoopShape

\* Steps that leave the table and what has been shown, and begin no save's second statement
LEMMA SameRowsKeepVersion ==
  ASSUME HandlersInv, VersionInv, Calm, UNCHANGED <<rows, shown>>,
         \A c \in Conn :
           /\ \/ call'[Loop(c)] = call[Loop(c)]
              \/ /\ call[Loop(c)].pc \notin {"saveExtras", "saveMeta"}
                 /\ call'[Loop(c)].pc \notin {"saveExtras", "saveMeta"}
                 /\ LoopContents(call'[Loop(c)], rows, Told)
           /\ handler'[c].op = "CreateParty" /\ call'[Loop(c)].op = "none" =>
                \A s \in Told : s.id # handler'[c].id
  PROVE  VersionInv'
<1>1. Told' = Told
  BY DEF Told
<1>2. NamesContents'
  BY <1>1 DEF VersionInv, NamesContents
<1>3. \A c \in Conn, id \in PartyId : Midway(call'[Loop(c)], id) <=> Midway(call[Loop(c)], id)
  BY DEF Midway
<1>4. RowsNewest'
  BY <1>1, <1>3 DEF VersionInv, RowsNewest
<1>5. LoopsContents'
  BY <1>1 DEF VersionInv, LoopsContents, Drawing
<1> QED BY <1>2, <1>4, <1>5 DEF VersionInv

LEMMA NoCallContents ==
  ASSUME NEW table, NEW told PROVE LoopContents(NoCall, table, told)
BY DEF LoopContents, NoCall

\* Reading leaves the table, and what has been read is as new as the table is.
LEMMA GetKeepsVersion ==
  ASSUME HandlersInv, VersionInv, Calm, NEW c \in Conn, CallProceeds(Loop(c)),
         call[Loop(c)].op = "get",
         UNCHANGED <<setting, conn, handler, asked, drawn, overlap, shown>>
  PROVE  VersionInv'
<1> DEFINE t == Loop(c)
           k == call[t]
           d == call'[t]
<1>1. t \in Thread /\ IInv /\ CallStep(t) /\ ReadInv(k, rows) /\ CallShape(k) /\ k.op = "get"
  BY Threads DEF HandlersInv, ShapeInv, IInv, CallStep
<1>2. Moves(k, d) /\ Effect(k, d) /\ \A u \in Thread \ {t} : call'[u] = call[u]
  BY <1>1, CallStepEffect
<1>3. k.id \in PartyId
  BY <1>1, LoopCalls
<1>4. k.pc \notin Saves \union {"strip", "delete"}
  BY <1>1 DEF CallShape
<1>5. k.pc = "readMeta" => \A e \in Conn : ~Midway(call[Loop(e)], k.id)
  <2> SUFFICES ASSUME k.pc = "readMeta", NEW e \in Conn, Midway(call[Loop(e)], k.id) PROVE FALSE
    OBVIOUS
  <2>1. Alone(t)
    BY <1>1, AloneInside, ReadersHold DEF Reads
  <2>2. Loop(e) \in Thread /\ Loop(e) # t /\ Held(call[Loop(e)])
    BY <1>1, Threads DEF Midway, Held, HeldOnce
  <2> QED BY <2>1, <2>2 DEF Alone
<1>6. LoopContents(k, rows, Told) /\ RowsNewest
  BY DEF VersionInv, LoopsContents
<1> HIDE DEF k, d, t
<1>7. UNCHANGED rows
  BY <1>2, <1>4
  DEF Effect, Empties, Fetches, FetchesExtras, FetchesMeta, Delivers, Strips, HandsOn, Deletes,
      WritesMembers, WritesExtras, WritesMeta, Saves
<1>8. d.op = "get" /\ d.id = k.id /\ d.pc \notin Saves
  BY <1>1, <1>2 DEF Moves, Reads, Saves
<1>9. LoopContents(d, rows, Told)
  <2> SUFFICES ASSUME d.pc \in {"unlock", "done"}, Bears(d)
               PROVE  /\ Newest(Told, d.id, d.party.ext, d.party.version)
                      /\ d.pc = "done" /\ rows[d.id] # NoRow => SameContents(d.party, rows[d.id])
    BY <1>8 DEF LoopContents, Bears
  <2>1. CASE FetchesMeta(k, d)
    <3>1. d.pc = "unlock" /\ k.pc = "readMeta" /\ rows[k.id] # NoRow
          /\ d.party.ext = ReadExt(rows[k.id]) /\ d.party.version = MetaOf(rows[k.id]).version
      BY <1>1, <2>1 DEF FetchesMeta, ReadInv
    <3> QED BY <1>3, <1>5, <1>6, <1>8, <3>1 DEF RowsNewest, t, k
  <2>2. CASE Delivers(k, d)
    BY <1>1, <1>6, <1>8, <2>2 DEF Delivers, LoopContents, ReadInv
  <2>3. FetchesMeta(k, d) \/ Delivers(k, d)
    BY <1>2, <1>4
    DEF Effect, Empties, Fetches, FetchesExtras, FetchesMeta, Delivers, Strips, HandsOn, Deletes,
        WritesMembers, WritesExtras, WritesMeta, Saves
  <2> QED BY <2>1, <2>2, <2>3
<1>10. \A e \in Conn : e # c => call'[Loop(e)] = call[Loop(e)]
  BY <1>2, Threads DEF t
<1>11. \A e \in Conn : call'[Loop(e)].op = call[Loop(e)].op
  BY <1>1, <1>8, <1>10 DEF d, k, t
<1>12. k.pc \notin {"saveExtras", "saveMeta"} /\ d.pc \notin {"saveExtras", "saveMeta"}
  BY <1>4, <1>8 DEF Saves
<1>13. \A e \in Conn : handler'[e].op = "CreateParty" /\ call'[Loop(e)].op = "none" =>
         \A s \in Told : s.id # handler'[e].id
  BY <1>11 DEF VersionInv, LoopsContents, Drawing
<1> QED BY <1>7, <1>9, <1>10, <1>12, <1>13, SameRowsKeepVersion DEF k, d, t

\* A handler's save, statement by statement: only its own party's row changes.
LEMMA SaveKeepsVersion ==
  ASSUME HandlersInv, VersionInv, Calm, NEW c \in Conn, CallProceeds(Loop(c)),
         call[Loop(c)].op = "save",
         UNCHANGED <<setting, conn, handler, asked, drawn, overlap, shown>>
  PROVE  VersionInv'
<1> DEFINE t == Loop(c)
           k == call[t]
           d == call'[t]
<1>1. t \in Thread /\ IInv /\ CallStep(t) /\ CallShape(k) /\ k.op = "save" /\ k.id \in PartyId
      /\ rows \in [PartyId -> Row \union {NoRow}]
  BY Threads, LoopCalls DEF HandlersInv, ShapeInv, IInv, TypeOK, CallStep
<1>2. Moves(k, d) /\ Effect(k, d) /\ \A u \in Thread \ {t} : call'[u] = call[u]
  BY <1>1, CallStepEffect
<1>3. LoopContents(k, rows, Told) /\ RowsNewest /\ LoopsContents /\ NamesContents
  BY DEF VersionInv, LoopsContents
<1>4. d.pc # "failed"
  BY <1>1, ProceedsToEnd
<1>5. d.op = "save" /\ d.id = k.id /\ d.party = k.party
      /\ d.pc \in {"saveExtras", "saveMeta", "done"}
  BY <1>1, <1>2, <1>4 DEF Moves
<1>6. \A e \in Conn : e # c => call'[Loop(e)] = call[Loop(e)]
  BY <1>2, Threads
<1>7. Told' = Told
  BY DEF Told
<1>8. \A e \in Conn : e # c /\ call[Loop(e)].op # "none" => call[Loop(e)].id \in PartyId /\ call[Loop(e)].id # k.id
  BY <1>1, LoopCalls, HandlerUnique
<1> HIDE DEF k, d, t
<1>9. PICK row : /\ Writes(k, d, row)
                 /\ \/ k.pc = "saveMembers" /\ d.pc = "saveExtras"
                    \/ k.pc = "saveExtras" /\ d.pc = "saveMeta" /\ row.ext = k.party.ext
                    \/ /\ k.pc = "saveMeta" /\ d.pc = "done"
                       /\ row.ext = rows[k.id].ext
                       /\ row.meta = [code |-> k.party.code, version |-> k.party.version]
  <2>1. WritesMembers(k, d) \/ WritesExtras(k, d) \/ WritesMeta(k, d)
    BY <1>1, <1>2, <1>5
    DEF Effect, Empties, Fetches, FetchesExtras, FetchesMeta, Delivers, Strips, HandsOn, Deletes,
        Bears, Saves
  <2> QED BY <1>1, <2>1 DEF WritesMembers, WritesExtras, WritesMeta
<1>10. \A id \in PartyId : rows'[id] = IF id = k.id THEN row ELSE rows[id]
  BY <1>1, <1>9 DEF Writes
<1>11. k.party.ext # Null /\ [code |-> k.party.code, version |-> k.party.version] # Null
  BY <1>9, PartyAssumption DEF Writes, Party
<1>12. Newest(Told, k.id, k.party.ext, k.party.version)
  BY <1>1, <1>3 DEF LoopContents
<1>13. d.pc = "saveMeta" => ReadExt(row) = k.party.ext
  BY <1>9, <1>11 DEF ReadExt
<1>14. d.pc = "done" => SameContents(k.party, row)
  BY <1>1, <1>3, <1>9, <1>11 DEF LoopContents, SameContents, ReadExt, MetaOf
<1>15. LoopContents(d, rows', Told)
  BY <1>1, <1>5, <1>10, <1>12, <1>13, <1>14 DEF LoopContents
<1>16. LoopsContents'
  <2> SUFFICES ASSUME NEW e \in Conn
               PROVE  /\ LoopContents(call'[Loop(e)], rows', Told)
                      /\ handler'[e].op = "CreateParty" /\ call'[Loop(e)].op = "none" =>
                           \A s \in Told : s.id # handler'[e].id
    BY <1>7 DEF LoopsContents, Drawing
  <2>1. CASE e = c
    BY <1>5, <1>15, <2>1 DEF d, t
  <2>2. CASE e # c /\ call[Loop(e)].op = "none"
    <3>1. call'[Loop(e)] = NoCall /\ call[Loop(e)] = NoCall
      BY <1>6, <2>2 DEF HandlersInv, ShapeInv, LoopShape
    <3> QED BY <1>3, <2>2, <3>1, NoCallContents DEF LoopsContents, Drawing
  <2>3. CASE e # c /\ call[Loop(e)].op # "none"
    <3>1. call'[Loop(e)] = call[Loop(e)] /\ rows'[call[Loop(e)].id] = rows[call[Loop(e)].id]
      BY <1>6, <1>8, <1>10, <2>3
    <3> QED BY <1>3, <2>3, <3>1 DEF LoopsContents, LoopContents
  <2> QED BY <2>1, <2>2, <2>3
<1>17. RowsNewest'
  <2> SUFFICES ASSUME NEW id \in PartyId, rows'[id] # NoRow,
                      \A e \in Conn : ~Midway(call'[Loop(e)], id)
               PROVE  Newest(Told, id, ReadExt(rows'[id]), MetaOf(rows'[id]).version)
    BY <1>7 DEF RowsNewest
  <2>1. CASE id = k.id
    <3>1. d.pc = "done"
      BY <1>5, <2>1 DEF Midway, d, t
    <3> QED BY <1>10, <1>12, <1>14, <2>1, <3>1 DEF SameContents
  <2>2. CASE id # k.id
    <3>1. \A e \in Conn : ~Midway(call[Loop(e)], id)
      <4> SUFFICES ASSUME NEW e \in Conn, Midway(call[Loop(e)], id) PROVE FALSE
        OBVIOUS
      <4> QED BY <1>6, <2>2 DEF Midway, k, t
    <3> QED BY <1>3, <1>10, <2>2, <3>1 DEF RowsNewest
  <2> QED BY <2>1, <2>2
<1> QED BY <1>3, <1>7, <1>16, <1>17 DEF VersionInv, NamesContents

\* What a clean-up deletes or writes back leaves every other row's contents and their version.
LEMMA CleanupKeepsVersion ==
  ASSUME HandlersInv, VersionInv, Calm, NEW c \in Conn, CallProceeds(Cleanup(c)),
         UNCHANGED <<setting, conn, handler, asked, drawn, overlap, shown>>
  PROVE  VersionInv'
<1> DEFINE t == Cleanup(c)
<1>1. t \in Thread /\ IInv /\ CallStep(t) /\ call[t].op # "save"
      /\ \A u \in Thread : ReadInv(call[u], rows)
  BY Threads, NoCallFacts DEF HandlersInv, ShapeInv, CallStep, CleanupShape
<1>2. IInv'
  BY <1>1, CallStepPreserves
<1>3. \A e \in Conn : call'[Loop(e)] = call[Loop(e)]
  BY <1>1, CallStepEffect, Threads
<1>4. \A id \in PartyId : rows'[id] # NoRow =>
        /\ rows[id] # NoRow
        /\ ReadExt(rows'[id]) = ReadExt(rows[id])
        /\ MetaOf(rows'[id]).version = MetaOf(rows[id]).version
  BY <1>1, ContentsKept
<1>5. Told' = Told
  BY DEF Told
<1>6. NamesContents' /\ RowsNewest'
  BY <1>3, <1>4, <1>5 DEF VersionInv, NamesContents, RowsNewest
<1>7. LoopsContents'
  <2> SUFFICES ASSUME NEW e \in Conn
               PROVE  LoopContents(call[Loop(e)], rows', Told)
    BY <1>3, <1>5 DEF LoopsContents, Drawing, VersionInv
  <2> DEFINE k == call[Loop(e)]
  <2>1. LoopContents(k, rows, Told)
    BY DEF VersionInv, LoopsContents
  <2>2. CASE k.op = "none"
    BY <2>2, NoCallContents DEF HandlersInv, ShapeInv, LoopShape
  <2>3. CASE k.op # "none"
    <3>1. k.id \in PartyId
      BY <2>3, LoopCalls
    <3>2. k.pc = "saveMeta" => rows'[k.id] # NoRow
      BY <1>2, <1>3, Threads DEF IInv, RowsInv
    <3> QED BY <1>4, <2>1, <3>1, <3>2 DEF LoopContents, SameContents
  <2> QED BY <2>2, <2>3
<1> QED BY <1>6, <1>7 DEF VersionInv

\* The response shows what the row holds, if it is still there.
LEMMA RespondKeepsVersion ==
  ASSUME HandlersInv, VersionInv, Calm, NEW c \in Conn, Respond(c)
  PROVE  VersionInv'
<1> DEFINE k == call[Loop(c)]
           id == handler[c].id
           s == [id |-> id, ext |-> k.party.ext, version |-> k.party.version]
<1>1. k.pc = "done" /\ k.op \in {"save", "get"} /\ k.id = id /\ id \in PartyId /\ handler[c].op # "none"
  <2>1. k.pc = "done"
    BY DEF Respond
  <2>2. k.op # "none"
    BY <2>1, NoCallFacts DEF HandlersInv, ShapeInv, LoopShape
  <2> QED BY <2>1, <2>2, LoopCalls
<1>2. Turns(Loop(c), NoCall) /\ UNCHANGED <<rows, setting>>
      /\ handler' = [handler EXCEPT ![c] = NoHandler]
  BY OutsideTurns DEF Respond, HandlerReturns, Turns, HandlersInv
<1>3. call'[Loop(c)] = NoCall /\ \A e \in Conn : e # c => call'[Loop(e)] = call[Loop(e)]
  BY <1>2, BecomesOne, Threads DEF Turns, HandlersInv, ShapeInv
<1>4. LoopContents(k, rows, Told) /\ NamesContents /\ RowsNewest /\ LoopsContents
  BY DEF VersionInv, LoopsContents
<1>5. Newest(Told, id, k.party.ext, k.party.version)
  BY <1>1, <1>4 DEF LoopContents, Bears
<1>6. rows[id] # NoRow => SameContents(k.party, rows[id])
  BY <1>1, <1>4 DEF LoopContents
<1>7. Told' = Told \union {s}
  <2>1. Owner(c) \in Player /\ DOMAIN shown = Player /\ shown' = [shown EXCEPT ![Owner(c)] = @ \union {s}]
    BY SettingTypes DEF Respond, HandlersInv, ShapeInv, HistoryTypes
  <2> HIDE DEF s
  <2> QED BY <2>1 DEF Told
<1>8. s.id = id /\ s.ext = k.party.ext /\ s.version = k.party.version /\ s.version \in Nat
  <2>1. k.party \in Party
    BY <1>1 DEF HandlersInv, ShapeInv, LoopShape
  <2> QED BY <2>1 DEF Party
<1>9. \A u \in Told : u.version \in Nat
  BY DEF Told, HandlersInv, ShapeInv, HistoryTypes
<1>10. \A e \in Conn : e # c /\ handler[e].op # "none" => handler[e].id # id
  BY <1>1, HandlerUnique
<1> HIDE DEF s, k, id
<1>11. NamesContents'
  <2>1. \A u \in Told : u.id = id /\ u.version = s.version => u.ext = s.ext
    BY <1>5, <1>8, <1>9 DEF Newest, Follows
  <2> QED BY <1>4, <1>7, <1>8, <2>1 DEF NamesContents
<1>12. RowsNewest'
  <2> SUFFICES ASSUME NEW g \in PartyId, rows[g] # NoRow, \A e \in Conn : ~Midway(call'[Loop(e)], g)
               PROVE  Newest(Told \union {s}, g, ReadExt(rows[g]), MetaOf(rows[g]).version)
    BY <1>2, <1>7 DEF RowsNewest
  <2>1. \A e \in Conn : ~Midway(call[Loop(e)], g)
    BY <1>1, <1>3 DEF Midway, k
  <2>2. Newest(Told, g, ReadExt(rows[g]), MetaOf(rows[g]).version)
    BY <1>4, <2>1 DEF RowsNewest
  <2>3. g = id => Follows(ReadExt(rows[g]), MetaOf(rows[g]).version, s)
    BY <1>6, <1>8 DEF SameContents, Follows
  <2> QED BY <1>8, <2>2, <2>3 DEF Newest
<1>13. LoopsContents'
  <2> SUFFICES ASSUME NEW e \in Conn
               PROVE  /\ LoopContents(call'[Loop(e)], rows, Told \union {s})
                      /\ handler'[e].op = "CreateParty" /\ call'[Loop(e)].op = "none" =>
                           \A u \in Told \union {s} : u.id # handler'[e].id
    BY <1>2, <1>7 DEF LoopsContents, Drawing
  <2>1. CASE e = c
    <3>1. handler'[e].op = "none"
      BY <1>2, <2>1, NoCallFacts DEF HandlersInv, ShapeInv, HistoryTypes
    <3> QED BY <1>3, <2>1, <3>1, NoCallContents
  <2>2. CASE e # c
    <3>1. call'[Loop(e)] = call[Loop(e)] /\ handler'[e] = handler[e]
      BY <1>2, <1>3, <2>2 DEF HandlersInv, ShapeInv, HistoryTypes
    <3>2. LoopContents(call[Loop(e)], rows, Told)
      BY <1>4 DEF LoopsContents
    <3>3. CASE call[Loop(e)].op = "none"
      <4>1. LoopContents(call[Loop(e)], rows, Told \union {s})
        BY <3>3, NoCallContents DEF HandlersInv, ShapeInv, LoopShape
      <4>2. handler[e].op = "CreateParty" => \A u \in Told \union {s} : u.id # handler[e].id
        BY <1>4, <1>8, <1>10, <2>2, <3>3 DEF LoopsContents, Drawing
      <4> QED BY <3>1, <4>1, <4>2
    <3>4. CASE call[Loop(e)].op # "none"
      <4>1. call[Loop(e)].id # id
        BY <1>10, <2>2, <3>4, LoopCalls
      <4>2. LoopContents(call[Loop(e)], rows, Told \union {s})
        BY <1>8, <3>2, <4>1 DEF LoopContents, Newest
      <4> QED BY <3>1, <3>4, <4>2
    <3> QED BY <3>3, <3>4
  <2> QED BY <2>1, <2>2
<1> QED BY <1>11, <1>12, <1>13 DEF VersionInv

LEMMA NextKeepsVersion ==
  ASSUME HandlersInv, VersionInv, [Next]_vars, Calm' PROVE VersionInv'
<1>1. Calm /\ ShapeInv /\ IInv /\ LoopsContents /\ ~setting.failures
  BY CalmStays DEF HandlersInv, ShapeInv, VersionInv, Calm
<1>2. \A c \in Conn : call[Loop(c)].op = "none" => call[Loop(c)] = NoCall
  BY <1>1 DEF ShapeInv, LoopShape
<1>3. ASSUME NEW t \in Thread, InCall(t) PROVE VersionInv'
  <2>1. CallProceeds(t) /\ UNCHANGED <<setting, conn, handler, asked, drawn, overlap, shown>>
    BY <1>1, <1>3, InCallIsACallStep
  <2>2. PICK c \in Conn : t \in {Loop(c), Cleanup(c)}
    BY Threads
  <2>3. CASE t = Cleanup(c)
    BY <1>1, <2>1, <2>3, CleanupKeepsVersion
  <2>4. CASE t = Loop(c)
    <3>1. call[t] # NoCall
      BY <2>1, NoCallFacts
      DEF CallProceeds, EnterAndLock, NextParty, UnlockAndReturn, ReadMembers, ReadExtras, ReadMeta,
          StripMember, Stripped, DeleteParty, SaveMembers, SaveExtras, SaveMeta
    <3>2. call[t].op \in {"get", "save"}
      BY <1>2, <2>4, <3>1, LoopCalls
    <3> QED BY <1>1, <2>1, <2>4, <3>2, GetKeepsVersion, SaveKeepsVersion
  <2> QED BY <2>2, <2>3, <2>4
<1>4. ASSUME UNCHANGED <<rows, shown>>, NEW c \in Conn, NEW d, Turns(Loop(c), d),
             d.pc \notin {"saveExtras", "saveMeta"}, LoopContents(d, rows, Told),
             \A e \in Conn : e # c => handler'[e] = handler[e],
             d.op # "none" \/ handler'[c].op = "none"
      PROVE  VersionInv'
  <2>1. call'[Loop(c)] = d /\ \A e \in Conn : e # c => call'[Loop(e)] = call[Loop(e)]
    BY <1>1, <1>4, BecomesOne, Threads DEF Turns
  <2>2. \A e \in Conn : handler'[e].op = "CreateParty" /\ call'[Loop(e)].op = "none" =>
          \A s \in Told : s.id # handler'[e].id
    BY <1>1, <1>4, <2>1 DEF LoopsContents, Drawing
  <2>3. call[Loop(c)].pc \notin {"saveExtras", "saveMeta"}
    BY <1>4 DEF Turns
  <2> QED BY <1>1, <1>4, <2>1, <2>2, <2>3, SameRowsKeepVersion
<1>5. ASSUME UNCHANGED <<rows, shown>>, \A e \in Conn : call'[Loop(e)] = call[Loop(e)],
             \A e \in Conn : \/ handler'[e] = handler[e]
                             \/ handler'[e].op = "none"
                             \/ \A s \in Told : s.id # handler'[e].id
      PROVE  VersionInv'
  <2>1. \A e \in Conn : handler'[e].op = "CreateParty" /\ call'[Loop(e)].op = "none" =>
          \A s \in Told : s.id # handler'[e].id
    BY <1>1, <1>5 DEF LoopsContents, Drawing
  <2> QED BY <1>1, <1>5, <2>1, SameRowsKeepVersion
<1>6. ASSUME NEW c \in Conn, SaveNewParty(c) PROVE VersionInv'
  <2>1. PICK d \in Call, code \in setting.codes :
          Turns(Loop(c), d) /\ Presents(d, handler[c].id, NewParty(c, code))
    BY <1>1, <1>6, OutsideTurns
  <2>2. LoopContents(d, rows, Told)
    BY <1>1, <1>6, <2>1 DEF LoopContents, Presents, LoopsContents, Newest, SaveNewParty
  <2>3. UNCHANGED <<rows, shown, handler>>
    BY <1>6, <2>1 DEF SaveNewParty, Turns
  <2> QED BY <1>4, <2>1, <2>2, <2>3 DEF Presents
<1>7. ASSUME NEW c \in Conn, SetReady(c) \/ UpdateParty(c) \/ UpdatePartyPlayer(c) PROVE VersionInv'
  <2> DEFINE read == call[Loop(c)].party
  <2>1. PICK party \in Party : SaveChanged(c, party) /\ Changed(read, party)
    BY <1>1, <1>7, Changing
  <2>2. PartyIsRead(c)
    BY <1>1, <1>7, Changing
  <2>3. PICK d \in Call : Turns(Loop(c), d) /\ Presents(d, handler[c].id, party)
    BY <1>1, <2>1, <2>2, OutsideTurns
  <2>4. call[Loop(c)].id = handler[c].id /\ Bears(call[Loop(c)]) /\ read \in Party
    BY <1>1, <2>2, NoCallFacts DEF PartyIsRead, ShapeInv, LoopShape, Bears
  <2>5. Newest(Told, handler[c].id, read.ext, read.version)
    BY <1>1, <2>2, <2>4 DEF LoopsContents, LoopContents, PartyIsRead
  <2>6. \A u \in Told : u.version \in Nat
    BY <1>1 DEF Told, ShapeInv, HistoryTypes
  <2>7. read.version \in Nat /\ party.version \in Nat
    BY <2>4 DEF Party
  <2> HIDE DEF read
  <2>8. Newest(Told, handler[c].id, party.ext, party.version)
    BY <2>1, <2>5, <2>6, <2>7 DEF Newest, Follows, Changed
  <2>9. LoopContents(d, rows, Told)
    BY <2>3, <2>8 DEF LoopContents, Presents
  <2>10. UNCHANGED <<rows, shown, handler>>
    BY <2>1 DEF SaveChanged
  <2> QED BY <1>4, <2>3, <2>9, <2>10 DEF Presents
<1>8. ASSUME NEW c \in Conn, AskForParty(c) PROVE VersionInv'
  <2>1. PICK d \in Call : Turns(Loop(c), d) /\ d.op = "get" /\ d.pc = "lock"
    BY <1>1, <1>8, OutsideTurns
  <2>2. LoopContents(d, rows, Told)
    BY <2>1 DEF LoopContents
  <2>3. UNCHANGED <<rows, shown>> /\ \A e \in Conn : e # c => handler'[e] = handler[e]
    BY <1>1, <1>8, <2>1 DEF AskForParty, Receiving, Turns, ShapeInv, HistoryTypes
  <2> QED BY <1>4, <2>1, <2>2, <2>3
<1>9. ASSUME NEW c \in Conn, NoSuchMember(c) \/ HandlerThrows(c) PROVE VersionInv'
  <2>1. HandlerReturns(c) /\ Turns(Loop(c), NoCall)
    BY <1>1, <1>9, HandlerEnds, OutsideTurns
  <2>2. /\ UNCHANGED <<rows, shown>> /\ \A e \in Conn : e # c => handler'[e] = handler[e]
        /\ handler'[c].op = "none"
    BY <1>1, <1>9, <2>1, NoCallFacts
    DEF NoSuchMember, HandlerThrows, HandlerReturns, Turns, ShapeInv, HistoryTypes
  <2> QED BY <1>4, <2>1, <2>2, NoCallFacts, NoCallContents
<1>10. ASSUME NEW c \in Conn, HandleConnectionClosed(c) \/ CleanupEnds(c) PROVE VersionInv'
  <2>1. PICK d : Turns(Cleanup(c), d)
    BY <1>1, <1>10, OutsideTurns
  <2>2. \A e \in Conn : call'[Loop(e)] = call[Loop(e)]
    BY <1>1, <2>1, BecomesOne, Threads DEF Turns
  <2>3. UNCHANGED <<rows, shown, handler>>
    BY <1>10, <2>1 DEF HandleConnectionClosed, CleanupEnds, Turns
  <2> QED BY <1>5, <2>2, <2>3
<1>11. ASSUME NEW c \in Conn, CreateParty(c) PROVE VersionInv'
  <2>1. PICK id \in PartyId : /\ NewPartyId(id)
                              /\ drawn' = [drawn EXCEPT ![id] = @ \union {c}]
                              /\ Receiving(c, "CreateParty", id)
    BY <1>11 DEF CreateParty
  <2>2. c \in drawn'[id] /\ drawn[id] \subseteq drawn'[id]
    BY <1>1, <2>1 DEF ShapeInv, HistoryTypes
  <2>3. drawn[id] = {}
    <3> SUFFICES ASSUME NEW e \in Conn, Drawing(e), handler[e].id = id PROVE FALSE
      BY <2>1 DEF NewPartyId
    <3>1. e \in drawn[id] /\ e # c
      BY <2>1, NoCallFacts DEF Drawing, Receiving, HandlersInv, OwnInv
    <3> QED BY <2>2, <3>1 DEF Calm, Collided
  <2>4. \A s \in Told : s.id # id
    BY <2>3 DEF Told, HandlersInv, OwnInv, Drawers
  <2>5. \A e \in Conn : handler'[e] = handler[e] \/ handler'[e].id = id
    BY <1>1, <2>1 DEF Receiving, ShapeInv, HistoryTypes
  <2> QED BY <1>5, <1>11, <2>4, <2>5 DEF CreateParty, partyVars
<1>12. ASSUME NEW c \in Conn, Connect(c) \/ CreationRefused(c) PROVE VersionInv'
  <2>1. \A e \in Conn : handler'[e] = handler[e] \/ handler'[e].op = "none"
    BY <1>1, <1>12, NoCallFacts DEF Connect, CreationRefused, ShapeInv, HistoryTypes
  <2>2. UNCHANGED <<rows, call, shown>>
    BY <1>12 DEF Connect, CreationRefused, partyVars
  <2> QED BY <1>5, <2>1, <2>2
<1>13. CASE Restart
  <2>1. Told' = Told /\ (\A id \in PartyId : rows'[id] = NoRow)
        /\ \A c \in Conn : call'[Loop(c)] = NoCall /\ handler'[c] = NoHandler
    BY <1>13, Threads DEF Restart, ClearAllParties, Told
  <2>2. NamesContents' /\ RowsNewest'
    BY <1>1, <2>1 DEF NamesContents, RowsNewest, VersionInv
  <2>3. LoopsContents'
    BY <2>1, NoCallContents, NoCallFacts DEF LoopsContents, Drawing
  <2> QED BY <2>2, <2>3 DEF VersionInv
<1>14. CASE UNCHANGED vars
  BY <1>5, <1>14 DEF vars
<1> QED
  BY <1>1, <1>3, <1>6, <1>7, <1>8, <1>9, <1>10, <1>11, <1>12, <1>13, <1>14, Threads,
     RespondKeepsVersion
  DEF Next, HandlerStep, CleanupStep, ClientStep

\* While every statement succeeds, every player has one session at a time and no two creations
\* draw one id, two responses that show the same version of a party show the same broadcast
\* contents: nobody changes the contents without the version, and nobody puts back a version
\* that has been shown with other contents.
THEOREM VersionNamesContentsHolds == Spec => []VersionNamesContents
<1>1. Init => VersionInv
  <2> SUFFICES ASSUME Init PROVE VersionInv
    OBVIOUS
  <2>1. Told = {}
    BY DEF Init, Told
  <2>2. \A c \in Conn : call[Loop(c)] = NoCall /\ handler[c] = NoHandler
    BY Threads DEF Init, DatabaseInit
  <2>3. \A id \in PartyId : rows[id] = NoRow
    BY DEF Init, DatabaseInit
  <2>4. LoopsContents
    BY <2>1, <2>2, NoCallContents DEF LoopsContents
  <2> QED BY <2>1, <2>3, <2>4 DEF VersionInv, NamesContents, RowsNewest
<1>2. HandlersInv /\ VersionInv /\ [Next]_vars => VersionInv'
  <2>1. HandlersInv /\ VersionInv /\ [Next]_vars /\ Calm' => VersionInv'
    BY NextKeepsVersion
  <2>2. ~Calm' => VersionInv'
    BY DEF VersionInv
  <2> QED BY <2>1, <2>2
<1>3. VersionInv => VersionNamesContents
  BY DEF VersionInv, VersionNamesContents, Calm, NamesContents, Told
<1> QED BY <1>1, <1>2, <1>3, HandlersInductive, PTL DEF Spec
=============================================================================
