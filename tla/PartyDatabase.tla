---------------------------- MODULE PartyDatabase ----------------------------
(***************************************************************************)
(* The parties table and its operations, statement by statement:           *)
(* Persistence/Implementation/PartyDatabase.cpp.                           *)
(*                                                                         *)
(* Event loop threads and the detached clean-up thread of every closed     *)
(* websocket call SaveParty, GetPartyRes and RemovePlayerFromParties.  No  *)
(* operation is a transaction: each column is read and written by a        *)
(* statement of its own, and only the recursive dbMutex keeps the          *)
(* statements of two operations apart.                                     *)
(***************************************************************************)
EXTENDS Integers, Sequences

CONSTANTS Thread, Player, PartyId, Ext, Code,
          NoThread, NoId, NoPlayer, NoParty, NoRow, Null,
          DefaultExt,        \* what an unset extraBroadcastInfo column reads as
          NoCode,            \* what an unset PartyCode column reads as
          MayFail            \* may a statement throw?

VARIABLES
  rows,     \* the parties table; a column is Null until its first statement
  mutex,    \* dbMutex: its owner and how often he holds it
  call      \* what each thread is doing in this class, with its locals

partyVars == <<rows, mutex, call>>

-----------------------------------------------------------------------------
Member == [player : Player, leader : BOOLEAN, ready : BOOLEAN, team : {"TEAM0", "TEAM1"}]
Party == [members : Seq(Member), ext : Ext \union {DefaultExt}, code : Code \union {NoCode},
          version : Nat]
Row == [members : Seq(Member) \union {Null}, ext : Ext \union {DefaultExt, Null},
        meta : [code : Code \union {NoCode}, version : Nat] \union {Null}]
ASSUME PartyAssumption ==
  /\ NoThread \notin Thread
  /\ Null \notin Ext \union {DefaultExt}
  /\ Null \notin Seq(Member)
  /\ Null \notin [code : Code \union {NoCode}, version : Nat]
  /\ NoRow \notin Row
  /\ NoParty \notin Party
  /\ MayFail \in BOOLEAN

EmptyRow == [members |-> Null, ext |-> Null, meta |-> Null]

Call == [op : {"none", "save", "get", "remove"},
         pc : {"idle", "lock", "next", "readMembers", "readExtras", "readMeta", "strip", "delete",
               "saveMembers", "saveExtras", "saveMeta", "unlock", "done", "failed"},
         id : PartyId \union {NoId}, who : Player \union {NoPlayer}, todo : SUBSET PartyId,
         at : Nat, removed : BOOLEAN, party : Party \union {NoParty}]
NoCall == [op |-> "none", pc |-> "idle", id |-> NoId, who |-> NoPlayer, todo |-> {},
           at |-> 0, removed |-> FALSE, party |-> NoParty]
Free == [owner |-> NoThread, depth |-> 0]

TypeOK ==
  /\ rows \in [PartyId -> Row \union {NoRow}]
  /\ mutex \in [owner : Thread \union {NoThread}, depth : Nat]
  /\ call \in [Thread -> Call]

DatabaseInit ==
  /\ rows = [id \in PartyId |-> NoRow]
  /\ mutex = Free
  /\ call = [t \in Thread |-> NoCall]

-----------------------------------------------------------------------------
(* std::scoped_lock on a std::recursive_mutex *)

\* mutant: an ordinary mutex, which its owner cannot lock again
MutexFree(t) == mutex.owner = NoThread
\* mutant: no mutex at all
AnyoneLocks(t) == TRUE
CanLock(t) == mutex.owner \in {NoThread, t}
Lock(t) == CanLock(t) /\ mutex' = [owner |-> t, depth |-> mutex.depth + 1]
Unlock(t) == mutex' = IF mutex.depth > 1 THEN [mutex EXCEPT !.depth = @ - 1] ELSE Free

\* mutant: an exception does not give the mutex back
KeepLock(t) == UNCHANGED mutex
\* An exception leaves every scope of the thread.
UnlockAll(t) == mutex' = IF mutex.owner = t THEN Free ELSE mutex

Becomes(t, c) == call' = [call EXCEPT ![t] = c]
Step(t, pc) == Becomes(t, [call[t] EXCEPT !.pc = pc])

\* mutant: INSERT OR REPLACE, which empties the other columns
ReplaceRow(id) == EmptyRow
\* INSERT ... ON CONFLICT DO UPDATE of one column: the first statement makes the row.
Upsert(id) == IF rows[id] = NoRow THEN EmptyRow ELSE rows[id]

-----------------------------------------------------------------------------
(* The calls *)

Saving(id, party) == [NoCall EXCEPT !.op = "save", !.pc = "saveMembers",
                                    !.id = id, !.party = party]

CallSaveParty(t, id, party) ==
  /\ call[t].pc = "idle"
  /\ Becomes(t, Saving(id, party))
  /\ UNCHANGED <<rows, mutex>>

CallGetPartyRes(t, id) ==
  /\ call[t].pc = "idle"
  /\ Becomes(t, [NoCall EXCEPT !.op = "get", !.pc = "lock", !.id = id])
  /\ UNCHANGED <<rows, mutex>>

CallRemovePlayer(t, player) ==
  /\ call[t].pc = "idle"
  /\ Becomes(t, [NoCall EXCEPT !.op = "remove", !.pc = "lock", !.who = player])
  /\ UNCHANGED <<rows, mutex>>

Return(t) ==
  /\ call[t].pc \in {"done", "failed"}
  /\ Becomes(t, NoCall)
  /\ UNCHANGED <<rows, mutex>>

-----------------------------------------------------------------------------
(* GetPartyRes and RemovePlayerFromParties take the mutex first; the latter  *)
(* then lists the ids of all parties.                                        *)

EnterAndLock(t) ==
  /\ call[t].pc = "lock"
  /\ Lock(t)
  /\ \/ call[t].op = "get" /\ Step(t, "readMembers")
     \/ /\ call[t].op = "remove"
        /\ Becomes(t, [call[t] EXCEPT !.pc = "next", !.todo = {id \in PartyId : rows[id] # NoRow}])
  /\ UNCHANGED rows

NextParty(t) ==
  /\ call[t].pc = "next"
  /\ \/ \E id \in call[t].todo :
          Becomes(t, [call[t] EXCEPT !.pc = "readMembers", !.id = id, !.todo = @ \ {id}])
     \/ call[t].todo = {} /\ Step(t, "unlock")
  /\ UNCHANGED <<rows, mutex>>

UnlockAndReturn(t) ==
  /\ call[t].pc = "unlock"
  /\ Unlock(t)
  /\ Step(t, IF call[t].op = "get" /\ call[t].party = NoParty THEN "failed" ELSE "done")
  /\ UNCHANGED rows

-----------------------------------------------------------------------------
(* TryGetParty: three reads, under GetParty's own lock or the remover's *)

\* TryGetParty found nothing: GetParty throws out of its lock, the clean-up drops the row.
Absent(c) == [c EXCEPT !.party = NoParty,
                      !.pc = IF c.op = "get" THEN "unlock" ELSE "delete"]

ReadMembers(t) ==
  LET row == rows[call[t].id] IN
  /\ call[t].pc = "readMembers"
  /\ \/ /\ row # NoRow => row.members = Null
        /\ CanLock(t) /\ UNCHANGED mutex
        /\ Becomes(t, Absent(call[t]))
     \/ /\ row # NoRow /\ row.members # Null
        /\ IF call[t].op = "get" THEN Lock(t) ELSE UNCHANGED mutex
        /\ Becomes(t, [call[t] EXCEPT !.pc = "readExtras",
                         !.party = [members |-> row.members, ext |-> DefaultExt, code |-> NoCode,
                                    version |-> 1]])
  /\ UNCHANGED rows

ReadExtras(t) ==
  LET row == rows[call[t].id] IN
  /\ call[t].pc = "readExtras"
  /\ \/ (row # NoRow => row.ext = Null) /\ Step(t, "readMeta")
     \/ /\ row # NoRow /\ row.ext # Null
        /\ Becomes(t, [call[t] EXCEPT !.pc = "readMeta", !.party = [@ EXCEPT !.ext = row.ext]])
  /\ UNCHANGED <<rows, mutex>>

\* The version is "1" when the column is NULL or empty.
MetaOf(row) == IF row.meta = Null THEN [code |-> NoCode, version |-> 1] ELSE row.meta

WithMeta(party, meta) ==
  [members |-> party.members, ext |-> party.ext, code |-> meta.code, version |-> meta.version]

Stripping(c, party) ==
  [op |-> c.op, pc |-> "strip", id |-> c.id, who |-> c.who, todo |-> c.todo,
   at |-> Len(party.members), removed |-> FALSE, party |-> party]

ReadMeta(t) ==
  LET row == rows[call[t].id]
      party == WithMeta(call[t].party, MetaOf(row)) IN
  /\ call[t].pc = "readMeta"
  /\ IF call[t].op = "get" THEN Unlock(t) ELSE UNCHANGED mutex
  /\ \/ row = NoRow /\ Becomes(t, Absent(call[t]))
     \/ /\ row # NoRow /\ call[t].op = "get"
        /\ Becomes(t, [call[t] EXCEPT !.pc = "unlock", !.party = party])
     \/ /\ row # NoRow /\ call[t].op = "remove"
        /\ Becomes(t, Stripping(call[t], party))
  /\ UNCHANGED rows

-----------------------------------------------------------------------------
(* RemovePlayerFromParties, for one party *)

RemoveAt(s, i) == SubSeq(s, 1, i - 1) \o SubSeq(s, i + 1, Len(s))
HasLeader(members) == \E i \in DOMAIN members : members[i].leader
\* mutant: nobody takes over from a leader who left
KeepLeader(members) == members
Promote(members) ==
  IF HasLeader(members) THEN members ELSE [members EXCEPT ![1] = [@ EXCEPT !.leader = TRUE]]

\* for (i = size - 1; i >= 0; i--): DeleteSubrange(i, 1) where the member is the player
WithMembers(party, members) == [party EXCEPT !.members = members]

StripMember(t) ==
  LET c == call[t]
      members == c.party.members IN
  /\ c.pc = "strip"
  /\ c.at > 0
  /\ \/ /\ members[c.at].player = c.who
        /\ Becomes(t, [c EXCEPT !.party = WithMembers(@, RemoveAt(members, c.at)), !.at = @ - 1,
                                !.removed = TRUE])
     \/ /\ members[c.at].player # c.who
        /\ Becomes(t, [c EXCEPT !.at = @ - 1])
  /\ UNCHANGED <<rows, mutex>>

Stripped(t) ==
  LET c == call[t] IN
  /\ c.pc = "strip"
  /\ c.at = 0
  /\ \/ ~c.removed /\ Step(t, "next")
     \/ c.removed /\ c.party.members = <<>> /\ Step(t, "delete")
     \/ /\ c.removed /\ c.party.members # <<>>
        /\ Becomes(t, [c EXCEPT !.pc = "saveMembers",
                                !.party = WithMembers(@, Promote(c.party.members))])
  /\ UNCHANGED <<rows, mutex>>

\* DeleteParty, with its nested lock
DeleteParty(t) ==
  /\ call[t].pc = "delete"
  /\ CanLock(t)
  /\ rows' = [rows EXCEPT ![call[t].id] = NoRow]
  /\ Step(t, "next")
  /\ UNCHANGED mutex

-----------------------------------------------------------------------------
(* SaveParty: three upserts under the mutex.  The private broadcast column,  *)
(* which no handler changes, goes with the public one.                       *)

SaveMembers(t) ==
  LET id == call[t].id IN
  /\ call[t].pc = "saveMembers"
  /\ Lock(t)
  /\ rows' = [rows EXCEPT ![id] = [Upsert(id) EXCEPT !.members = call[t].party.members]]
  /\ Step(t, "saveExtras")

SaveExtras(t) ==
  LET id == call[t].id IN
  /\ call[t].pc = "saveExtras"
  /\ rows' = [rows EXCEPT ![id] = [Upsert(id) EXCEPT !.ext = call[t].party.ext]]
  /\ Step(t, "saveMeta")
  /\ UNCHANGED mutex

\* mutant: the version is left out of the upsert
SaveCodeOnly(t) == [code |-> call[t].party.code, version |-> 1]
\* mutant: the two values are bound in the wrong order
SwappedMeta(t) == [code |-> call[t].party.version, version |-> call[t].party.code]
Meta(t) == [code |-> call[t].party.code, version |-> call[t].party.version]

SaveMeta(t) ==
  LET id == call[t].id IN
  /\ call[t].pc = "saveMeta"
  /\ rows' = [rows EXCEPT ![id] = [Upsert(id) EXCEPT !.meta = Meta(t)]]
  /\ Unlock(t)
  /\ Step(t, IF call[t].op = "save" THEN "done" ELSE "next")

\* A statement throws (SQLITE_BUSY after the timeout, an I/O error): what was written stays.
StatementFails(t) ==
  /\ MayFail
  /\ call[t].pc \in {"lock", "readMembers", "readExtras", "readMeta", "delete", "saveMembers",
                     "saveExtras", "saveMeta"}
  /\ call[t].pc = "lock" => call[t].op = "remove"
  /\ call[t].pc \in {"lock", "saveMembers", "delete"} => CanLock(t)
  /\ UnlockAll(t)
  /\ Step(t, "failed")
  /\ UNCHANGED rows

CallProceeds(t) ==
  \/ EnterAndLock(t) \/ NextParty(t) \/ UnlockAndReturn(t)
  \/ ReadMembers(t) \/ ReadExtras(t) \/ ReadMeta(t)
  \/ StripMember(t) \/ Stripped(t) \/ DeleteParty(t)
  \/ SaveMembers(t) \/ SaveExtras(t) \/ SaveMeta(t)

CallStep(t) == CallProceeds(t) \/ StatementFails(t)
-----------------------------------------------------------------------------
(* Properties *)

\* IsInParty reads every row's members column with no lock, and ends the process on one that
\* is unset: SaveParty writes that column first, and DeleteParty never comes in between.
MembersColumnSet ==
  \A id \in PartyId : rows[id] # NoRow => rows[id].members # Null

\* What is saved in a party's place while its statements are still being executed.
Savers(id) == {t \in Thread : call[t].pc \in {"saveExtras", "saveMeta"} /\ call[t].id = id}

AsRead(row) ==
  [members |-> row.members, ext |-> IF row.ext = Null THEN DefaultExt ELSE row.ext,
   code |-> MetaOf(row).code, version |-> MetaOf(row).version]

PartyOf(id) ==
  IF Savers(id) # {} THEN call[CHOOSE t \in Thread : t \in Savers(id)].party
  ELSE IF rows[id] = NoRow THEN NoParty ELSE AsRead(rows[id])

\* Whatever statement throws, a thread that is not inside an operation holds no lock, and the
\* lock's depth is that of the operations its owner is inside.
LockFollowsCalls ==
  /\ mutex.owner = NoThread <=> mutex.depth = 0
  /\ mutex.depth > 0 => call[mutex.owner].pc \in {"next", "readMembers", "readExtras", "readMeta",
       "strip", "delete", "saveExtras", "saveMembers", "saveMeta", "unlock"}
  /\ mutex.depth > 1 => call[mutex.owner].pc \in {"readExtras", "readMeta", "saveExtras", "saveMeta"}

\* A clean-up that got through every statement leaves the player in no row, whatever other
\* clean-ups and saves broke off half way.
CleanupIsComplete ==
  \A t \in Thread : call[t].op = "remove" /\ call[t].pc = "unlock" =>
    \A id \in PartyId : rows[id] # NoRow =>
      \A i \in DOMAIN rows[id].members : rows[id].members[i].player # call[t].who

\* A party in the table has members, and one of them leads it.
PartiesLed ==
  \A id \in PartyId : PartyOf(id) # NoParty =>
    PartyOf(id).members # <<>> /\ HasLeader(PartyOf(id).members)
=============================================================================
