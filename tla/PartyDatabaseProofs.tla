------------------------ MODULE PartyDatabaseProofs ------------------------
(***************************************************************************)
(* What every step of a party operation preserves, whoever the callers     *)
(* are and whatever statements fail: the mutex is held exactly inside the  *)
(* operations, every row has its members column, a clean-up that gets      *)
(* through leaves its player in no row, and parties keep a leader.         *)
(***************************************************************************)
EXTENDS PartyDatabase, SequenceTheorems, TLAPS

Reads == {"readMembers", "readExtras", "readMeta"}
Saves == {"saveMembers", "saveExtras", "saveMeta"}

\* Where a thread is when it is in the middle of an operation, and with what in its hands
CallShape(c) ==
  /\ c.pc \in Reads => c.op \in {"get", "remove"}
  /\ c.pc \in Saves => c.op \in {"save", "remove"}
  /\ c.pc \in {"next", "strip", "delete"} => c.op = "remove"
  /\ c.pc \in {"lock", "unlock"} => c.op \in {"get", "remove"}
  /\ c.pc \in Reads \union Saves \union {"strip", "delete"} => c.id \in PartyId
  /\ c.pc = "lock" /\ c.op = "get" => c.id \in PartyId
  /\ c.pc \in Saves \union {"readExtras", "readMeta", "strip"} => c.party \in Party
  /\ c.pc = "strip" => c.at <= Len(c.party.members)

\* Inside one operation, or inside one that another one calls
HeldOnce(c) ==
  \/ c.op = "get" /\ c.pc \in {"readMembers", "unlock"}
  \/ c.op = "remove" /\ c.pc \in Reads \union {"next", "strip", "delete", "saveMembers", "unlock"}
  \/ c.op = "save" /\ c.pc \in {"saveExtras", "saveMeta"}
HeldTwice(c) ==
  \/ c.op = "get" /\ c.pc \in {"readExtras", "readMeta"}
  \/ c.op = "remove" /\ c.pc \in {"saveExtras", "saveMeta"}
Held(c) == HeldOnce(c) \/ HeldTwice(c)

LockInv ==
  /\ mutex.owner = NoThread => mutex.depth = 0
  /\ \A t \in Thread :
       /\ HeldOnce(call[t]) => mutex.owner = t /\ mutex.depth = 1
       /\ HeldTwice(call[t]) => mutex.owner = t /\ mutex.depth = 2
       /\ ~Held(call[t]) => mutex.owner # t

\* A save that has written the members column has a row to write the others to.
RowsInv ==
  /\ MembersColumnSet
  /\ \A t \in Thread : call[t].pc \in {"saveExtras", "saveMeta"} => rows[call[t].id] # NoRow

In(who, members) == \E i \in DOMAIN members : members[i].player = who

\* The part of the clean-up that is done
CleanupInv(c, table) ==
  c.op = "remove" /\ Held(c) =>
    /\ \A id \in PartyId : table[id] # NoRow /\ In(c.who, table[id].members) =>
         \/ id \in c.todo
         \/ c.pc \in Reads \union {"strip", "delete", "saveMembers"} /\ id = c.id
    /\ c.pc \in {"readExtras", "readMeta"} =>
         table[c.id] # NoRow /\ c.party.members = table[c.id].members
    /\ c.pc = "strip" =>
         /\ \A i \in DOMAIN c.party.members : i > c.at => c.party.members[i].player # c.who
         /\ ~c.removed => table[c.id] # NoRow /\ c.party.members = table[c.id].members
    /\ c.pc \in Saves => ~In(c.who, c.party.members)
    /\ c.pc = "unlock" => c.todo = {}

IInv ==
  /\ TypeOK
  /\ LockInv
  /\ RowsInv
  /\ \A t \in Thread : CallShape(call[t]) /\ CleanupInv(call[t], rows)

-----------------------------------------------------------------------------
(***************************************************************************)
(* One step of one thread.  The invariant is preserved if the thread's own *)
(* next state fits the mutex and the table, and if it touches neither      *)
(* unless nobody else is inside an operation.                              *)
(***************************************************************************)
Alone(t) == \A u \in Thread \ {t} : ~Held(call[u])

MutexFits(t, d) ==
  /\ mutex' \in [owner : Thread \union {NoThread}, depth : Nat]
  /\ mutex'.owner = NoThread => mutex'.depth = 0
  /\ HeldOnce(d) => mutex'.owner = t /\ mutex'.depth = 1
  /\ HeldTwice(d) => mutex'.owner = t /\ mutex'.depth = 2
  /\ ~Held(d) => mutex'.owner # t
  /\ mutex' = mutex \/ (Alone(t) /\ mutex'.owner \in {t, NoThread})

TableFits(t, d) ==
  /\ rows' \in [PartyId -> Row \union {NoRow}]
  /\ \A id \in PartyId : rows'[id] # NoRow => rows'[id].members # Null
  /\ d.pc \in {"saveExtras", "saveMeta"} => rows'[d.id] # NoRow
  /\ rows' = rows \/ Alone(t)

LEMMA Frame ==
  ASSUME IInv, NEW t \in Thread, NEW d \in Call, Becomes(t, d), CallShape(d),
         MutexFits(t, d), TableFits(t, d), CleanupInv(d, rows')
  PROVE  IInv'
<1>1. call' \in [Thread -> Call] /\ call'[t] = d /\ \A u \in Thread \ {t} : call'[u] = call[u]
  BY DEF IInv, TypeOK, Becomes
<1>2. TypeOK'
  BY <1>1 DEF TypeOK, MutexFits, TableFits
<1>3. LockInv'
  <2>1. ASSUME NEW u \in Thread \ {t}
        PROVE  /\ HeldOnce(call'[u]) => mutex'.owner = u /\ mutex'.depth = 1
               /\ HeldTwice(call'[u]) => mutex'.owner = u /\ mutex'.depth = 2
               /\ ~Held(call'[u]) => mutex'.owner # u
    <3>1. call'[u] = call[u]
      BY <1>1
    <3>2. CASE mutex' = mutex
      BY <3>1, <3>2 DEF IInv, LockInv
    <3>3. CASE Alone(t) /\ mutex'.owner \in {t, NoThread}
      BY <3>1, <3>3, PartyAssumption DEF Alone, Held
    <3> QED BY <3>2, <3>3 DEF MutexFits
  <2> QED BY <1>1, <2>1 DEF LockInv, MutexFits
<1>4. ASSUME NEW u \in Thread \ {t}, call[u].pc \in {"saveExtras", "saveMeta"}
      PROVE  Held(call[u])
  BY <1>4 DEF IInv, CallShape, Saves, Held, HeldOnce, HeldTwice
<1>5. RowsInv'
  <2>1. ASSUME NEW u \in Thread, call'[u].pc \in {"saveExtras", "saveMeta"}
        PROVE  rows'[call'[u].id] # NoRow
    <3>1. CASE u = t
      BY <1>1, <2>1, <3>1 DEF TableFits
    <3>2. CASE u # t
      <4>1. Held(call[u]) /\ call'[u] = call[u]
        BY <1>1, <1>4, <2>1, <3>2
      <4>2. rows' = rows
        BY <3>2, <4>1 DEF TableFits, Alone
      <4> QED BY <2>1, <4>1, <4>2 DEF IInv, RowsInv
    <3> QED BY <3>1, <3>2
  <2> QED BY <2>1 DEF RowsInv, MembersColumnSet, TableFits
<1>6. ASSUME NEW u \in Thread PROVE CallShape(call'[u]) /\ CleanupInv(call'[u], rows')
  <2>1. CASE u = t
    BY <1>1, <2>1
  <2>2. CASE u # t
    <3>1. call'[u] = call[u] /\ CallShape(call[u]) /\ CleanupInv(call[u], rows)
      BY <1>1, <2>2 DEF IInv
    <3>2. CASE rows' = rows
      BY <3>1, <3>2
    <3>3. CASE Alone(t)
      BY <2>2, <3>1, <3>3 DEF Alone, CleanupInv
    <3> QED BY <3>2, <3>3 DEF TableFits
  <2> QED BY <2>1, <2>2
<1> QED BY <1>2, <1>3, <1>5, <1>6 DEF IInv

\* Who may lock, or is inside already, is alone.
LEMMA AloneInside ==
  ASSUME IInv, NEW t \in Thread, CanLock(t) \/ Held(call[t])
  PROVE  Alone(t)
<1>1. mutex.owner \in {NoThread, t}
  BY DEF CanLock, Held, IInv, LockInv
<1> QED BY <1>1, PartyAssumption DEF Alone, Held, IInv, LockInv

\* The four things an action does to the mutex
LEMMA MutexKept ==
  ASSUME IInv, NEW t \in Thread, NEW d, UNCHANGED mutex,
         HeldOnce(call[t]) <=> HeldOnce(d), HeldTwice(call[t]) <=> HeldTwice(d)
  PROVE  MutexFits(t, d)
BY DEF MutexFits, IInv, LockInv, TypeOK, Held

LEMMA MutexLocked ==
  ASSUME IInv, NEW t \in Thread, NEW d, Lock(t), ~HeldTwice(call[t]),
         HeldOnce(call[t]) => HeldTwice(d) /\ ~HeldOnce(d),
         ~HeldOnce(call[t]) => HeldOnce(d) /\ ~HeldTwice(d)
  PROVE  MutexFits(t, d)
<1>1. Alone(t)
  BY AloneInside DEF Lock
<1>2. mutex.depth = IF HeldOnce(call[t]) THEN 1 ELSE 0
  BY PartyAssumption DEF Lock, CanLock, IInv, LockInv, Held
<1>3. mutex' = [owner |-> t, depth |-> mutex.depth + 1]
  BY DEF Lock
<1> QED BY <1>1, <1>2, <1>3, PartyAssumption DEF MutexFits, Held

LEMMA MutexUnlocked ==
  ASSUME IInv, NEW t \in Thread, NEW d, Unlock(t), Held(call[t]), ~HeldTwice(d),
         HeldTwice(call[t]) <=> HeldOnce(d)
  PROVE  MutexFits(t, d)
<1>1. Alone(t)
  BY AloneInside
<1>2. CASE HeldTwice(call[t])
  <2>1. mutex.owner = t /\ mutex.depth = 2 /\ mutex \in [owner : Thread \union {NoThread}, depth : Nat]
    BY <1>2 DEF IInv, LockInv, TypeOK
  <2>2. mutex' = [mutex EXCEPT !.depth = 1]
    BY <2>1 DEF Unlock
  <2>3. mutex' \in [owner : Thread \union {NoThread}, depth : Nat] /\ mutex'.owner = t /\ mutex'.depth = 1
    BY <2>1, <2>2
  <2> QED BY <1>1, <1>2, <2>3, PartyAssumption DEF MutexFits, Held
<1>3. CASE ~HeldTwice(call[t])
  <2>1. mutex.depth = 1
    BY <1>3 DEF IInv, LockInv, Held
  <2>2. mutex' = [owner |-> NoThread, depth |-> 0]
    BY <2>1 DEF Unlock, Free
  <2> QED BY <1>1, <1>3, <2>2, PartyAssumption DEF MutexFits, Held
<1> QED BY <1>2, <1>3

\* A step that leaves the table alone
LEMMA TableKept ==
  ASSUME IInv, NEW t \in Thread, NEW d, UNCHANGED rows,
         d.pc \in {"saveExtras", "saveMeta"} => rows[d.id] # NoRow
  PROVE  TableFits(t, d)
BY DEF TableFits, IInv, TypeOK, RowsInv, MembersColumnSet

LEMMA MetaOfRow ==
  ASSUME NEW row \in Row PROVE MetaOf(row) \in [code : Code \union {NoCode}, version : Nat]
BY DEF MetaOf, Row

LEMMA RemoveAtMember ==
  ASSUME NEW s \in Seq(Member), NEW k \in 1 .. Len(s)
  PROVE  /\ RemoveAt(s, k) \in Seq(Member)
         /\ Len(RemoveAt(s, k)) = Len(s) - 1
         /\ \A i \in 1 .. Len(s) - 1 : RemoveAt(s, k)[i] = IF i < k THEN s[i] ELSE s[i + 1]
<1> DEFINE a == SubSeq(s, 1, k - 1)
           b == SubSeq(s, k + 1, Len(s))
<1>1. a \in Seq(Member) /\ Len(a) = k - 1 /\ \A i \in 1 .. k - 1 : a[i] = s[i]
  BY SubSeqProperties
<1>2. b \in Seq(Member) /\ Len(b) = Len(s) - k /\ \A i \in 1 .. Len(s) - k : b[i] = s[k + i]
  BY SubSeqProperties
<1> HIDE DEF a, b
<1>3. /\ a \o b \in Seq(Member)
      /\ Len(a \o b) = Len(s) - 1
      /\ \A i \in 1 .. Len(s) - 1 : (a \o b)[i] = IF i <= k - 1 THEN a[i] ELSE b[i - (k - 1)]
  BY <1>1, <1>2, ConcatProperties
<1>4. RemoveAt(s, k) = a \o b
  BY DEF RemoveAt, a, b
<1>5. ASSUME NEW i \in 1 .. Len(s) - 1
      PROVE  (a \o b)[i] = IF i < k THEN s[i] ELSE s[i + 1]
  <2>1. CASE i < k
    BY <1>1, <1>3, <2>1
  <2>2. CASE ~(i < k)
    <3>1. i - (k - 1) \in 1 .. Len(s) - k
      BY <2>2
    <3>2. b[i - (k - 1)] = s[k + (i - (k - 1))]
      BY <1>2, <3>1
    <3> QED BY <1>3, <2>2, <3>2
  <2> QED BY <2>1, <2>2
<1> QED BY <1>3, <1>4, <1>5

LEMMA PromoteMembers ==
  ASSUME NEW s \in Seq(Member), s # <<>>
  PROVE  /\ Promote(s) \in Seq(Member)
         /\ Len(Promote(s)) = Len(s)
         /\ \A i \in 1 .. Len(s) : Promote(s)[i].player = s[i].player
<1>1. Len(s) \in Nat /\ 1 \in 1 .. Len(s) /\ s[1] \in Member
  BY EmptySeq
<1> DEFINE m == [s[1] EXCEPT !.leader = TRUE]
<1>2. m \in Member /\ m.player = s[1].player
  BY <1>1 DEF Member
<1> HIDE DEF m
<1>3. [s EXCEPT ![1] = m] \in Seq(Member) /\ Len([s EXCEPT ![1] = m]) = Len(s)
  BY <1>1, <1>2, ExceptSeq
<1>4. \A i \in 1 .. Len(s) : [s EXCEPT ![1] = m][i].player = s[i].player
  BY <1>1, <1>2
<1>5. Promote(s) = s \/ Promote(s) = [s EXCEPT ![1] = m]
  BY DEF Promote, m
<1> QED BY <1>3, <1>4, <1>5

-----------------------------------------------------------------------------
(* The actions: lock, list and unlock *)

LEMMA EnterAndLockStep ==
  ASSUME IInv, NEW t \in Thread, EnterAndLock(t) PROVE IInv'
<1> DEFINE c == call[t]
           ids == {id \in PartyId : rows[id] # NoRow}
<1>1. c \in Call /\ CallShape(c) /\ c.pc = "lock" /\ Lock(t) /\ rows' = rows
  BY DEF IInv, TypeOK, EnterAndLock
<1>2. ~Held(c)
  BY <1>1 DEF Held, HeldOnce, HeldTwice, Reads
<1>3. CASE c.op = "get" /\ Step(t, "readMembers")
  <2> DEFINE d == [c EXCEPT !.pc = "readMembers"]
  <2>1. d \in Call /\ d.pc = "readMembers" /\ d.op = "get" /\ d.id = c.id
    BY <1>1, <1>3 DEF Call
  <2> HIDE DEF d
  <2>2. Becomes(t, d)
    BY <1>3 DEF Step, d
  <2>3. CallShape(d)
    BY <1>1, <1>3, <2>1 DEF CallShape, Reads, Saves
  <2>4. MutexFits(t, d)
    BY <1>1, <1>2, <2>1, MutexLocked DEF Held, HeldOnce, HeldTwice
  <2>5. TableFits(t, d)
    BY <1>1, <2>1, TableKept
  <2>6. CleanupInv(d, rows')
    BY <2>1 DEF CleanupInv
  <2> QED BY <2>1, <2>2, <2>3, <2>4, <2>5, <2>6, Frame
<1>4. CASE c.op = "remove" /\ Becomes(t, [c EXCEPT !.pc = "next", !.todo = ids])
  <2> DEFINE d == [c EXCEPT !.pc = "next", !.todo = ids]
  <2>1. d \in Call /\ d.pc = "next" /\ d.op = "remove" /\ d.todo = ids
    BY <1>1, <1>4 DEF Call
  <2>2. Becomes(t, d)
    BY <1>4
  <2> HIDE DEF d
  <2>3. CallShape(d)
    BY <2>1 DEF CallShape, Reads, Saves
  <2>4. MutexFits(t, d)
    BY <1>1, <1>2, <2>1, MutexLocked DEF Held, HeldOnce, HeldTwice
  <2>5. TableFits(t, d)
    BY <1>1, <2>1, TableKept
  <2>6. CleanupInv(d, rows')
    BY <1>1, <2>1 DEF CleanupInv, Reads, Saves
  <2> QED BY <2>1, <2>2, <2>3, <2>4, <2>5, <2>6, Frame
<1> QED BY <1>3, <1>4 DEF EnterAndLock

LEMMA NextPartyStep ==
  ASSUME IInv, NEW t \in Thread, NextParty(t) PROVE IInv'
<1> DEFINE c == call[t]
<1>1. c \in Call /\ CallShape(c) /\ c.pc = "next" /\ UNCHANGED <<rows, mutex>>
  BY DEF IInv, TypeOK, NextParty
<1>2. c.op = "remove" /\ HeldOnce(c) /\ ~HeldTwice(c)
  BY <1>1 DEF CallShape, HeldOnce, HeldTwice
<1>3. CleanupInv(c, rows)
  BY DEF IInv
<1>4. CASE \E id \in c.todo : Becomes(t, [c EXCEPT !.pc = "readMembers", !.id = id, !.todo = @ \ {id}])
  <2>1. PICK id \in c.todo : Becomes(t, [c EXCEPT !.pc = "readMembers", !.id = id, !.todo = @ \ {id}])
    BY <1>4
  <2> DEFINE d == [c EXCEPT !.pc = "readMembers", !.id = id, !.todo = @ \ {id}]
  <2>2. id \in PartyId /\ c.todo \ {id} \in SUBSET PartyId
    BY <1>1 DEF Call
  <2>3. /\ d \in Call /\ d.pc = "readMembers" /\ d.op = "remove" /\ d.id = id
        /\ d.todo = c.todo \ {id} /\ d.who = c.who
    BY <1>1, <1>2, <2>2 DEF Call
  <2>4. Becomes(t, d)
    BY <2>1
  <2> HIDE DEF d
  <2>5. CallShape(d)
    BY <2>2, <2>3 DEF CallShape, Reads, Saves
  <2>6. MutexFits(t, d)
    BY <1>1, <1>2, <2>3, MutexKept DEF HeldOnce, HeldTwice, Reads
  <2>7. TableFits(t, d)
    BY <1>1, <2>3, TableKept
  <2>8. CleanupInv(d, rows')
    BY <1>1, <1>2, <1>3, <2>3 DEF CleanupInv, Reads, Saves, Held
  <2> QED BY <2>3, <2>4, <2>5, <2>6, <2>7, <2>8, Frame
<1>5. CASE c.todo = {} /\ Step(t, "unlock")
  <2> DEFINE d == [c EXCEPT !.pc = "unlock"]
  <2>1. d \in Call /\ d.pc = "unlock" /\ d.op = "remove" /\ d.todo = {} /\ d.who = c.who
    BY <1>1, <1>2, <1>5 DEF Call
  <2>2. Becomes(t, d)
    BY <1>5 DEF Step
  <2> HIDE DEF d
  <2>3. CallShape(d)
    BY <2>1 DEF CallShape, Reads, Saves
  <2>4. MutexFits(t, d)
    BY <1>1, <1>2, <2>1, MutexKept DEF HeldOnce, HeldTwice, Reads
  <2>5. TableFits(t, d)
    BY <1>1, <2>1, TableKept
  <2>6. CleanupInv(d, rows')
    BY <1>1, <1>2, <1>3, <1>5, <2>1 DEF CleanupInv, Reads, Saves, Held
  <2> QED BY <2>1, <2>2, <2>3, <2>4, <2>5, <2>6, Frame
<1> QED BY <1>4, <1>5 DEF NextParty

LEMMA UnlockAndReturnStep ==
  ASSUME IInv, NEW t \in Thread, UnlockAndReturn(t) PROVE IInv'
<1> DEFINE c == call[t]
           pc == IF c.op = "get" /\ c.party = NoParty THEN "failed" ELSE "done"
           d == [c EXCEPT !.pc = pc]
<1>1. c \in Call /\ CallShape(c) /\ c.pc = "unlock" /\ Unlock(t) /\ rows' = rows /\ Becomes(t, d)
  BY DEF IInv, TypeOK, UnlockAndReturn, Step
<1>2. Held(c) /\ ~HeldTwice(c)
  BY <1>1 DEF CallShape, Held, HeldOnce, HeldTwice
<1>3. d \in Call /\ d.pc \in {"failed", "done"}
  BY <1>1 DEF Call
<1> HIDE DEF d
<1>4. CallShape(d) /\ ~HeldOnce(d) /\ ~HeldTwice(d)
  BY <1>3 DEF CallShape, Reads, Saves, HeldOnce, HeldTwice
<1>5. MutexFits(t, d)
  BY <1>1, <1>2, <1>4, MutexUnlocked
<1>6. TableFits(t, d)
  BY <1>1, <1>3, TableKept
<1>7. CleanupInv(d, rows')
  BY <1>4 DEF CleanupInv, Held
<1> QED BY <1>1, <1>3, <1>4, <1>5, <1>6, <1>7, Frame

-----------------------------------------------------------------------------
(* The actions: the three reads *)

\* Both reads that find nothing leave GetParty for good, or go on to drop the row.
LEMMA AbsentStep ==
  ASSUME IInv, NEW t \in Thread, call[t].pc \in Reads, rows' = rows,
         Becomes(t, Absent(call[t])), MutexFits(t, Absent(call[t]))
  PROVE  IInv'
<1> DEFINE c == call[t]
           d == Absent(c)
<1>1. c \in Call /\ CallShape(c) /\ CleanupInv(c, rows)
  BY DEF IInv, TypeOK
<1>2. c.op \in {"get", "remove"} /\ c.id \in PartyId
  BY <1>1 DEF CallShape, Reads
<1>3. /\ d \in Call /\ d.op = c.op /\ d.pc = IF c.op = "get" THEN "unlock" ELSE "delete"
      /\ d.id = c.id /\ d.todo = c.todo /\ d.who = c.who
  BY <1>1 DEF Absent, Call
<1> HIDE DEF d
<1>4. CallShape(d)
  BY <1>2, <1>3 DEF CallShape, Reads, Saves
<1>5. TableFits(t, d)
  BY <1>3, TableKept
<1>6. CleanupInv(d, rows')
  BY <1>1, <1>2, <1>3 DEF CleanupInv, Held, HeldOnce, HeldTwice, Reads, Saves
<1>7. Becomes(t, d) /\ MutexFits(t, d)
  BY DEF d
<1> QED BY <1>3, <1>4, <1>5, <1>6, <1>7, Frame

LEMMA AbsentMutex ==
  ASSUME IInv, NEW t \in Thread, call[t].pc \in Reads
  PROVE  /\ Absent(call[t]).op = call[t].op
         /\ Absent(call[t]).pc = IF call[t].op = "get" THEN "unlock" ELSE "delete"
         /\ call[t].op \in {"get", "remove"}
<1>1. call[t] \in Call /\ CallShape(call[t])
  BY DEF IInv, TypeOK
<1> QED BY <1>1 DEF Absent, Call, CallShape

LEMMA ReadMembersStep ==
  ASSUME IInv, NEW t \in Thread, ReadMembers(t) PROVE IInv'
<1> DEFINE c == call[t]
           row == rows[c.id]
           party == [members |-> row.members, ext |-> DefaultExt, code |-> NoCode, version |-> 1]
           d == [c EXCEPT !.pc = "readExtras", !.party = party]
<1>1. c \in Call /\ CallShape(c) /\ c.pc = "readMembers" /\ rows' = rows /\ CleanupInv(c, rows)
  BY DEF IInv, TypeOK, ReadMembers
<1>2. c.op \in {"get", "remove"} /\ c.id \in PartyId
  BY <1>1 DEF CallShape, Reads
<1>3. HeldOnce(c) /\ ~HeldTwice(c)
  BY <1>1, <1>2 DEF HeldOnce, HeldTwice, Reads
<1>4. CASE UNCHANGED mutex /\ Becomes(t, Absent(c))
  <2>1. c.pc \in Reads
    BY <1>1 DEF Reads
  <2>2. MutexFits(t, Absent(c))
    BY <1>3, <1>4, <2>1, AbsentMutex, MutexKept DEF HeldOnce, HeldTwice
  <2> QED BY <1>1, <1>4, <2>1, <2>2, AbsentStep
<1>5. CASE /\ row # NoRow /\ row.members # Null
           /\ IF c.op = "get" THEN Lock(t) ELSE UNCHANGED mutex
           /\ Becomes(t, d)
  <2>1. row \in Row
    BY <1>2, <1>5 DEF IInv, TypeOK
  <2>2. party \in Party
    BY <1>5, <2>1 DEF Row, Party
  <2> HIDE DEF party
  <2>3. /\ d \in Call /\ d.op = c.op /\ d.pc = "readExtras" /\ d.party = party
        /\ d.id = c.id /\ d.todo = c.todo /\ d.who = c.who
    BY <1>1, <2>2 DEF Call
  <2> HIDE DEF d
  <2>4. CallShape(d)
    BY <1>2, <2>2, <2>3 DEF CallShape, Reads, Saves
  <2>5. MutexFits(t, d)
    <3>1. CASE c.op = "get"
      BY <1>3, <1>5, <2>3, <3>1, MutexLocked DEF HeldOnce, HeldTwice
    <3>2. CASE c.op = "remove"
      BY <1>3, <1>5, <2>3, <3>2, MutexKept DEF HeldOnce, HeldTwice, Reads
    <3> QED BY <1>2, <3>1, <3>2
  <2>6. TableFits(t, d)
    BY <1>1, <2>3, TableKept
  <2>7. party.members = row.members
    BY DEF party
  <2>8. CleanupInv(d, rows')
    BY <1>1, <1>3, <1>5, <2>3, <2>7 DEF CleanupInv, Held, Reads, Saves
  <2> QED BY <1>5, <2>3, <2>4, <2>5, <2>6, <2>8, Frame
<1> QED BY <1>4, <1>5 DEF ReadMembers

LEMMA ReadExtrasStep ==
  ASSUME IInv, NEW t \in Thread, ReadExtras(t) PROVE IInv'
<1> DEFINE c == call[t]
           row == rows[c.id]
<1>1. /\ c \in Call /\ CallShape(c) /\ c.pc = "readExtras" /\ UNCHANGED <<rows, mutex>>
      /\ CleanupInv(c, rows)
  BY DEF IInv, TypeOK, ReadExtras
<1>2. c.op \in {"get", "remove"} /\ c.id \in PartyId /\ c.party \in Party
  BY <1>1 DEF CallShape, Reads
<1>3. SUFFICES ASSUME NEW party \in Party, party.members = c.party.members,
                      Becomes(t, [c EXCEPT !.pc = "readMeta", !.party = party])
               PROVE  IInv'
  <2>1. CASE Step(t, "readMeta")
    <3>1. [c EXCEPT !.pc = "readMeta"] = [c EXCEPT !.pc = "readMeta", !.party = c.party]
      BY <1>1 DEF Call
    <3> QED BY <1>2, <1>3, <2>1, <3>1 DEF Step
  <2>2. CASE /\ row # NoRow /\ row.ext # Null
             /\ Becomes(t, [c EXCEPT !.pc = "readMeta", !.party = [@ EXCEPT !.ext = row.ext]])
    <3>1. row.ext \in Ext \union {DefaultExt}
      BY <1>2, <2>2 DEF IInv, TypeOK, Row
    <3>2. /\ [c.party EXCEPT !.ext = row.ext] \in Party
          /\ [c.party EXCEPT !.ext = row.ext].members = c.party.members
      BY <1>2, <3>1 DEF Party
    <3>3. Becomes(t, [c EXCEPT !.pc = "readMeta", !.party = [c.party EXCEPT !.ext = row.ext]])
      BY <2>2
    <3> QED BY <1>3, <3>2, <3>3
  <2> QED BY <2>1, <2>2 DEF ReadExtras
<1> DEFINE d == [c EXCEPT !.pc = "readMeta", !.party = party]
<1>4. /\ d \in Call /\ d.op = c.op /\ d.pc = "readMeta" /\ d.party = party
      /\ d.id = c.id /\ d.todo = c.todo /\ d.who = c.who
  BY <1>1 DEF Call
<1>5. Becomes(t, d)
  BY <1>3
<1> HIDE DEF d
<1>6. CallShape(d)
  BY <1>2, <1>4 DEF CallShape, Reads, Saves
<1>7. MutexFits(t, d)
  BY <1>1, <1>2, <1>4, MutexKept DEF HeldOnce, HeldTwice, Reads
<1>8. TableFits(t, d)
  BY <1>1, <1>4, TableKept
<1>9. CleanupInv(d, rows')
  BY <1>1, <1>2, <1>3, <1>4 DEF CleanupInv, Held, HeldOnce, HeldTwice, Reads, Saves
<1> QED BY <1>4, <1>5, <1>6, <1>7, <1>8, <1>9, Frame

LEMMA ReadMetaStep ==
  ASSUME IInv, NEW t \in Thread, ReadMeta(t) PROVE IInv'
<1> DEFINE c == call[t]
           row == rows[c.id]
           party == WithMeta(c.party, MetaOf(row))
<1>1. c \in Call /\ CallShape(c) /\ c.pc = "readMeta" /\ rows' = rows /\ CleanupInv(c, rows)
  BY DEF IInv, TypeOK, ReadMeta
<1>2. c.op \in {"get", "remove"} /\ c.id \in PartyId /\ c.party \in Party
  BY <1>1 DEF CallShape, Reads
<1>3. c.op = "get" => HeldTwice(c) /\ ~HeldOnce(c) /\ Unlock(t)
  BY <1>1 DEF HeldOnce, HeldTwice, ReadMeta
<1>4. c.op = "remove" => HeldOnce(c) /\ ~HeldTwice(c) /\ UNCHANGED mutex
  BY <1>1 DEF HeldOnce, HeldTwice, Reads, ReadMeta
<1>5. CASE Becomes(t, Absent(c))
  <2>1. c.pc \in Reads
    BY <1>1 DEF Reads
  <2>2. /\ Absent(c).op = c.op
        /\ Absent(c).pc = IF c.op = "get" THEN "unlock" ELSE "delete"
    BY <2>1, AbsentMutex
  <2>3. MutexFits(t, Absent(c))
    <3>1. CASE c.op = "get"
      BY <1>3, <2>2, <3>1, MutexUnlocked DEF Held, HeldOnce, HeldTwice
    <3>2. CASE c.op = "remove"
      BY <1>4, <2>2, <3>2, MutexKept DEF HeldOnce, HeldTwice
    <3> QED BY <1>2, <3>1, <3>2
  <2> QED BY <1>1, <1>5, <2>1, <2>3, AbsentStep
<1>6. CASE row # NoRow /\ ~Becomes(t, Absent(c))
  <2>1. party \in Party /\ party.members = c.party.members
    <3>1. MetaOf(row) \in [code : Code \union {NoCode}, version : Nat]
      BY <1>2, <1>6, MetaOfRow DEF IInv, TypeOK
    <3> QED BY <1>2, <3>1 DEF WithMeta, Party
  <2>2. Len(party.members) \in Nat /\ DOMAIN party.members = 1 .. Len(party.members)
    BY <2>1 DEF Party
  <2>3. \/ c.op = "get" /\ Becomes(t, [c EXCEPT !.pc = "unlock", !.party = party])
        \/ c.op = "remove" /\ Becomes(t, Stripping(c, party))
    BY <1>6 DEF ReadMeta
  <2> HIDE DEF party
  <2>4. CASE c.op = "get" /\ Becomes(t, [c EXCEPT !.pc = "unlock", !.party = party])
    <3> DEFINE d == [c EXCEPT !.pc = "unlock", !.party = party]
    <3>1. d \in Call /\ d.op = "get" /\ d.pc = "unlock"
      BY <1>1, <2>1, <2>4 DEF Call
    <3>2. Becomes(t, d)
      BY <2>4
    <3> HIDE DEF d
    <3>3. CallShape(d) /\ TableFits(t, d) /\ CleanupInv(d, rows')
      BY <1>1, <3>1, TableKept DEF CallShape, CleanupInv, Reads, Saves
    <3>4. MutexFits(t, d)
      BY <1>3, <2>4, <3>1, MutexUnlocked DEF Held, HeldOnce, HeldTwice
    <3> QED BY <3>1, <3>2, <3>3, <3>4, Frame
  <2>5. CASE c.op = "remove" /\ Becomes(t, Stripping(c, party))
    <3> DEFINE d == Stripping(c, party)
    <3>1. /\ d \in Call /\ d.op = "remove" /\ d.pc = "strip" /\ d.id = c.id /\ d.todo = c.todo
          /\ d.who = c.who /\ d.party = party /\ d.at = Len(party.members)
      BY <1>1, <2>1, <2>2, <2>5 DEF Stripping, Call
    <3>2. Becomes(t, d)
      BY <2>5
    <3> HIDE DEF d
    <3>3. CallShape(d)
      BY <1>2, <2>1, <2>2, <3>1 DEF CallShape, Reads, Saves
    <3>4. MutexFits(t, d)
      BY <1>4, <2>5, <3>1, MutexKept DEF HeldOnce, HeldTwice
    <3>5. TableFits(t, d)
      BY <1>1, <3>1, TableKept
    <3>6. CleanupInv(d, rows')
      BY <1>1, <1>4, <2>1, <2>2, <2>5, <3>1 DEF CleanupInv, Held, Reads, Saves
    <3> QED BY <3>1, <3>2, <3>3, <3>4, <3>5, <3>6, Frame
  <2> QED BY <2>3, <2>4, <2>5
<1> QED BY <1>5, <1>6 DEF ReadMeta

-----------------------------------------------------------------------------
(* The actions: one party of a clean-up *)

LEMMA StripMemberStep ==
  ASSUME IInv, NEW t \in Thread, StripMember(t) PROVE IInv'
<1> DEFINE c == call[t]
           s == c.party.members
<1>1. /\ c \in Call /\ CallShape(c) /\ c.pc = "strip" /\ c.at > 0 /\ UNCHANGED <<rows, mutex>>
      /\ CleanupInv(c, rows)
  BY DEF IInv, TypeOK, StripMember
<1>2. c.op = "remove" /\ c.id \in PartyId /\ c.party \in Party /\ c.at <= Len(s)
  BY <1>1 DEF CallShape
<1>3. s \in Seq(Member) /\ Len(s) \in Nat /\ c.at \in 1 .. Len(s) /\ DOMAIN s = 1 .. Len(s)
  BY <1>1, <1>2 DEF Party, Call
<1>4. HeldOnce(c) /\ ~HeldTwice(c)
  BY <1>1, <1>2 DEF HeldOnce, HeldTwice
<1>5. \A i \in 1 .. Len(s) : i > c.at => s[i].player # c.who
  BY <1>1, <1>2, <1>3, <1>4 DEF CleanupInv, Held
<1>6. CASE /\ s[c.at].player = c.who
           /\ Becomes(t, [c EXCEPT !.party = WithMembers(@, RemoveAt(s, c.at)), !.at = @ - 1,
                                   !.removed = TRUE])
  <2> DEFINE r == RemoveAt(s, c.at)
             party == WithMembers(c.party, r)
             d == [c EXCEPT !.party = party, !.at = @ - 1, !.removed = TRUE]
  <2>1. r \in Seq(Member) /\ Len(r) = Len(s) - 1 /\ DOMAIN r = 1 .. Len(s) - 1
    BY <1>3, RemoveAtMember
  <2>2. \A i \in 1 .. Len(s) - 1 : r[i] = IF i < c.at THEN s[i] ELSE s[i + 1]
    BY <1>3, RemoveAtMember
  <2>3. \A i \in DOMAIN r : i > c.at - 1 => r[i].player # c.who
    <3>1. ASSUME NEW i \in 1 .. Len(s) - 1, i > c.at - 1 PROVE r[i].player # c.who
      <4>1. ~(i < c.at) /\ i + 1 \in 1 .. Len(s) /\ i + 1 > c.at
        BY <1>3, <3>1
      <4> QED BY <1>5, <2>2, <4>1
    <3> QED BY <2>1, <3>1
  <2> HIDE DEF r
  <2>4. party \in Party /\ party.members = r
    BY <1>2, <2>1 DEF WithMembers, Party
  <2>5. Becomes(t, d)
    BY <1>6 DEF r
  <2> HIDE DEF party
  <2>6. /\ d \in Call /\ d.op = "remove" /\ d.pc = "strip" /\ d.id = c.id /\ d.todo = c.todo
        /\ d.who = c.who /\ d.party = party /\ d.at = c.at - 1 /\ d.removed = TRUE
    <3>1. c.at \in Nat /\ c.at - 1 \in Nat
      BY <1>3
    <3> QED BY <1>1, <1>2, <2>4, <3>1 DEF Call
  <2> HIDE DEF d
  <2>7. CallShape(d)
    BY <1>2, <1>3, <2>1, <2>4, <2>6 DEF CallShape, Reads, Saves
  <2>8. MutexFits(t, d)
    BY <1>1, <1>4, <2>6, MutexKept DEF HeldOnce, HeldTwice
  <2>9. TableFits(t, d)
    BY <1>1, <2>6, TableKept
  <2>10. CleanupInv(d, rows')
    BY <1>1, <1>2, <1>4, <2>3, <2>4, <2>6 DEF CleanupInv, Held, Reads, Saves
  <2> QED BY <2>5, <2>6, <2>7, <2>8, <2>9, <2>10, Frame
<1>7. CASE s[c.at].player # c.who /\ Becomes(t, [c EXCEPT !.at = @ - 1])
  <2> DEFINE d == [c EXCEPT !.at = @ - 1]
  <2>1. /\ d \in Call /\ d.op = "remove" /\ d.pc = "strip" /\ d.id = c.id /\ d.todo = c.todo
        /\ d.who = c.who /\ d.party = c.party /\ d.at = c.at - 1 /\ d.removed = c.removed
    BY <1>1, <1>2, <1>3 DEF Call
  <2>2. Becomes(t, d)
    BY <1>7
  <2> HIDE DEF d
  <2>3. CallShape(d)
    BY <1>2, <1>3, <2>1 DEF CallShape, Reads, Saves
  <2>4. MutexFits(t, d)
    BY <1>1, <1>4, <2>1, MutexKept DEF HeldOnce, HeldTwice
  <2>5. TableFits(t, d)
    BY <1>1, <2>1, TableKept
  <2>6. \A i \in DOMAIN s : i > c.at - 1 => s[i].player # c.who
    BY <1>3, <1>5, <1>7
  <2>7. CleanupInv(d, rows')
    BY <1>1, <1>2, <1>4, <2>1, <2>6 DEF CleanupInv, Held, Reads, Saves
  <2> QED BY <2>1, <2>2, <2>3, <2>4, <2>5, <2>7, Frame
<1> QED BY <1>6, <1>7 DEF StripMember

LEMMA StrippedStep ==
  ASSUME IInv, NEW t \in Thread, Stripped(t) PROVE IInv'
<1> DEFINE c == call[t]
           s == c.party.members
<1>1. /\ c \in Call /\ CallShape(c) /\ c.pc = "strip" /\ c.at = 0 /\ UNCHANGED <<rows, mutex>>
      /\ CleanupInv(c, rows)
  BY DEF IInv, TypeOK, Stripped
<1>2. c.op = "remove" /\ c.id \in PartyId /\ c.party \in Party
  BY <1>1 DEF CallShape
<1>3. s \in Seq(Member) /\ Len(s) \in Nat /\ DOMAIN s = 1 .. Len(s)
  BY <1>2 DEF Party
<1>4. HeldOnce(c) /\ ~HeldTwice(c)
  BY <1>1, <1>2 DEF HeldOnce, HeldTwice
<1>5. ~In(c.who, s)
  BY <1>1, <1>2, <1>3, <1>4 DEF CleanupInv, Held, In
<1>6. CASE ~c.removed /\ Step(t, "next")
  <2> DEFINE d == [c EXCEPT !.pc = "next"]
  <2>1. d \in Call /\ d.op = "remove" /\ d.pc = "next" /\ d.todo = c.todo /\ d.who = c.who
    BY <1>1, <1>2, <1>6 DEF Call
  <2>2. Becomes(t, d)
    BY <1>6 DEF Step
  <2> HIDE DEF d
  <2>3. CallShape(d) /\ MutexFits(t, d) /\ TableFits(t, d)
    BY <1>1, <1>4, <2>1, MutexKept, TableKept DEF CallShape, HeldOnce, HeldTwice, Reads, Saves
  <2>4. CleanupInv(d, rows')
    BY <1>1, <1>2, <1>4, <1>5, <1>6, <2>1 DEF CleanupInv, Held, Reads, Saves
  <2> QED BY <2>1, <2>2, <2>3, <2>4, Frame
<1>7. CASE Step(t, "delete")
  <2> DEFINE d == [c EXCEPT !.pc = "delete"]
  <2>1. /\ d \in Call /\ d.op = "remove" /\ d.pc = "delete" /\ d.todo = c.todo /\ d.who = c.who
        /\ d.id = c.id
    BY <1>1, <1>2 DEF Call
  <2>2. Becomes(t, d)
    BY <1>7 DEF Step
  <2> HIDE DEF d
  <2>3. CallShape(d) /\ MutexFits(t, d) /\ TableFits(t, d)
    BY <1>1, <1>2, <1>4, <2>1, MutexKept, TableKept
       DEF CallShape, HeldOnce, HeldTwice, Reads, Saves
  <2>4. CleanupInv(d, rows')
    BY <1>1, <1>2, <1>4, <2>1 DEF CleanupInv, Held, Reads, Saves
  <2> QED BY <2>1, <2>2, <2>3, <2>4, Frame
<1>8. CASE /\ s # <<>>
           /\ Becomes(t, [c EXCEPT !.pc = "saveMembers", !.party = WithMembers(@, Promote(s))])
  <2> DEFINE party == WithMembers(c.party, Promote(s))
             d == [c EXCEPT !.pc = "saveMembers", !.party = party]
  <2>1. /\ Promote(s) \in Seq(Member) /\ DOMAIN Promote(s) = DOMAIN s
        /\ \A i \in DOMAIN s : Promote(s)[i].player = s[i].player
    BY <1>3, <1>8, PromoteMembers
  <2>2. party \in Party /\ party.members = Promote(s)
    BY <1>2, <2>1 DEF WithMembers, Party
  <2>3. ~In(c.who, party.members)
    <3>1. \A i \in DOMAIN s : s[i].player # c.who
      BY <1>5 DEF In
    <3>2. \A i \in DOMAIN s : Promote(s)[i].player # c.who
      BY <2>1, <3>1
    <3> HIDE DEF party
    <3> QED BY <2>1, <2>2, <3>2 DEF In
  <2>4. Becomes(t, d)
    BY <1>8
  <2> HIDE DEF party
  <2>5. /\ d \in Call /\ d.op = "remove" /\ d.pc = "saveMembers" /\ d.todo = c.todo
        /\ d.who = c.who /\ d.id = c.id /\ d.party = party
    BY <1>1, <1>2, <2>2 DEF Call
  <2> HIDE DEF d
  <2>6. CallShape(d)
    BY <1>2, <2>2, <2>5 DEF CallShape, Reads, Saves
  <2>7. MutexFits(t, d)
    BY <1>1, <1>4, <2>5, MutexKept DEF HeldOnce, HeldTwice
  <2>8. TableFits(t, d)
    BY <1>1, <2>5, TableKept
  <2>9. CleanupInv(d, rows')
    BY <1>1, <1>2, <1>4, <2>3, <2>5 DEF CleanupInv, Held, Reads, Saves
  <2> QED BY <2>4, <2>5, <2>6, <2>7, <2>8, <2>9, Frame
<1> QED BY <1>6, <1>7, <1>8 DEF Stripped

LEMMA DeletePartyStep ==
  ASSUME IInv, NEW t \in Thread, DeleteParty(t) PROVE IInv'
<1> DEFINE c == call[t]
           d == [c EXCEPT !.pc = "next"]
<1>1. /\ c \in Call /\ CallShape(c) /\ c.pc = "delete" /\ UNCHANGED mutex
      /\ rows' = [rows EXCEPT ![c.id] = NoRow] /\ CleanupInv(c, rows) /\ Becomes(t, d)
  BY DEF IInv, TypeOK, DeleteParty, Step
<1>2. c.op = "remove" /\ c.id \in PartyId
  BY <1>1 DEF CallShape
<1>3. HeldOnce(c) /\ ~HeldTwice(c)
  BY <1>1, <1>2 DEF HeldOnce, HeldTwice
<1>4. d \in Call /\ d.op = "remove" /\ d.pc = "next" /\ d.todo = c.todo /\ d.who = c.who
  BY <1>1, <1>2 DEF Call
<1> HIDE DEF d
<1>5. CallShape(d)
  BY <1>4 DEF CallShape, Reads, Saves
<1>6. MutexFits(t, d)
  BY <1>1, <1>3, <1>4, MutexKept DEF HeldOnce, HeldTwice
<1>7. TableFits(t, d)
  BY <1>1, <1>2, <1>3, <1>4, AloneInside
     DEF TableFits, Held, IInv, TypeOK, RowsInv, MembersColumnSet
<1>8. CleanupInv(d, rows')
  BY <1>1, <1>2, <1>3, <1>4 DEF CleanupInv, Held, Reads, Saves, IInv, TypeOK
<1> QED BY <1>1, <1>4, <1>5, <1>6, <1>7, <1>8, Frame

-----------------------------------------------------------------------------
(* The actions: the statements of a save *)

LEMMA SaveMembersStep ==
  ASSUME IInv, NEW t \in Thread, SaveMembers(t) PROVE IInv'
<1> DEFINE c == call[t]
           d == [c EXCEPT !.pc = "saveExtras"]
           row == [Upsert(c.id) EXCEPT !.members = c.party.members]
<1>1. /\ c \in Call /\ CallShape(c) /\ c.pc = "saveMembers" /\ Lock(t)
      /\ rows' = [rows EXCEPT ![c.id] = row] /\ CleanupInv(c, rows) /\ Becomes(t, d)
  BY DEF IInv, TypeOK, SaveMembers, Step
<1>2. c.op \in {"save", "remove"} /\ c.id \in PartyId /\ c.party \in Party
  BY <1>1 DEF CallShape, Saves
<1>3. c.op = "remove" => HeldOnce(c) /\ ~HeldTwice(c)
  BY <1>1 DEF HeldOnce, HeldTwice
<1>4. c.op = "save" => ~Held(c)
  BY <1>1 DEF Held, HeldOnce, HeldTwice
<1>5. /\ d \in Call /\ d.op = c.op /\ d.pc = "saveExtras" /\ d.todo = c.todo /\ d.who = c.who
      /\ d.id = c.id /\ d.party = c.party
  BY <1>1 DEF Call
<1> HIDE DEF d
<1>6. row \in Row /\ row # NoRow /\ row.members = c.party.members /\ row.members # Null
  <2>1. Upsert(c.id) \in Row
    BY <1>2 DEF Upsert, EmptyRow, Row, IInv, TypeOK
  <2>2. c.party.members \in Seq(Member)
    BY <1>2 DEF Party
  <2>3. row \in Row /\ row.members = c.party.members
    BY <2>1, <2>2 DEF Row
  <2> QED BY <2>2, <2>3, PartyAssumption
<1> HIDE DEF row
<1>7. CallShape(d)
  BY <1>2, <1>5 DEF CallShape, Reads, Saves
<1>8. MutexFits(t, d)
  <2>1. CASE c.op = "remove"
    BY <1>1, <1>3, <1>5, <2>1, MutexLocked DEF HeldOnce, HeldTwice, Reads
  <2>2. CASE c.op = "save"
    BY <1>1, <1>4, <1>5, <2>2, MutexLocked DEF Held, HeldOnce, HeldTwice
  <2> QED BY <1>2, <2>1, <2>2
<1>9. Alone(t)
  BY <1>1, AloneInside DEF Lock
<1>10. TableFits(t, d)
  BY <1>1, <1>2, <1>5, <1>6, <1>9
     DEF TableFits, IInv, TypeOK, RowsInv, MembersColumnSet
<1>11. CleanupInv(d, rows')
  BY <1>1, <1>2, <1>3, <1>5, <1>6 DEF CleanupInv, Held, Reads, Saves, IInv, TypeOK
<1> QED BY <1>1, <1>5, <1>7, <1>8, <1>10, <1>11, Frame

\* The two later statements change other columns of a row that is there.
LEMMA SaveColumn ==
  ASSUME IInv, NEW t \in Thread, call[t].pc \in {"saveExtras", "saveMeta"},
         NEW row \in Row, row.members = rows[call[t].id].members,
         rows' = [rows EXCEPT ![call[t].id] = row]
  PROVE  /\ call[t].id \in PartyId
         /\ rows' \in [PartyId -> Row \union {NoRow}]
         /\ \A id \in PartyId : rows'[id] # NoRow => rows'[id].members # Null
         /\ rows'[call[t].id] # NoRow
         /\ \A id \in PartyId : rows'[id] # NoRow =>
              rows[id] # NoRow /\ rows'[id].members = rows[id].members
<1>1. CallShape(call[t]) /\ rows[call[t].id] # NoRow
  BY DEF IInv, RowsInv
<1>2. call[t].id \in PartyId
  BY <1>1 DEF CallShape, Saves
<1>3. rows[call[t].id].members # Null
  BY <1>1, <1>2 DEF IInv, RowsInv, MembersColumnSet
<1>4. row # NoRow
  BY PartyAssumption
<1> QED BY <1>1, <1>2, <1>3, <1>4 DEF IInv, TypeOK, RowsInv, MembersColumnSet

LEMMA SaveExtrasStep ==
  ASSUME IInv, NEW t \in Thread, SaveExtras(t) PROVE IInv'
<1> DEFINE c == call[t]
           d == [c EXCEPT !.pc = "saveMeta"]
           row == [Upsert(c.id) EXCEPT !.ext = c.party.ext]
<1>1. /\ c \in Call /\ CallShape(c) /\ c.pc = "saveExtras" /\ UNCHANGED mutex
      /\ rows' = [rows EXCEPT ![c.id] = row] /\ CleanupInv(c, rows) /\ Becomes(t, d)
  BY DEF IInv, TypeOK, SaveExtras, Step
<1>2. c.op \in {"save", "remove"} /\ c.id \in PartyId /\ c.party \in Party /\ rows[c.id] # NoRow
  BY <1>1 DEF CallShape, Saves, IInv, RowsInv
<1>3. Held(c)
  BY <1>1, <1>2 DEF Held, HeldOnce, HeldTwice
<1>4. /\ d \in Call /\ d.op = c.op /\ d.pc = "saveMeta" /\ d.todo = c.todo /\ d.who = c.who
      /\ d.id = c.id /\ d.party = c.party
  BY <1>1 DEF Call
<1> HIDE DEF d
<1>5. row \in Row /\ row.members = rows[c.id].members
  BY <1>2 DEF Upsert, Row, Party, IInv, TypeOK
<1> HIDE DEF row
<1>6. CallShape(d)
  BY <1>2, <1>4 DEF CallShape, Reads, Saves
<1>7. MutexFits(t, d)
  BY <1>1, <1>2, <1>4, MutexKept DEF HeldOnce, HeldTwice, Reads
<1>8. TableFits(t, d)
  BY <1>1, <1>3, <1>4, <1>5, SaveColumn, AloneInside DEF TableFits
<1>9. CleanupInv(d, rows')
  BY <1>1, <1>3, <1>4, <1>5, SaveColumn
     DEF CleanupInv, Held, HeldOnce, HeldTwice, Reads, Saves
<1> QED BY <1>1, <1>4, <1>6, <1>7, <1>8, <1>9, Frame

LEMMA SaveMetaStep ==
  ASSUME IInv, NEW t \in Thread, SaveMeta(t) PROVE IInv'
<1> DEFINE c == call[t]
           pc == IF c.op = "save" THEN "done" ELSE "next"
           d == [c EXCEPT !.pc = pc]
           row == [Upsert(c.id) EXCEPT !.meta = Meta(t)]
<1>1. /\ c \in Call /\ CallShape(c) /\ c.pc = "saveMeta" /\ Unlock(t)
      /\ rows' = [rows EXCEPT ![c.id] = row] /\ CleanupInv(c, rows) /\ Becomes(t, d)
  BY DEF IInv, TypeOK, SaveMeta, Step
<1>2. c.op \in {"save", "remove"} /\ c.id \in PartyId /\ c.party \in Party /\ rows[c.id] # NoRow
  BY <1>1 DEF CallShape, Saves, IInv, RowsInv
<1>3. Held(c) /\ (HeldTwice(c) <=> c.op = "remove")
  BY <1>1, <1>2 DEF Held, HeldOnce, HeldTwice
<1>4. /\ d \in Call /\ d.op = c.op /\ d.pc = pc /\ d.todo = c.todo /\ d.who = c.who
      /\ d.id = c.id
  BY <1>1 DEF Call
<1> HIDE DEF d
<1>5. row \in Row /\ row.members = rows[c.id].members
  <2>1. Meta(t) \in [code : Code \union {NoCode}, version : Nat]
    BY <1>2 DEF Meta, Party
  <2>2. Upsert(c.id) = rows[c.id] /\ rows[c.id] \in Row
    BY <1>2 DEF Upsert, IInv, TypeOK
  <2> QED BY <2>1, <2>2 DEF Row
<1> HIDE DEF row
<1>6. CallShape(d)
  BY <1>2, <1>4 DEF CallShape, Reads, Saves
<1>7. MutexFits(t, d)
  BY <1>1, <1>2, <1>3, <1>4, MutexUnlocked DEF HeldOnce, HeldTwice
<1>8. TableFits(t, d)
  BY <1>1, <1>2, <1>3, <1>4, <1>5, SaveColumn, AloneInside DEF TableFits
<1>9. CleanupInv(d, rows')
  BY <1>1, <1>2, <1>3, <1>4, <1>5, SaveColumn
     DEF CleanupInv, Held, HeldOnce, HeldTwice, Reads, Saves
<1> QED BY <1>1, <1>4, <1>6, <1>7, <1>8, <1>9, Frame

-----------------------------------------------------------------------------
(* The actions: a statement throws *)

LEMMA StatementFailsStep ==
  ASSUME IInv, NEW t \in Thread, StatementFails(t) PROVE IInv'
<1> DEFINE d == [call[t] EXCEPT !.pc = "failed"]
<1>1. call[t] \in Call /\ UnlockAll(t) /\ rows' = rows /\ Becomes(t, d)
  BY DEF IInv, TypeOK, StatementFails, Step
<1>2. d \in Call /\ d.pc = "failed"
  BY <1>1 DEF Call
<1> HIDE DEF d
<1>3. CallShape(d) /\ ~HeldOnce(d) /\ ~HeldTwice(d)
  BY <1>2 DEF CallShape, HeldOnce, HeldTwice, Reads, Saves
<1>4. MutexFits(t, d)
  <2>1. CASE mutex.owner = t
    <3>1. mutex' = [owner |-> NoThread, depth |-> 0]
      BY <1>1, <2>1 DEF UnlockAll, Free
    <3>2. Alone(t)
      BY <2>1, AloneInside DEF CanLock
    <3> QED BY <1>3, <3>1, <3>2, PartyAssumption DEF MutexFits, Held
  <2>2. CASE mutex.owner # t
    <3>1. mutex' = mutex
      BY <1>1, <2>2 DEF UnlockAll
    <3> QED BY <1>3, <2>2, <3>1 DEF MutexFits, Held, IInv, TypeOK, LockInv
  <2> QED BY <2>1, <2>2
<1>5. TableFits(t, d)
  BY <1>1, <1>2, TableKept
<1>6. CleanupInv(d, rows')
  BY <1>3 DEF CleanupInv, Held
<1> QED BY <1>1, <1>2, <1>3, <1>4, <1>5, <1>6, Frame

-----------------------------------------------------------------------------
(***************************************************************************)
(* Every step of an operation preserves the invariant, and so do a call    *)
(* and a return: a specification whose steps on rows, mutex and call are   *)
(* these has it.                                                           *)
(***************************************************************************)
LEMMA CallStepPreserves ==
  ASSUME IInv, NEW t \in Thread, CallStep(t) PROVE IInv'
BY EnterAndLockStep, NextPartyStep, UnlockAndReturnStep, ReadMembersStep, ReadExtrasStep,
   ReadMetaStep, StripMemberStep, StrippedStep, DeletePartyStep, SaveMembersStep,
   SaveExtrasStep, SaveMetaStep, StatementFailsStep
   DEF CallStep, CallProceeds

\* A thread that is not inside anything turns to something else that it is not inside of yet.
LEMMA OutsidePreserves ==
  ASSUME IInv, NEW t \in Thread, NEW d \in Call, Becomes(t, d), UNCHANGED <<rows, mutex>>,
         call[t].pc \in {"idle", "done", "failed"},
         CallShape(d), ~HeldOnce(d), ~HeldTwice(d), d.pc \notin {"saveExtras", "saveMeta"}
  PROVE  IInv'
<1>1. ~HeldOnce(call[t]) /\ ~HeldTwice(call[t])
  BY DEF HeldOnce, HeldTwice, Reads
<1>2. MutexFits(t, d)
  BY <1>1, MutexKept
<1>3. TableFits(t, d)
  BY TableKept
<1>4. CleanupInv(d, rows')
  BY DEF CleanupInv, Held
<1> QED BY <1>2, <1>3, <1>4, Frame

LEMMA NoCallShape == NoCall \in Call /\ CallShape(NoCall) /\ ~Held(NoCall)
BY DEF NoCall, Call, CallShape, Held, HeldOnce, HeldTwice, Reads, Saves

LEMMA InitPreserves == DatabaseInit => IInv
<1> SUFFICES ASSUME DatabaseInit PROVE IInv
  OBVIOUS
<1>1. TypeOK
  BY NoCallShape DEF DatabaseInit, TypeOK, Free
<1>2. LockInv
  BY NoCallShape, PartyAssumption DEF DatabaseInit, LockInv, Free, Held
<1>3. RowsInv
  BY DEF DatabaseInit, RowsInv, MembersColumnSet, NoCall
<1> QED BY <1>1, <1>2, <1>3, NoCallShape DEF DatabaseInit, IInv, CleanupInv

LEMMA CallsPreserve ==
  ASSUME IInv, NEW t \in Thread
  PROVE  /\ \A id \in PartyId, party \in Party : CallSaveParty(t, id, party) => IInv'
         /\ \A id \in PartyId : CallGetPartyRes(t, id) => IInv'
         /\ \A player \in Player : CallRemovePlayer(t, player) => IInv'
         /\ Return(t) => IInv'
<1>1. ASSUME NEW id \in PartyId, NEW party \in Party, CallSaveParty(t, id, party) PROVE IInv'
  <2> DEFINE d == Saving(id, party)
  <2>1. /\ d \in Call /\ d.op = "save" /\ d.pc = "saveMembers" /\ d.id = id /\ d.party = party
    BY DEF Saving, NoCall, Call
  <2>2. Becomes(t, d) /\ UNCHANGED <<rows, mutex>> /\ call[t].pc = "idle"
    BY <1>1 DEF CallSaveParty
  <2> HIDE DEF d
  <2>3. CallShape(d) /\ ~HeldOnce(d) /\ ~HeldTwice(d)
    BY <2>1 DEF CallShape, HeldOnce, HeldTwice, Reads, Saves
  <2> QED BY <2>1, <2>2, <2>3, OutsidePreserves
<1>2. ASSUME NEW id \in PartyId, CallGetPartyRes(t, id) PROVE IInv'
  <2> DEFINE d == [NoCall EXCEPT !.op = "get", !.pc = "lock", !.id = id]
  <2>1. /\ d \in Call /\ d.op = "get" /\ d.pc = "lock" /\ d.id = id
    BY NoCallShape DEF Call, NoCall
  <2>2. Becomes(t, d) /\ UNCHANGED <<rows, mutex>> /\ call[t].pc = "idle"
    BY <1>2 DEF CallGetPartyRes
  <2> HIDE DEF d
  <2>3. CallShape(d) /\ ~HeldOnce(d) /\ ~HeldTwice(d)
    BY <2>1 DEF CallShape, HeldOnce, HeldTwice, Reads, Saves
  <2> QED BY <2>1, <2>2, <2>3, OutsidePreserves
<1>3. ASSUME NEW player \in Player, CallRemovePlayer(t, player) PROVE IInv'
  <2> DEFINE d == [NoCall EXCEPT !.op = "remove", !.pc = "lock", !.who = player]
  <2>1. /\ d \in Call /\ d.op = "remove" /\ d.pc = "lock"
    BY NoCallShape DEF Call, NoCall
  <2>2. Becomes(t, d) /\ UNCHANGED <<rows, mutex>> /\ call[t].pc = "idle"
    BY <1>3 DEF CallRemovePlayer
  <2> HIDE DEF d
  <2>3. CallShape(d) /\ ~HeldOnce(d) /\ ~HeldTwice(d)
    BY <2>1 DEF CallShape, HeldOnce, HeldTwice, Reads, Saves
  <2> QED BY <2>1, <2>2, <2>3, OutsidePreserves
<1>4. ASSUME Return(t) PROVE IInv'
  <2>1. Becomes(t, NoCall) /\ UNCHANGED <<rows, mutex>> /\ call[t].pc \in {"done", "failed"}
    BY <1>4 DEF Return
  <2>2. NoCall.pc \notin {"saveExtras", "saveMeta"}
    BY DEF NoCall
  <2> QED BY <2>1, <2>2, NoCallShape, OutsidePreserves DEF Held
<1> QED BY <1>1, <1>2, <1>3, <1>4

\* What the invariant says of the properties
LEMMA Implied == IInv => TypeOK /\ MembersColumnSet /\ LockFollowsCalls /\ CleanupIsComplete
<1> SUFFICES ASSUME IInv PROVE TypeOK /\ MembersColumnSet /\ LockFollowsCalls /\ CleanupIsComplete
  OBVIOUS
<1>1. TypeOK /\ MembersColumnSet
  BY DEF IInv, RowsInv
<1>2. LockFollowsCalls
  <2>1. mutex.depth > 0 => mutex.owner \in Thread
    BY DEF IInv, TypeOK, LockInv
  <2>2. CASE mutex.owner = NoThread
    BY <2>2 DEF LockFollowsCalls, IInv, LockInv
  <2>3. CASE mutex.owner # NoThread
    <3>1. mutex.owner \in Thread /\ call[mutex.owner] \in Call
      BY <2>3 DEF IInv, TypeOK
    <3>2. CASE HeldOnce(call[mutex.owner])
      <4>1. mutex.depth = 1
        BY <3>1, <3>2 DEF IInv, LockInv
      <4> QED BY <2>3, <3>2, <4>1 DEF LockFollowsCalls, HeldOnce, Reads
    <3>3. CASE HeldTwice(call[mutex.owner])
      <4>1. mutex.depth = 2
        BY <3>1, <3>3 DEF IInv, LockInv
      <4> QED BY <2>3, <3>3, <4>1 DEF LockFollowsCalls, HeldTwice
    <3> QED BY <3>1, <3>2, <3>3 DEF IInv, LockInv, Held
  <2> QED BY <2>2, <2>3
<1>3. CleanupIsComplete
  <2> SUFFICES ASSUME NEW t \in Thread, call[t].op = "remove", call[t].pc = "unlock",
                      NEW id \in PartyId, rows[id] # NoRow
               PROVE  ~In(call[t].who, rows[id].members)
    BY DEF CleanupIsComplete, In
  <2>1. Held(call[t])
    BY DEF Held, HeldOnce
  <2>2. CleanupInv(call[t], rows)
    BY DEF IInv
  <2> QED BY <2>1, <2>2 DEF CleanupInv, Reads
<1> QED BY <1>1, <1>2, <1>3

-----------------------------------------------------------------------------
(***************************************************************************)
(* What a step does with the party in a thread's hands and with the table, *)
(* for the invariants about what parties hold.                             *)
(***************************************************************************)

\* The thread has a party in its hands: read, at least in part, or to be saved.
Bears(c) ==
  \/ c.pc \in Saves \union {"readExtras", "readMeta", "strip"}
  \/ c.op # "remove" /\ (c.pc = "done" \/ (c.pc = "unlock" /\ c.party # NoParty))

ReadExt(row) == IF row.ext = Null THEN DefaultExt ELSE row.ext

\* The ways a step from c to d can go
Empties(c, d) == UNCHANGED rows /\ ~Bears(d)

Fetches(c, d) ==
  /\ UNCHANGED rows
  /\ c.pc = "readMembers" /\ d.pc = "readExtras" /\ d.id = c.id
  /\ rows[c.id] # NoRow
  /\ d.party.members = rows[c.id].members /\ d.party.ext = DefaultExt

FetchesExtras(c, d) ==
  /\ UNCHANGED rows
  /\ c.pc = "readExtras" /\ d.pc = "readMeta" /\ d.id = c.id
  /\ d.party.members = c.party.members
  /\ d.party.ext = IF rows[c.id] = NoRow THEN c.party.ext
                   ELSE IF rows[c.id].ext = Null THEN c.party.ext ELSE rows[c.id].ext

FetchesMeta(c, d) ==
  /\ UNCHANGED rows
  /\ c.pc = "readMeta" /\ d.pc = (IF c.op = "get" THEN "unlock" ELSE "strip") /\ d.id = c.id
  /\ c.op \in {"get", "remove"}
  /\ rows[c.id] # NoRow
  /\ d.party.members = c.party.members /\ d.party.ext = c.party.ext
  /\ d.party.version = MetaOf(rows[c.id]).version

Delivers(c, d) ==
  /\ UNCHANGED rows
  /\ c.op = "get" /\ c.pc = "unlock" /\ d.pc = "done" /\ d.id = c.id /\ d.party = c.party
  /\ Bears(c)

Strips(c, d) ==
  /\ UNCHANGED rows
  /\ c.pc = "strip" /\ d.pc = "strip" /\ d.id = c.id
  /\ \A who : In(who, d.party.members) => In(who, c.party.members)
  /\ d.party.ext = c.party.ext /\ d.party.version = c.party.version

HandsOn(c, d) ==
  /\ UNCHANGED rows
  /\ c.pc = "strip" /\ d.pc = "saveMembers" /\ d.id = c.id
  /\ \A who : In(who, d.party.members) => In(who, c.party.members)
  /\ d.party.members # <<>> /\ HasLeader(d.party.members)
  /\ d.party.ext = c.party.ext /\ d.party.version = c.party.version

Deletes(c, d) ==
  /\ c.pc = "delete" /\ d.pc = "next"
  /\ rows' = [rows EXCEPT ![c.id] = NoRow]

Writes(c, d, row) ==
  /\ rows' = [rows EXCEPT ![c.id] = row]
  /\ c.id \in PartyId /\ c.party \in Party /\ d.id = c.id /\ d.party = c.party
  /\ row \in Row /\ row # NoRow

WritesMembers(c, d) ==
  \E row : /\ Writes(c, d, row)
           /\ c.pc = "saveMembers" /\ d.pc = "saveExtras"
           /\ row.members = c.party.members
           /\ rows[c.id] # NoRow => row.ext = rows[c.id].ext /\ row.meta = rows[c.id].meta

WritesExtras(c, d) ==
  \E row : /\ Writes(c, d, row) /\ rows[c.id] # NoRow
           /\ c.pc = "saveExtras" /\ d.pc = "saveMeta"
           /\ row.members = rows[c.id].members /\ row.meta = rows[c.id].meta
           /\ row.ext = c.party.ext

WritesMeta(c, d) ==
  \E row : /\ Writes(c, d, row) /\ rows[c.id] # NoRow
           /\ c.pc = "saveMeta" /\ d.pc = (IF c.op = "save" THEN "done" ELSE "next")
           /\ row.members = rows[c.id].members /\ row.ext = rows[c.id].ext
           /\ row.meta = [code |-> c.party.code, version |-> c.party.version]

Effect(c, d) ==
  \/ Empties(c, d) \/ Fetches(c, d) \/ FetchesExtras(c, d) \/ FetchesMeta(c, d)
  \/ Delivers(c, d) \/ Strips(c, d) \/ HandsOn(c, d) \/ Deletes(c, d)
  \/ WritesMembers(c, d) \/ WritesExtras(c, d) \/ WritesMeta(c, d)

\* What stays the same for the thread that takes a step, and where it can get to
Moves(c, d) ==
  /\ d.op = c.op /\ d.who = c.who
  /\ c.op # "remove" => d.id = c.id
  /\ c.op = "save" => d.party = c.party
  /\ c.op = "save" => d.pc \in {"saveExtras", "saveMeta", "done", "failed"}
  /\ c.op = "get" => d.pc \in Reads \union {"unlock", "done", "failed"}
  /\ d.pc # "idle"
  /\ d.pc = "done" /\ d.op # "remove" => d.party \in Party

LEMMA BecomesOne ==
  ASSUME IInv, NEW t \in Thread, NEW d, Becomes(t, d)
  PROVE  call'[t] = d /\ \A u \in Thread \ {t} : call'[u] = call[u]
BY DEF Becomes, IInv, TypeOK

\* A step of an operation touches its own thread only, and goes one of the ways above.
LEMMA CallStepEffect ==
  ASSUME IInv, NEW t \in Thread, CallStep(t)
  PROVE  /\ \A u \in Thread \ {t} : call'[u] = call[u]
         /\ Moves(call[t], call'[t])
         /\ Effect(call[t], call'[t])
<1> DEFINE c == call[t]
<1>1. c \in Call /\ CallShape(c) /\ \A id \in PartyId : rows[id] \in Row \union {NoRow}
  BY DEF IInv, TypeOK
<1>2. ASSUME NEW d, Becomes(t, d), Moves(c, d), Effect(c, d)
      PROVE  /\ \A u \in Thread \ {t} : call'[u] = call[u]
             /\ Moves(c, call'[t]) /\ Effect(c, call'[t])
  BY <1>2, BecomesOne
<1>3. CASE EnterAndLock(t)
  <2>1. PICK d : /\ Becomes(t, d) /\ UNCHANGED rows
                 /\ \/ c.op = "get" /\ d = [c EXCEPT !.pc = "readMembers"]
                    \/ c.op = "remove" /\ d = [c EXCEPT !.pc = "next", !.todo = {id \in PartyId : rows[id] # NoRow}]
    BY <1>3 DEF EnterAndLock, Step
  <2>2. Moves(c, d) /\ Empties(c, d)
    BY <1>1, <2>1 DEF Moves, Empties, Bears, Call, Saves, Reads
  <2> QED BY <1>2, <2>1, <2>2 DEF Effect
<1>4. CASE NextParty(t)
  <2>1. PICK d : /\ Becomes(t, d) /\ UNCHANGED rows /\ c.op = "remove"
                 /\ \/ \E id \in c.todo : d = [c EXCEPT !.pc = "readMembers", !.id = id, !.todo = @ \ {id}]
                    \/ d = [c EXCEPT !.pc = "unlock"]
    BY <1>1, <1>4 DEF NextParty, Step, CallShape
  <2>2. Moves(c, d) /\ Empties(c, d)
    BY <1>1, <2>1 DEF Moves, Empties, Bears, Call, Saves, Reads
  <2> QED BY <1>2, <2>1, <2>2 DEF Effect
<1>5. CASE UnlockAndReturn(t)
  <2> DEFINE d == [c EXCEPT !.pc = IF c.op = "get" /\ c.party = NoParty THEN "failed" ELSE "done"]
  <2>1. Becomes(t, d) /\ UNCHANGED rows /\ c.pc = "unlock" /\ c.op \in {"get", "remove"}
    BY <1>1, <1>5 DEF UnlockAndReturn, Step, CallShape
  <2>2. /\ d.op = c.op /\ d.who = c.who /\ d.id = c.id /\ d.party = c.party
        /\ d.pc = IF c.op = "get" /\ c.party = NoParty THEN "failed" ELSE "done"
        /\ c.party \in Party \union {NoParty}
    BY <1>1 DEF Call
  <2> HIDE DEF d
  <2>3. Moves(c, d)
    BY <2>1, <2>2 DEF Moves
  <2>4. Empties(c, d) \/ Delivers(c, d)
    BY <2>1, <2>2 DEF Empties, Delivers, Bears, Saves
  <2> QED BY <1>2, <2>1, <2>3, <2>4 DEF Effect
<1>6. ASSUME c.pc \in Reads, Becomes(t, Absent(c)), UNCHANGED rows
      PROVE  /\ \A u \in Thread \ {t} : call'[u] = call[u]
             /\ Moves(c, call'[t]) /\ Effect(c, call'[t])
  <2> DEFINE d == Absent(c)
  <2>1. c.op \in {"get", "remove"}
    BY <1>1, <1>6 DEF CallShape
  <2>2. /\ d.op = c.op /\ d.who = c.who /\ d.id = c.id /\ d.party = NoParty
        /\ d.pc = IF c.op = "get" THEN "unlock" ELSE "delete"
    BY <1>1 DEF Absent, Call
  <2>3. Becomes(t, d)
    BY <1>6
  <2> HIDE DEF d
  <2>4. Moves(c, d) /\ Empties(c, d)
    BY <1>6, <2>1, <2>2 DEF Moves, Empties, Bears, Saves
  <2> QED BY <1>2, <2>3, <2>4 DEF Effect
<1>7. CASE ReadMembers(t)
  <2> DEFINE row == rows[c.id]
             d == [c EXCEPT !.pc = "readExtras",
                            !.party = [members |-> row.members, ext |-> DefaultExt,
                                       code |-> NoCode, version |-> 1]]
  <2>1. c.pc = "readMembers" /\ c.op \in {"get", "remove"} /\ UNCHANGED rows
    BY <1>1, <1>7 DEF ReadMembers, CallShape, Reads
  <2>2. CASE Becomes(t, Absent(c))
    BY <1>6, <2>1, <2>2 DEF Reads
  <2>3. CASE row # NoRow /\ Becomes(t, d)
    <3>1. Moves(c, d) /\ Fetches(c, d)
      BY <1>1, <2>1, <2>3 DEF Moves, Fetches, Call, Reads
    <3> QED BY <1>2, <2>3, <3>1 DEF Effect
  <2> QED BY <1>7, <2>2, <2>3 DEF ReadMembers
<1>8. CASE ReadExtras(t)
  <2> DEFINE row == rows[c.id]
  <2>1. /\ c.pc = "readExtras" /\ c.op \in {"get", "remove"} /\ UNCHANGED rows
        /\ c.id \in PartyId /\ c.party \in Party
    BY <1>1, <1>8 DEF ReadExtras, CallShape, Reads, Saves
  <2>2. CASE (row # NoRow => row.ext = Null) /\ Step(t, "readMeta")
    <3> DEFINE d == [c EXCEPT !.pc = "readMeta"]
    <3>1. Moves(c, d) /\ FetchesExtras(c, d)
      BY <1>1, <2>1, <2>2 DEF Moves, FetchesExtras, Call, Reads
    <3> QED BY <1>2, <2>2, <3>1 DEF Effect, Step
  <2>3. CASE /\ row # NoRow /\ row.ext # Null
             /\ Becomes(t, [c EXCEPT !.pc = "readMeta", !.party = [@ EXCEPT !.ext = row.ext]])
    <3> DEFINE d == [c EXCEPT !.pc = "readMeta", !.party = [@ EXCEPT !.ext = row.ext]]
    <3>1. Moves(c, d)
      BY <1>1, <2>1 DEF Moves, Call, Reads
    <3>2. d.party.members = c.party.members /\ d.party.ext = row.ext
      BY <1>1, <2>1 DEF Call, Party
    <3>3. FetchesExtras(c, d)
      BY <1>1, <2>1, <2>3, <3>2 DEF FetchesExtras, Call
    <3> QED BY <1>2, <2>3, <3>1, <3>3 DEF Effect
  <2> QED BY <1>8, <2>2, <2>3 DEF ReadExtras
<1>9. CASE ReadMeta(t)
  <2> DEFINE row == rows[c.id]
             party == WithMeta(c.party, MetaOf(row))
  <2>1. /\ c.pc = "readMeta" /\ c.op \in {"get", "remove"} /\ UNCHANGED rows
        /\ c.id \in PartyId /\ c.party \in Party
    BY <1>1, <1>9 DEF ReadMeta, CallShape, Reads, Saves
  <2>2. CASE Becomes(t, Absent(c))
    BY <1>6, <2>1, <2>2 DEF Reads
  <2>3. party.members = c.party.members /\ party.ext = c.party.ext /\ party.version = MetaOf(row).version
    BY DEF WithMeta
  <2> HIDE DEF party
  <2>4. CASE row # NoRow /\ c.op = "get" /\ Becomes(t, [c EXCEPT !.pc = "unlock", !.party = party])
    <3> DEFINE d == [c EXCEPT !.pc = "unlock", !.party = party]
    <3>1. Moves(c, d) /\ FetchesMeta(c, d)
      BY <1>1, <2>1, <2>3, <2>4 DEF Moves, FetchesMeta, Call, Reads
    <3> QED BY <1>2, <2>4, <3>1 DEF Effect
  <2>5. CASE row # NoRow /\ c.op = "remove" /\ Becomes(t, Stripping(c, party))
    <3> DEFINE d == Stripping(c, party)
    <3>1. Moves(c, d) /\ FetchesMeta(c, d)
      BY <1>1, <2>1, <2>3, <2>5 DEF Moves, FetchesMeta, Stripping
    <3> QED BY <1>2, <2>5, <3>1 DEF Effect
  <2> QED BY <1>9, <2>2, <2>4, <2>5 DEF ReadMeta, party
<1>10. CASE StripMember(t)
  <2> DEFINE s == c.party.members
  <2>1. /\ c.pc = "strip" /\ c.op = "remove" /\ UNCHANGED rows
        /\ c.party \in Party /\ c.at \in Nat /\ c.at > 0 /\ c.at <= Len(s) /\ s \in Seq(Member)
    BY <1>1, <1>10 DEF StripMember, CallShape, Call, Party, Reads, Saves
  <2>2. CASE Becomes(t, [c EXCEPT !.party = WithMembers(@, RemoveAt(s, c.at)), !.at = @ - 1, !.removed = TRUE])
    <3> DEFINE new == RemoveAt(s, c.at)
               d == [c EXCEPT !.party = WithMembers(@, new), !.at = @ - 1, !.removed = TRUE]
    <3>1. /\ new \in Seq(Member) /\ Len(new) = Len(s) - 1
          /\ \A i \in 1 .. Len(s) - 1 : new[i] = IF i < c.at THEN s[i] ELSE s[i + 1]
      <4>1. Len(s) \in Nat /\ c.at \in 1 .. Len(s) /\ s \in Seq(Member)
        BY <2>1, LenProperties
      <4> HIDE DEF s
      <4> QED BY <4>1, RemoveAtMember
    <3> HIDE DEF new
    <3>2. \A who : In(who, new) => In(who, s)
      <4> SUFFICES ASSUME NEW who, NEW i \in DOMAIN new, new[i].player = who
                   PROVE  In(who, s)
        BY DEF In
      <4>1. i \in 1 .. Len(s) - 1 /\ DOMAIN s = 1 .. Len(s) /\ Len(s) \in Nat
        BY <2>1, <3>1
      <4>2. i \in 1 .. Len(s) /\ i + 1 \in 1 .. Len(s)
        BY <4>1
      <4> QED BY <3>1, <4>1, <4>2 DEF In
    <3>3. /\ WithMembers(c.party, new).members = new
          /\ WithMembers(c.party, new).ext = c.party.ext
          /\ WithMembers(c.party, new).version = c.party.version
      BY <2>1 DEF WithMembers, Party
    <3>4. /\ d.op = c.op /\ d.who = c.who /\ d.id = c.id /\ d.pc = c.pc
          /\ d.party = WithMembers(c.party, new)
      BY <1>1 DEF Call
    <3>5. Becomes(t, d)
      BY <2>2 DEF new
    <3> HIDE DEF d
    <3>6. Moves(c, d) /\ Strips(c, d)
      BY <2>1, <3>2, <3>3, <3>4 DEF Moves, Strips
    <3> QED BY <1>2, <3>5, <3>6 DEF Effect
  <2>3. CASE Becomes(t, [c EXCEPT !.at = @ - 1])
    <3> DEFINE d == [c EXCEPT !.at = @ - 1]
    <3>1. Moves(c, d) /\ Strips(c, d)
      BY <1>1, <2>1 DEF Moves, Strips, Call
    <3> QED BY <1>2, <2>3, <3>1 DEF Effect
  <2> QED BY <1>10, <2>2, <2>3 DEF StripMember
<1>11. CASE Stripped(t)
  <2> DEFINE s == c.party.members
  <2>1. /\ c.pc = "strip" /\ c.op = "remove" /\ UNCHANGED rows
        /\ c.party \in Party /\ s \in Seq(Member)
    BY <1>1, <1>11 DEF Stripped, CallShape, Party, Reads, Saves
  <2>2. ASSUME NEW pc \in {"next", "delete"}, Step(t, pc)
        PROVE  /\ \A u \in Thread \ {t} : call'[u] = call[u]
               /\ Moves(c, call'[t]) /\ Effect(c, call'[t])
    <3> DEFINE d == [c EXCEPT !.pc = pc]
    <3>1. Moves(c, d) /\ Empties(c, d)
      BY <1>1, <2>1 DEF Moves, Empties, Bears, Call, Saves
    <3> QED BY <1>2, <2>2, <3>1 DEF Effect, Step
  <2>3. CASE /\ s # <<>>
             /\ Becomes(t, [c EXCEPT !.pc = "saveMembers", !.party = WithMembers(@, Promote(s))])
    <3> DEFINE new == Promote(s)
               d == [c EXCEPT !.pc = "saveMembers", !.party = WithMembers(@, new)]
    <3>1. /\ new \in Seq(Member) /\ Len(new) = Len(s)
          /\ \A i \in 1 .. Len(s) : new[i].player = s[i].player
      BY <2>1, <2>3, PromoteMembers
    <3>2. HasLeader(new)
      <4>1. CASE HasLeader(s)
        BY <4>1 DEF Promote
      <4>2. CASE ~HasLeader(s)
        <5>1. 1 \in DOMAIN s /\ s[1] \in Member
          BY <2>1, <2>3, EmptySeq
        <5>2. new = [s EXCEPT ![1] = [s[1] EXCEPT !.leader = TRUE]]
          BY <4>2 DEF Promote
        <5>3. [s[1] EXCEPT !.leader = TRUE].leader
          BY <5>1 DEF Member
        <5>4. new[1].leader /\ DOMAIN new = DOMAIN s
          BY <5>1, <5>2, <5>3
        <5> QED BY <5>1, <5>4 DEF HasLeader
      <4> QED BY <4>1, <4>2
    <3> HIDE DEF new
    <3>3. \A who : In(who, new) => In(who, s)
      BY <2>1, <3>1 DEF In
    <3>4. new # <<>>
      BY <2>1, <2>3, <3>1, EmptySeq
    <3>5. /\ WithMembers(c.party, new).members = new
          /\ WithMembers(c.party, new).ext = c.party.ext
          /\ WithMembers(c.party, new).version = c.party.version
      BY <2>1 DEF WithMembers, Party
    <3>6. /\ d.op = c.op /\ d.who = c.who /\ d.id = c.id /\ d.pc = "saveMembers"
          /\ d.party = WithMembers(c.party, new)
      BY <1>1 DEF Call
    <3>7. Becomes(t, d)
      BY <2>3 DEF new
    <3> HIDE DEF d
    <3>8. Moves(c, d) /\ HandsOn(c, d)
      BY <2>1, <3>2, <3>3, <3>4, <3>5, <3>6 DEF Moves, HandsOn
    <3> QED BY <1>2, <3>7, <3>8 DEF Effect
  <2> QED BY <1>11, <2>2, <2>3 DEF Stripped
<1>12. CASE DeleteParty(t)
  <2> DEFINE d == [c EXCEPT !.pc = "next"]
  <2>1. c.op = "remove" /\ c.pc = "delete"
    BY <1>1, <1>12 DEF DeleteParty, CallShape
  <2>2. Moves(c, d) /\ Deletes(c, d)
    BY <1>1, <1>12, <2>1 DEF DeleteParty, Moves, Deletes, Call
  <2>3. Becomes(t, d)
    BY <1>12 DEF DeleteParty, Step
  <2> QED BY <1>2, <2>2, <2>3 DEF Effect
<1>13. CASE SaveMembers(t)
  <2> DEFINE d == [c EXCEPT !.pc = "saveExtras"]
             row == [Upsert(c.id) EXCEPT !.members = c.party.members]
  <2>1. /\ c.pc = "saveMembers" /\ c.op \in {"save", "remove"} /\ c.id \in PartyId
        /\ c.party \in Party
    BY <1>1, <1>13 DEF SaveMembers, CallShape, Saves
  <2>2. Upsert(c.id) \in Row /\ (rows[c.id] # NoRow => Upsert(c.id) = rows[c.id])
    BY <1>1, <2>1 DEF Upsert, EmptyRow, Row
  <2>3. /\ row \in Row /\ row.members = c.party.members
        /\ row.ext = Upsert(c.id).ext /\ row.meta = Upsert(c.id).meta
    BY <2>1, <2>2 DEF Row, Party
  <2>4. row # NoRow
    BY <2>3, PartyAssumption
  <2>5. rows' = [rows EXCEPT ![c.id] = row] /\ Becomes(t, d)
    BY <1>13 DEF SaveMembers, Step
  <2> HIDE DEF row
  <2>6. Moves(c, d)
    BY <1>1, <2>1 DEF Moves, Call
  <2>7. d.id = c.id /\ d.party = c.party /\ d.pc = "saveExtras"
    BY <1>1 DEF Call
  <2>8. WritesMembers(c, d)
    BY <2>1, <2>2, <2>3, <2>4, <2>5, <2>7 DEF WritesMembers, Writes
  <2> QED BY <1>2, <2>5, <2>6, <2>8 DEF Effect
<1>14. CASE SaveExtras(t)
  <2> DEFINE d == [c EXCEPT !.pc = "saveMeta"]
             row == [Upsert(c.id) EXCEPT !.ext = c.party.ext]
  <2>1. /\ c.pc = "saveExtras" /\ c.op \in {"save", "remove"} /\ c.id \in PartyId
        /\ c.party \in Party /\ rows[c.id] # NoRow
    BY <1>1, <1>14 DEF SaveExtras, CallShape, Saves, IInv, RowsInv
  <2>2. Upsert(c.id) = rows[c.id] /\ rows[c.id] \in Row
    BY <1>1, <2>1 DEF Upsert
  <2>3. /\ row \in Row /\ row.ext = c.party.ext
        /\ row.members = rows[c.id].members /\ row.meta = rows[c.id].meta
    BY <2>1, <2>2 DEF Row, Party
  <2>4. row # NoRow
    BY <2>3, PartyAssumption
  <2>5. rows' = [rows EXCEPT ![c.id] = row] /\ Becomes(t, d)
    BY <1>14 DEF SaveExtras, Step
  <2> HIDE DEF row
  <2>6. Moves(c, d)
    BY <1>1, <2>1 DEF Moves, Call
  <2>7. d.id = c.id /\ d.party = c.party /\ d.pc = "saveMeta"
    BY <1>1 DEF Call
  <2>8. WritesExtras(c, d)
    BY <2>1, <2>3, <2>4, <2>5, <2>7 DEF WritesExtras, Writes
  <2> QED BY <1>2, <2>5, <2>6, <2>8 DEF Effect
<1>15. CASE SaveMeta(t)
  <2> DEFINE pc == IF c.op = "save" THEN "done" ELSE "next"
             d == [c EXCEPT !.pc = pc]
             row == [Upsert(c.id) EXCEPT !.meta = Meta(t)]
  <2>1. /\ c.pc = "saveMeta" /\ c.op \in {"save", "remove"} /\ c.id \in PartyId
        /\ c.party \in Party /\ rows[c.id] # NoRow
    BY <1>1, <1>15 DEF SaveMeta, CallShape, Saves, IInv, RowsInv
  <2>2. Upsert(c.id) = rows[c.id] /\ rows[c.id] \in Row
    BY <1>1, <2>1 DEF Upsert
  <2>3. Meta(t) \in [code : Code \union {NoCode}, version : Nat]
    BY <2>1 DEF Meta, Party
  <2>4. /\ row \in Row /\ row.meta = [code |-> c.party.code, version |-> c.party.version]
        /\ row.members = rows[c.id].members /\ row.ext = rows[c.id].ext
    BY <2>1, <2>2, <2>3 DEF Row, Meta
  <2>5. row # NoRow
    BY <2>4, PartyAssumption
  <2>6. rows' = [rows EXCEPT ![c.id] = row] /\ Becomes(t, d)
    BY <1>15 DEF SaveMeta, Step
  <2> HIDE DEF row
  <2>7. Moves(c, d)
    BY <1>1, <2>1 DEF Moves, Call
  <2>8. d.id = c.id /\ d.party = c.party /\ d.pc = pc
    BY <1>1 DEF Call
  <2>9. WritesMeta(c, d)
    BY <2>1, <2>4, <2>5, <2>6, <2>8 DEF WritesMeta, Writes
  <2> QED BY <1>2, <2>6, <2>7, <2>9 DEF Effect
<1>16. CASE StatementFails(t)
  <2> DEFINE d == [c EXCEPT !.pc = "failed"]
  <2>1. Becomes(t, d) /\ UNCHANGED rows
    BY <1>16 DEF StatementFails, Step
  <2>2. Moves(c, d) /\ Empties(c, d)
    BY <1>1, <2>1 DEF Moves, Empties, Bears, Call, Saves
  <2> QED BY <1>2, <2>1, <2>2 DEF Effect
<1> QED
  BY <1>3, <1>4, <1>5, <1>7, <1>8, <1>9, <1>10, <1>11, <1>12, <1>13, <1>14, <1>15, <1>16
  DEF CallStep, CallProceeds

\* Who changes the table is alone inside.
LEMMA WriterAlone ==
  ASSUME IInv, NEW t \in Thread, CallStep(t) PROVE rows' = rows \/ Alone(t)
<1>1. CASE DeleteParty(t)
  BY <1>1, AloneInside DEF DeleteParty
<1>2. CASE SaveMembers(t)
  BY <1>2, AloneInside DEF SaveMembers, Lock
<1>3. CASE SaveExtras(t) \/ SaveMeta(t)
  <2>1. Held(call[t])
    BY <1>3 DEF IInv, CallShape, Saves, Held, HeldOnce, HeldTwice, SaveExtras, SaveMeta
  <2> QED BY <2>1, AloneInside
<1> QED
  BY <1>1, <1>2, <1>3
  DEF CallStep, CallProceeds, EnterAndLock, NextParty, UnlockAndReturn, ReadMembers, ReadExtras,
      ReadMeta, StripMember, Stripped, StatementFails

-----------------------------------------------------------------------------
(* Parties have members, and a leader among them. *)

LedMembers(members) == members # <<>> /\ HasLeader(members)

\* A clean-up may have a party without a leader in its hands while it takes members out.
LedInv ==
  /\ \A id \in PartyId : rows[id] # NoRow => LedMembers(rows[id].members)
  /\ \A t \in Thread : Bears(call[t]) /\ call[t].pc # "strip" => LedMembers(call[t].party.members)

LEMMA CallStepKeepsLed ==
  ASSUME IInv, LedInv, NEW t \in Thread, CallStep(t)
  PROVE  LedInv'
<1> DEFINE c == call[t]
           d == call'[t]
<1>1. /\ \A u \in Thread \ {t} : call'[u] = call[u]
      /\ Moves(c, d) /\ Effect(c, d)
      /\ CallShape(c) /\ rows \in [PartyId -> Row \union {NoRow}]
  BY CallStepEffect DEF IInv, TypeOK
<1>2. c.pc \in {"readExtras", "readMeta"} \union Saves => LedMembers(c.party.members)
  BY DEF LedInv, Bears, Saves
<1>3. c.pc \in Reads \union Saves \union {"delete"} => c.id \in PartyId
  BY <1>1 DEF CallShape
<1> SUFFICES /\ \A id \in PartyId : rows'[id] # NoRow => LedMembers(rows'[id].members)
             /\ Bears(d) /\ d.pc # "strip" => LedMembers(d.party.members)
  BY <1>1 DEF LedInv
<1> HIDE DEF c, d
<1>4. CASE UNCHANGED rows
  <2>1. \A id \in PartyId : rows'[id] # NoRow => LedMembers(rows'[id].members)
    BY <1>4 DEF LedInv
  <2>2. ASSUME Bears(d), d.pc # "strip" PROVE LedMembers(d.party.members)
    <3>1. CASE Fetches(c, d)
      BY <1>3, <3>1 DEF Fetches, LedInv, Reads
    <3>2. CASE FetchesExtras(c, d)
      BY <1>2, <3>2 DEF FetchesExtras
    <3>3. CASE FetchesMeta(c, d)
      BY <1>2, <3>3 DEF FetchesMeta
    <3>4. CASE Delivers(c, d)
      BY <3>4 DEF Delivers, LedInv, c
    <3>5. CASE HandsOn(c, d)
      BY <3>5 DEF HandsOn, LedMembers
    <3>6. CASE WritesMembers(c, d) \/ WritesExtras(c, d) \/ WritesMeta(c, d)
      BY <1>2, <3>6 DEF WritesMembers, WritesExtras, WritesMeta, Writes, Saves
    <3>7. CASE Empties(c, d) \/ Strips(c, d)
      BY <2>2, <3>7 DEF Empties, Strips
    <3>8. CASE Deletes(c, d)
      BY <1>1, <2>2, <3>8 DEF Deletes, Moves, Bears, Saves
    <3> QED BY <1>1, <3>1, <3>2, <3>3, <3>4, <3>5, <3>6, <3>7, <3>8 DEF Effect
  <2> QED BY <2>1, <2>2
<1>5. CASE Deletes(c, d)
  <2>1. \A id \in PartyId : rows'[id] # NoRow => LedMembers(rows'[id].members)
    BY <1>1, <1>5 DEF Deletes, LedInv
  <2>2. ~Bears(d)
    BY <1>5 DEF Deletes, Bears, Saves
  <2> QED BY <2>1, <2>2
<1>6. CASE WritesMembers(c, d) \/ WritesExtras(c, d) \/ WritesMeta(c, d)
  <2>1. PICK row : /\ Writes(c, d, row)
                   /\ \/ row.members = c.party.members
                      \/ rows[c.id] # NoRow /\ row.members = rows[c.id].members
                   /\ c.pc \in Saves
    BY <1>6 DEF WritesMembers, WritesExtras, WritesMeta, Saves
  <2>2. c.id \in PartyId /\ LedMembers(row.members)
    BY <1>2, <2>1 DEF Writes, LedInv
  <2>3. \A id \in PartyId : rows'[id] # NoRow => LedMembers(rows'[id].members)
    BY <1>1, <2>1, <2>2 DEF Writes, LedInv
  <2>4. LedMembers(d.party.members)
    BY <1>2, <2>1 DEF Writes
  <2> QED BY <2>3, <2>4
<1> QED
  BY <1>1, <1>4, <1>5, <1>6
  DEF Effect, Empties, Fetches, FetchesExtras, FetchesMeta, Delivers, Strips, HandsOn

\* A caller that turns to something else brings no party, or one that is led.
LEMMA OutsideKeepsLed ==
  ASSUME IInv, LedInv, NEW t \in Thread, NEW d, Becomes(t, d), UNCHANGED rows,
         Bears(d) => LedMembers(d.party.members)
  PROVE  LedInv'
BY BecomesOne DEF LedInv

LEMMA NoCallBearsNothing == ~Bears(NoCall)
BY DEF NoCall, Bears, Saves

LEMMA LedImplied == IInv /\ LedInv => PartiesLed
<1> SUFFICES ASSUME IInv, LedInv, NEW id \in PartyId, PartyOf(id) # NoParty
             PROVE  LedMembers(PartyOf(id).members)
  BY DEF PartiesLed, LedMembers
<1>1. CASE Savers(id) # {}
  <2>1. PICK t \in Thread : t \in Savers(id) /\ PartyOf(id) = call[t].party
    BY <1>1 DEF PartyOf, Savers
  <2> QED BY <2>1 DEF LedInv, Bears, Savers, Saves
<1>2. CASE Savers(id) = {}
  <2>1. rows[id] # NoRow /\ PartyOf(id) = AsRead(rows[id])
    BY <1>2 DEF PartyOf
  <2> QED BY <2>1 DEF LedInv, AsRead
<1> QED BY <1>1, <1>2
=============================================================================
