------------------------- MODULE PartyCallersProofs -------------------------
(***************************************************************************)
(* The invariant of PartyDatabaseProofs, carried through the behaviours of *)
(* PartyCallers: for any number of threads, parties and players, any calls *)
(* in any order, and any statements that fail.  And, where none fails,     *)
(* what the statements add up to: the atomic operations of PartyRegistry.  *)
(***************************************************************************)
EXTENDS PartyCallers, PartyDatabaseProofs, FiniteSetTheorems, FunctionTheorems

LEMMA CallerPreserves ==
  ASSUME IInv, NEW t \in Thread, Caller(t) PROVE IInv'
BY CallsPreserve, DraftsAssumption DEF Caller

LEMMA StutterPreserves ==
  ASSUME IInv, UNCHANGED partyVars PROVE IInv'
BY DEF partyVars, IInv, TypeOK, LockInv, RowsInv, MembersColumnSet

\* The inductive invariant: what a thread inside an operation holds, has read and has yet to do.
THEOREM Inductive == Spec => []IInv
<1>1. DatabaseInit => IInv
  BY InitPreserves
<1>2. IInv /\ [Next]_partyVars => IInv'
  <2> SUFFICES ASSUME IInv, [Next]_partyVars PROVE IInv'
    OBVIOUS
  <2>1. ASSUME NEW t \in Thread, CallStep(t) PROVE IInv'
    BY <2>1, CallStepPreserves
  <2>2. ASSUME NEW t \in Thread, Caller(t) PROVE IInv'
    BY <2>2, CallerPreserves
  <2>3. CASE UNCHANGED partyVars
    BY <2>3, StutterPreserves
  <2> QED BY <2>1, <2>2, <2>3 DEF Next
<1> QED BY <1>1, <1>2, PTL DEF Spec

\* The table, the mutex and every thread's locals keep their types.
THEOREM PartyTypeCorrect == Spec => []TypeOK
BY Inductive, Implied, PTL

\* No row is ever there without its members column, which IsInParty reads with no lock: a save
\* that has begun and a DeleteParty exclude each other, even where a statement fails.
THEOREM MembersColumnSetHolds == Spec => []MembersColumnSet
BY Inductive, Implied, PTL

\* The recursive mutex is held only inside an operation, and no deeper than the operations
\* are nested: no exception leaves it locked.
THEOREM LockFollowsCallsHolds == Spec => []LockFollowsCalls
BY Inductive, Implied, PTL

\* RemovePlayerFromParties returns normally only once its player is in no row of the table,
\* for whatever saves and clean-ups other threads run or break off meanwhile.
THEOREM CleanupIsCompleteHolds == Spec => []CleanupIsComplete
BY Inductive, Implied, PTL

LEMMA CallerKeepsLed ==
  ASSUME IInv, LedInv, NEW t \in Thread, Caller(t) PROVE LedInv'
<1>1. ASSUME NEW d, Becomes(t, d), UNCHANGED rows,
             Bears(d) => LedMembers(d.party.members)
      PROVE  LedInv'
  BY <1>1, OutsideKeepsLed
<1>2. ASSUME NEW id \in PartyId, NEW party \in Drafts, CallSaveParty(t, id, party)
      PROVE  LedInv'
  <2>1. Saving(id, party).party = party /\ LedMembers(party.members)
    BY DraftsAssumption DEF Saving, NoCall, LedMembers
  <2> QED BY <1>1, <1>2, <2>1 DEF CallSaveParty
<1>3. ASSUME NEW d, Becomes(t, d), UNCHANGED rows, d.pc \in {"lock", "idle"}
      PROVE  LedInv'
  BY <1>1, <1>3 DEF Bears, Saves
<1>4. ASSUME NEW id \in PartyId, CallGetPartyRes(t, id)
      PROVE  LedInv'
  BY <1>3, <1>4 DEF CallGetPartyRes, NoCall
<1>5. ASSUME NEW player \in Player, CallRemovePlayer(t, player)
      PROVE  LedInv'
  BY <1>3, <1>5 DEF CallRemovePlayer, NoCall
<1>6. CASE Return(t)
  BY <1>3, <1>6 DEF Return, NoCall
<1> QED BY <1>2, <1>4, <1>5, <1>6 DEF Caller

\* Every row, and every party on its way to one, has a leader.
THEOREM LedInductive == Spec => []LedInv
<1>1. DatabaseInit => LedInv
  BY NoCallBearsNothing DEF DatabaseInit, LedInv
<1>2. IInv /\ LedInv /\ [Next]_partyVars => LedInv'
  <2> SUFFICES ASSUME IInv, LedInv, [Next]_partyVars PROVE LedInv'
    OBVIOUS
  <2>1. CASE UNCHANGED partyVars
    BY <2>1 DEF partyVars, LedInv
  <2> QED BY <2>1, CallStepKeepsLed, CallerKeepsLed DEF Next
<1> QED BY <1>1, <1>2, Inductive, PTL DEF Spec

\* Whatever clean-ups take out, the party they leave in the table has a leader, and so has
\* what a save that is under way will leave there.
THEOREM PartiesLedHolds == Spec => []PartiesLed
<1>1. IInv /\ LedInv => PartiesLed
  BY LedImplied
<1> QED BY <1>1, Inductive, LedInductive, PTL

-----------------------------------------------------------------------------
(***************************************************************************)
(* While no statement fails, a call is what PartyRegistry has in one step. *)
(***************************************************************************)

\* The members are those of all at the places f, which are these places in order.
Selects(f, members, all, places) ==
  /\ f \in [1 .. Len(members) -> places]
  /\ \A i, j \in 1 .. Len(members) : i < j => f[i] < f[j]
  /\ \A x \in places : \E i \in 1 .. Len(members) : f[i] = x
  /\ \A i \in 1 .. Len(members) : members[i] = all[f[i]]

\* What the loop of the clean-up has left of the members so far
Unstripped(all, at, who) == {i \in 1 .. Len(all) : i <= at \/ all[i].player # who}

StripInv(c, row) ==
  /\ c.party = WithMembers(AsRead(row), c.party.members)
  /\ c.removed => In(c.who, row.members)
  /\ \E f \in [1 .. Len(c.party.members) -> 1 .. Len(row.members)] :
       /\ Selects(f, c.party.members, row.members, Unstripped(row.members, c.at, c.who))
       /\ \A i \in 1 .. c.at : f[i] = i

\* What a call has in its hands, and what of it is in the table
WholeInv(c, table) ==
  /\ c.pc \in {"readExtras", "readMeta"} =>
       table[c.id] # NoRow /\ c.party.members = table[c.id].members
  /\ c.pc = "readExtras" => c.party.ext = DefaultExt
  /\ c.pc = "readMeta" => c.party.ext = AsRead(table[c.id]).ext
  /\ c.pc = "strip" => table[c.id] # NoRow /\ StripInv(c, table[c.id])
  /\ c.pc = "delete" /\ table[c.id] # NoRow =>
       \A i \in DOMAIN table[c.id].members : table[c.id].members[i].player = c.who
  /\ c.op = "remove" /\ c.pc = "saveMembers" =>
       /\ table[c.id] # NoRow /\ In(c.who, table[c.id].members)
       /\ c.party = Registry!Leave(AsRead(table[c.id]), c.who)
  /\ c.pc \in {"saveExtras", "saveMeta"} => table[c.id].members = c.party.members
  /\ c.pc = "saveMeta" => table[c.id].ext = c.party.ext
  /\ c.pc = "failed" => c.op = "get"
  /\ c.op = "none" => c.pc = "idle"

LEMMA SameCardinality == \A S : Registry!Cardinality(S) = Cardinality(S)
BY DEF Registry!Cardinality, Cardinality

\* A strictly increasing function from 1 .. n onto a set counts it in order.
LEMMA NthPlace ==
  ASSUME NEW n \in Nat, NEW places \in SUBSET Int, NEW f \in [1 .. n -> places],
         \A i, j \in 1 .. n : i < j => f[i] < f[j],
         \A x \in places : \E i \in 1 .. n : f[i] = x
  PROVE  /\ Cardinality(places) = n
         /\ \A k \in 1 .. n : Registry!Nth(places, k) = f[k]
<1>1. \A i, j \in 1 .. n : f[i] <= f[j] <=> i <= j
  <2> SUFFICES ASSUME NEW i \in 1 .. n, NEW j \in 1 .. n
               PROVE  f[i] <= f[j] <=> i <= j
    OBVIOUS
  <2>1. f[i] \in Int /\ f[j] \in Int /\ (i < j => f[i] < f[j]) /\ (j < i => f[j] < f[i])
    OBVIOUS
  <2> QED BY <2>1
<1>2. \A i, j \in 1 .. n : f[i] = f[j] => i = j
  <2> SUFFICES ASSUME NEW i \in 1 .. n, NEW j \in 1 .. n, f[i] = f[j] PROVE i = j
    OBVIOUS
  <2>1. f[i] \in Int /\ (i < j => f[i] < f[j]) /\ (j < i => f[j] < f[i])
    OBVIOUS
  <2> QED BY <2>1
<1>3. Cardinality(places) = n
  <2>1. f \in Bijection(1 .. n, places)
    BY <1>2, Fun_IsBij
  <2>2. ExistsBijection(1 .. n, places)
    BY <2>1, Fun_ExistsBij
  <2>3. IsFiniteSet(1 .. n) /\ Cardinality(1 .. n) = n
    BY FS_Interval
  <2> QED BY <2>2, <2>3, FS_Bijection
<1>4. ASSUME NEW k \in 1 .. n
      PROVE  Cardinality({j \in places : j <= f[k]}) = k
  <2> DEFINE below == {j \in places : j <= f[k]}
             g == [i \in 1 .. k |-> f[i]]
  <2>1. g \in [1 .. k -> below]
    BY <1>1
  <2>2. \A a, b \in 1 .. k : g[a] = g[b] => a = b
    BY <1>2
  <2>3. ASSUME NEW x \in below PROVE \E i \in 1 .. k : g[i] = x
    <3>1. PICK i \in 1 .. n : f[i] = x
      OBVIOUS
    <3>2. i \in 1 .. k
      BY <1>1, <3>1
    <3> QED BY <3>1, <3>2
  <2> HIDE DEF g, below
  <2>4. g \in Bijection(1 .. k, below)
    BY <2>1, <2>2, <2>3, Fun_IsBij
  <2>5. ExistsBijection(1 .. k, below)
    BY <2>4, Fun_ExistsBij
  <2>6. IsFiniteSet(1 .. k) /\ Cardinality(1 .. k) = k
    BY FS_Interval
  <2>7. Cardinality(below) = k
    BY <2>5, <2>6, FS_Bijection
  <2> QED BY <2>7 DEF below
<1>5. ASSUME NEW k \in 1 .. n PROVE Registry!Nth(places, k) = f[k]
  <2> DEFINE IsNth(i) == Cardinality({j \in places : j <= i}) = k
  <2>1. f[k] \in places /\ IsNth(f[k])
    BY <1>4
  <2>2. ASSUME NEW i \in places, IsNth(i) PROVE i = f[k]
    <3>1. PICK m \in 1 .. n : f[m] = i
      OBVIOUS
    <3>2. m = k
      BY <1>4, <2>2, <3>1
    <3> QED BY <3>1, <3>2
  <2>3. Registry!Nth(places, k) = CHOOSE i \in places : IsNth(i)
    BY SameCardinality DEF Registry!Nth
  <2> QED BY <2>1, <2>2, <2>3
<1> QED BY <1>3, <1>5

\* When the loop has come to its end, what is left is the members but one player.
LEMMA SelectsWithout ==
  ASSUME NEW s \in Seq(Member), NEW m \in Seq(Member), NEW who, NEW f,
         Selects(f, m, s, {i \in DOMAIN s : s[i].player # who})
  PROVE  Registry!Without(s, who) = m
<1> DEFINE places == {i \in DOMAIN s : s[i].player # who}
<1>1. Len(m) \in Nat /\ places \in SUBSET Int /\ f \in [1 .. Len(m) -> places]
  BY DEF Selects
<1>2. Cardinality(places) = Len(m) /\ \A k \in 1 .. Len(m) : Registry!Nth(places, k) = f[k]
  BY <1>1, NthPlace DEF Selects
<1>3. Registry!Without(s, who) = [k \in 1 .. Cardinality(places) |-> s[Registry!Nth(places, k)]]
  BY SameCardinality DEF Registry!Without
<1> HIDE DEF places
<1>4. \A k \in 1 .. Len(m) : s[Registry!Nth(places, k)] = m[k]
  BY <1>2 DEF Selects
<1>5. m = [k \in 1 .. Len(m) |-> m[k]]
  OBVIOUS
<1> QED BY <1>2, <1>3, <1>4, <1>5

\* The places, when the k-th of n is left out
Skipping(f, k, n) == [i \in 1 .. n - 1 |-> IF i < k THEN f[i] ELSE f[i + 1]]

\* The loop takes its player out at one place ...
LEMMA TakesOut ==
  ASSUME NEW s \in Seq(Member), NEW m \in Seq(Member), NEW who, NEW k \in 1 .. Len(m), NEW f,
         Selects(f, m, s, Unstripped(s, k, who)), \A i \in 1 .. k : f[i] = i,
         m[k].player = who
  PROVE  /\ Selects(Skipping(f, k, Len(m)), RemoveAt(m, k), s, Unstripped(s, k - 1, who))
         /\ \A i \in 1 .. k - 1 : Skipping(f, k, Len(m))[i] = i
<1> DEFINE new == RemoveAt(m, k)
           n == Len(m)
           g == [i \in 1 .. n - 1 |-> IF i < k THEN f[i] ELSE f[i + 1]]
<1>1. /\ n \in Nat /\ k \in 1 .. n /\ new \in Seq(Member) /\ Len(new) = n - 1
      /\ \A i \in 1 .. n - 1 : new[i] = IF i < k THEN m[i] ELSE m[i + 1]
  <2>1. n \in Nat
    BY LenProperties
  <2> QED BY <2>1, RemoveAtMember
<1>2. /\ f \in [1 .. n -> Unstripped(s, k, who)]
      /\ \A i, j \in 1 .. n : i < j => f[i] < f[j]
      /\ \A x \in Unstripped(s, k, who) : \E i \in 1 .. n : f[i] = x
      /\ \A i \in 1 .. n : m[i] = s[f[i]]
  BY DEF Selects
<1>3. f[k] = k /\ s[k].player = who /\ k \in 1 .. Len(s)
  <2>1. k \in 1 .. k
    BY <1>1
  <2>2. f[k] = k /\ m[k] = s[k] /\ k \in Unstripped(s, k, who)
    BY <1>1, <1>2, <2>1
  <2> QED BY <2>2 DEF Unstripped
<1>4. Unstripped(s, k - 1, who) = Unstripped(s, k, who) \ {k}
  BY <1>1, <1>3 DEF Unstripped
<1> HIDE DEF new, n
<1>5. Unstripped(s, k, who) \in SUBSET Int
  BY DEF Unstripped
<1>6. ASSUME NEW i \in 1 .. n - 1 PROVE g[i] \in Unstripped(s, k - 1, who)
  <2>1. CASE i < k
    BY <1>1, <1>2, <1>3, <1>4, <1>5, <2>1
  <2>2. CASE ~(i < k)
    <3>1. i + 1 \in 1 .. n /\ k < i + 1
      BY <1>1, <2>2
    <3>2. f[i + 1] \in Unstripped(s, k, who) /\ f[k] < f[i + 1]
      BY <1>1, <1>2, <3>1
    <3> QED BY <1>3, <1>4, <1>5, <2>2, <3>2
  <2> QED BY <2>1, <2>2
<1>7. ASSUME NEW i \in 1 .. n - 1, NEW j \in 1 .. n - 1, i < j PROVE g[i] < g[j]
  <2>1. i \in 1 .. n /\ i + 1 \in 1 .. n /\ j \in 1 .. n /\ j + 1 \in 1 .. n
    BY <1>1, <1>7
  <2>2. f[i] < f[j] /\ f[i] < f[j + 1] /\ f[i + 1] < f[j + 1]
    BY <1>2, <1>7, <2>1
  <2> QED BY <1>1, <1>7, <2>2
<1>8. ASSUME NEW x \in Unstripped(s, k - 1, who) PROVE \E i \in 1 .. n - 1 : g[i] = x
  <2>1. PICK i \in 1 .. n : f[i] = x
    BY <1>2, <1>4
  <2>2. i # k
    BY <1>3, <1>4, <2>1
  <2>3. CASE i < k
    BY <1>1, <2>1, <2>3
  <2>4. CASE k < i
    <3>1. i - 1 \in 1 .. n - 1 /\ ~(i - 1 < k) /\ (i - 1) + 1 = i
      BY <1>1, <2>4
    <3> QED BY <2>1, <3>1
  <2> QED BY <1>1, <2>2, <2>3, <2>4
<1>9. ASSUME NEW i \in 1 .. n - 1 PROVE new[i] = s[g[i]]
  <2>1. i \in 1 .. n /\ i + 1 \in 1 .. n
    BY <1>1
  <2> QED BY <1>1, <1>2, <2>1
<1>10. \A i \in 1 .. k - 1 : g[i] = i
  BY <1>1
<1>11. Selects(g, new, s, Unstripped(s, k - 1, who))
  BY <1>1, <1>6, <1>7, <1>8, <1>9 DEF Selects
<1> QED BY <1>10, <1>11 DEF new, n, Skipping

\* ... and goes past any other.
LEMMA GoesPast ==
  ASSUME NEW s \in Seq(Member), NEW m \in Seq(Member), NEW who, NEW k \in 1 .. Len(m), NEW f,
         Selects(f, m, s, Unstripped(s, k, who)), \A i \in 1 .. k : f[i] = i,
         m[k].player # who
  PROVE  Selects(f, m, s, Unstripped(s, k - 1, who)) /\ \A i \in 1 .. k - 1 : f[i] = i
<1>1. /\ k \in 1 .. Len(m) /\ Len(m) \in Nat
      /\ f \in [1 .. Len(m) -> Unstripped(s, k, who)] /\ \A i \in 1 .. Len(m) : m[i] = s[f[i]]
  BY LenProperties DEF Selects
<1>2. s[k].player # who /\ f[k] = k
  BY <1>1
<1>3. Unstripped(s, k - 1, who) = Unstripped(s, k, who)
  BY <1>1, <1>2 DEF Unstripped
<1> QED BY <1>1, <1>3

\* A call that is between two parties or at its ends has nothing to say.
LEMMA WholeAtEnds ==
  ASSUME NEW c, NEW table, c.op # "none",
         \/ c.pc \in {"lock", "next", "readMembers", "unlock", "done"}
         \/ c.pc = "failed" /\ c.op = "get"
         \/ c.pc = "saveMembers" /\ c.op = "save"
  PROVE  WholeInv(c, table)
BY DEF WholeInv

\* Nor has one outside the mutex anything to say of the table.
LEMMA WholeOutside ==
  ASSUME NEW c, CallShape(c), ~Held(c), NEW table, NEW new, WholeInv(c, table)
  PROVE  WholeInv(c, new)
<1>1. /\ c.pc \notin {"readExtras", "readMeta", "strip", "delete", "saveExtras", "saveMeta"}
      /\ ~(c.op = "remove" /\ c.pc = "saveMembers")
  BY DEF CallShape, Held, HeldOnce, HeldTwice, Reads, Saves
<1> QED BY <1>1 DEF WholeInv

LEMMA ReadsWhole ==
  ASSUME IInv, NEW t \in Thread, WholeInv(call[t], rows),
         ReadMembers(t) \/ ReadExtras(t) \/ ReadMeta(t)
  PROVE  WholeInv(call'[t], rows')
<1> DEFINE c == call[t]
           row == rows[c.id]
<1>1. /\ c \in Call /\ CallShape(c) /\ rows' = rows
      /\ c.op \in {"get", "remove"} /\ c.id \in PartyId
      /\ row # NoRow => row \in Row /\ row.members # Null
      /\ \A d : Becomes(t, d) => call'[t] = d
  BY BecomesOne
  DEF IInv, TypeOK, RowsInv, MembersColumnSet, CallShape, Reads, Saves, ReadMembers, ReadExtras, ReadMeta
<1>2. CASE Becomes(t, Absent(c)) /\ row = NoRow
  <2> DEFINE d == Absent(c)
  <2>1. /\ d.op = c.op /\ d.id = c.id
        /\ c.op = "get" => d.pc = "unlock"
        /\ c.op = "remove" => d.pc = "delete"
    BY <1>1 DEF Absent, Call
  <2>2. call'[t] = d /\ (c.op = "get" \/ c.op = "remove") /\ rows'[d.id] = NoRow
    BY <1>1, <1>2, <2>1
  <2> HIDE DEF d
  <2> QED BY <2>1, <2>2 DEF WholeInv
<1>3. CASE ReadMembers(t)
  <2> DEFINE party == [members |-> row.members, ext |-> DefaultExt, code |-> NoCode, version |-> 1]
             d == [c EXCEPT !.pc = "readExtras", !.party = party]
  <2>1. CASE row # NoRow /\ Becomes(t, d)
    <3>1. d.pc = "readExtras" /\ d.op = c.op /\ d.id = c.id /\ d.party = party
      BY <1>1 DEF Call
    <3>2. party.members = row.members /\ party.ext = DefaultExt /\ call'[t] = d
      BY <1>1, <2>1
    <3> HIDE DEF d, party
    <3> QED BY <1>1, <2>1, <3>1, <3>2 DEF WholeInv
  <2> QED BY <1>1, <1>2, <1>3, <2>1 DEF ReadMembers
<1>4. CASE ReadExtras(t)
  <2>1. row # NoRow /\ c.party.members = row.members /\ c.party.ext = DefaultExt /\ c.party \in Party
    BY <1>1, <1>4 DEF ReadExtras, WholeInv, CallShape
  <2>2. CASE row.ext = Null /\ Step(t, "readMeta")
    <3> DEFINE d == [c EXCEPT !.pc = "readMeta"]
    <3>1. d.pc = "readMeta" /\ d.op = c.op /\ d.id = c.id /\ d.party = c.party
      BY <1>1 DEF Call
    <3> QED BY <1>1, <2>1, <2>2, <3>1 DEF WholeInv, AsRead, Step
  <2>3. CASE row.ext # Null /\ Becomes(t, [c EXCEPT !.pc = "readMeta", !.party = [@ EXCEPT !.ext = row.ext]])
    <3> DEFINE party == [c.party EXCEPT !.ext = row.ext]
               d == [c EXCEPT !.pc = "readMeta", !.party = party]
    <3>1. d.pc = "readMeta" /\ d.op = c.op /\ d.id = c.id /\ d.party = party
      BY <1>1 DEF Call
    <3>2. party.members = c.party.members /\ party.ext = row.ext
      BY <2>1 DEF Party
    <3>3. call'[t] = d
      BY <1>1, <2>3
    <3> HIDE DEF d, party
    <3> QED BY <1>1, <2>1, <2>3, <3>1, <3>2, <3>3 DEF WholeInv, AsRead
  <2> QED BY <1>4, <2>1, <2>2, <2>3 DEF ReadExtras
<1>5. CASE ReadMeta(t)
  <2> DEFINE party == WithMeta(c.party, MetaOf(row))
  <2>1. row # NoRow /\ c.party.members = row.members /\ c.party.ext = AsRead(row).ext
    BY <1>5 DEF ReadMeta, WholeInv
  <2>2. party = AsRead(row)
    BY <2>1 DEF WithMeta, AsRead
  <2>3. CASE c.op = "get" /\ Becomes(t, [c EXCEPT !.pc = "unlock", !.party = party])
    <3> DEFINE d == [c EXCEPT !.pc = "unlock", !.party = party]
    <3>1. d.pc = "unlock" /\ d.op = c.op
      BY <1>1 DEF Call
    <3> QED BY <1>1, <2>3, <3>1, WholeAtEnds
  <2>4. CASE c.op = "remove" /\ Becomes(t, Stripping(c, party))
    <3> DEFINE d == Stripping(c, party)
               s == row.members
               f == [i \in 1 .. Len(s) |-> i]
    <3>1. /\ d.pc = "strip" /\ d.op = c.op /\ d.id = c.id /\ d.party = AsRead(row)
          /\ d.at = Len(s) /\ d.removed = FALSE
      BY <2>2 DEF Stripping, AsRead
    <3>2. s \in Seq(Member) /\ Len(s) \in Nat /\ d.party.members = s
      BY <1>1, <2>1, <3>1 DEF Row, AsRead
    <3>3. WithMembers(AsRead(row), s) = AsRead(row)
      BY DEF WithMembers, AsRead
    <3>4. Unstripped(s, d.at, d.who) = 1 .. Len(s)
      BY <3>1, <3>2 DEF Unstripped
    <3>5. Selects(f, s, s, Unstripped(s, d.at, d.who)) /\ \A i \in 1 .. d.at : f[i] = i
      BY <3>1, <3>2, <3>4 DEF Selects
    <3>6. f \in [1 .. Len(s) -> 1 .. Len(s)]
      OBVIOUS
    <3>7. call'[t] = d
      BY <1>1, <2>4
    <3> HIDE DEF f, d
    <3>8. StripInv(d, row)
      BY <3>1, <3>2, <3>3, <3>5, <3>6 DEF StripInv
    <3> QED BY <1>1, <2>1, <2>4, <3>1, <3>7, <3>8 DEF WholeInv
  <2> QED BY <1>5, <2>1, <2>3, <2>4 DEF ReadMeta
<1> QED BY <1>3, <1>4, <1>5

LEMMA StripsWhole ==
  ASSUME IInv, NEW t \in Thread, WholeInv(call[t], rows), StripMember(t)
  PROVE  WholeInv(call'[t], rows')
<1> DEFINE c == call[t]
           row == rows[c.id]
           s == row.members
           m == c.party.members
<1>1. /\ c \in Call /\ CallShape(c) /\ rows' = rows /\ c.pc = "strip" /\ c.op = "remove"
      /\ c.id \in PartyId /\ c.party \in Party /\ m \in Seq(Member) /\ Len(m) \in Nat
      /\ c.at \in Nat /\ c.at \in 1 .. Len(m)
      /\ row # NoRow /\ row \in Row /\ s \in Seq(Member)
      /\ StripInv(c, row)
      /\ \A d : Becomes(t, d) => call'[t] = d
  <2>1. c \in Call /\ CallShape(c) /\ c.pc = "strip" /\ rows' = rows /\ c.at > 0
    BY DEF IInv, TypeOK, StripMember
  <2>2. c.op = "remove" /\ c.id \in PartyId /\ c.party \in Party /\ c.at <= Len(m)
    BY <2>1 DEF CallShape, Reads, Saves
  <2>3. row # NoRow /\ StripInv(c, row)
    BY <2>1 DEF WholeInv
  <2>4. row \in Row /\ s # Null
    BY <2>2, <2>3 DEF IInv, TypeOK, RowsInv, MembersColumnSet
  <2>5. c.at \in Nat /\ m \in Seq(Member) /\ s \in Seq(Member)
    BY <2>1, <2>2, <2>4 DEF Call, Party, Row
  <2>6. Len(m) \in Nat
    BY <2>5, LenProperties
  <2> QED BY <2>1, <2>2, <2>3, <2>4, <2>5, <2>6, BecomesOne
<1>2. PICK f \in [1 .. Len(m) -> 1 .. Len(s)] :
        Selects(f, m, s, Unstripped(s, c.at, c.who)) /\ \A i \in 1 .. c.at : f[i] = i
  BY <1>1 DEF StripInv
<1>3. CASE /\ m[c.at].player = c.who
           /\ Becomes(t, [c EXCEPT !.party = WithMembers(@, RemoveAt(m, c.at)), !.at = @ - 1,
                                   !.removed = TRUE])
  <2> DEFINE new == RemoveAt(m, c.at)
             d == [c EXCEPT !.party = WithMembers(@, new), !.at = @ - 1, !.removed = TRUE]
  <2>1. /\ d.pc = "strip" /\ d.op = c.op /\ d.id = c.id /\ d.who = c.who
        /\ d.at = c.at - 1 /\ d.removed = TRUE /\ d.party = WithMembers(c.party, new)
    BY <1>1 DEF Call
  <2>2. call'[t] = d
    BY <1>1, <1>3
  <2> HIDE DEF d
  <2>3. \E g : Selects(g, new, s, Unstripped(s, d.at, d.who)) /\ \A i \in 1 .. d.at : g[i] = i
    <3>1. c.at \in 1 .. Len(m) /\ s \in Seq(Member) /\ m \in Seq(Member) /\ m[c.at].player = c.who
      BY <1>1, <1>3
    <3>2. /\ Selects(Skipping(f, c.at, Len(m)), new, s, Unstripped(s, c.at - 1, c.who))
          /\ \A i \in 1 .. c.at - 1 : Skipping(f, c.at, Len(m))[i] = i
      BY <1>2, <3>1, TakesOut
    <3> QED BY <2>1, <3>2
  <2> HIDE DEF new
  <2>4. PICK g : Selects(g, new, s, Unstripped(s, d.at, d.who)) /\ \A i \in 1 .. d.at : g[i] = i
    BY <2>3
  <2>5. g \in [1 .. Len(new) -> 1 .. Len(s)]
    BY <2>4 DEF Selects, Unstripped
  <2>6. In(c.who, s)
    <3>1. c.at \in 1 .. Len(m) /\ c.at \in 1 .. c.at /\ s \in Seq(Member)
      BY <1>1
    <3>2. \A i \in 1 .. Len(m) : m[i] = s[f[i]] /\ f[i] \in 1 .. Len(s)
      BY <1>2 DEF Selects
    <3>3. m[c.at] = s[c.at] /\ c.at \in DOMAIN s
      BY <1>2, <3>1, <3>2
    <3> QED BY <1>3, <3>3 DEF In
  <2>7. d.party.members = new /\ d.party = WithMembers(AsRead(row), new)
    <3>1. c.party = WithMembers(AsRead(row), m)
      BY <1>1 DEF StripInv
    <3>2. WithMembers(WithMembers(AsRead(row), m), new) = WithMembers(AsRead(row), new)
      BY DEF WithMembers, AsRead
    <3>3. WithMembers(AsRead(row), new).members = new
      BY DEF WithMembers, AsRead
    <3> QED BY <2>1, <3>1, <3>2, <3>3
  <2>8. StripInv(d, row)
    BY <2>1, <2>4, <2>5, <2>6, <2>7 DEF StripInv
  <2> QED BY <1>1, <2>1, <2>2, <2>8 DEF WholeInv
<1>4. CASE m[c.at].player # c.who /\ Becomes(t, [c EXCEPT !.at = @ - 1])
  <2> DEFINE d == [c EXCEPT !.at = @ - 1]
  <2>1. /\ d.pc = "strip" /\ d.op = c.op /\ d.id = c.id /\ d.who = c.who
        /\ d.at = c.at - 1 /\ d.removed = c.removed /\ d.party = c.party
    BY <1>1 DEF Call
  <2>2. call'[t] = d
    BY <1>1, <1>4
  <2> HIDE DEF d
  <2>3. Selects(f, m, s, Unstripped(s, d.at, d.who)) /\ \A i \in 1 .. d.at : f[i] = i
    <3>1. c.at \in 1 .. Len(m) /\ s \in Seq(Member) /\ m \in Seq(Member) /\ m[c.at].player # c.who
      BY <1>1, <1>4
    <3>2. Selects(f, m, s, Unstripped(s, c.at - 1, c.who)) /\ \A i \in 1 .. c.at - 1 : f[i] = i
      BY <1>2, <3>1, GoesPast
    <3> QED BY <2>1, <3>2
  <2>4. StripInv(d, row)
    BY <1>1, <1>2, <2>1, <2>3 DEF StripInv
  <2> QED BY <1>1, <2>1, <2>2, <2>4 DEF WholeInv
<1> QED BY <1>3, <1>4 DEF StripMember

LEMMA LeaveIs ==
  \A party, who, rest :
    Registry!Without(party.members, who) = rest =>
      Registry!Leave(party, who) =
        IF rest = <<>> THEN NoParty ELSE WithMembers(party, Promote(rest))
BY DEF Registry!Leave, Promote, HasLeader, WithMembers

LEMMA StrippedWhole ==
  ASSUME IInv, NEW t \in Thread, WholeInv(call[t], rows), Stripped(t)
  PROVE  WholeInv(call'[t], rows')
<1> DEFINE c == call[t]
           row == rows[c.id]
           s == row.members
           m == c.party.members
<1>1. /\ c \in Call /\ CallShape(c) /\ rows' = rows /\ c.pc = "strip" /\ c.op = "remove"
      /\ c.at = 0 /\ c.id \in PartyId /\ m \in Seq(Member) /\ Len(m) \in Nat
      /\ row # NoRow /\ row \in Row /\ s \in Seq(Member)
      /\ StripInv(c, row)
      /\ \A d : Becomes(t, d) => call'[t] = d
  <2>1. c \in Call /\ CallShape(c) /\ c.pc = "strip" /\ rows' = rows /\ c.at = 0
    BY DEF IInv, TypeOK, Stripped
  <2>2. c.op = "remove" /\ c.id \in PartyId /\ c.party \in Party
    BY <2>1 DEF CallShape, Reads, Saves
  <2>3. row # NoRow /\ StripInv(c, row)
    BY <2>1 DEF WholeInv
  <2>4. row \in Row /\ s # Null
    BY <2>2, <2>3 DEF IInv, TypeOK, RowsInv, MembersColumnSet
  <2>5. m \in Seq(Member) /\ s \in Seq(Member)
    BY <2>2, <2>4 DEF Party, Row
  <2>6. Len(m) \in Nat
    BY <2>5, LenProperties
  <2> QED BY <2>1, <2>2, <2>3, <2>4, <2>5, <2>6, BecomesOne
<1>2. PICK f \in [1 .. Len(m) -> 1 .. Len(s)] : Selects(f, m, s, Unstripped(s, c.at, c.who))
  BY <1>1 DEF StripInv
<1>3. Unstripped(s, c.at, c.who) = {i \in DOMAIN s : s[i].player # c.who}
  BY <1>1 DEF Unstripped
<1>4. CASE Step(t, "next")
  <2> DEFINE d == [c EXCEPT !.pc = "next"]
  <2>1. call'[t] = d /\ d.pc = "next" /\ d.op = "remove"
    BY <1>1, <1>4 DEF Step, Call
  <2> QED BY <2>1, WholeAtEnds
<1>5. CASE m = <<>> /\ Step(t, "delete")
  <2> DEFINE d == [c EXCEPT !.pc = "delete"]
  <2>1. call'[t] = d /\ d.pc = "delete" /\ d.op = "remove" /\ d.id = c.id /\ d.who = c.who
    BY <1>1, <1>5 DEF Step, Call
  <2>2. \A i \in DOMAIN s : s[i].player = c.who
    <3>1. 1 .. Len(m) = {}
      BY <1>5
    <3>2. Unstripped(s, c.at, c.who) = {}
      BY <1>2, <3>1 DEF Selects
    <3> QED BY <1>3, <3>2
  <2> HIDE DEF d
  <2> QED BY <1>1, <2>1, <2>2 DEF WholeInv
<1>6. CASE /\ c.removed /\ m # <<>>
           /\ Becomes(t, [c EXCEPT !.pc = "saveMembers", !.party = WithMembers(@, Promote(m))])
  <2> DEFINE party == WithMembers(c.party, Promote(m))
             d == [c EXCEPT !.pc = "saveMembers", !.party = party]
  <2>1. /\ d.pc = "saveMembers" /\ d.op = "remove" /\ d.id = c.id
        /\ d.who = c.who /\ d.party = party
    BY <1>1 DEF Call
  <2>2. call'[t] = d
    BY <1>1, <1>6
  <2> HIDE DEF d
  <2>3. Registry!Without(s, c.who) = m
    BY <1>1, <1>2, <1>3, SelectsWithout
  <2>4. AsRead(row).members = s
    BY DEF AsRead
  <2>5. Registry!Leave(AsRead(row), c.who) = [AsRead(row) EXCEPT !.members = Promote(m)]
    <3> DEFINE whole == AsRead(row)
    <3>1. Registry!Without(whole.members, c.who) = m /\ m # <<>>
      BY <1>6, <2>3, <2>4
    <3>2. Registry!Leave(whole, c.who) = WithMembers(whole, Promote(m))
      BY <3>1, LeaveIs
    <3> QED BY <3>2 DEF WithMembers
  <2>6. party = [AsRead(row) EXCEPT !.members = Promote(m)]
    BY <1>1 DEF StripInv, WithMembers, AsRead
  <2>7. In(c.who, s)
    BY <1>1, <1>6 DEF StripInv
  <2> HIDE DEF party
  <2> QED BY <1>1, <2>1, <2>2, <2>5, <2>6, <2>7 DEF WholeInv
<1> QED BY <1>4, <1>5, <1>6 DEF Stripped

LEMMA SavesWhole ==
  ASSUME IInv, NEW t \in Thread, WholeInv(call[t], rows), SaveMembers(t) \/ SaveExtras(t)
  PROVE  WholeInv(call'[t], rows')
<1> DEFINE c == call[t]
<1>1. /\ c \in Call /\ c.id \in PartyId /\ c.op \in {"save", "remove"}
      /\ rows \in [PartyId -> Row \union {NoRow}]
      /\ \A d : Becomes(t, d) => call'[t] = d
  BY BecomesOne DEF IInv, TypeOK, CallShape, Saves, SaveMembers, SaveExtras
<1>2. CASE SaveMembers(t)
  <2> DEFINE d == [c EXCEPT !.pc = "saveExtras"]
             row == [Upsert(c.id) EXCEPT !.members = c.party.members]
  <2>1. d.pc = "saveExtras" /\ d.op = c.op /\ d.id = c.id /\ d.party = c.party
    BY <1>1 DEF Call
  <2>2. call'[t] = d /\ rows'[c.id] = row
    BY <1>1, <1>2 DEF SaveMembers, Step
  <2>3. Upsert(c.id) \in Row
    BY <1>1 DEF Upsert, EmptyRow, Row
  <2>4. row.members = c.party.members
    BY <2>3 DEF Row
  <2> HIDE DEF d, row
  <2> QED BY <1>1, <2>1, <2>2, <2>4 DEF WholeInv
<1>3. CASE SaveExtras(t)
  <2> DEFINE d == [c EXCEPT !.pc = "saveMeta"]
             row == [Upsert(c.id) EXCEPT !.ext = c.party.ext]
  <2>1. d.pc = "saveMeta" /\ d.op = c.op /\ d.id = c.id /\ d.party = c.party
    BY <1>1 DEF Call
  <2>2. call'[t] = d /\ rows'[c.id] = row
    BY <1>1, <1>3 DEF SaveExtras, Step
  <2>3. rows[c.id] # NoRow /\ rows[c.id].members = c.party.members
    BY <1>3 DEF SaveExtras, IInv, RowsInv, WholeInv
  <2>4. Upsert(c.id) = rows[c.id] /\ rows[c.id] \in Row
    BY <1>1, <2>3 DEF Upsert
  <2>5. row.ext = c.party.ext /\ row.members = rows[c.id].members
    BY <2>4 DEF Row
  <2> HIDE DEF d, row
  <2> QED BY <1>1, <2>1, <2>2, <2>3, <2>5 DEF WholeInv
<1> QED BY <1>2, <1>3

LEMMA EndsWhole ==
  ASSUME IInv, NEW t \in Thread,
         \/ EnterAndLock(t) \/ NextParty(t) \/ UnlockAndReturn(t)
         \/ DeleteParty(t) \/ SaveMeta(t)
  PROVE  WholeInv(call'[t], rows')
<1> DEFINE c == call[t]
           d == call'[t]
<1>1. c \in Call /\ CallShape(c) /\ \A e : Becomes(t, e) => d = e
  BY BecomesOne DEF IInv, TypeOK
<1>2. c.op # "none"
  BY <1>1
  DEF CallShape, Reads, Saves, EnterAndLock, NextParty, UnlockAndReturn, DeleteParty, SaveMeta
<1>3. \A pc : Step(t, pc) => d.op = c.op /\ d.pc = pc
  BY <1>1 DEF Step, Call
<1>4. d.op = c.op /\ (d.pc \in {"next", "readMembers", "unlock", "done"} \/ (d.pc = "failed" /\ d.op = "get"))
  <2>1. CASE EnterAndLock(t)
    <3>1. CASE Becomes(t, [c EXCEPT !.pc = "next", !.todo = {id \in PartyId : rows[id] # NoRow}])
      <4> DEFINE todo == {id \in PartyId : rows[id] # NoRow}
      <4> HIDE DEF todo
      <4>1. d = [c EXCEPT !.pc = "next", !.todo = todo]
        BY <1>1, <3>1 DEF todo
      <4> QED BY <1>1, <4>1 DEF Call
    <3> QED BY <1>3, <2>1, <3>1 DEF EnterAndLock
  <2>2. CASE NextParty(t)
    <3>1. CASE \E id \in c.todo : Becomes(t, [c EXCEPT !.pc = "readMembers", !.id = id, !.todo = @ \ {id}])
      <4>1. PICK id \in c.todo : Becomes(t, [c EXCEPT !.pc = "readMembers", !.id = id, !.todo = @ \ {id}])
        BY <3>1
      <4> DEFINE todo == c.todo \ {id}
      <4> HIDE DEF todo
      <4>2. d = [c EXCEPT !.pc = "readMembers", !.id = id, !.todo = todo]
        BY <1>1, <4>1 DEF todo
      <4> QED BY <1>1, <4>2 DEF Call
    <3> QED BY <1>3, <2>2, <3>1 DEF NextParty
  <2>3. CASE UnlockAndReturn(t)
    BY <1>1, <1>3, <2>3 DEF UnlockAndReturn
  <2>4. CASE DeleteParty(t) \/ SaveMeta(t)
    BY <1>1, <1>3, <2>4 DEF DeleteParty, SaveMeta
  <2> QED BY <2>1, <2>2, <2>3, <2>4
<1> HIDE DEF c, d
<1> QED BY <1>2, <1>4, WholeAtEnds DEF d

LEMMA ProceedsWhole ==
  ASSUME IInv, \A u \in Thread : WholeInv(call[u], rows), NEW t \in Thread, CallProceeds(t)
  PROVE  \A u \in Thread : WholeInv(call'[u], rows')
<1>1. WholeInv(call'[t], rows')
  BY EndsWhole, ReadsWhole, StripsWhole, StrippedWhole, SavesWhole DEF CallProceeds
<1>2. ASSUME NEW u \in Thread \ {t} PROVE WholeInv(call'[u], rows')
  <2>1. call'[u] = call[u] /\ CallShape(call[u]) /\ WholeInv(call[u], rows)
    BY CallStepEffect DEF CallStep, IInv
  <2>2. rows' = rows \/ Alone(t)
    BY WriterAlone DEF CallStep
  <2>3. CASE Alone(t)
    BY <2>1, <2>3, WholeOutside DEF Alone
  <2> QED BY <2>1, <2>2, <2>3
<1> QED BY <1>1, <1>2

LEMMA CallerWhole ==
  ASSUME IInv, \A u \in Thread : WholeInv(call[u], rows), NEW t \in Thread, Caller(t)
  PROVE  \A u \in Thread : WholeInv(call'[u], rows')
<1>1. ASSUME NEW d, Becomes(t, d), UNCHANGED rows,
             \/ d.op # "none" /\ d.pc = "lock"
             \/ d.op = "save" /\ d.pc = "saveMembers"
             \/ d = NoCall
      PROVE  \A u \in Thread : WholeInv(call'[u], rows')
  <2>1. call'[t] = d /\ \A u \in Thread \ {t} : call'[u] = call[u]
    BY <1>1, BecomesOne
  <2>2. WholeInv(d, rows)
    BY <1>1, WholeAtEnds DEF NoCall, WholeInv
  <2> QED BY <1>1, <2>1, <2>2
<1>2. ASSUME NEW id \in PartyId, NEW party \in Drafts, CallSaveParty(t, id, party)
      PROVE  \A u \in Thread : WholeInv(call'[u], rows')
  <2>1. Saving(id, party).op = "save" /\ Saving(id, party).pc = "saveMembers"
    BY DEF Saving, NoCall
  <2> QED BY <1>1, <1>2, <2>1 DEF CallSaveParty
<1>3. ASSUME NEW id \in PartyId, CallGetPartyRes(t, id)
      PROVE  \A u \in Thread : WholeInv(call'[u], rows')
  BY <1>1, <1>3 DEF CallGetPartyRes, NoCall
<1>4. ASSUME NEW player \in Player, CallRemovePlayer(t, player)
      PROVE  \A u \in Thread : WholeInv(call'[u], rows')
  BY <1>1, <1>4 DEF CallRemovePlayer, NoCall
<1>5. CASE Return(t)
  BY <1>1, <1>5 DEF Return
<1> QED BY <1>2, <1>3, <1>4, <1>5 DEF Caller

-----------------------------------------------------------------------------
(* The table and the calls as PartyRegistry has them *)

Parties == [id \in PartyId |-> PartyOf(id)]
Pending == [t \in Thread |-> PendingOf(call[t])]

\* The party of an id, if the call c is the only one that may be saving
Saver(c, id) == c.pc \in {"saveExtras", "saveMeta"} /\ c.id = id
Seen(id, c, table) ==
  IF Saver(c, id) THEN c.party
  ELSE IF table[id] = NoRow THEN NoParty ELSE AsRead(table[id])

LEMMA StepSees ==
  ASSUME IInv, NEW t \in Thread, Alone(t), \A u \in Thread \ {t} : call'[u] = call[u],
         NEW id \in PartyId
  PROVE  /\ PartyOf(id) = Seen(id, call[t], rows)
         /\ PartyOf(id)' = Seen(id, call'[t], rows')
<1>1. \A u \in Thread \ {t} : call[u].pc \notin {"saveExtras", "saveMeta"}
  BY DEF Alone, IInv, CallShape, Saves, Held, HeldOnce, HeldTwice
<1>2. Savers(id) = IF Saver(call[t], id) THEN {t} ELSE {}
  BY <1>1 DEF Savers, Saver
<1>3. Savers(id)' = IF Saver(call'[t], id) THEN {t} ELSE {}
  BY <1>1 DEF Savers, Saver
<1>4. PartyOf(id) = Seen(id, call[t], rows)
  <2>1. CASE Saver(call[t], id)
    <3>1. (CHOOSE u \in Thread : u \in Savers(id)) = t
      BY <1>2, <2>1
    <3> QED BY <1>2, <2>1, <3>1 DEF PartyOf, Seen
  <2>2. CASE ~Saver(call[t], id)
    BY <1>2, <2>2 DEF PartyOf, Seen
  <2> QED BY <2>1, <2>2
<1>5. PartyOf(id)' = Seen(id, call'[t], rows')
  <2>1. CASE Saver(call'[t], id)
    <3>1. (CHOOSE u \in Thread : u \in Savers(id)') = t
      BY <1>3, <2>1
    <3> QED BY <1>3, <2>1, <3>1 DEF PartyOf, Seen
  <2>2. CASE ~Saver(call'[t], id)
    BY <1>3, <2>2 DEF PartyOf, Seen
  <2> QED BY <2>1, <2>2
<1> QED BY <1>4, <1>5

\* A caller that is not saving changes nobody's party.
LEMMA OutsideSees ==
  ASSUME NEW t \in Thread, \A u \in Thread \ {t} : call'[u] = call[u], UNCHANGED rows,
         call[t].pc \notin {"saveExtras", "saveMeta"},
         call'[t].pc \notin {"saveExtras", "saveMeta"}
  PROVE  UNCHANGED Parties
<1> SUFFICES ASSUME NEW id \in PartyId PROVE PartyOf(id)' = PartyOf(id)
  BY DEF Parties
<1>1. Savers(id)' = Savers(id)
  BY DEF Savers
<1>2. CASE Savers(id) = {}
  BY <1>1, <1>2 DEF PartyOf
<1>3. CASE Savers(id) # {}
  <2> DEFINE s == CHOOSE u \in Thread : u \in Savers(id)
  <2>1. s \in Savers(id)
    BY <1>3 DEF Savers
  <2>2. s \in Thread \ {t}
    BY <2>1 DEF Savers
  <2>3. PartyOf(id) = call[s].party /\ PartyOf(id)' = call'[s].party
    BY <1>1, <1>3 DEF PartyOf
  <2> QED BY <2>2, <2>3
<1> QED BY <1>2, <1>3

LEMMA PendingChanges ==
  ASSUME NEW t \in Thread, \A u \in Thread \ {t} : call'[u] = call[u]
  PROVE  /\ Pending[t] = PendingOf(call[t])
         /\ Pending'[t] = PendingOf(call'[t])
         /\ Pending' = [Pending EXCEPT ![t] = PendingOf(call'[t])]
         /\ PendingOf(call'[t]) = PendingOf(call[t]) => UNCHANGED Pending
BY DEF Pending

LEMMA PartiesChange ==
  ASSUME NEW id \in PartyId, NEW x,
         \A i \in PartyId : PartyOf(i)' = IF i = id THEN x ELSE PartyOf(i)
  PROVE  Parties' = [Parties EXCEPT ![id] = x]
BY DEF Parties

\* What a thread has asked for, or was returned
LEMMA PendingIs ==
  ASSUME NEW c
  PROVE  /\ c.pc = "idle" => PendingOf(c) = Null
         /\ c.op = "save" /\ c.pc = "saveMembers" =>
              PendingOf(c) = [op |-> "save", id |-> c.id, party |-> c.party]
         /\ c.op = "save" /\ c.pc \notin {"idle", "saveMembers"} =>
              PendingOf(c) = [op |-> "returned", party |-> NoParty]
         /\ c.op = "get" /\ c.pc \in {"lock"} \union Reads =>
              PendingOf(c) = [op |-> "get", id |-> c.id]
         /\ c.op = "get" /\ c.pc \in {"unlock", "done", "failed"} =>
              PendingOf(c) = [op |-> "returned", party |-> c.party]
         /\ c.op = "remove" /\ c.pc \notin {"idle", "done"} =>
              PendingOf(c) = [op |-> "remove", who |-> c.who]
         /\ c.op = "remove" /\ c.pc = "done" =>
              PendingOf(c) = [op |-> "returned", party |-> NoParty]
<1>1. CASE c.pc = "idle"
  BY <1>1 DEF PendingOf, Reads
<1>2. CASE c.pc # "idle" /\ c.op = "save"
  BY <1>2 DEF PendingOf, Reads
<1>3. CASE c.pc # "idle" /\ c.op = "get"
  BY <1>3 DEF PendingOf, Reads
<1>4. CASE c.pc # "idle" /\ c.op = "remove"
  BY <1>4 DEF PendingOf, Reads
<1> QED BY <1>1, <1>2, <1>3, <1>4

\* Nobody asks for the none-value.
LEMMA AskedIsSomething ==
  /\ \A id \in PartyId, party \in Party : [op |-> "save", id |-> id, party |-> party] # Null
  /\ \A id \in PartyId : [op |-> "get", id |-> id] # Null
  /\ \A who \in Player : [op |-> "remove", who |-> who] # Null
  /\ \A party \in Party \union {NoParty} : [op |-> "returned", party |-> party] # Null
BY PendingAssumption DEF Registry!Asked

\* The steps of PartyRegistry, of a thread that alone moves
LEMMA MakesGet ==
  ASSUME NEW t \in Thread, \A u \in Thread \ {t} : call'[u] = call[u], UNCHANGED Parties,
         NEW id \in PartyId, PendingOf(call[t]) = [op |-> "get", id |-> id],
         PendingOf(call'[t]) = [op |-> "returned", party |-> PartyOf(id)]
  PROVE  Registry!Next
<1>1. Pending[t] # Null /\ Pending[t].op = "get" /\ Pending[t].id = id
  BY PendingChanges, AskedIsSomething
<1>2. Pending' = [Pending EXCEPT ![t] = Registry!Returned(Parties[id])]
  BY PendingChanges DEF Registry!Returned, Parties
<1>3. Registry!Get(t)
  BY <1>1, <1>2 DEF Registry!Get, Parties, Pending
<1> QED BY <1>3 DEF Registry!Next

LEMMA MakesSave ==
  ASSUME NEW t \in Thread, \A u \in Thread \ {t} : call'[u] = call[u],
         NEW id \in PartyId, NEW party \in Party, Parties' = [Parties EXCEPT ![id] = party],
         PendingOf(call[t]) = [op |-> "save", id |-> id, party |-> party],
         PendingOf(call'[t]) = [op |-> "returned", party |-> NoParty]
  PROVE  Registry!Next
<1>1. Pending[t] # Null /\ Pending[t].op = "save" /\ Pending[t].id = id /\ Pending[t].party = party
  BY PendingChanges, AskedIsSomething
<1>2. Pending' = [Pending EXCEPT ![t] = Registry!Returned(NoParty)]
  BY PendingChanges DEF Registry!Returned
<1>3. Registry!Save(t)
  BY <1>1, <1>2 DEF Registry!Save, Parties, Pending
<1> QED BY <1>3 DEF Registry!Next

LEMMA MakesRemoveFrom ==
  ASSUME NEW t \in Thread, \A u \in Thread \ {t} : call'[u] = call[u],
         NEW id \in PartyId, NEW who \in Player,
         PartyOf(id) # NoParty, In(who, PartyOf(id).members),
         Parties' = [Parties EXCEPT ![id] = Registry!Leave(PartyOf(id), who)],
         PendingOf(call[t]) = [op |-> "remove", who |-> who],
         PendingOf(call'[t]) = PendingOf(call[t])
  PROVE  Registry!Next
<1>1. Pending[t] # Null /\ Pending[t].op = "remove" /\ Pending[t].who = who /\ UNCHANGED Pending
  BY PendingChanges, AskedIsSomething
<1>2. Registry!IsMember(Parties[id], who) /\ Parties[id] = PartyOf(id)
  BY DEF Registry!IsMember, Parties, In
<1>3. Parties' = [Parties EXCEPT ![id] = Registry!Leave(Parties[id], who)]
  BY <1>2
<1>4. Registry!RemoveFrom(t, id)
  BY <1>1, <1>2, <1>3 DEF Registry!RemoveFrom, Parties, Pending
<1> QED BY <1>4 DEF Registry!Next

LEMMA MakesRemoved ==
  ASSUME NEW t \in Thread, \A u \in Thread \ {t} : call'[u] = call[u], UNCHANGED Parties,
         NEW who \in Player,
         \A id \in PartyId : PartyOf(id) # NoParty => ~In(who, PartyOf(id).members),
         PendingOf(call[t]) = [op |-> "remove", who |-> who],
         PendingOf(call'[t]) = [op |-> "returned", party |-> NoParty]
  PROVE  Registry!Next
<1>1. Pending[t] # Null /\ Pending[t].op = "remove" /\ Pending[t].who = who
  BY PendingChanges, AskedIsSomething
<1>2. Pending' = [Pending EXCEPT ![t] = Registry!Returned(NoParty)]
  BY PendingChanges DEF Registry!Returned
<1>3. \A id \in PartyId : ~Registry!IsMember(Parties[id], who)
  BY DEF Registry!IsMember, Parties, In
<1>4. Registry!Removed(t)
  BY <1>1, <1>2, <1>3 DEF Registry!Removed, Parties, Pending
<1> QED BY <1>4 DEF Registry!Next

LEMMA MakesAsk ==
  ASSUME NEW t \in Thread, \A u \in Thread \ {t} : call'[u] = call[u], UNCHANGED Parties,
         PendingOf(call[t]) = Null, PendingOf(call'[t]) \in Registry!Asked
  PROVE  Registry!Next
<1>1. Pending[t] = Null /\ Pending'[t] \in Registry!Asked /\ Pending' = [Pending EXCEPT ![t] = Pending'[t]]
  BY PendingChanges
<1>2. Registry!Ask(t)
  BY <1>1 DEF Registry!Ask, Parties, Pending
<1> QED BY <1>2 DEF Registry!Next

LEMMA MakesForget ==
  ASSUME NEW t \in Thread, \A u \in Thread \ {t} : call'[u] = call[u], UNCHANGED Parties,
         NEW party \in Party \union {NoParty},
         PendingOf(call[t]) = [op |-> "returned", party |-> party], PendingOf(call'[t]) = Null
  PROVE  Registry!Next
<1>1. Pending[t] # Null /\ Pending[t].op = "returned" /\ Pending' = [Pending EXCEPT ![t] = Null]
  BY PendingChanges, AskedIsSomething
<1>2. Registry!Forget(t)
  BY <1>1 DEF Registry!Forget, Parties, Pending
<1> QED BY <1>2 DEF Registry!Next

-----------------------------------------------------------------------------
(* Every step is one of PartyRegistry, or nothing to it. *)

Whole == \A t \in Thread : WholeInv(call[t], rows)
Removers == \A t \in Thread : call[t].op = "remove" => call[t].who \in Player

\* Reading, listing and taking members out is nothing to the registry, except that a read that
\* comes to its end is the whole party.
LEMMA ReadsRefine ==
  ASSUME IInv, Whole, NEW t \in Thread,
         \/ EnterAndLock(t) \/ NextParty(t) \/ ReadMembers(t) \/ ReadExtras(t) \/ ReadMeta(t)
         \/ StripMember(t) \/ Stripped(t)
  PROVE  Registry!Next \/ UNCHANGED <<Parties, Pending>>
<1> DEFINE c == call[t]
           d == call'[t]
           row == rows[c.id]
<1>1. /\ c \in Call /\ CallShape(c) /\ rows' = rows /\ WholeInv(c, rows)
      /\ c.pc \in Reads \union {"lock", "next", "strip"} /\ c.op \in {"get", "remove"}
      /\ \A e : Becomes(t, e) => d = e
  BY BecomesOne
  DEF IInv, TypeOK, Whole, CallShape, Reads, Saves, EnterAndLock, NextParty, ReadMembers, ReadExtras, ReadMeta,
      StripMember, Stripped
<1>2. /\ \A u \in Thread \ {t} : call'[u] = call[u]
      /\ d.op = c.op /\ d.who = c.who /\ (c.op # "remove" => d.id = c.id) /\ d.pc # "idle"
      /\ c.op = "get" => d.pc \in Reads \union {"unlock", "done", "failed"}
  BY CallStepEffect DEF CallStep, CallProceeds, Moves
<1>3. \A pc : Step(t, pc) => d.op = c.op /\ d.pc = pc /\ d.id = c.id /\ d.party = c.party
  BY <1>1 DEF Step, Call
<1>4. CASE c.op = "remove"
  <2>1. d.pc \notin {"done", "saveExtras", "saveMeta"}
    <3>1. CASE \E id \in c.todo : Becomes(t, [c EXCEPT !.pc = "readMembers", !.id = id, !.todo = @ \ {id}])
      <4>1. PICK id \in c.todo : Becomes(t, [c EXCEPT !.pc = "readMembers", !.id = id, !.todo = @ \ {id}])
        BY <3>1
      <4> DEFINE todo == c.todo \ {id}
      <4> HIDE DEF todo
      <4>2. d = [c EXCEPT !.pc = "readMembers", !.id = id, !.todo = todo]
        BY <1>1, <4>1 DEF todo
      <4> QED BY <1>1, <4>2 DEF Call
    <3>2. ASSUME EnterAndLock(t) PROVE d.pc = "next"
      <4> DEFINE todo == {id \in PartyId : rows[id] # NoRow}
      <4> HIDE DEF todo
      <4>1. d = [c EXCEPT !.pc = "next", !.todo = todo]
        BY <1>1, <1>4, <3>2 DEF EnterAndLock, todo
      <4> QED BY <1>1, <4>1 DEF Call
    <3>3. ASSUME Becomes(t, Absent(c)) PROVE d.pc = "delete"
      BY <1>1, <1>4, <3>3 DEF Absent, Call
    <3>4. ASSUME NEW party, Becomes(t, Stripping(c, party)) PROVE d.pc = "strip"
      BY <1>1, <3>4 DEF Stripping
    <3>5. ASSUME NEW party, NEW pc, Becomes(t, [c EXCEPT !.pc = pc, !.party = party])
          PROVE  d.pc = pc
      BY <1>1, <3>5 DEF Call
    <3>6. ASSUME StripMember(t) PROVE d.pc = "strip"
      <4>1. ASSUME NEW at, Becomes(t, [c EXCEPT !.at = at]) PROVE d.pc = "strip"
        BY <1>1, <3>6, <4>1 DEF StripMember, Call
      <4>2. ASSUME NEW party, NEW at,
                   Becomes(t, [c EXCEPT !.party = party, !.at = at, !.removed = TRUE])
            PROVE  d.pc = "strip"
        <5>1. d = [c EXCEPT !.party = party, !.at = at, !.removed = TRUE]
          BY <1>1, <4>2
        <5> QED BY <1>1, <3>6, <5>1 DEF StripMember, Call
      <4> QED BY <3>6, <4>1, <4>2 DEF StripMember
    <3>7. CASE NextParty(t)
      <4>1. CASE Step(t, "unlock")
        BY <1>3, <4>1
      <4> QED BY <3>1, <3>7, <4>1 DEF NextParty
    <3>8. CASE ReadMembers(t)
      BY <3>3, <3>5, <3>8 DEF ReadMembers
    <3>9. CASE ReadExtras(t)
      <4> DEFINE party == [c.party EXCEPT !.ext = row.ext]
      <4>1. CASE Step(t, "readMeta")
        BY <1>3, <4>1
      <4>2. CASE Becomes(t, [c EXCEPT !.pc = "readMeta", !.party = party])
        <5> HIDE DEF party
        <5> QED BY <3>5, <4>2
      <4> QED BY <3>9, <4>1, <4>2 DEF ReadExtras
    <3>10. CASE ReadMeta(t)
      BY <1>4, <3>3, <3>4, <3>10 DEF ReadMeta
    <3>11. CASE Stripped(t)
      <4> DEFINE party == WithMembers(c.party, Promote(c.party.members))
      <4>1. CASE Step(t, "next") \/ Step(t, "delete")
        BY <1>3, <4>1
      <4>2. CASE Becomes(t, [c EXCEPT !.pc = "saveMembers", !.party = party])
        <5> HIDE DEF party
        <5> QED BY <3>5, <4>2
      <4> QED BY <3>11, <4>1, <4>2 DEF Stripped
    <3> QED BY <3>2, <3>6, <3>7, <3>8, <3>9, <3>10, <3>11
  <2>2. UNCHANGED Parties
    BY <1>1, <1>2, <2>1, OutsideSees DEF Reads
  <2>3. PendingOf(d) = PendingOf(c)
    BY <1>1, <1>2, <1>4, <2>1, PendingIs DEF Reads
  <2> QED BY <1>2, <2>2, <2>3, PendingChanges
<1>5. CASE c.op = "get"
  <2>1. UNCHANGED Parties
    BY <1>1, <1>2, <1>5, OutsideSees DEF Reads
  <2>2. PendingOf(c) = [op |-> "get", id |-> c.id] /\ c.id \in PartyId
    BY <1>1, <1>5, PendingIs DEF CallShape, Reads
  <2>3. CASE d.pc \in Reads
    <3>1. PendingOf(d) = PendingOf(c)
      BY <1>2, <1>5, <2>2, <2>3, PendingIs
    <3> QED BY <1>2, <2>1, <3>1, PendingChanges
  <2>4. CASE /\ ReadMembers(t) \/ ReadMeta(t)
             /\ d.pc = "unlock"
             /\ d.party = IF row = NoRow THEN NoParty ELSE AsRead(row)
    <3>1. Alone(t)
      BY <1>1, <1>5, <2>4, AloneInside DEF ReadMembers, ReadMeta, Held, HeldOnce, HeldTwice
    <3>2. PartyOf(c.id) = Seen(c.id, c, rows)
      BY <1>2, <2>2, <3>1, StepSees
    <3>3. PartyOf(c.id) = d.party
      BY <1>1, <2>4, <3>2 DEF Seen, Saver, Reads
    <3>4. PendingOf(d) = [op |-> "returned", party |-> PartyOf(c.id)]
      BY <1>2, <1>5, <2>4, <3>3, PendingIs
    <3> QED BY <1>2, <2>1, <2>2, <3>4, MakesGet
  <2>5. CASE EnterAndLock(t)
    BY <1>3, <1>5, <2>3, <2>5 DEF EnterAndLock, Reads
  <2>6. CASE ReadMembers(t)
    <3>1. CASE (row # NoRow => row.members = Null) /\ Becomes(t, Absent(c))
      <4>1. row = NoRow
        BY <2>2, <3>1 DEF IInv, RowsInv, MembersColumnSet
      <4>2. d.pc = "unlock" /\ d.party = NoParty
        BY <1>1, <1>5, <3>1 DEF Absent, Call
      <4> QED BY <2>4, <2>6, <4>1, <4>2
    <3>2. ASSUME NEW party, Becomes(t, [c EXCEPT !.pc = "readExtras", !.party = party])
          PROVE  d.pc \in Reads
      BY <1>1, <3>2 DEF Call, Reads
    <3> QED BY <2>3, <2>6, <3>1, <3>2 DEF ReadMembers
  <2>7. CASE ReadExtras(t)
    <3>1. ASSUME NEW party, Becomes(t, [c EXCEPT !.pc = "readMeta", !.party = party])
          PROVE  d.pc \in Reads
      BY <1>1, <3>1 DEF Call, Reads
    <3> QED BY <1>3, <2>3, <2>7, <3>1 DEF ReadExtras, Reads
  <2>8. CASE ReadMeta(t)
    <3> DEFINE party == WithMeta(c.party, MetaOf(row))
    <3>1. row # NoRow /\ c.party.members = row.members /\ c.party.ext = AsRead(row).ext
      BY <1>1, <2>8 DEF ReadMeta, WholeInv
    <3>2. party = AsRead(row)
      BY <3>1 DEF WithMeta, AsRead
    <3>3. Becomes(t, [c EXCEPT !.pc = "unlock", !.party = party])
      BY <1>5, <2>8, <3>1 DEF ReadMeta
    <3> HIDE DEF party
    <3>4. d.pc = "unlock" /\ d.party = party
      BY <1>1, <3>3 DEF Call
    <3> QED BY <2>4, <2>8, <3>1, <3>2, <3>4
  <2> QED
    BY <1>1, <1>5, <2>5, <2>6, <2>7, <2>8
    DEF NextParty, StripMember, Stripped, CallShape
<1> QED BY <1>1, <1>4, <1>5

\* A removal has returned when its player is in no party.
LEMMA UnlockRefines ==
  ASSUME IInv, Removers, NEW t \in Thread, UnlockAndReturn(t)
  PROVE  Registry!Next \/ UNCHANGED <<Parties, Pending>>
<1> DEFINE c == call[t]
           d == call'[t]
<1>1. /\ c \in Call /\ CallShape(c) /\ rows' = rows /\ c.pc = "unlock" /\ c.op \in {"get", "remove"}
      /\ \A pc : Step(t, pc) => d = [c EXCEPT !.pc = pc]
  BY BecomesOne DEF IInv, TypeOK, CallShape, UnlockAndReturn, Step
<1>2. \A u \in Thread \ {t} : call'[u] = call[u]
  BY CallStepEffect DEF CallStep, CallProceeds
<1>3. /\ d.op = c.op /\ d.party = c.party
      /\ d.pc = IF c.op = "get" /\ c.party = NoParty THEN "failed" ELSE "done"
  <2> DEFINE pc == IF c.op = "get" /\ c.party = NoParty THEN "failed" ELSE "done"
  <2>1. d = [c EXCEPT !.pc = pc]
    BY <1>1 DEF UnlockAndReturn
  <2> HIDE DEF pc
  <2>2. d.op = c.op /\ d.party = c.party /\ d.pc = pc
    BY <1>1, <2>1 DEF Call
  <2> QED BY <2>2 DEF pc
<1>4. UNCHANGED Parties
  BY <1>1, <1>2, <1>3, OutsideSees
<1>5. CASE c.op = "get"
  <2>1. PendingOf(d) = PendingOf(c)
    BY <1>1, <1>3, <1>5, PendingIs
  <2> QED BY <1>2, <1>4, <2>1, PendingChanges
<1>6. CASE c.op = "remove"
  <2>1. Alone(t) /\ Held(c)
    BY <1>1, <1>6, AloneInside DEF Held, HeldOnce
  <2>2. ASSUME NEW id \in PartyId, PartyOf(id) # NoParty
        PROVE  ~In(c.who, PartyOf(id).members)
    <3>1. PartyOf(id) = Seen(id, c, rows)
      BY <1>2, <2>1, StepSees
    <3>2. rows[id] # NoRow /\ PartyOf(id).members = rows[id].members
      BY <1>1, <2>2, <3>1 DEF Seen, Saver, AsRead
    <3>3. CleanupInv(c, rows)
      BY DEF IInv
    <3> QED BY <1>1, <1>6, <2>1, <3>2, <3>3 DEF CleanupInv, Reads
  <2>3. c.who \in Player
    BY <1>6 DEF Removers
  <2>4. PendingOf(c) = [op |-> "remove", who |-> c.who] /\ PendingOf(d) = [op |-> "returned", party |-> NoParty]
    BY <1>1, <1>3, <1>6, PendingIs
  <2> QED BY <1>2, <1>4, <2>2, <2>3, <2>4, MakesRemoved
<1> QED BY <1>1, <1>5, <1>6

\* What is in the table is a party, and has somebody in it.
LEMMA RowIsParty ==
  ASSUME IInv, LedInv, NEW id \in PartyId, rows[id] # NoRow
  PROVE  /\ rows[id] \in Row /\ rows[id].members \in Seq(Member) /\ rows[id].members # <<>>
         /\ AsRead(rows[id]) # NoParty /\ AsRead(rows[id]).members = rows[id].members
<1> DEFINE row == rows[id]
<1>1. row \in Row /\ row.members \in Seq(Member) /\ row.members # <<>>
  BY DEF IInv, TypeOK, RowsInv, MembersColumnSet, LedInv, LedMembers, Row
<1>2. MetaOf(row) \in [code : Code \union {NoCode}, version : Nat]
  BY <1>1, MetaOfRow
<1>3. AsRead(row) \in Party
  BY <1>1, <1>2 DEF AsRead, Party, Row
<1> QED BY <1>1, <1>3, PartyAssumption DEF AsRead

\* A clean-up drops the row of a party whose last member leaves; if the row was gone already,
\* that is nothing.
LEMMA DeleteRefines ==
  ASSUME IInv, LedInv, Whole, Removers, NEW t \in Thread, DeleteParty(t)
  PROVE  Registry!Next \/ UNCHANGED <<Parties, Pending>>
<1> DEFINE c == call[t]
           d == call'[t]
           row == rows[c.id]
           s == row.members
<1>1. /\ c \in Call /\ c.pc = "delete" /\ c.op = "remove" /\ c.id \in PartyId
      /\ c.who \in Player /\ WholeInv(c, rows) /\ Alone(t)
      /\ rows' = [rows EXCEPT ![c.id] = NoRow] /\ rows \in [PartyId -> Row \union {NoRow}]
  BY AloneInside DEF IInv, TypeOK, CallShape, Whole, Removers, DeleteParty
<1>2. /\ \A u \in Thread \ {t} : call'[u] = call[u]
      /\ d.pc = "next" /\ d.op = "remove" /\ d.who = c.who
  <2>1. Becomes(t, [c EXCEPT !.pc = "next"])
    BY DEF DeleteParty, Step
  <2> QED BY <1>1, <2>1, BecomesOne DEF Call
<1>3. ASSUME NEW id \in PartyId
      PROVE  /\ PartyOf(id) = IF rows[id] = NoRow THEN NoParty ELSE AsRead(rows[id])
             /\ PartyOf(id)' = IF id = c.id THEN NoParty ELSE PartyOf(id)
  <2>1. PartyOf(id) = Seen(id, c, rows) /\ PartyOf(id)' = Seen(id, d, rows')
    BY <1>1, <1>2, StepSees
  <2>2. rows'[id] = IF id = c.id THEN NoRow ELSE rows[id]
    BY <1>1
  <2> HIDE DEF c, d
  <2> QED BY <1>1, <1>2, <2>1, <2>2 DEF Seen, Saver
<1>4. PendingOf(c) = [op |-> "remove", who |-> c.who] /\ PendingOf(d) = PendingOf(c)
  BY <1>1, <1>2, PendingIs
<1>5. CASE row = NoRow
  <2>1. \A id \in PartyId : PartyOf(id)' = PartyOf(id)
    BY <1>1, <1>3, <1>5
  <2>2. UNCHANGED Parties
    BY <2>1 DEF Parties
  <2> QED BY <1>2, <1>4, <2>2, PendingChanges
<1>6. CASE row # NoRow
  <2>1. /\ s \in Seq(Member) /\ s # <<>> /\ PartyOf(c.id) = AsRead(row)
        /\ AsRead(row) # NoParty /\ AsRead(row).members = s
    BY <1>1, <1>3, <1>6, RowIsParty
  <2>2. \A i \in DOMAIN s : s[i].player = c.who
    BY <1>1, <1>6 DEF WholeInv
  <2> HIDE DEF s
  <2>3. In(c.who, s)
    BY <2>1, <2>2, EmptySeq DEF In
  <2>4. Registry!Without(s, c.who) = <<>>
    <3> DEFINE f == [i \in 1 .. 0 |-> i]
               none == <<>>
    <3>1. Len(none) = 0 /\ none \in Seq(Member)
      BY EmptySeq
    <3>2. Selects(f, none, s, {i \in DOMAIN s : s[i].player # c.who})
      BY <2>2, <3>1 DEF Selects
    <3> HIDE DEF f, none
    <3>3. Registry!Without(s, c.who) = none
      BY <2>1, <3>1, <3>2, SelectsWithout
    <3> QED BY <3>3 DEF none
  <2>5. Registry!Leave(AsRead(row), c.who) = NoParty
    <3> DEFINE party == AsRead(row)
               rest == <<>>
    <3>1. Registry!Without(party.members, c.who) = rest
      BY <2>1, <2>4
    <3> HIDE DEF party
    <3>2. Registry!Leave(party, c.who) = IF rest = <<>> THEN NoParty ELSE WithMembers(party, Promote(rest))
      BY <3>1, LeaveIs
    <3> QED BY <3>2 DEF party
  <2>6. Parties' = [Parties EXCEPT ![c.id] = NoParty]
    BY <1>1, <1>3, PartiesChange
  <2>7. Parties' = [Parties EXCEPT ![c.id] = Registry!Leave(PartyOf(c.id), c.who)]
    BY <2>1, <2>5, <2>6
  <2>8. PartyOf(c.id) # NoParty /\ In(c.who, PartyOf(c.id).members)
    BY <2>1, <2>3
  <2> HIDE DEF c, d
  <2>9. Registry!Next
    BY <1>1, <1>2, <1>4, <2>7, <2>8, MakesRemoveFrom DEF c, d
  <2> QED BY <2>9
<1> QED BY <1>5, <1>6

\* A party is saved, or left by a player, when its first column is written: from then on it is
\* what the thread inside the mutex is writing.
LEMMA SaveMembersRefines ==
  ASSUME IInv, LedInv, Whole, Removers, NEW t \in Thread, SaveMembers(t)
  PROVE  Registry!Next \/ UNCHANGED <<Parties, Pending>>
<1> DEFINE c == call[t]
           d == call'[t]
           row == rows[c.id]
<1>1. /\ c \in Call /\ c.pc = "saveMembers" /\ c.op \in {"save", "remove"} /\ c.id \in PartyId
      /\ c.party \in Party /\ WholeInv(c, rows) /\ Alone(t)
      /\ rows \in [PartyId -> Row \union {NoRow}]
      /\ \A id \in PartyId : id # c.id => rows'[id] = rows[id]
  BY AloneInside DEF IInv, TypeOK, CallShape, Saves, Whole, SaveMembers, Lock
<1>2. /\ \A u \in Thread \ {t} : call'[u] = call[u]
      /\ d.pc = "saveExtras" /\ d.op = c.op /\ d.who = c.who /\ d.id = c.id /\ d.party = c.party
  <2>1. Becomes(t, [c EXCEPT !.pc = "saveExtras"])
    BY DEF SaveMembers, Step
  <2> QED BY <1>1, <2>1, BecomesOne DEF Call
<1>3. ASSUME NEW id \in PartyId
      PROVE  /\ PartyOf(id) = IF rows[id] = NoRow THEN NoParty ELSE AsRead(rows[id])
             /\ PartyOf(id)' = IF id = c.id THEN c.party ELSE PartyOf(id)
  <2>1. PartyOf(id) = Seen(id, c, rows) /\ PartyOf(id)' = Seen(id, d, rows')
    BY <1>1, <1>2, StepSees
  <2> HIDE DEF c, d
  <2> QED BY <1>1, <1>2, <2>1 DEF Seen, Saver
<1>4. Parties' = [Parties EXCEPT ![c.id] = c.party]
  BY <1>1, <1>3, PartiesChange
<1>5. CASE c.op = "save"
  <2>1. /\ PendingOf(c) = [op |-> "save", id |-> c.id, party |-> c.party]
        /\ PendingOf(d) = [op |-> "returned", party |-> NoParty]
    BY <1>1, <1>2, <1>5, PendingIs
  <2> HIDE DEF c, d
  <2> QED BY <1>1, <1>2, <1>4, <2>1, MakesSave DEF c, d
<1>6. CASE c.op = "remove"
  <2>1. row # NoRow /\ In(c.who, row.members) /\ c.party = Registry!Leave(AsRead(row), c.who)
    BY <1>1, <1>6 DEF WholeInv
  <2>2. PartyOf(c.id) = AsRead(row) /\ AsRead(row) # NoParty /\ AsRead(row).members = row.members
    BY <1>1, <1>3, <2>1, RowIsParty
  <2>3. c.who \in Player
    BY <1>6 DEF Removers
  <2>4. PendingOf(c) = [op |-> "remove", who |-> c.who] /\ PendingOf(d) = PendingOf(c)
    BY <1>1, <1>2, <1>6, PendingIs
  <2>5. Parties' = [Parties EXCEPT ![c.id] = Registry!Leave(PartyOf(c.id), c.who)]
    BY <1>4, <2>1, <2>2
  <2>6. PartyOf(c.id) # NoParty /\ In(c.who, PartyOf(c.id).members)
    BY <2>1, <2>2
  <2> HIDE DEF c, d
  <2> QED BY <1>1, <1>2, <2>3, <2>4, <2>5, <2>6, MakesRemoveFrom DEF c, d
<1> QED BY <1>1, <1>5, <1>6

\* The other two columns bring the row to what the party was all along.
LEMMA SaveRestRefines ==
  ASSUME IInv, Whole, NEW t \in Thread, SaveExtras(t) \/ SaveMeta(t)
  PROVE  UNCHANGED <<Parties, Pending>>
<1> DEFINE c == call[t]
           d == call'[t]
           row == rows[c.id]
<1>1. /\ c \in Call /\ c.pc \in {"saveExtras", "saveMeta"} /\ c.op \in {"save", "remove"}
      /\ c.id \in PartyId /\ c.party \in Party /\ WholeInv(c, rows)
      /\ rows \in [PartyId -> Row \union {NoRow}] /\ row \in Row
      /\ Upsert(c.id) = row
      /\ \A id \in PartyId : id # c.id => rows'[id] = rows[id]
  BY DEF IInv, TypeOK, CallShape, Saves, RowsInv, Whole, SaveExtras, SaveMeta, Upsert
<1>2. Alone(t)
  BY <1>1, AloneInside DEF Held, HeldOnce, HeldTwice
<1>3. \A pc : Step(t, pc) =>
        /\ \A u \in Thread \ {t} : call'[u] = call[u]
        /\ d.pc = pc /\ d.op = c.op /\ d.who = c.who /\ d.id = c.id /\ d.party = c.party
  BY <1>1, BecomesOne DEF Step, Call
<1>4. SaveExtras(t) => Step(t, "saveMeta") /\ c.pc = "saveExtras"
  BY DEF SaveExtras
<1>5. SaveMeta(t) => Step(t, IF c.op = "save" THEN "done" ELSE "next") /\ c.pc = "saveMeta"
  BY DEF SaveMeta
<1>6. /\ \A u \in Thread \ {t} : call'[u] = call[u]
      /\ d.op = c.op /\ d.who = c.who /\ d.id = c.id /\ d.party = c.party
      /\ \/ SaveExtras(t) /\ d.pc = "saveMeta"
         \/ SaveMeta(t) /\ d.pc = IF c.op = "save" THEN "done" ELSE "next"
  BY <1>3, <1>4, <1>5
<1>7. ASSUME SaveMeta(t) PROVE rows'[c.id] # NoRow /\ AsRead(rows'[c.id]) = c.party
  <2> DEFINE meta == [code |-> c.party.code, version |-> c.party.version]
             new == [row EXCEPT !.meta = meta]
  <2>1. rows'[c.id] = new
    BY <1>1, <1>7 DEF SaveMeta, Meta
  <2>2. meta \in [code : Code \union {NoCode}, version : Nat] /\ meta # Null
    BY <1>1, PartyAssumption DEF Party
  <2>3. row.members = c.party.members /\ row.ext = c.party.ext /\ c.party.ext # Null
    BY <1>1, <1>5, <1>7, PartyAssumption DEF WholeInv, Party
  <2>4. new \in Row /\ new.members = c.party.members /\ new.ext = c.party.ext /\ new.meta = meta
    BY <1>1, <2>2, <2>3 DEF Row
  <2>5. meta.code = c.party.code /\ meta.version = c.party.version
    OBVIOUS
  <2> HIDE DEF meta, new
  <2>6. AsRead(new) = [members |-> c.party.members, ext |-> c.party.ext,
                       code |-> c.party.code, version |-> c.party.version]
    BY <2>2, <2>3, <2>4, <2>5 DEF AsRead, MetaOf
  <2>7. AsRead(new) = c.party
    BY <1>1, <2>6 DEF Party
  <2> QED BY <2>1, <2>4, <2>7, PartyAssumption
<1>8. ASSUME NEW id \in PartyId PROVE PartyOf(id)' = PartyOf(id)
  <2>1. PartyOf(id) = Seen(id, c, rows) /\ PartyOf(id)' = Seen(id, d, rows')
    BY <1>2, <1>6, StepSees
  <2> HIDE DEF c, d
  <2>2. CASE SaveExtras(t)
    BY <1>1, <1>3, <1>4, <1>6, <2>1, <2>2 DEF Seen, Saver
  <2>3. CASE SaveMeta(t)
    BY <1>1, <1>3, <1>5, <1>7, <2>1, <2>3 DEF Seen, Saver
  <2> QED BY <1>6, <2>2, <2>3
<1>9. UNCHANGED Parties
  BY <1>8 DEF Parties
<1>10. PendingOf(d) = PendingOf(c)
  <2>1. d.pc \notin {"idle", "saveMembers"} /\ (c.op = "remove" => d.pc # "done")
    BY <1>6
  <2> HIDE DEF c, d
  <2> QED BY <1>1, <1>6, <2>1, PendingIs
<1> QED BY <1>6, <1>9, <1>10, PendingChanges

\* With no failing statement, each step of an operation is a step of the registry or none.
LEMMA CallStepRefines ==
  ASSUME ~MayFail, IInv, LedInv, Whole, Removers, NEW t \in Thread, CallStep(t)
  PROVE  Registry!Next \/ UNCHANGED <<Parties, Pending>>
<1>1. CallProceeds(t)
  BY DEF CallStep, StatementFails
<1> QED
  BY <1>1, ReadsRefine, UnlockRefines, DeleteRefines, SaveMembersRefines, SaveRestRefines
  DEF CallProceeds

\* The callers ask, and take what they are returned.
LEMMA CallerRefines ==
  ASSUME IInv, Whole, NEW t \in Thread, Caller(t)
  PROVE  Registry!Next
<1> DEFINE c == call[t]
           d == call'[t]
<1>1. c \in Call /\ WholeInv(c, rows)
  BY DEF IInv, TypeOK, Whole
<1>2. ASSUME NEW e, Becomes(t, e), UNCHANGED rows, c.pc \in {"idle", "done", "failed"},
             e.pc \in {"idle", "lock", "saveMembers"}
      PROVE  d = e /\ (\A u \in Thread \ {t} : call'[u] = call[u]) /\ UNCHANGED Parties
  <2>1. d = e /\ \A u \in Thread \ {t} : call'[u] = call[u]
    BY <1>2, BecomesOne
  <2> QED BY <1>2, <2>1, OutsideSees
<1>3. ASSUME NEW e, Becomes(t, e), UNCHANGED rows, c.pc = "idle", e.pc \in {"lock", "saveMembers"},
             PendingOf(e) \in Registry!Asked
      PROVE  Registry!Next
  BY <1>2, <1>3, PendingIs, MakesAsk
<1>4. ASSUME NEW id \in PartyId, NEW party \in Drafts, CallSaveParty(t, id, party)
      PROVE  Registry!Next
  <2> DEFINE e == Saving(id, party)
  <2>1. e.op = "save" /\ e.pc = "saveMembers" /\ e.id = id /\ e.party = party
    BY DEF Saving, NoCall
  <2>2. Becomes(t, e) /\ UNCHANGED rows /\ c.pc = "idle"
    BY <1>4 DEF CallSaveParty
  <2> HIDE DEF e
  <2>3. PendingOf(e) \in Registry!Asked
    BY <2>1, PendingIs, DraftsAssumption DEF Registry!Asked
  <2> QED BY <1>3, <2>1, <2>2, <2>3
<1>5. ASSUME NEW id \in PartyId, CallGetPartyRes(t, id)
      PROVE  Registry!Next
  <2> DEFINE e == [NoCall EXCEPT !.op = "get", !.pc = "lock", !.id = id]
  <2>1. e.op = "get" /\ e.pc = "lock" /\ e.id = id
    BY DEF NoCall
  <2>2. Becomes(t, e) /\ UNCHANGED rows /\ c.pc = "idle"
    BY <1>5 DEF CallGetPartyRes
  <2> HIDE DEF e
  <2>3. PendingOf(e) \in Registry!Asked
    BY <2>1, PendingIs DEF Registry!Asked
  <2> QED BY <1>3, <2>1, <2>2, <2>3
<1>6. ASSUME NEW player \in Player, CallRemovePlayer(t, player)
      PROVE  Registry!Next
  <2> DEFINE e == [NoCall EXCEPT !.op = "remove", !.pc = "lock", !.who = player]
  <2>1. e.op = "remove" /\ e.pc = "lock" /\ e.who = player
    BY DEF NoCall
  <2>2. Becomes(t, e) /\ UNCHANGED rows /\ c.pc = "idle"
    BY <1>6 DEF CallRemovePlayer
  <2> HIDE DEF e
  <2>3. PendingOf(e) \in Registry!Asked
    BY <2>1, PendingIs DEF Registry!Asked
  <2> QED BY <1>3, <2>1, <2>2, <2>3
<1>7. CASE Return(t)
  <2>1. Becomes(t, NoCall) /\ UNCHANGED rows /\ c.pc \in {"done", "failed"} /\ NoCall.pc = "idle"
    BY <1>7 DEF Return, NoCall
  <2>2. d = NoCall /\ (\A u \in Thread \ {t} : call'[u] = call[u]) /\ UNCHANGED Parties
    BY <1>2, <2>1
  <2>3. PendingOf(d) = Null
    BY <2>1, <2>2, PendingIs
  <2>4. c.op \in {"save", "get", "remove"} /\ (c.pc = "failed" => c.op = "get")
    BY <1>1, <2>1 DEF Call, WholeInv
  <2>5. c.party \in Party \union {NoParty}
    BY <1>1 DEF Call
  <2> HIDE DEF c, d
  <2>6. \/ PendingOf(c) = [op |-> "returned", party |-> NoParty]
        \/ PendingOf(c) = [op |-> "returned", party |-> c.party]
    BY <2>1, <2>4, PendingIs
  <2> QED BY <2>2, <2>3, <2>5, <2>6, MakesForget DEF c, d
<1> QED BY <1>4, <1>5, <1>6, <1>7 DEF Caller

LEMMA RemoversKept ==
  ASSUME IInv, Removers, [Next]_partyVars PROVE Removers'
<1>1. ASSUME NEW t \in Thread, CallStep(t) PROVE Removers'
  BY <1>1, CallStepEffect DEF Removers, Moves
<1>2. ASSUME NEW t \in Thread, NEW e, Becomes(t, e), e.op = "remove" => e.who \in Player
      PROVE  Removers'
  BY <1>2, BecomesOne DEF Removers
<1>3. ASSUME NEW t \in Thread, NEW id \in PartyId, NEW party \in Drafts, CallSaveParty(t, id, party)
      PROVE  Removers'
  <2>1. Saving(id, party).op = "save"
    BY DEF Saving, NoCall
  <2> QED BY <1>2, <1>3, <2>1 DEF CallSaveParty
<1>4. ASSUME NEW t \in Thread, NEW id \in PartyId, CallGetPartyRes(t, id) PROVE Removers'
  BY <1>2, <1>4 DEF CallGetPartyRes, NoCall
<1>5. ASSUME NEW t \in Thread, NEW player \in Player, CallRemovePlayer(t, player) PROVE Removers'
  BY <1>2, <1>5 DEF CallRemovePlayer, NoCall
<1>6. ASSUME NEW t \in Thread, Return(t) PROVE Removers'
  BY <1>2, <1>6 DEF Return, NoCall
<1>7. CASE UNCHANGED partyVars
  BY <1>7 DEF partyVars, Removers
<1> QED BY <1>1, <1>3, <1>4, <1>5, <1>6, <1>7 DEF Next, Caller

\* Where no statement fails, the three operations are atomic to whoever calls them: saves, reads
\* and departures of whole parties, whatever calls of other threads come between the statements.
THEOREM RegistryImplemented ==
  ASSUME ~MayFail PROVE Spec => ImplementsRegistry
<1>1. DatabaseInit => Whole /\ Removers
  BY DEF DatabaseInit, Whole, Removers, WholeInv, NoCall
<1>2. IInv /\ Whole /\ Removers /\ [Next]_partyVars => Whole' /\ Removers'
  <2> SUFFICES ASSUME IInv, Whole, Removers, [Next]_partyVars PROVE Whole'
    BY RemoversKept
  <2>1. ASSUME NEW t \in Thread, CallStep(t) PROVE Whole'
    BY <2>1, ProceedsWhole DEF Whole, CallStep, StatementFails
  <2>2. ASSUME NEW t \in Thread, Caller(t) PROVE Whole'
    BY <2>2, CallerWhole DEF Whole
  <2>3. CASE UNCHANGED partyVars
    BY <2>3 DEF partyVars, Whole
  <2> QED BY <2>1, <2>2, <2>3 DEF Next
<1>3. DatabaseInit => Registry!Init
  <2> SUFFICES ASSUME DatabaseInit PROVE Registry!Init
    OBVIOUS
  <2>1. \A t \in Thread : call[t].pc = "idle"
    BY DEF DatabaseInit, NoCall
  <2>2. \A id \in PartyId : PartyOf(id) = NoParty
    BY <2>1 DEF DatabaseInit, PartyOf, Savers
  <2>3. \A t \in Thread : PendingOf(call[t]) = Null
    BY <2>1, PendingIs
  <2> QED BY <2>2, <2>3 DEF Registry!Init
<1>4. IInv /\ LedInv /\ Whole /\ Removers /\ [Next]_partyVars =>
        [Registry!Next]_<<Parties, Pending>>
  <2> SUFFICES ASSUME IInv, LedInv, Whole, Removers, [Next]_partyVars
               PROVE  Registry!Next \/ UNCHANGED <<Parties, Pending>>
    OBVIOUS
  <2>1. CASE UNCHANGED partyVars
    BY <2>1 DEF partyVars, Parties, Pending, PartyOf, Savers
  <2> QED BY <2>1, CallStepRefines, CallerRefines DEF Next
<1>5. Spec => [](IInv /\ LedInv)
  BY Inductive, LedInductive, PTL
<1>6. Spec => []([Registry!Next]_<<Parties, Pending>>)
  BY <1>1, <1>2, <1>4, <1>5, PTL DEF Spec
<1> QED BY <1>3, <1>6, PTL DEF Spec, ImplementsRegistry, Registry!Spec, Parties, Pending
=============================================================================
