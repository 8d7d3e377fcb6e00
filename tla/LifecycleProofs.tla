--------------------------- MODULE LifecycleProofs ---------------------------
(* Theorems about Lifecycle, for any processes and columns, and any order of *)
(* starts, ends and failures.                                              *)
EXTENDS Lifecycle, TLAPS

(***************************************************************************)
(* What the three lists of columns make of a position in the start.        *)
(***************************************************************************)
Plains == Len(PlainColumns)
Clearing == Len(PlainColumns \o PartyColumns)

LEMMA ColumnFacts ==
  /\ Len(Columns) \in Nat /\ Plains \in Nat /\ Clearing \in Nat
  /\ 0 < Plains /\ Plains < Clearing /\ Clearing < Len(Columns)
  /\ \A i \in 1 .. Len(Columns) : Columns[i] \in Column
  /\ \A i \in 1 .. Plains : Columns[i] \in Plain
  /\ Range(Columns) = {Columns[i] : i \in 1 .. Len(Columns)}
<1>1. /\ PlainColumns \in Seq(Column) /\ PartyColumns \in Seq(Column)
      /\ PlayerColumns \in Seq(Column)
      /\ Len(PlainColumns) > 0 /\ Len(PartyColumns) > 0 /\ Len(PlayerColumns) > 0
  BY LifecycleAssumption
<1>2. /\ PlainColumns \o PartyColumns \in Seq(Column)
      /\ Clearing = Plains + Len(PartyColumns)
  BY <1>1 DEF Clearing, Plains
<1>3. /\ Columns \in Seq(Column)
      /\ Len(Columns) = Clearing + Len(PlayerColumns)
  BY <1>1, <1>2 DEF Columns, Clearing
<1>4. \A i \in 1 .. Plains : Columns[i] \in Plain
  <2> SUFFICES ASSUME NEW i \in 1 .. Plains PROVE Columns[i] \in Plain
    OBVIOUS
  <2>1. (PlainColumns \o PartyColumns)[i] = PlainColumns[i]
    BY <1>1 DEF Plains
  <2>2. Columns[i] = (PlainColumns \o PartyColumns)[i]
    BY <1>1, <1>2 DEF Columns, Plains, Clearing
  <2>3. i \in DOMAIN PlainColumns
    BY <1>1 DEF Plains
  <2> QED BY <2>1, <2>2, <2>3 DEF Plain, Range
<1>5. DOMAIN Columns = 1 .. Len(Columns)
  BY <1>3
<1>6. Range(Columns) = {Columns[i] : i \in 1 .. Len(Columns)}
  BY <1>5 DEF Range
<1>7. \A i \in 1 .. Len(Columns) : Columns[i] \in Column
  BY <1>3
<1> QED BY <1>1, <1>2, <1>3, <1>4, <1>6, <1>7 DEF Plains

LEMMA AfterColumnFacts ==
  ASSUME NEW n \in 1 .. Len(Columns)
  PROVE  /\ n < Plains => AfterColumn(n) = "alter"
         /\ n = Clearing => AfterColumn(n) = "clear"
         /\ n = Len(Columns) => AfterColumn(n) = "bind"
         /\ n >= Plains /\ n # Clearing /\ n # Len(Columns) => AfterColumn(n) = "look"
         /\ AfterColumn(n) \in Starting
BY ColumnFacts DEF AfterColumn, Plains, Clearing, Starting

(***************************************************************************)
(* The invariant.  A process that starts knows of every column behind it   *)
(* that it is there or was refused (Behind), and of the one before it,     *)
(* if it did not find it absent, that it is there (Seen); columns and      *)
(* parties go away only when no process runs (Quiet).                      *)
(***************************************************************************)
Position(p) ==
  LET s == process[p] IN
  /\ s.pc \in {"look", "alter"} => s.at < Len(Columns)
  /\ s.pc = "look" => s.at = 0 \/ s.at >= Plains
  /\ s.pc = "clear" => s.at = Clearing
  /\ s.pc \in {"bind", "bound", "listening", "serving", "leaving"} => s.at = Len(Columns)
  /\ s.pc = "new" => s.at = 0

Looked(p) == IF process[p].at < Plains THEN Plain ELSE {NextColumn(p)}

Seen(p) == process[p].pc = "alter" => Looked(p) \ process[p].absent \subseteq schema

Behind(p) ==
  process[p].pc \in Running =>
    \A i \in 1 .. process[p].at : Columns[i] \in schema \union (process[p].refused \ Plain)

Fresh(p) == HasCleared(p) => \A party \in parties : p \in party.after

Quiet == \A p \in Process : process[p].pc \notin Running

HarnessInv ==
  /\ harness.pc \in {"killed", "emptied", "unlocked", "stopped"} => Quiet
  /\ harness.pc = "unlocked" => lock = NoProcess
  /\ harness.pc \in {"polling", "ready"} =>
       /\ harness.of \in Process
       /\ \A p \in Process \ {harness.of} : process[p].pc \notin Running
       /\ lock \in {harness.of, NoProcess}
  /\ harness.pc = "ready" => process[harness.of].pc \in {"serving", "leaving", "off", "dead"}

ProcessInv == \A p \in Process : Position(p) /\ Seen(p) /\ Behind(p) /\ Fresh(p)

IInv == TypeOK /\ ProcessInv /\ LockTellsServing /\ HarnessInv

(***************************************************************************)
(* What a step of one process leaves alone.                                *)
(***************************************************************************)
Moves(p) ==
  /\ process' \in [Process -> State]
  /\ \A q \in Process \ {p} : process'[q] = process[q]

LEMMA GoesToFacts ==
  ASSUME TypeOK, NEW p \in Process, NEW pc \in Running \union {"off", "dead"}, GoesTo(p, pc)
  PROVE  /\ Moves(p)
         /\ process'[p] = [process[p] EXCEPT !.pc = pc]
         /\ process'[p].pc = pc /\ process'[p].at = process[p].at
         /\ process'[p].absent = process[p].absent /\ process'[p].refused = process[p].refused
<1>1. process[p] \in State /\ process \in [Process -> State]
  BY DEF TypeOK
<1>2. [process[p] EXCEPT !.pc = pc] \in State
  BY <1>1 DEF State
<1>3. process' = [process EXCEPT ![p] = [process[p] EXCEPT !.pc = pc]]
  BY DEF GoesTo
<1> QED BY <1>1, <1>2, <1>3 DEF Moves, State

LEMMA DoneFacts ==
  ASSUME IInv, NEW p \in Process, NEW r \in SUBSET Column,
         process[p].pc = "alter", DoneWithColumn(p, r)
  PROVE  /\ Moves(p)
         /\ process'[p].pc = AfterColumn(process[p].at + 1)
         /\ process'[p].at = process[p].at + 1
         /\ process'[p].absent = process[p].absent
         /\ process'[p].refused = process[p].refused \union r
         /\ process[p].at + 1 \in 1 .. Len(Columns)
         /\ NextColumn(p) \in Column
<1> DEFINE after == [pc |-> AfterColumn(process[p].at + 1), at |-> process[p].at + 1,
                     absent |-> process[p].absent, refused |-> process[p].refused \union r]
<1>1. process[p] \in State /\ process \in [Process -> State]
  BY DEF TypeOK, IInv
<1>2. process[p].at < Len(Columns)
  BY DEF IInv, ProcessInv, Position
<1>3. process[p].at \in 0 .. Len(Columns)
  BY <1>1 DEF State
<1>4. process[p].at + 1 \in 1 .. Len(Columns)
  BY <1>2, <1>3, ColumnFacts
<1>5. AfterColumn(process[p].at + 1) \in Starting
  BY <1>4, AfterColumnFacts
<1>6. after \in State
  BY <1>1, <1>4, <1>5, ColumnFacts DEF State, Running
<1>7. process' = [process EXCEPT ![p] = after]
  BY <1>1 DEF DoneWithColumn, State
<1>8. process'[p] = after /\ Moves(p)
  BY <1>1, <1>6, <1>7 DEF Moves
<1> QED BY <1>4, <1>8, ColumnFacts DEF NextColumn

LEMMA OthersStay ==
  ASSUME IInv, NEW p \in Process, Moves(p), schema \subseteq schema', parties' \subseteq parties
  PROVE  \A q \in Process \ {p} : Position(q)' /\ Seen(q)' /\ Behind(q)' /\ Fresh(q)'
<1> SUFFICES ASSUME NEW q \in Process \ {p}
             PROVE  Position(q)' /\ Seen(q)' /\ Behind(q)' /\ Fresh(q)'
  OBVIOUS
<1>1. Position(q) /\ Seen(q) /\ Behind(q) /\ Fresh(q)
  BY DEF IInv, ProcessInv
<1>2. process'[q] = process[q]
  BY DEF Moves
<1>3. Position(q)'
  BY <1>1, <1>2 DEF Position
<1>4. Seen(q)'
  BY <1>1, <1>2 DEF Seen, Looked, NextColumn
<1>5. Behind(q)'
  BY <1>1, <1>2 DEF Behind
<1>6. Fresh(q)'
  BY <1>1, <1>2 DEF Fresh, HasCleared
<1> QED BY <1>3, <1>4, <1>5, <1>6

\* A step that neither touches the lock file nor brings anybody to serve.
LEMMA LockAndHarnessStay ==
  ASSUME IInv, NEW p \in Process, Moves(p), process[p].pc \in Running,
         process[p].pc \in {"serving", "leaving"} =>
           process'[p].pc \in {"serving", "leaving", "dead"},
         process'[p].pc = "serving" => process[p].pc = "serving",
         UNCHANGED <<lock, harness>>
  PROVE  LockTellsServing' /\ HarnessInv'
<1>1. \A q \in Process \ {p} : process'[q] = process[q]
  BY DEF Moves
<1>2. process[p].pc # "off" /\ process[p].pc # "dead"
  BY DEF Running, Starting
<1>3. lock \in Process \union {NoProcess} /\ LockTellsServing
  BY DEF IInv, TypeOK
<1>4. (lock # NoProcess => process[lock].pc \in {"serving", "leaving", "dead"})'
  BY <1>1, <1>2, <1>3 DEF LockTellsServing
<1>5. ASSUME NEW q \in Process, process'[q].pc = "serving", lock' = NoProcess
      PROVE  \E o \in Process : process'[o].pc = "off"
  <2>1. process[q].pc = "serving"
    BY <1>1, <1>5
  <2>2. PICK o \in Process : process[o].pc = "off"
    BY <2>1, <1>3, <1>5 DEF LockTellsServing
  <2> QED BY <2>2, <1>1, <1>2
<1>6. HarnessInv'
  <2>1. HarnessInv
    BY DEF IInv
  <2>2. harness.pc \notin {"killed", "emptied", "unlocked", "stopped"}
    BY <2>1 DEF HarnessInv, Quiet
  <2>3. harness.pc \in {"polling", "ready"} => p = harness.of
    BY <2>1 DEF HarnessInv
  <2> QED BY <2>1, <2>2, <2>3, <1>1, <1>2 DEF HarnessInv, Quiet
<1> QED BY <1>4, <1>5, <1>6 DEF LockTellsServing

(***************************************************************************)
(* One lemma for each step of a process.                                   *)
(***************************************************************************)
LEMMA LookKeeps == ASSUME IInv, NEW p \in Process, Look(p) PROVE IInv'
<1> DEFINE looked == [process[p] EXCEPT !.pc = "alter", !.absent = Absent(p)]
<1>1. process \in [Process -> State] /\ process[p] \in State /\ process[p].pc = "look"
      /\ schema \subseteq Column
  BY DEF IInv, TypeOK, Look
<1>2. Position(p) /\ Behind(p) /\ Fresh(p)
  BY DEF IInv, ProcessInv
<1>3. process[p].at \in 0 .. Len(Columns) /\ process[p].at < Len(Columns)
      /\ (process[p].at = 0 \/ process[p].at >= Plains)
  BY <1>1, <1>2 DEF Position, State
<1>4. NextColumn(p) \in Column
  BY <1>3, ColumnFacts DEF NextColumn
<1>5. Plain \subseteq Column
  BY LifecycleAssumption DEF Plain, Range
<1>6. Absent(p) \in SUBSET Column
  BY <1>4, <1>5 DEF Absent
<1>7. process' = [process EXCEPT ![p] = looked]
  BY <1>1 DEF Look, State
<1>8. /\ looked \in State /\ looked.pc = "alter" /\ looked.at = process[p].at
      /\ looked.absent = Absent(p) /\ looked.refused = process[p].refused
  BY <1>1, <1>6 DEF State, Running, Starting
<1> HIDE DEF looked
<1>9. Moves(p) /\ process'[p] = looked
  BY <1>1, <1>7, <1>8 DEF Moves
<1>10. UNCHANGED <<schema, parties, lock, harness>>
  BY DEF Look
<1>11. TypeOK'
  BY <1>9, <1>10 DEF Moves, IInv, TypeOK
<1>12. Position(p)'
  BY <1>8, <1>9, <1>3 DEF Position
<1>13. Seen(p)'
  <2>1. Looked(p)' = IF process[p].at < Plains THEN Plain ELSE {NextColumn(p)}
    BY <1>8, <1>9 DEF Looked, NextColumn
  <2>2. Looked(p)' \ schema = Absent(p)
    BY <2>1, <1>3, ColumnFacts DEF Absent
  <2> QED BY <2>2, <1>8, <1>9, <1>10 DEF Seen
<1>14. Behind(p)'
  BY <1>1, <1>2, <1>8, <1>9, <1>10 DEF Behind, Running, Starting
<1>15. Fresh(p)'
  BY <1>1, <1>2, <1>8, <1>9, <1>10 DEF Fresh, HasCleared, Running, Starting
<1>16. ProcessInv'
  BY <1>9, <1>10, <1>12, <1>13, <1>14, <1>15, OthersStay DEF ProcessInv
<1>17. LockTellsServing' /\ HarnessInv'
  BY <1>1, <1>8, <1>9, <1>10, LockAndHarnessStay DEF Running, Starting
<1> QED BY <1>11, <1>16, <1>17 DEF IInv

\* A column is done with: it is there, or one that was absent and is not plain was refused.
LEMMA DoneKeeps ==
  ASSUME IInv, NEW p \in Process, NEW r \in SUBSET Column, process[p].pc = "alter",
         DoneWithColumn(p, r), schema \subseteq schema', schema' \subseteq Column,
         UNCHANGED <<parties, lock, harness>>,
         NextColumn(p) \in schema' \union (r \ Plain)
  PROVE  IInv'
<1>1. /\ Moves(p)
      /\ process'[p].pc = AfterColumn(process[p].at + 1)
      /\ process'[p].at = process[p].at + 1
      /\ process'[p].absent = process[p].absent
      /\ process'[p].refused = process[p].refused \union r
      /\ process[p].at + 1 \in 1 .. Len(Columns)
  BY DoneFacts
<1>2. process[p] \in State /\ process[p].at \in Nat
  BY DEF IInv, TypeOK, State
<1>3. Position(p) /\ Seen(p) /\ Behind(p) /\ Fresh(p)
  BY DEF IInv, ProcessInv
<1> DEFINE n == process[p].at + 1
<1>4. /\ n < Plains => process'[p].pc = "alter"
      /\ n = Clearing => process'[p].pc = "clear"
      /\ n = Len(Columns) => process'[p].pc = "bind"
      /\ n >= Plains /\ n # Clearing /\ n # Len(Columns) => process'[p].pc = "look"
      /\ process'[p].pc \in Starting
  BY <1>1, AfterColumnFacts
<1>5. n \in 1 .. Len(Columns) /\ process'[p].at = n
  BY <1>1
<1> HIDE DEF n
<1>6. TypeOK'
  BY <1>1 DEF Moves, IInv, TypeOK
<1>7. Position(p)'
  BY <1>4, <1>5, ColumnFacts DEF Position, Starting
<1>8. Seen(p)'
  <2> SUFFICES ASSUME process'[p].pc = "alter" PROVE (Looked(p) \ process[p].absent \subseteq schema)'
    BY DEF Seen
  <2>1. n < Plains
    BY <1>4, <1>5, ColumnFacts
  <2>2. Looked(p)' = Plain /\ Looked(p) = Plain
    BY <2>1, <1>2, <1>5, ColumnFacts DEF Looked, n
  <2> QED BY <2>2, <1>1, <1>3 DEF Seen
<1>9. Behind(p)'
  <2> SUFFICES ASSUME NEW i \in 1 .. n
               PROVE  Columns[i] \in schema' \union ((process[p].refused \union r) \ Plain)
    BY <1>1, <1>5 DEF Behind
  <2>1. CASE i = n
    BY <2>1 DEF NextColumn, n
  <2>2. CASE i # n
    <3>1. i \in 1 .. process[p].at
      BY <2>2, <1>2, <1>5 DEF n
    <3> QED BY <3>1, <1>3 DEF Behind, Running, Starting
  <2> QED BY <2>1, <2>2
<1>10. Fresh(p)'
  <2>1. HasCleared(p)' => HasCleared(p)
    <3> SUFFICES ASSUME n >= Clearing, process'[p].pc # "clear" PROVE HasCleared(p)
      BY <1>5 DEF HasCleared, Clearing
    <3>1. n # Clearing
      BY <1>4
    <3>2. process[p].at >= Clearing
      BY <3>1, <1>2, <1>5, ColumnFacts DEF n
    <3> QED BY <3>2 DEF HasCleared, Clearing, Running, Starting
  <2> QED BY <2>1, <1>3 DEF Fresh
<1>11. ProcessInv'
  BY <1>1, <1>7, <1>8, <1>9, <1>10, OthersStay DEF ProcessInv
<1>12. LockTellsServing' /\ HarnessInv'
  BY <1>1, <1>4, LockAndHarnessStay DEF Running, Starting
<1> QED BY <1>6, <1>11, <1>12 DEF IInv

LEMMA ColumnIsThereKeeps == ASSUME IInv, NEW p \in Process, ColumnIsThere(p) PROVE IInv'
<1>1. /\ process[p].pc = "alter" /\ NextColumn(p) \notin process[p].absent
      /\ DoneWithColumn(p, {}) /\ UNCHANGED <<schema, parties, lock, harness>>
  BY DEF ColumnIsThere
<1>2. Seen(p) /\ Position(p) /\ process[p].at \in Nat /\ schema \subseteq Column
  BY DEF IInv, ProcessInv, TypeOK, State
<1>3. NextColumn(p) \in Looked(p)
  <2>1. CASE process[p].at < Plains
    <3>1. process[p].at + 1 \in 1 .. Plains
      BY <2>1, <1>2, ColumnFacts
    <3> QED BY <3>1, <2>1, ColumnFacts DEF Looked, NextColumn
  <2>2. CASE ~(process[p].at < Plains)
    BY <2>2 DEF Looked
  <2> QED BY <2>1, <2>2
<1>4. NextColumn(p) \in schema
  BY <1>1, <1>2, <1>3 DEF Seen
<1> QED BY <1>1, <1>2, <1>4, DoneKeeps

LEMMA AddColumnKeeps == ASSUME IInv, NEW p \in Process, AddColumn(p) PROVE IInv'
<1>1. /\ process[p].pc = "alter" /\ DoneWithColumn(p, {})
      /\ schema' = schema \union {NextColumn(p)} /\ UNCHANGED <<parties, lock, harness>>
  BY DEF AddColumn
<1>2. NextColumn(p) \in Column
  BY <1>1, DoneFacts
<1>3. schema' \subseteq Column
  BY <1>1, <1>2 DEF IInv, TypeOK
<1> QED BY <1>1, <1>3, DoneKeeps

LEMMA AlterThrowsKeeps == ASSUME IInv, NEW p \in Process, AlterThrows(p) PROVE IInv'
<1>1. /\ process[p].pc = "alter" /\ NextColumn(p) \notin Plain
      /\ DoneWithColumn(p, {NextColumn(p)} \ schema)
      /\ UNCHANGED <<schema, parties, lock, harness>>
  BY DEF AlterThrows
<1>2. process[p].absent \in SUBSET Column /\ NextColumn(p) \in process[p].absent
      /\ schema \subseteq Column
  BY DEF IInv, TypeOK, State, AlterThrows
<1> QED BY <1>1, <1>2, DoneKeeps

LEMMA ClearAllPartiesKeeps == ASSUME IInv, NEW p \in Process, ClearAllParties(p) PROVE IInv'
<1>1. /\ process[p].pc = "clear" /\ GoesTo(p, "look") /\ parties' = {}
      /\ UNCHANGED <<schema, lock, harness>>
  BY DEF ClearAllParties, EmptyParties
<1>2. /\ Moves(p) /\ process'[p].pc = "look" /\ process'[p].at = process[p].at
      /\ process'[p].absent = process[p].absent /\ process'[p].refused = process[p].refused
  BY <1>1, GoesToFacts DEF IInv, Running, Starting
<1>3. Position(p) /\ Behind(p)
  BY DEF IInv, ProcessInv
<1>4. TypeOK'
  BY <1>1, <1>2 DEF Moves, IInv, TypeOK
<1>5. Position(p)' /\ Seen(p)' /\ Fresh(p)'
  BY <1>1, <1>2, <1>3, ColumnFacts DEF Position, Seen, Fresh
<1>6. Behind(p)'
  BY <1>1, <1>2, <1>3 DEF Behind, Running, Starting
<1>7. ProcessInv'
  BY <1>1, <1>2, <1>5, <1>6, OthersStay DEF ProcessInv
<1>8. LockTellsServing' /\ HarnessInv'
  BY <1>1, <1>2, LockAndHarnessStay DEF Running, Starting
<1> QED BY <1>4, <1>7, <1>8 DEF IInv

\* A process that is through with the tables goes on, or comes to its end.
LEMMA GoingOn ==
  ASSUME IInv, NEW p \in Process, NEW pc, GoesTo(p, pc), UNCHANGED <<schema, parties>>,
         \/ /\ process[p].pc \in {"bind", "bound", "listening", "serving"}
            /\ pc \in {"bound", "listening", "serving", "leaving"}
         \/ /\ process[p].pc \in Running
            /\ pc \in {"off", "dead"}
  PROVE  Moves(p) /\ process'[p].pc = pc /\ ProcessInv'
<1>1. /\ Moves(p) /\ process'[p].pc = pc /\ process'[p].at = process[p].at
      /\ process'[p].absent = process[p].absent /\ process'[p].refused = process[p].refused
  BY GoesToFacts DEF IInv, Running, Starting
<1>2. Position(p) /\ Behind(p) /\ Fresh(p)
  BY DEF IInv, ProcessInv
<1>3. Position(p)'
  BY <1>1, <1>2 DEF Position
<1>4. Seen(p)' /\ Behind(p)'
  BY <1>1, <1>2 DEF Seen, Behind, Running, Starting
<1>5. Fresh(p)'
  BY <1>1, <1>2 DEF Fresh, HasCleared, Running, Starting
<1> QED BY <1>1, <1>3, <1>4, <1>5, OthersStay DEF ProcessInv

LEMMA BindKeeps == ASSUME IInv, NEW p \in Process, Bind(p) PROVE IInv'
<1> DEFINE pc == IF \E q \in Process : process[q].pc \in HoldsPorts THEN "dead" ELSE "bound"
<1>1. /\ process[p].pc = "bind" /\ GoesTo(p, pc) /\ pc \in {"dead", "bound"}
      /\ UNCHANGED <<schema, parties, lock, harness>>
  BY DEF Bind
<1> HIDE DEF pc
<1>2. Moves(p) /\ process'[p].pc = pc /\ ProcessInv'
  BY <1>1, GoingOn DEF Running, Starting
<1>3. LockTellsServing' /\ HarnessInv'
  BY <1>1, <1>2, LockAndHarnessStay DEF Running, Starting
<1> QED BY <1>1, <1>2, <1>3 DEF IInv, TypeOK, Moves

LEMMA ListenKeeps == ASSUME IInv, NEW p \in Process, Listen(p) PROVE IInv'
<1>1. /\ process[p].pc = "bound" /\ GoesTo(p, "listening")
      /\ UNCHANGED <<schema, parties, lock, harness>>
  BY DEF Listen
<1>2. Moves(p) /\ process'[p].pc = "listening" /\ ProcessInv'
  BY <1>1, GoingOn
<1>3. LockTellsServing' /\ HarnessInv'
  BY <1>1, <1>2, LockAndHarnessStay DEF Running, Starting
<1> QED BY <1>1, <1>2, <1>3 DEF IInv, TypeOK, Moves

LEMMA BeginningAdviceKeeps == ASSUME IInv, NEW p \in Process, BeginningAdvice(p) PROVE IInv'
<1>1. /\ process[p].pc = "listening" /\ GoesTo(p, "serving") /\ lock' = p
      /\ UNCHANGED <<schema, parties, harness>>
  BY DEF BeginningAdvice
<1>2. Moves(p) /\ process'[p].pc = "serving" /\ ProcessInv'
  BY <1>1, GoingOn
<1>3. LockTellsServing'
  BY <1>1, <1>2, LifecycleAssumption DEF LockTellsServing
<1>4. HarnessInv'
  <2>1. HarnessInv
    BY DEF IInv
  <2>2. harness.pc \notin {"killed", "emptied", "unlocked", "stopped"}
    BY <1>1, <2>1 DEF HarnessInv, Quiet, Running
  <2>3. harness.pc \in {"polling", "ready"} => p = harness.of
    BY <1>1, <2>1 DEF HarnessInv, Running
  <2> QED BY <2>1, <2>2, <2>3, <1>1, <1>2 DEF HarnessInv, Moves
<1> QED BY <1>1, <1>2, <1>3, <1>4 DEF IInv, TypeOK, Moves

LEMMA SavePartyKeeps == ASSUME IInv, NEW p \in Process, SaveParty(p) PROVE IInv'
<1> DEFINE new == [by |-> p, after |-> {q \in Process : HasCleared(q)}]
<1>1. /\ process[p].pc \in Answers /\ parties' = parties \union {new}
      /\ UNCHANGED <<process, schema, lock, harness>>
  BY DEF SaveParty
<1>2. new \in Party
  BY DEF Party
<1>3. \A q \in Process : HasCleared(q) => q \in new.after
  OBVIOUS
<1> HIDE DEF new
<1>4. \A q \in Process : Position(q) /\ Seen(q) /\ Behind(q) /\ Fresh(q)
  BY DEF IInv, ProcessInv
<1>5. TypeOK'
  BY <1>1, <1>2 DEF IInv, TypeOK
<1>6. ASSUME NEW q \in Process PROVE Position(q)' /\ Seen(q)' /\ Behind(q)' /\ Fresh(q)'
  <2>1. Position(q)' /\ Behind(q)'
    BY <1>1, <1>4 DEF Position, Behind
  <2>2. Seen(q)'
    BY <1>1, <1>4 DEF Seen, Looked, NextColumn
  <2>3. HasCleared(q)' <=> HasCleared(q)
    BY <1>1 DEF HasCleared
  <2>4. Fresh(q)'
    BY <1>1, <1>3, <1>4, <2>3 DEF Fresh
  <2> QED BY <2>1, <2>2, <2>4
<1>7. LockTellsServing' /\ HarnessInv'
  BY <1>1 DEF IInv, LockTellsServing, HarnessInv, Quiet
<1> QED BY <1>5, <1>6, <1>7 DEF IInv, ProcessInv

LEMMA QuitKeeps == ASSUME IInv, NEW p \in Process, Quit(p) PROVE IInv'
<1>1. /\ process[p].pc = "serving" /\ GoesTo(p, "leaving")
      /\ UNCHANGED <<schema, parties, lock, harness>>
  BY DEF Quit
<1>2. Moves(p) /\ process'[p].pc = "leaving" /\ ProcessInv'
  BY <1>1, GoingOn
<1>3. LockTellsServing' /\ HarnessInv'
  BY <1>1, <1>2, LockAndHarnessStay DEF Running, Starting
<1> QED BY <1>1, <1>2, <1>3 DEF IInv, TypeOK, Moves

LEMMA LeaveKeeps == ASSUME IInv, NEW p \in Process, Leave(p) PROVE IInv'
<1>1. /\ process[p].pc = "leaving" /\ GoesTo(p, "off") /\ lock' = NoProcess
      /\ UNCHANGED <<schema, parties, harness>>
  BY DEF Leave, RemoveLock
<1>2. Moves(p) /\ process'[p].pc = "off" /\ ProcessInv'
  BY <1>1, GoingOn DEF Running
<1>3. LockTellsServing'
  BY <1>1, <1>2 DEF LockTellsServing
<1>4. HarnessInv'
  <2>1. HarnessInv
    BY DEF IInv
  <2>2. harness.pc \notin {"killed", "emptied", "stopped"}
    BY <1>1, <2>1 DEF HarnessInv, Quiet, Running
  <2>3. harness.pc \in {"polling", "ready"} => p = harness.of
    BY <1>1, <2>1 DEF HarnessInv, Running
  <2> QED BY <2>1, <2>2, <2>3, <1>1, <1>2 DEF HarnessInv, Moves, Quiet, Running, Starting
<1> QED BY <1>1, <1>2, <1>3, <1>4 DEF IInv, TypeOK, Moves

LEMMA DiesKeeps == ASSUME IInv, NEW p \in Process, Dies(p) PROVE IInv'
<1>1. /\ process[p].pc \in Running /\ GoesTo(p, "dead")
      /\ UNCHANGED <<schema, parties, lock, harness>>
  BY DEF Dies
<1>2. Moves(p) /\ process'[p].pc = "dead" /\ ProcessInv'
  BY <1>1, GoingOn
<1>3. LockTellsServing' /\ HarnessInv'
  BY <1>1, <1>2, LockAndHarnessStay
<1> QED BY <1>1, <1>2, <1>3 DEF IInv, TypeOK, Moves

(***************************************************************************)
(* Starting a process, and the steps of the tests' SetUp and TearDown.     *)
(***************************************************************************)
LEMMA StartKeepsProcesses ==
  ASSUME IInv, NEW p \in Process, Start(p), UNCHANGED <<schema, parties>>
  PROVE  Moves(p) /\ process[p].pc = "new" /\ process'[p].pc = "look" /\ ProcessInv'
<1>1. process[p].pc = "new" /\ GoesTo(p, "look")
  BY DEF Start
<1>2. /\ Moves(p) /\ process'[p].pc = "look" /\ process'[p].at = process[p].at
      /\ process'[p].absent = process[p].absent /\ process'[p].refused = process[p].refused
  BY <1>1, GoesToFacts DEF IInv, Running, Starting
<1>3. process'[p].at = 0
  BY <1>1, <1>2 DEF IInv, ProcessInv, Position
<1>4. Position(p)' /\ Seen(p)' /\ Behind(p)'
  BY <1>2, <1>3, ColumnFacts DEF Position, Seen, Behind
<1>5. Fresh(p)'
  BY <1>3, ColumnFacts DEF Fresh, HasCleared, Clearing
<1> QED BY <1>1, <1>2, <1>4, <1>5, OthersStay DEF ProcessInv

LEMMA StartByHandKeeps == ASSUME IInv, NEW p \in Process, StartByHand(p) PROVE IInv'
<1>1. /\ harness.pc = "idle" /\ Start(p) /\ UNCHANGED <<schema, parties, lock, harness>>
  BY DEF StartByHand
<1>2. Moves(p) /\ process[p].pc = "new" /\ process'[p].pc = "look" /\ ProcessInv'
  BY <1>1, StartKeepsProcesses
<1>3. LockTellsServing'
  BY <1>1, <1>2 DEF IInv, TypeOK, LockTellsServing, Moves
<1>4. HarnessInv'
  BY <1>1 DEF HarnessInv
<1> QED BY <1>1, <1>2, <1>3, <1>4 DEF IInv, TypeOK, Moves

LEMMA LaunchKeeps == ASSUME IInv, NEW p \in Process, Launch(p) PROVE IInv'
<1>1. /\ harness.pc = "unlocked" /\ Start(p) /\ harness' = Harness("polling", p)
      /\ UNCHANGED <<schema, parties, lock>>
  BY DEF Launch
<1>2. Moves(p) /\ process[p].pc = "new" /\ process'[p].pc = "look" /\ ProcessInv'
  BY <1>1, StartKeepsProcesses
<1>3. Quiet /\ lock = NoProcess
  BY <1>1 DEF IInv, HarnessInv
<1>4. LockTellsServing'
  BY <1>1, <1>2, <1>3 DEF LockTellsServing, Moves, Quiet, Running
<1>5. harness'.pc = "polling" /\ harness'.of = p /\ harness' \in HarnessState
  BY <1>1 DEF Harness, HarnessState
<1>6. HarnessInv'
  BY <1>1, <1>2, <1>3, <1>5 DEF HarnessInv, Moves, Quiet
<1> QED BY <1>1, <1>2, <1>4, <1>5, <1>6 DEF IInv, TypeOK, Moves

LEMMA PkillKeeps == ASSUME IInv, Pkill PROVE IInv'
<1> DEFINE killed(p) ==
      IF process[p].pc \in Running THEN [process[p] EXCEPT !.pc = "dead"] ELSE process[p]
<1>1. /\ process' = [p \in Process |-> killed(p)]
      /\ harness' \in {Harness("killed", NoProcess), Harness("stopped", NoProcess)}
      /\ UNCHANGED <<schema, parties, lock>>
  BY DEF Pkill
<1>2. process \in [Process -> State]
  BY DEF IInv, TypeOK
<1>3. ASSUME NEW p \in Process
      PROVE  /\ killed(p) \in State /\ killed(p).at = process[p].at
             /\ killed(p).pc = IF process[p].pc \in Running THEN "dead" ELSE process[p].pc
  BY <1>2 DEF State
<1> HIDE DEF killed
<1>4. \A p \in Process : /\ process'[p].pc \notin Running
                         /\ process'[p].pc = "new" => process[p].pc = "new"
                         /\ process'[p].at = process[p].at
  BY <1>1, <1>3 DEF Running, Starting
<1>5. TypeOK'
  <2>1. process' \in [Process -> State]
    BY <1>1, <1>3
  <2>2. harness' \in HarnessState
    BY <1>1 DEF Harness, HarnessState
  <2> QED BY <2>1, <2>2, <1>1 DEF IInv, TypeOK
<1>6. ProcessInv'
  <2> SUFFICES ASSUME NEW p \in Process PROVE Position(p)' /\ Seen(p)' /\ Behind(p)' /\ Fresh(p)'
    BY DEF ProcessInv
  <2>1. Position(p)'
    BY <1>4 DEF IInv, ProcessInv, Position, Running, Starting
  <2>2. Seen(p)' /\ Behind(p)' /\ Fresh(p)'
    BY <1>4 DEF Seen, Behind, Fresh, HasCleared, Running, Starting
  <2> QED BY <2>1, <2>2
<1>7. LockTellsServing'
  <2>1. LockTellsServing /\ lock \in Process \union {NoProcess}
    BY DEF IInv, TypeOK
  <2>2. lock' # NoProcess => process'[lock'].pc \in {"serving", "leaving", "dead"}
    BY <2>1, <1>1, <1>3 DEF LockTellsServing
  <2> QED BY <2>2, <1>4 DEF LockTellsServing, Running
<1>8. HarnessInv'
  BY <1>1, <1>4 DEF HarnessInv, Harness, Quiet
<1> QED BY <1>5, <1>6, <1>7, <1>8 DEF IInv

\* The database is removed only when no process runs.
LEMMA QuietKeepsProcesses == ASSUME IInv, Quiet, UNCHANGED process PROVE ProcessInv'
<1> SUFFICES ASSUME NEW p \in Process PROVE Position(p)' /\ Seen(p)' /\ Behind(p)' /\ Fresh(p)'
  BY DEF ProcessInv
<1>1. process[p].pc \notin Running
  BY DEF Quiet
<1>2. Position(p)'
  BY DEF IInv, ProcessInv, Position
<1>3. Seen(p)' /\ Behind(p)' /\ Fresh(p)'
  BY <1>1 DEF Seen, Behind, Fresh, HasCleared, Running, Starting
<1> QED BY <1>2, <1>3

LEMMA SetUpRemovesDatabaseKeeps == ASSUME IInv, SetUpRemovesDatabase PROVE IInv'
<1>1. /\ harness.pc = "killed" /\ schema' = {} /\ parties' = {}
      /\ harness' = Harness("emptied", NoProcess) /\ UNCHANGED <<process, lock>>
  BY DEF SetUpRemovesDatabase, EmptyDatabase
<1>2. Quiet
  BY <1>1 DEF IInv, HarnessInv
<1>3. ProcessInv'
  BY <1>1, <1>2, QuietKeepsProcesses
<1>4. LockTellsServing' /\ HarnessInv'
  BY <1>1, <1>2 DEF IInv, LockTellsServing, HarnessInv, Harness, Quiet
<1>5. TypeOK'
  BY <1>1 DEF IInv, TypeOK, Harness, HarnessState
<1> QED BY <1>3, <1>4, <1>5 DEF IInv

LEMMA SetUpUnlocksKeeps == ASSUME IInv, SetUpUnlocks PROVE IInv'
<1>1. /\ harness.pc = "emptied" /\ lock' = NoProcess
      /\ harness' = Harness("unlocked", NoProcess) /\ UNCHANGED <<process, schema, parties>>
  BY DEF SetUpUnlocks, SetUpRemovesLock
<1>2. Quiet
  BY <1>1 DEF IInv, HarnessInv
<1>3. ProcessInv'
  BY <1>1, <1>2, QuietKeepsProcesses
<1>4. LockTellsServing' /\ HarnessInv'
  BY <1>1, <1>2 DEF LockTellsServing, HarnessInv, Harness, Quiet, Running
<1>5. TypeOK'
  BY <1>1 DEF IInv, TypeOK, Harness, HarnessState
<1> QED BY <1>3, <1>4, <1>5 DEF IInv

\* What SetUp's polling does changes nothing but its own state.
LEMMA PollingKeeps == ASSUME IInv, SeesLock \/ TimesOut PROVE IInv'
<1>1. harness.pc = "polling" /\ UNCHANGED <<process, schema, parties, lock>>
  BY DEF SeesLock, TimesOut
<1>2. /\ harness.of \in Process /\ lock \in {harness.of, NoProcess}
      /\ \A p \in Process \ {harness.of} : process[p].pc \notin Running
  BY <1>1 DEF IInv, HarnessInv
<1>3. ProcessInv' /\ LockTellsServing'
  <2>1. ASSUME NEW p \in Process PROVE Position(p)' /\ Seen(p)' /\ Behind(p)' /\ Fresh(p)'
    BY <1>1 DEF IInv, ProcessInv, Position, Seen, Looked, NextColumn, Behind, Fresh, HasCleared
  <2>2. LockTellsServing'
    BY <1>1 DEF IInv, LockTellsServing
  <2> QED BY <2>1, <2>2 DEF ProcessInv
<1>4. CASE SeesLock
  <2>1. harness' = Harness("ready", harness.of) /\ lock = harness.of /\ lock # NoProcess
    BY <1>2, <1>4 DEF SeesLock
  <2>2. process[harness.of].pc \in {"serving", "leaving", "dead"}
    BY <2>1 DEF IInv, LockTellsServing
  <2>3. HarnessInv'
    BY <1>1, <1>2, <2>1, <2>2 DEF HarnessInv, Harness
  <2>4. TypeOK'
    BY <1>1, <1>2, <2>1 DEF IInv, TypeOK, Harness, HarnessState
  <2> QED BY <1>3, <2>3, <2>4 DEF IInv
<1>5. CASE TimesOut
  <2>1. harness' = Harness("idle", NoProcess)
    BY <1>5 DEF TimesOut
  <2>2. HarnessInv' /\ TypeOK'
    BY <1>1, <2>1 DEF HarnessInv, Harness, IInv, TypeOK, HarnessState
  <2> QED BY <1>3, <2>2 DEF IInv
<1> QED BY <1>4, <1>5

LEMMA TearDownKeeps == ASSUME IInv, TearDown PROVE IInv'
<1>1. /\ harness.pc = "stopped" /\ schema' = {} /\ parties' = {} /\ lock' = NoProcess
      /\ harness' = Harness("idle", NoProcess) /\ UNCHANGED process
  BY DEF TearDown, EmptyDatabase
<1>2. Quiet
  BY <1>1 DEF IInv, HarnessInv
<1>3. ProcessInv'
  BY <1>1, <1>2, QuietKeepsProcesses
<1>4. LockTellsServing' /\ HarnessInv'
  BY <1>1, <1>2 DEF LockTellsServing, HarnessInv, Harness, Quiet, Running
<1>5. TypeOK'
  BY <1>1 DEF IInv, TypeOK, Harness, HarnessState
<1> QED BY <1>3, <1>4, <1>5 DEF IInv

(***************************************************************************)
(* The invariant holds, and the theorems.                                  *)
(***************************************************************************)
LEMMA InitIInv == Init => IInv
<1> SUFFICES ASSUME Init PROVE IInv
  OBVIOUS
<1>1. NewProcess \in State
  BY ColumnFacts DEF NewProcess, State
<1>2. \A p \in Process : process[p] = NewProcess
  BY DEF Init
<1>3. TypeOK
  BY <1>1, LifecycleAssumption DEF Init, TypeOK, Harness, HarnessState
<1>4. ProcessInv
  BY <1>2, ColumnFacts
     DEF ProcessInv, Position, Seen, Behind, Fresh, HasCleared, NewProcess, Running, Starting
<1>5. LockTellsServing /\ HarnessInv
  BY <1>2 DEF Init, LockTellsServing, HarnessInv, Harness, NewProcess
<1> QED BY <1>3, <1>4, <1>5 DEF IInv

LEMMA StepIInv == IInv /\ [Next]_vars => IInv'
<1> SUFFICES ASSUME IInv, [Next]_vars PROVE IInv'
  OBVIOUS
<1>1. CASE HarnessStep
  BY <1>1, PkillKeeps, SetUpRemovesDatabaseKeeps, SetUpUnlocksKeeps, PollingKeeps, TearDownKeeps
     DEF HarnessStep
<1>2. ASSUME NEW p \in Process, ProcessStep(p) PROVE IInv'
  BY <1>2, LookKeeps, ColumnIsThereKeeps, AddColumnKeeps, AlterThrowsKeeps, ClearAllPartiesKeeps,
     BindKeeps, ListenKeeps, BeginningAdviceKeeps, SavePartyKeeps, QuitKeeps, LeaveKeeps, DiesKeeps
     DEF ProcessStep
<1>3. ASSUME NEW p \in Process, StartByHand(p) \/ Launch(p) PROVE IInv'
  BY <1>3, StartByHandKeeps, LaunchKeeps
<1>4. CASE UNCHANGED vars
  <2>1. UNCHANGED <<process, schema, parties, lock, harness>>
    BY <1>4 DEF vars
  <2>2. ASSUME NEW p \in Process PROVE Position(p)' /\ Seen(p)' /\ Behind(p)' /\ Fresh(p)'
    BY <2>1 DEF IInv, ProcessInv, Position, Seen, Looked, NextColumn, Behind, Fresh, HasCleared
  <2>3. TypeOK' /\ LockTellsServing' /\ HarnessInv'
    BY <2>1 DEF IInv, TypeOK, LockTellsServing, HarnessInv, Quiet
  <2> QED BY <2>2, <2>3 DEF IInv, ProcessInv
<1> QED BY <1>1, <1>2, <1>3, <1>4 DEF Next

LEMMA AlwaysIInv == Spec => []IInv
BY InitIInv, StepIInv, PTL DEF Spec

\* The state is well typed: positions in the start stay among the columns, the lock is a
\* process's.
THEOREM TypeCorrect == Spec => []TypeOK
<1>1. IInv => TypeOK
  BY DEF IInv
<1> QED BY <1>1, AlwaysIInv, PTL

\* However starts race, break off and begin anew, a process that has bound its ports lacks only
\* columns AddPrototype logged a failure for, and none of those the constructor adds itself.
THEOREM ServesWithItsSchema == Spec => []ServedWithSchema
<1>1. IInv => ServedWithSchema
  <2> SUFFICES ASSUME IInv, NEW p \in Process, process[p].pc \in HoldsPorts
               PROVE  Range(Columns) \ schema \subseteq process[p].refused \ Plain
    BY DEF ServedWithSchema
  <2>1. process[p].at = Len(Columns) /\ process[p].pc \in Running
    BY DEF IInv, ProcessInv, Position, HoldsPorts, Running
  <2>2. \A i \in 1 .. Len(Columns) : Columns[i] \in schema \union (process[p].refused \ Plain)
    BY <2>1 DEF IInv, ProcessInv, Behind
  <2> QED BY <2>2, ColumnFacts
<1> QED BY <1>1, AlwaysIInv, PTL

\* No process that answers requests can read a party saved before it cleared the table itself;
\* a party that another server saved after that is not excluded.
THEOREM PartiesSavedAfterClearHolds == Spec => []PartiesSavedAfterClear
<1>1. IInv => PartiesSavedAfterClear
  <2> SUFFICES ASSUME IInv, NEW p \in Process, process[p].pc \in Answers
               PROVE  \A party \in parties : p \in party.after
    BY DEF PartiesSavedAfterClear
  <2>1. process[p].at = Len(Columns) /\ Fresh(p)
    BY DEF IInv, ProcessInv, Position, Answers
  <2>2. HasCleared(p)
    BY <2>1, ColumnFacts DEF HasCleared, Answers, Running, Clearing
  <2> QED BY <2>1, <2>2 DEF Fresh
<1> QED BY <1>1, AlwaysIInv, PTL

\* The lock file is a serving or killed process's, and is gone from under a serving process only
\* because another one ended.
THEOREM LockFileTells == Spec => []LockTellsServing
<1>1. IInv => LockTellsServing
  BY DEF IInv
<1> QED BY <1>1, AlwaysIInv, PTL

\* SetUp returns only once the process it launched has come to serve.
THEOREM SetUpWaits == Spec => []SetUpMeansServing
<1>1. IInv => SetUpMeansServing
  BY DEF IInv, HarnessInv, SetUpMeansServing
<1> QED BY <1>1, AlwaysIInv, PTL
=============================================================================
