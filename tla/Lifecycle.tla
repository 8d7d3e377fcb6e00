------------------------------ MODULE Lifecycle ------------------------------
(***************************************************************************)
(* The life of a server process: Packets/Implementation/ServerMainThread,  *)
(* the constructors of PartyDatabase and PlayerDatabase, which bring the   *)
(* tables of an older build up to date, and the lock file by which the     *)
(* tests' BackendEnvironment learns that the process it launched serves.   *)
(*                                                                         *)
(* Nothing keeps a second process from starting while another starts,      *)
(* serves or ends: the ports are asked for last, after the tables were     *)
(* altered and the parties cleared.  A process may end between any two     *)
(* statements.                                                             *)
(***************************************************************************)
EXTENDS Naturals, Sequences, Functions

CONSTANTS
  Process, NoProcess,
  Column,
  PlainColumns,   \* of the parties: the constructor alters the table for them itself
  PartyColumns,   \* of the parties: AddPrototype does
  PlayerColumns,  \* of the players: AddPrototype does, once the parties are cleared
  OldSchemas      \* the columns a database of an older build may have

Columns == PlainColumns \o PartyColumns \o PlayerColumns
Plain == Range(PlainColumns)

ASSUME LifecycleAssumption ==
  /\ NoProcess \notin Process
  /\ {PlainColumns, PartyColumns, PlayerColumns} \subseteq Seq(Column)
  /\ Len(PlainColumns) > 0 /\ Len(PartyColumns) > 0 /\ Len(PlayerColumns) > 0
  /\ \A i, j \in 1 .. Len(Columns) : Columns[i] = Columns[j] => i = j
  /\ OldSchemas \subseteq SUBSET Column

VARIABLES
  process,   \* where each process is, the columns it is done with, those it found absent,
             \* and those (history) whose ALTER threw and was logged, though they were absent
  schema,    \* the columns of the tables
  parties,   \* the rows of parties: by whom saved, and (history) who had cleared them by then
  lock,      \* server.lock, and (history) whose it is
  harness    \* where the tests' SetUp and TearDown are, and the process it launched

vars == <<process, schema, parties, lock, harness>>

Starting == {"look", "alter", "clear", "bind"}
Running == Starting \union {"bound", "listening", "serving", "leaving"}
HoldsPorts == {"bound", "listening", "serving"}
Answers == {"listening", "serving"}

State == [pc : Running \union {"new", "off", "dead"}, at : 0 .. Len(Columns),
          absent : SUBSET Column, refused : SUBSET Column]
NewProcess == [pc |-> "new", at |-> 0, absent |-> {}, refused |-> {}]

Party == [by : Process, after : SUBSET Process]
HarnessState ==
  [pc : {"idle", "killed", "emptied", "unlocked", "polling", "ready", "stopped"},
   of : Process \union {NoProcess}]
Harness(pc, p) == [pc |-> pc, of |-> p]

Init ==
  /\ process = [p \in Process |-> NewProcess]
  /\ schema \in OldSchemas
  /\ parties = {}
  /\ lock = NoProcess
  /\ harness = Harness("idle", NoProcess)

GoesTo(p, pc) == process' = [process EXCEPT ![p].pc = pc]

Start(p) == process[p].pc = "new" /\ GoesTo(p, "look")

-----------------------------------------------------------------------------
(* PartyDatabase::Get, ClearAllParties and PlayerDatabase::Get, run by InitializeHandlers *)

NextColumn(p) == Columns[process[p].at + 1]

\* mutant: the first column found speaks for all
FirstSpeaksForAll(p) == IF schema = {} THEN {NextColumn(p)} ELSE {}
\* table_info: once for the plain columns, once for every other one.
Absent(p) == (IF process[p].at = 0 THEN Plain ELSE {NextColumn(p)}) \ schema

Look(p) ==
  /\ process[p].pc = "look"
  /\ process' = [process EXCEPT ![p].pc = "alter", ![p].absent = Absent(p)]
  /\ UNCHANGED <<schema, parties, lock, harness>>

AfterColumn(n) ==
  IF n < Len(PlainColumns) THEN "alter"
  ELSE IF n = Len(PlainColumns \o PartyColumns) THEN "clear"
  ELSE IF n = Len(Columns) THEN "bind" ELSE "look"

DoneWithColumn(p, refused) ==
  process' = [process EXCEPT ![p].pc = AfterColumn(process[p].at + 1), ![p].at = @ + 1,
                             ![p].refused = @ \union refused]

ColumnIsThere(p) ==
  /\ process[p].pc = "alter"
  /\ NextColumn(p) \notin process[p].absent
  /\ DoneWithColumn(p, {})
  /\ UNCHANGED <<schema, parties, lock, harness>>

AddColumn(p) ==
  /\ process[p].pc = "alter"
  /\ NextColumn(p) \in process[p].absent \ schema
  /\ schema' = schema \union {NextColumn(p)}
  /\ DoneWithColumn(p, {})
  /\ UNCHANGED <<parties, lock, harness>>

\* ALTER throws, as another process was faster or for a reason of its own.  AddPrototype logs
\* it and goes on; for a plain column nothing catches it, and the process ends (see Dies).
AlterThrows(p) ==
  /\ process[p].pc = "alter"
  /\ NextColumn(p) \in process[p].absent
  /\ NextColumn(p) \notin Plain
  /\ DoneWithColumn(p, {NextColumn(p)} \ schema)
  /\ UNCHANGED <<schema, parties, lock, harness>>

\* mutant: the parties stay
LeaveParties == UNCHANGED parties
EmptyParties == parties' = {}

ClearAllParties(p) ==
  /\ process[p].pc = "clear"
  /\ EmptyParties
  /\ GoesTo(p, "look")
  /\ UNCHANGED <<schema, lock, harness>>

-----------------------------------------------------------------------------
(* MainThread: run, the beginning advice, quit *)

\* A process that finds a port taken ends.
Bind(p) ==
  /\ process[p].pc = "bind"
  /\ GoesTo(p, IF \E q \in Process : process[q].pc \in HoldsPorts THEN "dead" ELSE "bound")
  /\ UNCHANGED <<schema, parties, lock, harness>>

Listen(p) ==
  /\ process[p].pc = "bound"
  /\ GoesTo(p, "listening")
  /\ UNCHANGED <<schema, parties, lock, harness>>

BeginningAdvice(p) ==
  /\ process[p].pc = "listening"
  /\ lock' = p
  /\ GoesTo(p, "serving")
  /\ UNCHANGED <<schema, parties, harness>>

HasCleared(q) ==
  process[q].pc \in Running /\ process[q].at >= Len(PlainColumns \o PartyColumns)
                            /\ process[q].pc # "clear"

SaveParty(p) ==
  /\ process[p].pc \in Answers
  /\ parties' = parties \union {[by |-> p, after |-> {q \in Process : HasCleared(q)}]}
  /\ UNCHANGED <<process, schema, lock, harness>>

\* A signal, or the stop token.  Before the loop runs, quit() does nothing.
Quit(p) ==
  /\ process[p].pc = "serving"
  /\ GoesTo(p, "leaving")
  /\ UNCHANGED <<schema, parties, lock, harness>>

\* mutant: the lock file is left behind
KeepLock == UNCHANGED lock
RemoveLock == lock' = NoProcess

Leave(p) ==
  /\ process[p].pc = "leaving"
  /\ RemoveLock
  /\ GoesTo(p, "off")
  /\ UNCHANGED <<schema, parties, harness>>

\* kill -9, or an exception nothing catches: all of InitializeHandlers runs outside the try.
Dies(p) ==
  /\ process[p].pc \in Running
  /\ GoesTo(p, "dead")
  /\ UNCHANGED <<schema, parties, lock, harness>>

-----------------------------------------------------------------------------
(* Whoever starts a process: an operator, as many as he likes, and BackendEnvironment *)

\* Nobody starts a server by hand while the tests run.
StartByHand(p) ==
  /\ harness.pc = "idle"
  /\ Start(p)
  /\ UNCHANGED <<schema, parties, lock, harness>>

\* pkill -9, as the first step of SetUp and of TearDown
Pkill ==
  /\ harness.pc \in {"idle", "ready"}
  /\ process' = [p \in Process |->
       IF process[p].pc \in Running THEN [process[p] EXCEPT !.pc = "dead"] ELSE process[p]]
  /\ harness' = Harness(IF harness.pc = "idle" THEN "killed" ELSE "stopped", NoProcess)
  /\ UNCHANGED <<schema, parties, lock>>

EmptyDatabase == schema' = {} /\ parties' = {}

SetUpRemovesDatabase ==
  /\ harness.pc = "killed"
  /\ EmptyDatabase
  /\ harness' = Harness("emptied", NoProcess)
  /\ UNCHANGED <<process, lock>>

\* mutant: SetUp trusts TearDown to have removed the lock file
SetUpKeepsLock == UNCHANGED lock
SetUpRemovesLock == lock' = NoProcess

SetUpUnlocks ==
  /\ harness.pc = "emptied"
  /\ SetUpRemovesLock
  /\ harness' = Harness("unlocked", NoProcess)
  /\ UNCHANGED <<process, schema, parties>>

Launch(p) ==
  /\ harness.pc = "unlocked"
  /\ Start(p)
  /\ harness' = Harness("polling", p)
  /\ UNCHANGED <<schema, parties, lock>>

SeesLock ==
  /\ harness.pc = "polling"
  /\ lock # NoProcess
  /\ harness' = Harness("ready", harness.of)
  /\ UNCHANGED <<process, schema, parties, lock>>

\* After a minute SetUp throws, and leaves what it launched alone.
TimesOut ==
  /\ harness.pc = "polling"
  /\ lock = NoProcess
  /\ harness' = Harness("idle", NoProcess)
  /\ UNCHANGED <<process, schema, parties, lock>>

TearDown ==
  /\ harness.pc = "stopped"
  /\ EmptyDatabase
  /\ lock' = NoProcess
  /\ harness' = Harness("idle", NoProcess)
  /\ UNCHANGED process

-----------------------------------------------------------------------------
ProcessStep(p) ==
  \/ Look(p) \/ ColumnIsThere(p) \/ AddColumn(p) \/ AlterThrows(p) \/ ClearAllParties(p)
  \/ Bind(p) \/ Listen(p) \/ BeginningAdvice(p) \/ SaveParty(p) \/ Quit(p) \/ Leave(p) \/ Dies(p)

HarnessStep == Pkill \/ SetUpRemovesDatabase \/ SetUpUnlocks \/ SeesLock \/ TimesOut \/ TearDown

Next == HarnessStep \/ \E p \in Process : ProcessStep(p) \/ StartByHand(p) \/ Launch(p)

Spec == Init /\ [][Next]_vars

-----------------------------------------------------------------------------
(* Properties *)

TypeOK ==
  /\ process \in [Process -> State]
  /\ schema \subseteq Column
  /\ parties \subseteq Party
  /\ lock \in Process \union {NoProcess}
  /\ harness \in HarnessState

\* A process that got through its start finds every column, however many starts raced, broke
\* off between two ALTERs or began on an older build's tables: it lacks only one whose ALTER
\* threw before its eyes for a reason other than that somebody was faster, and no plain one.
ServedWithSchema ==
  \A p \in Process : process[p].pc \in HoldsPorts =>
    Range(Columns) \ schema \subseteq process[p].refused \ Plain

\* Whatever party a process that answers requests may read was saved after that process itself
\* had cleared the table: the rows it found at its start are gone.  Who saved a party is left
\* open: a server that still serves may save one between the clearing and the Bind of this
\* process and be killed, and its party is then shown.
PartiesSavedAfterClear ==
  \A p \in Process : process[p].pc \in Answers =>
    \A party \in parties : p \in party.after

\* The lock file is a serving process's, or one's that was killed: an orderly end leaves none,
\* and only the orderly end of another process can take it from one that serves.
LockTellsServing ==
  /\ lock # NoProcess => process[lock].pc \in {"serving", "leaving", "dead"}
  /\ \A p \in Process : process[p].pc = "serving" /\ lock = NoProcess =>
       \E q \in Process : process[q].pc = "off"

\* SetUp returns because of the process it launched, not of a lock file that an earlier one
\* left behind: the tests never talk to a server that is still starting.
SetUpMeansServing ==
  harness.pc = "ready" => process[harness.of].pc \in {"serving", "leaving", "off", "dead"}
                          /\ lock \in {harness.of, NoProcess}
=============================================================================
