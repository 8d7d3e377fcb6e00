---------------------------- MODULE PlayerDatabase ----------------------------
(***************************************************************************)
(* The players table, and the way every handler uses it: GetField of one   *)
(* column, a change to the copy, SetField of that column, with nothing     *)
(* held in between.  Persistence/Implementation/ProtobufDatabase.cpp and   *)
(* PlayerDatabase.cpp.                                                     *)
(*                                                                         *)
(* A column is a function from its parts (what a handler changes without   *)
(* touching the rest: a presence's version, one loadout, one item) to      *)
(* their values.  Statements are atomic; each may fail, which throws.      *)
(* NOTIFICATION_DATA is in SpectreWebsocket; FRIENDS_LIST and              *)
(* PLAYER_LEGACY_DATA are never written.                                   *)
(***************************************************************************)
EXTENDS Naturals

CONSTANTS
  Player,
  Actor,    \* the threads that run handlers
  Default,  \* AddPrototype: the column of the resource file, for each field
  NoEdit

Field == {"presence", "weapons", "outfits", "inventory", "data", "profile"}

VARIABLES
  players,  \* the table: of each player, the columns that have a value
  edit,     \* for each actor, the copy of a column it has read and changed
  kept      \* history: the columns, had each save changed only what its handler changed

dbVars == <<players, edit, kept>>

DbInit ==
  /\ players = [p \in Player |-> [f \in {} |-> {}]]
  /\ edit = [a \in Actor |-> NoEdit]
  /\ kept = [p \in Player |-> Default]

GetField(p, f) == IF f \in DOMAIN players[p] THEN players[p][f] ELSE Default[f]

Merge(change, column) ==
  [u \in DOMAIN change \union DOMAIN column |->
     IF u \in DOMAIN change THEN change[u] ELSE column[u]]

\* A caller reads a column and changes some of its parts in its copy.
Edit(a, p, f, change) ==
  /\ edit[a] = NoEdit
  /\ edit' = [edit EXCEPT ![a] =
       [player |-> p, field |-> f, change |-> change,
        column |-> Merge(change, GetField(p, f)), stale |-> FALSE]]
  /\ UNCHANGED <<players, kept>>

\* mutant: INSERT OR REPLACE, which clears the columns it does not name
ReplaceRow(p, f, column) == players' = [players EXCEPT ![p] = [g \in {f} |-> column]]
Upsert(p, f, column) == players' = [players EXCEPT ![p] = Merge([g \in {f} |-> column], @)]

SameColumn(b, e) == edit[b] # NoEdit /\ edit[b].player = e.player /\ edit[b].field = e.field

\* The save. It makes the other copies of the column stale; those who save a stale copy
\* take back what was saved since they read, and the history does not hold it against them.
SetField(a) ==
  /\ edit[a] # NoEdit
  /\ LET e == edit[a]
     IN  /\ Upsert(e.player, e.field, e.column)
         /\ kept' = [kept EXCEPT ![e.player][e.field] =
              IF e.stale THEN e.column ELSE Merge(e.change, @)]
         /\ edit' = [b \in Actor |->
              IF b = a THEN NoEdit
              ELSE IF SameColumn(b, e) THEN [edit[b] EXCEPT !.stale = TRUE]
              ELSE edit[b]]

\* A statement throws, or the handler stops before the save: the copy is gone.
Discard(a) ==
  /\ edit[a] # NoEdit
  /\ edit' = [edit EXCEPT ![a] = NoEdit]
  /\ UNCHANGED <<players, kept>>

\* The process ends; the table stays.
LoseCopies ==
  /\ edit' = [a \in Actor |-> NoEdit]
  /\ UNCHANGED <<players, kept>>

-----------------------------------------------------------------------------
\* Every part of every column has the value that the last save of a handler that changed it
\* gave it: saves of other parts, other columns and other players, by other threads, before
\* and after a crash, leave it alone, unless the saver's copy of the column was stale.
NothingSavedIsLost == \A p \in Player, f \in Field : GetField(p, f) = kept[p][f]
=============================================================================
