---------------------------- MODULE PartyCallers ----------------------------
(***************************************************************************)
(* PartyDatabase in the hands of threads that may call any operation at    *)
(* any time, and what it then implements.                                  *)
(***************************************************************************)
EXTENDS PartyDatabase

CONSTANT Drafts   \* the parties these callers save

\* PartyHandlersProofs shows that the handlers' parties have a leader.
ASSUME DraftsAssumption ==
  /\ Drafts \subseteq Party
  /\ \A draft \in Drafts : draft.members # <<>> /\ HasLeader(draft.members)

Caller(t) ==
  \/ \E id \in PartyId : \/ \E party \in Drafts : CallSaveParty(t, id, party)
                         \/ CallGetPartyRes(t, id)
  \/ \E player \in Player : CallRemovePlayer(t, player)
  \/ Return(t)

Next == \E t \in Thread : CallStep(t) \/ Caller(t)

Spec == DatabaseInit /\ [][Next]_partyVars

PendingOf(c) ==
  CASE c.pc = "idle" -> Null
    [] c.op = "save" /\ c.pc = "saveMembers" -> [op |-> "save", id |-> c.id, party |-> c.party]
    [] c.op = "save" /\ c.pc \notin {"idle", "saveMembers"} -> [op |-> "returned", party |-> NoParty]
    [] c.op = "get" /\ c.pc \in {"lock", "readMembers", "readExtras", "readMeta"} ->
         [op |-> "get", id |-> c.id]
    [] c.op = "get" /\ c.pc \in {"unlock", "done", "failed"} ->
         [op |-> "returned", party |-> c.party]
    [] c.op = "remove" /\ c.pc \notin {"idle", "done"} -> [op |-> "remove", who |-> c.who]
    [] c.op = "remove" /\ c.pc = "done" -> [op |-> "returned", party |-> NoParty]

Registry == INSTANCE PartyRegistry WITH
  parties <- [id \in PartyId |-> PartyOf(id)],
  pending <- [t \in Thread |-> PendingOf(call[t])],
  Idle <- Null

ASSUME PendingAssumption ==
  Null \notin Registry!Asked \union [op : {"returned"}, party : Party \union {NoParty}]

\* With no failing statement, the statements and the recursive mutex add up to whole parties
\* that are saved, read and left in one step each: no caller sees part of one save and part
\* of another, and a clean-up leaves the player in no party.
ImplementsRegistry == Registry!Spec
=============================================================================
