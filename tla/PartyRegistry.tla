---------------------------- MODULE PartyRegistry ----------------------------
(***************************************************************************)
(* What PartyDatabase promises the threads that call it, as long as no     *)
(* statement fails: a table of whole parties in which each call takes      *)
(* effect at once.  Only the removal of a player from all parties is more  *)
(* than one step, one for each party he is in, and it returns when he is   *)
(* in none.                                                                *)
(***************************************************************************)
EXTENDS Integers, Sequences, FiniteSets

CONSTANTS Thread, PartyId, Party, Player, NoParty, Idle

VARIABLES
  parties,  \* the party of each id, or NoParty
  pending   \* what each thread has asked for, or what it was returned

Asked ==
  [op : {"save"}, id : PartyId, party : Party] \union [op : {"get"}, id : PartyId]
    \union [op : {"remove"}, who : Player]
Returned(party) == [op |-> "returned", party |-> party]

IsMember(party, who) ==
  party # NoParty /\ \E i \in DOMAIN party.members : party.members[i].player = who

\* The place of the k-th of the members who stay, and those members in their old order
Nth(places, k) == CHOOSE i \in places : Cardinality({j \in places : j <= i}) = k
Without(members, who) ==
  LET places == {i \in DOMAIN members : members[i].player # who} IN
  [k \in 1 .. Cardinality(places) |-> members[Nth(places, k)]]

\* The party once a player has left: its first member becomes the leader if nobody else is.
Leave(party, who) ==
  LET rest == Without(party.members, who) IN
  IF rest = <<>> THEN NoParty
  ELSE [party EXCEPT !.members =
          IF \E i \in DOMAIN rest : rest[i].leader THEN rest
          ELSE [rest EXCEPT ![1] = [@ EXCEPT !.leader = TRUE]]]

Init ==
  /\ parties = [id \in PartyId |-> NoParty]
  /\ pending = [t \in Thread |-> Idle]

Ask(t) ==
  /\ pending[t] = Idle
  /\ pending'[t] \in Asked
  /\ pending' = [pending EXCEPT ![t] = pending'[t]]
  /\ UNCHANGED parties

Save(t) ==
  /\ pending[t] # Idle /\ pending[t].op = "save"
  /\ parties' = [parties EXCEPT ![pending[t].id] = pending[t].party]
  /\ pending' = [pending EXCEPT ![t] = Returned(NoParty)]

Get(t) ==
  /\ pending[t] # Idle /\ pending[t].op = "get"
  /\ pending' = [pending EXCEPT ![t] = Returned(parties[pending[t].id])]
  /\ UNCHANGED parties

RemoveFrom(t, id) ==
  /\ pending[t] # Idle /\ pending[t].op = "remove"
  /\ IsMember(parties[id], pending[t].who)
  /\ parties' = [parties EXCEPT ![id] = Leave(@, pending[t].who)]
  /\ UNCHANGED pending

Removed(t) ==
  /\ pending[t] # Idle /\ pending[t].op = "remove"
  /\ \A id \in PartyId : ~IsMember(parties[id], pending[t].who)
  /\ pending' = [pending EXCEPT ![t] = Returned(NoParty)]
  /\ UNCHANGED parties

Forget(t) ==
  /\ pending[t] # Idle /\ pending[t].op = "returned"
  /\ pending' = [pending EXCEPT ![t] = Idle]
  /\ UNCHANGED parties

Next ==
  \E t \in Thread :
    \/ Ask(t) \/ Save(t) \/ Get(t) \/ Removed(t) \/ Forget(t)
    \/ \E id \in PartyId : RemoveFrom(t, id)

Spec == Init /\ [][Next]_<<parties, pending>>
=============================================================================
