-------------------------- MODULE MCPartyCallers --------------------------
(* Small instances of PartyCallers for TLC. *)
EXTENDS PartyCallers, TLC

CONSTANTS p1, p2, e1, e2, k1

M(p, l) == [player |-> p, leader |-> l, ready |-> FALSE, team |-> "TEAM0"]

\* A party led by its first member, one led by its second, one of a single member.
TwoDrafts ==
  {[members |-> <<M(p1, TRUE), M(p2, FALSE)>>, ext |-> e1, code |-> k1, version |-> 1],
   [members |-> <<M(p2, TRUE)>>, ext |-> e2, code |-> k1, version |-> 2]}

OneDraft == {[members |-> <<M(p1, TRUE), M(p2, FALSE)>>, ext |-> e1, code |-> k1, version |-> 1]}

\* The members without one player are what the loop over them selects.
ASSUME WithoutSelects ==
  \A n \in 0 .. 3, who \in Player :
    \A members \in [1 .. n -> {M(p, l) : p \in Player, l \in BOOLEAN}] :
      Registry!Without(members, who) = SelectSeq(members, LAMBDA m : m.player # who)

AllSymmetry == Permutations(Thread) \union Permutations(PartyId)
=============================================================================
