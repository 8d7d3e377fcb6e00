-------------------------- MODULE MCPartyHandlers --------------------------
(* Small instances of PartyHandlers for TLC. *)
EXTENDS PartyHandlers, TLC

CONSTANTS p1, p2, c1, c2, k1, k2

LoopsAndCleanups == Conn \X {"loop", "cleanup"}

\* One player who comes back, with or without overlap, to a server that may be restarted;
\* or a connection for each of two players, and statements that may fail
OneOrEach ==
  {[owner |-> [c \in Conn |-> p1], requests |-> [c \in Conn |-> 2], codes |-> {k1},
    restarts |-> TRUE, failures |-> FALSE],
   [owner |-> c1 :> p1 @@ c2 :> p2, requests |-> c1 :> 2 @@ c2 :> 1, codes |-> {k1, k2},
    restarts |-> FALSE, failures |-> TRUE]}
=============================================================================
