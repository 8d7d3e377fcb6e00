------------------------- MODULE MCSpectreWebsocket -------------------------
(* Small instances of SpectreWebsocket for TLC: one player and his          *)
(* connections.                                                            *)
EXTENDS SpectreWebsocket, TLC

CONSTANTS p1, r1, r2

OnePlayer == {p1}
OwnerOne == [c \in Conn |-> p1]

\* EnterMatchmaking returns two notifications, a presence update one.
TwoPosts == r1 :> 2
TwoAndOnePosts == (r1 :> 2) @@ (r2 :> 1)

\* A request while connections overlap; two requests to one session after another
Overlapping == [requests |-> {r1}, overlap |-> TRUE]
InARow == [requests |-> {r1, r2}, overlap |-> FALSE]
OneOverlapping == {Overlapping}
OverlappingOrInARow == {Overlapping, InARow}

\* Every connection is the same player's: they are interchangeable.
ConnSymmetry == Permutations(Conn)
=============================================================================
