-------------------------- MODULE MCGameDataStore --------------------------
(* Small instances of GameDataStore for TLC. *)
EXTENDS GameDataStore, TLC

CONSTANTS v1, v2, x1, x2

OwnText == v1 :> x1 @@ v2 :> x2
=============================================================================
