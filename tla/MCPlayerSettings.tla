--------------------------- MODULE MCPlayerSettings ---------------------------
(* A small instance of PlayerSettings for TLC. *)
EXTENDS PlayerSettings

Short == SeqOf({"number", "object"}, 2)
\* The settings of the resource file have objects among them.
ResourceFile == <<"number", "object">>
=============================================================================
