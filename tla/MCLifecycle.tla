----------------------------- MODULE MCLifecycle -----------------------------
(* A small instance of Lifecycle for TLC. *)
EXTENDS Lifecycle, TLC

CONSTANTS code, version, members, inventory

CodeAndVersion == <<code, version>>
Members == <<members>>
Inventory == <<inventory>>

\* No database yet, one from before parties had a code and a version, one of this build.
NoneOldOrNew == {{}, {members, inventory}, Column}

AnyOrder == Permutations(Process)
=============================================================================
