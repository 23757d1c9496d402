-------------------------- MODULE MCNativeOperation --------------------------
(* Model checking NativeOperation, with commands that differ in nothing.   *)
EXTENDS NativeOperation, TLC

Alike == Permutations(Ids)
=============================================================================
