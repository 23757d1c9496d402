-------------------------- MODULE MCRegionalMutation --------------------------
(* Model checking RegionalMutation: the value the user saw, the one asked  *)
(* for, and one somebody else wants.                                       *)
EXTENDS RegionalMutation

CONSTANTS old, new, other
=============================================================================
