--------------------------- MODULE OperationResults ---------------------------
(***************************************************************************)
(* What the operation journal promises its clients, whatever process dies  *)
(* at whatever moment: one operation at a time, every admitted operation   *)
(* decided at most once, and its result kept, unchanged, until a client    *)
(* takes it; nothing new is admitted before that.                          *)
(***************************************************************************)

CONSTANTS
  Operations,  \* records with at least an id and a state
  Final,       \* the states that decide an operation
  None

VARIABLES
  active,      \* the operation in progress
  result       \* the last result nobody has taken

vars == <<active, result>>

Init == active = None /\ result = None

Admit ==
  /\ active = None /\ result = None
  /\ \E op \in Operations : op.state \notin Final /\ active' = op
  /\ UNCHANGED result

Progress ==
  /\ active # None /\ active.state \notin Final
  /\ \E op \in Operations : op.id = active.id /\ active' = op
  /\ UNCHANGED result

Publish ==
  /\ active # None /\ active.state \in Final
  /\ result = None
  /\ result' = active
  /\ UNCHANGED active

Retire ==
  /\ active # None /\ result = active
  /\ active' = None
  /\ UNCHANGED result

Take ==
  /\ active = None
  /\ result' = None
  /\ UNCHANGED active

Next == Admit \/ Progress \/ Publish \/ Retire \/ Take

Spec == Init /\ [][Next]_vars
=============================================================================
