----------------------------- MODULE DurableCell -----------------------------
(***************************************************************************)
(* What one journal path promises the code above it: a cell that holds one *)
(* payload.  A commit replaces the payload in one step and, when it        *)
(* returns, has promised it; a commit that fails leaves the old payload or *)
(* the new one (JournalCommitError: "indeterminate").                      *)
(***************************************************************************)
CONSTANTS Payloads, Initial

VARIABLES
  value,     \* the payload every reader of the journal finds
  promised,  \* the payload of the last commit that returned, or was recovered
  open       \* a commit has taken effect and not yet returned

cell == <<value, promised, open>>

Init == value = Initial /\ promised = Initial /\ open = FALSE

Commit(payload) ==
  /\ ~ open
  /\ value' = payload
  /\ open' = TRUE
  /\ UNCHANGED promised

Return == open /\ open' = FALSE /\ promised' = value /\ UNCHANGED value

(* The committer fails or dies after the commit took effect.               *)
Abandon == open /\ open' = FALSE /\ UNCHANGED <<value, promised>>

(* A power loss may take back a commit that has not returned, and only it; *)
(* what is found afterwards stays.                                         *)
Lose ==
  /\ value' \in {value, promised}
  /\ promised' = value'
  /\ open' = FALSE

Next == (\E payload \in Payloads : Commit(payload)) \/ Return \/ Abandon \/ Lose

Spec == Init /\ [][Next]_cell
=============================================================================
