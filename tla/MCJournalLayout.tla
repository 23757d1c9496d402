--------------------------- MODULE MCJournalLayout ---------------------------
(* Model checking JournalLayout: the paths before the cursor are the       *)
(* restart path and one that, like handoff and the terminals, starts empty. *)
EXTENDS JournalLayout

MCDataNames == <<"active", "restart">>
=============================================================================
