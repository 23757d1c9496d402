---------------------------- MODULE MCJournalRing ----------------------------
(* Model checking OperationJournal with its commits counted: operation     *)
(* identities are random and interchangeable.                              *)
EXTENDS JournalHeadroom, TLC

Symmetry == Permutations(Ids)
=============================================================================
