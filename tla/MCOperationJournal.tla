------------------------- MODULE MCOperationJournal -------------------------
(* Model checking OperationJournal: operation identities are random and *)
(* interchangeable.                                                        *)
EXTENDS OperationJournal, TLC

Symmetry == Permutations(Ids)
=============================================================================
