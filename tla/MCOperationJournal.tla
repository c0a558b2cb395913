------------------------- MODULE MCOperationJournal -------------------------
(* OperationJournal for TLC.  Operation identifiers are model values that no *)
(* action tells apart, so they may be permuted.                              *)
EXTENDS OperationJournal, TLC

CONSTANTS a, b, c, d

Identifiers == {a, b, c, d}
Symmetry    == Permutations(Identifiers)
=============================================================================
