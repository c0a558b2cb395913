------------------------- MODULE MCMutationService -------------------------
(* MutationService for TLC.  Windows are model values that no action tells   *)
(* apart, so safety may be checked up to their permutation.  Operations may  *)
(* not be permuted: reconciliation settles them in one order.                *)
EXTENDS MutationService, TLC

Symmetry == Permutations(Guis)

Trouble(d, c, f, t) == [drops |-> d, crashes |-> c, faults |-> f, timeouts |-> t]

\* A connection is given up, or everything befalls the service itself; with two windows
\* a lost update comes with either.
OfOneWindow  == {Trouble(1, 0, 0, 0), Trouble(0, 1, 1, 1)}
OfTwoWindows == {Trouble(1, 0, 1, 0), Trouble(0, 1, 1, 0)}
=============================================================================
