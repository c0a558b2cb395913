-------------------------------- MODULE Lists --------------------------------
(***************************************************************************)
(* Lists of the program that are filtered or sorted, as definitions whose  *)
(* meaning a proof can use.                                                *)
(***************************************************************************)
EXTENDS Integers, FiniteSets, SequencesExt

\* The sequence s without the members of D.
Dropping(s, D) ==
  LET kept[n \in 0 .. Len(s)] ==
        IF n = 0 THEN <<>>
        ELSE IF s[n] \in D THEN kept[n - 1] ELSE Append(kept[n - 1], s[n])
  IN kept[Len(s)]

\* The numbers in S in ascending order.
Ascending(S) ==
  CHOOSE s \in [1 .. Cardinality(S) -> S] :
    ToSet(s) = S /\ \A j, k \in DOMAIN s : j < k => s[j] < s[k]
=============================================================================
