-------------------------- MODULE MCFileTransaction --------------------------
(* FileTransaction for TLC: the request kinds a run ranges over.             *)
EXTENDS FileTransaction

\* One kind with both a claim and a published output.
MoveOnly == {"move"}
=============================================================================
