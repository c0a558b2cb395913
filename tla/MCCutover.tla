----------------------------- MODULE MCCutover -----------------------------
(* A small plan for TLC: a branch with its own PR, a branch without, a PR of *)
(* a fork and one that was already closed.                                   *)
EXTENDS Cutover

Mixed == [q \in Requests |-> CASE q = "t" -> "integrated"
                               [] q = "f" -> "superseded"
                               [] OTHER -> "already_closed"]
=============================================================================
