------------------------------- MODULE MCDesktop -------------------------------
(***************************************************************************)
(* Files edited by hand and forms filled in for the instances of Desktop   *)
(* that are model-checked.                                                 *)
(***************************************************************************)
EXTENDS Desktop

R(key, folder_) == [key |-> key, folder |-> folder_]

\* Illegible options, keys used twice in another case, too long or blank, and folders
\* that are none.
EditedFiles ==
  {[view |-> "bad", tagging |-> "on", extra |-> TRUE,
    rows |-> <<R("m", "in"), R("mm", ""), R("M", ""), R("N", "ctl")>>],
   [view |-> "chosen", tagging |-> "bad", extra |-> TRUE,
    rows |-> <<R("blank", "in"), R("N", "in")>>]}

\* One that is accepted, and one that is not.
FilledForms ==
  {[view |-> "chosen", rows |-> <<R("m", "in"), R("blank", "in"), R("N", "ctl")>>],
   [view |-> "chosen", rows |-> <<R("m", ""), R("M", "in")>>]}
=============================================================================
