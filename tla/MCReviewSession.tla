---------------------------- MODULE MCReviewSession ----------------------------
(* ReviewSession for TLC: one folder holds all images, another is empty.     *)
EXTENDS ReviewSession

ThreeImages == 1 .. 3
OneImage    == {1}
AllInInbox  == [i \in Images |-> "inbox"]
TwoFolders  == {"inbox", "blank"}
OneFolder   == {"inbox"}
OnlyMoves   == {"move"}
CopyAndTrash == {"copy", "trash"}
=============================================================================
