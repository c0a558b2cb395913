---------------------------- MODULE VersionStore ----------------------------
(***************************************************************************)
(* What the store of one optional component promises its readers and its   *)
(* user, without locks, receipts or staging: complete versions, a pointer  *)
(* to the active one, the one a rollback returns to, and who is reading    *)
(* which version.  A version is discarded only when nothing points to it   *)
(* and nobody reads it; everything else never touches a complete version.  *)
(***************************************************************************)
CONSTANTS Versions,    \* versions of the component the catalogue trusts
          NoVersion,   \* no version
          Holders      \* processes that may read a version

VARIABLES complete,    \* versions whose every file is there
          active,      \* the version new readers get
          previous,    \* the version a rollback returns to
          enabled,     \* new readers are served
          held         \* the version each holder reads

vars == <<complete, active, previous, enabled, held>>

Init ==
  /\ complete = {}
  /\ active = NoVersion /\ previous = NoVersion /\ enabled = FALSE
  /\ held = [h \in Holders |-> NoVersion]

Publish(v) ==
  /\ complete' = complete \cup {v}
  /\ UNCHANGED <<active, previous, enabled, held>>

Activate(v) ==
  /\ v \in complete
  /\ active' = v /\ enabled' = TRUE
  /\ previous' = IF active \in {NoVersion, v} THEN previous ELSE active
  /\ UNCHANGED <<complete, held>>

SwitchOn ==
  /\ active \in complete
  /\ enabled' = TRUE
  /\ UNCHANGED <<complete, active, previous, held>>

SwitchOff ==
  /\ enabled' = FALSE
  /\ UNCHANGED <<complete, active, previous, held>>

RollBack ==
  /\ previous \in complete
  /\ active' = previous /\ previous' = active /\ enabled' = TRUE
  /\ UNCHANGED <<complete, held>>

Retire(gone) ==
  /\ active' = IF active \in gone THEN NoVersion ELSE active
  /\ previous' = IF previous \in gone THEN NoVersion ELSE previous
  /\ enabled' = (enabled /\ active \notin gone)
  /\ UNCHANGED <<complete, held>>

Discard(v) ==
  /\ v \notin {active, previous}
  /\ \A h \in Holders : held[h] # v
  /\ complete' = complete \ {v}
  /\ UNCHANGED <<active, previous, enabled, held>>

Hold(h, v) ==
  /\ enabled /\ v \in complete
  /\ held[h] = NoVersion
  /\ held' = [held EXCEPT ![h] = v]
  /\ UNCHANGED <<complete, active, previous, enabled>>

Release(h) ==
  /\ held' = [held EXCEPT ![h] = NoVersion]
  /\ UNCHANGED <<complete, active, previous, enabled>>

Next ==
  \/ \E v \in Versions : Publish(v) \/ Activate(v) \/ Discard(v)
  \/ \E gone \in SUBSET Versions : Retire(gone)
  \/ SwitchOn \/ SwitchOff \/ RollBack
  \/ \E h \in Holders : Release(h) \/ \E v \in Versions : Hold(h, v)

Spec == Init /\ [][Next]_vars

TypeOK ==
  /\ complete \in SUBSET Versions
  /\ active \in Versions \cup {NoVersion}
  /\ previous \in Versions \cup {NoVersion}
  /\ enabled \in BOOLEAN
  /\ held \in [Holders -> Versions \cup {NoVersion}]

\* What is pointed to or read is complete, and only an existing active version
\* can be enabled.
InUseComplete ==
  /\ active # NoVersion => active \in complete
  /\ previous # NoVersion => previous \in complete
  /\ enabled => active # NoVersion
  /\ \A h \in Holders : held[h] # NoVersion => held[h] \in complete
=============================================================================
