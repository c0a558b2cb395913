------------------------------ MODULE Desktop ------------------------------
(***************************************************************************)
(* A window before it sorts anything: where it keeps its files (Launch),   *)
(* the settings file two windows share (SettingsStore) and the settings    *)
(* dialog of one of them (SettingsDialog).  A behaviour is about one of    *)
(* the three, which meet only in the path of the file: the dialog's window *)
(* has started, and read what an earlier one saved.                        *)
(***************************************************************************)
EXTENDS SettingsDialog

CONSTANTS Required,      \* the build demands a portable.flag
          MaxMeddles,    \* bound of Launch: changes from outside
          MaxLaunches    \* bound of Launch: processes started

VARIABLES scene,
          flag, dirs, env, proc, used, home, package, pinned, lock, meddles, launches

launchVars == <<flag, dirs, env, proc, used, home, package, pinned, lock, meddles, launches>>
desktopVars == <<vars, launchVars, scene>>

Launched == INSTANCE Launch WITH MaxStarts <- MaxLaunches

Started ==
  /\ file = Holds(Earlier) /\ backups = {} /\ by = "gone"
  /\ folder = IF valid THEN "dir" ELSE "file"     \* two cases that have nothing in common
  /\ win = [w \in Windows |-> IF w = Viewer THEN "up" ELSE "off"]
  /\ mem = [w \in Windows |-> IF w = Viewer THEN Earlier ELSE Default]
  /\ faults = 0 /\ edits = 0 /\ starts = 0

DesktopInit ==
  /\ scene \in {"launch", "file", "dialog"}
  /\ Launched!Init /\ (scene = "launch" \/ flag = "absent")
  /\ DialogInit /\ (scene = "dialog" \/ valid)
  /\ IF scene = "file" THEN StoreInit ELSE Started

DesktopNext ==
  /\ scene' = scene
  /\ \/ scene = "launch" /\ Launched!Next /\ UNCHANGED vars
     \/ scene = "file" /\ StoreNext /\ UNCHANGED <<dialogVars, launchVars>>
     \/ scene = "dialog" /\ DialogNext /\ UNCHANGED launchVars
        /\ (edits' = 0 \/ dlg'.jobs = 0)              \* bound: a change outside, or a job

\* Only the dialog is promised to end: see DialogFairness.
DesktopSpec == DesktopInit /\ [][DesktopNext]_desktopVars /\ DialogFairness
-----------------------------------------------------------------------------
\* Safety: an isolated window and its processes keep to one home, and a service that
\* works runs from a whole copy of its runtime (Launch).
OneHome == Launched!OneHome
=============================================================================
