---------------------------- MODULE SettingsStore ----------------------------
(***************************************************************************)
(* SettingsManager: the settings file of a profile and the copy of it that *)
(* every window holds in memory.  A window reads the file once, when it    *)
(* starts, repairs what is invalid, and from then on only writes it; each  *)
(* write replaces the file as a whole.  The lock of the manager is one of  *)
(* threads: two windows of a profile read, back up and replace the file    *)
(* without any.                                                            *)
(*                                                                         *)
(* The sections are reduced to what the code treats alike: "view" is one   *)
(* option that is a flag, a number with bounds or a word (ui, metadata,    *)
(* advanced and the threshold); "tagging" is ai_tagger.enabled; "rows" are *)
(* the hotkeys in their order, each with a folder as the directories have; *)
(* "extra" is a key the program does not know.  Of the keys "m" and "M"    *)
(* are one, "mm" is too long and "blank" is none; of the folders "in" may  *)
(* become a file or vanish, and "ctl" is a directory whose name has a      *)
(* control character.                                                      *)
(***************************************************************************)
EXTENDS Naturals, Sequences

CONSTANTS Windows,     \* processes that may start as a window of the profile
          Damage,      \* what may be left of a file edited by hand
          MaxEdits,    \* bound: the file edited or damaged from outside, folders changed
          MaxFaults,   \* bound: calls of the filesystem that raise
          MaxStarts    \* bound: windows started

\* A window is none of the others that may have changed the file last.
ASSUME WindowsAssumption == {"user", "startup", "gone"} \cap Windows = {}

VARIABLES
  file,      \* settings.json
  backups,   \* what the files settings.json.corrupt.*.bak hold
  by,        \* ghost: who changed the file last
  folder,    \* the directory "in" on the disk
  win,       \* per process: how far SettingsManager.__init__ is
  mem,       \* per process: SettingsManager.settings
  faults, edits, starts

bounds == <<faults, edits, starts>>
storeVars == <<file, backups, by, folder, win, mem, bounds>>

Keys    == {"m", "M", "N", "mm", "blank"}
Clean   == [m |-> "M", M |-> "M", N |-> "N", mm |-> "mm", blank |-> "blank"]
Single  == {"M", "N"}
Folders == {"", "in", "ctl"}
Row     == [key : Keys, folder : Folders]

Default == [view |-> "default", tagging |-> "off", rows |-> <<>>, extra |-> FALSE]
Holds(c) == [kind |-> "settings", c |-> c]
Earlier == [Default EXCEPT !.tagging = "on"]
\* What a file may say that is one dictionary of the known sections.
Legible == [view : {"default", "chosen", "bad", "unset"}, tagging : {"on", "off", "bad"},
            rows : Seq(Row), extra : BOOLEAN]
ASSUME DamageAssumption == \A c \in Damage : c \in Legible

Absent  == [kind |-> "absent", c |-> Default]
Corrupt == [kind |-> "corrupt", c |-> Default]
-----------------------------------------------------------------------------
(* _validate_and_repair: what an invalid section becomes, and whether the  *)
(* file has to be written again because of it.                             *)
Valid(path) == IF path = "ctl" \/ (path = "in" /\ folder = "file") THEN "" ELSE path

Cleaned(row)     == [key |-> Clean[row.key], folder |-> Valid(row.folder)]
Taken(rows, key) == \E i \in DOMAIN rows : rows[i].key = key

\* Bug: a row takes the place of an earlier one with its key.
KeepLast(rows, row) ==
  IF Clean[row.key] \notin Single THEN rows
  ELSE IF Taken(rows, Clean[row.key])
  THEN [i \in DOMAIN rows |-> IF rows[i].key = Clean[row.key] THEN Cleaned(row) ELSE rows[i]]
  ELSE Append(rows, Cleaned(row))
KeepFirst(rows, row) ==
  IF Clean[row.key] \notin Single \/ Taken(rows, Clean[row.key])
  THEN rows ELSE Append(rows, Cleaned(row))

Rows(rows) ==
  LET kept[n \in 0 .. Len(rows)] ==
        IF n = 0 THEN <<>> ELSE KeepFirst(kept[n - 1], rows[n])
  IN kept[Len(rows)]

Repair(c) ==
  [c EXCEPT !.view    = IF @ \in {"bad", "unset"} THEN "default" ELSE @,
            !.tagging = IF @ = "bad" THEN "off" ELSE @,
            !.rows    = Rows(@)]

\* A key that is only missing, or written in another case, is not counted.
Modified(c) ==
  \/ c.view = "bad" \/ c.tagging = "bad"
  \/ Len(Rows(c.rows)) # Len(c.rows)
  \/ \E i \in DOMAIN c.rows : Valid(c.rows[i].folder) # c.rows[i].folder
-----------------------------------------------------------------------------
StoreInit ==
  /\ file \in {Absent, Corrupt, Holds(Earlier)}
  /\ backups = {} /\ by = "user" /\ folder = "dir"
  /\ win = [w \in Windows |-> "off"]
  /\ mem = [w \in Windows |-> Default]
  /\ faults = 0 /\ edits = 0 /\ starts = 0

Fails == faults < MaxFaults /\ faults' = faults + 1
Works == faults' = faults

(* _persist_dict: a new file takes the place of the old one, or the old    *)
(* one stays as it was.                                                    *)
Persist(c, who) == /\ file' = Holds(c) /\ by' = who /\ Works
NotPersisted    == UNCHANGED <<file, by>> /\ Fails

Start(w) ==
  /\ win[w] = "off" /\ starts < MaxStarts
  /\ starts' = starts + 1
  /\ win' = [win EXCEPT ![w] = IF file.kind = "absent" THEN "create" ELSE "open"]
  /\ UNCHANGED <<file, backups, by, folder, mem, faults, edits>>

\* The file may be gone by now, or unreadable: the window runs on defaults.
Unreadable(w) ==
  /\ win[w] = "open"
  /\ IF file.kind = "absent" THEN Works ELSE Fails
  /\ win' = [win EXCEPT ![w] = "up"]
  /\ UNCHANGED <<file, backups, by, folder, mem, edits, starts>>

Read(w) ==
  /\ win[w] = "open" /\ file.kind = "settings"
  /\ mem' = [mem EXCEPT ![w] = Repair(file.c)]
  /\ win' = [win EXCEPT ![w] = IF Modified(file.c) THEN "rewrite" ELSE "up"]
  /\ UNCHANGED <<file, backups, by, folder, bounds>>

ReadCorrupt(w) ==
  /\ win[w] = "open" /\ file.kind = "corrupt"
  /\ win' = [win EXCEPT ![w] = "backup"]
  /\ UNCHANGED <<file, backups, by, folder, mem, bounds>>

\* What is written when the save at the start fails: only the repair's save is
\* inside the try whose last handler goes on.
Saved(w, who) ==
  \/ /\ Persist(mem[w], who) /\ win' = [win EXCEPT ![w] = "up"]
  \/ /\ NotPersisted
     /\ win' = [win EXCEPT ![w] = IF win[w] = "rewrite" THEN "up" ELSE "failed"]

SaveAtStart(w) ==
  /\ win[w] \in {"create", "rewrite"}
  /\ Saved(w, "startup")
  /\ UNCHANGED <<backups, folder, mem, edits, starts>>

(* _backup_corrupt_file: whatever the file is by now gets the backup's     *)
(* name, or is copied and then removed if it can be.  Without a backup the *)
(* defaults are not saved.                                                 *)
\* Bug: the defaults are saved whether a backup exists or not.
AlwaysSaves(w, kept) == [win EXCEPT ![w] = "create"]
AfterBackup(w, kept) == [win EXCEPT ![w] = IF kept THEN "create" ELSE "up"]

Backup(w) ==
  /\ win[w] = "backup"
  /\ \/ /\ file.kind # "absent"                          \* os.replace
        /\ backups' = backups \cup {file} /\ file' = Absent /\ by' = "startup" /\ Works
        /\ win' = AfterBackup(w, TRUE)
     \/ /\ file.kind # "absent" /\ Fails                  \* copied; os.remove may fail
        /\ backups' = backups \cup {file}
        /\ \/ file' = Absent /\ by' = "startup"
           \/ UNCHANGED <<file, by>>
        /\ win' = AfterBackup(w, TRUE)
     \/ /\ IF file.kind = "absent" THEN Works ELSE Fails  \* ten attempts, no backup
        /\ win' = AfterBackup(w, FALSE)
        /\ UNCHANGED <<file, backups, by>>
  /\ UNCHANGED <<folder, mem, edits, starts>>

(* apply_changes, set: the candidate is repaired, persisted and only then  *)
(* becomes the settings in memory.                                         *)
\* Bug: a failed save changes the settings in memory.
PublishFirst(w, c, ok) == [mem EXCEPT ![w] = c]
Publish(w, c, ok)      == IF ok THEN [mem EXCEPT ![w] = c] ELSE mem

Apply(w, ok, candidate) ==
  /\ IF ok THEN Persist(Repair(candidate), w) ELSE NotPersisted
  /\ mem' = Publish(w, Repair(candidate), ok)
  /\ UNCHANGED <<backups, folder, win, edits, starts>>

\* Escape leaves the fullscreen mode for good (ui_main.handle_escape).
LeaveFullscreen(w) ==
  /\ win[w] = "up"
  /\ \E ok \in BOOLEAN : Apply(w, ok, [mem[w] EXCEPT !.view = "default"])

\* A window ends, or is killed: also while it starts.
Exit(w) ==
  /\ win[w] # "off"
  /\ win' = [win EXCEPT ![w] = "off"]
  /\ mem' = [mem EXCEPT ![w] = Default]
  /\ by' = IF by = w THEN "gone" ELSE by
  /\ UNCHANGED <<file, backups, folder, bounds>>

\* The user edits or damages the file while no window starts, or changes the folder
\* of a key.
Settled == \A w \in Windows : win[w] \in {"off", "up", "failed"}
Meddle  == edits < MaxEdits /\ edits' = edits + 1

EditFile ==
  /\ Settled /\ Meddle
  /\ file' \in {Absent, Corrupt} \cup {Holds(c) : c \in Damage} /\ file' # file
  /\ by' = "user"
  /\ UNCHANGED <<backups, folder, win, mem, faults, starts>>

ChangeFolder ==
  /\ Settled /\ Meddle
  /\ folder' \in {"dir", "file", "gone"} \ {folder}
  /\ UNCHANGED <<file, backups, by, win, mem, faults, starts>>

StoreStep(w) ==
  \/ Start(w) \/ Unreadable(w) \/ Read(w) \/ ReadCorrupt(w)
  \/ SaveAtStart(w) \/ Backup(w)
-----------------------------------------------------------------------------
CleanRow == [key : Single, folder : {"", "in"}]
Settings == [view : {"default", "chosen"}, tagging : {"on", "off"}, rows : Seq(CleanRow), extra : BOOLEAN]

StoreTypeOK ==
  /\ file.kind \in {"absent", "corrupt", "settings"}
  /\ by \in {"user", "startup", "gone"} \cup Windows
  /\ folder \in {"dir", "file", "gone"}
  /\ win \in [Windows -> {"off", "open", "create", "rewrite", "backup", "up", "failed"}]
  /\ \A w \in Windows : mem[w] \in Settings

\* Safety: what a window has in memory it has written itself or read at its start,
\* as long as nobody changed the file since: a failed save changes neither the file nor
\* the settings the window works with.  And what the program has written needs no
\* repair at the next start, unless a folder became a file (apply_changes, set,
\* _validate_and_repair).
SettingsKept ==
  /\ StoreTypeOK
  /\ \A w \in Windows : by = w => mem[w] = file.c \/ win[w] # "up"
  /\ by # "user" /\ file.kind = "settings" =>
       Repair(file.c) = file.c \/ folder = "file"

\* What a start keeps of a file: every legible option, what the program does not know,
\* and of every key that may be one the first row, with its folder if that is valid.
Firsts(rows) ==
  {j \in DOMAIN rows : /\ Clean[rows[j].key] \in Single
                       /\ \A k \in 1 .. j - 1 : Clean[rows[k].key] # Clean[rows[j].key]}
KeptOf(c, m) ==
  /\ c.view \in {"default", "chosen"} => m.view = c.view
  /\ c.tagging \in {"on", "off"} => m.tagging = c.tagging
  /\ m.extra = c.extra
  /\ {m.rows[i] : i \in DOMAIN m.rows} = {Cleaned(c.rows[j]) : j \in Firsts(c.rows)}

\* Action property: one damaged setting costs no other one: a window that starts has in
\* memory everything that is legible in its file (load, _validate_and_repair).
LegibleKept ==
  [][\A w \in Windows :
       win[w] = "open" /\ win'[w] \in {"up", "rewrite"} /\ file.kind = "settings" /\ ~Fails
         => KeptOf(file.c, mem'[w])]_storeVars

\* Action property: a corrupt file is not overwritten by the recovery at a start
\* before a backup holds it, with two windows recovering at once
\* (load, _backup_corrupt_file).
CorruptKept ==
  [][file.kind = "corrupt" /\ file' # file /\ by' = "startup" => Corrupt \in backups']_storeVars

\* Action property: a start loses nothing of the file it finds, be it legible in part or
\* not at all.
FilesKept == LegibleKept /\ CorruptKept
=============================================================================
