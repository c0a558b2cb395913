------------------------------- MODULE Launch -------------------------------
(***************************************************************************)
(* Where the processes of a window keep their files, and from what code    *)
(* its mutation service runs.                                              *)
(*                                                                         *)
(* A window is launched with an explicit profile, beside a portable.flag,  *)
(* or natively (bootstrap, main); the processes it starts inherit its      *)
(* environment (worker_environment).  Every process works out the          *)
(* directory of a category whenever it needs one (paths.get_*_dir), from   *)
(* the environment, the flag and the state of the disk at that time.       *)
(*                                                                         *)
(* In a packaged build a service first copies the runtime it was started   *)
(* from into the profile and goes on from the copy (_pin_runtime), so that *)
(* an upgrade does not pull the code away under it; services of two        *)
(* windows do this at the same time, the package may change under them.    *)
(***************************************************************************)
EXTENDS Naturals

CONSTANTS Windows,
          Required,       \* the build demands a portable.flag
          MaxMeddles,     \* bound: flag, directories, package or copy changed from outside
          MaxStarts       \* bound: processes started

Roles == {"window", "service", "worker"}      \* worker: a reader or component process
Procs == Roles \X Windows
Versions == {"old", "new"}                    \* of the package
Homes == {"explicit", "portable", "native"}
Nobody == <<"none", "none">>

VARIABLES
  flag,     \* portable.flag beside the package
  dirs,     \* the storage root of every home
  env,      \* per process: the two variables that select a profile
  proc,     \* per process: how far it is, and the version it runs
  used,     \* per process: where it has kept files since its window was launched
  home,     \* per window: the home it was launched with
  package,  \* the installed runtime
  pinned,   \* data/runtime/<digest> for each version
  lock,     \* copy.lock
  meddles, launches

vars == <<flag, dirs, env, proc, used, home, package, pinned, lock, meddles, launches>>

NoProc == [at |-> "off", runs |-> "none", wants |-> "none", copy |-> "none"]

Init ==
  /\ flag \in {"present", "absent", "odd"}
  /\ dirs = [h \in Homes |-> "fine"]
  /\ env = [p \in Procs |-> [profile |-> FALSE, portable |-> "unset"]]
  /\ proc = [p \in Procs |-> NoProc]
  /\ used = [p \in Procs |-> {}]
  /\ home = [w \in Windows |-> "none"]
  /\ package = "old"
  /\ pinned = [v \in Versions |-> "none"]
  /\ lock = Nobody /\ meddles = 0 /\ launches = 0
-----------------------------------------------------------------------------
(* get_portable_root, _isolated_profile: an explicit profile first, then   *)
(* an inherited root, which must still be there, then the flag beside the  *)
(* code the process runs from.  "refused" raises.                          *)
FlagSeen(p) == IF proc[p].at = "pinned" THEN "absent" ELSE flag

Discovered(seen) ==
  CASE seen = "present" -> "portable"
    [] seen = "odd"     -> "refused"
    [] seen = "absent"  -> IF Required THEN "refused" ELSE "native"

Selects(e, seen) ==
  IF e.profile THEN "explicit"
  ELSE CASE e.portable = "root"    -> IF dirs["portable"] = "gone" THEN "refused" ELSE "portable"
         [] e.portable = "invalid" -> "refused"
         [] e.portable = "unset"   -> Discovered(seen)

(* _ensure_dir_or_fallback: an isolated home neither leaves its root nor   *)
(* falls back; a native directory that cannot be written is replaced.      *)
Place(h) ==
  CASE h = "refused"    -> "refused"
    [] h = "native"     -> IF dirs[h] = "fine" THEN h ELSE "fallback"
    [] OTHER            -> IF dirs[h] = "fine" THEN h ELSE "refused"

Kept(p) == Place(Selects(env[p], FlagSeen(p)))

(* inherit_profile_environment: the selection is written back.             *)
\* Bug: the selection stays implicit.
NotPinned(e, seen) == e
Pinned(e, seen)    == [e EXCEPT !.portable = IF Selects(e, seen) = "portable" THEN "root" ELSE "unset"]
-----------------------------------------------------------------------------
\* bootstrap.entry, configure_profile, configure_runtime_environment: the user launches
\* a window, with --profile-root or not, in an environment that may name a root.
LaunchWindow(w) ==
  LET p == <<"window", w>> IN
  /\ proc[p].at = "off" /\ launches < MaxStarts /\ launches' = launches + 1
  /\ \A r \in Roles : proc[<<r, w>>].at = "off"
  /\ \E e \in [profile : BOOLEAN, portable : {"unset", "invalid"}] :
       LET place == Place(Selects(e, flag)) IN
       IF place = "refused"
       THEN UNCHANGED <<env, proc, used, home>>
       ELSE /\ env' = [env EXCEPT ![p] = Pinned(e, flag)]
            /\ proc' = [proc EXCEPT ![p] = [NoProc EXCEPT !.at = "up", !.runs = package]]
            /\ home' = [home EXCEPT ![w] = Selects(e, flag)]
            /\ used' = [q \in Procs |-> IF q[2] # w THEN used[q] ELSE IF q = p THEN {place} ELSE {}]
  /\ UNCHANGED <<flag, dirs, package, pinned, lock, meddles>>

\* worker_environment and Popen: a service or a worker starts, repeatedly if it ends.
StartChild(p) ==
  LET parent == <<"window", p[2]>>
      e      == Pinned(env[parent], FlagSeen(parent)) IN
  /\ p[1] # "window" /\ proc[p].at = "off" /\ proc[parent].at = "up"
  /\ launches < MaxStarts /\ launches' = launches + 1
  /\ Selects(env[parent], FlagSeen(parent)) # "refused" /\ Place(Selects(e, flag)) # "refused"
  /\ env' = [env EXCEPT ![p] = e]
  /\ proc' = [proc EXCEPT ![p] = [NoProc EXCEPT !.at = IF p[1] = "service" THEN "arrived" ELSE "up",
                                                !.runs = package]]
  /\ used' = [used EXCEPT ![p] = @ \cup {Place(Selects(e, flag))}]
  /\ UNCHANGED <<flag, dirs, home, package, pinned, lock, meddles>>

\* A process that needs a directory gets it, or the call raises.
Access(p) ==
  /\ proc[p].at \in {"up", "pinned"} /\ Kept(p) # "refused"
  /\ used' = [used EXCEPT ![p] = @ \cup {Kept(p)}]
  /\ UNCHANGED <<flag, dirs, env, proc, home, package, pinned, lock, meddles, launches>>

\* A process ends or is killed; a window may leave its service behind, at work.
End(p) ==
  /\ proc[p].at # "off"
  /\ proc' = [proc EXCEPT ![p] = NoProc]
  /\ lock' = IF lock = p THEN Nobody ELSE lock
  /\ UNCHANGED <<flag, dirs, env, used, home, package, pinned, meddles, launches>>
-----------------------------------------------------------------------------
(* _pin_runtime.  The digest of the runtime decides which copy is used.    *)
Inventory(p) ==
  /\ proc[p].at = "arrived" /\ Kept(p) # "refused"
  /\ proc' = [proc EXCEPT ![p].at = "counted", ![p].wants = package]
  /\ used' = [used EXCEPT ![p] = @ \cup {Kept(p)}]
  /\ UNCHANGED <<flag, dirs, env, home, package, pinned, lock, meddles, launches>>

\* The lock is not waited for: a service that finds it taken fails, and is started again.
TakeLock(p) ==
  /\ proc[p].at = "counted"
  /\ IF lock = Nobody
     THEN /\ lock' = p
          /\ proc' = [proc EXCEPT ![p].at = IF pinned[proc[p].wants] = "none" THEN "copies" ELSE "compares"]
     ELSE /\ proc' = [proc EXCEPT ![p] = NoProc] /\ UNCHANGED lock
  /\ UNCHANGED <<flag, dirs, env, used, home, package, pinned, meddles, launches>>

\* copytree reads the package as it is by now, or as it changes.
CopyTree(p) ==
  /\ proc[p].at = "copies"
  /\ \E c \in {package} \cup IF package # proc[p].wants THEN {"mixed"} ELSE {} :
       proc' = [proc EXCEPT ![p].at = "copied", ![p].copy = c]
  /\ UNCHANGED <<flag, dirs, env, used, home, package, pinned, lock, meddles, launches>>

\* Bug: the copy is not compared.
Copied(p, c) == TRUE
Whole(p, c)  == c = proc[p].wants

Runs(p, c) == [proc EXCEPT ![p].at = "pinned", ![p].runs = c]

\* The copy is compared with the inventory, marked complete, renamed and executed.
PublishCopy(p) ==
  /\ proc[p].at = "copied" /\ lock' = Nobody
  /\ IF Whole(p, proc[p].copy)
     THEN /\ pinned' = [pinned EXCEPT ![proc[p].wants] = proc[p].copy]
          /\ proc' = Runs(p, proc[p].copy)
     ELSE /\ proc' = [proc EXCEPT ![p] = NoProc] /\ UNCHANGED pinned
  /\ UNCHANGED <<flag, dirs, env, used, home, package, meddles, launches>>

\* An earlier copy is used if it is still what it was; otherwise it is left for inspection.
UseCopy(p) ==
  /\ proc[p].at = "compares" /\ lock' = Nobody
  /\ proc' = IF Whole(p, pinned[proc[p].wants])
             THEN Runs(p, pinned[proc[p].wants]) ELSE [proc EXCEPT ![p] = NoProc]
  /\ UNCHANGED <<flag, dirs, env, used, home, package, pinned, meddles, launches>>
-----------------------------------------------------------------------------
\* The user adds or removes the flag, a directory becomes bad (unwritable, or a link out
\* of the profile) or unavailable, the package is upgraded, a copy is damaged.
Meddle ==
  /\ meddles < MaxMeddles /\ meddles' = meddles + 1
  /\ \/ /\ flag' \in {"present", "absent", "odd"} \ {flag} /\ UNCHANGED <<dirs, package, pinned>>
     \/ /\ \E h \in Homes, s \in {"fine", "bad", "gone"} :
             s # dirs[h] /\ dirs' = [dirs EXCEPT ![h] = s]
        /\ UNCHANGED <<flag, package, pinned>>
     \/ /\ package' \in Versions \ {package} /\ UNCHANGED <<flag, dirs, pinned>>
     \/ /\ \E v \in Versions : pinned[v] = v /\ pinned' = [pinned EXCEPT ![v] = "damaged"]
        /\ UNCHANGED <<flag, dirs, package>>
  /\ UNCHANGED <<env, proc, used, home, lock, launches>>

Pin(p) == Inventory(p) \/ TakeLock(p) \/ CopyTree(p) \/ PublishCopy(p) \/ UseCopy(p)

Next ==
  \/ \E w \in Windows : LaunchWindow(w)
  \/ \E p \in Procs : StartChild(p) \/ Access(p) \/ End(p)
  \/ \E w \in Windows : Pin(<<"service", w>>)
  \/ Meddle

Spec == Init /\ [][Next]_vars
-----------------------------------------------------------------------------
TypeOK ==
  /\ \A p \in Procs : /\ used[p] \subseteq Homes \cup {"fallback"}
                      /\ env[p].portable \in {"unset", "root"}
  /\ lock \in Procs \cup {Nobody}

\* Safety: whatever happens to the flag and the directories afterwards, a window launched
\* with an explicit or a portable profile and every process it starts keep their files in
\* that profile or fail; none of them writes to another home (paths, worker_environment).
\* And a service that works runs from a copy of its runtime that is complete and of one
\* version, also when the package changed while it was copied, when two services pin at
\* once, or when an earlier copy was damaged (_pin_runtime).
OneHome ==
  /\ TypeOK
  /\ \A p \in Procs : home[p[2]] \in {"explicit", "portable"} => used[p] \subseteq {home[p[2]]}
  /\ \A w \in Windows : LET p == proc[<<"service", w>>] IN p.at = "pinned" => p.runs = p.wants
=============================================================================
