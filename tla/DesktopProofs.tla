---------------------------- MODULE DesktopProofs ----------------------------
(***************************************************************************)
(* What a window can rely on before it sorts anything, for any number of   *)
(* windows and any bound: where it keeps its files, what happens to a      *)
(* corrupt settings file, what the settings dialog says of the model, and  *)
(* what the windows keep of the settings they write.                       *)
(***************************************************************************)
EXTENDS Desktop, SequenceTheorems, WellFoundedInduction, TLAPS

(* Launch: the home of a window and of the processes it starts.             *)

ProcType == [at    : {"off", "up", "arrived", "counted", "copies", "copied", "compares", "pinned"},
             runs  : {"none", "old", "new"},
             wants : {"none", "old", "new"},
             copy  : {"none", "old", "new", "mixed"}]

\* The environment of a running process selects the home of its window, and no other.
Selected(p) ==
  /\ home[p[2]] = "explicit" => env[p].profile
  /\ home[p[2]] = "portable" => ~env[p].profile /\ env[p].portable = "root"

LaunchOK ==
  /\ flag \in {"present", "absent", "odd"} /\ package \in {"old", "new"}
  /\ dirs \in [Launched!Homes -> {"fine", "bad", "gone"}]
  /\ pinned \in [Launched!Versions -> {"none", "old", "new", "damaged"}]
  /\ env \in [Launched!Procs -> [profile : BOOLEAN, portable : {"unset", "root"}]]
  /\ proc \in [Launched!Procs -> ProcType]
  /\ used \in [Launched!Procs -> SUBSET (Launched!Homes \cup {"fallback"})]
  /\ home \in [Windows -> {"none"} \cup Launched!Homes]
  /\ lock \in Launched!Procs \cup {Launched!Nobody}

HomeInv ==
  /\ LaunchOK
  /\ \A p \in Launched!Procs : /\ proc[p].at # "off" => Selected(p)
                               /\ home[p[2]] \in {"explicit", "portable"} => used[p] \subseteq {home[p[2]]}
  /\ \A w \in Windows : LET p == proc[<<"service", w>>] IN p.at = "pinned" => p.runs = p.wants

\* A process is a role of a window.
LEMMA ProcIs ==
  /\ \A p \in Launched!Procs : p[1] \in Launched!Roles /\ p[2] \in Windows /\ p = <<p[1], p[2]>>
  /\ \A r \in Launched!Roles, w \in Windows : /\ <<r, w>> \in Launched!Procs
                                              /\ <<r, w>>[1] = r /\ <<r, w>>[2] = w
BY DEF Launched!Procs

\* With a home selected, a directory is in that home or is refused.
LEMMA PlaceIs ==
  ASSUME LaunchOK, NEW e, e \in [profile : BOOLEAN, portable : {"unset", "root", "invalid"}],
         NEW seen, seen \in {"present", "absent", "odd"},
         NEW s, s = Launched!Selects(e, seen), NEW place, place = Launched!Place(s),
         NEW n, n = Launched!Pinned(e, seen)
  PROVE  /\ s \in Launched!Homes \cup {"refused"}
         /\ place \in Launched!Homes \cup {"fallback", "refused"}
         /\ s # "native" => place \in {s, "refused"}
         /\ e.profile <=> s = "explicit"
         /\ ~e.profile /\ e.portable = "root" => s \in {"portable", "refused"}
         /\ n \in [profile : BOOLEAN, portable : {"unset", "root"}]
         /\ n.profile = e.profile
         /\ s = "portable" <=> n.portable = "root"
<1>1. Launched!Discovered(seen) \in {"portable", "native", "refused"}
  BY DEF Launched!Discovered
<1>2. /\ e.profile => s = "explicit"
      /\ ~e.profile /\ e.portable = "root" => s \in {"portable", "refused"}
      /\ ~e.profile /\ e.portable = "invalid" => s = "refused"
      /\ ~e.profile /\ e.portable = "unset" => s = Launched!Discovered(seen)
  <2>1. ASSUME e.profile PROVE s = "explicit"
    BY <2>1 DEF Launched!Selects
  <2>2. ASSUME ~e.profile, e.portable = "root" PROVE s \in {"portable", "refused"}
    BY <2>2 DEF Launched!Selects
  <2>3. ASSUME ~e.profile, e.portable = "invalid" PROVE s = "refused"
    BY <2>3 DEF Launched!Selects
  <2>4. ASSUME ~e.profile, e.portable = "unset" PROVE s = Launched!Discovered(seen)
    BY <2>4 DEF Launched!Selects
  <2> QED BY <2>1, <2>2, <2>3, <2>4
<1>3. s \in Launched!Homes \cup {"refused"} /\ (e.profile <=> s = "explicit")
  BY <1>1, <1>2 DEF Launched!Homes
<1>4. /\ place \in Launched!Homes \cup {"fallback", "refused"}
      /\ s # "native" => place \in {s, "refused"}
  BY <1>3 DEF Launched!Place, Launched!Homes
<1>5. /\ n \in [profile : BOOLEAN, portable : {"unset", "root"}]
      /\ n.profile = e.profile /\ (s = "portable" <=> n.portable = "root")
  BY DEF Launched!Pinned
<1> QED BY <1>2, <1>3, <1>4, <1>5

\* Whatever the step, a process that is not started keeps its environment, and one that
\* is started, or uses a directory, follows its window.
LEMMA WindowStep ==
  ASSUME HomeInv, NEW w \in Windows, Launched!LaunchWindow(w)
  PROVE  HomeInv'
<1> DEFINE p == <<"window", w>>
<1>1. LaunchOK /\ p \in Launched!Procs /\ p[2] = w /\ \A q \in Launched!Procs : q[2] = w => proc[q].at = "off"
  BY ProcIs DEF HomeInv, Launched!LaunchWindow, Launched!Roles
<1>2. UNCHANGED <<flag, dirs, package, pinned, lock>>
  BY DEF Launched!LaunchWindow
<1>3. CASE UNCHANGED <<env, proc, used, home>>
  BY <1>1, <1>2, <1>3 DEF HomeInv, LaunchOK, Selected
<1>4. CASE ~UNCHANGED <<env, proc, used, home>>
  <2>1. PICK e \in [profile : BOOLEAN, portable : {"unset", "invalid"}] :
          LET place == Launched!Place(Launched!Selects(e, flag)) IN
          /\ place # "refused"
          /\ env' = [env EXCEPT ![p] = Launched!Pinned(e, flag)]
          /\ proc' = [proc EXCEPT ![p] = [Launched!NoProc EXCEPT !.at = "up", !.runs = package]]
          /\ home' = [home EXCEPT ![w] = Launched!Selects(e, flag)]
          /\ used' = [q \in Launched!Procs |-> IF q[2] # w THEN used[q] ELSE IF q = p THEN {place} ELSE {}]
    BY <1>4 DEF Launched!LaunchWindow
  <2>2. PICK s, n, place : /\ s = Launched!Selects(e, flag) /\ n = Launched!Pinned(e, flag)
                           /\ place = Launched!Place(s)
    OBVIOUS
  <2>3. e \in [profile : BOOLEAN, portable : {"unset", "root", "invalid"}] /\ flag \in {"present", "absent", "odd"}
    BY <1>1 DEF LaunchOK
  <2>4. /\ s \in Launched!Homes \cup {"refused"}
        /\ place \in Launched!Homes \cup {"fallback", "refused"} /\ (s # "native" => place \in {s, "refused"})
        /\ n \in [profile : BOOLEAN, portable : {"unset", "root"}]
        /\ (s = "explicit" => n.profile) /\ (s = "portable" => ~n.profile /\ n.portable = "root")
    BY <1>1, <2>2, <2>3, PlaceIs
  <2>5. /\ \A q \in Launched!Procs : /\ env'[q] = IF q = p THEN n ELSE env[q]
                                     /\ q # p => proc'[q] = proc[q]
                                     /\ used'[q] = IF q[2] # w THEN used[q] ELSE IF q = p THEN {place} ELSE {}
        /\ \A v \in Windows : home'[v] = IF v = w THEN s ELSE home[v]
        /\ place # "refused" /\ s # "refused"
    BY <1>1, <2>1, <2>2, <2>4 DEF LaunchOK, Launched!Place
  <2>6. proc'[p] = [at |-> "up", runs |-> package, wants |-> "none", copy |-> "none"]
    BY <1>1, <2>1 DEF LaunchOK, Launched!NoProc
  <2>7. LaunchOK'
    <3>1. env' \in [Launched!Procs -> [profile : BOOLEAN, portable : {"unset", "root"}]]
      BY <1>1, <2>1, <2>2, <2>4 DEF LaunchOK
    <3>2. proc' \in [Launched!Procs -> ProcType]
      <4>1. [at |-> "up", runs |-> package, wants |-> "none", copy |-> "none"] \in ProcType
        BY <1>1 DEF LaunchOK, ProcType
      <4> QED BY <1>1, <2>1, <2>6, <4>1 DEF LaunchOK
    <3>3. used' \in [Launched!Procs -> SUBSET (Launched!Homes \cup {"fallback"})]
      BY <1>1, <2>1, <2>2, <2>4, <2>5 DEF LaunchOK
    <3>4. home' \in [Windows -> {"none"} \cup Launched!Homes]
      BY <1>1, <2>1, <2>2, <2>4, <2>5 DEF LaunchOK
    <3> QED BY <1>1, <1>2, <3>1, <3>2, <3>3, <3>4 DEF LaunchOK
  <2>8. ASSUME NEW q \in Launched!Procs
        PROVE  /\ proc'[q].at # "off" => Selected(q)'
               /\ home'[q[2]] \in {"explicit", "portable"} => used'[q] \subseteq {home'[q[2]]}
    <3>1. q[2] \in Windows
      BY ProcIs
    <3>2. CASE q[2] # w
      BY <1>1, <2>5, <3>1, <3>2 DEF HomeInv, Selected
    <3>3. CASE q = p
      BY <1>1, <2>4, <2>5, <3>3 DEF Selected
    <3>4. CASE q[2] = w /\ q # p
      BY <1>1, <2>5, <3>1, <3>4
    <3> QED BY <3>2, <3>3, <3>4
  <2>9. \A v \in Windows : <<"service", v>> # p /\ <<"service", v>> \in Launched!Procs
    BY ProcIs DEF Launched!Roles
  <2> QED BY <2>5, <2>7, <2>8, <2>9 DEF HomeInv
<1> QED BY <1>3, <1>4

\* A child inherits what its window selects.
LEMMA ChildStep ==
  ASSUME HomeInv, NEW p \in Launched!Procs, Launched!StartChild(p)
  PROVE  HomeInv'
<1> DEFINE parent == <<"window", p[2]>>
<1>1. LaunchOK /\ p[2] \in Windows /\ parent \in Launched!Procs /\ parent[2] = p[2]
  BY ProcIs DEF HomeInv, Launched!Roles
<1>2. PICK n, seen : n = Launched!Pinned(env[parent], seen) /\ seen = Launched!FlagSeen(parent)
  OBVIOUS
<1>3. PICK s, place : s = Launched!Selects(n, flag) /\ place = Launched!Place(s)
  OBVIOUS
<1>4. /\ p # parent /\ proc[p].at = "off" /\ proc[parent].at = "up" /\ place # "refused"
      /\ Launched!Selects(env[parent], seen) # "refused"
      /\ env' = [env EXCEPT ![p] = n]
      /\ proc' = [proc EXCEPT ![p] = [Launched!NoProc EXCEPT !.at = IF p[1] = "service" THEN "arrived" ELSE "up",
                                                             !.runs = package]]
      /\ used' = [used EXCEPT ![p] = @ \cup {place}]
      /\ UNCHANGED <<flag, dirs, home, package, pinned, lock>>
  BY <1>2, <1>3 DEF Launched!StartChild
<1>5. /\ env[parent] \in [profile : BOOLEAN, portable : {"unset", "root"}] /\ seen \in {"present", "absent", "odd"}
      /\ flag \in {"present", "absent", "odd"}
  BY <1>1, <1>2 DEF LaunchOK, Launched!FlagSeen
<1>6. /\ n \in [profile : BOOLEAN, portable : {"unset", "root"}]
      /\ n.profile = env[parent].profile
      /\ ~n.profile /\ env[parent].portable = "root" => n.portable = "root"
  BY <1>1, <1>2, <1>4, <1>5, PlaceIs
<1>7. /\ place \in Launched!Homes \cup {"fallback"}
      /\ n.profile => place = "explicit"
      /\ ~n.profile /\ n.portable = "root" => place = "portable"
  BY <1>1, <1>3, <1>4, <1>5, <1>6, PlaceIs
<1>8. /\ home[p[2]] = "explicit" => n.profile
      /\ home[p[2]] = "portable" => ~n.profile /\ n.portable = "root"
  BY <1>1, <1>4, <1>6 DEF HomeInv, Selected
<1>9. \A q \in Launched!Procs : /\ env'[q] = IF q = p THEN n ELSE env[q]
                                /\ q # p => proc'[q] = proc[q]
                                /\ used'[q] = IF q = p THEN used[p] \cup {place} ELSE used[q]
  BY <1>1, <1>4 DEF LaunchOK
<1>10. /\ proc'[p] = [at |-> IF p[1] = "service" THEN "arrived" ELSE "up", runs |-> package,
                      wants |-> "none", copy |-> "none"]
       /\ proc'[p] \in ProcType /\ proc'[p].at # "pinned"
  BY <1>1, <1>4 DEF LaunchOK, Launched!NoProc, ProcType
<1>11. LaunchOK'
  <2>1. env' \in [Launched!Procs -> [profile : BOOLEAN, portable : {"unset", "root"}]]
    BY <1>1, <1>4, <1>6 DEF LaunchOK
  <2>2. proc' \in [Launched!Procs -> ProcType]
    BY <1>1, <1>4, <1>10 DEF LaunchOK
  <2>3. used' \in [Launched!Procs -> SUBSET (Launched!Homes \cup {"fallback"})]
    BY <1>1, <1>4, <1>7 DEF LaunchOK
  <2> QED BY <1>1, <1>4, <2>1, <2>2, <2>3 DEF LaunchOK
<1>12. ASSUME NEW q \in Launched!Procs
       PROVE  /\ proc'[q].at # "off" => Selected(q)'
              /\ home'[q[2]] \in {"explicit", "portable"} => used'[q] \subseteq {home'[q[2]]}
  BY <1>4, <1>7, <1>8, <1>9 DEF HomeInv, Selected
<1>13. \A v \in Windows : <<"service", v>> \in Launched!Procs
  BY ProcIs DEF Launched!Roles
<1> QED BY <1>9, <1>10, <1>11, <1>12, <1>13 DEF HomeInv

\* A process that uses a directory gets one of its window's home.
LEMMA KeptIs ==
  ASSUME HomeInv, NEW p \in Launched!Procs, proc[p].at # "off", Launched!Kept(p) # "refused"
  PROVE  /\ Launched!Kept(p) \in Launched!Homes \cup {"fallback"}
         /\ home[p[2]] \in {"explicit", "portable"} => Launched!Kept(p) = home[p[2]]
<1>1. LaunchOK /\ Selected(p)
  BY DEF HomeInv
<1>2. PICK seen \in {"present", "absent", "odd"} : seen = Launched!FlagSeen(p)
  BY <1>1 DEF LaunchOK, Launched!FlagSeen
<1>3. env[p] \in [profile : BOOLEAN, portable : {"unset", "root"}]
  BY <1>1 DEF LaunchOK
<1>4. PICK s : s = Launched!Selects(env[p], seen) /\ Launched!Kept(p) = Launched!Place(s)
  BY <1>2 DEF Launched!Kept
<1> QED BY <1>1, <1>2, <1>3, <1>4, PlaceIs DEF Selected

\* A step that only uses one more directory of the window's home, or none, and moves one
\* process on without starting it, keeps the invariant.
LEMMA OneProcess ==
  ASSUME HomeInv, NEW p \in Launched!Procs, proc[p].at # "off",
         NEW c, c \in ProcType, proc' = [proc EXCEPT ![p] = c],
         p[1] = "service" /\ c.at = "pinned" => c.runs = c.wants,
         NEW more, more \subseteq Launched!Homes \cup {"fallback"},
         home[p[2]] \in {"explicit", "portable"} => more \subseteq {home[p[2]]},
         used' = [used EXCEPT ![p] = used[p] \cup more],
         UNCHANGED <<flag, dirs, env, home, package>>,
         pinned' \in [Launched!Versions -> {"none", "old", "new", "damaged"}],
         lock' \in Launched!Procs \cup {Launched!Nobody}
  PROVE  HomeInv'
<1>1. LaunchOK /\ Selected(p) /\ p[2] \in Windows
  BY ProcIs DEF HomeInv
<1>2. \A q \in Launched!Procs : /\ proc'[q] = IF q = p THEN c ELSE proc[q]
                                /\ used'[q] = IF q = p THEN used[p] \cup more ELSE used[q]
  BY <1>1 DEF LaunchOK
<1>3. LaunchOK'
  <2>1. proc' \in [Launched!Procs -> ProcType]
    BY <1>1 DEF LaunchOK
  <2>2. used' \in [Launched!Procs -> SUBSET (Launched!Homes \cup {"fallback"})]
    BY <1>1 DEF LaunchOK
  <2> QED BY <1>1, <2>1, <2>2 DEF LaunchOK
<1>4. ASSUME NEW q \in Launched!Procs
      PROVE  /\ proc'[q].at # "off" => Selected(q)'
             /\ home'[q[2]] \in {"explicit", "portable"} => used'[q] \subseteq {home'[q[2]]}
  BY <1>1, <1>2, <1>4 DEF HomeInv, Selected
<1>5. \A v \in Windows : <<"service", v>> \in Launched!Procs
  BY ProcIs DEF Launched!Roles
<1>6. ASSUME NEW v \in Windows PROVE LET r == proc'[<<"service", v>>] IN r.at = "pinned" => r.runs = r.wants
  BY <1>2, <1>5, ProcIs DEF HomeInv
<1> QED BY <1>3, <1>4, <1>6 DEF HomeInv

\* The same when no directory is used.
LEMMA NothingUsed ==
  ASSUME HomeInv, NEW p \in Launched!Procs, proc[p].at # "off",
         NEW c, c \in ProcType, proc' = [proc EXCEPT ![p] = c],
         p[1] = "service" /\ c.at = "pinned" => c.runs = c.wants,
         UNCHANGED <<flag, dirs, env, used, home, package>>,
         pinned' \in [Launched!Versions -> {"none", "old", "new", "damaged"}],
         lock' \in Launched!Procs \cup {Launched!Nobody}
  PROVE  HomeInv'
<1>1. PICK more : more = {}
  OBVIOUS
<1>2. used' = [used EXCEPT ![p] = used[p] \cup more]
  BY <1>1 DEF HomeInv, LaunchOK
<1>3. more \subseteq Launched!Homes \cup {"fallback"} /\ more \subseteq {home[p[2]]}
  BY <1>1
<1> QED BY <1>2, <1>3, OneProcess

\* A process of a window asks for a protected directory in its own environment.
LEMMA AccessStep ==
  ASSUME HomeInv, NEW p \in Launched!Procs, Launched!Access(p)
  PROVE  HomeInv'
<1>1. proc[p].at # "off" /\ Launched!Kept(p) # "refused" /\ LaunchOK
  BY DEF Launched!Access, HomeInv
<1>2. PICK more : more = {Launched!Kept(p)}
  OBVIOUS
<1>3. PICK c : c = proc[p]
  OBVIOUS
<1>4. /\ used' = [used EXCEPT ![p] = used[p] \cup more]
      /\ UNCHANGED <<flag, dirs, env, proc, home, package, pinned, lock>>
  BY <1>2 DEF Launched!Access
<1>5. /\ more \subseteq Launched!Homes \cup {"fallback"}
      /\ home[p[2]] \in {"explicit", "portable"} => more \subseteq {home[p[2]]}
  BY <1>1, <1>2, KeptIs
<1>6. c \in ProcType /\ proc' = [proc EXCEPT ![p] = c]
  BY <1>1, <1>3, <1>4 DEF LaunchOK
<1>7. p[1] = "service" /\ c.at = "pinned" => c.runs = c.wants
  BY <1>3, ProcIs DEF HomeInv
<1>8. /\ pinned' \in [Launched!Versions -> {"none", "old", "new", "damaged"}]
      /\ lock' \in Launched!Procs \cup {Launched!Nobody}
  BY <1>1, <1>4 DEF LaunchOK
<1> QED BY <1>1, <1>4, <1>5, <1>6, <1>7, <1>8, OneProcess

\* A process that ends, and the steps of _pin_runtime.
LEMMA EndStep ==
  ASSUME HomeInv, NEW p \in Launched!Procs, Launched!End(p)
  PROVE  HomeInv'
<1>1. PICK c : c = Launched!NoProc
  OBVIOUS
<1>2. proc[p].at # "off" /\ LaunchOK /\ proc' = [proc EXCEPT ![p] = c]
  BY <1>1 DEF Launched!End, HomeInv
<1>3. c \in ProcType /\ c.at # "pinned"
  BY <1>1 DEF Launched!NoProc, ProcType
<1>4. UNCHANGED <<flag, dirs, env, used, home, package, pinned>> /\ lock' \in Launched!Procs \cup {Launched!Nobody}
  BY <1>2 DEF Launched!End, LaunchOK
<1>5. pinned' \in [Launched!Versions -> {"none", "old", "new", "damaged"}]
  BY <1>2, <1>4 DEF LaunchOK
<1> QED BY <1>2, <1>3, <1>4, <1>5, NothingUsed

\* A launcher pins the home it selected, for the process it starts.
LEMMA PinStep ==
  ASSUME HomeInv, NEW w \in Windows, Launched!Pin(<<"service", w>>)
  PROVE  HomeInv'
<1> DEFINE p == <<"service", w>>
<1>1. p \in Launched!Procs /\ LaunchOK /\ proc[p] \in ProcType /\ proc[p].at # "off"
  <2>1. p \in Launched!Procs /\ LaunchOK
    BY ProcIs DEF HomeInv, Launched!Roles
  <2>2. proc[p].at # "off"
    BY DEF Launched!Pin, Launched!Inventory, Launched!TakeLock, Launched!CopyTree,
           Launched!PublishCopy, Launched!UseCopy
  <2> QED BY <2>1, <2>2 DEF LaunchOK
<1>2. ASSUME Launched!Inventory(p) PROVE HomeInv'
  <2>1. PICK more : more = {Launched!Kept(p)}
    OBVIOUS
  <2>2. PICK c : c = [proc[p] EXCEPT !.at = "counted", !.wants = package]
    OBVIOUS
  <2>3. /\ used' = [used EXCEPT ![p] = used[p] \cup more] /\ Launched!Kept(p) # "refused"
        /\ UNCHANGED <<flag, dirs, env, home, package, pinned, lock>>
    BY <1>2, <2>1 DEF Launched!Inventory
  <2>4. proc' = [proc EXCEPT ![p] = c]
    BY <1>1, <1>2, <2>2 DEF Launched!Inventory, LaunchOK
  <2>5. c \in ProcType /\ c.at = "counted"
    BY <1>1, <2>2 DEF ProcType, LaunchOK
  <2>6. /\ more \subseteq Launched!Homes \cup {"fallback"}
        /\ home[p[2]] \in {"explicit", "portable"} => more \subseteq {home[p[2]]}
    BY <1>1, <2>1, <2>3, KeptIs
  <2>7. /\ pinned' \in [Launched!Versions -> {"none", "old", "new", "damaged"}]
        /\ lock' \in Launched!Procs \cup {Launched!Nobody}
    BY <1>1, <2>3 DEF LaunchOK
  <2> QED BY <1>1, <2>3, <2>4, <2>5, <2>6, <2>7, OneProcess
<1>3. ASSUME Launched!TakeLock(p) PROVE HomeInv'
  <2>1. PICK c : c = IF lock = Launched!Nobody
                     THEN [proc[p] EXCEPT !.at = IF pinned[proc[p].wants] = "none" THEN "copies" ELSE "compares"]
                     ELSE Launched!NoProc
    OBVIOUS
  <2>2. c \in ProcType /\ c.at # "pinned"
    BY <1>1, <2>1 DEF ProcType, Launched!NoProc
  <2>3. /\ proc' = [proc EXCEPT ![p] = c] /\ lock' \in Launched!Procs \cup {Launched!Nobody}
        /\ UNCHANGED <<flag, dirs, env, used, home, package, pinned>>
    BY <1>1, <1>3, <2>1 DEF Launched!TakeLock, LaunchOK
  <2>4. pinned' \in [Launched!Versions -> {"none", "old", "new", "damaged"}]
    BY <1>1, <2>3 DEF LaunchOK
  <2> QED BY <1>1, <2>2, <2>3, <2>4, NothingUsed
<1>4. ASSUME Launched!CopyTree(p) PROVE HomeInv'
  <2>1. PICK t \in {package} \cup IF package # proc[p].wants THEN {"mixed"} ELSE {} :
          proc' = [proc EXCEPT ![p].at = "copied", ![p].copy = t]
    BY <1>4 DEF Launched!CopyTree
  <2>2. PICK c : c = [proc[p] EXCEPT !.at = "copied", !.copy = t]
    OBVIOUS
  <2>3. c \in ProcType /\ c.at # "pinned" /\ proc' = [proc EXCEPT ![p] = c]
    BY <1>1, <2>1, <2>2 DEF ProcType, LaunchOK
  <2>4. lock' \in Launched!Procs \cup {Launched!Nobody} /\ UNCHANGED <<flag, dirs, env, used, home, package, pinned>>
    BY <1>1, <1>4 DEF Launched!CopyTree, LaunchOK
  <2>5. pinned' \in [Launched!Versions -> {"none", "old", "new", "damaged"}]
    BY <1>1, <2>4 DEF LaunchOK
  <2> QED BY <1>1, <2>3, <2>4, <2>5, NothingUsed
<1>5. ASSUME Launched!PublishCopy(p) PROVE HomeInv'
  <2>1. PICK c : c = IF Launched!Whole(p, proc[p].copy)
                     THEN [proc[p] EXCEPT !.at = "pinned", !.runs = proc[p].copy] ELSE Launched!NoProc
    OBVIOUS
  <2>2. c \in ProcType /\ (c.at = "pinned" => c.runs = c.wants)
    BY <1>1, <2>1 DEF ProcType, Launched!NoProc, Launched!Whole
  <2>3. proc' = [proc EXCEPT ![p] = c] /\ lock' = Launched!Nobody
    BY <1>1, <1>5, <2>1 DEF Launched!PublishCopy, Launched!Runs, LaunchOK
  <2>4. pinned' \in [Launched!Versions -> {"none", "old", "new", "damaged"}]
    <3>1. CASE Launched!Whole(p, proc[p].copy)
      <4>1. pinned' = [pinned EXCEPT ![proc[p].wants] = proc[p].copy] /\ proc[p].copy = proc[p].wants
        BY <1>5, <3>1 DEF Launched!PublishCopy, Launched!Whole
      <4>2. proc[p].wants \in {"none", "old", "new"}
        BY <1>1 DEF ProcType
      <4> QED BY <1>1, <4>1, <4>2 DEF LaunchOK
    <3>2. CASE ~Launched!Whole(p, proc[p].copy)
      BY <1>1, <1>5, <3>2 DEF Launched!PublishCopy, LaunchOK
    <3> QED BY <3>1, <3>2
  <2>5. UNCHANGED <<flag, dirs, env, used, home, package>>
    BY <1>5 DEF Launched!PublishCopy
  <2> QED BY <1>1, <2>2, <2>3, <2>4, <2>5, NothingUsed
<1>6. ASSUME Launched!UseCopy(p) PROVE HomeInv'
  <2>1. PICK c : c = IF Launched!Whole(p, pinned[proc[p].wants])
                     THEN [proc[p] EXCEPT !.at = "pinned", !.runs = pinned[proc[p].wants]] ELSE Launched!NoProc
    OBVIOUS
  <2>2. c \in ProcType /\ (c.at = "pinned" => c.runs = c.wants)
    BY <1>1, <2>1 DEF ProcType, Launched!NoProc, Launched!Whole
  <2>3. proc' = [proc EXCEPT ![p] = c] /\ lock' = Launched!Nobody
    BY <1>1, <1>6, <2>1 DEF Launched!UseCopy, Launched!Runs, LaunchOK
  <2>4. UNCHANGED <<flag, dirs, env, used, home, package, pinned>>
    BY <1>6 DEF Launched!UseCopy
  <2>5. pinned' \in [Launched!Versions -> {"none", "old", "new", "damaged"}]
    BY <1>1, <2>4 DEF LaunchOK
  <2> QED BY <1>1, <2>2, <2>3, <2>4, <2>5, NothingUsed
<1> QED BY <1>2, <1>3, <1>4, <1>5, <1>6 DEF Launched!Pin

\* A home that comes or goes changes no running process's environment.
LEMMA MeddleStep == HomeInv /\ Launched!Meddle => HomeInv'
<1> SUFFICES ASSUME HomeInv, Launched!Meddle PROVE HomeInv'
  OBVIOUS
<1>1. LaunchOK /\ UNCHANGED <<env, proc, used, home, lock>>
  BY DEF HomeInv, Launched!Meddle
<1>2. /\ flag' \in {"present", "absent", "odd"} /\ package' \in {"old", "new"}
      /\ dirs' \in [Launched!Homes -> {"fine", "bad", "gone"}]
      /\ pinned' \in [Launched!Versions -> {"none", "old", "new", "damaged"}]
  <2>1. CASE flag' \in {"present", "absent", "odd"} \ {flag} /\ UNCHANGED <<dirs, package, pinned>>
    BY <1>1, <2>1 DEF LaunchOK
  <2>2. CASE /\ \E h \in Launched!Homes, s \in {"fine", "bad", "gone"} :
                  s # dirs[h] /\ dirs' = [dirs EXCEPT ![h] = s]
             /\ UNCHANGED <<flag, package, pinned>>
    BY <1>1, <2>2 DEF LaunchOK
  <2>3. CASE package' \in Launched!Versions \ {package} /\ UNCHANGED <<flag, dirs, pinned>>
    BY <1>1, <2>3 DEF LaunchOK, Launched!Versions
  <2>4. CASE /\ \E v \in Launched!Versions : pinned[v] = v /\ pinned' = [pinned EXCEPT ![v] = "damaged"]
             /\ UNCHANGED <<flag, dirs, package>>
    BY <1>1, <2>4 DEF LaunchOK
  <2> QED BY <2>1, <2>2, <2>3, <2>4 DEF Launched!Meddle
<1>3. LaunchOK'
  BY <1>1, <1>2 DEF LaunchOK
<1> QED BY <1>1, <1>3 DEF HomeInv, Selected

\* At the start nothing runs.
LEMMA HomeInit == DesktopInit => HomeInv
<1> SUFFICES ASSUME DesktopInit PROVE HomeInv
  OBVIOUS
<1>1. Launched!Init
  BY DEF DesktopInit
<1>2. LaunchOK
  BY <1>1 DEF Launched!Init, LaunchOK, Launched!NoProc, ProcType, Launched!Versions
<1>3. /\ \A p \in Launched!Procs : proc[p].at = "off" /\ used[p] = {}
      /\ \A w \in Windows : <<"service", w>> \in Launched!Procs
  BY <1>1, ProcIs DEF Launched!Init, Launched!NoProc, Launched!Roles
<1> QED BY <1>2, <1>3 DEF HomeInv

\* Every step of the desktop is one of the launchers', or leaves them alone.
LEMMA HomeNext == HomeInv /\ [DesktopNext]_desktopVars => HomeInv'
<1> SUFFICES ASSUME HomeInv, [DesktopNext]_desktopVars PROVE HomeInv'
  OBVIOUS
<1>1. CASE Launched!Next
  BY <1>1, WindowStep, ChildStep, AccessStep, EndStep, PinStep, MeddleStep DEF Launched!Next
<1>2. CASE UNCHANGED launchVars
  BY <1>2 DEF launchVars, HomeInv, LaunchOK, Selected
<1> QED BY <1>1, <1>2 DEF DesktopNext, desktopVars, dialogVars

\* The environment of every running process of a window selects the home the window was
\* launched with, in every reachable state.
THEOREM HomeInvariance == DesktopSpec => []HomeInv
BY HomeInit, HomeNext, PTL DEF DesktopSpec

\* For any windows and any number of launches and changes to the flag, the directories,
\* the package and the copies: an isolated window and its processes keep to one home, and
\* a service that works runs the version it has counted, whole.
THEOREM WindowsKeepOneHome == DesktopSpec => []OneHome
<1>1. HomeInv => OneHome
  BY DEF HomeInv, LaunchOK, OneHome, Launched!OneHome, Launched!TypeOK
<1> QED BY <1>1, HomeInvariance, PTL
-----------------------------------------------------------------------------
(* SettingsStore: a corrupt settings file.                                  *)

\* Corrupt data has one form; while a window is about to save defaults or repaired
\* settings, a corrupt file can only be one that a backup holds.
CorruptInv ==
  /\ file.kind = "corrupt" => file = Corrupt
  /\ win \in [Windows -> {"off", "open", "create", "rewrite", "backup", "up", "failed"}]
  /\ file.kind = "corrupt" /\ (\E w \in Windows : win[w] \in {"create", "rewrite"}) => Corrupt \in backups

\* What the settings file holds is one of the kinds the store tells apart.
LEMMA KindIs ==
  /\ \A c : Holds(c).kind = "settings" /\ Absent.kind = "absent" /\ Corrupt.kind = "corrupt"
BY DEF Holds, Absent, Corrupt

\* A window that saves what it works with writes over no corrupt file on behalf of a start.
LEMMA ApplyStep ==
  ASSUME CorruptInv, NEW w \in Windows, NEW ok \in BOOLEAN, NEW c, Apply(w, ok, c)
  PROVE  CorruptInv' /\ (file' # file => by' # "startup")
<1>1. UNCHANGED <<backups, win>>
  BY DEF Apply
<1>2. CASE ok
  <2>1. file'.kind = "settings" /\ by' = w
    BY <1>2, KindIs DEF Apply, Persist
  <2> QED BY <1>1, <2>1, WindowsAssumption DEF CorruptInv
<1>3. CASE ~ok
  BY <1>1, <1>3 DEF Apply, NotPersisted, CorruptInv
<1> QED BY <1>2, <1>3

\* A step of the store keeps what the windows about to save rely on.
LEMMA StoreStepKeeps ==
  ASSUME CorruptInv, NEW w \in Windows, StoreStep(w)
  PROVE  /\ CorruptInv'
         /\ file.kind = "corrupt" /\ file' # file /\ by' = "startup" => Corrupt \in backups'
<1> DEFINE Goal == /\ CorruptInv'
                   /\ file.kind = "corrupt" /\ file' # file /\ by' = "startup" => Corrupt \in backups'
<1>1. ASSUME Start(w) PROVE Goal
  <2>1. UNCHANGED <<file, backups>> /\ win[w] = "off"
    BY <1>1 DEF Start
  <2>2. \A v \in Windows : win'[v] = IF v = w THEN IF file.kind = "absent" THEN "create" ELSE "open" ELSE win[v]
    BY <1>1 DEF Start, CorruptInv
  <2>3. win' \in [Windows -> {"off", "open", "create", "rewrite", "backup", "up", "failed"}]
    BY <1>1 DEF Start, CorruptInv
  <2> QED BY <2>1, <2>2, <2>3 DEF CorruptInv
<1>2. ASSUME Unreadable(w) \/ ReadCorrupt(w) PROVE Goal
  <2>1. UNCHANGED <<file, backups>>
    BY <1>2 DEF Unreadable, ReadCorrupt
  <2>2. /\ \A v \in Windows : win'[v] # win[v] => win'[v] \in {"up", "backup"}
        /\ win' \in [Windows -> {"off", "open", "create", "rewrite", "backup", "up", "failed"}]
    BY <1>2 DEF Unreadable, ReadCorrupt, CorruptInv
  <2> QED BY <2>1, <2>2 DEF CorruptInv
<1>3. ASSUME Read(w) PROVE Goal
  <2>1. UNCHANGED <<file, backups>> /\ file.kind = "settings"
    BY <1>3 DEF Read
  <2>2. win' \in [Windows -> {"off", "open", "create", "rewrite", "backup", "up", "failed"}]
    BY <1>3 DEF Read, CorruptInv
  <2> QED BY <2>1, <2>2 DEF CorruptInv
<1>4. ASSUME SaveAtStart(w) PROVE Goal
  <2>1. win[w] \in {"create", "rewrite"} /\ UNCHANGED backups
    BY <1>4 DEF SaveAtStart
  <2>2. CASE Persist(mem[w], "startup") /\ win' = [win EXCEPT ![w] = "up"]
    <3>1. file'.kind = "settings"
      BY <2>2, KindIs DEF Persist
    <3>2. win' \in [Windows -> {"off", "open", "create", "rewrite", "backup", "up", "failed"}]
      BY <2>2 DEF CorruptInv
    <3> QED BY <2>1, <3>1, <3>2 DEF CorruptInv
  <2>3. CASE NotPersisted /\ win' = [win EXCEPT ![w] = IF win[w] = "rewrite" THEN "up" ELSE "failed"]
    <3>1. UNCHANGED file
      BY <2>3 DEF NotPersisted
    <3>2. /\ \A v \in Windows : win'[v] # win[v] => win'[v] \in {"up", "failed"}
          /\ win' \in [Windows -> {"off", "open", "create", "rewrite", "backup", "up", "failed"}]
      BY <2>3 DEF CorruptInv
    <3> QED BY <2>1, <3>1, <3>2 DEF CorruptInv
  <2> QED BY <1>4, <2>2, <2>3 DEF SaveAtStart, Saved
<1>5. ASSUME Backup(w) PROVE Goal
  <2>1. CASE UNCHANGED <<file, backups>> /\ win' = AfterBackup(w, FALSE)
    <3>1. /\ \A v \in Windows : win'[v] # win[v] => win'[v] \in {"up"}
          /\ win' \in [Windows -> {"off", "open", "create", "rewrite", "backup", "up", "failed"}]
      BY <2>1 DEF CorruptInv, AfterBackup
    <3> QED BY <2>1, <3>1 DEF CorruptInv
  <2>2. CASE backups' = backups \cup {file} /\ file' \in {Absent, file} /\ win' = AfterBackup(w, TRUE)
    <3>1. win' \in [Windows -> {"off", "open", "create", "rewrite", "backup", "up", "failed"}]
      BY <2>2 DEF CorruptInv, AfterBackup
    <3>2. file.kind = "corrupt" => Corrupt \in backups'
      BY <2>2 DEF CorruptInv
    <3>3. file'.kind = "corrupt" => file' = file
      BY <2>2, KindIs
    <3> QED BY <3>1, <3>2, <3>3 DEF CorruptInv
  <2> QED BY <1>5, <2>1, <2>2 DEF Backup
<1> QED BY <1>1, <1>2, <1>3, <1>4, <1>5 DEF StoreStep

\* Every step of the desktop does.
LEMMA CorruptNext ==
  CorruptInv /\ [DesktopNext]_desktopVars =>
    /\ CorruptInv'
    /\ file.kind = "corrupt" /\ file' # file /\ by' = "startup" => Corrupt \in backups'
<1> SUFFICES ASSUME CorruptInv, [DesktopNext]_desktopVars
             PROVE  /\ CorruptInv'
                    /\ file.kind = "corrupt" /\ file' # file /\ by' = "startup" => Corrupt \in backups'
  OBVIOUS
<1>1. CASE UNCHANGED storeVars
  BY <1>1 DEF storeVars, CorruptInv
<1>2. ASSUME NEW w \in Windows, StoreStep(w) \/ LeaveFullscreen(w) \/ Exit(w)
      PROVE  /\ CorruptInv'
             /\ file.kind = "corrupt" /\ file' # file /\ by' = "startup" => Corrupt \in backups'
  <2>1. CASE LeaveFullscreen(w)
    BY <2>1, ApplyStep DEF LeaveFullscreen
  <2>2. CASE Exit(w)
    <3>1. UNCHANGED <<file, backups>>
      BY <2>2 DEF Exit
    <3>2. /\ \A v \in Windows : win'[v] # win[v] => win'[v] \in {"off"}
          /\ win' \in [Windows -> {"off", "open", "create", "rewrite", "backup", "up", "failed"}]
      BY <2>2 DEF CorruptInv, Exit
    <3> QED BY <3>1, <3>2 DEF CorruptInv
  <2> QED BY <1>2, <2>1, <2>2, StoreStepKeeps
<1>3. CASE EditFile
  <2>1. \A w \in Windows : win[w] \notin {"create", "rewrite"}
    BY <1>3 DEF EditFile, Settled
  <2>2. UNCHANGED <<win, backups>> /\ by' = "user"
    BY <1>3 DEF EditFile
  <2>3. file'.kind = "corrupt" => file' = Corrupt
    BY <1>3, KindIs DEF EditFile
  <2> QED BY <2>1, <2>2, <2>3 DEF CorruptInv
<1>4. CASE ChangeFolder
  BY <1>4 DEF ChangeFolder, CorruptInv
<1>5. CASE Save
  <2>1. PICK ok \in BOOLEAN : Apply(Viewer, ok, [mem[Viewer] EXCEPT !.view = dlg.form.view,
                                                 !.rows = Typed(Entered(dlg.form.rows)),
                                                 !.tagging = IF ai.checked THEN "on" ELSE "off"])
    BY <1>5 DEF Save
  <2> QED BY <2>1, ApplyStep, DialogAssumption
<1>6. CASE DialogNext /\ ~Save /\ ~ChangeFolder
  <2>1. UNCHANGED storeVars
    BY <1>6 DEF DialogNext, OpenSettings, Fill, Confirm, Reject, CloseDialog, Poll, Return, CheckReads,
                CheckAnswers, CheckEnds, CheckAnswered, CheckOver, StartJob, CancelJob, JobEnds, CloseMain,
                MainCloses
  <2> QED BY <1>1, <2>1
<1>7. CASE StoreNext
  BY <1>2, <1>3, <1>4, <1>7 DEF StoreNext
<1> QED BY <1>1, <1>4, <1>5, <1>6, <1>7 DEF DesktopNext, desktopVars, vars

\* For any windows: a corrupt settings file is never overwritten, or removed, by the
\* recovery at a start before a backup holds it, also with windows recovering at once.
THEOREM CorruptIsKept == DesktopSpec => CorruptKept
<1>1. DesktopInit => CorruptInv
  BY KindIs DEF DesktopInit, StoreInit, Started, CorruptInv
<1>2. CorruptInv /\ [DesktopNext]_desktopVars => CorruptInv'
  BY CorruptNext
<1>3. CorruptInv /\ [DesktopNext]_desktopVars =>
        [file.kind = "corrupt" /\ file' # file /\ by' = "startup" => Corrupt \in backups']_storeVars
  BY CorruptNext
<1> QED BY <1>1, <1>2, <1>3, PTL DEF DesktopSpec, CorruptKept
-----------------------------------------------------------------------------
(* SettingsDialog: what the dialog says of the model in the store.          *)

Signals == {"valid", "invalid", "failed", "over"}
Dialog(d) ==
  d \in [visible : BOOLEAN, exec : BOOLEAN, box : BOOLEAN, enabled : BOOLEAN, pending : BOOLEAN,
         result : {"none", "accepted", "rejected"}, opened : 0 .. MaxDialogs, jobs : 0 .. MaxJobs,
         form : {d.form}]
AiType  == [usable : BOOLEAN, checked : BOOLEAN, label : {"checking", "manage"},
            saw : {"none", "valid", "invalid", "failed"}]
ThreadType == [at  : {"unused", "running", "read", "answered", "over"},
               val : {"none", "valid", "invalid", "failed"}]
GhostType == [accepted : BOOLEAN, applied : BOOLEAN, unreported : BOOLEAN, dropped : BOOLEAN]

CheckTypes ==
  /\ Dialog(dlg) /\ ai \in AiType /\ ghost \in GhostType
  /\ threads \in [Checks -> ThreadType] /\ \A i \in Checks : threads[i].at = "read" => threads[i].val # "none"
  /\ held \in Checks \cup {NoCheck} /\ inbox \in Seq(Signals)
  /\ refresh \in BOOLEAN /\ job \in {"none", "running", "terminating"} /\ valid \in BOOLEAN

\* Threads are used in their order, and there is one left for every dialog that may be
\* opened, every job that may be started, the job that runs and the refresh that waits.
Budget(n) ==
  /\ n \in Nat /\ \A i \in Checks : threads[i].at = "unused" <=> i > n
  /\ n + (IF job # "none" THEN 1 ELSE 0) + (IF refresh THEN 1 ELSE 0) <= dlg.opened + dlg.jobs

\* An answer is still true, or says that there is none.
Fresh(answer) == answer = "failed" \/ (answer = "valid") = valid
Asking == held \in Checks /\ threads[held].at \in {"running", "read"}
IsLast(k) == k \in 1 .. Len(inbox) /\ inbox[k] # "over" /\ \A j \in k + 1 .. Len(inbox) : inbox[j] = "over"

\* Unless a check was dropped the only thread that runs is the one the dialog holds.
OneThread == ~ghost.dropped => \A i \in Checks : IsRunning(i) => i = held

\* A dialog that is open and not closing: a refresh that waits has a thread to wait for,
\* and the last answer, read, sent or shown, is fresh unless another check follows.
Told == dlg.visible /\ ~dlg.pending /\ ~ghost.dropped
Waits ==
  Told =>
    /\ refresh => IsRunning(held) \/ \E k \in 1 .. Len(inbox) : inbox[k] = "over"
    /\ ai.label = "checking" => Asking \/ \E k \in 1 .. Len(inbox) : inbox[k] # "over"
    /\ ai.label = "manage" => ai.usable = (ai.saw = "valid")
Answers ==
  Told /\ ~ghost.unreported /\ ~refresh =>
    /\ held \in Checks /\ threads[held].at = "read" => Fresh(threads[held].val)
    /\ ~Asking => \A k \in 1 .. Len(inbox) : IsLast(k) => Fresh(inbox[k])
    /\ ~Asking /\ ai.label = "manage" /\ (\A k \in 1 .. Len(inbox) : inbox[k] = "over") => Fresh(ai.saw)

CheckInv == CheckTypes /\ (\E n \in Nat : Budget(n)) /\ OneThread /\ Waits /\ Answers

\* An inbox that grows, and one whose first signal is taken.
LEMMA Posted ==
  ASSUME NEW q \in Seq(Signals), NEW s \in Signals, NEW r, r = Append(q, s)
  PROVE  /\ r \in Seq(Signals) /\ Len(r) = Len(q) + 1 /\ Len(q) \in Nat /\ r[Len(r)] = s
         /\ \A k \in 1 .. Len(q) : r[k] = q[k]
BY AppendProperties

\* Taking the first of the threads in order leaves the others in order.
LEMMA HeadTaken ==
  ASSUME NEW q \in Seq(Signals), q # <<>>, NEW r, r = Tail(q)
  PROVE  /\ r \in Seq(Signals) /\ Len(r) = Len(q) - 1 /\ Len(q) \in Nat \ {0} /\ Head(q) = q[1]
         /\ \A k \in 1 .. Len(r) : r[k] = q[k + 1]
         /\ \A k \in 2 .. Len(q) : q[k] = r[k - 1]
         /\ Head(q) \in Signals
<1>1. Len(q) \in Nat \ {0}
  BY EmptySeq, LenProperties
<1> QED BY <1>1, HeadTailProperties

\* A check that is started is the next one.
LEMMA StartedIs ==
  ASSUME CheckTypes, NEW n, Budget(n), n < MaxDialogs + MaxJobs, NEW box, box \in AiType, StartCheck(box)
  PROVE  /\ held' = n + 1 /\ n + 1 \in Checks
         /\ ai' \in AiType /\ ai'.label = "checking" /\ ai'.saw = box.saw
         /\ threads' \in [Checks -> ThreadType]
         /\ \A i \in Checks : threads'[i] = IF i = n + 1 THEN [threads[i] EXCEPT !.at = "running"] ELSE threads[i]
         /\ threads'[n + 1].at = "running"
<1>1. n + 1 \in Checks /\ n \in Nat
  BY DialogAssumption DEF Checks, Budget
<1>2. n + 1 \in Unused /\ \A j \in Unused : n + 1 <= j
  BY <1>1 DEF Unused, Budget, Checks
<1>3. NextCheck = n + 1
  <2>1. NextCheck \in Unused /\ \A j \in Unused : NextCheck <= j
    BY <1>2 DEF NextCheck
  <2> QED BY <1>1, <1>2, <2>1 DEF Unused, Checks
<1>4. /\ ai' = [box EXCEPT !.usable = FALSE, !.label = "checking"]
      /\ threads' = [threads EXCEPT ![n + 1].at = "running"] /\ held' = n + 1
  BY <1>3 DEF StartCheck
<1>5. [threads[n + 1] EXCEPT !.at = "running"] \in ThreadType
  BY <1>1 DEF CheckTypes, ThreadType
<1>6. ai' \in AiType /\ ai'.label = "checking" /\ ai'.saw = box.saw
  BY <1>4 DEF AiType
<1>7. /\ threads' \in [Checks -> ThreadType]
      /\ \A i \in Checks : threads'[i] = IF i = n + 1 THEN [threads[i] EXCEPT !.at = "running"] ELSE threads[i]
  BY <1>1, <1>4, <1>5 DEF CheckTypes
<1>8. threads'[n + 1].at = "running"
  BY <1>1, <1>7 DEF CheckTypes, ThreadType
<1> QED BY <1>1, <1>4, <1>6, <1>7, <1>8

\* A step that leaves the checks alone and opens no dialog.
LEMMA SameChecks ==
  ASSUME CheckInv, UNCHANGED <<threads, held, inbox, valid, refresh>>,
         ai' \in AiType, ai'.usable = ai.usable, ai'.label = ai.label, ai'.saw = ai.saw,
         Dialog(dlg'), dlg'.visible /\ ~dlg'.pending => dlg.visible /\ ~dlg.pending,
         job' \in {"none", "running", "terminating"},
         (IF job' # "none" THEN 1 ELSE 0) + dlg.opened + dlg.jobs
           <= (IF job # "none" THEN 1 ELSE 0) + dlg'.opened + dlg'.jobs,
         ghost' \in GhostType, ghost'.dropped = ghost.dropped, ghost'.unreported = ghost.unreported
  PROVE  CheckInv'
<1>1. CheckTypes'
  BY DEF CheckInv, CheckTypes
<1>2. PICK n : Budget(n)
  BY DEF CheckInv
<1>3. Budget(n)'
  BY <1>2, SMTT(20) DEF Budget, CheckInv, CheckTypes, Dialog
<1>4. OneThread'
  BY DEF CheckInv, OneThread, IsRunning
<1>5. Told' => Told
  BY DEF Told
<1>6. Waits'
  BY <1>5 DEF CheckInv, Waits, IsRunning, Asking
<1>7. Answers'
  BY <1>5 DEF CheckInv, Answers, Asking, IsLast, Fresh
<1> QED BY <1>1, <1>3, <1>4, <1>6, <1>7 DEF CheckInv, Budget

\* What a close does to the dialog and the job.
LEMMA CloseIs ==
  ASSUME CheckTypes, NEW r \in {"accepted", "rejected"}, Done(r) \/ Closed
  PROVE  /\ Dialog(dlg') /\ (dlg'.visible /\ ~dlg'.pending => dlg.visible /\ ~dlg.pending)
         /\ dlg'.opened = dlg.opened /\ dlg'.jobs = dlg.jobs
         /\ job' \in {"none", "running", "terminating"} /\ (job' = "none" <=> job = "none")
<1>1. job' \in {"none", "running", "terminating"} /\ (job' = "none" <=> job = "none")
  BY DEF Done, Closed, Cancelled, CheckTypes
<1>2. PICK b \in BOOLEAN, c \in BOOLEAN, q \in {"none", "accepted", "rejected"} :
        \/ dlg' = [dlg EXCEPT !.pending = TRUE, !.result = q, !.box = b]
        \/ dlg' = [dlg EXCEPT !.pending = TRUE, !.result = q, !.enabled = FALSE]
        \/ dlg' = [dlg EXCEPT !.visible = FALSE, !.result = q, !.box = b]
        \/ dlg' = [dlg EXCEPT !.visible = FALSE, !.result = q]
        \/ dlg' = dlg
  BY DEF Done, Closed, Hidden
<1> QED BY <1>1, <1>2 DEF CheckTypes, Dialog

\* What the user does in the dialog, and what follows in the window.
LEMMA UserStep ==
  ASSUME CheckInv,
         Fill \/ Save \/ Confirm \/ Reject \/ CloseDialog \/ Poll \/ Return \/ StartJob \/ CancelJob
           \/ CloseMain \/ MainCloses
  PROVE  CheckInv'
<1>1. CheckTypes
  BY DEF CheckInv
<1>2. ASSUME Fill PROVE CheckInv'
  <2>1. UNCHANGED <<threads, held, inbox, refresh, job, valid, ghost>>
    BY <1>2 DEF Fill
  <2>2. CASE dlg' \in {[dlg EXCEPT !.form = f] : f \in Forms} /\ UNCHANGED ai
    <3>1. Dialog(dlg') /\ dlg'.visible = dlg.visible /\ dlg'.pending = dlg.pending
          /\ dlg'.opened = dlg.opened /\ dlg'.jobs = dlg.jobs
      BY <1>1, <2>2 DEF CheckTypes, Dialog
    <3> QED BY <1>1, <2>1, <2>2, <3>1, SameChecks DEF CheckTypes, Dialog
  <2>3. CASE ai' = [ai EXCEPT !.checked = ~@] /\ UNCHANGED dlg
    <3>1. ai' \in AiType /\ ai'.usable = ai.usable /\ ai'.label = ai.label /\ ai'.saw = ai.saw
      BY <1>1, <2>3 DEF CheckTypes, AiType
    <3> QED BY <1>1, <2>1, <2>3, <3>1, SameChecks DEF CheckTypes, Dialog
  <2> QED BY <1>2, <2>2, <2>3 DEF Fill
<1>3. ASSUME Save \/ Return \/ MainCloses PROVE CheckInv'
  <2>1. UNCHANGED <<threads, held, inbox, refresh, job, valid, ai>>
    BY <1>3 DEF Save, Return, MainCloses
  <2>2. PICK x \in BOOLEAN : dlg' = [dlg EXCEPT !.box = x] \/ dlg' = [dlg EXCEPT !.exec = x] \/ dlg' = dlg
    BY <1>3 DEF Save, Return, MainCloses
  <2>3. /\ Dialog(dlg') /\ dlg'.visible = dlg.visible /\ dlg'.pending = dlg.pending
        /\ dlg'.opened = dlg.opened /\ dlg'.jobs = dlg.jobs
    BY <1>1, <2>2 DEF CheckTypes, Dialog
  <2>4. ghost' \in GhostType /\ ghost'.dropped = ghost.dropped /\ ghost'.unreported = ghost.unreported
    BY <1>1, <1>3 DEF Save, Return, MainCloses, CheckTypes, GhostType
  <2> QED BY <1>1, <2>1, <2>3, <2>4, SameChecks DEF CheckTypes, Dialog
<1>4. ASSUME Confirm \/ Reject \/ CloseDialog \/ CloseMain PROVE CheckInv'
  <2>1. UNCHANGED <<threads, held, inbox, refresh, valid, ai>>
    BY <1>4 DEF Confirm, Reject, CloseDialog, CloseMain
  <2>2. PICK r \in {"accepted", "rejected"} : Done(r) \/ Closed
    BY <1>4 DEF Confirm, Reject, CloseDialog, CloseMain
  <2>3. /\ Dialog(dlg') /\ (dlg'.visible /\ ~dlg'.pending => dlg.visible /\ ~dlg.pending)
        /\ dlg'.opened = dlg.opened /\ dlg'.jobs = dlg.jobs
        /\ job' \in {"none", "running", "terminating"} /\ (job' = "none" <=> job = "none")
    BY <1>1, <2>2, CloseIs
  <2>4. PICK b \in BOOLEAN : ghost' = [ghost EXCEPT !.accepted = b]
    BY <1>4 DEF Confirm, Reject, CloseDialog, CloseMain
  <2>5. ghost' \in GhostType /\ ghost'.dropped = ghost.dropped /\ ghost'.unreported = ghost.unreported
    BY <1>1, <2>4 DEF CheckTypes, GhostType
  <2> QED BY <1>1, <2>1, <2>3, <2>5, SameChecks DEF CheckTypes, Dialog
<1>5. ASSUME Poll PROVE CheckInv'
  <2>1. UNCHANGED <<threads, held, inbox, refresh, job, valid, ai, ghost>>
    BY <1>5 DEF Poll
  <2>2. dlg' = [dlg EXCEPT !.visible = FALSE, !.pending = FALSE, !.result = dlg.result]
    BY <1>5 DEF Poll, FinishPending, Hidden
  <2>3. Dialog(dlg') /\ ~dlg'.visible /\ dlg'.opened = dlg.opened /\ dlg'.jobs = dlg.jobs
    BY <1>1, <2>2 DEF CheckTypes, Dialog
  <2> QED BY <1>1, <2>1, <2>3, SameChecks DEF CheckTypes, Dialog
<1>6. ASSUME StartJob PROVE CheckInv'
  <2>1. UNCHANGED <<threads, held, inbox, refresh, valid, ai, ghost>> /\ job = "none" /\ job' = "running"
    BY <1>6 DEF StartJob
  <2>2. dlg' = [dlg EXCEPT !.jobs = dlg.jobs + 1] /\ dlg.jobs < MaxJobs
    BY <1>6 DEF StartJob
  <2>3. dlg.jobs + 1 \in 0 .. MaxJobs
    BY <1>1, <2>2, DialogAssumption DEF CheckTypes, Dialog
  <2>4. /\ Dialog(dlg') /\ dlg'.visible = dlg.visible /\ dlg'.pending = dlg.pending
        /\ dlg'.opened = dlg.opened /\ dlg'.jobs = dlg.jobs + 1
    BY <1>1, <2>2, <2>3 DEF CheckTypes, Dialog
  <2> QED BY <1>1, <2>1, <2>4, SameChecks DEF CheckTypes, Dialog
<1>7. ASSUME CancelJob PROVE CheckInv'
  <2>1. UNCHANGED <<threads, held, inbox, refresh, valid, ai, ghost, dlg>>
    BY <1>7 DEF CancelJob
  <2>2. job' \in {"none", "running", "terminating"} /\ (job' = "none" <=> job = "none")
    BY <1>1, <1>7 DEF CancelJob, Cancelled, CheckTypes
  <2> QED BY <1>1, <2>1, <2>2, SameChecks DEF CheckTypes, Dialog
<1> QED BY <1>2, <1>3, <1>4, <1>5, <1>6, <1>7

\* A check that starts, with room for it, and no other that runs unless it is dropped.
LEMMA StartStep ==
  ASSUME CheckTypes, OneThread, NEW n, Budget(n), n < MaxDialogs + MaxJobs,
         NEW box, box \in AiType, StartCheck(box),
         ~ghost'.dropped => ~ghost.dropped /\ ~IsRunning(held),
         inbox' \in Seq(Signals), refresh' \in BOOLEAN, valid' \in BOOLEAN,
         Dialog(dlg'), ghost' \in GhostType, job' \in {"none", "running", "terminating"},
         n + 1 + (IF job' # "none" THEN 1 ELSE 0) + (IF refresh' THEN 1 ELSE 0) <= dlg'.opened + dlg'.jobs
  PROVE  CheckInv'
<1>1. /\ held' = n + 1 /\ n + 1 \in Checks
      /\ ai' \in AiType /\ ai'.label = "checking" /\ ai'.saw = box.saw
      /\ threads' \in [Checks -> ThreadType]
      /\ \A i \in Checks : threads'[i] = IF i = n + 1 THEN [threads[i] EXCEPT !.at = "running"] ELSE threads[i]
      /\ threads'[n + 1].at = "running"
  BY StartedIs
<1>2. CheckTypes'
  <2>1. \A i \in Checks : threads'[i].at = "read" => threads'[i].val # "none"
    BY <1>1 DEF CheckTypes
  <2> QED BY <1>1, <2>1 DEF CheckTypes
<1>3. n \in Nat /\ Checks \subseteq Nat
  BY DialogAssumption DEF Budget, Checks
<1>4. \A i \in Checks : threads'[i].at = "unused" <=> i > n + 1
  BY <1>1, <1>3 DEF Budget, Checks
<1>5. Budget(n + 1)'
  BY <1>3, <1>4 DEF Budget
<1>6. OneThread'
  BY <1>1 DEF OneThread, IsRunning
<1>7. Asking' /\ IsRunning(held)'
  BY <1>1, <1>3 DEF Asking, IsRunning, NoCheck
<1>8. Waits'
  BY <1>1, <1>7 DEF Waits
<1>9. Answers'
  BY <1>1, <1>7 DEF Answers
<1>10. \E m \in Nat : Budget(m)'
  BY <1>3, <1>5
<1> QED BY <1>2, <1>6, <1>8, <1>9, <1>10 DEF CheckInv

\* Opening a dialog needs a thread for its first check.
LEMMA OpenStep == CheckInv /\ OpenSettings => CheckInv'
<1> SUFFICES ASSUME CheckInv, OpenSettings PROVE CheckInv'
  OBVIOUS
<1>1. CheckTypes /\ OneThread
  BY DEF CheckInv
<1>2. PICK n : Budget(n)
  BY DEF CheckInv
<1>3. PICK box : box = [ai EXCEPT !.checked = FALSE, !.saw = "none"]
  OBVIOUS
<1>4. PICK form : form = [view |-> mem[Viewer].view, rows |-> mem[Viewer].rows]
  OBVIOUS
<1>5. PICK m : m = dlg.opened + 1
  OBVIOUS
<1>6. /\ StartCheck(box) /\ dlg.opened < MaxDialogs
      /\ dlg' = [NoDialog EXCEPT !.visible = TRUE, !.exec = TRUE, !.opened = m,
                                 !.jobs = dlg.jobs, !.form = form]
      /\ ghost' = [ghost EXCEPT !.accepted = FALSE, !.applied = FALSE, !.unreported = FALSE]
      /\ refresh' = FALSE /\ UNCHANGED <<inbox, job, valid>>
  BY <1>3, <1>4, <1>5 DEF OpenSettings
<1>7. box \in AiType
  BY <1>1, <1>3 DEF CheckTypes, AiType
<1>8. dlg.opened \in Nat /\ dlg.jobs \in Nat /\ dlg.jobs <= MaxJobs /\ m \in 0 .. MaxDialogs
  BY <1>1, <1>5, <1>6, DialogAssumption DEF CheckTypes, Dialog
<1>9. Dialog(dlg') /\ dlg'.opened = m /\ dlg'.jobs = dlg.jobs
  BY <1>1, <1>6, <1>8 DEF CheckTypes, Dialog, NoDialog
<1>10. ghost' \in GhostType /\ ghost'.dropped = ghost.dropped
  BY <1>1, <1>6 DEF CheckTypes, GhostType
<1>11. ~IsRunning(held)
  BY <1>1 DEF OpenSettings, IsRunning, CheckTypes
<1>12. n \in Nat /\ n + (IF job # "none" THEN 1 ELSE 0) <= dlg.opened + dlg.jobs
  BY <1>1, <1>2, <1>8 DEF Budget, CheckTypes
<1>13. /\ n < MaxDialogs + MaxJobs
       /\ n + 1 + (IF job' # "none" THEN 1 ELSE 0) + (IF refresh' THEN 1 ELSE 0) <= dlg'.opened + dlg'.jobs
  BY <1>5, <1>6, <1>8, <1>9, <1>12, DialogAssumption
<1> QED BY <1>1, <1>2, <1>6, <1>7, <1>9, <1>10, <1>11, <1>13, StartStep DEF CheckTypes

\* The steps of a thread.
LEMMA ThreadStep ==
  ASSUME CheckInv, NEW i \in Checks, CheckReads(i) \/ CheckAnswers(i) \/ CheckEnds(i)
  PROVE  CheckInv'
<1>1. CheckTypes /\ OneThread /\ Checks \subseteq Nat /\ NoCheck \notin Checks
  BY DialogAssumption DEF CheckInv, Checks, NoCheck
<1>2. PICK n \in Nat : Budget(n)
  BY DEF CheckInv
<1>3. UNCHANGED <<dlg, ai, held, refresh, job, valid, ghost>>
  BY DEF CheckReads, CheckAnswers, CheckEnds
<1>4. PICK t \in ThreadType : threads' = [threads EXCEPT ![i] = t] /\ t.at \in {"read", "answered", "over"}
  <2>1. CASE CheckReads(i)
    <3>1. PICK v \in {IF valid THEN "valid" ELSE "invalid", "failed"} :
            threads' = [threads EXCEPT ![i] = [at |-> "read", val |-> v]]
      BY <2>1 DEF CheckReads
    <3>2. [at |-> "read", val |-> v] \in ThreadType
      BY <3>1 DEF ThreadType
    <3> QED BY <3>1, <3>2
  <2>2. CASE CheckAnswers(i) \/ CheckEnds(i)
    BY <2>2 DEF CheckAnswers, CheckEnds, ThreadType
  <2> QED BY <2>1, <2>2
<1>5. threads[i].at \in {"running", "read", "answered"}
  BY DEF CheckReads, CheckAnswers, CheckEnds
<1>6. /\ threads' \in [Checks -> ThreadType] /\ threads'[i] = t
      /\ \A j \in Checks : j # i => threads'[j] = threads[j]
  BY <1>1, <1>4 DEF CheckTypes
<1>7. Budget(n)'
  BY <1>2, <1>3, <1>4, <1>5, <1>6 DEF Budget
<1>8. IsRunning(i)
  BY <1>1, <1>5 DEF IsRunning
<1>9. ~ghost.dropped => held = i
  BY <1>1, <1>8 DEF OneThread
<1>10. OneThread'
  BY <1>1, <1>3, <1>6, <1>8 DEF OneThread, IsRunning
<1>11. Told' <=> Told
  BY <1>3 DEF Told
<1>12. ASSUME CheckReads(i) PROVE CheckInv'
  <2>1. UNCHANGED inbox
    BY <1>12 DEF CheckReads
  <2>2. t.at = "read" /\ Fresh(t.val)
    <3>1. PICK v \in {IF valid THEN "valid" ELSE "invalid", "failed"} :
            threads' = [threads EXCEPT ![i] = [at |-> "read", val |-> v]]
      BY <1>12 DEF CheckReads
    <3>2. t = [at |-> "read", val |-> v]
      BY <1>1, <1>6, <3>1 DEF CheckTypes
    <3> QED BY <1>1, <3>1, <3>2 DEF Fresh, CheckTypes
  <2>3. CheckTypes'
    <3>1. t.val # "none"
      <4>1. PICK v \in {IF valid THEN "valid" ELSE "invalid", "failed"} :
              threads' = [threads EXCEPT ![i] = [at |-> "read", val |-> v]]
        BY <1>12 DEF CheckReads
      <4>2. t = [at |-> "read", val |-> v]
        BY <1>1, <1>6, <4>1 DEF CheckTypes
      <4> QED BY <4>1, <4>2
    <3>2. \A j \in Checks : threads'[j].at = "read" => threads'[j].val # "none"
      BY <1>1, <1>6, <3>1 DEF CheckTypes
    <3> QED BY <1>1, <1>3, <1>6, <2>1, <3>2 DEF CheckTypes
  <2>4. Told => Asking /\ Asking' /\ (IsRunning(held) <=> IsRunning(held)')
    BY <1>1, <1>3, <1>5, <1>6, <1>9, <1>12, <2>2 DEF Told, Asking, IsRunning, CheckReads
  <2>5. Waits'
    BY <1>3, <1>11, <2>1, <2>4 DEF CheckInv, Waits
  <2>6. Answers'
    BY <1>3, <1>6, <1>9, <1>11, <2>2, <2>4 DEF Answers, Told, Fresh
  <2> QED BY <1>2, <1>7, <1>10, <2>3, <2>5, <2>6 DEF CheckInv
<1>13. ASSUME CheckAnswers(i) PROVE CheckInv'
  <2>1. inbox' = Append(inbox, threads[i].val) /\ threads[i].at = "read" /\ t.at = "answered"
    <3>1. threads' = [threads EXCEPT ![i] = [at |-> "answered", val |-> "none"]]
      BY <1>13 DEF CheckAnswers
    <3> QED BY <1>1, <1>6, <1>13, <3>1 DEF CheckAnswers, CheckTypes
  <2>2. threads[i].val \in Signals \ {"over"}
    BY <1>1, <2>1 DEF CheckTypes, ThreadType, Signals
  <2>3. /\ inbox' \in Seq(Signals) /\ Len(inbox') = Len(inbox) + 1 /\ Len(inbox) \in Nat
        /\ inbox'[Len(inbox')] = threads[i].val /\ \A k \in 1 .. Len(inbox) : inbox'[k] = inbox[k]
    BY <1>1, <2>1, <2>2, Posted DEF CheckTypes
  <2>4. CheckTypes'
    <3>1. \A j \in Checks : threads'[j].at = "read" => threads'[j].val # "none"
      BY <1>1, <1>6, <2>1 DEF CheckTypes
    <3> QED BY <1>1, <1>3, <1>6, <2>3, <3>1 DEF CheckTypes
  <2>5. Told => ~Asking' /\ IsRunning(held)'
    BY <1>1, <1>3, <1>6, <1>9, <2>1 DEF Told, Asking, IsRunning
  <2>6. Waits'
    <3>1. \E k \in 1 .. Len(inbox') : inbox'[k] # "over"
      BY <2>2, <2>3
    <3>2. Told => (ai.label = "manage" => ai.usable = (ai.saw = "valid"))
      BY DEF CheckInv, Waits
    <3> QED BY <1>3, <1>11, <2>5, <3>1, <3>2 DEF Waits
  <2>7. Answers'
    <3>1. ASSUME Told, ~ghost.unreported, ~refresh PROVE Fresh(threads[i].val)
      BY <1>9, <2>1, <3>1 DEF CheckInv, Answers, Told
    <3>2. \A k \in 1 .. Len(inbox') : IsLast(k)' => k = Len(inbox')
      <4> SUFFICES ASSUME NEW k \in 1 .. Len(inbox'), IsLast(k)', k # Len(inbox') PROVE FALSE
        OBVIOUS
      <4>1. Len(inbox') \in k + 1 .. Len(inbox')
        BY <2>3
      <4> QED BY <2>2, <2>3, <4>1 DEF IsLast
    <3>3. \A a : Fresh(a)' <=> Fresh(a)
      BY <1>3 DEF Fresh
    <3>4. ~(\A k \in 1 .. Len(inbox') : inbox'[k] = "over")
      BY <2>2, <2>3
    <3>5. Told => ~(held \in Checks /\ threads'[held].at = "read")
      BY <1>9, <1>6, <2>1 DEF Told
    <3> QED BY <1>3, <1>11, <2>3, <3>1, <3>2, <3>3, <3>4, <3>5 DEF Answers
  <2> QED BY <1>2, <1>7, <1>10, <2>4, <2>6, <2>7 DEF CheckInv
<1>14. ASSUME CheckEnds(i) PROVE CheckInv'
  <2>1. threads[i].at = "answered" /\ t.at = "over"
    <3>1. threads' = [threads EXCEPT ![i] = [at |-> "over", val |-> "none"]]
      BY <1>14 DEF CheckEnds
    <3> QED BY <1>1, <1>6, <1>14, <3>1 DEF CheckEnds, CheckTypes
  <2>2. inbox' = Append(inbox, "over") \/ (held # i /\ UNCHANGED inbox)
    BY <1>14 DEF CheckEnds
  <2>3. inbox' = Append(inbox, "over") =>
          /\ inbox' \in Seq(Signals) /\ Len(inbox') = Len(inbox) + 1 /\ Len(inbox) \in Nat
          /\ inbox'[Len(inbox')] = "over" /\ \A k \in 1 .. Len(inbox) : inbox'[k] = inbox[k]
    BY <1>1, Posted DEF CheckTypes, Signals
  <2>4. CheckTypes'
    <3>1. \A j \in Checks : threads'[j].at = "read" => threads'[j].val # "none"
      BY <1>1, <1>6, <2>1 DEF CheckTypes
    <3> QED BY <1>1, <1>3, <1>6, <2>2, <2>3, <3>1 DEF CheckTypes
  <2>5. ASSUME Told PROVE ~Asking /\ ~Asking' /\ inbox' = Append(inbox, "over")
    BY <1>3, <1>6, <1>9, <2>1, <2>2, <2>5 DEF Told, Asking
  <2>6. Waits'
    <3>1. ASSUME Told PROVE /\ \E k \in 1 .. Len(inbox') : inbox'[k] = "over"
                            /\ (\E k \in 1 .. Len(inbox) : inbox[k] # "over")
                                 => \E k \in 1 .. Len(inbox') : inbox'[k] # "over"
      BY <2>3, <2>5, <3>1
    <3> QED BY <1>3, <1>11, <2>5, <3>1 DEF CheckInv, Waits
  <2>7. Answers'
    <3>1. ASSUME Told PROVE /\ \A k \in 1 .. Len(inbox') : IsLast(k)' => k \in 1 .. Len(inbox) /\ IsLast(k) /\ inbox'[k] = inbox[k]
                            /\ (\A k \in 1 .. Len(inbox') : inbox'[k] = "over") => \A k \in 1 .. Len(inbox) : inbox[k] = "over"
      <4>1. /\ Len(inbox') = Len(inbox) + 1 /\ Len(inbox) \in Nat
            /\ inbox'[Len(inbox')] = "over" /\ \A k \in 1 .. Len(inbox) : inbox'[k] = inbox[k]
        BY <2>3, <2>5, <3>1
      <4>2. ASSUME NEW k \in 1 .. Len(inbox'), IsLast(k)' PROVE k \in 1 .. Len(inbox) /\ IsLast(k) /\ inbox'[k] = inbox[k]
        <5>1. k \in 1 .. Len(inbox) /\ inbox[k] # "over"
          BY <4>1, <4>2 DEF IsLast
        <5>2. \A j \in k + 1 .. Len(inbox) : j \in k + 1 .. Len(inbox') /\ j \in 1 .. Len(inbox)
          BY <4>1, <5>1
        <5> QED BY <4>1, <4>2, <5>1, <5>2 DEF IsLast
      <4> QED BY <4>1, <4>2
    <3>2. \A a : Fresh(a)' <=> Fresh(a)
      BY <1>3 DEF Fresh
    <3>3. Told => ~(held \in Checks /\ threads'[held].at = "read")
      BY <1>9, <1>6, <2>1 DEF Told
    <3> QED BY <1>3, <1>11, <2>5, <3>1, <3>2, <3>3 DEF CheckInv, Answers
  <2> QED BY <1>2, <1>7, <1>10, <2>4, <2>6, <2>7 DEF CheckInv
<1> QED BY <1>12, <1>13, <1>14

\* _on_model_check_finished.
LEMMA AnsweredStep == CheckInv /\ CheckAnswered => CheckInv'
<1> SUFFICES ASSUME CheckInv, CheckAnswered PROVE CheckInv'
  OBVIOUS
<1>1. CheckTypes /\ inbox \in Seq(Signals)
  BY DEF CheckInv, CheckTypes
<1>2. PICK n \in Nat : Budget(n)
  BY DEF CheckInv
<1>3. UNCHANGED <<dlg, threads, held, refresh, job, valid, ghost>>
  BY DEF CheckAnswered
<1>4. PICK h : h = Head(inbox)
  OBVIOUS
<1>5. /\ inbox # <<>> /\ inbox' = Tail(inbox) /\ h # "over"
      /\ ai' = [usable |-> h = "valid", label |-> "manage", saw |-> h,
                checked |-> h = "valid" /\ mem[Viewer].tagging = "on"]
  BY <1>4 DEF CheckAnswered
<1>6. /\ inbox' \in Seq(Signals) /\ Len(inbox') = Len(inbox) - 1 /\ Len(inbox) \in Nat \ {0} /\ h = inbox[1]
      /\ \A k \in 1 .. Len(inbox') : inbox'[k] = inbox[k + 1]
      /\ \A k \in 2 .. Len(inbox) : inbox[k] = inbox'[k - 1]
      /\ h \in Signals
  BY <1>1, <1>4, <1>5, HeadTaken
<1>7. ai' \in AiType /\ ai'.label = "manage" /\ ai'.saw = h /\ ai'.usable = (h = "valid")
  BY <1>5, <1>6 DEF AiType, Signals
<1>8. CheckTypes'
  BY <1>1, <1>3, <1>6, <1>7 DEF CheckTypes
<1>9. Budget(n)'
  BY <1>2, <1>3 DEF Budget
<1>10. OneThread' /\ (Told' <=> Told) /\ (Asking' <=> Asking) /\ (IsRunning(held)' <=> IsRunning(held))
  BY <1>3 DEF CheckInv, OneThread, Told, Asking, IsRunning
<1>11. Waits'
  <2>1. (\E k \in 1 .. Len(inbox) : inbox[k] = "over") => \E k \in 1 .. Len(inbox') : inbox'[k] = "over"
    <3> SUFFICES ASSUME NEW k \in 1 .. Len(inbox), inbox[k] = "over"
                 PROVE  \E j \in 1 .. Len(inbox') : inbox'[j] = "over"
      OBVIOUS
    <3>1. k \in 2 .. Len(inbox) /\ k - 1 \in 1 .. Len(inbox')
      BY <1>5, <1>6
    <3> QED BY <1>6, <3>1
  <2> QED BY <1>3, <1>7, <1>10, <2>1 DEF CheckInv, Waits
<1>12. Answers'
  <2>1. ASSUME NEW k \in 1 .. Len(inbox'), IsLast(k)' PROVE IsLast(k + 1) /\ inbox'[k] = inbox[k + 1]
    <3>1. k + 1 \in 1 .. Len(inbox) /\ inbox'[k] = inbox[k + 1]
      BY <1>6
    <3>2. ASSUME NEW j \in k + 2 .. Len(inbox) PROVE inbox[j] = "over"
      <4>1. j - 1 \in k + 1 .. Len(inbox') /\ j \in 2 .. Len(inbox)
        BY <1>6
      <4> QED BY <1>6, <2>1, <4>1 DEF IsLast
    <3>3. inbox[k + 1] # "over"
      BY <2>1, <3>1 DEF IsLast
    <3> QED BY <3>1, <3>2, <3>3 DEF IsLast
  <2>2. (\A k \in 1 .. Len(inbox') : inbox'[k] = "over") => IsLast(1) /\ inbox[1] = h
    <3> SUFFICES ASSUME \A k \in 1 .. Len(inbox') : inbox'[k] = "over" PROVE IsLast(1)
      BY <1>6
    <3>1. ASSUME NEW j \in 2 .. Len(inbox) PROVE inbox[j] = "over"
      <4>1. j - 1 \in 1 .. Len(inbox')
        BY <1>6
      <4> QED BY <1>6, <4>1
    <3> QED BY <1>5, <1>6, <3>1 DEF IsLast
  <2>3. \A a : Fresh(a)' <=> Fresh(a)
    BY <1>3 DEF Fresh
  <2>4. Told /\ ~ghost.unreported /\ ~refresh /\ ~Asking => \A k \in 1 .. Len(inbox) : IsLast(k) => Fresh(inbox[k])
    BY DEF CheckInv, Answers
  <2>5. ASSUME Told, ~ghost.unreported, ~refresh, ~Asking
        PROVE  /\ \A k \in 1 .. Len(inbox') : IsLast(k)' => Fresh(inbox[k])'
               /\ (\A k \in 1 .. Len(inbox') : inbox'[k] = "over") => Fresh(h)'
    <3>1. ASSUME NEW k \in 1 .. Len(inbox'), IsLast(k)' PROVE Fresh(inbox[k])'
      <4>1. PICK a : a = inbox'[k]
        OBVIOUS
      <4>2. IsLast(k + 1) /\ a = inbox[k + 1] /\ k + 1 \in 1 .. Len(inbox)
        BY <2>1, <3>1, <4>1 DEF IsLast
      <4>3. Fresh(a)
        BY <2>4, <2>5, <4>2
      <4> QED BY <1>3, <4>1, <4>3 DEF Fresh
    <3>2. ASSUME \A k \in 1 .. Len(inbox') : inbox'[k] = "over" PROVE Fresh(h)'
      <4>1. Fresh(h)
        BY <1>6, <2>2, <2>4, <2>5, <3>2
      <4> QED BY <2>3, <4>1
    <3> QED BY <3>1, <3>2
  <2>6. Told /\ ~ghost.unreported /\ ~refresh /\ held \in Checks /\ threads[held].at = "read" => Fresh(threads[held].val)
    BY DEF CheckInv, Answers
  <2> QED BY <1>3, <1>7, <1>10, <2>5, <2>6 DEF Answers, Fresh
<1>13. \E m \in Nat : Budget(m)'
  BY <1>9
<1> QED BY <1>8, <1>10, <1>11, <1>12, <1>13 DEF CheckInv

\* _on_model_check_thread_finished.
LEMMA OverStep == CheckInv /\ CheckOver => CheckInv'
<1> SUFFICES ASSUME CheckInv, CheckOver PROVE CheckInv'
  OBVIOUS
<1>1. CheckTypes /\ OneThread /\ inbox \in Seq(Signals)
  BY DEF CheckInv, CheckTypes
<1>2. PICK n \in Nat : Budget(n)
  BY DEF CheckInv
<1>3. UNCHANGED <<job, valid>> /\ inbox # <<>> /\ inbox' = Tail(inbox) /\ Head(inbox) = "over"
  BY DEF CheckOver
<1>4. /\ inbox' \in Seq(Signals) /\ Len(inbox') = Len(inbox) - 1 /\ Len(inbox) \in Nat \ {0} /\ inbox[1] = "over"
      /\ \A k \in 1 .. Len(inbox') : inbox'[k] = inbox[k + 1]
      /\ \A k \in 2 .. Len(inbox) : inbox[k] = inbox'[k - 1]
  BY <1>1, <1>3, HeadTaken
<1>5. PICK d \in BOOLEAN : d = (ghost.dropped \/ IsRunning(held))
  BY <1>1 DEF CheckTypes, GhostType
<1>6. ghost' = [ghost EXCEPT !.dropped = d]
  BY <1>1, <1>5 DEF CheckOver, CheckTypes, GhostType
<1>7. ghost' \in GhostType /\ ghost'.dropped = d /\ ghost'.unreported = ghost.unreported
  BY <1>1, <1>6 DEF CheckTypes, GhostType
<1>8. ASSUME dlg.pending PROVE CheckInv'
  <2>1. held' = NoCheck /\ UNCHANGED <<refresh, ai, threads>>
    BY <1>8 DEF CheckOver
  <2>2. dlg' = [dlg EXCEPT !.visible = FALSE, !.pending = FALSE, !.result = dlg.result] \/ dlg' = dlg
    BY <1>8 DEF CheckOver, FinishPending, Hidden
  <2>3. Dialog(dlg') /\ dlg'.opened = dlg.opened /\ dlg'.jobs = dlg.jobs /\ (~dlg'.visible \/ dlg'.pending)
    BY <1>1, <1>8, <2>2 DEF CheckTypes, Dialog
  <2>4. CheckTypes'
    BY <1>1, <1>3, <1>4, <1>7, <2>1, <2>3 DEF CheckTypes
  <2>5. Budget(n)'
    BY <1>2, <1>3, <2>1, <2>3 DEF Budget
  <2>6. OneThread'
    BY <1>1, <1>5, <1>7, <2>1 DEF OneThread, IsRunning
  <2>7. ~Told'
    BY <2>3 DEF Told
  <2>8. Waits' /\ Answers'
    BY <2>7 DEF Waits, Answers
  <2>9. \E m \in Nat : Budget(m)'
    BY <2>5
  <2> QED BY <2>4, <2>6, <2>8, <2>9 DEF CheckInv
<1>9. ASSUME ~dlg.pending, refresh PROVE CheckInv'
  <2>1. StartCheck(ai) /\ refresh' = FALSE /\ UNCHANGED dlg
    BY <1>9 DEF CheckOver, Repeated
  <2>2. n + (IF job # "none" THEN 1 ELSE 0) + 1 <= dlg.opened + dlg.jobs
    BY <1>2, <1>9 DEF Budget
  <2>3. dlg.opened <= MaxDialogs /\ dlg.jobs <= MaxJobs /\ dlg.opened \in Nat /\ dlg.jobs \in Nat
    BY <1>1, DialogAssumption DEF CheckTypes, Dialog
  <2>4. n < MaxDialogs + MaxJobs
    BY <1>2, <2>2, <2>3, DialogAssumption
  <2>5. ~ghost'.dropped => ~ghost.dropped /\ ~IsRunning(held)
    BY <1>5, <1>7
  <2>6. n + 1 + (IF job' # "none" THEN 1 ELSE 0) + (IF refresh' THEN 1 ELSE 0) <= dlg'.opened + dlg'.jobs
    BY <1>3, <2>1, <2>2, <2>3
  <2> QED BY <1>1, <1>2, <1>3, <1>4, <1>7, <2>1, <2>4, <2>5, <2>6, StartStep DEF CheckTypes
<1>10. ASSUME ~dlg.pending, ~refresh PROVE CheckInv'
  <2>1. held' = NoCheck /\ UNCHANGED <<refresh, ai, threads, dlg>>
    BY <1>10 DEF CheckOver, NotRepeated
  <2>2. CheckTypes'
    BY <1>1, <1>3, <1>4, <1>7, <2>1 DEF CheckTypes
  <2>3. Budget(n)'
    BY <1>2, <1>3, <2>1 DEF Budget
  <2>4. OneThread'
    BY <1>1, <1>5, <1>7, <2>1 DEF OneThread, IsRunning
  <2>5. Told' => Told /\ ~IsRunning(held) /\ ~Asking /\ ~Asking'
    <3>1. NoCheck \notin Checks
      BY DialogAssumption DEF NoCheck, Checks
    <3>2. Told' => Told /\ ~IsRunning(held)
      BY <1>5, <1>7, <2>1 DEF Told
    <3>3. ~IsRunning(held) => ~Asking
      BY <3>1 DEF IsRunning, Asking
    <3>4. ~Asking'
      BY <2>1, <3>1 DEF Asking
    <3> QED BY <3>2, <3>3, <3>4
  <2>6. ASSUME NEW k \in 1 .. Len(inbox), inbox[k] # "over" PROVE k - 1 \in 1 .. Len(inbox') /\ inbox'[k - 1] = inbox[k]
    BY <1>4, <2>6
  <2>7. Waits'
    <3>1. Told => (ai.label = "checking" => Asking \/ \E k \in 1 .. Len(inbox) : inbox[k] # "over")
      BY DEF CheckInv, Waits
    <3>2. Told => (ai.label = "manage" => ai.usable = (ai.saw = "valid"))
      BY DEF CheckInv, Waits
    <3>3. (\E k \in 1 .. Len(inbox) : inbox[k] # "over") => \E k \in 1 .. Len(inbox') : inbox'[k] # "over"
      BY <2>6
    <3> QED BY <1>10, <2>1, <2>5, <3>1, <3>2, <3>3 DEF Waits
  <2>8. Answers'
    <3>1. ASSUME NEW k \in 1 .. Len(inbox'), IsLast(k)' PROVE IsLast(k + 1) /\ inbox'[k] = inbox[k + 1]
      <4>1. k + 1 \in 1 .. Len(inbox) /\ inbox'[k] = inbox[k + 1]
        BY <1>4
      <4>2. ASSUME NEW j \in k + 2 .. Len(inbox) PROVE inbox[j] = "over"
        <5>1. j - 1 \in k + 1 .. Len(inbox') /\ j \in 2 .. Len(inbox)
          BY <1>4
        <5> QED BY <1>4, <3>1, <5>1 DEF IsLast
      <4>3. inbox[k + 1] # "over"
        BY <3>1, <4>1 DEF IsLast
      <4> QED BY <4>1, <4>2, <4>3 DEF IsLast
    <3>2. (\A k \in 1 .. Len(inbox') : inbox'[k] = "over") => \A k \in 1 .. Len(inbox) : inbox[k] = "over"
      BY <2>6
    <3>3. ASSUME Told, ~ghost.unreported, ~Asking
          PROVE  /\ \A k \in 1 .. Len(inbox') : IsLast(k)' => Fresh(inbox[k])'
                 /\ ai.label = "manage" /\ (\A k \in 1 .. Len(inbox) : inbox[k] = "over") => Fresh(ai.saw)
      <4>1. ASSUME NEW k \in 1 .. Len(inbox'), IsLast(k)' PROVE Fresh(inbox[k])'
        <5>1. PICK a : a = inbox'[k]
          OBVIOUS
        <5>2. IsLast(k + 1) /\ a = inbox[k + 1] /\ k + 1 \in 1 .. Len(inbox)
          BY <3>1, <4>1, <5>1 DEF IsLast
        <5>3. Fresh(a)
          BY <1>10, <3>3, <5>2 DEF CheckInv, Answers
        <5> QED BY <1>3, <5>1, <5>3 DEF Fresh
      <4>2. ai.label = "manage" /\ (\A k \in 1 .. Len(inbox) : inbox[k] = "over") => Fresh(ai.saw)
        BY <1>10, <3>3 DEF CheckInv, Answers
      <4> QED BY <4>1, <4>2
    <3>4. held' \notin Checks
      BY <2>1, DialogAssumption DEF NoCheck, Checks
    <3> QED BY <1>3, <1>7, <2>1, <2>5, <3>2, <3>3, <3>4 DEF Answers, Fresh
  <2>9. \E m \in Nat : Budget(m)'
    BY <2>3
  <2> QED BY <2>2, <2>4, <2>7, <2>8, <2>9 DEF CheckInv
<1> QED BY <1>1, <1>8, <1>9, <1>10 DEF CheckTypes

\* ComponentsPanel._finished.
LEMMA JobStep == CheckInv /\ JobEnds => CheckInv'
<1> SUFFICES ASSUME CheckInv, JobEnds PROVE CheckInv'
  OBVIOUS
<1>1. CheckTypes /\ OneThread
  BY DEF CheckInv
<1>2. PICK n \in Nat : Budget(n)
  BY DEF CheckInv
<1>3. /\ job # "none" /\ job' = "none" /\ UNCHANGED <<dlg, inbox>>
  BY DEF JobEnds
<1>4. PICK ok \in BOOLEAN, v \in BOOLEAN :
        /\ valid' = v
        /\ IF Reports(ok) THEN Refreshed ELSE Forgotten
        /\ ghost' = [ghost EXCEPT !.unreported = IF ok THEN FALSE ELSE @ \/ v # valid]
  BY DEF JobEnds
<1>5. PICK u \in BOOLEAN : u = IF ok THEN FALSE ELSE ghost.unreported \/ v # valid
  BY <1>1 DEF CheckTypes, GhostType
<1>6. ghost' = [ghost EXCEPT !.unreported = u]
  BY <1>1, <1>4, <1>5 DEF CheckTypes, GhostType
<1>7. ghost' \in GhostType /\ ghost'.unreported = u /\ ghost'.dropped = ghost.dropped
  BY <1>1, <1>6 DEF CheckTypes, GhostType
<1>8. /\ dlg.opened <= MaxDialogs /\ dlg.jobs <= MaxJobs /\ dlg.opened \in Nat /\ dlg.jobs \in Nat
      /\ n + 1 + (IF refresh THEN 1 ELSE 0) <= dlg.opened + dlg.jobs
  <2>1. dlg.opened <= MaxDialogs /\ dlg.jobs <= MaxJobs /\ dlg.opened \in Nat /\ dlg.jobs \in Nat
    BY <1>1, DialogAssumption DEF CheckTypes, Dialog
  <2> QED BY <1>2, <1>3, <2>1 DEF Budget
<1>9. Told' <=> Told
  BY <1>3, <1>7 DEF Told
<1>10. ASSUME Reports(ok), ~IsRunning(held) PROVE CheckInv'
  <2>1. StartCheck(ai) /\ UNCHANGED refresh
    BY <1>4, <1>10 DEF Refreshed
  <2>2. /\ n < MaxDialogs + MaxJobs
        /\ n + 1 + (IF job' # "none" THEN 1 ELSE 0) + (IF refresh' THEN 1 ELSE 0) <= dlg'.opened + dlg'.jobs
    BY <1>2, <1>3, <1>8, <2>1, DialogAssumption
  <2>3. Dialog(dlg') /\ ai \in AiType /\ inbox' \in Seq(Signals) /\ refresh' \in BOOLEAN /\ valid' \in BOOLEAN
    BY <1>1, <1>3, <1>4, <2>1 DEF CheckTypes
  <2> QED BY <1>1, <1>2, <1>3, <1>7, <1>10, <2>1, <2>2, <2>3, StartStep
<1>11. ASSUME ~(Reports(ok) /\ ~IsRunning(held)) PROVE CheckInv'
  <2>1. UNCHANGED <<ai, threads, held>> /\ refresh' \in {refresh, TRUE}
    BY <1>4, <1>11 DEF Refreshed, Forgotten
  <2>2. CheckTypes'
    BY <1>1, <1>3, <1>4, <1>7, <2>1 DEF CheckTypes
  <2>3. Budget(n)'
    BY <1>2, <1>3, <1>8, <2>1 DEF Budget
  <2>4. OneThread'
    BY <1>1, <1>7, <2>1 DEF OneThread, IsRunning
  <2>5. refresh' => refresh \/ IsRunning(held)
    BY <1>4, <1>11 DEF Refreshed, Forgotten
  <2>6. Waits'
    BY <1>3, <1>9, <2>1, <2>5 DEF CheckInv, Waits, IsRunning, Asking
  <2>7. Told /\ ~ghost'.unreported /\ ~refresh' => valid' = valid /\ ~ghost.unreported /\ ~refresh
    <3>1. CASE ok
      <4>1. Told => Reports(ok)
        BY <3>1 DEF Told, Reports
      <4>2. Reports(ok) => refresh' = TRUE
        BY <1>4, <1>11 DEF Refreshed
      <4> QED BY <4>1, <4>2
    <3>2. CASE ~ok
      <4>1. ~Reports(ok)
        BY <3>2 DEF Reports
      <4> QED BY <1>4, <1>5, <1>7, <3>2, <4>1 DEF Forgotten
    <3> QED BY <3>1, <3>2
  <2>8. Answers'
    BY <1>3, <1>9, <2>1, <2>7 DEF CheckInv, Answers, Asking, IsLast, Fresh
  <2>9. \E m \in Nat : Budget(m)'
    BY <2>3
  <2> QED BY <2>2, <2>4, <2>6, <2>8, <2>9 DEF CheckInv
<1> QED BY <1>10, <1>11

\* At the start there is no dialog and no thread is used.
LEMMA CheckInit == DesktopInit => CheckInv
<1> SUFFICES ASSUME DesktopInit PROVE CheckInv
  OBVIOUS
<1>1. DialogInit
  BY DEF DesktopInit
<1>2. Checks \subseteq Nat \ {0} /\ NoCheck = 0
  BY DialogAssumption DEF Checks, NoCheck
<1>3. /\ Dialog(dlg) /\ dlg.visible = FALSE /\ dlg.opened = 0 /\ dlg.jobs = 0
  BY <1>1, DialogAssumption DEF DialogInit, NoDialog, Dialog
<1>4. CheckTypes
  <2>1. <<>> \in Seq(Signals)
    BY EmptySeq
  <2>2. ai \in AiType /\ ghost \in GhostType
    BY <1>1 DEF DialogInit, AiType, GhostType
  <2>3. threads \in [Checks -> ThreadType] /\ \A i \in Checks : threads[i].at = "read" => threads[i].val # "none"
    BY <1>1 DEF DialogInit, ThreadType
  <2> QED BY <1>1, <1>3, <2>1, <2>2, <2>3 DEF DialogInit, CheckTypes
<1>5. Budget(0)
  BY <1>1, <1>2, <1>3 DEF DialogInit, Budget
<1>6. OneThread
  BY <1>1 DEF DialogInit, OneThread, IsRunning
<1>7. Waits /\ Answers
  BY <1>3 DEF Waits, Answers, Told
<1>8. \E n \in Nat : Budget(n)
  BY <1>5
<1> QED BY <1>4, <1>6, <1>7, <1>8 DEF CheckInv

\* Every step of the desktop keeps the checks in order.
LEMMA CheckNext == CheckInv /\ [DesktopNext]_desktopVars => CheckInv'
<1> SUFFICES ASSUME CheckInv, [DesktopNext]_desktopVars PROVE CheckInv'
  OBVIOUS
<1>1. CASE UNCHANGED dialogVars
  <2>1. CheckTypes'
    BY <1>1 DEF CheckInv, CheckTypes, Dialog, dialogVars
  <2>2. PICK n \in Nat : Budget(n)
    BY DEF CheckInv
  <2>3. Budget(n)'
    BY <1>1, <2>2 DEF Budget, dialogVars
  <2>4. OneThread' /\ Waits' /\ Answers'
    BY <1>1 DEF CheckInv, OneThread, Waits, Answers, dialogVars, Told, IsRunning, Asking, IsLast, Fresh
  <2>5. \E m \in Nat : Budget(m)'
    BY <2>3
  <2> QED BY <2>1, <2>4, <2>5 DEF CheckInv
<1>2. CASE DialogNext
  BY <1>1, <1>2, UserStep, OpenStep, ThreadStep, AnsweredStep, OverStep, JobStep DEF DialogNext
<1> QED BY <1>1, <1>2 DEF DesktopNext, desktopVars, vars

\* Threads, signals and jobs agree in every reachable state on what the dialog will say.
THEOREM CheckInvariance == DesktopSpec => []CheckInv
BY CheckInit, CheckNext, PTL DEF DesktopSpec

\* For any number of dialogs and jobs: when nothing runs any more an open dialog shows
\* whether the model in the store is usable, or that the check failed.
THEOREM StatusIsFresh == DesktopSpec => []FreshStatus
<1>1. CheckInv => FreshStatus
  <2> SUFFICES ASSUME CheckInv, dlg.visible, Quiet, ~dlg.pending, ~ghost.unreported, ~ghost.dropped
               PROVE  ai.label = "manage" /\ ~refresh /\ (ai.saw = "failed" \/ ai.usable = valid)
    BY DEF FreshStatus
  <2>1. Told /\ CheckTypes
    BY DEF Told, CheckInv
  <2>2. Len(inbox) = 0
    BY EmptySeq DEF Quiet
  <2>3. ~IsRunning(held) /\ ~Asking
    <3>1. NoCheck \notin Checks
      BY DialogAssumption DEF NoCheck, Checks
    <3>2. ~IsRunning(held)
      BY <2>1 DEF Quiet, IsRunning, CheckTypes
    <3> QED BY <3>1, <3>2 DEF IsRunning, Asking
  <2>4. ~refresh
    BY <2>1, <2>2, <2>3 DEF CheckInv, Waits
  <2>5. ai.label = "manage" /\ ai.usable = (ai.saw = "valid")
    BY <2>1, <2>2, <2>3 DEF CheckInv, Waits, CheckTypes, AiType
  <2>6. Fresh(ai.saw)
    BY <2>1, <2>2, <2>3, <2>4, <2>5 DEF CheckInv, Answers
  <2> QED BY <2>4, <2>5, <2>6 DEF Fresh
<1> QED BY <1>1, CheckInvariance, PTL
-----------------------------------------------------------------------------
(* SettingsStore and SettingsDialog: what is written, kept and shown.       *)

\* Every set of numbers that is not empty has a least one: the form in which the
\* provers can use induction.
LEMMA LeastNumber ==
  ASSUME NEW T, T \subseteq Nat, T # {}
  PROVE  \E x \in T : \A y \in T : x <= y
<1> DEFINE R == {ss \in Nat \X Nat : ss[1] < ss[2]}
<1>1. IsWellFoundedOn(R, Nat)
  BY NatLessThanWellFounded DEF OpToRel
<1>2. PICK x \in T : \A y \in T : ~ (<<y, x>> \in R)
  <2> HIDE DEF R
  <2> QED BY <1>1, WFMin
<1>3. \A y \in T : ~ (y < x)
  BY <1>2
<1> QED BY <1>3

\* f is the recursion of Rows, for the first m rows.
KeptBy(rows, m, f) == f = [n \in 0 .. m |-> IF n = 0 THEN <<>> ELSE KeepFirst(f[n - 1], rows[n])]

\* The recursion of Rows has a solution for every list of rows.
LEMMA RowsDefined == ASSUME NEW rows, NEW l \in Nat PROVE \E f : KeptBy(rows, l, f)
<1> DEFINE Missing == {m \in Nat : ~\E f : KeptBy(rows, m, f)}
<1>1. ASSUME NEW m \in Missing, \A y \in Missing : m <= y PROVE FALSE
  <2>1. CASE m = 0
    <3> DEFINE f == [n \in 0 .. 0 |-> <<>>]
    <3>1. f = [n \in 0 .. 0 |-> IF n = 0 THEN <<>> ELSE KeepFirst(f[n - 1], rows[n])]
      OBVIOUS
    <3>2. KeptBy(rows, m, f)
      BY <2>1, <3>1 DEF KeptBy
    <3> QED BY <3>2
  <2>2. CASE m # 0
    <3>1. m - 1 \in Nat /\ m - 1 \notin Missing
      BY <1>1, <2>2
    <3>2. PICK f : KeptBy(rows, m - 1, f)
      BY <3>1
    <3> DEFINE g == [n \in 0 .. m |-> IF n = m THEN KeepFirst(f[m - 1], rows[m]) ELSE f[n]]
    <3>3. g = [n \in 0 .. m |-> IF n = 0 THEN <<>> ELSE KeepFirst(g[n - 1], rows[n])]
      <4> DEFINE h == [n \in 0 .. m |-> IF n = 0 THEN <<>> ELSE KeepFirst(g[n - 1], rows[n])]
      <4>1. \A n \in 0 .. m : g[n] = h[n]
        <5> TAKE n \in 0 .. m
        <5>1. CASE n = m
          <6>1. g[m - 1] = f[m - 1] /\ g[n] = KeepFirst(f[m - 1], rows[m])
            BY <5>1, <3>1
          <6> QED BY <2>2, <5>1, <6>1
        <5>2. CASE n # m
          <6>1. n \in 0 .. m - 1 /\ g[n] = f[n]
            BY <5>2
          <6>2. f[n] = IF n = 0 THEN <<>> ELSE KeepFirst(f[n - 1], rows[n])
            BY <3>2, <6>1 DEF KeptBy
          <6>3. n # 0 => g[n - 1] = f[n - 1]
            BY <6>1
          <6> QED BY <6>1, <6>2, <6>3
        <5> QED BY <5>1, <5>2
      <4> HIDE DEF h
      <4>2. h = [n \in 0 .. m |-> h[n]]
        BY DEF h
      <4>3. g = [n \in 0 .. m |-> g[n]]
        OBVIOUS
      <4> HIDE DEF g
      <4>4. g = h
        BY <4>1, <4>2, <4>3
      <4> QED BY <4>4 DEF h
    <3> HIDE DEF g
    <3>4. KeptBy(rows, m, g)
      BY <3>3 DEF KeptBy
    <3> QED BY <3>4
  <2> QED BY <2>1, <2>2
<1>2. Missing = {}
  <2> HIDE DEF Missing
  <2>1. Missing \subseteq Nat
    BY DEF Missing
  <2> QED BY <1>1, <2>1, LeastNumber
<1> QED BY <1>2

\* So Rows takes the rows one after the other.
LEMMA RowsAre ==
  ASSUME NEW rows, Len(rows) \in Nat
  PROVE  \E f : KeptBy(rows, Len(rows), f) /\ Rows(rows) = f[Len(rows)]
<1> DEFINE kept == CHOOSE f : f = [n \in 0 .. Len(rows) |-> IF n = 0 THEN <<>> ELSE KeepFirst(f[n - 1], rows[n])]
<1>1. Rows(rows) = kept[Len(rows)]
  BY DEF Rows
<1>2. KeptBy(rows, Len(rows), kept)
  BY RowsDefined DEF KeptBy
<1> QED BY <1>1, <1>2

\* Rows that have each key once.
Distinct(rows) == \A i, j \in DOMAIN rows : rows[i].key = rows[j].key => i = j

\* A row that is kept has a clean key that no row before it has.
LEMMA KeepFirstIs ==
  ASSUME NEW rows \in Seq(CleanRow), Distinct(rows), NEW row \in Row
  PROVE  KeepFirst(rows, row) \in Seq(CleanRow) /\ Distinct(KeepFirst(rows, row))
<1> DEFINE one == Cleaned(row)
<1>1. CASE Clean[row.key] \notin Single \/ Taken(rows, Clean[row.key])
  BY <1>1 DEF KeepFirst
<1>2. CASE Clean[row.key] \in Single /\ ~Taken(rows, Clean[row.key])
  <2>1. one \in CleanRow /\ KeepFirst(rows, row) = Append(rows, one)
    BY <1>2 DEF KeepFirst, Cleaned, CleanRow, Row, Valid, Folders
  <2>2. \A i \in DOMAIN rows : rows[i].key # one.key
    BY <1>2 DEF Taken, Cleaned
  <2> HIDE DEF one
  <2>3. PICK r : r = Append(rows, one)
    OBVIOUS
  <2>4. /\ r \in Seq(CleanRow) /\ Len(r) = Len(rows) + 1 /\ Len(rows) \in Nat /\ DOMAIN r = 1 .. Len(r)
        /\ DOMAIN rows = 1 .. Len(rows) /\ r[Len(rows) + 1] = one
        /\ \A i \in 1 .. Len(rows) : r[i] = rows[i]
    BY <2>1, <2>3, AppendProperties, LenProperties
  <2>5. Distinct(r)
    <3> SUFFICES ASSUME NEW i \in DOMAIN r, NEW j \in DOMAIN r, r[i].key = r[j].key PROVE i = j
      BY DEF Distinct
    <3>1. CASE i \in DOMAIN rows /\ j \in DOMAIN rows
      BY <2>4, <3>1 DEF Distinct
    <3>2. CASE i \notin DOMAIN rows /\ j \in DOMAIN rows
      BY <2>2, <2>4, <3>2
    <3>3. CASE i \in DOMAIN rows /\ j \notin DOMAIN rows
      BY <2>2, <2>4, <3>3
    <3>4. CASE i \notin DOMAIN rows /\ j \notin DOMAIN rows
      BY <2>4, <3>4
    <3> QED BY <3>1, <3>2, <3>3, <3>4
  <2> QED BY <2>1, <2>3, <2>4, <2>5
<1> QED BY <1>1, <1>2

\* The first m rows leave a row of every key that may be one: the first they have.
LeavesFirsts(rows, m, r) ==
  {r[i] : i \in DOMAIN r} = {Cleaned(rows[j]) : j \in {k \in Firsts(rows) : k <= m}}

\* The next row is kept if it is the first with its key, and only then.
LEMMA FirstIsKept ==
  ASSUME NEW rows \in Seq(Row), NEW m \in DOMAIN rows,
         NEW r \in Seq(CleanRow), LeavesFirsts(rows, m - 1, r)
  PROVE  LeavesFirsts(rows, m, KeepFirst(r, rows[m]))
<1> DEFINE key(j)  == Clean[rows[j].key]
           upto(n) == {k \in Firsts(rows) : k <= n}
<1>1. DOMAIN rows = 1 .. Len(rows) /\ Len(rows) \in Nat /\ m \in Nat \ {0} /\ Firsts(rows) \subseteq DOMAIN rows
  BY LenProperties DEF Firsts
<1>2. \A j : Cleaned(rows[j]).key = key(j)
  BY DEF Cleaned
<1>3. ASSUME m \in Firsts(rows) PROVE LeavesFirsts(rows, m, KeepFirst(r, rows[m]))
  <2>1. key(m) \in Single /\ \A k \in 1 .. m - 1 : key(k) # key(m)
    BY <1>3 DEF Firsts
  <2>2. ~Taken(r, key(m))
    <3> SUFFICES ASSUME NEW i \in DOMAIN r PROVE r[i].key # key(m)
      BY DEF Taken
    <3>1. PICK j \in upto(m - 1) : r[i] = Cleaned(rows[j])
      BY DEF LeavesFirsts
    <3>2. j \in 1 .. m - 1
      BY <1>1, <3>1
    <3> QED BY <1>2, <2>1, <3>1, <3>2
  <2>3. KeepFirst(r, rows[m]) = Append(r, Cleaned(rows[m]))
    BY <2>1, <2>2 DEF KeepFirst
  <2>4. PICK one : one = Cleaned(rows[m])
    OBVIOUS
  <2>5. PICK q : q = Append(r, one)
    OBVIOUS
  <2>6. /\ one \in CleanRow
    <3>1. rows[m] \in Row
      BY ElementOfSeq, <1>1
    <3> QED BY <2>1, <2>4, <3>1 DEF Cleaned, CleanRow, Row, Valid, Folders
  <2>7. /\ DOMAIN r = 1 .. Len(r) /\ Len(r) \in Nat /\ DOMAIN q = 1 .. Len(r) + 1
        /\ q[Len(r) + 1] = one /\ \A i \in 1 .. Len(r) : q[i] = r[i]
    BY <2>5, <2>6, AppendProperties, LenProperties
  <2>8. {q[i] : i \in DOMAIN q} = {r[i] : i \in DOMAIN r} \cup {one}
    <3>1. DOMAIN q = DOMAIN r \cup {Len(r) + 1}
      BY <2>7
    <3>2. {q[i] : i \in DOMAIN q} = {q[i] : i \in DOMAIN r} \cup {q[Len(r) + 1]}
      BY <3>1
    <3>3. {q[i] : i \in DOMAIN r} = {r[i] : i \in DOMAIN r}
      BY <2>7
    <3> QED BY <2>7, <3>2, <3>3
  <2>9. upto(m) = upto(m - 1) \cup {m}
    BY <1>1, <1>3
  <2>10. {Cleaned(rows[j]) : j \in upto(m)} = {Cleaned(rows[j]) : j \in upto(m - 1)} \cup {one}
    BY <2>4, <2>9
  <2>11. {r[i] : i \in DOMAIN r} = {Cleaned(rows[j]) : j \in upto(m - 1)}
    BY DEF LeavesFirsts
  <2>12. {q[i] : i \in DOMAIN q} = {Cleaned(rows[j]) : j \in upto(m)}
    <3> HIDE DEF upto
    <3> QED BY <2>8, <2>10, <2>11
  <2>13. LeavesFirsts(rows, m, q)
    BY <2>12 DEF LeavesFirsts
  <2> QED BY <2>3, <2>4, <2>5, <2>13
<1>4. ASSUME m \notin Firsts(rows) PROVE LeavesFirsts(rows, m, KeepFirst(r, rows[m]))
  <2>1. ASSUME NEW k \in 1 .. m - 1, key(k) = key(m), key(m) \in Single PROVE Taken(r, key(m))
    <3> DEFINE same == {j \in 1 .. m - 1 : key(j) = key(m)}
    <3>1. same \subseteq Nat /\ same # {}
      BY <1>1, <2>1
    <3> HIDE DEF same
    <3>2. PICK j \in same : \A y \in same : j <= y
      BY <3>1, LeastNumber
    <3>3. j \in 1 .. m - 1 /\ key(j) = key(m) /\ \A y \in 1 .. j - 1 : key(y) # key(m)
      BY <1>1, <3>2 DEF same
    <3>4. j \in upto(m - 1)
      BY <1>1, <2>1, <3>3 DEF Firsts
    <3>5. PICK i \in DOMAIN r : r[i] = Cleaned(rows[j])
      BY <3>4 DEF LeavesFirsts
    <3> QED BY <1>2, <3>3, <3>5 DEF Taken
  <2>2. key(m) \notin Single \/ \E k \in 1 .. m - 1 : key(k) = key(m)
    BY <1>4 DEF Firsts
  <2>3. KeepFirst(r, rows[m]) = r
    BY <2>1, <2>2 DEF KeepFirst
  <2>4. upto(m) = upto(m - 1)
    BY <1>1, <1>4
  <2> QED BY <2>3, <2>4 DEF LeavesFirsts
<1> QED BY <1>3, <1>4

\* What a repair leaves of any rows: clean keys, each once, and with the first row of
\* the key.
LEMMA RowsAreClean ==
  ASSUME NEW rows \in Seq(Row)
  PROVE  /\ Rows(rows) \in Seq(CleanRow) /\ Distinct(Rows(rows))
         /\ {Rows(rows)[i] : i \in DOMAIN Rows(rows)} = {Cleaned(rows[j]) : j \in Firsts(rows)}
<1> DEFINE Good(m, r) == r \in Seq(CleanRow) /\ Distinct(r) /\ LeavesFirsts(rows, m, r)
<1>1. Len(rows) \in Nat /\ DOMAIN rows = 1 .. Len(rows) /\ \A i \in 1 .. Len(rows) : rows[i] \in Row
  BY LenProperties, ElementOfSeq
<1>2. PICK f : KeptBy(rows, Len(rows), f) /\ Rows(rows) = f[Len(rows)]
  BY <1>1, RowsAre
<1> DEFINE Wrong == {m \in 0 .. Len(rows) : ~Good(m, f[m])}
<1>3. ASSUME NEW m \in Wrong, \A y \in Wrong : m <= y PROVE FALSE
  <2>1. CASE m = 0
    <3>1. f[m] = <<>>
      BY <1>1, <1>2, <2>1 DEF KeptBy
    <3>2. <<>> \in Seq(CleanRow) /\ Distinct(<<>>) /\ DOMAIN <<>> = {}
      BY EmptySeq DEF Distinct
    <3>3. {k \in Firsts(rows) : k <= 0} = {}
      BY <1>1 DEF Firsts
    <3>4. LeavesFirsts(rows, 0, <<>>)
      BY <3>2, <3>3 DEF LeavesFirsts
    <3> QED BY <1>3, <2>1, <3>1, <3>2, <3>4
  <2>2. CASE m # 0
    <3>1. m - 1 \in 0 .. Len(rows) /\ m \in 1 .. Len(rows) /\ m - 1 \notin Wrong
      BY <1>1, <1>3, <2>2
    <3>2. Good(m - 1, f[m - 1])
      BY <3>1
    <3>3. f[m] = KeepFirst(f[m - 1], rows[m])
      BY <1>2, <2>2, <3>1 DEF KeptBy
    <3>4. rows[m] \in Row /\ m \in DOMAIN rows
      BY <1>1, <3>1
    <3>5. KeepFirst(f[m - 1], rows[m]) \in Seq(CleanRow) /\ Distinct(KeepFirst(f[m - 1], rows[m]))
      BY <3>2, <3>4, KeepFirstIs
    <3>6. LeavesFirsts(rows, m, KeepFirst(f[m - 1], rows[m]))
      BY <3>2, <3>4, FirstIsKept
    <3> QED BY <1>3, <3>3, <3>5, <3>6
  <2> QED BY <2>1, <2>2
<1>4. Wrong = {}
  <2>1. Wrong \subseteq Nat
    BY <1>1
  <2> HIDE DEF Wrong
  <2> QED BY <1>3, <2>1, LeastNumber
<1>5. Len(rows) \in 0 .. Len(rows) /\ {k \in Firsts(rows) : k <= Len(rows)} = Firsts(rows)
  BY <1>1 DEF Firsts
<1>6. Good(Len(rows), f[Len(rows)])
  BY <1>4, <1>5
<1>7. LeavesFirsts(rows, Len(rows), Rows(rows)) /\ Rows(rows) \in Seq(CleanRow) /\ Distinct(Rows(rows))
  BY <1>2, <1>6
<1> QED BY <1>5, <1>7 DEF LeavesFirsts

\* A repair drops no row of those that have different clean keys, each one that may be.
LEMMA RowsAreKept ==
  ASSUME NEW rows \in Seq(Row), \A i \in DOMAIN rows : Clean[rows[i].key] \in Single,
         \A i, j \in DOMAIN rows : Clean[rows[i].key] = Clean[rows[j].key] => i = j
  PROVE  Rows(rows) = [i \in DOMAIN rows |-> Cleaned(rows[i])]
<1> DEFINE one(i) == Cleaned(rows[i])
           first(m) == [i \in 1 .. m |-> one(i)]
<1>1. Len(rows) \in Nat /\ DOMAIN rows = 1 .. Len(rows) /\ \A i \in 1 .. Len(rows) : rows[i] \in Row
  BY LenProperties, ElementOfSeq
<1>2. PICK f : KeptBy(rows, Len(rows), f) /\ Rows(rows) = f[Len(rows)]
  BY <1>1, RowsAre
<1> DEFINE Wrong == {m \in 0 .. Len(rows) : f[m] # first(m)}
<1>3. ASSUME NEW m \in Wrong, \A y \in Wrong : m <= y PROVE FALSE
  <2>1. CASE m = 0
    <3>1. f[m] = <<>>
      BY <1>1, <1>2, <2>1 DEF KeptBy
    <3>2. first(m) = <<>>
      BY <2>1
    <3> QED BY <1>3, <3>1, <3>2
  <2>2. CASE m # 0
    <3>1. m - 1 \in 0 .. Len(rows) /\ m \in 1 .. Len(rows) /\ m - 1 \notin Wrong
      <4>1. m \in 0 .. Len(rows)
        BY <1>3
      <4> HIDE DEF Wrong
      <4>2. m - 1 \notin Wrong
        BY <1>3, <4>1
      <4> QED BY <1>1, <2>2, <4>1, <4>2
    <3>2. f[m - 1] = first(m - 1)
      BY <3>1
    <3>3. f[m] = KeepFirst(f[m - 1], rows[m])
      BY <1>2, <2>2, <3>1 DEF KeptBy
    <3>5. \A i \in 1 .. m - 1 : one(i).key = Clean[rows[i].key]
      BY DEF Cleaned
    <3>7. ~Taken(first(m - 1), Clean[rows[m].key])
      <4>1. \A i \in 1 .. m - 1 : Clean[rows[i].key] # Clean[rows[m].key]
        BY <1>1, <3>1
      <4> QED BY <3>5, <4>1 DEF Taken
    <3>8. Clean[rows[m].key] \in Single
      BY <1>1, <3>1
    <3>9. f[m] = Append(first(m - 1), one(m))
      BY <3>2, <3>3, <3>7, <3>8 DEF KeepFirst
    <3>10. Append(first(m - 1), one(m)) = first(m)
      <4> HIDE DEF one
      <4>1. m \in Nat /\ m # 0
        BY <3>1
      <4> QED BY <4>1
    <3> QED BY <1>3, <3>9, <3>10
  <2> QED BY <2>1, <2>2
<1>4. Wrong = {}
  <2>1. Wrong \subseteq Nat
    BY <1>1
  <2> HIDE DEF Wrong
  <2> QED BY <1>3, <2>1, LeastNumber
<1>5. Rows(rows) = first(Len(rows))
  <2>1. Len(rows) \in 0 .. Len(rows)
    BY <1>1
  <2> QED BY <1>2, <1>4, <2>1
<1> QED BY <1>1, <1>5

\* Stages of a start, and forms.
Stages == {"off", "open", "create", "rewrite", "backup", "up", "failed"}
AnyForm == [view : {"default", "chosen"}, rows : Seq(Row)]
\* What the program keeps and writes.
Kept == {c \in Settings : Distinct(c.rows)}

\* What is fit to be kept may also be read.
LEMMA KeptIsRead == Kept \subseteq Legible /\ Seq(CleanRow) \subseteq Seq(Row)
<1>1. CleanRow \subseteq Row
  BY DEF CleanRow, Row, Single, Keys, Folders
<1>2. ASSUME NEW s \in Seq(CleanRow) PROVE s \in Seq(Row)
  <2>1. /\ Len(s) \in Nat /\ s \in [1 .. Len(s) -> CleanRow]
    BY LenProperties
  <2>2. s \in [1 .. Len(s) -> Row]
    BY <1>1, <2>1
  <2> QED BY <2>1, <2>2, SeqDef
<1>3. ASSUME NEW c \in Kept PROVE c \in Legible
  <2>1. c \in [view : {"default", "chosen"}, tagging : {"on", "off"}, rows : Seq(CleanRow), extra : BOOLEAN]
    BY DEF Kept, Settings
  <2>2. c.rows \in Seq(Row)
    BY <1>2, <2>1
  <2> QED BY <2>1, <2>2 DEF Legible
<1> QED BY <1>2, <1>3

\* What a repair returns is fit to be kept, and has what is legible.
LEMMA RepairIsKept == ASSUME NEW c \in Legible PROVE Repair(c) \in Kept /\ KeptOf(c, Repair(c))
<1>1. c.rows \in Seq(Row)
  BY DEF Legible
<1>2. PICK r : r = Rows(c.rows)
  OBVIOUS
<1>3. /\ r \in Seq(CleanRow) /\ Distinct(r)
      /\ {r[i] : i \in DOMAIN r} = {Cleaned(c.rows[j]) : j \in Firsts(c.rows)}
  BY <1>1, <1>2, RowsAreClean
<1>4. Repair(c) = [view    |-> IF c.view \in {"bad", "unset"} THEN "default" ELSE c.view,
                   tagging |-> IF c.tagging = "bad" THEN "off" ELSE c.tagging,
                   rows    |-> r, extra |-> c.extra]
  <2>1. PICK v : v = IF c.view \in {"bad", "unset"} THEN "default" ELSE c.view
    OBVIOUS
  <2>2. PICK t : t = IF c.tagging = "bad" THEN "off" ELSE c.tagging
    OBVIOUS
  <2>3. Repair(c) = [c EXCEPT !.view = v, !.tagging = t, !.rows = r]
    BY <1>2, <2>1, <2>2 DEF Repair
  <2> QED BY <2>1, <2>2, <2>3 DEF Legible
<1>5. Repair(c) \in Settings
  BY <1>3, <1>4 DEF Legible, Settings
<1>6. KeptOf(c, Repair(c))
  <2>1. /\ Repair(c).view = IF c.view \in {"bad", "unset"} THEN "default" ELSE c.view
        /\ Repair(c).tagging = IF c.tagging = "bad" THEN "off" ELSE c.tagging
        /\ Repair(c).rows = r /\ Repair(c).extra = c.extra
    BY <1>4
  <2>2. {Repair(c).rows[i] : i \in DOMAIN Repair(c).rows} = {Cleaned(c.rows[j]) : j \in Firsts(c.rows)}
    BY <1>3, <2>1
  <2> QED BY <2>1, <2>2 DEF KeptOf
<1> QED BY <1>3, <1>4, <1>5, <1>6 DEF Kept

\* What is fit to be kept needs no repair, unless a folder became a file.
LEMMA KeptNeedsNoRepair == ASSUME NEW c \in Kept, folder # "file" PROVE Repair(c) = c
<1>1. c \in [view : {"default", "chosen"}, tagging : {"on", "off"}, rows : Seq(CleanRow), extra : BOOLEAN]
  BY DEF Kept, Settings
<1>2. PICK rows : rows = c.rows
  OBVIOUS
<1>3. rows \in Seq(CleanRow) /\ rows \in Seq(Row) /\ Distinct(rows)
  BY <1>1, <1>2, KeptIsRead DEF Kept
<1>4. \A i \in DOMAIN rows : rows[i] \in CleanRow
  BY <1>3, ElementOfSeq, LenProperties
<1>5. \A i \in DOMAIN rows : Clean[rows[i].key] = rows[i].key /\ Clean[rows[i].key] \in Single
  <2>1. \A k \in Single : Clean[k] = k
    BY DEF Single, Clean
  <2> QED BY <1>4, <2>1 DEF CleanRow
<1>6. \A i \in DOMAIN rows : Cleaned(rows[i]) = rows[i]
  BY <1>4, <1>5 DEF Cleaned, Valid, CleanRow
<1>7. Rows(rows) = [i \in DOMAIN rows |-> Cleaned(rows[i])]
  BY <1>3, <1>5, RowsAreKept DEF Distinct
<1>8. Rows(rows) = rows
  <2>1. rows = [i \in DOMAIN rows |-> rows[i]]
    BY <1>3, LenProperties
  <2> QED BY <1>6, <1>7, <2>1
<1> QED BY <1>1, <1>2, <1>8 DEF Repair

\* What a written file holds is what was written.
LEMMA HeldIs == \A c : Holds(c).kind = "settings" /\ Holds(c).c = c
BY DEF Holds

\* What the windows hold and the program has written is fit to be kept; who changed
\* the file last is up and holds what it wrote.
SettingsInv ==
  /\ file.kind \in {"absent", "corrupt", "settings"}
  /\ by \in {"user", "startup", "gone"} \cup Windows
  /\ folder \in {"dir", "file", "gone"}
  /\ win \in [Windows -> Stages] /\ mem \in [Windows -> Kept]
  /\ file.kind = "settings" => file.c \in Legible /\ (by # "user" => file.c \in Kept)
  /\ \A w \in Windows : by = w => win[w] = "up" /\ mem[w] = file.c

\* The defaults, and the settings of an earlier version, are fit to be kept.
LEMMA DefaultIsKept == Default \in Kept /\ Earlier \in Kept
<1>1. <<>> \in Seq(CleanRow) /\ Distinct(<<>>)
  BY EmptySeq DEF Distinct
<1> QED BY <1>1 DEF Default, Earlier, Kept, Settings

\* A window that saves holds what it has written, or neither file nor memory changed.
LEMMA ApplyKeeps ==
  ASSUME SettingsInv, NEW w \in Windows, win[w] = "up", NEW ok \in BOOLEAN, NEW c \in Legible, Apply(w, ok, c)
  PROVE  SettingsInv' /\ win' = win /\ folder' = folder /\ (ok => mem'[w] = Repair(c)) /\ (~ok => mem' = mem)
<1>1. UNCHANGED <<backups, folder, win>>
  BY DEF Apply
<1>2. PICK r : r = Repair(c)
  OBVIOUS
<1>3. r \in Kept /\ r \in Legible
  BY <1>2, RepairIsKept, KeptIsRead
<1>4. CASE ok
  <2>1. file' = Holds(r) /\ by' = w /\ mem' = [mem EXCEPT ![w] = r]
    BY <1>2, <1>4 DEF Apply, Persist, Publish
  <2>2. file'.kind = "settings" /\ file'.c = r
    BY <2>1, HeldIs
  <2>3. mem' \in [Windows -> Kept] /\ mem'[w] = r
    BY <1>3, <2>1 DEF SettingsInv
  <2> QED BY <1>1, <1>2, <1>3, <1>4, <2>1, <2>2, <2>3 DEF SettingsInv
<1>5. CASE ~ok
  <2>1. UNCHANGED <<file, by, mem>>
    BY <1>5 DEF Apply, NotPersisted, Publish
  <2> QED BY <1>1, <1>5, <2>1 DEF SettingsInv
<1> QED BY <1>4, <1>5

\* A window that starts keeps it.
LEMMA StartKeeps == ASSUME SettingsInv, NEW w \in Windows, StoreStep(w) PROVE SettingsInv'
<1>1. by = w => win[w] = "up"
  BY DEF SettingsInv
<1>2. ASSUME Start(w) \/ Unreadable(w) \/ ReadCorrupt(w) PROVE SettingsInv'
  <2>1. UNCHANGED <<file, by, folder, mem>> /\ win[w] # "up"
    BY <1>2 DEF Start, Unreadable, ReadCorrupt
  <2>2. win' \in [Windows -> Stages] /\ \A v \in Windows : v # w => win'[v] = win[v]
    BY <1>2 DEF Start, Unreadable, ReadCorrupt, SettingsInv, Stages
  <2> QED BY <1>1, <2>1, <2>2 DEF SettingsInv
<1>3. ASSUME Read(w) PROVE SettingsInv'
  <2>1. PICK r : r = Repair(file.c)
    OBVIOUS
  <2>2. r \in Kept
    BY <1>3, <2>1, RepairIsKept DEF Read, SettingsInv
  <2>3. /\ UNCHANGED <<file, by, folder>> /\ win[w] # "up" /\ mem' = [mem EXCEPT ![w] = r]
        /\ win' = [win EXCEPT ![w] = IF Modified(file.c) THEN "rewrite" ELSE "up"]
    BY <1>3, <2>1 DEF Read
  <2>4. win' \in [Windows -> Stages] /\ \A v \in Windows : v # w => win'[v] = win[v]
    BY <2>3 DEF SettingsInv, Stages
  <2>5. mem' \in [Windows -> Kept] /\ \A v \in Windows : v # w => mem'[v] = mem[v]
    BY <2>2, <2>3 DEF SettingsInv
  <2> QED BY <1>1, <2>3, <2>4, <2>5 DEF SettingsInv
<1>4. ASSUME SaveAtStart(w) PROVE SettingsInv'
  <2>1. win[w] \in {"create", "rewrite"} /\ UNCHANGED <<folder, mem>>
    BY <1>4 DEF SaveAtStart
  <2>2. /\ \/ file' = Holds(mem[w]) /\ by' = "startup"
           \/ UNCHANGED <<file, by>>
        /\ \E s \in {"up", "failed"} : win' = [win EXCEPT ![w] = s]
    BY <1>4 DEF SaveAtStart, Saved, Persist, NotPersisted
  <2>3. win' \in [Windows -> Stages] /\ \A v \in Windows : v # w => win'[v] = win[v]
    BY <2>2 DEF SettingsInv, Stages
  <2>4. CASE file' = Holds(mem[w]) /\ by' = "startup"
    <3>1. file'.kind = "settings" /\ file'.c = mem[w] /\ mem[w] \in Kept /\ mem[w] \in Legible
      BY <2>4, HeldIs, KeptIsRead DEF SettingsInv
    <3> QED BY <2>1, <2>3, <2>4, <3>1, WindowsAssumption DEF SettingsInv
  <2>5. CASE UNCHANGED <<file, by>>
    BY <1>1, <2>1, <2>3, <2>5 DEF SettingsInv
  <2> QED BY <2>2, <2>4, <2>5
<1>5. ASSUME Backup(w) PROVE SettingsInv'
  <2>1. win[w] = "backup" /\ UNCHANGED <<folder, mem>>
    BY <1>5 DEF Backup
  <2>2. /\ \/ file' = Absent /\ by' = "startup"
           \/ UNCHANGED <<file, by>>
        /\ \E s \in {"up", "create"} : win' = [win EXCEPT ![w] = s]
    BY <1>5 DEF Backup, AfterBackup
  <2>3. win' \in [Windows -> Stages] /\ \A v \in Windows : v # w => win'[v] = win[v]
    BY <2>2 DEF SettingsInv, Stages
  <2>4. CASE file' = Absent /\ by' = "startup"
    <3>1. file'.kind = "absent"
      BY <2>4, KindIs
    <3> QED BY <2>1, <2>3, <2>4, <3>1, WindowsAssumption DEF SettingsInv
  <2>5. CASE UNCHANGED <<file, by>>
    BY <1>1, <2>1, <2>3, <2>5 DEF SettingsInv
  <2> QED BY <2>2, <2>4, <2>5
<1> QED BY <1>2, <1>3, <1>4, <1>5 DEF StoreStep

\* So does everything else that happens to the file.
LEMMA StoreKeeps == SettingsInv /\ StoreNext => SettingsInv'
<1> SUFFICES ASSUME SettingsInv, StoreNext PROVE SettingsInv'
  OBVIOUS
<1>1. ASSUME NEW w \in Windows, LeaveFullscreen(w) PROVE SettingsInv'
  <2>1. PICK ok \in BOOLEAN : Apply(w, ok, [mem[w] EXCEPT !.view = "default"])
    BY <1>1 DEF LeaveFullscreen
  <2>2. mem[w] \in Legible /\ win[w] = "up"
    BY <1>1, KeptIsRead DEF SettingsInv, LeaveFullscreen
  <2>3. PICK c : c = [mem[w] EXCEPT !.view = "default"]
    OBVIOUS
  <2>4. c \in Legible
    BY <2>2, <2>3 DEF Legible
  <2> QED BY <2>1, <2>2, <2>3, <2>4, ApplyKeeps
<1>2. ASSUME NEW w \in Windows, Exit(w) PROVE SettingsInv'
  <2>1. /\ UNCHANGED <<file, folder>> /\ by' = IF by = w THEN "gone" ELSE by
        /\ win' = [win EXCEPT ![w] = "off"] /\ mem' = [mem EXCEPT ![w] = Default]
    BY <1>2 DEF Exit
  <2>2. win' \in [Windows -> Stages] /\ \A v \in Windows : v # w => win'[v] = win[v]
    BY <2>1 DEF SettingsInv, Stages
  <2>3. mem' \in [Windows -> Kept] /\ \A v \in Windows : v # w => mem'[v] = mem[v]
    BY <2>1, DefaultIsKept DEF SettingsInv
  <2>4. by' # w /\ (by' \in Windows => by' = by) /\ (by' # "user" => by # "user")
    BY <2>1, WindowsAssumption
  <2> QED BY <2>1, <2>2, <2>3, <2>4 DEF SettingsInv
<1>3. CASE EditFile
  <2>1. /\ UNCHANGED <<folder, win, mem>> /\ by' = "user" 
        /\ file' \in {Absent, Corrupt} \cup {Holds(c) : c \in Damage}
    BY <1>3 DEF EditFile
  <2>2. file'.kind \in {"absent", "corrupt", "settings"} /\ (file'.kind = "settings" => file'.c \in Legible)
    BY <2>1, KindIs, HeldIs, DamageAssumption
  <2> QED BY <2>1, <2>2, WindowsAssumption DEF SettingsInv
<1>4. CASE ChangeFolder
  BY <1>4 DEF ChangeFolder, SettingsInv
<1> QED BY <1>1, <1>2, <1>3, <1>4, StartKeeps DEF StoreNext

\* The form holds rows, and while a save is reported the settings in memory and on the
\* disk are what it shows.
FormInv ==
  /\ SettingsInv
  /\ scene = "dialog" => win[Viewer] = "up"
  /\ scene # "dialog" => ~dlg.box
  /\ dlg.form \in AnyForm
  /\ main \in {"open", "closing", "closed"}
  /\ ai.checked => ai.usable \/ ai.label = "checking"
  /\ dlg.box => /\ mem[Viewer].rows = WithoutControl(Shown) /\ mem[Viewer].view = dlg.form.view
                /\ file = Holds(mem[Viewer])

\* f is the recursion of Dropping, for the first m members.
DroppedBy(s, D, m, f) ==
  f = [n \in 0 .. m |-> IF n = 0 THEN <<>> ELSE IF s[n] \in D THEN f[n - 1] ELSE Append(f[n - 1], s[n])]

\* The recursion of Dropping has a solution for every list.
LEMMA DroppedDefined == ASSUME NEW s, NEW D, NEW l \in Nat PROVE \E f : DroppedBy(s, D, l, f)
<1> DEFINE Next1(r, n) == IF s[n] \in D THEN r ELSE Append(r, s[n])
           Missing == {m \in Nat : ~\E f : DroppedBy(s, D, m, f)}
<1>1. ASSUME NEW m \in Missing, \A y \in Missing : m <= y PROVE FALSE
  <2>1. CASE m = 0
    <3> DEFINE f == [n \in 0 .. 0 |-> <<>>]
    <3>1. f = [n \in 0 .. 0 |-> IF n = 0 THEN <<>> ELSE Next1(f[n - 1], n)]
      OBVIOUS
    <3>2. DroppedBy(s, D, m, f)
      BY <2>1, <3>1 DEF DroppedBy
    <3> QED BY <3>2
  <2>2. CASE m # 0
    <3>1. m - 1 \in Nat /\ m - 1 \notin Missing
      BY <1>1, <2>2
    <3>2. PICK f : DroppedBy(s, D, m - 1, f)
      BY <3>1
    <3> DEFINE g == [n \in 0 .. m |-> IF n = m THEN Next1(f[m - 1], m) ELSE f[n]]
               h == [n \in 0 .. m |-> IF n = 0 THEN <<>> ELSE Next1(g[n - 1], n)]
    <3>3. \A n \in 0 .. m : g[n] = h[n]
      <4> TAKE n \in 0 .. m
      <4>1. CASE n = m
        <5>1. g[m - 1] = f[m - 1] /\ g[n] = Next1(f[m - 1], m)
          BY <3>1, <4>1
        <5> QED BY <2>2, <4>1, <5>1
      <4>2. CASE n # m
        <5>1. n \in 0 .. m - 1 /\ g[n] = f[n]
          BY <4>2
        <5>2. f[n] = IF n = 0 THEN <<>> ELSE Next1(f[n - 1], n)
          BY <3>2, <5>1 DEF DroppedBy
        <5>3. n # 0 => g[n - 1] = f[n - 1]
          BY <5>1
        <5> QED BY <5>1, <5>2, <5>3
      <4> QED BY <4>1, <4>2
    <3>4. g = h
      <4> HIDE DEF h
      <4>1. h = [n \in 0 .. m |-> h[n]]
        BY DEF h
      <4>2. g = [n \in 0 .. m |-> g[n]]
        OBVIOUS
      <4> HIDE DEF g
      <4> QED BY <3>3, <4>1, <4>2
    <3>5. DroppedBy(s, D, m, g)
      <4> HIDE DEF g
      <4> QED BY <3>4 DEF DroppedBy, h
    <3> QED BY <3>5
  <2> QED BY <2>1, <2>2
<1>2. Missing = {}
  <2> HIDE DEF Missing
  <2>1. Missing \subseteq Nat
    BY DEF Missing
  <2> QED BY <1>1, <2>1, LeastNumber
<1> QED BY <1>2

\* The rows that are entered are rows.
LEMMA EnteredAreRows == ASSUME NEW s \in Seq(Row), NEW D PROVE Dropping(s, D) \in Seq(Row)
<1> DEFINE kept == CHOOSE f : f = [n \in 0 .. Len(s) |->
                     IF n = 0 THEN <<>> ELSE IF s[n] \in D THEN f[n - 1] ELSE Append(f[n - 1], s[n])]
<1>1. Dropping(s, D) = kept[Len(s)]
  BY DEF Dropping
<1>2. Len(s) \in Nat /\ DOMAIN s = 1 .. Len(s)
  BY LenProperties
<1>3. DroppedBy(s, D, Len(s), kept)
  <2>1. \E f : DroppedBy(s, D, Len(s), f)
    BY <1>2, DroppedDefined
  <2> QED BY <2>1 DEF DroppedBy
<1> HIDE DEF kept
<1>4. \A n \in 0 .. Len(s) : kept[n] = IF n = 0 THEN <<>> ELSE IF s[n] \in D THEN kept[n - 1] ELSE Append(kept[n - 1], s[n])
  BY <1>3 DEF DroppedBy
<1> DEFINE Wrong == {n \in 0 .. Len(s) : kept[n] \notin Seq(Row)}
<1>5. ASSUME NEW m \in Wrong, \A y \in Wrong : m <= y PROVE FALSE
  <2>1. CASE m = 0
    BY <1>2, <1>4, <1>5, <2>1, EmptySeq
  <2>2. CASE m # 0
    <3>1. m - 1 \in 0 .. Len(s) /\ m \in DOMAIN s /\ m - 1 \notin Wrong
      BY <1>2, <1>5, <2>2
    <3>2. kept[m - 1] \in Seq(Row) /\ s[m] \in Row
      BY <3>1, ElementOfSeq, <1>2
    <3>3. kept[m] = IF s[m] \in D THEN kept[m - 1] ELSE Append(kept[m - 1], s[m])
      BY <1>2, <1>4, <2>2, <3>1
    <3>4. kept[m] \in Seq(Row)
      BY <3>2, <3>3, AppendProperties
    <3> QED BY <1>5, <3>4
  <2> QED BY <2>1, <2>2
<1>6. Wrong = {}
  <2>1. Wrong \subseteq Nat
    OBVIOUS
  <2> HIDE DEF Wrong
  <2> QED BY <1>5, <2>1, LeastNumber
<1> QED BY <1>1, <1>2, <1>6

\* What the dialog does to its form, its message box and its checkbox.
LEMMA BoxStep ==
  ASSUME CheckInv, FormInv, DialogNext, ~Save, ~(ChangeFolder /\ UNCHANGED dialogVars)
  PROVE  /\ UNCHANGED storeVars
         /\ dlg'.form \in AnyForm /\ (dlg'.box => dlg.box /\ dlg'.form = dlg.form)
         /\ main' \in {"open", "closing", "closed"}
         /\ ai'.checked => ai'.usable \/ ai'.label = "checking"
<1>1. Dialog(dlg) /\ ai \in AiType
  BY DEF CheckInv, CheckTypes
<1>2. UNCHANGED storeVars
  BY DEF DialogNext, OpenSettings, Fill, Confirm, Reject, CloseDialog, Poll, Return, CheckReads, CheckAnswers,
         CheckEnds, CheckAnswered, CheckOver, StartJob, CancelJob, JobEnds, CloseMain, MainCloses
<1>3. main' \in {"open", "closing", "closed"}
  BY DEF DialogNext, OpenSettings, Fill, Confirm, Reject, CloseDialog, Poll, Return, CheckReads, CheckAnswers,
         CheckEnds, CheckAnswered, CheckOver, StartJob, CancelJob, JobEnds, CloseMain, MainCloses, FormInv
<1>4. ASSUME NEW box \in AiType, StartCheck(box) PROVE ai'.label = "checking"
  BY <1>4 DEF StartCheck, AiType
<1>5. ai'.checked => ai'.usable \/ ai'.label = "checking"
  <2>1. CASE UNCHANGED ai
    BY <2>1 DEF FormInv
  <2>2. CASE OpenSettings
    <3>1. PICK box : box = [ai EXCEPT !.checked = FALSE, !.saw = "none"]
      OBVIOUS
    <3>2. box \in AiType /\ StartCheck(box)
      BY <1>1, <2>2, <3>1 DEF OpenSettings, AiType
    <3> QED BY <1>4, <3>2
  <2>3. CASE Fill /\ ai' # ai
    BY <1>1, <2>3 DEF Fill, AiType
  <2>4. CASE CheckAnswered
    BY <2>4 DEF CheckAnswered
  <2>5. CASE CheckOver
    BY <1>1, <1>4, <2>1, <2>5 DEF CheckOver, Repeated, NotRepeated
  <2>6. CASE JobEnds
    BY <1>1, <1>4, <2>1, <2>6 DEF JobEnds, Refreshed, Forgotten
  <2> QED BY <2>1, <2>2, <2>3, <2>4, <2>5, <2>6 DEF DialogNext, Confirm, Reject, CloseDialog, Poll, Return, CheckReads,
             CheckAnswers, CheckEnds, StartJob, CancelJob, CloseMain, MainCloses
<1>6. dlg'.form \in AnyForm /\ (dlg'.box => dlg.box /\ dlg'.form = dlg.form)
  <2> DEFINE Goal == dlg'.form \in AnyForm /\ (dlg'.box => dlg.box /\ dlg'.form = dlg.form)
  <2>1. CASE UNCHANGED dlg
    BY <2>1 DEF FormInv
  <2>2. CASE OpenSettings
    <3>1. PICK form : form = [view |-> mem[Viewer].view, rows |-> mem[Viewer].rows]
      OBVIOUS
    <3>2. form \in AnyForm
      <4>1. mem[Viewer] \in Legible /\ mem[Viewer] \in Settings
        BY KeptIsRead, DialogAssumption DEF FormInv, SettingsInv, Kept
      <4> QED BY <3>1, <4>1 DEF Legible, Settings, AnyForm
    <3>3. dlg'.form = form /\ dlg'.box = FALSE
      BY <2>2, <3>1 DEF OpenSettings, NoDialog
    <3> QED BY <3>2, <3>3
  <2>3. CASE Fill /\ dlg' # dlg
    <3>1. PICK f \in AnyForm : dlg' = [dlg EXCEPT !.form = f]
      BY <2>3, FormsAssumption DEF Fill, AnyForm
    <3>2. ~dlg.box
      BY <2>3 DEF Fill, Usable
    <3> QED BY <1>1, <3>1, <3>2 DEF Dialog
  <2>4. ASSUME NEW r \in {"accepted", "rejected"}, Done(r) PROVE Goal
    BY <1>1, <2>4 DEF Done, Hidden, Dialog, FormInv
  <2>5. ASSUME Closed PROVE Goal
    BY <1>1, <2>5 DEF Closed, Hidden, Dialog, FormInv
  <2>6. CASE Poll \/ CheckOver \/ Return \/ StartJob
    BY <1>1, <2>1, <2>6 DEF Poll, CheckOver, FinishPending, Hidden, Return, StartJob, Dialog, FormInv
  <2> QED BY <2>1, <2>2, <2>3, <2>4, <2>5, <2>6 DEF DialogNext, Fill, Confirm, Reject, CloseDialog, CheckReads,
             CheckAnswers, CheckEnds, CheckAnswered, CancelJob, JobEnds, CloseMain, MainCloses
<1> QED BY <1>2, <1>3, <1>5, <1>6

\* What a save stores is what the form shows: accepted rows need no repair.
LEMMA SaveStep == CheckInv /\ FormInv /\ scene = "dialog" /\ scene' = scene /\ Save => FormInv'
<1> SUFFICES ASSUME CheckInv, FormInv, scene = "dialog", scene' = scene, Save PROVE FormInv'
  OBVIOUS
<1>1. Dialog(dlg) /\ Viewer \in Windows
  BY DialogAssumption DEF CheckInv, CheckTypes
<1>2. PICK ok \in BOOLEAN : /\ dlg' = [dlg EXCEPT !.box = ok]
                            /\ Apply(Viewer, ok, [mem[Viewer] EXCEPT !.view = dlg.form.view, !.rows = Shown,
                                                    !.tagging = IF ai.checked THEN "on" ELSE "off"])
  BY DEF Save, Shown
<1>3. PICK view \in {"default", "chosen"} : view = dlg.form.view
  BY DEF FormInv, AnyForm
<1>4. PICK entered \in Seq(Row) : entered = Entered(dlg.form.rows)
  BY EnteredAreRows DEF FormInv, AnyForm, Entered
<1>5. PICK tagging \in {"on", "off"} : tagging = IF ai.checked THEN "on" ELSE "off"
  OBVIOUS
<1>14. /\ Len(entered) \in Nat /\ DOMAIN entered = 1 .. Len(entered)
       /\ \A i \in DOMAIN entered : entered[i] \in Row
  BY ElementOfSeq, LenProperties
<1>15. PICK rows : rows = Typed(entered)
  OBVIOUS
<1>16. /\ DOMAIN rows = DOMAIN entered
       /\ \A i \in DOMAIN entered :
            rows[i] = [key |-> Clean[entered[i].key], folder |-> entered[i].folder] /\ rows[i] \in Row
  <2>1. \A i \in DOMAIN entered : [entered[i] EXCEPT !.key = Clean[@]] = [key |-> Clean[entered[i].key], folder |-> entered[i].folder]
    BY <1>14 DEF Row
  <2>2. \A k \in Keys : Clean[k] \in Keys
    BY DEF Keys, Clean
  <2> QED BY <1>14, <1>15, <2>1, <2>2 DEF Typed, Row
<1>17. rows \in Seq(Row)
  <2>1. rows \in [1 .. Len(entered) -> Row]
    BY <1>14, <1>15, <1>16 DEF Typed
  <2> QED BY <1>14, <2>1, SeqDef
<1>6. PICK c : c = [mem[Viewer] EXCEPT !.view = view, !.rows = rows, !.tagging = tagging]
  OBVIOUS
<1>7. mem[Viewer] \in Kept /\ mem[Viewer] \in Legible /\ win[Viewer] = "up"
  BY <1>1, KeptIsRead DEF FormInv, SettingsInv
<1>8. c \in Legible /\ c.rows = rows /\ c.view = view
  BY <1>6, <1>7, <1>17 DEF Legible
<1>18. Apply(Viewer, ok, c) /\ rows = Shown
  BY <1>2, <1>3, <1>4, <1>5, <1>6, <1>15 DEF Shown
<1>9. SettingsInv' /\ win' = win /\ (ok => mem'[Viewer] = Repair(c))
  BY <1>1, <1>7, <1>8, <1>18, ApplyKeeps DEF FormInv
<1>10. dlg'.box = ok /\ dlg'.form = dlg.form
  BY <1>1, <1>2 DEF Dialog
<1>11. ASSUME ok PROVE mem'[Viewer].rows = WithoutControl(rows) /\ mem'[Viewer].view = view /\ file' = Holds(mem'[Viewer])
  <2>1. /\ \A i \in DOMAIN entered : Clean[entered[i].key] \in Single
        /\ \A i, j \in DOMAIN entered : Clean[entered[i].key] = Clean[entered[j].key] => i = j
        /\ \A i \in DOMAIN entered : entered[i].folder = "in" => folder = "dir"
    BY <1>4 DEF Save, RowsAccepted
  <2>2. \A k \in Keys : Clean[k] \in Single => Clean[Clean[k]] = Clean[k]
    BY DEF Keys, Clean, Single
  <2>3. \A i \in DOMAIN entered : Clean[rows[i].key] = Clean[entered[i].key]
    BY <1>14, <1>16, <2>1, <2>2 DEF Row
  <2>4. Rows(rows) = [i \in DOMAIN rows |-> Cleaned(rows[i])]
    BY <1>16, <1>17, <2>1, <2>3, RowsAreKept
  <2>5. \A i \in DOMAIN rows : Cleaned(rows[i]) = [rows[i] EXCEPT !.folder = IF @ = "ctl" THEN "" ELSE @]
    <3> SUFFICES ASSUME NEW i \in DOMAIN rows
                 PROVE  Cleaned(rows[i]) = [rows[i] EXCEPT !.folder = IF @ = "ctl" THEN "" ELSE @]
      OBVIOUS
    <3>1. PICK row \in Row : row = rows[i]
      BY <1>16
    <3>2. Clean[row.key] = row.key
      BY <1>16, <2>3, <3>1
    <3>3. Valid(row.folder) = IF row.folder = "ctl" THEN "" ELSE row.folder
      <4>1. row.folder = "in" => folder = "dir"
        BY <1>16, <2>1, <3>1
      <4>2. folder = "dir" => folder # "file"
        OBVIOUS
      <4> QED BY <4>1, <4>2 DEF Valid
    <3>4. PICK f : f = IF row.folder = "ctl" THEN "" ELSE row.folder
      OBVIOUS
    <3>5. [row EXCEPT !.folder = f] = [key |-> row.key, folder |-> f]
      BY <3>1 DEF Row
    <3>6. Cleaned(row) = [key |-> row.key, folder |-> f]
      BY <3>2, <3>3, <3>4 DEF Cleaned
    <3> QED BY <3>1, <3>4, <3>5, <3>6
  <2>6. Rows(rows) = WithoutControl(rows)
    BY <2>4, <2>5 DEF WithoutControl
  <2>7. PICK r : r = Rows(rows)
    OBVIOUS
  <2>8. Repair(c) = [c EXCEPT !.view = view, !.tagging = IF c.tagging = "bad" THEN "off" ELSE c.tagging, !.rows = r]
    BY <1>8, <2>7 DEF Repair
  <2>9. Repair(c).rows = r /\ Repair(c).view = view
    BY <1>8, <2>8 DEF Legible
  <2>10. file' = Holds(Repair(c))
    BY <1>11, <1>18 DEF Apply, Persist
  <2> QED BY <1>9, <1>11, <2>6, <2>7, <2>9, <2>10
<1>12. UNCHANGED <<ai, main>>
  BY DEF Save
<1>13. Shown' = Shown
  BY <1>10 DEF Shown
<1> QED BY <1>3, <1>9, <1>10, <1>11, <1>12, <1>13, <1>18 DEF FormInv

\* Every step of the desktop keeps settings and form in order.
LEMMA FormNext == CheckInv /\ FormInv /\ [DesktopNext]_desktopVars => FormInv'
<1> SUFFICES ASSUME CheckInv, FormInv, [DesktopNext]_desktopVars PROVE FormInv'
  OBVIOUS
<1>1. CASE UNCHANGED <<vars, scene>>
  BY <1>1, Zenon DEF vars, storeVars, dialogVars, FormInv, SettingsInv, Shown
<1>2. CASE scene = "file" /\ scene' = scene /\ StoreNext /\ UNCHANGED dialogVars
  <2>1. SettingsInv'
    BY <1>2, StoreKeeps DEF FormInv
  <2> QED BY <1>2, <2>1 DEF FormInv, dialogVars
<1>5. CASE scene' = scene /\ ChangeFolder /\ UNCHANGED dialogVars
  BY <1>5 DEF ChangeFolder, FormInv, SettingsInv, Shown, dialogVars
<1>3. CASE scene = "dialog" /\ scene' = scene /\ DialogNext /\ ~Save /\ ~(ChangeFolder /\ UNCHANGED dialogVars)
  <2>1. /\ UNCHANGED storeVars
        /\ dlg'.form \in AnyForm /\ (dlg'.box => dlg.box /\ dlg'.form = dlg.form)
        /\ main' \in {"open", "closing", "closed"}
        /\ ai'.checked => ai'.usable \/ ai'.label = "checking"
    BY <1>3, BoxStep
  <2>2. SettingsInv'
    BY <2>1 DEF FormInv, SettingsInv, storeVars
  <2>3. dlg'.box => Shown' = Shown /\ dlg'.form = dlg.form /\ dlg.box
    BY <2>1 DEF Shown
  <2> QED BY <1>3, <2>1, <2>2, <2>3 DEF FormInv, storeVars
<1>4. CASE scene = "dialog" /\ scene' = scene /\ Save
  BY <1>4, SaveStep
<1> QED BY <1>1, <1>2, <1>3, <1>4, <1>5 DEF DesktopNext, desktopVars

\* A window starts with them in order.
LEMMA FormInit == DesktopInit => FormInv
<1> SUFFICES ASSUME DesktopInit PROVE FormInv
  OBVIOUS
<1>1. Viewer \in Windows
  BY DialogAssumption
<1>2. DialogInit /\ (StoreInit \/ Started) /\ (scene = "dialog" => Started)
  BY DEF DesktopInit
<1>3. /\ Default \in Kept /\ Earlier \in Kept /\ Default \in Legible /\ Earlier \in Legible
  BY DefaultIsKept, KeptIsRead
<1>4. ASSUME StoreInit PROVE SettingsInv
  <2>1. file.kind \in {"absent", "corrupt", "settings"} /\ (file.kind = "settings" => file.c = Earlier)
    BY <1>4, KindIs, HeldIs DEF StoreInit
  <2>2. mem \in [Windows -> Kept] /\ win \in [Windows -> Stages]
    BY <1>3, <1>4 DEF StoreInit, Stages
  <2>3. by = "user" /\ folder = "dir"
    BY <1>4 DEF StoreInit
  <2> QED BY <1>3, <2>1, <2>2, <2>3, WindowsAssumption DEF SettingsInv
<1>5. ASSUME Started PROVE SettingsInv
  <2>1. file.kind = "settings" /\ file.c = Earlier
    BY <1>5, HeldIs DEF Started
  <2>2. mem \in [Windows -> Kept] /\ win \in [Windows -> Stages]
    BY <1>3, <1>5 DEF Started, Stages
  <2>3. by = "gone" /\ folder \in {"dir", "file"}
    BY <1>5 DEF Started
  <2> QED BY <1>3, <2>1, <2>2, <2>3, WindowsAssumption DEF SettingsInv
<1>6. SettingsInv
  BY <1>2, <1>4, <1>5
<1>7. scene = "dialog" => win[Viewer] = "up"
  BY <1>1, <1>2 DEF Started
<1>8. dlg.box = FALSE /\ dlg.form \in AnyForm
  BY <1>2, EmptySeq DEF DialogInit, NoDialog, AnyForm
<1>9. main = "open" /\ ai.label = "checking"
  BY <1>2 DEF DialogInit
<1> QED BY <1>6, <1>7, <1>8, <1>9 DEF FormInv

\* The inductive invariant of settings and form.
THEOREM FormInvariance == DesktopSpec => []FormInv
BY FormInit, FormNext, CheckInvariance, PTL DEF DesktopSpec

\* For any windows, starts, edits and failures: what a window has in memory is what it
\* wrote, as long as nobody changed the file since, and what the program has written
\* needs no repair at the next start unless a folder became a file.
THEOREM SettingsAreKept == DesktopSpec => []SettingsKept
<1>1. FormInv => SettingsKept
  <2> SUFFICES ASSUME FormInv PROVE SettingsKept
    OBVIOUS
  <2>1. SettingsInv
    BY DEF FormInv
  <2>2. StoreTypeOK
    BY <2>1 DEF SettingsInv, StoreTypeOK, Stages, Kept
  <2>3. by # "user" /\ file.kind = "settings" => Repair(file.c) = file.c \/ folder = "file"
    BY <2>1, KeptNeedsNoRepair DEF SettingsInv
  <2> QED BY <2>1, <2>2, <2>3 DEF SettingsInv, SettingsKept
<1> QED BY <1>1, FormInvariance, PTL

\* What a start has in memory of a file it could read.
LEMMA StartReads ==
  ASSUME SettingsInv, NEW w \in Windows, StoreNext,
         win[w] = "open", win'[w] \in {"up", "rewrite"}, file.kind = "settings", ~Fails
  PROVE  KeptOf(file.c, mem'[w])
<1>1. \A v \in Windows : win[v] \in Stages
  BY DEF SettingsInv
<1>2. ASSUME NEW v \in Windows, Start(v) \/ ReadCorrupt(v) \/ SaveAtStart(v) \/ Backup(v) \/ Exit(v) PROVE FALSE
  <2>1. v # w
    BY <1>2 DEF Start, ReadCorrupt, SaveAtStart, Backup, Exit, SettingsInv
  <2>2. PICK s : win' = [win EXCEPT ![v] = s]
    BY <1>2 DEF Start, ReadCorrupt, SaveAtStart, Saved, Backup, AfterBackup, Exit
  <2> QED BY <2>1, <2>2 DEF SettingsInv
<1>3. ASSUME NEW v \in Windows, Unreadable(v) PROVE FALSE
  BY <1>3 DEF Unreadable
<1>4. ASSUME NEW v \in Windows, Read(v) PROVE KeptOf(file.c, mem'[w])
  <2>1. v = w
    BY <1>4 DEF Read, SettingsInv
  <2>2. PICK r : r = Repair(file.c)
    OBVIOUS
  <2>3. mem'[w] = r
    BY <1>4, <2>1, <2>2 DEF Read, SettingsInv
  <2> QED BY <2>2, <2>3, RepairIsKept DEF SettingsInv
<1>5. ASSUME UNCHANGED win PROVE FALSE
  BY <1>5
<1>6. ASSUME NEW v \in Windows, LeaveFullscreen(v) PROVE UNCHANGED win
  BY <1>6 DEF LeaveFullscreen, Apply
<1>7. ASSUME EditFile \/ ChangeFolder PROVE UNCHANGED win
  BY <1>7 DEF EditFile, ChangeFolder
<1> QED BY <1>2, <1>3, <1>4, <1>5, <1>6, <1>7 DEF StoreNext, StoreStep

\* For any windows, files and damage: a window that starts has in memory every legible
\* option of its file, what the program does not know, and the first row of every key.
THEOREM LegibleIsKept == DesktopSpec => LegibleKept
<1>1. ASSUME CheckInv, FormInv, [DesktopNext]_desktopVars
      PROVE  \A w \in Windows :
               win[w] = "open" /\ win'[w] \in {"up", "rewrite"} /\ file.kind = "settings" /\ ~Fails
                 => KeptOf(file.c, mem'[w])
  <2> SUFFICES ASSUME NEW w \in Windows, win[w] = "open", win'[w] \in {"up", "rewrite"},
                      file.kind = "settings", ~Fails
               PROVE  KeptOf(file.c, mem'[w])
    OBVIOUS
  <2>1. CASE UNCHANGED win
    BY <2>1
  <2>2. CASE StoreNext
    <3>1. SettingsInv
      BY <1>1 DEF FormInv
    <3> QED BY <2>2, <3>1, StartReads
  <2>3. CASE DialogNext
    <3>1. CASE ChangeFolder
      BY <3>1, <2>1 DEF ChangeFolder
    <3>2. CASE Save
      BY <3>2, <2>1 DEF Save, Apply
    <3>3. CASE ~Save /\ ~(ChangeFolder /\ UNCHANGED dialogVars)
      BY <2>1, <2>3, <3>3, BoxStep, <1>1 DEF storeVars
    <3> QED BY <3>1, <3>2, <3>3
  <2> QED BY <1>1, <2>1, <2>2, <2>3 DEF DesktopNext, desktopVars, vars, storeVars
<1>2. CheckInv /\ FormInv /\ [DesktopNext]_desktopVars =>
        [\A w \in Windows :
           win[w] = "open" /\ win'[w] \in {"up", "rewrite"} /\ file.kind = "settings" /\ ~Fails
             => KeptOf(file.c, mem'[w])]_storeVars
  BY <1>1
<1> QED BY <1>2, CheckInvariance, FormInvariance, PTL DEF DesktopSpec, LegibleKept

\* A start loses nothing of the file it finds, for any windows, files and damage.
THEOREM FilesAreKept == DesktopSpec => FilesKept
  BY LegibleIsKept, CorruptIsKept DEF FilesKept

\* For any number of rows the dialog accepts: when the save is reported the settings in
\* memory, on the disk and at the next start are what the form shows, but for folders
\* with a control character in their name and folders that became files.
THEOREM SavedIsShown == DesktopSpec => []SavedAsShown
<1>1. CheckInv /\ FormInv => SavedAsShown
  <2> SUFFICES ASSUME CheckInv, FormInv PROVE SavedAsShown
    OBVIOUS
  <2>1. DialogTypeOK
    BY DEF CheckInv, CheckTypes, Dialog, FormInv, DialogTypeOK
  <2>2. ASSUME dlg.box, folder # "file" PROVE Repair(file.c) = mem[Viewer]
    <3>1. mem[Viewer] \in Kept
      BY DialogAssumption DEF FormInv, SettingsInv
    <3>2. file.c = mem[Viewer]
      BY <2>2, HeldIs DEF FormInv
    <3> QED BY <2>2, <3>1, <3>2, KeptNeedsNoRepair
  <2> QED BY <2>1, <2>2 DEF FormInv, SavedAsShown
<1> QED BY <1>1, CheckInvariance, FormInvariance, PTL
=============================================================================
