--------------------------- MODULE ComponentStore ---------------------------
(***************************************************************************)
(* The store of one optional component: the registry with the active       *)
(* version, the directories of the versions, the receipts of the           *)
(* installations, the store lock and the leases of running readers.        *)
(*                                                                         *)
(* A job is one component process (component_jobs.main), started by the    *)
(* component panel of some window or from a terminal; it runs one          *)
(* operation of ComponentManager.  Everything a job does under the store   *)
(* lock is split where something durable happens, because it may be killed *)
(* there: the panel sends SIGKILL one second after Cancel.  The catalogue  *)
(* trusts every version; which of them a job installs is decided by the    *)
(* application it belongs to.                                              *)
(***************************************************************************)
EXTENDS Naturals

CONSTANTS Versions, NoVersion,
          Readers,     \* processes that run a helper of the component
          MaxJobs,     \* bound: component processes
          MaxFaults,   \* bound: calls of the filesystem that raise
          MaxKills,    \* bound: jobs killed
          MaxReads     \* bound: helpers run

Jobs    == 1..MaxJobs
Holders == Jobs \cup Readers
Nobody  == 0

ASSUME StoreAssumption ==
  /\ NoVersion \notin Versions
  /\ {MaxJobs, MaxFaults, MaxKills, MaxReads} \subseteq Nat
  /\ Readers \cap Nat = {}

VARIABLES
  registry,   \* registry.json
  tree,       \* the directory of every version
  receipt,    \* jobs/<id>.json of an installing job
  job,        \* the component processes
  lock,       \* who has .store.lock
  lease,      \* which version a process has leased
  chosen,     \* the version a reader saw before it asked for a lease
  wrote,      \* ghost: installations whose activation reached the registry
  faults, kills, reads

counters == <<faults, kills, reads>>
vars == <<registry, tree, receipt, job, lock, lease, chosen, wrote, counters>>

Prepared  == {"queued", "fetching", "verifying", "extracting", "probing"}
Terminal  == {"completed", "failed", "cancelled"}
States    == {"absent", "activating", "recovery_required"} \cup Prepared \cup Terminal
AfterState == [queued |-> "fetching", fetching |-> "verifying", verifying |-> "extracting",
               extracting |-> "probing", probing |-> "activating"]

Installs == {"install", "import-model"}
Ops      == Installs \cup {"verify", "enable", "disable", "rollback", "remove", "recover"}
Idle     == [op |-> "none", at |-> "unstarted", version |-> NoVersion,
             cancelled |-> FALSE, todo |-> {}]
-----------------------------------------------------------------------------
Init ==
  /\ registry = [active |-> NoVersion, previous |-> NoVersion, enabled |-> FALSE]
  /\ tree = [v \in Versions |-> "none"]
  /\ receipt = [j \in Jobs |-> "absent"]
  /\ job = [j \in Jobs |-> Idle]
  /\ lock = Nobody
  /\ lease = [h \in Holders |-> NoVersion]
  /\ chosen = [r \in Readers |-> NoVersion]
  /\ wrote = {}
  /\ faults = 0 /\ kills = 0 /\ reads = 0

At(j, place)   == job[j].at = place
Goes(j, place) == job' = [job EXCEPT ![j].at = place]
Ended(j)       == [Idle EXCEPT !.at = "ended", !.version = job[j].version]
\* A loop under the lock goes on while anything is left to do.
DoneWith(j, x) == IF job[j].todo = {x} THEN Ended(j) ELSE [job[j] EXCEPT !.todo = @ \ {x}]
Exits(j)       == job' = [job EXCEPT ![j] = Ended(j)]
Ends(j)        == Exits(j) /\ lock' = Nobody
Fault          == faults < MaxFaults /\ faults' = faults + 1
NoFault        == faults' = faults
Present        == {v \in Versions : tree[v] # "none"}
Leased         == {lease[h] : h \in Holders}

\* Bug: the lock is a file that outlives its owner.
StaysLocked(j) == lock
\* flock belongs to the process.
Freed(j)       == IF lock = j THEN Nobody ELSE lock

\* A job has the store lock for this operation.
Admitted(j, ops) == At(j, "waiting") /\ job[j].op \in ops /\ lock = Nobody

\* component_jobs.main: the manager reads the catalogue.
Launch(j, op) ==
  /\ At(j, "unstarted") /\ \A k \in 1..(j - 1) : ~At(k, "unstarted")
  /\ job' = [job EXCEPT ![j] = [Idle EXCEPT !.op = op,
                           !.at = IF op = "import-model" THEN "packing" ELSE "waiting"]]
  /\ UNCHANGED <<registry, tree, receipt, lock, lease, chosen, wrote, counters>>

\* SIGTERM sets a flag, which installing and removing look at; SIGKILL follows while the job still runs, and the
\* system may stop it as well.  Locks and leases go with the process.
Cancel(j) ==
  /\ job[j].op \in Installs \cup {"remove"} /\ ~job[j].cancelled
  /\ job' = [job EXCEPT ![j].cancelled = TRUE]
  /\ UNCHANGED <<registry, tree, receipt, lock, lease, chosen, wrote, counters>>

Kill(j) ==
  /\ ~At(j, "unstarted") /\ ~At(j, "ended") /\ kills < MaxKills
  /\ kills' = kills + 1
  /\ Exits(j)
  /\ lock' = Freed(j)
  /\ lease' = [lease EXCEPT ![j] = NoVersion]
  /\ UNCHANGED <<registry, tree, receipt, chosen, wrote, faults, reads>>

\* A legacy model is packed into a local archive before anything is locked.
Pack(j) ==
  /\ At(j, "packing")
  /\ \/ /\ ~job[j].cancelled
        /\ job' = [job EXCEPT ![j].at = "waiting", ![j].op = "install"]
     \/ Exits(j)
  /\ UNCHANGED <<registry, tree, receipt, lock, lease, chosen, wrote, counters>>
-----------------------------------------------------------------------------
(* install *)

\* A failing call raises before or after its effect.
Save(j, state, raised) ==
  receipt' \in {[receipt EXCEPT ![j] = state]} \cup IF raised THEN {receipt} ELSE {}

Begin(j) ==
  /\ Admitted(j, Installs)
  /\ \E v \in Versions :
       \/ /\ NoFault /\ Save(j, "queued", FALSE) /\ lock' = j
          /\ job' = [job EXCEPT ![j].at = "preparing", ![j].version = v]
       \/ /\ Fault /\ Save(j, "queued", TRUE) /\ UNCHANGED lock
          /\ job' = [job EXCEPT ![j] = [Ended(j) EXCEPT !.version = v]]
  /\ UNCHANGED <<registry, tree, lease, chosen, wrote, kills, reads>>

Prepare(j) ==
  /\ At(j, "preparing") /\ NoFault
  /\ LET next == AfterState[receipt[j]] IN
       /\ Save(j, next, FALSE)
       /\ Goes(j, IF next = "activating" THEN "placing" ELSE "preparing")
  /\ UNCHANGED <<registry, tree, lock, lease, chosen, wrote, kills, reads>>

\* A wrong archive, a failing probe or call, or a cancellation noticed: all
\* before the activation.  The receipt of the end may itself fail.
Noticed(j) == job[j].cancelled /\ receipt[j] \in {"fetching", "extracting", "probing"}

Abandon(j) ==
  /\ At(j, "preparing")
  /\ \E state \in {"failed"} \cup IF Noticed(j) THEN {"cancelled"} ELSE {} :
       \/ NoFault /\ Save(j, state, FALSE)
       \/ Fault /\ Save(j, state, TRUE)
  /\ Ends(j)
  /\ UNCHANGED <<registry, tree, lease, chosen, wrote, kills, reads>>

\* Bug: an exception is told as a failure, as it is before the intent.
ToldFailed(j) == Ends(j) /\ Save(j, "failed", FALSE)
\* After the intent an exception settles nothing: the receipt stays.
Unsettled(j) == Ends(j) /\ UNCHANGED receipt

\* The version's directory: verified where it exists, else renamed into place.
Place(j) ==
  LET v == job[j].version
      placed == [tree EXCEPT ![v] = "whole"]
  IN
  /\ At(j, "placing")
  /\ \/ tree[v] # "partial" /\ NoFault /\ tree' = placed
        /\ Goes(j, "pointing") /\ UNCHANGED <<lock, receipt>>
     \/ tree[v] = "partial" /\ NoFault /\ UNCHANGED tree /\ Unsettled(j)
     \/ tree[v] = "none" /\ Fault /\ tree' \in {tree, placed} /\ Unsettled(j)
  /\ UNCHANGED <<registry, lease, chosen, wrote, kills, reads>>

Activated(v) ==
  [active |-> v, enabled |-> TRUE,
   previous |-> IF registry.active \in {NoVersion, v} THEN registry.previous
                ELSE registry.active]

Point(j) ==
  /\ At(j, "pointing")
  /\ \/ /\ NoFault /\ Goes(j, "completing") /\ UNCHANGED <<lock, receipt>>
        /\ registry' = Activated(job[j].version) /\ wrote' = wrote \cup {j}
     \/ /\ Fault /\ Unsettled(j)
        /\ \/ registry' = Activated(job[j].version) /\ wrote' = wrote \cup {j}
           \/ UNCHANGED <<registry, wrote>>
  /\ UNCHANGED <<tree, lease, chosen, kills, reads>>

Complete(j) ==
  /\ At(j, "completing") /\ Ends(j)
  /\ \/ NoFault /\ Save(j, "completed", FALSE)
     \/ Fault /\ Save(j, "completed", TRUE)
  /\ UNCHANGED <<registry, tree, lease, chosen, wrote, kills, reads>>
-----------------------------------------------------------------------------
(* enable, disable, rollback: one registry write under the lock *)

Rewrite(j, possible, new) ==
  /\ \/ NoFault /\ possible /\ registry' = new
     \/ NoFault /\ UNCHANGED registry          \* refused, or the probe failed
     \/ Fault /\ possible /\ registry' \in {registry, new}
  /\ Exits(j)
  /\ UNCHANGED <<tree, receipt, lock, lease, chosen, wrote, kills, reads>>

Enable(j) ==
  /\ Admitted(j, {"enable"})
  /\ Rewrite(j, registry.active # NoVersion /\ tree[registry.active] = "whole",
             [registry EXCEPT !.enabled = TRUE])

Disable(j) ==
  /\ Admitted(j, {"disable"})
  /\ Rewrite(j, registry.active # NoVersion, [registry EXCEPT !.enabled = FALSE])

Rollback(j) ==
  /\ Admitted(j, {"rollback"})
  /\ Rewrite(j, registry.previous # NoVersion /\ tree[registry.previous] = "whole",
             [active |-> registry.previous, previous |-> registry.active, enabled |-> TRUE])
-----------------------------------------------------------------------------
(* remove: every version there is; the process tries again while one is leased *)

\* Bug: only the lease of the active version is asked for.
ActiveFree == registry.active \notin Leased
Free == Present \cap Leased = {}

Remove(j) ==
  /\ Admitted(j, {"remove"}) /\ ~job[j].cancelled
  /\ \/ /\ Present # {} /\ Free /\ \A v \in Present : tree[v] = "whole"
        /\ job' = [job EXCEPT ![j].at = "unlisting", ![j].todo = Present]
        /\ lock' = j
     \/ /\ Present = {} \/ \E v \in Present : tree[v] = "partial"
        /\ Ends(j)
  /\ UNCHANGED <<registry, tree, receipt, lease, chosen, wrote, counters>>

StopWaiting(j) ==
  /\ At(j, "waiting") /\ job[j].op = "remove" /\ job[j].cancelled
  /\ Exits(j)
  /\ UNCHANGED <<registry, tree, receipt, lock, lease, chosen, wrote, counters>>

Unlisted(gone) ==
  [active   |-> IF registry.active \in gone THEN NoVersion ELSE registry.active,
   previous |-> IF registry.previous \in gone THEN NoVersion ELSE registry.previous,
   enabled  |-> registry.enabled /\ registry.active \notin gone]

Unlist(j) ==
  /\ At(j, "unlisting")
  /\ \/ NoFault /\ registry' = Unlisted(job[j].todo) /\ Goes(j, "removing") /\ UNCHANGED lock
     \/ Fault /\ registry' \in {registry, Unlisted(job[j].todo)} /\ Ends(j)
  /\ UNCHANGED <<tree, receipt, lease, chosen, wrote, kills, reads>>

\* rmtree deletes file by file.
RemoveTree(j) ==
  /\ At(j, "removing")
  /\ \E v \in job[j].todo :
       \/ /\ tree[v] = "whole" /\ NoFault
          /\ tree' = [tree EXCEPT ![v] = "partial"]
          /\ UNCHANGED <<job, lock>>
       \/ /\ tree[v] = "partial" /\ NoFault
          /\ tree' = [tree EXCEPT ![v] = "none"]
          /\ lock' = IF job[j].todo = {v} THEN Nobody ELSE lock
          /\ job' = [job EXCEPT ![j] = DoneWith(j, v)]
       \/ Fault /\ Ends(j) /\ UNCHANGED tree
  /\ UNCHANGED <<registry, receipt, lease, chosen, wrote, kills, reads>>
-----------------------------------------------------------------------------
(* recover: every unsettled receipt, judged by what registry and tree show *)

Unresolved == {k \in Jobs : receipt[k] \notin Terminal \cup {"absent", "recovery_required"}}

\* Bug: judged by the directory alone.
ByTree(k) == IF tree[job[k].version] = "whole" THEN "completed" ELSE "recovery_required"

Judged(k) ==
  IF receipt[k] = "activating" /\ registry.active = job[k].version
  THEN IF tree[job[k].version] = "whole" THEN "completed" ELSE receipt[k]
  ELSE "recovery_required"

Recover(j) ==
  /\ Admitted(j, {"recover"})
  /\ IF Unresolved = {}
     THEN Ends(j)
     ELSE lock' = j /\ job' = [job EXCEPT ![j].at = "recovering", ![j].todo = Unresolved]
  /\ UNCHANGED <<registry, tree, receipt, lease, chosen, wrote, counters>>

Reconcile(j) ==
  /\ At(j, "recovering")
  /\ \E k \in job[j].todo :
       \/ /\ NoFault /\ Save(k, Judged(k), FALSE)
          /\ lock' = IF job[j].todo = {k} THEN Nobody ELSE lock
          /\ job' = [job EXCEPT ![j] = DoneWith(j, k)]
       \/ Fault /\ Save(k, Judged(k), TRUE) /\ Ends(j)
  /\ UNCHANGED <<registry, tree, lease, chosen, wrote, kills, reads>>
-----------------------------------------------------------------------------
(* Readers, and the verification of the active version by a job *)

\* active_path: read without the lock.
Choose(r) ==
  /\ lease[r] = NoVersion /\ chosen[r] = NoVersion /\ reads < MaxReads
  /\ registry.enabled /\ registry.active # NoVersion /\ tree[registry.active] # "none"
  /\ chosen' = [chosen EXCEPT ![r] = registry.active]
  /\ reads' = reads + 1
  /\ UNCHANGED <<registry, tree, receipt, job, lock, lease, wrote, faults, kills>>

\* _acquire: the store lock is held until the tree is verified.
Available(v) == registry.enabled /\ v # NoVersion /\ tree[v] = "whole"

\* acquire takes what is active now, acquire_path what was chosen.
Acquire(r) ==
  /\ chosen[r] # NoVersion /\ lease[r] = NoVersion /\ lock = Nobody
  /\ \E v \in {registry.active, chosen[r]} :
       lease' = [lease EXCEPT ![r] = IF Available(v) THEN v ELSE NoVersion]
  /\ chosen' = [chosen EXCEPT ![r] = NoVersion]
  /\ UNCHANGED <<registry, tree, receipt, job, lock, wrote, counters>>

\* The helper is done, or its process died.
Release(r) ==
  /\ lease[r] # NoVersion
  /\ lease' = [lease EXCEPT ![r] = NoVersion]
  /\ UNCHANGED <<registry, tree, receipt, job, lock, chosen, wrote, counters>>

Verify(j) ==
  /\ Admitted(j, {"verify"})
  /\ IF Available(registry.active)
     THEN lease' = [lease EXCEPT ![j] = registry.active] /\ Goes(j, "verifying")
     ELSE UNCHANGED lease /\ Exits(j)
  /\ UNCHANGED <<registry, tree, receipt, lock, chosen, wrote, counters>>

Verified(j) ==
  /\ At(j, "verifying")
  /\ lease' = [lease EXCEPT ![j] = NoVersion]
  /\ Exits(j)
  /\ UNCHANGED <<registry, tree, receipt, lock, chosen, wrote, counters>>

-----------------------------------------------------------------------------
Work(j) ==
  \/ Pack(j)
  \/ Begin(j) \/ Prepare(j) \/ Abandon(j) \/ Place(j) \/ Point(j) \/ Complete(j)
  \/ Enable(j) \/ Disable(j) \/ Rollback(j)
  \/ Remove(j) \/ StopWaiting(j) \/ Unlist(j) \/ RemoveTree(j)
  \/ Recover(j) \/ Reconcile(j)
  \/ Verify(j) \/ Verified(j)

Next ==
  \/ \E j \in Jobs : Work(j) \/ Cancel(j) \/ Kill(j) \/ \E op \in Ops : Launch(j, op)
  \/ \E r \in Readers : Choose(r) \/ Acquire(r) \/ Release(r)

Spec == Init /\ [][Next]_vars

\* Started processes run, and a helper ends (it has a deadline).  Nothing here can
\* go on for ever, so fairness to them together is fairness to each of them.
Running  == (\E j \in Jobs : Work(j)) \/ (\E r \in Readers : Release(r))
FairSpec == Spec /\ WF_vars(Running)
-----------------------------------------------------------------------------
TypeOK ==
  /\ registry \in [active : Versions \cup {NoVersion}, previous : Versions \cup {NoVersion},
                   enabled : BOOLEAN]
  /\ tree \in [Versions -> {"none", "partial", "whole"}]
  /\ receipt \in [Jobs -> States]
  /\ lock \in Jobs \cup {Nobody}
  /\ lease \in [Holders -> Versions \cup {NoVersion}]
  /\ chosen \in [Readers -> Versions \cup {NoVersion}]
  /\ wrote \subseteq Jobs

\* A receipt tells what became of the registry.  It becomes "completed" only while
\* its version is the active one and complete, whether the job or a later recovery
\* writes it; one that is told as failed or cancelled has not activated anything,
\* although calls may raise after their effect and the job may be cancelled or killed
\* at any point; and a settled receipt never changes again (install's
\* activation_intent, recover_jobs).
ReceiptTruth ==
  /\ []TypeOK
  /\ [][\A j \in Jobs :
          /\ receipt'[j] \in {"failed", "cancelled"} => j \notin wrote'
          /\ receipt[j] # receipt'[j] =>
               /\ receipt[j] \notin Terminal
               /\ receipt'[j] = "completed" =>
                    registry'.active = job[j].version /\ tree'[job[j].version] = "whole"]_vars

\* The store implements the abstract one: a version in use or one that can be
\* rolled back to is complete, whatever is installed, removed, killed or failing
\* (docs/architecture.md: "failed updates retain the working version, and removal
\* waits for active reader leases").
Abstract == INSTANCE VersionStore WITH
  complete <- {v \in Versions : tree[v] = "whole"},
  active <- registry.active, previous <- registry.previous, enabled <- registry.enabled,
  held <- lease

ImplementsStore == Abstract!Spec

\* Every component process ends: nobody waits for the store lock or for a lease
\* for ever, also after jobs were killed or calls failed.
JobsEnd == []<>(\A j \in Jobs : At(j, "unstarted") \/ At(j, "ended"))
=============================================================================
