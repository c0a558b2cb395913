-------------------------- MODULE ComponentsProofs --------------------------
(***************************************************************************)
(* What the store of an optional component and a reader's job promise for  *)
(* every set of versions and readers and every number of component         *)
(* processes, failing calls and killed processes.                          *)
(*                                                                         *)
(* The store lock carries the proof: a process in the middle of something  *)
(* holds it, so what it has established about registry, directories,       *)
(* receipts and leases still holds at its next step, although it may be    *)
(* killed between any two.                                                 *)
(***************************************************************************)
EXTENDS Components, TLAPS

\* Where a process is while it has the store lock, and before it ever had it.
Critical == {"preparing", "placing", "pointing", "completing", "unlisting", "removing",
             "recovering"}
Early    == {"unstarted", "packing", "waiting"}
Places   == Critical \cup Early \cup {"verifying", "ended"}

JobOps   == Ops \cup {"none"}
Targets  == Versions \cup {NoVersion}
Subjects == SUBSET (Versions \cup Jobs)
Job      == [op : JobOps, at : Places, version : Targets, cancelled : BOOLEAN, todo : Subjects]

JobTypeOK == job \in [Jobs -> Job]

\* What process j has established, by where it is.
Fresh(j)      == job[j].at \in Early =>
                   receipt[j] = "absent" /\ j \notin wrote /\ lease[j] = NoVersion
Preparing(j)  == job[j].at = "preparing" =>
                   receipt[j] \in Prepared /\ j \notin wrote /\ job[j].version \in Versions
Activating(j) == job[j].at \in {"placing", "pointing", "completing"} =>
                   /\ receipt[j] = "activating" /\ job[j].version \in Versions
                   /\ job[j].at # "placing" => tree[job[j].version] = "whole"
                   /\ job[j].at = "completing" => registry.active = job[j].version
Removing(j)   == job[j].at \in {"unlisting", "removing"} =>
                   /\ job[j].todo \subseteq Versions /\ job[j].todo \cap Leased = {}
                   /\ job[j].at = "removing" =>
                        registry.active \notin job[j].todo /\ registry.previous \notin job[j].todo
Recovering(j) == job[j].at = "recovering" => job[j].todo \subseteq Unresolved
Locked(j)     == job[j].at \in Critical => lock = j
Told(j)       == receipt[j] \in {"failed", "cancelled"} => j \notin wrote

Coherent(j) == /\ Fresh(j) /\ Preparing(j) /\ Activating(j) /\ Removing(j) /\ Recovering(j)
               /\ Locked(j) /\ Told(j)

\* The strengthening that makes the store's promises inductive.
StoreInv == TypeOK /\ JobTypeOK /\ \A j \in Jobs : Coherent(j)
-----------------------------------------------------------------------------
\* A process outside the store lock depends on nothing but itself.
LEMMA Bystander ==
  ASSUME StoreInv, NEW k \in Jobs, job[k].at \notin Critical,
         job'[k] = job[k], receipt'[k] = receipt[k], k \in wrote' <=> k \in wrote,
         lease'[k] = lease[k]
  PROVE  Coherent(k)'
BY DEF StoreInv, Coherent, Fresh, Preparing, Activating, Removing, Recovering, Locked, Told, Critical

\* The holder of the store lock keeps what it has established while nobody else
\* changes the store; that others end their leases does not disturb it.
LEMMA Untouched ==
  ASSUME StoreInv, NEW k \in Jobs, job'[k] = job[k], UNCHANGED <<registry, tree, receipt, wrote>>,
         lock = k => lock' = k, lease'[k] = lease[k],
         Leased' \subseteq Leased \cup {NoVersion}
  PROVE  Coherent(k)'
<1>1. Coherent(k)
  BY DEF StoreInv
<1>2. Removing(k)'
  <2>1. Leased' \cap Versions \subseteq Leased
    BY StoreAssumption
  <2> QED BY <1>1, <2>1 DEF Coherent, Removing
<1>3. Recovering(k)'
  BY <1>1 DEF Coherent, Recovering, Unresolved
<1>4. Fresh(k)' /\ Preparing(k)' /\ Activating(k)' /\ Locked(k)' /\ Told(k)'
  BY <1>1 DEF Coherent, Fresh, Preparing, Activating, Locked, Told
<1> QED BY <1>2, <1>3, <1>4 DEF Coherent

\* While the store lock is free, or with process j, no other process is critical.
LEMMA OneCritical ==
  ASSUME StoreInv, NEW j \in Jobs, lock = Nobody \/ job[j].at \in Critical,
         NEW k \in Jobs \ {j}
  PROVE  job[k].at \notin Critical
BY StoreAssumption DEF StoreInv, Coherent, Locked, Jobs, Nobody

\* An empty store and no process.
LEMMA StoreInit == Init => StoreInv
BY StoreAssumption DEF Init, StoreInv, TypeOK, JobTypeOK, Job, JobOps, Targets, Subjects, Coherent, Fresh, Preparing, Activating, Removing,
   Recovering, Locked, Told, Idle, Places, Early, Critical, States, Jobs, Nobody, Holders
-----------------------------------------------------------------------------
\* Starting a process, and asking it to stop, changes nothing of the store.
LEMMA LaunchInv ==
  ASSUME StoreInv, NEW j \in Jobs, NEW op \in Ops, Launch(j, op)
  PROVE  StoreInv'
<1>1. TypeOK' /\ JobTypeOK'
  BY DEF StoreInv, TypeOK, JobTypeOK, Job, JobOps, Targets, Subjects, Launch, Idle, Places, Early
<1>2. Coherent(j)'
  BY DEF StoreInv, TypeOK, JobTypeOK, Coherent, Fresh, Preparing, Activating, Removing, Recovering, Locked,
     Told, Critical, Early, Launch, At, Idle
<1>3. ASSUME NEW k \in Jobs \ {j} PROVE Coherent(k)'
  BY Untouched DEF StoreInv, JobTypeOK, Launch, Leased
<1> QED BY <1>1, <1>2, <1>3 DEF StoreInv

\* Cancelling only leaves a mark on the process.
LEMMA CancelInv ==
  ASSUME StoreInv, NEW j \in Jobs, Cancel(j)
  PROVE  StoreInv'
<1>1. TypeOK' /\ JobTypeOK'
  BY ZenonT(40) DEF StoreInv, TypeOK, JobTypeOK, Job, JobOps, Targets, Subjects, Cancel
<1>2. Coherent(j)'
  BY DEF StoreInv, JobTypeOK, Coherent, Fresh, Preparing, Activating, Removing, Recovering, Locked,
     Told, Cancel, Leased, Unresolved
<1>3. ASSUME NEW k \in Jobs \ {j} PROVE Coherent(k)'
  BY Untouched DEF StoreInv, JobTypeOK, Cancel, Leased
<1> QED BY <1>1, <1>2, <1>3 DEF StoreInv

\* A killed process leaves lock and lease; its receipt and directories stay.
LEMMA KillInv ==
  ASSUME StoreInv, NEW j \in Jobs, Kill(j)
  PROVE  StoreInv'
<1>1. TypeOK' /\ JobTypeOK'
  BY DEF StoreInv, TypeOK, JobTypeOK, Job, JobOps, Targets, Subjects, Kill, Exits, Ended, Idle, Freed, Places
<1>2. Coherent(j)'
  BY DEF StoreInv, JobTypeOK, Coherent, Fresh, Preparing, Activating, Removing, Recovering, Locked,
     Told, Critical, Early, Kill, Exits, Ended, Idle
<1>3. ASSUME NEW k \in Jobs \ {j} PROVE Coherent(k)'
  BY Untouched DEF StoreInv, TypeOK, JobTypeOK, Kill, Exits, Freed, Leased, Holders
<1> QED BY <1>1, <1>2, <1>3 DEF StoreInv
-----------------------------------------------------------------------------
\* Moving on, and ending, change nothing but the process itself; one that has
\* ended promises no more than the receipt it leaves.
LEMMA Moved ==
  ASSUME JobTypeOK, NEW j \in Jobs, NEW place \in Places, Goes(j, place)
  PROVE  /\ JobTypeOK'
         /\ job'[j].at = place /\ job'[j].version = job[j].version /\ job'[j].todo = job[j].todo
         /\ \A k \in Jobs \ {j} : job'[k] = job[k]
BY DEF JobTypeOK, Job, Goes

\* A process that ends leaves the records of the others alone.
LEMMA Exited ==
  ASSUME JobTypeOK, NEW j \in Jobs, Exits(j)
  PROVE  /\ JobTypeOK' /\ job'[j].at = "ended"
         /\ \A k \in Jobs \ {j} : job'[k] = job[k]
<1>1. Ended(j) \in Job /\ Ended(j).at = "ended"
  BY DEF JobTypeOK, Job, JobOps, Targets, Subjects, Ended, Idle, Places
<1> QED BY <1>1 DEF JobTypeOK, Exits

\* A process that has ended depends on its receipt alone.
LEMMA EndedCoherent ==
  ASSUME NEW j \in Jobs, job'[j].at = "ended", Told(j)'
  PROVE  Coherent(j)'
BY DEF Coherent, Fresh, Preparing, Activating, Removing, Recovering, Locked, Critical, Early

\* The record of a process that built its pack and waits for the lock.
LEMMA Packed ==
  ASSUME JobTypeOK, NEW j \in Jobs, job' = [job EXCEPT ![j].at = "waiting", ![j].op = "install"]
  PROVE  /\ JobTypeOK' /\ job'[j].at = "waiting"
         /\ \A k \in Jobs \ {j} : job'[k] = job[k]
<1>1. "waiting" \in Places /\ "install" \in JobOps
  BY DEF Places, Early, JobOps, Ops, Installs
<1> QED BY <1>1 DEF JobTypeOK, Job

\* The record of a process that got the lock.
LEMMA Begun ==
  ASSUME JobTypeOK, NEW j \in Jobs, NEW v \in Versions,
         job' = [job EXCEPT ![j].at = "preparing", ![j].version = v]
  PROVE  /\ JobTypeOK' /\ job'[j].at = "preparing" /\ job'[j].version = v
         /\ \A k \in Jobs \ {j} : job'[k] = job[k]
<1>1. "preparing" \in Places /\ v \in Targets
  BY DEF Places, Critical, Targets
<1> QED BY <1>1 DEF JobTypeOK, Job

\* The record of a process with a list of things left to do.
LEMMA Gathered ==
  ASSUME JobTypeOK, NEW j \in Jobs, NEW place \in Places, NEW S \in Subjects,
         job' = [job EXCEPT ![j].at = place, ![j].todo = S]
  PROVE  /\ JobTypeOK' /\ job'[j].at = place /\ job'[j].todo = S
         /\ \A k \in Jobs \ {j} : job'[k] = job[k]
BY DEF JobTypeOK, Job

\* The record of a process that did one of them.
LEMMA Worked ==
  ASSUME JobTypeOK, NEW j \in Jobs, NEW x,
         job' = [job EXCEPT ![j] = DoneWith(j, x)]
  PROVE  /\ JobTypeOK' /\ \A k \in Jobs \ {j} : job'[k] = job[k]
         /\ \/ job[j].todo = {x} /\ job'[j].at = "ended"
            \/ job[j].todo # {x} /\ job'[j].at = job[j].at /\ job'[j].todo = job[j].todo \ {x}
<1>1. CASE job[j].todo = {x}
  <2>1. Exits(j)
    BY <1>1 DEF Exits, DoneWith
  <2> QED BY <1>1, <2>1, Exited
<1>2. CASE job[j].todo # {x}
  <2> DEFINE rest == job[j].todo \ {x}
             next == [job[j] EXCEPT !.todo = rest]
  <2>1. job[j] \in Job /\ rest \in Subjects
    BY DEF JobTypeOK, Job, Subjects
  <2>2. next \in Job /\ next.at = job[j].at /\ next.todo = rest
    BY <2>1 DEF Job
  <2>3. job' = [job EXCEPT ![j] = next]
    BY <1>2 DEF DoneWith
  <2> QED BY <1>2, <2>2, <2>3 DEF JobTypeOK
<1> QED BY <1>1, <1>2

\* Packing a legacy model is private to its process.
LEMMA PackInv ==
  ASSUME StoreInv, NEW j \in Jobs, Pack(j)
  PROVE  StoreInv'
<1>1. UNCHANGED <<registry, tree, receipt, lock, lease, chosen, wrote>>
  BY DEF Pack
<1>2. JobTypeOK' /\ (\A k \in Jobs \ {j} : job'[k] = job[k]) /\ job'[j].at \in {"waiting", "ended"}
  <2>1. CASE job' = [job EXCEPT ![j].at = "waiting", ![j].op = "install"]
    BY <2>1, Packed DEF StoreInv
  <2>2. CASE Exits(j)
    BY <2>2, Exited DEF StoreInv
  <2> QED BY <2>1, <2>2 DEF Pack
<1>3. Coherent(j)'
  BY <1>1, <1>2 DEF StoreInv, Pack, At, Coherent, Fresh, Preparing, Activating, Removing, Recovering, Locked,
     Told, Critical, Early
<1>4. ASSUME NEW k \in Jobs \ {j} PROVE Coherent(k)'
  BY <1>1, <1>2, Untouched DEF Leased
<1> QED BY <1>1, <1>2, <1>3, <1>4 DEF StoreInv, TypeOK

\* An installation takes the lock with its first receipt.
LEMMA BeginInv ==
  ASSUME StoreInv, NEW j \in Jobs, Begin(j)
  PROVE  StoreInv'
<1>1. UNCHANGED <<registry, tree, lease, chosen, wrote>> /\ At(j, "waiting") /\ lock = Nobody
  BY DEF Begin, Admitted
<1>2. PICK v \in Versions :
        \/ /\ receipt' = [receipt EXCEPT ![j] = "queued"] /\ lock' = j
           /\ job' = [job EXCEPT ![j].at = "preparing", ![j].version = v]
        \/ /\ receipt' \in {receipt, [receipt EXCEPT ![j] = "queued"]} /\ lock' = lock
           /\ job' = [job EXCEPT ![j] = [Ended(j) EXCEPT !.version = v]]
  BY DEF Begin, Save
<1>3. TypeOK' /\ \A k \in Jobs \ {j} : receipt'[k] = receipt[k]
  BY <1>1, <1>2 DEF StoreInv, TypeOK, States, Prepared
<1>4. /\ JobTypeOK' /\ (\A k \in Jobs \ {j} : job'[k] = job[k])
      /\ \/ /\ receipt'[j] = "queued" /\ lock' = j
            /\ job'[j].at = "preparing" /\ job'[j].version \in Versions
         \/ receipt'[j] \in {"absent", "queued"} /\ job'[j].at = "ended"
  <2>1. receipt[j] = "absent"
    BY <1>1 DEF StoreInv, Coherent, Fresh, At, Early
  <2>2. CASE lock' = j /\ job' = [job EXCEPT ![j].at = "preparing", ![j].version = v]
    <3>1. receipt' = [receipt EXCEPT ![j] = "queued"]
      BY <1>1, <1>2, <2>2, StoreAssumption DEF Jobs, Nobody
    <3> QED BY <2>2, <3>1, Begun DEF StoreInv, TypeOK
  <2>3. CASE job' = [job EXCEPT ![j] = [Ended(j) EXCEPT !.version = v]]
    <3>1. [Ended(j) EXCEPT !.version = v] \in Job /\ [Ended(j) EXCEPT !.version = v].at = "ended"
      BY DEF Job, JobOps, Targets, Subjects, Ended, Idle, Places
    <3> QED BY <1>2, <2>1, <2>3, <3>1 DEF StoreInv, TypeOK, JobTypeOK
  <2> QED BY <1>2, <2>2, <2>3
<1>5. Coherent(j)'
  <2>1. j \notin wrote'
    BY <1>1 DEF StoreInv, Coherent, Fresh, At, Early
  <2>2. CASE job'[j].at = "ended"
    BY <1>4, <2>2, EndedCoherent DEF Told
  <2>3. CASE job'[j].at = "preparing"
    BY <1>4, <2>1, <2>3 DEF Coherent, Fresh, Preparing, Activating, Removing, Recovering, Locked, Told,
       Critical, Early, Prepared
  <2> QED BY <1>4, <2>2, <2>3
<1>6. ASSUME NEW k \in Jobs \ {j} PROVE Coherent(k)'
  BY <1>1, <1>3, <1>4, Bystander, OneCritical
<1> QED BY <1>3, <1>4, <1>5, <1>6 DEF StoreInv
-----------------------------------------------------------------------------
\* A step of the process in the critical section, or of one that finds the lock
\* free: nobody else has established anything that the step could disturb.
LEMMA StepUnderLock ==
  ASSUME StoreInv, NEW j \in Jobs, lock = Nobody \/ job[j].at \in Critical,
         TypeOK', JobTypeOK', Coherent(j)',
         \A k \in Jobs \ {j} : /\ job'[k] = job[k] /\ receipt'[k] = receipt[k]
                               /\ k \in wrote' <=> k \in wrote
                               /\ lease'[k] = lease[k]
  PROVE  StoreInv'
<1>1. ASSUME NEW k \in Jobs \ {j} PROVE Coherent(k)'
  BY Bystander, OneCritical
<1> QED BY <1>1 DEF StoreInv

\* A process that ends under the lock promises only its receipt, and the others nothing new.
LEMMA ExitUnderLock ==
  ASSUME StoreInv, NEW j \in Jobs, lock = Nobody \/ job[j].at \in Critical,
         TypeOK', Exits(j), Told(j)',
         \A k \in Jobs \ {j} : /\ receipt'[k] = receipt[k]
                               /\ k \in wrote' <=> k \in wrote
                               /\ lease'[k] = lease[k]
  PROVE  StoreInv'
<1>1. JobTypeOK' /\ job'[j].at = "ended" /\ \A k \in Jobs \ {j} : job'[k] = job[k]
  BY Exited DEF StoreInv
<1>2. Coherent(j)'
  BY <1>1, EndedCoherent
<1> QED BY <1>1, <1>2, StepUnderLock

\* Each receipt of the preparation names the stage that follows.
LEMMA PrepareInv ==
  ASSUME StoreInv, NEW j \in Jobs, Prepare(j)
  PROVE  StoreInv'
<1> DEFINE next == AfterState[receipt[j]]
<1>1. /\ job[j].at = "preparing" /\ receipt[j] \in Prepared /\ j \notin wrote
      /\ job[j].version \in Versions /\ lock = j
  BY DEF Prepare, At, StoreInv, Coherent, Preparing, Locked, Critical
<1>2. next \in Prepared \cup {"activating"}
  BY <1>1 DEF AfterState, Prepared
<1>3. /\ receipt' = [receipt EXCEPT ![j] = next]
      /\ Goes(j, IF next = "activating" THEN "placing" ELSE "preparing")
      /\ UNCHANGED <<registry, tree, lock, lease, chosen, wrote>>
  BY DEF Prepare, Save
<1>4. TypeOK'
  BY <1>2, <1>3 DEF StoreInv, TypeOK, States, Prepared
<1>5. /\ JobTypeOK' /\ job'[j].at = (IF next = "activating" THEN "placing" ELSE "preparing")
      /\ job'[j].version = job[j].version /\ \A k \in Jobs \ {j} : job'[k] = job[k]
  BY <1>3, Moved DEF StoreInv, Places, Critical
<1>6. receipt'[j] = next /\ \A k \in Jobs \ {j} : receipt'[k] = receipt[k]
  BY <1>3 DEF StoreInv, TypeOK
<1>7. Coherent(j)'
  <2>1. CASE next = "activating"
    BY <1>1, <1>3, <1>5, <1>6, <2>1 DEF Coherent, Fresh, Preparing, Activating, Removing, Recovering, Locked,
       Told, Critical, Early
  <2>2. CASE next \in Prepared
    BY <1>1, <1>3, <1>5, <1>6, <2>2 DEF Coherent, Fresh, Preparing, Activating, Removing, Recovering, Locked,
       Told, Critical, Early, Prepared
  <2> QED BY <1>2, <2>1, <2>2
<1> QED BY <1>1, <1>3, <1>4, <1>5, <1>6, <1>7, StepUnderLock DEF Critical

\* An abandoned preparation has activated nothing.
LEMMA AbandonInv ==
  ASSUME StoreInv, NEW j \in Jobs, Abandon(j)
  PROVE  StoreInv'
<1>1. job[j].at = "preparing" /\ j \notin wrote
  BY DEF Abandon, At, StoreInv, Coherent, Preparing
<1>2. Exits(j) /\ lock' = Nobody /\ UNCHANGED <<registry, tree, lease, chosen, wrote>>
  BY DEF Abandon, Ends
<1>3. \E st \in {"failed", "cancelled"} : receipt' \in {receipt, [receipt EXCEPT ![j] = st]}
  BY DEF Abandon, Save
<1>4. TypeOK' /\ \A k \in Jobs \ {j} : receipt'[k] = receipt[k]
  BY <1>2, <1>3 DEF StoreInv, TypeOK, States, Terminal
<1> QED BY <1>1, <1>2, <1>4, ExitUnderLock DEF Told, Critical

\* The directory of the version is whole before the registry names it.
LEMMA PlaceInv ==
  ASSUME StoreInv, NEW j \in Jobs, Place(j)
  PROVE  StoreInv'
<1> DEFINE v == job[j].version
<1>1. job[j].at = "placing" /\ receipt[j] = "activating" /\ v \in Versions /\ lock = j
  BY DEF Place, At, StoreInv, Coherent, Activating, Locked, Critical
<1>2. UNCHANGED <<registry, receipt, lease, chosen, wrote>>
  BY DEF Place, Unsettled
<1>3. tree' \in {tree, [tree EXCEPT ![v] = "whole"]} /\ lock' \in {lock, Nobody}
  BY DEF Place, Unsettled, Ends
<1>4. TypeOK'
  BY <1>1, <1>2, <1>3 DEF StoreInv, TypeOK
<1>5. CASE Exits(j)
  BY <1>1, <1>2, <1>4, <1>5, ExitUnderLock DEF Told, Critical
<1>6. CASE tree' = [tree EXCEPT ![v] = "whole"] /\ Goes(j, "pointing") /\ lock' = lock
  <2>1. /\ JobTypeOK' /\ job'[j].at = "pointing" /\ job'[j].version = v
        /\ \A k \in Jobs \ {j} : job'[k] = job[k]
    BY <1>6, Moved DEF StoreInv, Places, Critical
  <2>2. tree'[v] = "whole"
    BY <1>1, <1>6 DEF StoreInv, TypeOK
  <2>3. Coherent(j)'
    BY <1>1, <1>2, <1>6, <2>1, <2>2 DEF Coherent, Fresh, Preparing, Activating, Removing, Recovering, Locked,
       Told, Critical, Early
  <2> QED BY <1>1, <1>2, <1>4, <2>1, <2>3, StepUnderLock DEF Critical
<1> QED BY <1>5, <1>6 DEF Place, Unsettled, Ends

\* The registry names the version of the process that holds the lock.
LEMMA PointInv ==
  ASSUME StoreInv, NEW j \in Jobs, Point(j)
  PROVE  StoreInv'
<1> DEFINE v == job[j].version
<1>1. /\ job[j].at = "pointing" /\ receipt[j] = "activating" /\ v \in Versions /\ lock = j
      /\ tree[v] = "whole"
  BY DEF Point, At, StoreInv, Coherent, Activating, Locked, Critical
<1>2. UNCHANGED <<tree, receipt, lease, chosen>>
  BY DEF Point, Unsettled
<1>3. registry' \in {registry, Activated(v)} /\ wrote' \in {wrote, wrote \cup {j}} /\ lock' \in {lock, Nobody}
  BY DEF Point, Unsettled, Ends
<1>4. TypeOK'
  <2>1. Activated(v) \in [active : Targets, previous : Targets, enabled : BOOLEAN]
    BY <1>1 DEF StoreInv, TypeOK, Targets, Activated
  <2> QED BY <1>1, <1>2, <1>3, <2>1 DEF StoreInv, TypeOK, Targets
<1>5. CASE Exits(j)
  BY <1>1, <1>2, <1>3, <1>4, <1>5, ExitUnderLock DEF Told, Critical
<1>6. CASE registry' = Activated(v) /\ Goes(j, "completing") /\ lock' = lock
  <2>1. /\ JobTypeOK' /\ job'[j].at = "completing" /\ job'[j].version = v
        /\ \A k \in Jobs \ {j} : job'[k] = job[k]
    BY <1>6, Moved DEF StoreInv, Places, Critical
  <2>2. registry'.active = v
    BY <1>6 DEF Activated
  <2>3. Coherent(j)'
    BY <1>1, <1>2, <1>6, <2>1, <2>2 DEF Coherent, Fresh, Preparing, Activating, Removing, Recovering, Locked,
       Told, Critical, Early
  <2> QED BY <1>1, <1>2, <1>3, <1>4, <2>1, <2>3, StepUnderLock DEF Critical
<1> QED BY <1>5, <1>6 DEF Point, Unsettled, Ends

\* The last receipt of an installation.
LEMMA CompleteInv ==
  ASSUME StoreInv, NEW j \in Jobs, Complete(j)
  PROVE  StoreInv'
<1>1. job[j].at = "completing" /\ receipt[j] = "activating"
  BY DEF Complete, At, StoreInv, Coherent, Activating
<1>2. /\ Exits(j) /\ lock' = Nobody /\ UNCHANGED <<registry, tree, lease, chosen, wrote>>
      /\ receipt' \in {receipt, [receipt EXCEPT ![j] = "completed"]}
  BY DEF Complete, Ends, Save
<1>3. TypeOK'
  BY <1>1, <1>2 DEF StoreInv, TypeOK, States, Terminal
<1>4. receipt'[j] \in {"activating", "completed"} /\ \A k \in Jobs \ {j} : receipt'[k] = receipt[k]
  BY <1>1, <1>2 DEF StoreInv, TypeOK
<1> QED BY <1>4, <1>1, <1>2, <1>3, ExitUnderLock DEF Told, Critical
-----------------------------------------------------------------------------
\* Enabling, disabling and rolling back are one write of the registry.
LEMMA RewriteInv ==
  ASSUME StoreInv, NEW j \in Jobs, lock = Nobody, job[j].at = "waiting",
         NEW possible \in BOOLEAN,
         NEW new \in [active : Targets, previous : Targets, enabled : BOOLEAN],
         Rewrite(j, possible, new)
  PROVE  StoreInv'
<1>1. /\ registry' \in {registry, new} /\ Exits(j)
      /\ UNCHANGED <<tree, receipt, lock, lease, chosen, wrote>>
  BY DEF Rewrite
<1>2. TypeOK'
  BY <1>1 DEF StoreInv, TypeOK, Targets
<1>3. Told(j)'
  BY <1>1 DEF StoreInv, Coherent, Told
<1> QED BY <1>1, <1>2, <1>3, ExitUnderLock

\* Enabling, disabling and rolling back need nothing beyond the registry.
LEMMA SwitchInv ==
  ASSUME StoreInv, NEW j \in Jobs, Enable(j) \/ Disable(j) \/ Rollback(j)
  PROVE  StoreInv'
<1>1. job[j].at = "waiting" /\ lock = Nobody
  BY DEF Enable, Disable, Rollback, Admitted, At
<1>2. /\ [registry EXCEPT !.enabled = TRUE] \in [active : Targets, previous : Targets, enabled : BOOLEAN]
      /\ [registry EXCEPT !.enabled = FALSE] \in [active : Targets, previous : Targets, enabled : BOOLEAN]
      /\ [active |-> registry.previous, previous |-> registry.active, enabled |-> TRUE]
             \in [active : Targets, previous : Targets, enabled : BOOLEAN]
  BY DEF StoreInv, TypeOK, Targets
<1> QED BY <1>1, <1>2, RewriteInv DEF Enable, Disable, Rollback

\* A removal has seen that nobody reads what it is going to remove.
LEMMA RemoveInv ==
  ASSUME StoreInv, NEW j \in Jobs, Remove(j)
  PROVE  StoreInv'
<1>1. job[j].at = "waiting" /\ lock = Nobody /\ UNCHANGED <<registry, tree, receipt, lease, chosen, wrote>>
  BY DEF Remove, Admitted, At
<1>2. Told(j)'
  BY <1>1 DEF StoreInv, Coherent, Told
<1>3. CASE Ends(j)
  <2>1. TypeOK'
    BY <1>1, <1>3 DEF StoreInv, TypeOK, Ends
  <2> QED BY <1>1, <1>2, <1>3, <2>1, ExitUnderLock DEF Ends
<1>4. CASE Free /\ job' = [job EXCEPT ![j].at = "unlisting", ![j].todo = Present] /\ lock' = j
  <2>1. TypeOK'
    BY <1>1, <1>4 DEF StoreInv, TypeOK
  <2>2. Present \in Subjects /\ Present \subseteq Versions /\ Present \cap Leased = {}
    BY <1>4 DEF Present, Subjects, Free
  <2>3. /\ JobTypeOK' /\ job'[j].at = "unlisting" /\ job'[j].todo = Present
        /\ \A k \in Jobs \ {j} : job'[k] = job[k]
    BY <1>4, <2>2, Gathered DEF StoreInv, Places, Critical
  <2>4. Coherent(j)'
    BY <1>1, <1>2, <1>4, <2>2, <2>3 DEF Coherent, Fresh, Preparing, Activating, Removing, Recovering, Locked,
       Critical, Early, Leased
  <2> QED BY <1>1, <2>1, <2>3, <2>4, StepUnderLock
<1> QED BY <1>3, <1>4 DEF Remove

\* A removal whose wait for a lease is over ends and leaves the store.
LEMMA StopWaitingInv ==
  ASSUME StoreInv, NEW j \in Jobs, StopWaiting(j)
  PROVE  StoreInv'
<1>1. Exits(j) /\ UNCHANGED <<registry, tree, receipt, lock, lease, chosen, wrote>>
  BY DEF StopWaiting
<1>2. JobTypeOK' /\ job'[j].at = "ended" /\ \A k \in Jobs \ {j} : job'[k] = job[k]
  BY <1>1, Exited DEF StoreInv
<1>3. Coherent(j)'
  BY <1>1, <1>2, EndedCoherent DEF StoreInv, Coherent, Told
<1>4. ASSUME NEW k \in Jobs \ {j} PROVE Coherent(k)'
  BY <1>1, <1>2, Untouched DEF Leased
<1> QED BY <1>1, <1>2, <1>3, <1>4 DEF StoreInv, TypeOK

\* What is removed leaves the registry first.
LEMMA UnlistInv ==
  ASSUME StoreInv, NEW j \in Jobs, Unlist(j)
  PROVE  StoreInv'
<1> DEFINE gone == job[j].todo
<1>1. /\ job[j].at = "unlisting" /\ lock = j /\ gone \subseteq Versions /\ gone \cap Leased = {}
      /\ Told(j)
  BY DEF Unlist, At, StoreInv, Coherent, Removing, Locked, Critical
<1>2. /\ registry' \in {registry, Unlisted(gone)} /\ UNCHANGED <<tree, receipt, lease, chosen, wrote>>
      /\ lock' \in {lock, Nobody}
  BY DEF Unlist, Ends
<1>3. TypeOK'
  <2>1. Unlisted(gone) \in [active : Targets, previous : Targets, enabled : BOOLEAN]
    BY DEF StoreInv, TypeOK, Targets, Unlisted
  <2> QED BY <1>2, <2>1 DEF StoreInv, TypeOK, Targets
<1>4. CASE Exits(j)
  BY <1>1, <1>2, <1>3, <1>4, ExitUnderLock DEF Told, Critical
<1>5. CASE registry' = Unlisted(gone) /\ Goes(j, "removing") /\ lock' = lock
  <2>1. /\ JobTypeOK' /\ job'[j].at = "removing" /\ job'[j].todo = gone
        /\ \A k \in Jobs \ {j} : job'[k] = job[k]
    BY <1>5, Moved DEF StoreInv, Places, Critical
  <2>2. registry'.active \notin gone /\ registry'.previous \notin gone
    BY <1>1, <1>5, StoreAssumption DEF Unlisted
  <2>3. Coherent(j)'
    BY <1>1, <1>2, <1>5, <2>1, <2>2 DEF Coherent, Fresh, Preparing, Activating, Removing, Recovering, Locked,
       Told, Critical, Early, Leased
  <2> QED BY <1>1, <1>2, <1>3, <2>1, <2>3, StepUnderLock DEF Critical
<1> QED BY <1>4, <1>5 DEF Unlist, Ends

\* A directory goes file by file; the process may end in the middle of it.
LEMMA RemoveTreeInv ==
  ASSUME StoreInv, NEW j \in Jobs, RemoveTree(j)
  PROVE  StoreInv'
<1> DEFINE gone == job[j].todo
<1>1. /\ job[j].at = "removing" /\ lock = j /\ gone \subseteq Versions /\ gone \cap Leased = {}
      /\ registry.active \notin gone /\ registry.previous \notin gone /\ Told(j)
  BY DEF RemoveTree, At, StoreInv, Coherent, Removing, Locked, Critical
<1>2. UNCHANGED <<registry, receipt, lease, chosen, wrote>> /\ lock' \in {lock, Nobody}
  BY DEF RemoveTree, Ends
<1>3. \E v \in gone : tree' \in {tree, [tree EXCEPT ![v] = "partial"], [tree EXCEPT ![v] = "none"]}
  BY DEF RemoveTree
<1>4. TypeOK'
  BY <1>1, <1>2, <1>3 DEF StoreInv, TypeOK
<1>5. CASE Exits(j)
  BY <1>1, <1>2, <1>4, <1>5, ExitUnderLock DEF Told, Critical
<1>6. CASE UNCHANGED <<job, lock>>
  <2>1. Coherent(j)'
    BY <1>1, <1>2, <1>6 DEF Coherent, Fresh, Preparing, Activating, Removing, Recovering, Locked,
       Told, Critical, Early, Leased
  <2>2. JobTypeOK'
    BY <1>6 DEF StoreInv, JobTypeOK
  <2> QED BY <1>1, <1>2, <1>4, <1>6, <2>1, <2>2, StepUnderLock DEF Critical
<1>7. CASE \E v \in gone : /\ job' = [job EXCEPT ![j] = DoneWith(j, v)]
                          /\ lock' = IF gone = {v} THEN Nobody ELSE lock
  <2>1. PICK v \in gone : /\ job' = [job EXCEPT ![j] = DoneWith(j, v)]
                          /\ lock' = IF gone = {v} THEN Nobody ELSE lock
    BY <1>7
  <2>2. /\ JobTypeOK' /\ \A k \in Jobs \ {j} : job'[k] = job[k]
        /\ \/ gone = {v} /\ job'[j].at = "ended"
           \/ gone # {v} /\ job'[j].at = job[j].at /\ job'[j].todo = gone \ {v}
    BY <2>1, Worked DEF StoreInv
  <2>3. Coherent(j)'
    BY <1>1, <1>2, <2>1, <2>2 DEF Coherent, Fresh, Preparing, Activating, Removing, Recovering, Locked,
       Told, Critical, Early, Leased
  <2> QED BY <1>1, <1>2, <1>4, <2>2, <2>3, StepUnderLock DEF Critical
<1> QED BY <1>5, <1>6, <1>7 DEF RemoveTree, Ends
-----------------------------------------------------------------------------
\* A recovery judges only receipts that nothing has settled.
LEMMA RecoverInv ==
  ASSUME StoreInv, NEW j \in Jobs, Recover(j)
  PROVE  StoreInv'
<1>1. job[j].at = "waiting" /\ lock = Nobody /\ UNCHANGED <<registry, tree, receipt, lease, chosen, wrote>>
  BY DEF Recover, Admitted, At
<1>2. Told(j)'
  BY <1>1 DEF StoreInv, Coherent, Told
<1>3. CASE Ends(j)
  <2>1. TypeOK'
    BY <1>1, <1>3 DEF StoreInv, TypeOK, Ends
  <2> QED BY <1>1, <1>2, <1>3, <2>1, ExitUnderLock DEF Ends
<1>4. CASE lock' = j /\ job' = [job EXCEPT ![j].at = "recovering", ![j].todo = Unresolved]
  <2>1. TypeOK'
    BY <1>1, <1>4 DEF StoreInv, TypeOK
  <2>2. Unresolved \in Subjects
    BY DEF Unresolved, Subjects
  <2>3. /\ JobTypeOK' /\ job'[j].at = "recovering" /\ job'[j].todo = Unresolved
        /\ \A k \in Jobs \ {j} : job'[k] = job[k]
    BY <1>4, <2>2, Gathered DEF StoreInv, Places, Critical
  <2>4. Coherent(j)'
    BY <1>1, <1>2, <1>4, <2>3 DEF Coherent, Fresh, Preparing, Activating, Removing, Recovering, Locked,
       Critical, Early, Unresolved
  <2> QED BY <1>1, <2>1, <2>3, <2>4, StepUnderLock
<1> QED BY <1>3, <1>4 DEF Recover

\* What a recovery writes to a receipt.
LEMMA Verdict ==
  ASSUME StoreInv, NEW k \in Unresolved
  PROVE  /\ Judged(k) \in {"completed", "recovery_required", receipt[k]}
         /\ Judged(k) \in States \ {"failed", "cancelled", "absent"}
         /\ Judged(k) = "completed" => registry.active = job[k].version /\ tree[job[k].version] = "whole"
<1>1. receipt[k] \in States \ {"failed", "cancelled", "absent"} /\ receipt[k] # "completed"
  BY DEF StoreInv, TypeOK, Unresolved, Terminal
<1>2. "completed" \in States /\ "recovery_required" \in States
  BY DEF States, Terminal
<1> QED BY <1>1, <1>2 DEF Judged

\* A recovery settles one receipt by what registry and directory show.
LEMMA ReconcileInv ==
  ASSUME StoreInv, NEW j \in Jobs, Reconcile(j)
  PROVE  StoreInv'
<1>1. /\ job[j].at = "recovering" /\ lock = j /\ job[j].todo \subseteq Unresolved
      /\ UNCHANGED <<registry, tree, lease, chosen, wrote>>
  BY DEF Reconcile, At, StoreInv, Coherent, Recovering, Locked, Critical
<1>2. PICK k \in job[j].todo :
        \/ /\ receipt' = [receipt EXCEPT ![k] = Judged(k)]
           /\ lock' = IF job[j].todo = {k} THEN Nobody ELSE lock
           /\ job' = [job EXCEPT ![j] = DoneWith(j, k)]
        \/ receipt' \in {receipt, [receipt EXCEPT ![k] = Judged(k)]} /\ Ends(j)
  BY DEF Reconcile, Save
<1>3. k \in Unresolved /\ k \in Jobs
  BY <1>1 DEF Unresolved
<1>4. Judged(k) \in States \ {"failed", "cancelled", "absent"} /\ receipt[k] \notin {"absent", "failed", "cancelled"}
  BY <1>3, Verdict DEF Unresolved, Terminal
<1>5. /\ TypeOK' /\ (\A i \in Jobs \ {k} : receipt'[i] = receipt[i])
      /\ receipt'[k] \notin {"failed", "cancelled", "absent"}
  BY <1>1, <1>2, <1>3, <1>4 DEF StoreInv, TypeOK, Ends
<1>6. /\ JobTypeOK' /\ \A i \in Jobs \ {j} : job'[i] = job[i]
      /\ \/ job'[j].at = "ended"
         \/ /\ job'[j].at = job[j].at /\ job'[j].todo = job[j].todo \ {k} /\ job[j].todo # {k}
            /\ lock' = lock
  <2>1. CASE job' = [job EXCEPT ![j] = DoneWith(j, k)] /\ lock' = IF job[j].todo = {k} THEN Nobody ELSE lock
    BY <2>1, Worked DEF StoreInv
  <2>2. CASE Ends(j)
    BY <2>2, Exited DEF StoreInv, Ends
  <2> QED BY <1>2, <2>1, <2>2
<1>7. \A i \in Jobs : Told(i)'
  BY <1>1, <1>5 DEF StoreInv, Coherent, Told
<1>8. Coherent(j)'
  BY <1>1, <1>5, <1>6, <1>7, EndedCoherent DEF Coherent, Fresh, Preparing, Activating, Removing, Recovering, Locked,
     Critical, Early, Unresolved
<1>9. ASSUME NEW i \in Jobs \ {j} PROVE Coherent(i)'
  <2>1. job[i].at \notin Critical
    BY <1>1, OneCritical DEF Critical
  <2>2. job[i].at \in Early => i # k
    BY <1>4 DEF StoreInv, Coherent, Fresh
  <2> QED BY <1>1, <1>5, <1>6, <1>7, <2>1, <2>2 DEF StoreInv, Coherent, Fresh, Preparing, Activating,
             Removing, Recovering, Locked, Critical
<1> QED BY <1>5, <1>6, <1>8, <1>9 DEF StoreInv
-----------------------------------------------------------------------------
\* A lease is only given while no process removes anything.
LEMMA ChooseInv ==
  ASSUME StoreInv, NEW r \in Readers, Choose(r)
  PROVE  StoreInv'
<1>1. UNCHANGED <<registry, tree, receipt, job, lock, lease, wrote>>
  BY DEF Choose
<1>2. TypeOK'
  BY <1>1 DEF StoreInv, TypeOK, Choose
<1>3. ASSUME NEW k \in Jobs PROVE Coherent(k)'
  BY <1>1, Untouched DEF Leased
<1> QED BY <1>1, <1>2, <1>3 DEF StoreInv, JobTypeOK

\* A reader leases a version outside the removals under way.
LEMMA AcquireInv ==
  ASSUME StoreInv, NEW r \in Readers, Acquire(r)
  PROVE  StoreInv'
<1>1. UNCHANGED <<registry, tree, receipt, job, lock, wrote>> /\ lock = Nobody
  BY DEF Acquire
<1>2. TypeOK'
  BY <1>1 DEF StoreInv, TypeOK, Acquire, Holders
<1>3. r \notin Jobs /\ Nobody \notin Jobs
  BY StoreAssumption DEF Jobs, Nobody
<1>4. ASSUME NEW k \in Jobs PROVE Coherent(k)'
  <2>1. job[k].at \notin Critical
    BY <1>1, <1>3 DEF StoreInv, Coherent, Locked
  <2>2. lease'[k] = lease[k]
    BY <1>3 DEF StoreInv, TypeOK, Holders, Acquire
  <2> QED BY <1>1, <2>1, <2>2, Bystander
<1> QED BY <1>1, <1>2, <1>4 DEF StoreInv, JobTypeOK

\* A reader that ends its lease disturbs no one.
LEMMA ReleaseInv ==
  ASSUME StoreInv, NEW r \in Readers, Release(r)
  PROVE  StoreInv'
<1>1. UNCHANGED <<registry, tree, receipt, job, lock, chosen, wrote>> /\ lease' = [lease EXCEPT ![r] = NoVersion]
  BY DEF Release
<1>2. TypeOK'
  BY <1>1 DEF StoreInv, TypeOK, Holders
<1>3. r \notin Jobs
  BY StoreAssumption DEF Jobs
<1>4. ASSUME NEW k \in Jobs PROVE Coherent(k)'
  BY <1>1, <1>3, Untouched DEF Leased, StoreInv, TypeOK, Holders
<1> QED BY <1>1, <1>2, <1>4 DEF StoreInv, JobTypeOK

\* A verification leases the active version under the lock.
LEMMA VerifyInv ==
  ASSUME StoreInv, NEW j \in Jobs, Verify(j)
  PROVE  StoreInv'
<1>1. /\ UNCHANGED <<registry, tree, receipt, lock, chosen, wrote>> /\ lock = Nobody
      /\ job[j].at = "waiting"
  BY DEF Verify, Admitted, At
<1>2. lease' \in {lease, [lease EXCEPT ![j] = registry.active]}
  BY DEF Verify
<1>3. TypeOK' /\ \A k \in Jobs \ {j} : lease'[k] = lease[k]
  BY <1>1, <1>2 DEF StoreInv, TypeOK, Holders
<1>4. Told(j)'
  BY <1>1 DEF StoreInv, Coherent, Told
<1>5. CASE Exits(j)
  BY <1>1, <1>3, <1>4, <1>5, ExitUnderLock
<1>6. CASE Goes(j, "verifying")
  <2>1. JobTypeOK' /\ job'[j].at = "verifying" /\ \A k \in Jobs \ {j} : job'[k] = job[k]
    BY <1>6, Moved DEF StoreInv, Places
  <2>2. Coherent(j)'
    BY <1>4, <2>1 DEF Coherent, Fresh, Preparing, Activating, Removing, Recovering, Locked, Critical, Early
  <2> QED BY <1>1, <1>3, <2>1, <2>2, StepUnderLock
<1> QED BY <1>5, <1>6 DEF Verify

\* A verification that ends gives lease and lock back.
LEMMA VerifiedInv ==
  ASSUME StoreInv, NEW j \in Jobs, Verified(j)
  PROVE  StoreInv'
<1>1. /\ UNCHANGED <<registry, tree, receipt, lock, chosen, wrote>> /\ Exits(j)
      /\ lease' = [lease EXCEPT ![j] = NoVersion]
  BY DEF Verified
<1>2. TypeOK'
  BY <1>1 DEF StoreInv, TypeOK, Holders
<1>3. JobTypeOK' /\ job'[j].at = "ended" /\ \A k \in Jobs \ {j} : job'[k] = job[k]
  BY <1>1, Exited DEF StoreInv
<1>4. Coherent(j)'
  BY <1>1, <1>3, EndedCoherent DEF StoreInv, Coherent, Told
<1>5. ASSUME NEW k \in Jobs \ {j} PROVE Coherent(k)'
  BY <1>1, <1>3, Untouched DEF Leased, StoreInv, TypeOK, Holders
<1> QED BY <1>2, <1>3, <1>4, <1>5 DEF StoreInv

\* One case for each step of the store.
LEMMA StoreStep == StoreInv /\ [Next]_vars => StoreInv'
<1>1. StoreInv /\ UNCHANGED vars => StoreInv'
  BY DEF StoreInv, vars, TypeOK, JobTypeOK, Coherent, Fresh, Preparing, Activating, Removing, Recovering,
     Locked, Told, Leased, Unresolved
<1>2. ASSUME StoreInv, NEW j \in Jobs, Work(j) PROVE StoreInv'
  BY <1>2, PackInv, BeginInv, PrepareInv, AbandonInv, PlaceInv, PointInv, CompleteInv, SwitchInv, RemoveInv,
     StopWaitingInv, UnlistInv, RemoveTreeInv, RecoverInv, ReconcileInv, VerifyInv, VerifiedInv DEF Work
<1> QED BY <1>1, <1>2, CancelInv, KillInv, LaunchInv, ChooseInv, AcquireInv, ReleaseInv DEF Next
-----------------------------------------------------------------------------
(* What a step may do to the receipts.                                      *)

\* A receipt that changes was open, and becomes "completed" only for the active
\* and whole version.
Settles(j) == receipt[j] # receipt'[j] =>
                /\ receipt[j] \notin Terminal
                /\ receipt'[j] = "completed" =>
                     registry'.active = job[j].version /\ tree'[job[j].version] = "whole"

\* An installing process only ever writes its own receipt.
LEMMA OwnReceipt ==
  ASSUME StoreInv, NEW j \in Jobs, Begin(j) \/ Prepare(j) \/ Abandon(j) \/ Complete(j)
  PROVE  \A k \in Jobs : Settles(k)
<1>1. \E st : receipt' \in {receipt, [receipt EXCEPT ![j] = st]}
  BY DEF Begin, Prepare, Abandon, Complete, Save
<1>2. ASSUME NEW k \in Jobs \ {j} PROVE Settles(k)
  BY <1>1 DEF Settles, StoreInv, TypeOK
<1>3. CASE Begin(j)
  <2>1. receipt[j] = "absent"
    BY <1>3 DEF Begin, Admitted, At, StoreInv, Coherent, Fresh, Early
  <2>2. receipt'[j] \in {"absent", "queued"}
    BY <1>3, <2>1 DEF Begin, Save, StoreInv, TypeOK
  <2> QED BY <1>2, <2>1, <2>2 DEF Settles, Terminal
<1>4. CASE Prepare(j)
  <2>1. receipt[j] \in Prepared
    BY <1>4 DEF Prepare, At, StoreInv, Coherent, Preparing
  <2>2. receipt'[j] = AfterState[receipt[j]]
    BY <1>4 DEF Prepare, Save, StoreInv, TypeOK
  <2> QED BY <1>2, <2>1, <2>2 DEF Settles, Terminal, Prepared, AfterState
<1>5. CASE Abandon(j)
  <2>1. receipt[j] \in Prepared
    BY <1>5 DEF Abandon, At, StoreInv, Coherent, Preparing
  <2>2. receipt'[j] \in {receipt[j], "failed", "cancelled"}
    BY <1>5 DEF Abandon, Save, StoreInv, TypeOK
  <2> QED BY <1>2, <2>1, <2>2 DEF Settles, Terminal, Prepared
<1>6. CASE Complete(j)
  <2>1. /\ receipt[j] = "activating" /\ registry.active = job[j].version
        /\ tree[job[j].version] = "whole"
    BY <1>6 DEF Complete, At, StoreInv, Coherent, Activating
  <2>2. UNCHANGED <<registry, tree>>
    BY <1>6 DEF Complete
  <2> QED BY <1>2, <2>1, <2>2 DEF Settles, Terminal
<1> QED BY <1>3, <1>4, <1>5, <1>6

\* A recovery writes one receipt, by what registry and directory show.
LEMMA JudgedReceipt ==
  ASSUME StoreInv, NEW j \in Jobs, Reconcile(j)
  PROVE  \A k \in Jobs : Settles(k)
<1>1. job[j].todo \subseteq Unresolved /\ UNCHANGED <<registry, tree>>
  BY DEF Reconcile, At, StoreInv, Coherent, Recovering
<1>2. PICK k \in job[j].todo : receipt' \in {receipt, [receipt EXCEPT ![k] = Judged(k)]}
  BY DEF Reconcile, Save
<1>3. k \in Unresolved /\ k \in Jobs /\ receipt[k] \notin Terminal
  BY <1>1 DEF Unresolved
<1>4. Settles(k)
  BY <1>1, <1>2, <1>3, Verdict DEF Settles, StoreInv, TypeOK
<1>5. ASSUME NEW i \in Jobs \ {k} PROVE Settles(i)
  BY <1>2 DEF Settles, StoreInv, TypeOK
<1> QED BY <1>4, <1>5

\* Every step of the store settles receipts as it should.
LEMMA ReceiptStep ==
  ASSUME StoreInv, [Next]_vars
  PROVE  \A j \in Jobs : Settles(j)
<1>1. CASE UNCHANGED receipt
  BY <1>1 DEF Settles
<1>2. ASSUME NEW j \in Jobs, Begin(j) \/ Prepare(j) \/ Abandon(j) \/ Complete(j) \/ Reconcile(j)
      PROVE  \A k \in Jobs : Settles(k)
  BY <1>2, OwnReceipt, JudgedReceipt
<1>3. UNCHANGED receipt \/ \E j \in Jobs : Begin(j) \/ Prepare(j) \/ Abandon(j) \/ Complete(j) \/ Reconcile(j)
  <2>1. ASSUME NEW j \in Jobs, Work(j)
        PROVE  UNCHANGED receipt \/ Begin(j) \/ Prepare(j) \/ Abandon(j) \/ Complete(j) \/ Reconcile(j)
    BY <2>1 DEF Work, Pack, Place, Unsettled, Point, Enable, Disable, Rollback, Rewrite, Remove, StopWaiting,
                Unlist, RemoveTree, Recover, Verify, Verified
  <2>2. ASSUME NEW j \in Jobs, Cancel(j) \/ Kill(j) \/ \E op \in Ops : Launch(j, op)
        PROVE  UNCHANGED receipt
    BY <2>2 DEF Cancel, Kill, Launch
  <2>3. ASSUME NEW r \in Readers, Choose(r) \/ Acquire(r) \/ Release(r)
        PROVE  UNCHANGED receipt
    BY <2>3 DEF Choose, Acquire, Release
  <2> QED BY <2>1, <2>2, <2>3 DEF Next, vars
<1> QED BY <1>1, <1>2, <1>3
-----------------------------------------------------------------------------
(* The refinement, step by step.                                            *)

Whole == {v \in Versions : tree[v] = "whole"}

\* The concrete step leaves everything alone that the abstract store sees.
LEMMA Stutters ==
  ASSUME UNCHANGED <<registry, lease>>, {v \in Versions : tree'[v] = "whole"} = Whole
  PROVE  UNCHANGED Abstract!vars
BY DEF Abstract!vars, Whole

\* Placing a pack publishes a version, pointing activates it.
LEMMA InstallRefines ==
  ASSUME StoreInv, NEW j \in Jobs, Place(j) \/ Point(j)
  PROVE  Abstract!Next \/ UNCHANGED Abstract!vars
<1>1. PICK v \in Versions : v = job[j].version
  BY DEF Place, Point, At, StoreInv, Coherent, Activating
<1>2. CASE Place(j)
  <2>1. tree' \in {tree, [tree EXCEPT ![v] = "whole"]} /\ UNCHANGED <<registry, lease>>
    BY <1>1, <1>2 DEF Place, Unsettled
  <2>2. CASE tree' = tree
    BY <2>1, <2>2, Stutters DEF Whole
  <2>3. CASE tree' = [tree EXCEPT ![v] = "whole"]
    <3>1. {w \in Versions : tree'[w] = "whole"} = Whole \cup {v}
      BY <1>1, <2>3 DEF Whole, StoreInv, TypeOK
    <3>2. Abstract!Publish(v)
      BY <2>1, <3>1 DEF Abstract!Publish, Whole
    <3> QED BY <1>1, <3>2 DEF Abstract!Next
  <2> QED BY <2>1, <2>2, <2>3
<1>3. CASE Point(j)
  <2>1. tree[v] = "whole" /\ registry' \in {registry, Activated(v)} /\ UNCHANGED <<tree, lease>>
    BY <1>1, <1>3 DEF Point, Unsettled, At, StoreInv, Coherent, Activating
  <2>2. CASE registry' = registry
    BY <2>1, <2>2, Stutters DEF Whole
  <2>3. CASE registry' = Activated(v)
    <3>1. Abstract!Activate(v)
      BY <1>1, <2>1, <2>3 DEF Abstract!Activate, Activated
    <3> QED BY <1>1, <3>1 DEF Abstract!Next
  <2> QED BY <2>1, <2>2, <2>3
<1> QED BY <1>2, <1>3

\* The switches of the user are those of the abstract store.
LEMMA SwitchRefines ==
  ASSUME StoreInv, NEW j \in Jobs, Enable(j) \/ Disable(j) \/ Rollback(j)
  PROVE  Abstract!Next \/ UNCHANGED Abstract!vars
<1>1. UNCHANGED <<tree, lease>>
  BY DEF Enable, Disable, Rollback, Rewrite
<1>2. CASE registry' = registry
  BY <1>1, <1>2, Stutters DEF Whole
<1>3. CASE Enable(j) /\ registry' # registry
  <2>1. registry.active \in Whole /\ registry' = [registry EXCEPT !.enabled = TRUE]
    BY <1>3 DEF Enable, Rewrite, Whole, StoreInv, TypeOK
  <2>2. Abstract!SwitchOn
    BY <1>1, <2>1 DEF Abstract!SwitchOn, Whole, StoreInv, TypeOK
  <2> QED BY <2>2 DEF Abstract!Next
<1>4. CASE Disable(j) /\ registry' # registry
  <2>1. registry' = [registry EXCEPT !.enabled = FALSE]
    BY <1>4 DEF Disable, Rewrite
  <2>2. Abstract!SwitchOff
    BY <1>1, <2>1 DEF Abstract!SwitchOff, StoreInv, TypeOK
  <2> QED BY <2>2 DEF Abstract!Next
<1>5. CASE Rollback(j) /\ registry' # registry
  <2>1. /\ registry.previous \in Whole
        /\ registry' = [active |-> registry.previous, previous |-> registry.active, enabled |-> TRUE]
    BY <1>5 DEF Rollback, Rewrite, Whole, StoreInv, TypeOK
  <2>2. Abstract!RollBack
    BY <1>1, <2>1 DEF Abstract!RollBack, Whole
  <2> QED BY <2>2 DEF Abstract!Next
<1> QED BY <1>2, <1>3, <1>4, <1>5

\* A removal retires versions first and discards them one by one.
LEMMA RemovalRefines ==
  ASSUME StoreInv, NEW j \in Jobs, Unlist(j) \/ RemoveTree(j)
  PROVE  Abstract!Next \/ UNCHANGED Abstract!vars
<1> DEFINE gone == job[j].todo
<1>1. gone \subseteq Versions /\ gone \cap Leased = {}
  BY DEF Unlist, RemoveTree, At, StoreInv, Coherent, Removing
<1>2. CASE Unlist(j)
  <2>1. registry' \in {registry, Unlisted(gone)} /\ UNCHANGED <<tree, lease>>
    BY <1>2 DEF Unlist
  <2>2. CASE registry' = registry
    BY <2>1, <2>2, Stutters DEF Whole
  <2>3. CASE registry' = Unlisted(gone)
    <3>1. Abstract!Retire(gone)
      BY <2>1, <2>3 DEF Abstract!Retire, Unlisted
    <3> QED BY <1>1, <3>1 DEF Abstract!Next
  <2> QED BY <2>1, <2>2, <2>3
<1>3. CASE RemoveTree(j)
  <2>1. registry.active \notin gone /\ registry.previous \notin gone
    BY <1>3 DEF RemoveTree, At, StoreInv, Coherent, Removing
  <2>2. UNCHANGED <<registry, lease>>
    BY <1>3 DEF RemoveTree
  <2>3. PICK x \in gone : \/ tree' = tree
                          \/ tree[x] = "whole" /\ tree' = [tree EXCEPT ![x] = "partial"]
                          \/ tree[x] = "partial" /\ tree' = [tree EXCEPT ![x] = "none"]
    BY <1>3 DEF RemoveTree
  <2>4. CASE tree' = tree \/ (tree[x] = "partial" /\ tree' = [tree EXCEPT ![x] = "none"])
    <3>1. {w \in Versions : tree'[w] = "whole"} = Whole
      BY <1>1, <2>4 DEF Whole, StoreInv, TypeOK
    <3> QED BY <2>2, <3>1, Stutters
  <2>5. CASE tree[x] = "whole" /\ tree' = [tree EXCEPT ![x] = "partial"]
    <3>1. {w \in Versions : tree'[w] = "whole"} = Whole \ {x}
      BY <1>1, <2>5 DEF Whole, StoreInv, TypeOK
    <3>2. x \notin {registry.active, registry.previous} /\ \A h \in Holders : lease[h] # x
      BY <1>1, <2>1 DEF Leased
    <3>3. Abstract!Discard(x)
      BY <2>2, <3>1, <3>2 DEF Abstract!Discard, Whole
    <3> QED BY <1>1, <3>3 DEF Abstract!Next
  <2> QED BY <2>3, <2>4, <2>5
<1> QED BY <1>2, <1>3

\* A lease is held on a complete version while readers are served.
LEMMA Leases ==
  ASSUME StoreInv, NEW h \in Holders, lease[h] = NoVersion, NEW v, v \in Versions \cup {NoVersion},
         UNCHANGED <<registry, tree>>,
         lease' = [lease EXCEPT ![h] = IF Available(v) THEN v ELSE NoVersion]
  PROVE  Abstract!Next \/ UNCHANGED Abstract!vars
<1>1. CASE ~Available(v)
  <2>1. lease' = lease
    BY <1>1 DEF StoreInv, TypeOK
  <2> QED BY <2>1, Stutters DEF Whole
<1>2. CASE Available(v)
  <2>1. v \in Versions /\ v \in Whole /\ registry.enabled
    BY <1>2 DEF Available, Whole
  <2>2. Abstract!Hold(h, v)
    BY <1>2, <2>1 DEF Abstract!Hold, Whole
  <2> QED BY <2>1, <2>2 DEF Abstract!Next
<1> QED BY <1>1, <1>2

\* Ending a lease releases it.
LEMMA Releases ==
  ASSUME StoreInv, NEW h \in Holders, UNCHANGED <<registry, tree>>,
         lease' = [lease EXCEPT ![h] = NoVersion]
  PROVE  Abstract!Next
<1>1. Abstract!Release(h)
  BY DEF Abstract!Release
<1> QED BY <1>1 DEF Abstract!Next

\* What readers do with leases is what holders do.
LEMMA ReadingRefines ==
  ASSUME StoreInv, NEW r \in Readers, Acquire(r) \/ Release(r)
  PROVE  Abstract!Next \/ UNCHANGED Abstract!vars
<1>1. r \in Holders
  BY DEF Holders
<1>2. CASE Acquire(r)
  <2>1. lease[r] = NoVersion /\ UNCHANGED <<registry, tree>>
    BY <1>2 DEF Acquire
  <2>2. PICK v \in {registry.active, chosen[r]} :
          lease' = [lease EXCEPT ![r] = IF Available(v) THEN v ELSE NoVersion]
    BY <1>2 DEF Acquire
  <2>3. v \in Versions \cup {NoVersion}
    BY DEF StoreInv, TypeOK
  <2> QED BY <1>1, <2>1, <2>2, <2>3, Leases
<1>3. CASE Release(r)
  BY <1>1, <1>3, Releases DEF Release
<1> QED BY <1>2, <1>3

\* A verification is a holder too.
LEMMA VerifyRefines ==
  ASSUME StoreInv, NEW j \in Jobs, Verify(j) \/ Verified(j) \/ Kill(j)
  PROVE  Abstract!Next \/ UNCHANGED Abstract!vars
<1>1. j \in Holders /\ UNCHANGED <<registry, tree>>
  BY DEF Holders, Verify, Verified, Kill
<1>2. CASE Verify(j)
  <2>1. lease[j] = NoVersion
    BY <1>2 DEF Verify, Admitted, At, StoreInv, Coherent, Fresh, Early
  <2>2. lease' = [lease EXCEPT ![j] = IF Available(registry.active) THEN registry.active ELSE NoVersion]
    BY <1>1, <1>2, <2>1 DEF Verify, StoreInv, TypeOK
  <2>3. registry.active \in Versions \cup {NoVersion}
    BY DEF StoreInv, TypeOK
  <2> QED BY <1>1, <2>1, <2>2, <2>3, Leases
<1>3. CASE Verified(j) \/ Kill(j)
  BY <1>1, <1>3, Releases DEF Verified, Kill
<1> QED BY <1>2, <1>3

\* Every step of the store is one of the abstract store, or a stutter.
LEMMA StoreRefines == StoreInv /\ [Next]_vars => [Abstract!Next]_(Abstract!vars)
<1> SUFFICES ASSUME StoreInv, [Next]_vars
             PROVE  Abstract!Next \/ UNCHANGED Abstract!vars
  OBVIOUS
<1>1. CASE UNCHANGED <<registry, tree, lease>>
  BY <1>1, Stutters DEF Whole
<1>2. ASSUME NEW j \in Jobs, Work(j) \/ Cancel(j) \/ Kill(j) \/ \E op \in Ops : Launch(j, op)
      PROVE  \/ UNCHANGED <<registry, tree, lease>>
             \/ Place(j) \/ Point(j) \/ Enable(j) \/ Disable(j) \/ Rollback(j)
             \/ Unlist(j) \/ RemoveTree(j) \/ Verify(j) \/ Verified(j) \/ Kill(j)
  BY <1>2 DEF Work, Pack, Begin, Prepare, Abandon, Complete, Remove, StopWaiting, Recover, Reconcile,
              Cancel, Launch
<1>3. ASSUME NEW r \in Readers, Choose(r)
      PROVE  UNCHANGED <<registry, tree, lease>>
  BY <1>3 DEF Choose
<1>4. CASE UNCHANGED vars
  BY <1>1, <1>4 DEF vars
<1> QED BY <1>1, <1>2, <1>3, <1>4, InstallRefines, SwitchRefines, RemovalRefines, ReadingRefines, VerifyRefines
        DEF Next
-----------------------------------------------------------------------------
(* The job of a reader, on stores that keep the abstract promise.           *)

Helpers  == Versions \cup Providers \cup {NoVersion, Reading!Core}
Models   == Versions \cup {NoVersion}
Images   == Contents \cup {"none"}
Devices  == {"none", "cpu", "cuda"}
Effort   == [on : Devices, helper : Helpers, model : Models, content : Images, fallback : BOOLEAN]
Kinds    == {"decode", "infer"}
Stages   == {"start", "read", "chosen", "base", "decoding", "leased", "copied", "gpu", "gpu runs", "cpu",
             "told", "failed"}
Task     == [kind : Kinds, hardware : BOOLEAN, at : Stages, chosen : Models, fallback : BOOLEAN,
             work : Effort, answer : Effort]

ReaderTypeOK ==
  /\ complete \subseteq Versions /\ active \in Models /\ held \in [{"job"} -> Models]
  /\ pcomplete \subseteq Providers /\ pheld \in [{"job"} -> Providers \cup {NoVersion}]
  /\ previous \in Models
  /\ file \in Contents /\ task \in Task

\* What the job has by where it is: no model before it copied one, then the one it
\* leased; the GPU only if it was asked for, and a CPU attempt marked as a fallback.
Carried ==
  /\ task.at \in {"start", "read", "chosen", "base", "decoding", "leased"} => task.work.model = NoVersion
  /\ task.at \in {"base", "decoding"} => task.kind = "decode"
  /\ task.at \in {"copied", "gpu", "gpu runs", "cpu"} => task.work.model = held["job"]
  /\ task.at \in {"gpu", "gpu runs"} => task.hardware
  /\ task.at = "cpu" => task.fallback = task.hardware

ReaderInv == ReaderTypeOK /\ Carried /\ AnswerTruth

\* Moving the task, with or without marking a fallback, leaves the rest as it was.
LEMMA TaskMoves ==
  ASSUME NEW t \in Task, NEW p \in Stages
  PROVE  LET u == [t EXCEPT !.at = p]
         IN  u \in Task /\ u.at = p /\ u.kind = t.kind /\ u.hardware = t.hardware /\ u.work = t.work
BY DEF Task

\* Moving the task and marking a fallback leaves the rest as it was.
LEMMA TaskTurns ==
  ASSUME NEW t \in Task, NEW p \in Stages, NEW f \in BOOLEAN
  PROVE  LET u == [t EXCEPT !.at = p, !.fallback = f]
         IN  /\ u \in Task /\ u.at = p /\ u.fallback = f
             /\ u.kind = t.kind /\ u.hardware = t.hardware /\ u.work = t.work
BY DEF Task

\* Two records of what was done agree if their fields do.
LEMMA SameEffort ==
  ASSUME NEW a \in Effort, NEW b \in Effort, a.on = b.on, a.helper = b.helper, a.model = b.model,
         a.content = b.content, a.fallback = b.fallback
  PROVE  a = b
BY DEF Effort

\* A store that changes meanwhile keeps the version the job holds.
LEMMA StoreMovesInv ==
  ASSUME ReaderInv, Reading!StoreMoves
  PROVE  ReaderInv'
<1>1. UNCHANGED <<pcomplete, pheld, file, task, held>>
  BY DEF Reading!StoreMoves, Reading!provider, Reading!Tool!Publish, Reading!Tool!Activate, Reading!Tool!Discard,
     Reading!Tool!Retire, Reading!Tool!SwitchOn, Reading!Tool!SwitchOff, Reading!Tool!RollBack
<1>2. complete' \subseteq Versions /\ active' \in Models /\ previous' \in Models
  BY DEF ReaderInv, ReaderTypeOK, Models, Reading!StoreMoves, Reading!Tool!Publish, Reading!Tool!Activate,
     Reading!Tool!Discard, Reading!Tool!Retire, Reading!Tool!SwitchOn, Reading!Tool!SwitchOff, Reading!Tool!RollBack
<1>3. held["job"] \in complete => held["job"] \in complete'
  BY DEF Reading!StoreMoves, Reading!Tool!Publish, Reading!Tool!Activate, Reading!Tool!Discard,
     Reading!Tool!Retire, Reading!Tool!SwitchOn, Reading!Tool!SwitchOff, Reading!Tool!RollBack
<1> QED BY <1>1, <1>2, <1>3 DEF ReaderInv, ReaderTypeOK, Carried, AnswerTruth, Reading!AnswerTruth, Reading!At

\* A provider that changes meanwhile keeps the version the job holds.
LEMMA ProviderMovesInv ==
  ASSUME ReaderInv, Reading!ProviderMoves
  PROVE  ReaderInv'
<1>1. UNCHANGED <<complete, active, previous, held, file, task, pheld>>
  BY DEF Reading!ProviderMoves, Reading!store, Reading!Gpu!Publish, Reading!Gpu!Activate, Reading!Gpu!Discard,
     Reading!Gpu!Retire, Reading!Gpu!SwitchOn, Reading!Gpu!SwitchOff, Reading!Gpu!RollBack
<1>2. pcomplete' \subseteq Providers
  BY DEF ReaderInv, ReaderTypeOK, Reading!ProviderMoves, Reading!Gpu!Publish, Reading!Gpu!Activate,
     Reading!Gpu!Discard, Reading!Gpu!Retire, Reading!Gpu!SwitchOn, Reading!Gpu!SwitchOff, Reading!Gpu!RollBack
<1>3. pheld["job"] \in pcomplete => pheld["job"] \in pcomplete'
  BY DEF Reading!ProviderMoves, Reading!Gpu!Publish, Reading!Gpu!Activate, Reading!Gpu!Discard,
     Reading!Gpu!Retire, Reading!Gpu!SwitchOn, Reading!Gpu!SwitchOff, Reading!Gpu!RollBack
<1> QED BY <1>1, <1>2, <1>3 DEF ReaderInv, ReaderTypeOK, Carried, AnswerTruth, Reading!AnswerTruth, Reading!At

\* A file that changes meanwhile leaves what was read of it.
LEMMA FileChangesInv ==
  ASSUME ReaderInv, Reading!FileChanges
  PROVE  ReaderInv'
<1>1. file' \in Contents /\ UNCHANGED <<complete, active, previous, held, pcomplete, pheld, task>>
  BY DEF Reading!FileChanges, Reading!store, Reading!provider
<1> QED BY <1>1 DEF ReaderInv, ReaderTypeOK, Carried, AnswerTruth, Reading!AnswerTruth, Reading!At

\* A step of the job before it loaded anything keeps the invariant.
LEMMA EarlyInv ==
  ASSUME ReaderInv, UNCHANGED <<complete, active, previous, pcomplete, pheld, file>>,
         held' \in [{"job"} -> Models],
         task' \in Task, task'.at \in {"read", "chosen", "base", "decoding", "leased", "failed"},
         task.work.model = NoVersion, task'.work.model = task.work.model,
         task'.at \in {"base", "decoding"} => task'.kind = "decode",
         task'.at = "decoding" => held'["job"] \in complete
  PROVE  ReaderInv'
<1>1. ReaderTypeOK'
  BY DEF ReaderInv, ReaderTypeOK
<1>2. Carried'
  BY DEF Carried
<1>3. AnswerTruth'
  BY DEF AnswerTruth, Reading!AnswerTruth, Reading!At
<1> QED BY <1>1, <1>2, <1>3 DEF ReaderInv

\* Reading the image, choosing a component, or finding it gone.
LEMMA PrepareTask ==
  ASSUME ReaderInv, Reading!Snapshot \/ Reading!Choose \/ Reading!NoLease
  PROVE  ReaderInv'
<1>1. UNCHANGED <<complete, active, previous, held, pcomplete, pheld, file>>
  BY DEF Reading!Snapshot, Reading!Choose, Reading!NoLease, Reading!store, Reading!provider
<1>2. task \in Task /\ file \in Images /\ active \in Models /\ held \in [{"job"} -> Models]
  BY DEF ReaderInv, ReaderTypeOK, Images
<1>3. "read" \in Stages /\ "chosen" \in Stages /\ "base" \in Stages /\ "failed" \in Stages
  BY DEF Stages
<1>4. task.at \in {"start", "read", "chosen"} /\ task.work.model = NoVersion
  BY DEF Reading!Snapshot, Reading!Choose, Reading!NoLease, Reading!At, ReaderInv, Carried
<1>5. CASE Reading!Snapshot
  <2>1. task' = [task EXCEPT !.at = "read", !.work.content = file]
    BY <1>5 DEF Reading!Snapshot
  <2>2. task' \in Task /\ task'.at = "read" /\ task'.work.model = task.work.model
    BY <1>2, <1>3, <2>1 DEF Task, Effort
  <2> QED BY <1>1, <1>2, <1>4, <2>2, EarlyInv
<1>6. CASE Reading!Choose
  <2>1. \/ task' = [task EXCEPT !.at = "chosen", !.chosen = active]
        \/ task' = [task EXCEPT !.at = "base"] /\ task.kind = "decode"
        \/ task' = [task EXCEPT !.at = "failed"]
    BY <1>6 DEF Reading!Choose
  <2>2. /\ task' \in Task /\ task'.at \in {"chosen", "base", "failed"} /\ task'.work = task.work
        /\ task'.at = "base" => task'.kind = "decode"
    BY <1>2, <1>3, <2>1 DEF Task
  <2> QED BY <1>1, <1>2, <1>4, <2>2, EarlyInv
<1>7. CASE Reading!NoLease
  <2>1. task' = [task EXCEPT !.at = "failed"]
    BY <1>7 DEF Reading!NoLease
  <2>2. task' \in Task /\ task'.at = "failed" /\ task'.work = task.work
    BY <1>2, <1>3, <2>1, TaskMoves
  <2> QED BY <1>1, <1>2, <1>4, <2>2, EarlyInv
<1> QED BY <1>5, <1>6, <1>7

\* The lease is taken on a complete version.
LEMMA LeaseInv ==
  ASSUME ReaderInv, Reading!Lease
  PROVE  ReaderInv'
<1> DEFINE w == IF task.kind = "decode" THEN active ELSE task.chosen
           p == IF task.kind = "decode" THEN "decoding" ELSE "leased"
<1>1. /\ task.at = "chosen" /\ w \in complete /\ held' = [held EXCEPT !["job"] = w]
      /\ task' = [task EXCEPT !.at = p]
      /\ UNCHANGED <<complete, active, previous, pcomplete, pheld, file>>
  BY DEF Reading!Lease, Reading!At, Reading!Wanted, Reading!Tool!Hold, Reading!provider
<1>2. task \in Task /\ w \in Models /\ task.work.model = NoVersion
  BY <1>1 DEF ReaderInv, ReaderTypeOK, Models, Carried
<1>3. p \in Stages
  BY DEF Stages
<1>4. task' \in Task /\ task'.at = p /\ task'.kind = task.kind /\ task'.work = task.work
  BY <1>1, <1>2, <1>3, TaskMoves
<1>5. held' \in [{"job"} -> Models] /\ held'["job"] = w
  BY <1>1, <1>2 DEF ReaderInv, ReaderTypeOK
<1> QED BY <1>1, <1>2, <1>4, <1>5, EarlyInv

\* A step of the job with the model it copied.
LEMMA LoadedInv ==
  ASSUME ReaderInv, UNCHANGED <<complete, active, previous, held, pcomplete, file>>,
         pheld' \in [{"job"} -> Providers \cup {NoVersion}],
         task' \in Task, task'.at \in {"copied", "gpu", "gpu runs", "cpu"},
         task'.work.model = held["job"],
         task'.at \in {"gpu", "gpu runs"} => task'.hardware,
         task'.at = "gpu runs" => pheld'["job"] \in pcomplete,
         task'.at = "cpu" => task'.fallback = task'.hardware
  PROVE  ReaderInv'
<1>1. ReaderTypeOK'
  BY DEF ReaderInv, ReaderTypeOK
<1>2. Carried'
  BY DEF Carried
<1>3. AnswerTruth'
  BY DEF AnswerTruth, Reading!AnswerTruth, Reading!At
<1> QED BY <1>1, <1>2, <1>3 DEF ReaderInv

\* Copying the model, and asking for the GPU.
LEMMA LoadModel ==
  ASSUME ReaderInv, Reading!CopyModel \/ Reading!AskProvider
  PROVE  ReaderInv'
<1>1. UNCHANGED <<complete, active, previous, held, pcomplete, pheld, file>>
  BY DEF Reading!CopyModel, Reading!AskProvider, Reading!store, Reading!provider
<1>2. task \in Task /\ held["job"] \in Models /\ pheld \in [{"job"} -> Providers \cup {NoVersion}]
  BY DEF ReaderInv, ReaderTypeOK
<1>3. "copied" \in Stages /\ "gpu" \in Stages /\ "cpu" \in Stages
  BY DEF Stages
<1>4. CASE Reading!CopyModel
  <2>1. task' = [task EXCEPT !.at = "copied", !.work.model = held["job"]]
    BY <1>4 DEF Reading!CopyModel
  <2>2. task' \in Task /\ task'.at = "copied" /\ task'.work.model = held["job"]
    BY <1>2, <1>3, <2>1 DEF Task, Effort
  <2> QED BY <1>1, <1>2, <2>2, LoadedInv
<1>5. CASE Reading!AskProvider
  <2> DEFINE serves == task.hardware /\ Reading!GpuServes
             f == task.hardware /\ ~Reading!GpuServes
             p == IF serves THEN "gpu" ELSE "cpu"
  <2>1. /\ task.at = "copied" /\ task.work.model = held["job"]
        /\ task' = [task EXCEPT !.at = p, !.fallback = f]
    BY <1>5 DEF Reading!AskProvider, Reading!At, ReaderInv, Carried
  <2>2. p \in Stages /\ f \in BOOLEAN
    BY <1>3
  <2>3. /\ task' \in Task /\ task'.at = p /\ task'.fallback = f /\ task'.hardware = task.hardware
        /\ task'.work = task.work
    BY <1>2, <2>1, <2>2 DEF Task
  <2>4. task.hardware \in BOOLEAN
    BY <1>2 DEF Task
  <2>5. p = "cpu" => f = task.hardware
    BY <2>4
  <2>6. p = "gpu" => task.hardware
    OBVIOUS
  <2>7. p \in {"gpu", "cpu"}
    OBVIOUS
  <2> HIDE DEF p, f
  <2> QED BY <1>1, <1>2, <2>1, <2>3, <2>5, <2>6, <2>7, LoadedInv
<1> QED BY <1>4, <1>5

\* A CPU attempt that stands for the GPU is marked.
LEMMA FallsBackInv ==
  ASSUME ReaderInv, task.at \in {"gpu", "gpu runs"}, Reading!FallsBack,
         UNCHANGED <<complete, active, previous, held, pcomplete, file>>,
         pheld' \in [{"job"} -> Providers \cup {NoVersion}]
  PROVE  ReaderInv'
<1>1. task \in Task /\ task' = [task EXCEPT !.at = "cpu", !.fallback = TRUE]
  BY DEF ReaderInv, ReaderTypeOK, Reading!FallsBack
<1>2. "cpu" \in Stages
  BY DEF Stages
<1>3. /\ task' \in Task /\ task'.at = "cpu" /\ task'.fallback = TRUE /\ task'.hardware = task.hardware
      /\ task'.work = task.work
  BY <1>1, <1>2, TaskTurns
<1>4. task.hardware = TRUE
  BY <1>1 DEF ReaderInv, Carried, Task
<1>5. task'.work.model = held["job"]
  BY <1>3 DEF ReaderInv, Carried
<1> QED BY <1>3, <1>4, <1>5, LoadedInv

\* An answer that names device, helper, model and content of the work, and a
\* fallback exactly where one was needed, is true.
LEMMA ToldInv ==
  ASSUME ReaderInv, task' \in Task, task'.at = "told", task'.answer \in Effort,
         task'.answer.on = task'.work.on, task'.answer.helper = task'.work.helper,
         task'.answer.model = task'.work.model, task'.answer.content = task'.work.content,
         task'.kind = "infer" => (task'.answer.fallback <=> task'.hardware /\ task'.work.on = "cpu"),
         held' \in [{"job"} -> Models], pheld' \in [{"job"} -> Providers \cup {NoVersion}],
         UNCHANGED <<complete, active, previous, pcomplete, file>>
  PROVE  ReaderInv'
<1>1. task'.answer = [task'.work EXCEPT !.fallback = task'.answer.fallback]
  <2>1. task'.answer.fallback \in BOOLEAN /\ task'.work \in Effort
    BY DEF Task, Effort
  <2>2. LET b == [task'.work EXCEPT !.fallback = task'.answer.fallback]
        IN  /\ b \in Effort /\ b.on = task'.work.on /\ b.helper = task'.work.helper
            /\ b.model = task'.work.model /\ b.content = task'.work.content
            /\ b.fallback = task'.answer.fallback
    BY <2>1 DEF Effort
  <2> QED BY <2>2, SameEffort, ZenonT(40)
<1>2. AnswerTruth'
  BY <1>1 DEF AnswerTruth, Reading!AnswerTruth, Reading!At
<1>3. ReaderTypeOK'
  BY DEF ReaderInv, ReaderTypeOK
<1>4. Carried'
  BY DEF Carried
<1> QED BY <1>2, <1>3, <1>4 DEF ReaderInv

\* The answer of a decoder names no model.
Decoded(h, c) == [Reading!Nothing EXCEPT !.on = "cpu", !.helper = h, !.content = c]

\* That answer is one of the answers a job may tell, and has these fields.
LEMMA DecodeAnswer ==
  ASSUME NEW h \in Helpers, NEW c \in Images
  PROVE  \E a \in Effort :
           /\ a = Decoded(h, c)
           /\ a.on = "cpu" /\ a.helper = h /\ a.model = NoVersion /\ a.content = c
<1> DEFINE a == Decoded(h, c)
<1>1. a \in Effort /\ a.on = "cpu" /\ a.helper = h /\ a.model = NoVersion /\ a.content = c
  BY DEF Decoded, Reading!Nothing, Effort, Devices, Models
<1> QED BY <1>1

\* A decoded image is told with the decoder that was held.
LEMMA DecodeInv ==
  ASSUME ReaderInv, Reading!DecodeInBase \/ Reading!DecodeInHelper
  PROVE  ReaderInv'
<1>1. /\ task.kind = "decode" /\ task.work.model = NoVersion
      /\ UNCHANGED <<complete, active, previous, pcomplete, pheld, file>>
  BY DEF Reading!DecodeInBase, Reading!DecodeInHelper, Reading!At, ReaderInv, Carried,
     Reading!Tool!Release, Reading!store, Reading!provider
<1>2. /\ task.work.content \in Images /\ held \in [{"job"} -> Models]
      /\ pheld \in [{"job"} -> Providers \cup {NoVersion}]
  BY DEF ReaderInv, ReaderTypeOK, Task, Effort
<1>3. PICK h \in Helpers :
        \/ Reading!DecodeInBase /\ h = Reading!Core
        \/ Reading!DecodeInHelper /\ h = held["job"]
  <2>1. held["job"] \in Helpers /\ Reading!Core \in Helpers
    BY <1>2 DEF Helpers, Models
  <2> QED BY <2>1
<1>4. PICK a \in Effort :
        /\ a = Decoded(h, task.work.content)
        /\ a.on = "cpu" /\ a.helper = h /\ a.model = NoVersion /\ a.content = task.work.content
  BY <1>2, DecodeAnswer
<1>5. task' = [task EXCEPT !.at = "told", !.fallback = FALSE, !.work.on = "cpu", !.work.helper = h, !.answer = a]
  BY <1>3, <1>4 DEF Decoded, Reading!DecodeInBase, Reading!DecodeInHelper, Reading!Done, Reading!Decoder
<1>6. held' = held \/ held' = [held EXCEPT !["job"] = NoVersion]
  BY <1>3 DEF Reading!DecodeInBase, Reading!DecodeInHelper, Reading!Tool!Release, Reading!store
<1>7. held' \in [{"job"} -> Models]
  BY <1>2, <1>6 DEF Models
<1>8. task \in Task /\ "told" \in Stages /\ "cpu" \in Devices
  BY DEF ReaderInv, ReaderTypeOK, Stages, Devices
<1>9. /\ task' \in Task /\ task'.at = "told" /\ task'.answer = a /\ task'.kind = task.kind
      /\ task'.hardware = task.hardware /\ task'.work.on = "cpu" /\ task'.work.helper = h
      /\ task'.work.model = task.work.model /\ task'.work.content = task.work.content
  BY <1>5, <1>8 DEF Task, Effort
<1> QED BY <1>1, <1>2, <1>4, <1>7, <1>9, ToldInv

\* The receipt of an inference names the model that is leased.
LEMMA ReceiptAnswer ==
  ASSUME NEW on \in {"cpu", "cuda"}, NEW h \in Helpers, NEW f \in BOOLEAN,
         held["job"] \in Models, task.work.content \in Images
  PROVE  \E a \in Effort :
           /\ a = Reading!Receipt(on, h, f) /\ a.on = on /\ a.helper = h
           /\ a.model = held["job"] /\ a.content = task.work.content /\ a.fallback = f
<1> DEFINE a == Reading!Receipt(on, h, f)
<1>1. /\ a \in Effort /\ a.on = on /\ a.helper = h /\ a.model = held["job"]
      /\ a.content = task.work.content /\ a.fallback = f
  BY DEF Reading!Receipt, Reading!ModelLeased, Effort, Devices
<1> QED BY <1>1

\* The GPU attempt: its helper is leased, answers or fails.
LEMMA GpuInv ==
  ASSUME ReaderInv, Reading!LeaseProvider \/ Reading!GpuAnswers \/ Reading!GpuFails
  PROVE  ReaderInv'
<1>1. /\ task.at \in {"gpu", "gpu runs"} /\ task.hardware /\ task.work.model = held["job"]
      /\ UNCHANGED <<complete, active, previous, pcomplete, file>>
  BY DEF Reading!LeaseProvider, Reading!GpuAnswers, Reading!GpuFails, Reading!At, ReaderInv, Carried,
     Reading!Gpu!Hold, Reading!Gpu!Release, Reading!Tool!Release, Reading!store, Reading!provider
<1>2. /\ task \in Task /\ held \in [{"job"} -> Models]
      /\ pheld \in [{"job"} -> Providers \cup {NoVersion}] /\ pcomplete \subseteq Providers
  BY DEF ReaderInv, ReaderTypeOK
<1>3. [pheld EXCEPT !["job"] = NoVersion] \in [{"job"} -> Providers \cup {NoVersion}]
  BY <1>2
<1>4. CASE Reading!FallsBack /\ UNCHANGED <<held, pheld>>
  BY <1>1, <1>2, <1>4, FallsBackInv
<1>5. CASE Reading!FallsBack /\ UNCHANGED held /\ pheld' = [pheld EXCEPT !["job"] = NoVersion]
  BY <1>1, <1>3, <1>5, FallsBackInv
<1>6. CASE Reading!LeaseProvider /\ Reading!Gpu!Hold("job", pactive) /\ task' = [task EXCEPT !.at = "gpu runs"]
  <2>1. /\ pactive \in pcomplete /\ pheld' = [pheld EXCEPT !["job"] = pactive] /\ UNCHANGED held
        /\ task' = [task EXCEPT !.at = "gpu runs"]
    BY <1>6 DEF Reading!LeaseProvider, Reading!Gpu!Hold, Reading!store
  <2>2. "gpu runs" \in Stages
    BY DEF Stages
  <2>3. task' \in Task /\ task'.at = "gpu runs" /\ task'.hardware = task.hardware /\ task'.work = task.work
    BY <1>2, <2>1, <2>2, TaskMoves
  <2>4. pheld' \in [{"job"} -> Providers \cup {NoVersion}] /\ pheld'["job"] \in pcomplete
    BY <1>2, <2>1
  <2> QED BY <1>1, <2>1, <2>3, <2>4, LoadedInv
<1>7. CASE Reading!GpuAnswers /\ ~(Reading!FallsBack /\ UNCHANGED held)
  <2>1. PICK h \in Helpers : h = pheld["job"]
    BY <1>2 DEF Helpers
  <2>2. /\ held' = [held EXCEPT !["job"] = NoVersion] /\ pheld' = [pheld EXCEPT !["job"] = NoVersion]
        /\ task' = [task EXCEPT !.at = "told", !.fallback = FALSE, !.work.on = "cuda", !.work.helper = h,
                                !.answer = Reading!Receipt("cuda", h, FALSE)]
    BY <1>7, <2>1 DEF Reading!GpuAnswers, Reading!Attested, Reading!Done, Reading!Tool!Release,
       Reading!Gpu!Release, Reading!store
  <2>3. held' \in [{"job"} -> Models]
    BY <1>2, <2>2 DEF Models
  <2>4. pheld' \in [{"job"} -> Providers \cup {NoVersion}]
    BY <1>3, <2>2
  <2>5. held["job"] \in Models /\ task.work.content \in Images
    BY <1>2 DEF Task, Effort
  <2>6. PICK a \in Effort :
          /\ a = Reading!Receipt("cuda", h, FALSE) /\ a.on = "cuda" /\ a.helper = h
          /\ a.model = held["job"] /\ a.content = task.work.content /\ a.fallback = FALSE
    BY <2>5, ReceiptAnswer
  <2>7. task' = [task EXCEPT !.at = "told", !.fallback = FALSE, !.work.on = "cuda", !.work.helper = h, !.answer = a]
    BY <2>2, <2>6
  <2>8. "told" \in Stages /\ "cuda" \in Devices
    BY DEF Stages, Devices
  <2>9. /\ task' \in Task /\ task'.at = "told" /\ task'.answer = a /\ task'.kind = task.kind
        /\ task'.hardware = task.hardware /\ task'.work.on = "cuda" /\ task'.work.helper = h
        /\ task'.work.model = task.work.model /\ task'.work.content = task.work.content
    BY <1>2, <2>7, <2>8 DEF Task, Effort
  <2> QED BY <1>1, <2>3, <2>4, <2>6, <2>9, ToldInv
<1>8. CASE Reading!LeaseProvider
  BY <1>4, <1>6, <1>8 DEF Reading!LeaseProvider, Reading!store, Reading!provider
<1>9. CASE Reading!GpuFails
  BY <1>5, <1>9 DEF Reading!GpuFails, Reading!Gpu!Release, Reading!store
<1>10. CASE Reading!GpuAnswers
  BY <1>5, <1>7, <1>10 DEF Reading!GpuAnswers, Reading!Gpu!Release
<1> QED BY <1>8, <1>9, <1>10

\* The CPU answers, and says that it stood for the GPU if it did.
LEMMA CpuInv ==
  ASSUME ReaderInv, Reading!CpuAnswers
  PROVE  ReaderInv'
<1>1. /\ task \in Task /\ held \in [{"job"} -> Models]
      /\ pheld \in [{"job"} -> Providers \cup {NoVersion}]
  BY DEF ReaderInv, ReaderTypeOK
<1>2. PICK h \in Helpers : h = Reading!Core
  BY DEF Helpers
<1>3. PICK f \in BOOLEAN : f = task.fallback
  BY <1>1 DEF Task
<1>4. task.hardware = f /\ task.work.model = held["job"]
  BY <1>1, <1>3 DEF ReaderInv, Carried, Reading!CpuAnswers, Reading!At, Task
<1>5. /\ UNCHANGED <<complete, active, previous, pcomplete, pheld, file>>
      /\ held' = [held EXCEPT !["job"] = NoVersion]
      /\ task' = [task EXCEPT !.at = "told", !.fallback = f, !.work.on = "cpu", !.work.helper = h,
                              !.answer = Reading!Receipt("cpu", h, f)]
  BY <1>2, <1>3 DEF Reading!CpuAnswers, Reading!Done, Reading!Tool!Release, Reading!provider
<1>6. held' \in [{"job"} -> Models]
  BY <1>1, <1>5 DEF Models
<1>7. held["job"] \in Models /\ task.work.content \in Images
  BY <1>1 DEF Task, Effort
<1>8. PICK a \in Effort :
        /\ a = Reading!Receipt("cpu", h, f) /\ a.on = "cpu" /\ a.helper = h
        /\ a.model = held["job"] /\ a.content = task.work.content /\ a.fallback = f
  BY <1>7, ReceiptAnswer
<1>9. task' = [task EXCEPT !.at = "told", !.fallback = f, !.work.on = "cpu", !.work.helper = h, !.answer = a]
  BY <1>5, <1>8
<1>10. "told" \in Stages /\ "cpu" \in Devices
  BY DEF Stages, Devices
<1>11. /\ task' \in Task /\ task'.at = "told" /\ task'.answer = a /\ task'.kind = task.kind
       /\ task'.hardware = task.hardware /\ task'.work.on = "cpu" /\ task'.work.helper = h
       /\ task'.work.model = task.work.model /\ task'.work.content = task.work.content
  BY <1>1, <1>9, <1>10 DEF Task, Effort
<1> QED BY <1>1, <1>4, <1>5, <1>6, <1>8, <1>11, ToldInv

\* A job that fails tells nothing.
LEMMA FailInv ==
  ASSUME ReaderInv, Reading!Fail
  PROVE  ReaderInv'
<1>1. /\ UNCHANGED <<complete, active, previous, pcomplete, file>>
      /\ held' = [held EXCEPT !["job"] = NoVersion] /\ pheld' = [pheld EXCEPT !["job"] = NoVersion]
      /\ task' = [task EXCEPT !.at = "failed"]
  BY DEF Reading!Fail, Reading!Tool!Release, Reading!Gpu!Release
<1>2. task \in Task /\ "failed" \in Stages
  BY DEF ReaderInv, ReaderTypeOK, Stages
<1>3. task' \in Task /\ task'.at = "failed"
  BY <1>1, <1>2, TaskMoves
<1>4. held' \in [{"job"} -> Models] /\ pheld' \in [{"job"} -> Providers \cup {NoVersion}]
  BY <1>1 DEF ReaderInv, ReaderTypeOK, Models
<1> QED BY <1>1, <1>3, <1>4 DEF ReaderInv, ReaderTypeOK, Carried, AnswerTruth, Reading!AnswerTruth, Reading!At

\* A job starts without anything loaded.
LEMMA ReaderInit == Reading!Init => ReaderInv
<1> SUFFICES ASSUME Reading!Init
             PROVE  ReaderInv
  OBVIOUS
<1>1. PICK k \in Kinds, w \in BOOLEAN :
        task = [kind |-> k, hardware |-> w, at |-> "start", chosen |-> NoVersion, fallback |-> FALSE,
                work |-> Reading!Nothing, answer |-> Reading!Nothing]
  BY DEF Reading!Init, Kinds
<1>2. Reading!Nothing \in Effort /\ Reading!Nothing.model = NoVersion
  BY DEF Reading!Nothing, Effort, Devices, Helpers, Models, Images
<1>3. "start" \in Stages /\ NoVersion \in Models
  BY DEF Stages, Models
<1>4. task \in Task /\ task.at = "start" /\ task.work.model = NoVersion
  BY <1>1, <1>2, <1>3 DEF Task
<1>5. ReaderTypeOK
  BY <1>4 DEF Reading!Init, Reading!Tool!Init, Reading!Gpu!Init, ReaderTypeOK, Models
<1> QED BY <1>4, <1>5 DEF ReaderInv, Carried, AnswerTruth, Reading!AnswerTruth, Reading!At

\* One case for each step of the reader's side.
LEMMA ReaderStep == ReaderInv /\ [Reading!Next]_readerVars => ReaderInv'
<1> SUFFICES ASSUME ReaderInv, [Reading!Next]_readerVars
             PROVE  ReaderInv'
  OBVIOUS
<1>1. CASE UNCHANGED readerVars
  BY <1>1 DEF readerVars, ReaderInv, ReaderTypeOK, Carried, AnswerTruth, Reading!AnswerTruth, Reading!At
<1>2. CASE Reading!Next
  BY <1>2, PrepareTask, LeaseInv, LoadModel, DecodeInv, GpuInv, CpuInv, FailInv, StoreMovesInv,
     ProviderMovesInv, FileChangesInv DEF Reading!Next
<1> QED BY <1>1, <1>2
-----------------------------------------------------------------------------
(* The two sides together.                                                  *)

allVars == <<vars, readerVars, scene>>

BothSides == StoreInv /\ ReaderInv

\* Whichever side moves, the other one is left alone.
LEMMA SideStep == [ComponentsNext]_allVars => [Next]_vars /\ [Reading!Next]_readerVars
BY DEF ComponentsNext, allVars

\* Both invariants hold in every reachable state, for any constants.
THEOREM ComponentsInvariance == ComponentsSpec => []BothSides
<1>1. ComponentsInit => BothSides
  BY StoreInit, ReaderInit DEF ComponentsInit, BothSides
<1>2. BothSides /\ [ComponentsNext]_allVars => BothSides'
  BY SideStep, StoreStep, ReaderStep DEF BothSides
<1> QED BY <1>1, <1>2, PTL DEF ComponentsSpec, allVars

\* What a reader's answer names is what did the work: the content that was read, the
\* version that decoded it or whose model was loaded, the helper and the processor,
\* whatever other processes install, switch, roll back or remove meanwhile
\* (reader_job.execute, infer_component, _inference_receipt).
THEOREM AnswersAreTrue == ComponentsSpec => []AnswerTruth
<1>1. BothSides => AnswerTruth
  BY DEF BothSides, ReaderInv
<1> QED BY <1>1, ComponentsInvariance, PTL

\* A receipt becomes "completed" only for the active, complete version, never tells a
\* failure of a job that activated something, and never changes once settled, for any
\* number of jobs, failing calls and kills (install's activation_intent, recover_jobs).
THEOREM ReceiptsAreTrue == ComponentsSpec => ReceiptTruth
<1> DEFINE Step == [\A j \in Jobs :
                      /\ receipt'[j] \in {"failed", "cancelled"} => j \notin wrote'
                      /\ receipt[j] # receipt'[j] =>
                           /\ receipt[j] \notin Terminal
                           /\ receipt'[j] = "completed" =>
                                registry'.active = job[j].version /\ tree'[job[j].version] = "whole"]_vars
<1>1. BothSides => TypeOK
  BY DEF BothSides, StoreInv
<1>2. BothSides /\ [ComponentsNext]_allVars => Step
  <2> SUFFICES ASSUME BothSides, [Next]_vars, NEW j \in Jobs
               PROVE  /\ receipt'[j] \in {"failed", "cancelled"} => j \notin wrote'
                      /\ Settles(j)
    BY SideStep DEF Settles
  <2>1. StoreInv /\ StoreInv'
    BY StoreStep DEF BothSides
  <2>2. Told(j)'
    BY <2>1 DEF StoreInv, Coherent
  <2>3. Settles(j)
    BY <2>1, ReceiptStep
  <2> QED BY <2>2, <2>3 DEF Told
<1> QED BY <1>1, <1>2, ComponentsInvariance, PTL DEF ComponentsSpec, ReceiptTruth, allVars

\* The processes that change the store of a component implement the abstract store:
\* every step of theirs is one of VersionStore or a stutter, so a version in use or one
\* that can be rolled back to is complete (docs/architecture.md: "failed updates retain
\* the working version, and removal waits for active reader leases").
THEOREM StoreIsImplemented == ComponentsSpec => ImplementsStore
<1>1. ComponentsInit => Abstract!Init
  BY DEF ComponentsInit, Init, Abstract!Init
<1>2. BothSides /\ [ComponentsNext]_allVars => [Abstract!Next]_(Abstract!vars)
  BY SideStep, StoreRefines DEF BothSides
<1> QED BY <1>1, <1>2, ComponentsInvariance, PTL DEF ComponentsSpec, ImplementsStore, Abstract!Spec, allVars

\* No step of the abstract store leaves its types.
LEMMA PromiseTypes ==
  ASSUME Abstract!TypeOK, [Abstract!Next]_(Abstract!vars)
  PROVE  Abstract!TypeOK'
<1>1. CASE UNCHANGED Abstract!vars
  BY <1>1 DEF Abstract!TypeOK, Abstract!vars
<1>2. CASE Abstract!Next
  <2>1. ASSUME NEW v \in Versions, Abstract!Publish(v) \/ Abstract!Activate(v) \/ Abstract!Discard(v)
        PROVE  Abstract!TypeOK'
    BY <2>1 DEF Abstract!TypeOK, Abstract!Publish, Abstract!Activate, Abstract!Discard
  <2>2. ASSUME NEW gone \in SUBSET Versions, Abstract!Retire(gone)
        PROVE  Abstract!TypeOK'
    BY <2>2 DEF Abstract!TypeOK, Abstract!Retire
  <2>3. CASE Abstract!SwitchOn \/ Abstract!SwitchOff \/ Abstract!RollBack
    BY <2>3 DEF Abstract!TypeOK, Abstract!SwitchOn, Abstract!SwitchOff, Abstract!RollBack
  <2>4. ASSUME NEW h \in Holders, Abstract!Release(h)
        PROVE  Abstract!TypeOK'
    BY <2>4 DEF Abstract!TypeOK, Abstract!Release
  <2>5. ASSUME NEW h \in Holders, NEW v \in Versions, Abstract!Hold(h, v)
        PROVE  Abstract!TypeOK'
    BY <2>5 DEF Abstract!TypeOK, Abstract!Hold
  <2> QED BY <1>2, <2>1, <2>2, <2>3, <2>4, <2>5 DEF Abstract!Next
<1> QED BY <1>1, <1>2

\* It never discards what is in use, or puts in use what is not complete.
LEMMA PromiseKept ==
  ASSUME Abstract!TypeOK, Abstract!InUseComplete, [Abstract!Next]_(Abstract!vars)
  PROVE  Abstract!InUseComplete'
<1>1. CASE UNCHANGED Abstract!vars
  BY <1>1 DEF Abstract!InUseComplete, Abstract!vars
<1>2. CASE Abstract!Next
  <2>1. ASSUME NEW v \in Versions, Abstract!Publish(v)
        PROVE  Abstract!InUseComplete'
    BY <2>1 DEF Abstract!InUseComplete, Abstract!Publish
  <2>2. ASSUME NEW v \in Versions, Abstract!Activate(v)
        PROVE  Abstract!InUseComplete'
    <3>1. PICK c : c = Whole
      OBVIOUS
    <3>2. {x \in Versions : tree'[x] = "whole"} = c /\ v \in c /\ lease' = lease
      BY <2>2, <3>1 DEF Abstract!Activate, Whole
    <3>3. /\ registry'.active = v /\ registry'.enabled
          /\ registry'.previous \in {registry.previous, registry.active}
      BY <2>2 DEF Abstract!Activate
    <3>4. /\ registry.active # NoVersion => registry.active \in c
          /\ registry.previous # NoVersion => registry.previous \in c
          /\ \A h \in Holders : lease[h] # NoVersion => lease[h] \in c
      BY <3>1 DEF Abstract!InUseComplete, Whole
    <3> QED BY <3>2, <3>3, <3>4, StoreAssumption DEF Abstract!InUseComplete
  <2>3. ASSUME NEW v \in Versions, Abstract!Discard(v)
        PROVE  Abstract!InUseComplete'
    BY <2>3 DEF Abstract!InUseComplete, Abstract!Discard
  <2>4. ASSUME NEW gone \in SUBSET Versions, Abstract!Retire(gone)
        PROVE  Abstract!InUseComplete'
    BY <2>4 DEF Abstract!InUseComplete, Abstract!TypeOK, Abstract!Retire
  <2>5. CASE Abstract!SwitchOn \/ Abstract!SwitchOff \/ Abstract!RollBack
    BY <2>5, StoreAssumption
    DEF Abstract!InUseComplete, Abstract!TypeOK, Abstract!SwitchOn, Abstract!SwitchOff, Abstract!RollBack
  <2>6. ASSUME NEW h \in Holders, Abstract!Release(h)
        PROVE  Abstract!InUseComplete'
    BY <2>6 DEF Abstract!InUseComplete, Abstract!TypeOK, Abstract!Release
  <2>7. ASSUME NEW h \in Holders, NEW v \in Versions, Abstract!Hold(h, v)
        PROVE  Abstract!InUseComplete'
    BY <2>7 DEF Abstract!InUseComplete, Abstract!TypeOK, Abstract!Hold
  <2> QED BY <1>2, <2>1, <2>2, <2>3, <2>4, <2>5, <2>6, <2>7 DEF Abstract!Next
<1> QED BY <1>1, <1>2

\* A version that readers get, that a rollback returns to or that somebody reads is
\* complete in the store itself, for any managers, readers and versions: what remove's
\* leases and the order of registry and directory are there for.
THEOREM InUseIsComplete == ComponentsSpec => [](Abstract!TypeOK /\ Abstract!InUseComplete)
<1>1. Abstract!Init => Abstract!TypeOK /\ Abstract!InUseComplete
  BY StoreAssumption DEF Abstract!Init, Abstract!TypeOK, Abstract!InUseComplete
<1>2. Abstract!TypeOK /\ Abstract!InUseComplete /\ [Abstract!Next]_(Abstract!vars)
        => (Abstract!TypeOK /\ Abstract!InUseComplete)'
  BY PromiseTypes, PromiseKept
<1> QED BY <1>1, <1>2, StoreIsImplemented, PTL DEF ImplementsStore, Abstract!Spec
=============================================================================
