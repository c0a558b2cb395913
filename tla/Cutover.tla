------------------------------ MODULE Cutover ------------------------------
(***************************************************************************)
(* The controller that replaces the branches of a repository by one        *)
(* qualified main, phase by phase, against a GitHub that other people use. *)
(*                                                                         *)
(* The operator runs one phase at a time.  A phase is a series of checks,  *)
(* journal entries and remote requests; the controller may stop between    *)
(* any two of them: a crash, a request that failed, or one that took       *)
(* effect and whose answer was lost.  What it knows when it is run again   *)
(* is the journal (synced before every request) and GitHub itself.         *)
(*                                                                         *)
(* Commits are abstract: every planned branch has the commit it was        *)
(* inventoried with; "merged" is the merge of the candidate into the base. *)
(* Evidence files, continuous integration and identity checks are taken as *)
(* given: they do not change between two steps.                            *)
(***************************************************************************)
EXTENDS Naturals

CONSTANTS Topics,       \* branches to delete, but for the integration branch
          Requests,     \* inventoried PRs: a topic's name if that is its head, else of a fork
          Disposition,  \* [Requests -> integrated, superseded, already_closed]
          AutoDelete,   \* the inventoried setting of automatic deletion
          MaxStops,     \* bound: interruptions of the controller
          MaxMeddles,   \* bound: steps of other people
          MaxReruns     \* bound: phases run out of their turn

ASSUME PlanAssumption ==
  /\ Disposition \in [Requests -> {"integrated", "superseded", "already_closed"}]
  /\ AutoDelete \in BOOLEAN
  /\ {MaxStops, MaxMeddles, MaxReruns} \subseteq Nat
  /\ (Topics \cup Requests) \cap {"base", "main", "integration", "none"} = {}
  /\ Topics \cap {"old", "candidate", "merged", "foreign"} = {}

Phases   == <<"prepare", "archive", "publish", "qualify", "merge", "verify-merged",
              "rename", "resolve", "prune", "finalize">>
AfterMerge == {"verify-merged", "rename", "resolve", "prune", "finalize"}
\* Bug: prune does not leave out the base branch.
WithBase == Topics \cup {"integration", "base"}
Targets  == Topics \cup {"integration"}
Refs     == {"base", "main"} \cup Targets
Planned  == [r \in Targets \cup {"base"} |->
               CASE r = "base" -> "old" [] r = "integration" -> "candidate" [] OTHER -> r]
Commits  == Topics \cup {"old", "candidate", "merged", "foreign", "none"}

VARIABLES
  hub,    \* GitHub: branches, rules, settings, PRs
  log,    \* the journal: intents and results that later steps look up
  at,     \* the controller: phase, step, what it holds in memory
  stops, meddles, reruns

counters == <<stops, meddles, reruns>>
vars == <<hub, log, at, counters>>

Idle == [phase |-> "none", step |-> "none", todo |-> {}, ref |-> "none", seen |-> FALSE]

Init ==
  /\ hub = [heads |-> [r \in Refs |-> IF r \in Topics \cup {"base"} THEN Planned[r] ELSE "none"],
            default |-> "base", renaming |-> "no",
            maintenance |-> FALSE, quality |-> "none", archives |-> FALSE,
            autoDelete |-> AutoDelete, tags |-> FALSE, pr |-> "none", status |-> {},
            prs |-> [q \in Requests |->
                       [state |-> IF Disposition[q] = "already_closed" THEN "closed" ELSE "open",
                        comments |-> 0, moved |-> FALSE]],
            foreign |-> [on |-> "none", as |-> "none", open |-> FALSE],
            late |-> {}]   \* pushed since the last look of finalize (history)
  /\ log = [intents |-> {}, results |-> {}, deleting |-> {}, deleted |-> {}, resolved |-> {}]
  /\ at = Idle
  /\ stops = 0 /\ meddles = 0 /\ reruns = 0
-----------------------------------------------------------------------------
(* What the controller looks up *)

Intended(operation) == operation \in log.intents
Recorded(operation) == operation \in log.results
Intends(operation)  == log' = [log EXCEPT !.intents = @ \cup {operation}]
Records(operation)  == log' = [log EXCEPT !.results = @ \cup {operation}]

IsMerged    == hub.pr = "merged"
ArchiveGate == Recorded("archive-publish") /\ hub.tags
MergedGate  == IsMerged /\ Recorded("merged-qualified")
MainGate    == MergedGate /\ hub.default = "main" /\ hub.heads["main"] = "merged"
OnlyMain    == hub.heads = [r \in Refs |-> IF r = "main" THEN "merged" ELSE "none"]
NoneOpen    == (\A q \in Requests : hub.prs[q].state # "open") /\ ~hub.foreign.open

\* check_rules: the live rules contain the desired ones, which name the
\* application behind the quality check once that is recorded.
RulesOK ==
  /\ ~hub.autoDelete /\ hub.maintenance /\ hub.archives
  /\ hub.quality \in {"bound"} \cup IF Recorded("quality-app-binding") THEN {} ELSE {"initial"}

\* check_drift: branches are as inventoried, but for recorded operations, and
\* nobody opened a PR or advanced one.
Expected(r) ==
  CASE r = "base" -> IF ~IsMerged THEN "old"
                     ELSE IF hub.heads["main"] = "none" THEN "merged" ELSE "none"
    [] r = "main" -> IF IsMerged /\ hub.heads["main"] # "none" THEN "merged" ELSE "none"
    [] r = "integration" -> IF hub.heads[r] # "none" \/ Intended("publish") THEN "candidate"
                            ELSE "none"
    [] OTHER -> Planned[r]

DriftFree ==
  /\ \A r \in Refs : \/ hub.heads[r] = Expected(r)
                     \/ hub.heads[r] = "none" /\ r \in log.deleting
  /\ hub.foreign.on = "none"
  /\ \A q \in Requests : ~hub.prs[q].moved

\* dependencies: open PRs to or from the branch.
Dependents(r) ==
  \/ r \in Requests /\ hub.prs[r].state = "open"
  \/ r = "integration" /\ hub.pr = "open"
  \/ hub.foreign.on = r /\ hub.foreign.open

\* restore_if_dependent: also a new PR to it that GitHub closed.
\* Bug: only open PRs are looked at.
OpenOnly(r) == Dependents(r)
Raced(r) == Dependents(r) \/ (hub.foreign.on = r /\ hub.foreign.as = "base")
-----------------------------------------------------------------------------
(* Running a phase *)

Admitted(phase) ==
  /\ phase \in AfterMerge => Recorded("merge")
  /\ phase # "prepare" => (phase = "finalize" /\ Intended("final-quality")) \/ RulesOK
  /\ DriftFree

\* run: a branch whose deletion raced a PR is put back before anything else.
Enter(phase) ==
  /\ at = Idle
  /\ \/ \E r \in log.deleting :
          /\ hub.heads[r] = "none" /\ Raced(r)
          /\ phase \in AfterMerge => Recorded("merge")
          /\ at' = [Idle EXCEPT !.phase = phase, !.step = "undo", !.ref = r]
     \/ /\ \A r \in log.deleting : hub.heads[r] = "none" => ~Raced(r)
        /\ Admitted(phase)
        /\ at' = [Idle EXCEPT !.phase = phase, !.step = "gate"]
  /\ UNCHANGED <<hub, log>>

In(phase, step) == at.phase = phase /\ at.step = step
To(step)        == at' = [at EXCEPT !.step = step]
Stop            == at' = Idle

\* A failed requirement ends the phase and changes nothing.
Refuses(phase, step, condition) ==
  In(phase, step) /\ ~condition /\ Stop /\ UNCHANGED <<hub, log>>

\* A step whose result is an entry of the journal, and the end of the phase.
Concludes(phase, step, operation) ==
  In(phase, step) /\ Records(operation) /\ Stop /\ UNCHANGED hub

Undo ==
  /\ at.step = "undo"
  /\ hub' = IF hub.heads[at.ref] = "none"
            THEN [hub EXCEPT !.heads[at.ref] = Planned[at.ref]] ELSE hub
  /\ Stop /\ UNCHANGED log
-----------------------------------------------------------------------------
Prepare ==
  \/ /\ In("prepare", "gate") /\ hub.autoDelete \in {FALSE, AutoDelete}
     /\ hub' = [hub EXCEPT !.autoDelete = FALSE] /\ To("rules") /\ UNCHANGED log
  \/ /\ In("prepare", "rules")
     /\ IF ~hub.maintenance
        THEN hub' = [hub EXCEPT !.maintenance = TRUE] /\ UNCHANGED at
        ELSE IF hub.quality = "none"
        THEN hub' = [hub EXCEPT !.quality = "initial"] /\ UNCHANGED at
        ELSE IF hub.quality # "final" /\ ~hub.archives
        THEN hub' = [hub EXCEPT !.archives = TRUE] /\ UNCHANGED at
        ELSE UNCHANGED hub /\ Stop
     /\ UNCHANGED log

Archive ==
  \/ /\ In("archive", "gate")
     /\ IF Recorded("archive-publish") THEN Stop ELSE To("push")
     /\ UNCHANGED <<hub, log>>
  \/ /\ In("archive", "push")
     /\ hub' = [hub EXCEPT !.tags = TRUE] /\ To("result") /\ UNCHANGED log
  \/ Concludes("archive", "result", "archive-publish")

Publish ==
  \/ /\ In("publish", "gate") /\ ArchiveGate
     /\ Intends("publish") /\ To("push") /\ UNCHANGED hub
  \/ Refuses("publish", "gate", ArchiveGate)
  \/ /\ In("publish", "push")
     /\ hub' = [hub EXCEPT !.heads["integration"] = "candidate"]
     /\ To("request") /\ UNCHANGED log
  \/ /\ In("publish", "request")
     /\ IF hub.pr = "none" THEN hub' = [hub EXCEPT !.pr = "open"] ELSE UNCHANGED hub
     /\ To("result") /\ UNCHANGED log
  \/ Concludes("publish", "result", "integration-pr")

QualifyGate == ArchiveGate /\ hub.pr = "open" /\ hub.heads["base"] = "old"

Qualify ==
  \/ In("qualify", "gate") /\ QualifyGate /\ To("bind") /\ UNCHANGED <<hub, log>>
  \/ Refuses("qualify", "gate", QualifyGate)
  \/ /\ In("qualify", "bind")
     /\ hub' = [hub EXCEPT !.quality = "bound"] /\ To("bound") /\ UNCHANGED log
  \/ /\ In("qualify", "bound")
     /\ Records("quality-app-binding") /\ To("status") /\ UNCHANGED hub
  \/ /\ In("qualify", "status")
     /\ hub' = [hub EXCEPT !.status = @ \cup {"candidate"}] /\ To("result") /\ UNCHANGED log
  \/ Concludes("qualify", "result", "qualified")

MergeGate ==
  Recorded("qualified") /\ hub.pr = "open" /\ hub.heads["base"] = "old"
  /\ "candidate" \in hub.status /\ RulesOK

\* PRs whose commits the merge brings in may be marked as merged by GitHub, and
\* automatic deletion would take the integration branch with it.
Merge ==
  \/ /\ In("merge", "gate") /\ Recorded("qualified") /\ IsMerged
     /\ Records("merge") /\ Stop /\ UNCHANGED hub
  \/ In("merge", "gate") /\ MergeGate /\ To("put") /\ UNCHANGED <<hub, log>>
  \/ Refuses("merge", "gate", MergeGate \/ (Recorded("qualified") /\ IsMerged))
  \/ /\ In("merge", "put")
     /\ \E brought \in SUBSET {q \in Requests : /\ Disposition[q] = "integrated"
                                                /\ hub.prs[q].state = "open"} :
          hub' = [hub EXCEPT !.pr = "merged", !.heads["base"] = "merged",
                             !.heads["integration"] = IF hub.autoDelete THEN "none" ELSE @,
                             !.prs = [q \in Requests |-> IF q \in brought
                                        THEN [@[q] EXCEPT !.state = "merged"] ELSE @[q]]]
     /\ To("result") /\ UNCHANGED log
  \/ Concludes("merge", "result", "merge")

VerifyMerged ==
  \/ /\ In("verify-merged", "gate") /\ IsMerged /\ hub.heads["base"] = "merged"
     /\ hub' = [hub EXCEPT !.status = @ \cup {"merged"}] /\ To("result") /\ UNCHANGED log
  \/ Refuses("verify-merged", "gate", IsMerged /\ hub.heads["base"] = "merged")
  \/ Concludes("verify-merged", "result", "merged-qualified")

\* Bug: a rename that outlived its window is asked for once more.
NotReconciled == FALSE
Renamed == hub.default = "main" /\ hub.heads["main"] = "merged" /\ hub.heads["base"] = "none"
RenameGate ==
  /\ MergedGate /\ hub.default = "base"
  /\ hub.heads["main"] = "none" /\ hub.heads["base"] = "merged"

\* GitHub renames in its own time; the controller watches for a while.
Rename ==
  \/ /\ In("rename", "gate") /\ MergedGate /\ Renamed
     /\ Records("rename") /\ Stop /\ UNCHANGED hub
  \/ /\ In("rename", "gate") /\ RenameGate
     /\ hub' = [hub EXCEPT !.renaming = "asked"] /\ To("watch") /\ UNCHANGED log
  \/ Refuses("rename", "gate", RenameGate \/ (MergedGate /\ Renamed))
  \/ Renamed /\ Concludes("rename", "watch", "rename")
  \/ Refuses("rename", "watch", Renamed)

RenameSettles ==
  /\ \/ /\ hub.renaming = "asked"
        /\ hub' = [hub EXCEPT !.renaming = "moved", !.heads["base"] = "none",
                              !.heads["main"] = hub.heads["base"]]
     \/ /\ hub.renaming = "moved"
        /\ hub' = [hub EXCEPT !.renaming = "no", !.default = "main"]
  /\ UNCHANGED <<log, at, counters>>
-----------------------------------------------------------------------------
(* resolve: a comment and a closed PR for every inventoried one *)

Resolved(q) ==
  /\ log' = [log EXCEPT !.resolved = @ \cup {q}]
  /\ at' = IF at.todo = {q} THEN Idle
           ELSE [at EXCEPT !.todo = @ \ {q}, !.step = "look"]

\* Bug: comments of an earlier attempt are not looked for.
AlwaysNew(q) == TRUE
Uncommented(q) == hub.prs[q].comments = 0

\* Bug: a PR that the merge closed as merged has to be closed by hand.
ClosedOnly(q) == Disposition[q] = "already_closed" /\ hub.prs[q].state = "closed"
Settled(q) ==
  \/ hub.prs[q].state = "merged"
  \/ Disposition[q] = "already_closed" /\ hub.prs[q].state = "closed"
Resolvable(q) ==
  /\ ~hub.prs[q].moved /\ ~Settled(q)
  /\ Disposition[q] # "already_closed" /\ hub.prs[q].comments <= 1

Resolve ==
  \/ /\ In("resolve", "gate") /\ MainGate
     /\ at' = [at EXCEPT !.step = "look", !.todo = Requests] /\ UNCHANGED <<hub, log>>
  \/ Refuses("resolve", "gate", MainGate)
  \/ /\ In("resolve", "look")
     /\ \E q \in at.todo :
          \/ Settled(q) /\ ~hub.prs[q].moved /\ Resolved(q)
          \/ /\ Resolvable(q)
             /\ at' = [at EXCEPT !.ref = q, !.seen = hub.prs[q].state = "open",
                                 !.step = IF Uncommented(q) THEN "comment" ELSE "advanced"]
             /\ UNCHANGED log
          \/ (hub.prs[q].moved \/ ~Settled(q)) /\ ~Resolvable(q) /\ Stop /\ UNCHANGED log
     /\ UNCHANGED hub
  \/ /\ In("resolve", "comment")
     /\ hub' = [hub EXCEPT !.prs[at.ref].comments = @ + 1] /\ To("advanced") /\ UNCHANGED log
  \/ /\ In("resolve", "advanced") /\ ~hub.prs[at.ref].moved
     /\ To("close") /\ UNCHANGED <<hub, log>>
  \/ Refuses("resolve", "advanced", ~hub.prs[at.ref].moved)
  \/ /\ In("resolve", "close")
     /\ hub' = IF at.seen THEN [hub EXCEPT !.prs[at.ref].state = "closed"] ELSE hub
     /\ To("confirm") /\ UNCHANGED log
  \/ /\ In("resolve", "confirm") /\ hub.prs[at.ref].state = "closed"
     /\ Resolved(at.ref) /\ UNCHANGED hub
  \/ Refuses("resolve", "confirm", hub.prs[at.ref].state = "closed")
-----------------------------------------------------------------------------
(* prune: one branch after the other, the integration branch last *)

Deleted(r) ==
  /\ log' = [log EXCEPT !.deleted = @ \cup {r}]
  /\ at' = IF at.todo = {r} THEN Idle ELSE [at EXCEPT !.todo = @ \ {r}, !.step = "look"]

Turn(r) == r \in at.todo /\ (r = "integration" => at.todo = {r})

Deletable(r) ==
  /\ r = "integration" \/ RulesOK
  /\ ArchiveGate /\ hub.heads[r] = Planned[r] /\ ~Dependents(r)
Vanished(r) ==
  /\ r = "integration" \/ RulesOK
  /\ ArchiveGate /\ hub.heads[r] = "none" /\ r \in log.deleting

Prune ==
  \/ /\ In("prune", "gate") /\ MainGate /\ NoneOpen
     /\ at' = [at EXCEPT !.step = "look", !.todo = Targets] /\ UNCHANGED <<hub, log>>
  \/ Refuses("prune", "gate", MainGate /\ NoneOpen)
  \/ /\ In("prune", "look")
     /\ \E r \in {r \in Targets : Turn(r)} :
          \/ /\ Deletable(r)
             /\ log' = [log EXCEPT !.deleting = @ \cup {r}]
             /\ at' = [at EXCEPT !.ref = r, !.step = "push"]
          \/ /\ Vanished(r)
             /\ at' = [at EXCEPT !.ref = r, !.step = "after"] /\ UNCHANGED log
          \/ ~Deletable(r) /\ ~Vanished(r) /\ Stop /\ UNCHANGED log
     /\ UNCHANGED hub
  \/ /\ In("prune", "push") /\ hub.heads[at.ref] = Planned[at.ref]  \* the lease
     /\ hub' = [hub EXCEPT !.heads[at.ref] = "none",
                           !.foreign.open = @ /\ hub.foreign.on # at.ref]
     /\ To("after") /\ UNCHANGED log
  \/ /\ In("prune", "after") /\ Raced(at.ref)
     /\ To("undo") /\ UNCHANGED <<hub, log>>
  \/ /\ In("prune", "after") /\ ~Raced(at.ref)
     /\ Deleted(at.ref) /\ UNCHANGED hub

\* Bug: the branches are not looked at again after the lock is gone.
NotAgain == TRUE
StillOnlyMain == OnlyMain

FinalizeGate ==
  /\ MainGate /\ OnlyMain /\ NoneOpen /\ ArchiveGate
  /\ Recorded("quality-app-binding") /\ hub.quality \in {"bound", "final"}

Finalize ==
  \/ /\ In("finalize", "gate") /\ FinalizeGate
     /\ Intends("final-quality")
     /\ at' = [at EXCEPT !.step = "quality", !.seen = hub.maintenance] /\ UNCHANGED hub
  \/ Refuses("finalize", "gate", FinalizeGate)
  \/ /\ In("finalize", "quality")
     /\ hub' = [hub EXCEPT !.quality = "final"] /\ To("auto") /\ UNCHANGED log
  \/ /\ In("finalize", "auto")
     /\ hub' = [hub EXCEPT !.autoDelete = AutoDelete] /\ To("unfreeze") /\ UNCHANGED log
  \/ /\ In("finalize", "unfreeze")
     /\ hub' = [hub EXCEPT !.maintenance = @ /\ ~at.seen] /\ To("check") /\ UNCHANGED log
  \/ /\ In("finalize", "check") /\ ~hub.maintenance /\ StillOnlyMain
     /\ hub' = [hub EXCEPT !.late = {}] /\ To("complete") /\ UNCHANGED log
  \/ Refuses("finalize", "check", ~hub.maintenance /\ StillOnlyMain)
  \/ Concludes("finalize", "complete", "complete")
-----------------------------------------------------------------------------
Step ==
  /\ \/ Prepare \/ Archive \/ Publish \/ Qualify \/ Merge \/ VerifyMerged
     \/ Rename \/ Resolve \/ Prune \/ Finalize \/ Undo
  /\ UNCHANGED counters

\* A crash, a failed request, or a lost answer to one that took effect.
Interrupt ==
  /\ at # Idle /\ stops < MaxStops /\ stops' = stops + 1
  /\ Stop /\ UNCHANGED <<hub, log, meddles, reruns>>

\* What the operator goes by: the receipt, and which branches are still there.
Finished(phase) ==
  CASE phase = "finalize" -> Recorded("complete")
    [] phase = "prune" -> \A r \in Targets : hub.heads[r] = "none" /\ r \in log.deleting
    [] OTHER -> \/ Intended("final-quality")
                \/ CASE phase = "prepare" -> RulesOK
                     [] phase = "archive" -> Recorded("archive-publish")
                     [] phase = "publish" -> Recorded("integration-pr")
                     [] phase = "qualify" -> Recorded("qualified")
                     [] phase = "verify-merged" -> Recorded("merged-qualified")
                     [] phase = "resolve" -> log.resolved = Requests
                     [] OTHER -> Recorded(phase)

\* The operator runs the first phase that is not finished, and may run others.
InTurn(i) == ~Finished(Phases[i]) /\ \A j \in 1..(i - 1) : Finished(Phases[j])
Resume == (\E i \in DOMAIN Phases : InTurn(i) /\ Enter(Phases[i])) /\ UNCHANGED counters
Rerun ==
  /\ reruns < MaxReruns /\ reruns' = reruns + 1
  /\ \E i \in DOMAIN Phases : ~InTurn(i) /\ Enter(Phases[i])
  /\ UNCHANGED <<stops, meddles>>

Meddle ==
  /\ meddles < MaxMeddles /\ meddles' = meddles + 1
  /\ \/ \E r \in Topics, as \in {"base", "head"} :
          /\ hub.foreign.on = "none" /\ hub.heads[r] # "none"
          /\ hub' = [hub EXCEPT !.foreign = [on |-> r, as |-> as, open |-> TRUE]]
     \/ hub.foreign.open /\ hub' = [hub EXCEPT !.foreign.open = FALSE]
     \/ \E q \in Requests \ Topics :
          /\ hub.prs[q].state = "open" /\ ~hub.prs[q].moved
          /\ hub' = [hub EXCEPT !.prs[q].moved = TRUE]
     \/ \E q \in Requests :
          /\ hub.prs[q].state = "closed" /\ (q \in Topics => hub.heads[q] # "none")
          /\ hub' = [hub EXCEPT !.prs[q].state = "open"]
     \/ \E r \in Topics :
          /\ ~hub.maintenance
          /\ hub' = [hub EXCEPT !.heads[r] = "foreign", !.late = @ \cup {r}]
  /\ UNCHANGED <<log, at, stops, reruns>>

Next == Step \/ Interrupt \/ Resume \/ Rerun \/ RenameSettles \/ Meddle
Spec == Init /\ [][Next]_vars
-----------------------------------------------------------------------------
TypeOK ==
  /\ hub.heads \in [Refs -> Commits]
  /\ hub.default \in {"base", "main"} /\ hub.renaming \in {"no", "asked", "moved"}
  /\ hub.quality \in {"none", "initial", "bound", "final"}
  /\ {hub.maintenance, hub.archives, hub.autoDelete, hub.tags} \subseteq BOOLEAN
  /\ hub.pr \in {"none", "open", "merged"} /\ hub.status \subseteq {"candidate", "merged"}
  /\ hub.prs \in [Requests -> [state : {"open", "closed", "merged"}, comments : Nat,
                               moved : BOOLEAN]]
  /\ hub.foreign \in [on : Topics \cup {"none"}, as : {"none", "base", "head"}, open : BOOLEAN]
  /\ hub.late \subseteq Topics
  /\ log.deleting \subseteq Targets /\ log.deleted \subseteq Targets
  /\ log.resolved \subseteq Requests
  /\ at.todo \subseteq Topics \cup Requests \cup {"integration"}

\* A branch is gone only by a recorded intent and with its commit in the published
\* archives, and its deletion is recorded as done only if nobody had opened a PR to
\* it by then: delete_branch, restore_if_dependent, and the retry of a run that was
\* interrupted between the two.  Every inventoried PR gets one comment at most,
\* however often resolve is interrupted, and one recorded as closed has it.
EffectsAccounted ==
  /\ TypeOK
  /\ \A r \in Targets : hub.heads[r] = "none" =>
       /\ r \in Topics => r \in log.deleting /\ hub.tags
       /\ r \in log.deleted => ~(hub.foreign.on = r /\ hub.foreign.as = "base")
  /\ \A q \in Requests :
       /\ hub.prs[q].comments <= 1
       /\ q \in log.resolved /\ Disposition[q] # "already_closed" /\ hub.prs[q].state # "merged" =>
            hub.prs[q].comments = 1

\* When the receipt becomes complete, the repository has the qualified main, the
\* archives, the lasting rules and the operator's settings, the maintenance lock is
\* gone, and no other branch is there but what others pushed after finalize looked
\* at the branches for the last time: without the lock nothing keeps them from it
\* between that look and the entry in the journal.
CompleteIsClean ==
  [][Recorded("complete")' /\ ~Recorded("complete") =>
       /\ \A r \in Refs \ hub'.late : hub'.heads[r] = IF r = "main" THEN "merged" ELSE "none"
       /\ hub'.default = "main"
       /\ hub'.tags /\ hub'.archives /\ hub'.quality = "final"
       /\ ~hub'.maintenance /\ hub'.autoDelete = AutoDelete]_vars

\* The branch was announced in the journal and never pushed.
PublishLost ==
  /\ at = Idle /\ Intended("publish")
  /\ hub.heads["integration"] = "none" /\ "integration" \notin log.deleting

\* "On resume, ... expected prior state can be retried" (cutover-runbook.md): when
\* nobody meddled, the phase whose turn it is can be run again.  It cannot after an
\* interruption between publish's intent and its push: check_drift expects the
\* branch as soon as the intent is recorded.
Resumable ==
  at = Idle /\ meddles = 0 /\ reruns = 0 /\ hub.renaming = "no" =>
    \A i \in DOMAIN Phases : InTurn(i) => Admitted(Phases[i])
=============================================================================
