------------------------- MODULE SourceIntegration -------------------------
(***************************************************************************)
(* The controller that integrates the source only: it stages a candidate   *)
(* beside the old branches, merges it into a new main through a PR of its  *)
(* own and makes that the default branch; nothing of the old repository is *)
(* changed.  When the hosted tests find a defect before the merge, a       *)
(* second plan continues the first with a repaired candidate, under a      *)
(* journal and a lock of its own: a controller of the first plan may still *)
(* be running, or be run again.                                            *)
(*                                                                         *)
(* A phase is a series of checks, journal entries and remote requests, and *)
(* the controller may stop between any two of them.  Run 1 is the plan and *)
(* run 2 its continuation.  Identity, evidence files and the independent   *)
(* checkout are taken as given.                                            *)
(***************************************************************************)
EXTENDS Naturals

CONSTANTS Requests,     \* inventoried PRs, all open, whose commits the candidates contain
          MaxTroubles   \* bound: interruptions, steps of other people, phases out of turn

Runs      == {1, 2}
Candidate == [r \in Runs |-> IF r = 1 THEN "c1" ELSE "c2"]
Merged    == [r \in Runs |-> IF r = 1 THEN "m1" ELSE "m2"]
Commits   == {"c1", "c2", "m1", "m2"}

Phases == <<"prepare", "archive", "stage", "qualify", "merge", "verify-merged",
            "switch-default", "finalize", "rollback-default">>

VARIABLES
  hub,       \* GitHub: the new branches, the rule for main, PRs, tags, test results
  log,       \* the journal of each run
  at,        \* the controller of each run: phase, step, part of the step
  plan,      \* the continuation: whether it was made, and the rule it inherits
  stops,     \* interruptions of a controller
  meddles,   \* steps of other people
  reruns     \* phases run out of their turn

counters == <<stops, meddles, reruns>>
vars == <<hub, log, at, plan, counters>>

Idle == [phase |-> "none", step |-> "none", part |-> "none"]

Init ==
  /\ hub = [original |-> TRUE,      \* the inventoried branches are where they were
            main |-> "none", integration |-> "none", default |-> "base", rule |-> "none",
            pr |-> [state |-> "none", head |-> "none", body |-> 0, byHand |-> FALSE],
            prs |-> [q \in Requests |-> "open"],
            tags |-> {}, ci |-> [c \in Commits |-> "none"]]
  /\ log = [r \in Runs |-> [intents |-> {}, results |-> {}, observed |-> {}, last |-> "none",
                          grown |-> FALSE]]
  /\ at = [r \in Runs |-> Idle]
  /\ plan = [made |-> FALSE, policy |-> "none"]
  /\ stops = 0 /\ meddles = 0 /\ reruns = 0
-----------------------------------------------------------------------------
(* The journal *)

Intended(r, operation) == operation \in log[r].intents
Recorded(r, operation) == operation \in log[r].results

\* A torn last line is taken away when the journal is read again: an entry is there
\* whole or not at all.  The continuation pins the journal of the first run.
Adds(r, entries) == log' = [log EXCEPT ![r] = [entries EXCEPT !.grown = plan.made]]
Intends(r, operation) ==
  IF Intended(r, operation) THEN UNCHANGED log
  ELSE Adds(r, [log[r] EXCEPT !.intents = @ \cup {operation}])
Records(r, operation) == Adds(r, [log[r] EXCEPT !.results = @ \cup {operation}])
Ends(r, operation) ==
  Adds(r, [log[r] EXCEPT !.results = @ \cup {operation}, !.last = operation])
Reconciled(r, operation) ==
  IF Recorded(r, operation) THEN UNCHANGED log ELSE Records(r, operation)

\* Bug: a rollback after the completion is overlooked.
EverComplete(r) == Recorded(r, "complete")
\* receipt
Complete(r) == log[r].last = "complete"
-----------------------------------------------------------------------------
(* What a controller requires of the repository before and after each phase *)

PR == hub.pr
Continues(r) == r = 2
Current == IF plan.made THEN 2 ELSE 1

\* integration_pr: there is none yet, or it is ours.
OwnPR(r) ==
  IF PR.state = "none"
  THEN ~Continues(r) /\ ~Recorded(r, "integration-pr")
  ELSE /\ Intended(r, "integration-pr") \/ Continues(r)
       /\ PR.head \in {Candidate[r]} \cup
            IF Continues(r) /\ ~Recorded(r, "fast-forward") THEN {"c1"} ELSE {}
       /\ PR.body \in IF Continues(r) /\ ~Recorded(r, "integration-pr")
                      THEN {1} \cup IF Intended(r, "body") THEN {2} ELSE {}
                      ELSE {r}

\* merged_identity: the merge of this candidate into the old default, announced
\* in this journal.
MergedIdentity(r) ==
  /\ OwnPR(r) /\ PR.state = "merged" /\ Intended(r, "merge")
  /\ PR.head = Candidate[r]

ExpectedMain(r) ==
  IF PR.state = "merged" /\ (Continues(r) \/ Intended(r, "create-main"))
  THEN IF MergedIdentity(r) THEN {Merged[r]} ELSE {}
  ELSE IF Continues(r) THEN {"base"}
  ELSE {"none"} \cup IF Intended(r, "create-main") THEN {"base"} ELSE {}

ExpectedIntegration(r) ==
  IF Continues(r) THEN {"c1"} \cup IF Intended(r, "fast-forward") THEN {"c2"} ELSE {}
  ELSE {"none"} \cup IF Intended(r, "create-integration") THEN {"c1"} ELSE {}

\* check_state
StateOK(r) ==
  /\ hub.original /\ OwnPR(r)
  /\ hub.main \in ExpectedMain(r) /\ hub.integration \in ExpectedIntegration(r)
  /\ \A q \in Requests : hub.prs[q] = "open" \/ (hub.prs[q] = "merged" /\ MergedIdentity(r))
  /\ hub.tags \ (IF Intended(r, "archive-publish") THEN {r} ELSE {})
       = IF Continues(r) THEN {1} ELSE {}
  /\ hub.default = "base" \/ Intended(r, "switch-default")

\* check_policy
PolicyOK(r) ==
  IF hub.rule = "none" THEN ~Continues(r) /\ ~Recorded(r, "main-policy")
  ELSE /\ Intended(r, "main-policy") \/ Continues(r)
       /\ \/ hub.rule = "initial"
          \/ Continues(r) /\ hub.rule = plan.policy
          \/ Intended(r, "source-quality") /\ hub.rule = "quality"
       /\ Recorded(r, "source-quality") => hub.rule = "quality"

Admitted(r, phase) ==
  /\ Continues(r) => ~log[1].grown
  /\ StateOK(r) /\ PolicyOK(r)
  /\ phase # "prepare" => Recorded(r, "main-policy")

\* required_ci, ci_evidence: the tests of exactly this commit.
Passed(c) == hub.ci[c] = "pass"
ArchiveGate(r) == Recorded(r, "archive-publish") /\ r \in hub.tags
MergedGate(r)  ==
  /\ MergedIdentity(r) /\ Recorded(r, "merged-source-qualified")
  /\ Passed(Merged[r]) /\ hub.main = Merged[r]
-----------------------------------------------------------------------------
(* action: announce, look, change, look again, record *)

Done(r, op) ==
  CASE op = "main-policy" -> hub.rule = "initial"
    [] op = "create-main" -> hub.main = "base"
    [] op = "create-integration" -> hub.integration = Candidate[r]
    [] op = "fast-forward" -> hub.integration = Candidate[r]
    [] op = "body" -> PR.body = r
    [] op = "source-quality" -> hub.rule = "quality"
    [] op = "switch-default" -> hub.default = "main"
    [] op = "rollback-default" -> hub.default = "base"

Ready(r, op) ==
  CASE op = "main-policy" -> hub.rule = "none"
    [] op = "create-main" -> hub.main = "none"
    [] op = "create-integration" -> hub.integration = "none"
    [] op = "fast-forward" -> hub.integration = "c1"
    [] op = "body" -> PR.body = 1
    [] op = "source-quality" -> hub.rule = IF Continues(r) THEN plan.policy ELSE "initial"
    [] op = "switch-default" -> hub.default = "base"
    [] op = "rollback-default" -> hub.default = "main"

\* A push moves the head of an open PR with the branch.
Effect(r, op) ==
  CASE op = "main-policy" -> [hub EXCEPT !.rule = "initial"]
    [] op = "create-main" -> [hub EXCEPT !.main = "base"]
    [] op \in {"create-integration", "fast-forward"} ->
         [hub EXCEPT !.integration = Candidate[r],
                     !.pr.head = IF PR.state = "open" THEN Candidate[r] ELSE @]
    [] op = "body" -> [hub EXCEPT !.pr.body = r]
    [] op = "source-quality" -> [hub EXCEPT !.rule = "quality"]
    [] op = "switch-default" -> [hub EXCEPT !.default = "main"]
    [] op = "rollback-default" -> [hub EXCEPT !.default = "base"]

In(r, phase, step) == at[r].phase = phase /\ at[r].step = step
To(r, step) == at' = [at EXCEPT ![r].step = step, ![r].part = "intent"]
Part(r, part) == at' = [at EXCEPT ![r].part = part]
Stop(r) == at' = [at EXCEPT ![r] = Idle]

\* Nobody else changes what an action is about between the look and the change;
\* the pushes are conditional on what was seen.
Acts(r, phase, op, next) ==
  /\ In(r, phase, op)
  /\ \/ at[r].part = "intent" /\ Intends(r, op) /\ Part(r, "change") /\ UNCHANGED hub
     \/ /\ at[r].part = "change" /\ Done(r, op)
        /\ Reconciled(r, op) /\ To(r, next) /\ UNCHANGED hub
     \/ /\ at[r].part = "change" /\ ~Done(r, op) /\ Ready(r, op)
        /\ hub' = Effect(r, op) /\ Part(r, "result") /\ UNCHANGED log
     \/ /\ at[r].part = "change" /\ ~Done(r, op) /\ ~Ready(r, op)
        /\ Stop(r) /\ UNCHANGED <<hub, log>>
     \/ /\ at[r].part = "result"
        /\ IF Done(r, op) THEN Records(r, op) /\ To(r, next) ELSE Stop(r) /\ UNCHANGED log
        /\ UNCHANGED hub

\* A requirement of the phase, then its first step.
Gate(r, phase, condition, next) ==
  /\ In(r, phase, "gate")
  /\ IF condition THEN To(r, next) ELSE Stop(r)
  /\ UNCHANGED <<hub, log>>

\* The entry that ends the phase.
Concludes(r, phase, step, operation) ==
  In(r, phase, step) /\ Records(r, operation) /\ To(r, "recheck") /\ UNCHANGED hub
-----------------------------------------------------------------------------
(* The phases *)

\* check_state notes every PR that GitHub reports as merged.
Observes(r) ==
  LET seen == {q \in Requests : hub.prs[q] = "merged"} IN
  IF ~StateOK(r) \/ seen \subseteq log[r].observed THEN UNCHANGED log
  ELSE Adds(r, [log[r] EXCEPT !.observed = @ \cup seen])

Enter(r, phase) ==
  /\ at[r] = Idle /\ (r = 1 \/ plan.made)
  /\ Admitted(r, phase)
  /\ at' = [at EXCEPT ![r] = [phase |-> phase, step |-> "gate", part |-> "none"]]
  /\ Observes(r)
  /\ UNCHANGED <<hub, plan>>

\* run ends with the checks it began with; a failed one changes nothing.
Recheck(r) ==
  /\ at[r].step = "recheck" /\ Stop(r)
  /\ Observes(r)
  /\ UNCHANGED hub

Prepare(r) ==
  \/ Gate(r, "prepare", Continues(r) => hub.rule = plan.policy,
          IF Continues(r) THEN "inherit" ELSE "main-policy")
  \/ Acts(r, "prepare", "main-policy", "recheck")
  \/ Concludes(r, "prepare", "inherit", "main-policy")

Archive(r) ==
  \/ Gate(r, "archive", Recorded(r, "archive-publish") => ArchiveGate(r),
          IF Recorded(r, "archive-publish") THEN "recheck" ELSE "tags")
  \/ /\ In(r, "archive", "tags")
     /\ Intends(r, "archive-publish") /\ To(r, "push") /\ UNCHANGED hub
  \/ /\ In(r, "archive", "push")
     /\ hub' = [hub EXCEPT !.tags = @ \cup {r}] /\ To(r, "result") /\ UNCHANGED log
  \/ Concludes(r, "archive", "result", "archive-publish")

Stage(r) ==
  \/ Gate(r, "stage", ArchiveGate(r), IF Continues(r) THEN "fast-forward" ELSE "create-main")
  \/ Acts(r, "stage", "create-main", "create-integration")
  \/ Acts(r, "stage", "create-integration", "request")
  \/ Acts(r, "stage", "fast-forward", "request")
  \/ Acts(r, "stage", "body", "reviewed")
  \/ /\ In(r, "stage", "request")
     /\ IF ~OwnPR(r) THEN Stop(r) /\ UNCHANGED log
        ELSE IF PR.state = "none" THEN Intends(r, "integration-pr") /\ To(r, "post")
        ELSE To(r, IF Continues(r) THEN "body" ELSE "reviewed") /\ UNCHANGED log
     /\ UNCHANGED hub
  \/ /\ In(r, "stage", "reviewed")
     /\ IF PR.body = r THEN Records(r, "integration-pr") /\ To(r, "recheck")
        ELSE Stop(r) /\ UNCHANGED log
     /\ UNCHANGED hub
  \/ /\ In(r, "stage", "post")
     /\ hub' = [hub EXCEPT !.pr = [@ EXCEPT !.state = "open", !.head = hub.integration, !.body = r]]
     /\ To(r, "posted") /\ UNCHANGED log
  \/ Concludes(r, "stage", "posted", "integration-pr")

QualifyGate(r) ==
  /\ ArchiveGate(r) /\ OwnPR(r) /\ PR.state = "open" /\ PR.head = Candidate[r]
  /\ hub.main = "base" /\ Passed(Candidate[r])

Qualify(r) ==
  \/ Gate(r, "qualify", QualifyGate(r), "source-quality")
  \/ Acts(r, "qualify", "source-quality", "qualified")
  \/ Concludes(r, "qualify", "qualified", "source-qualified")

MergeGate(r) ==
  /\ Recorded(r, "source-qualified") /\ OwnPR(r) /\ PR.state = "open"
  /\ PR.head = Candidate[r] /\ hub.main = "base"
  /\ Passed(Candidate[r]) /\ hub.rule = "quality"

\* Bug: the request does not name the head it was decided for.
AnyHead(r) == TRUE
\* What GitHub requires of the request, and the strict rule of main.
SameHead(r) == PR.head = Candidate[r]
Mergeable == PR.state = "open" /\ hub.main = "base" /\ (hub.rule = "quality" => Passed(PR.head))

\* The merge of the PR's head; GitHub may report other PRs it contains as merged.
MergeOf(byHand, brought) ==
  [hub EXCEPT !.main = IF PR.head = "c1" THEN "m1" ELSE "m2",
              !.pr.state = "merged", !.pr.byHand = byHand,
              !.prs = [q \in Requests |-> IF q \in brought THEN "merged" ELSE @[q]]]
Open == {q \in Requests : hub.prs[q] = "open"}

Merge(r) ==
  \/ /\ In(r, "merge", "gate") /\ Recorded(r, "source-qualified")
     /\ PR.state = "merged" /\ MergedIdentity(r)
     /\ Records(r, "merge") /\ To(r, "recheck") /\ UNCHANGED hub
  \/ /\ In(r, "merge", "gate") /\ MergeGate(r)
     /\ Intends(r, "merge") /\ To(r, "put") /\ UNCHANGED hub
  \/ /\ In(r, "merge", "gate") /\ ~MergeGate(r)
     /\ ~(Recorded(r, "source-qualified") /\ MergedIdentity(r))
     /\ Stop(r) /\ UNCHANGED <<hub, log>>
  \/ /\ In(r, "merge", "put") /\ SameHead(r) /\ Mergeable
     /\ \E brought \in SUBSET Open : hub' = MergeOf(FALSE, brought)
     /\ To(r, "merged") /\ UNCHANGED log
  \/ In(r, "merge", "put") /\ ~(SameHead(r) /\ Mergeable) /\ Stop(r) /\ UNCHANGED <<hub, log>>
  \/ MergedIdentity(r) /\ Concludes(r, "merge", "merged", "merge")
  \/ In(r, "merge", "merged") /\ ~MergedIdentity(r) /\ Stop(r) /\ UNCHANGED <<hub, log>>

VerifyMerged(r) ==
  \/ Gate(r, "verify-merged",
          MergedIdentity(r) /\ hub.main = Merged[r] /\ Passed(Merged[r]), "result")
  \/ Concludes(r, "verify-merged", "result", "merged-source-qualified")

SwitchDefault(r) ==
  \/ Gate(r, "switch-default", MergedGate(r), "switch-default")
  \/ Acts(r, "switch-default", "switch-default", "verified")
  \/ Concludes(r, "switch-default", "verified", "default-verified")

\* Bug: the default branch is what switch-default recorded.
AsRecorded(r) == Recorded(r, "default-verified")
MainIsDefault(r) == hub.default = "main"

FinalizeGate(r) == MergedGate(r) /\ MainIsDefault(r) /\ ArchiveGate(r) /\ StateOK(r) /\ PolicyOK(r)

Finalize(r) ==
  \/ Gate(r, "finalize", FinalizeGate(r), "complete")
  \/ /\ In(r, "finalize", "complete") /\ Ends(r, "complete") /\ To(r, "recheck")
     /\ UNCHANGED hub

RollbackDefault(r) ==
  \/ Gate(r, "rollback-default",
          Intended(r, "switch-default") /\ MergedIdentity(r) /\ hub.main = Merged[r],
          "rollback-default")
  \/ Acts(r, "rollback-default", "rollback-default", "rolled-back")
  \/ /\ In(r, "rollback-default", "rolled-back") /\ Ends(r, "rolled-back")
     /\ To(r, "recheck") /\ UNCHANGED hub
-----------------------------------------------------------------------------
Trouble == stops + meddles + reruns < MaxTroubles

Step(r) ==
  /\ \/ Prepare(r) \/ Archive(r) \/ Stage(r) \/ Qualify(r) \/ Merge(r) \/ VerifyMerged(r)
     \/ SwitchDefault(r) \/ Finalize(r) \/ RollbackDefault(r) \/ Recheck(r)
  /\ UNCHANGED <<plan, counters>>

\* A crash, a failed request, or a lost answer to one that took effect.
Interrupt(r) ==
  /\ at[r] # Idle /\ Trouble /\ stops' = stops + 1
  /\ Stop(r) /\ UNCHANGED <<hub, log, plan, meddles, reruns>>

\* make_plan for a continuation: the first run has a PR open and no merge begun.
Continue ==
  /\ ~plan.made /\ at[1] = Idle /\ StateOK(1) /\ PolicyOK(1)
  /\ PR.state = "open" /\ hub.main = "base" /\ hub.integration = "c1"
  /\ ~Intended(1, "merge")
  /\ plan' = [made |-> TRUE, policy |-> hub.rule]
  /\ UNCHANGED <<hub, log, at, counters>>

\* Hosted tests of what is published; the first candidate may have a defect.  The
\* results are looked at when a phase of the newest plan begins.
Tests ==
  /\ at[Current] = Idle
  /\ \E c \in Commits \cap {hub.main, hub.integration} :
       /\ hub.ci[c] = "none"
       /\ \E result \in {"pass"} \cup IF c = "c1" THEN {"fail"} ELSE {} :
            hub' = [hub EXCEPT !.ci[c] = result]
  /\ UNCHANGED <<log, at, plan, counters>>

Finished(r, phase) ==
  CASE phase = "prepare" -> Recorded(r, "main-policy")
    [] phase = "archive" -> Recorded(r, "archive-publish")
    [] phase = "stage" -> Recorded(r, "integration-pr")
    [] phase = "qualify" -> Recorded(r, "source-qualified")
    [] phase = "merge" -> Recorded(r, "merge")
    [] phase = "verify-merged" -> Recorded(r, "merged-source-qualified")
    [] phase = "switch-default" -> Recorded(r, "default-verified")
    [] phase = "finalize" -> Recorded(r, "complete")
    [] OTHER -> TRUE

\* The operator runs the phases of the newest plan in order, waiting for the tests,
\* and may run others.
InTurn(r, i) == r = Current /\ ~Finished(r, Phases[i]) /\ \A j \in 1..(i - 1) : Finished(r, Phases[j])
Tested(r, phase) ==
  /\ phase = "qualify" => Passed(Candidate[r])
  /\ phase = "verify-merged" => Passed(Merged[r])
Resume ==
  /\ \E i \in DOMAIN Phases : /\ InTurn(Current, i) /\ Tested(Current, Phases[i])
                              /\ Enter(Current, Phases[i])
  /\ UNCHANGED counters
Rerun ==
  /\ Trouble /\ reruns' = reruns + 1
  /\ \E r \in Runs, i \in DOMAIN Phases : ~InTurn(r, i) /\ Enter(r, Phases[i])
  /\ UNCHANGED <<stops, meddles>>

Meddle ==
  /\ Trouble /\ meddles' = meddles + 1
  /\ \/ hub.original /\ hub' = [hub EXCEPT !.original = FALSE]
     \/ Mergeable /\ \E brought \in SUBSET Open : hub' = MergeOf(TRUE, brought)
     \/ hub.main # "none" /\ hub' = [hub EXCEPT !.main = "foreign"]
     \/ \E c \in Commits : hub.ci[c] = "pass" /\ hub' = [hub EXCEPT !.ci[c] = "fail"]
  /\ UNCHANGED <<log, at, plan, stops, reruns>>

Next ==
  \/ \E r \in Runs : Step(r) \/ Interrupt(r)
  \/ Continue \/ Resume \/ Rerun \/ Tests \/ Meddle

Spec == Init /\ [][Next]_vars

\* The operator goes on, with a continuation when the tests failed.
Repair   == hub.ci["c1"] = "fail" /\ Continue
Fairness == /\ \A r \in Runs : WF_vars(Step(r))
            /\ WF_vars(Resume) /\ WF_vars(Repair) /\ WF_vars(Tests)
FairSpec == Spec /\ Fairness
-----------------------------------------------------------------------------
TypeOK ==
  /\ hub.main \in {"none", "base", "m1", "m2", "foreign"}
  /\ hub.integration \in {"none", "c1", "c2"} /\ hub.default \in {"base", "main"}
  /\ hub.rule \in {"none", "initial", "quality"} /\ hub.tags \subseteq Runs
  /\ hub.pr.state \in {"none", "open", "closed", "merged"}
  /\ hub.prs \in [Requests -> {"open", "closed", "merged"}]
  /\ hub.ci \in [Commits -> {"none", "pass", "fail"}]
  /\ plan.policy \in {"none", "initial", "quality"}
  /\ \A r \in Runs : log[r].observed \subseteq Requests

\* Main becomes the merge of a candidate only if that very candidate was qualified
\* and archived, although the branch and the PR are shared by two plans whose
\* controllers do not exclude each other, and although both may be interrupted
\* anywhere (merge: the head in the request); a hand that merges is excluded.
QualifiedMain ==
  TypeOK /\ \A r \in Runs :
    hub.main = Merged[r] /\ ~PR.byHand => Recorded(r, "source-qualified") /\ r \in hub.tags

\* A complete receipt is true: nobody meddling, main is the default and the merge of
\* this run's candidate under the strict rule, and every PR that GitHub closed is
\* accounted for; what takes that away again is a rollback announced in the journal
\* and not recorded yet.  A second rollback announces nothing new: until it is recorded
\* the receipt is wrong, which takes three interruptions and phases out of turn.
SourceReceipt ==
  \A r \in Runs : Complete(r) /\ meddles = 0 =>
    /\ hub.main = Merged[r] /\ hub.rule = "quality" /\ r \in hub.tags
    /\ \A q \in Requests : hub.prs[q] = "open" \/ q \in log[r].observed
    /\ \/ hub.default = "main"
       \/ /\ Intended(r, "rollback-default")
          /\ Recorded(r, "rolled-back") => stops + reruns > 2

\* If nobody meddles and the old plan is left alone, the operator who resumes after
\* every interruption ends with a complete receipt.
Integrates == <>(Complete(1) \/ Complete(2) \/ meddles > 0 \/ reruns > 0)
=============================================================================
