---------------------------- MODULE ReleaseProofs ----------------------------
(***************************************************************************)
(* What the operator can rely on while the repository on GitHub is         *)
(* changed, for any branches, requests and bounds: the receipt and the new *)
(* main of the source integration, the deletions, comments and receipt of  *)
(* the cutover.                                                            *)
(***************************************************************************)
EXTENDS Release, TLAPS

(* SourceIntegration: two plans, their journals and their controllers.      *)

Words == {"none", "gate", "recheck", "intent", "change", "result",
          "prepare", "archive", "stage", "qualify", "merge", "verify-merged", "switch-default",
          "finalize", "rollback-default", "main-policy", "inherit", "tags", "push", "create-main",
          "create-integration", "fast-forward", "body", "request", "reviewed", "post", "posted",
          "source-quality", "qualified", "put", "merged", "verified", "complete", "rolled-back",
          "archive-publish", "integration-pr", "source-qualified", "merged-source-qualified",
          "default-verified"}
SHub == [original : BOOLEAN, main : {"none", "base", "m1", "m2", "foreign"},
         integration : {"none", "c1", "c2"}, default : {"base", "main"},
         rule : {"none", "initial", "quality"},
         pr : [state : {"none", "open", "merged"}, head : {"none", "c1", "c2"}, body : 0 .. 2,
               byHand : BOOLEAN],
         prs : [OldRequests -> {"open", "merged"}], tags : SUBSET {1, 2},
         ci : [Source!Commits -> {"none", "pass", "fail"}]]
SLog == [intents : SUBSET Words, results : SUBSET Words, observed : SUBSET OldRequests,
         last : Words, grown : BOOLEAN]
SAt  == [phase : Words, step : Words, part : Words]

SourceTypes ==
  /\ sourceHub \in SHub
  /\ sourceLog \in [{1, 2} -> SLog] /\ sourceAt \in [{1, 2} -> SAt]
  /\ sourcePlan \in [made : BOOLEAN, policy : {"none", "initial", "quality"}]
  /\ sourceStops \in Nat /\ sourceMeddles \in Nat /\ sourceReruns \in Nat

IsMergeOf(r) == sourceHub.main = IF r = 1 THEN "m1" ELSE "m2"
Noted(r)    == \A q \in OldRequests : sourceHub.prs[q] = "open" \/ q \in sourceLog[r].observed
Within(r, phase, steps) == sourceAt[r].phase = phase /\ sourceAt[r].step \in steps

\* Only a candidate that is qualified and archived is merged by its controller.
Qualified(r) ==
  /\ Source!Recorded(r, "source-qualified") => r \in sourceHub.tags
  /\ Within(r, "qualify", {"source-quality", "qualified"}) => r \in sourceHub.tags
  /\ Within(r, "merge", {"put"}) => Source!Recorded(r, "source-qualified")
  /\ IsMergeOf(r) /\ ~sourceHub.pr.byHand => Source!Recorded(r, "source-qualified")

\* While nobody meddles a merge of main is final; the phases after it hold on to what
\* their gates have seen, and a receipt that is wrong cost three troubles.
Receipt(r) ==
  /\ Within(r, "merge", {"put"}) => sourceHub.rule = "quality"
  /\ sourceAt[r].phase \in {"switch-default", "rollback-default"} /\ sourceAt[r].step # "gate" => IsMergeOf(r)
  /\ sourceAt[r].phase = "rollback-default" /\ sourceAt[r].step # "gate" => Source!Intended(r, "switch-default")
  /\ Source!Recorded(r, "rolled-back") => IsMergeOf(r) /\ Source!Intended(r, "switch-default")
  /\ sourceAt[r].phase = "finalize" /\ IsMergeOf(r) => Noted(r)
  /\ Within(r, "finalize", {"complete"}) => IsMergeOf(r) /\ sourceHub.default = "main" /\ r \in sourceHub.tags
  /\ Within(r, "rollback-default", {"rollback-default"}) /\ sourceAt[r].part # "intent"
       => Source!Intended(r, "rollback-default")
  /\ Within(r, "rollback-default", {"rolled-back"}) => sourceHub.default = "base"
  /\ Within(r, "switch-default", {"switch-default"}) /\ sourceAt[r].part = "result" => sourceHub.default = "main"
  /\ Within(r, "switch-default", {"recheck"}) => Source!Recorded(r, "default-verified")
  /\ Source!Complete(r) => /\ IsMergeOf(r) /\ r \in sourceHub.tags /\ Noted(r)
                           /\ sourceHub.default = "main" \/ Source!Intended(r, "rollback-default")

Counted(r) ==
  /\ Source!Intended(r, "switch-default") /\ ~Source!Recorded(r, "default-verified") =>
       sourceStops > 0 \/ Within(r, "switch-default", {"switch-default", "verified"})
  /\ sourceAt[r].phase = "rollback-default" \/ Source!Recorded(r, "rolled-back") => sourceReruns > 0
  /\ Source!Recorded(r, "rolled-back") =>
       /\ sourceHub.default = "main" \/ sourceAt[r].phase = "switch-default" => sourceStops + sourceReruns > 1
       /\ Source!Complete(r) /\ (sourceHub.default = "base" \/ sourceAt[r].phase = "rollback-default")
            => sourceStops + sourceReruns > 2

Merged ==
  /\ \A r \in {1, 2} : Qualified(r)
  /\ sourceMeddles = 0 => /\ sourceHub.main \in {"m1", "m2"} => sourceHub.rule = "quality"
                          /\ \A r \in {1, 2} : Receipt(r) /\ Counted(r)

SourceInv == SourceTypes /\ Merged

\* The controller of a run goes to a step; the journal of a run grows.
Moves(r, phase, step, part) ==
  /\ sourceAt' \in [{1, 2} -> SAt] /\ \A o \in {1, 2} \ {r} : sourceAt'[o] = sourceAt[o]
  /\ sourceAt'[r].phase = phase /\ sourceAt'[r].step = step /\ sourceAt'[r].part = part
Grows(r, intents, results, observed, last) ==
  /\ sourceLog' \in [{1, 2} -> SLog] /\ \A o \in {1, 2} \ {r} : sourceLog'[o] = sourceLog[o]
  /\ sourceLog'[r].intents = sourceLog[r].intents \cup intents
  /\ sourceLog'[r].results = sourceLog[r].results \cup results
  /\ sourceLog'[r].observed = sourceLog[r].observed \cup observed
  /\ sourceLog'[r].last = last

\* The words a controller's parts are made of.
LEMMA Spoken == {"none", "intent", "change", "result"} \subseteq Words
BY DEF Words

\* The steps of a controller, field by field.
LEMMA StepTo ==
  ASSUME SourceTypes, NEW r \in {1, 2}, NEW step \in Words
  PROVE  /\ Source!To(r, step) => Moves(r, sourceAt[r].phase, step, "intent")
         /\ Source!Part(r, step) => Moves(r, sourceAt[r].phase, sourceAt[r].step, step)
         /\ Source!Stop(r) => Moves(r, "none", "none", "none")
<1>1. sourceAt[r] \in SAt /\ sourceAt \in [{1, 2} -> SAt]
  BY DEF SourceTypes
<1>2. ASSUME Source!To(r, step) PROVE Moves(r, sourceAt[r].phase, step, "intent")
  <2>1. PICK c : c = [sourceAt[r] EXCEPT !.step = step, !.part = "intent"]
    OBVIOUS
  <2>2. sourceAt' = [sourceAt EXCEPT ![r] = c]
    BY <1>1, <1>2, <2>1 DEF Source!To
  <2>3. c \in SAt /\ c.phase = sourceAt[r].phase /\ c.step = step /\ c.part = "intent"
    BY <1>1, <2>1, Spoken DEF SAt
  <2> QED BY <1>1, <2>2, <2>3 DEF Moves
<1>3. ASSUME Source!Part(r, step) PROVE Moves(r, sourceAt[r].phase, sourceAt[r].step, step)
  <2>1. PICK c : c = [sourceAt[r] EXCEPT !.part = step]
    OBVIOUS
  <2>2. sourceAt' = [sourceAt EXCEPT ![r] = c]
    BY <1>1, <1>3, <2>1 DEF Source!Part
  <2>3. c \in SAt /\ c.phase = sourceAt[r].phase /\ c.step = sourceAt[r].step /\ c.part = step
    BY <1>1, <2>1 DEF SAt
  <2> QED BY <1>1, <2>2, <2>3 DEF Moves
<1>4. ASSUME Source!Stop(r) PROVE Moves(r, "none", "none", "none")
  <2>1. PICK c : c = Source!Idle
    OBVIOUS
  <2>2. sourceAt' = [sourceAt EXCEPT ![r] = c]
    BY <1>4, <2>1 DEF Source!Stop
  <2>3. c \in SAt /\ c.phase = "none" /\ c.step = "none" /\ c.part = "none"
    BY <2>1, Spoken DEF SAt, Source!Idle
  <2> QED BY <1>1, <2>2, <2>3 DEF Moves
<1> QED BY <1>2, <1>3, <1>4

\* The entries of a journal, field by field: it only grows.
LEMMA Journals ==
  ASSUME SourceTypes, NEW r \in {1, 2}, NEW op \in Words
  PROVE  /\ Source!Intends(r, op) => Grows(r, {op}, {}, {}, sourceLog[r].last)
         /\ Source!Records(r, op) => Grows(r, {}, {op}, {}, sourceLog[r].last)
         /\ Source!Reconciled(r, op) => Grows(r, {}, {op}, {}, sourceLog[r].last)
         /\ Source!Ends(r, op) => Grows(r, {}, {op}, {}, op)
         /\ UNCHANGED sourceLog => Grows(r, {}, {}, {}, sourceLog[r].last)
<1>1. sourceLog[r] \in SLog /\ sourceLog \in [{1, 2} -> SLog] /\ sourcePlan.made \in BOOLEAN
  BY DEF SourceTypes
<1>2. ASSUME NEW e \in SLog, Source!Adds(r, e)
      PROVE  /\ sourceLog' \in [{1, 2} -> SLog] /\ \A o \in {1, 2} \ {r} : sourceLog'[o] = sourceLog[o]
             /\ sourceLog'[r].intents = e.intents /\ sourceLog'[r].results = e.results
             /\ sourceLog'[r].observed = e.observed /\ sourceLog'[r].last = e.last
  <2>1. PICK c : c = [e EXCEPT !.grown = sourcePlan.made]
    OBVIOUS
  <2>2. sourceLog' = [sourceLog EXCEPT ![r] = c]
    BY <1>2, <2>1 DEF Source!Adds
  <2>3. c \in SLog /\ c.intents = e.intents /\ c.results = e.results /\ c.observed = e.observed /\ c.last = e.last
    BY <1>1, <2>1 DEF SLog
  <2> QED BY <1>1, <2>2, <2>3
<1>3. UNCHANGED sourceLog => Grows(r, {}, {}, {}, sourceLog[r].last)
  BY <1>1 DEF Grows, SLog
<1>4. ASSUME Source!Intends(r, op) PROVE Grows(r, {op}, {}, {}, sourceLog[r].last)
  <2>1. CASE Source!Intended(r, op)
    BY <1>1, <1>4, <2>1 DEF Source!Intends, Source!Intended, Grows, SLog
  <2>2. CASE ~Source!Intended(r, op)
    <3>1. PICK e : e = [sourceLog[r] EXCEPT !.intents = sourceLog[r].intents \cup {op}]
      OBVIOUS
    <3>2. e \in SLog /\ e.intents = sourceLog[r].intents \cup {op} /\ e.results = sourceLog[r].results
          /\ e.observed = sourceLog[r].observed /\ e.last = sourceLog[r].last
      BY <1>1, <3>1 DEF SLog
    <3>3. Source!Adds(r, e)
      BY <1>1, <1>4, <2>2, <3>1 DEF Source!Intends, SLog
    <3> QED BY <1>2, <3>2, <3>3 DEF Grows
  <2> QED BY <2>1, <2>2
<1>5. ASSUME Source!Records(r, op) PROVE Grows(r, {}, {op}, {}, sourceLog[r].last)
  <2>1. PICK e : e = [sourceLog[r] EXCEPT !.results = sourceLog[r].results \cup {op}]
    OBVIOUS
  <2>2. e \in SLog /\ e.results = sourceLog[r].results \cup {op} /\ e.intents = sourceLog[r].intents
        /\ e.observed = sourceLog[r].observed /\ e.last = sourceLog[r].last
    BY <1>1, <2>1 DEF SLog
  <2>3. Source!Adds(r, e)
    BY <1>1, <1>5, <2>1 DEF Source!Records, SLog
  <2> QED BY <1>2, <2>2, <2>3 DEF Grows
<1>6. ASSUME Source!Reconciled(r, op) PROVE Grows(r, {}, {op}, {}, sourceLog[r].last)
  <2>1. CASE Source!Recorded(r, op)
    BY <1>1, <1>6, <2>1 DEF Source!Reconciled, Source!Recorded, Grows, SLog
  <2> QED BY <1>5, <1>6, <2>1 DEF Source!Reconciled
<1>7. ASSUME Source!Ends(r, op) PROVE Grows(r, {}, {op}, {}, op)
  <2>1. PICK e : e = [sourceLog[r] EXCEPT !.results = sourceLog[r].results \cup {op}, !.last = op]
    OBVIOUS
  <2>2. e \in SLog /\ e.results = sourceLog[r].results \cup {op} /\ e.intents = sourceLog[r].intents
        /\ e.observed = sourceLog[r].observed /\ e.last = op
    BY <1>1, <2>1 DEF SLog
  <2>3. Source!Adds(r, e)
    BY <1>1, <1>7, <2>1 DEF Source!Ends, SLog
  <2> QED BY <1>2, <2>2, <2>3 DEF Grows
<1> QED BY <1>3, <1>4, <1>5, <1>6, <1>7

\* Troubles are only counted up.
LEMMA More ==
  ASSUME NEW a \in Nat, NEW b \in Nat, NEW c \in Nat, NEW d \in Nat, a <= c, b <= d
  PROVE  (a > 0 => c > 0) /\ (b > 0 => d > 0) /\ (a + b > 1 => c + d > 1) /\ (a + b > 2 => c + d > 2)
OBVIOUS

\* What a step leaves to be shown: that of the run whose controller takes it.
LEMMA OneRun ==
  ASSUME SourceInv, NEW r \in {1, 2}, UNCHANGED <<sourceHub, sourcePlan, sourceMeddles>>,
         sourceStops' \in Nat, sourceStops <= sourceStops', sourceReruns' \in Nat, sourceReruns <= sourceReruns',
         sourceAt' \in [{1, 2} -> SAt], \A o \in {1, 2} \ {r} : sourceAt'[o] = sourceAt[o],
         sourceLog' \in [{1, 2} -> SLog], \A o \in {1, 2} \ {r} : sourceLog'[o] = sourceLog[o],
         Qualified(r)', sourceMeddles = 0 => Receipt(r)' /\ Counted(r)'
  PROVE  SourceInv'
<1>1. SourceTypes'
  BY DEF SourceInv, SourceTypes
<1>2. ASSUME NEW o \in {1, 2} PROVE Qualified(o)' /\ (sourceMeddles = 0 => Receipt(o)' /\ Counted(o)')
  <2>1. CASE o = r
    BY <2>1
  <2>2. CASE o # r
    <3>1. sourceAt'[o] = sourceAt[o] /\ sourceLog'[o] = sourceLog[o]
      BY <2>2
    <3>2. Qualified(o)'
      BY <3>1 DEF SourceInv, Merged, Qualified, Source!Recorded, Within, IsMergeOf
    <3>3. ASSUME sourceMeddles = 0 PROVE Receipt(o)'
      BY <3>1, <3>3 DEF SourceInv, Merged, Receipt, Source!Recorded, Source!Intended, Source!Complete,
                        Within, IsMergeOf, Noted
    <3>4. ASSUME sourceMeddles = 0 PROVE Counted(o)'
      <4>1. sourceStops \in Nat /\ sourceReruns \in Nat /\ Counted(o)
        BY <3>4 DEF SourceInv, SourceTypes, Merged
      <4>2. /\ (sourceStops > 0 => sourceStops' > 0) /\ (sourceReruns > 0 => sourceReruns' > 0)
            /\ sourceStops + sourceReruns > 1 => sourceStops' + sourceReruns' > 1
            /\ sourceStops + sourceReruns > 2 => sourceStops' + sourceReruns' > 2
        BY <4>1, More
      <4>3. Counted(o)
        BY <4>1
      <4> QED BY <3>1, <4>2, <4>3 DEF Counted, Source!Recorded, Source!Intended, Source!Complete, Within
    <3> QED BY <3>2, <3>3, <3>4
  <2> QED BY <2>1, <2>2
<1> QED BY <1>1, <1>2 DEF SourceInv, Merged

PlainPhases == {"none", "prepare", "archive", "stage", "qualify", "merge", "verify-merged"}

\* A step of the phases up to the merge that does not merge.
LEMMA PlainStep ==
  ASSUME SourceInv, NEW r \in {1, 2}, UNCHANGED <<sourcePlan, sourceStops, sourceMeddles, sourceReruns>>,
         sourceAt[r].phase \in PlainPhases,
         NEW phase \in PlainPhases, NEW step, NEW part, Moves(r, phase, step, part),
         NEW i, NEW s, Grows(r, i, s, {}, sourceLog[r].last),
         s \cap {"rolled-back", "default-verified"} = {}, "switch-default" \notin i,
         sourceHub' \in SHub, sourceHub.tags \subseteq sourceHub'.tags,
         sourceHub'.main = sourceHub.main \/ (sourceHub.main = "none" /\ sourceHub'.main = "base"),
         sourceHub'.rule = sourceHub.rule \/ sourceHub'.rule = "quality" \/ sourceHub.rule = "none",
         sourceHub'.default = sourceHub.default, sourceHub'.prs = sourceHub.prs,
         sourceHub'.pr.byHand = sourceHub.pr.byHand,
         "source-qualified" \in s => r \in sourceHub.tags,
         phase = "qualify" /\ step \in {"source-quality", "qualified"} => r \in sourceHub.tags,
         phase = "merge" /\ step = "put" => /\ Source!Recorded(r, "source-qualified")
                                            /\ sourceMeddles = 0 => sourceHub'.rule = "quality"
  PROVE  SourceInv'
<1>1. SourceTypes'
  BY DEF SourceInv, SourceTypes, Moves, Grows
<1>2. ASSUME NEW o \in {1, 2} PROVE IsMergeOf(o)' <=> IsMergeOf(o)
  BY <1>2 DEF IsMergeOf
<1>3. ASSUME NEW o \in {1, 2} \ {r} PROVE Qualified(o)' /\ (sourceMeddles = 0 => Receipt(o)' /\ Counted(o)')
  <2>1. sourceAt'[o] = sourceAt[o] /\ sourceLog'[o] = sourceLog[o] /\ o \in {1, 2}
    BY DEF Moves, Grows
  <2>2. Qualified(o) /\ (sourceMeddles = 0 => Receipt(o) /\ Counted(o))
    BY <2>1 DEF SourceInv, Merged
  <2>3. Qualified(o)'
    BY <1>2, <2>1, <2>2 DEF Qualified, Source!Recorded, Within
  <2>4. ASSUME sourceMeddles = 0 PROVE Receipt(o)'
    <3>1. Within(o, "merge", {"put"}) => sourceHub'.rule = "quality"
      BY <2>2, <2>4 DEF Receipt
    <3> QED BY <1>2, <2>1, <2>2, <2>4, <3>1 DEF Receipt, Source!Recorded, Source!Intended, Source!Complete,
                                                Within, Noted
  <2>5. ASSUME sourceMeddles = 0 PROVE Counted(o)'
    BY <2>1, <2>2, <2>5 DEF Counted, Source!Recorded, Source!Intended, Source!Complete, Within
  <2> QED BY <2>3, <2>4, <2>5
<1>4. Qualified(r) /\ (sourceMeddles = 0 => Receipt(r) /\ Counted(r))
  BY DEF SourceInv, Merged
<1>5. Qualified(r)'
  BY <1>2, <1>4 DEF Qualified, Source!Recorded, Within, Moves, Grows
<1>6. ASSUME sourceMeddles = 0 PROVE Receipt(r)'
  <2>1. /\ sourceAt'[r].phase \in PlainPhases
        /\ sourceLog[r].intents \subseteq sourceLog'[r].intents /\ sourceLog'[r].last = sourceLog[r].last
        /\ sourceLog'[r].observed = sourceLog[r].observed
        /\ "rolled-back" \in sourceLog'[r].results => "rolled-back" \in sourceLog[r].results
    BY DEF Moves, Grows
  <2>2. Within(r, "merge", {"put"})' => sourceHub'.rule = "quality"
    BY <1>6 DEF Within, Moves
  <2> QED BY <1>2, <1>4, <1>6, <2>1, <2>2 DEF Receipt, Source!Recorded, Source!Intended, Source!Complete,
                                              Within, Noted, PlainPhases
<1>7. ASSUME sourceMeddles = 0 PROVE Counted(r)'
  <2>1. /\ sourceAt'[r].phase \in PlainPhases
        /\ "switch-default" \in sourceLog'[r].intents => "switch-default" \in sourceLog[r].intents
        /\ sourceLog'[r].last = sourceLog[r].last /\ sourceLog[r].results \subseteq sourceLog'[r].results
        /\ "rolled-back" \in sourceLog'[r].results => "rolled-back" \in sourceLog[r].results
    BY DEF Moves, Grows
  <2> QED BY <1>4, <1>7, <2>1 DEF Counted, Source!Recorded, Source!Intended, Source!Complete, Within, PlainPhases
<1>8. sourceMeddles = 0 => (sourceHub'.main \in {"m1", "m2"} => sourceHub'.rule = "quality")
  BY DEF SourceInv, Merged
<1>9. \A o \in {1, 2} : Qualified(o)' /\ (sourceMeddles = 0 => Receipt(o)' /\ Counted(o)')
  BY <1>3, <1>5, <1>6, <1>7
<1> QED BY <1>1, <1>8, <1>9 DEF SourceInv, Merged

Operations == {"main-policy", "create-main", "create-integration", "fast-forward", "body",
               "source-quality", "switch-default", "rollback-default"}

\* What each request to GitHub changes, and what it leaves alone.
LEMMA EffectIs ==
  ASSUME SourceTypes, NEW r \in {1, 2}, NEW op \in Operations, Source!Ready(r, op),
         sourceHub' = Source!Effect(r, op)
  PROVE  /\ sourceHub' \in SHub /\ sourceHub'.tags = sourceHub.tags /\ sourceHub'.prs = sourceHub.prs
         /\ sourceHub'.pr.byHand = sourceHub.pr.byHand
         /\ sourceHub'.main = sourceHub.main \/ (sourceHub.main = "none" /\ sourceHub'.main = "base")
         /\ sourceHub'.rule = sourceHub.rule \/ sourceHub'.rule = "quality" \/ sourceHub.rule = "none"
         /\ op \in {"switch-default", "rollback-default"} =>
              /\ sourceHub'.default = IF op = "switch-default" THEN "main" ELSE "base"
              /\ sourceHub'.main = sourceHub.main /\ sourceHub'.rule = sourceHub.rule
         /\ op \notin {"switch-default", "rollback-default"} => sourceHub'.default = sourceHub.default
<1>1. sourceHub \in SHub
  BY DEF SourceTypes
<1>2. CASE op = "main-policy"
  <2>1. sourceHub' = [sourceHub EXCEPT !.rule = "initial"] /\ sourceHub.rule = "none"
    BY <1>2 DEF Source!Effect, Source!Ready
  <2> QED BY <1>1, <1>2, <2>1 DEF SHub
<1>3. CASE op = "create-main"
  <2>1. sourceHub' = [sourceHub EXCEPT !.main = "base"] /\ sourceHub.main = "none"
    BY <1>3 DEF Source!Effect, Source!Ready
  <2> QED BY <1>1, <1>3, <2>1 DEF SHub
<1>4. CASE op \in {"create-integration", "fast-forward"}
  <2>1. PICK c \in {"c1", "c2"} : c = Source!Candidate[r]
    BY DEF Source!Candidate, Source!Runs
  <2>2. PICK h : h = IF sourceHub.pr.state = "open" THEN c ELSE sourceHub.pr.head
    OBVIOUS
  <2>3. PICK p : p = [sourceHub.pr EXCEPT !.head = h]
    OBVIOUS
  <2>4. sourceHub' = [sourceHub EXCEPT !.integration = c, !.pr.head = h]
    BY <1>1, <1>4, <2>1, <2>2 DEF Source!Effect, Source!PR, SHub
  <2>5. sourceHub' = [sourceHub EXCEPT !.integration = c, !.pr = p]
    BY <1>1, <2>3, <2>4 DEF SHub
  <2>6. p \in [state : {"none", "open", "merged"}, head : {"none", "c1", "c2"}, body : 0 .. 2, byHand : BOOLEAN]
        /\ p.byHand = sourceHub.pr.byHand
    BY <1>1, <2>1, <2>2, <2>3 DEF SHub
  <2> QED BY <1>1, <1>4, <2>5, <2>6, ZenonT(40) DEF SHub
<1>5. CASE op = "body"
  <2>1. sourceHub' = [sourceHub EXCEPT !.pr.body = r]
    BY <1>5 DEF Source!Effect
  <2>2. PICK p : p = [sourceHub.pr EXCEPT !.body = r]
    OBVIOUS
  <2>3. sourceHub' = [sourceHub EXCEPT !.pr = p]
    BY <1>1, <2>1, <2>2 DEF SHub
  <2>4. p \in [state : {"none", "open", "merged"}, head : {"none", "c1", "c2"}, body : 0 .. 2, byHand : BOOLEAN]
        /\ p.byHand = sourceHub.pr.byHand
    BY <1>1, <2>2 DEF SHub
  <2> QED BY <1>1, <1>5, <2>3, <2>4 DEF SHub
<1>6. CASE op = "source-quality"
  <2>1. sourceHub' = [sourceHub EXCEPT !.rule = "quality"]
    BY <1>6 DEF Source!Effect
  <2> QED BY <1>1, <1>6, <2>1 DEF SHub
<1>7. CASE op \in {"switch-default", "rollback-default"}
  <2>1. sourceHub' = [sourceHub EXCEPT !.default = IF op = "switch-default" THEN "main" ELSE "base"]
    BY <1>7 DEF Source!Effect
  <2> QED BY <1>1, <1>7, <2>1 DEF SHub
<1> QED BY <1>2, <1>3, <1>4, <1>5, <1>6, <1>7 DEF Operations

\* action: announce, look, change, look again, record.
LEMMA ActsIs ==
  ASSUME SourceTypes, NEW r \in {1, 2}, NEW phase, NEW op \in Operations, NEW next \in Words,
         Source!Acts(r, phase, op, next)
  PROVE  /\ sourceAt[r].phase = phase /\ sourceAt[r].step = op
         /\ \/ /\ Moves(r, phase, op, "change") /\ Grows(r, {op}, {}, {}, sourceLog[r].last)
               /\ UNCHANGED sourceHub /\ sourceAt[r].part = "intent"
            \/ /\ Moves(r, phase, next, "intent") /\ Grows(r, {}, {op}, {}, sourceLog[r].last)
               /\ UNCHANGED sourceHub /\ Source!Done(r, op) /\ sourceAt[r].part \in {"change", "result"}
            \/ /\ Moves(r, phase, op, "result") /\ Grows(r, {}, {}, {}, sourceLog[r].last)
               /\ sourceHub' = Source!Effect(r, op) /\ Source!Ready(r, op) /\ sourceAt[r].part = "change"
            \/ /\ Moves(r, "none", "none", "none") /\ Grows(r, {}, {}, {}, sourceLog[r].last)
               /\ UNCHANGED sourceHub /\ ~Source!Done(r, op)
               /\ (sourceAt[r].part = "change" /\ ~Source!Ready(r, op)) \/ sourceAt[r].part = "result"
<1>1. sourceAt[r].phase = phase /\ sourceAt[r].step = op /\ op \in Words
  BY DEF Source!Acts, Source!In, Operations, Words
<1>2. /\ Source!Part(r, "change") => Moves(r, phase, op, "change")
      /\ Source!Part(r, "result") => Moves(r, phase, op, "result")
      /\ Source!To(r, next) => Moves(r, phase, next, "intent")
      /\ Source!Stop(r) => Moves(r, "none", "none", "none")
  <2>1. "change" \in Words /\ "result" \in Words
    BY DEF Words
  <2> QED BY <1>1, <2>1, StepTo
<1>3. /\ Source!Intends(r, op) => Grows(r, {op}, {}, {}, sourceLog[r].last)
      /\ Source!Records(r, op) \/ Source!Reconciled(r, op) => Grows(r, {}, {op}, {}, sourceLog[r].last)
      /\ UNCHANGED sourceLog => Grows(r, {}, {}, {}, sourceLog[r].last)
  BY <1>1, Journals
<1> QED BY <1>1, <1>2, <1>3 DEF Source!Acts

\* An action of a phase up to the merge.
LEMMA ActsPlainly ==
  ASSUME SourceInv, NEW r \in {1, 2}, NEW phase \in PlainPhases \ {"none", "merge"},
         NEW op \in Operations \ {"switch-default", "rollback-default"}, NEW next \in Words,
         Source!Acts(r, phase, op, next), UNCHANGED <<sourcePlan, sourceStops, sourceMeddles, sourceReruns>>,
         phase = "qualify" => op = "source-quality"
  PROVE  SourceInv'
<1>1. SourceTypes /\ sourceAt[r].phase = phase /\ sourceAt[r].step = op /\ phase \in PlainPhases
  BY ActsIs, ZenonT(40) DEF SourceInv
<1>2. phase = "qualify" => r \in sourceHub.tags
  BY <1>1 DEF SourceInv, Merged, Qualified, Within
<1>3. sourceHub \in SHub
  BY <1>1 DEF SourceTypes
<1>4. {op} \cap {"rolled-back", "default-verified"} = {} /\ op # "source-qualified" /\ op # "switch-default"
  BY DEF Operations
<1>5. CASE /\ Moves(r, phase, op, "change") /\ Grows(r, {op}, {}, {}, sourceLog[r].last)
           /\ UNCHANGED sourceHub
  BY <1>1, <1>2, <1>3, <1>4, <1>5, PlainStep
<1>6. CASE /\ Moves(r, phase, next, "intent") /\ Grows(r, {}, {op}, {}, sourceLog[r].last)
           /\ UNCHANGED sourceHub
  <2>1. PICK s : s = {op}
    OBVIOUS
  <2>2. s \cap {"rolled-back", "default-verified"} = {} /\ "source-qualified" \notin s
    BY <1>4, <2>1
  <2>3. Grows(r, {}, s, {}, sourceLog[r].last) /\ Moves(r, phase, next, "intent") /\ phase # "merge"
    BY <1>6, <2>1
  <2> QED BY <1>1, <1>2, <1>3, <1>6, <2>2, <2>3, PlainStep
<1>7. CASE /\ Moves(r, phase, op, "result") /\ Grows(r, {}, {}, {}, sourceLog[r].last)
           /\ sourceHub' = Source!Effect(r, op) /\ Source!Ready(r, op)
  <2>1. /\ sourceHub' \in SHub /\ sourceHub'.tags = sourceHub.tags /\ sourceHub'.prs = sourceHub.prs
        /\ sourceHub'.pr.byHand = sourceHub.pr.byHand
        /\ sourceHub'.main = sourceHub.main \/ (sourceHub.main = "none" /\ sourceHub'.main = "base")
        /\ sourceHub'.rule = sourceHub.rule \/ sourceHub'.rule = "quality" \/ sourceHub.rule = "none"
        /\ sourceHub'.default = sourceHub.default
    BY <1>1, <1>7, EffectIs
  <2> QED BY <1>1, <1>2, <1>4, <1>7, <2>1, PlainStep
<1>8. CASE /\ Moves(r, "none", "none", "none") /\ Grows(r, {}, {}, {}, sourceLog[r].last)
           /\ UNCHANGED sourceHub
  <2>1. "none" \in PlainPhases
    BY DEF PlainPhases
  <2> QED BY <1>1, <1>3, <1>8, <2>1, PlainStep
<1> QED BY <1>1, <1>5, <1>6, <1>7, <1>8, ActsIs

\* Any other step of such a phase that leaves GitHub alone.
LEMMA MovesPlainly ==
  ASSUME SourceInv, NEW r \in {1, 2}, UNCHANGED <<sourceHub, sourcePlan, sourceStops, sourceMeddles, sourceReruns>>,
         NEW phase \in PlainPhases, sourceAt[r].phase = phase,
         NEW step \in Words, Source!To(r, step) \/ Source!Stop(r),
         NEW op \in Words \ {"rolled-back", "default-verified", "switch-default"},
         UNCHANGED sourceLog \/ Source!Intends(r, op) \/ Source!Records(r, op),
         op = "source-qualified" => r \in sourceHub.tags,
         phase = "qualify" /\ step \in {"source-quality", "qualified"} /\ Source!To(r, step) => r \in sourceHub.tags,
         phase = "merge" /\ step = "put" /\ Source!To(r, step) =>
            /\ Source!Recorded(r, "source-qualified") /\ (sourceMeddles = 0 => sourceHub.rule = "quality")
  PROVE  SourceInv'
<1>1. SourceTypes /\ sourceHub \in SHub
  BY DEF SourceInv, SourceTypes
<1>2. PICK i \in {{}, {op}}, s \in {{}, {op}} : Grows(r, i, s, {}, sourceLog[r].last)
  BY <1>1, Journals
<1>3. s \cap {"rolled-back", "default-verified"} = {} /\ "switch-default" \notin i
      /\ ("source-qualified" \in s => r \in sourceHub.tags)
  BY <1>2
<1>4. ASSUME Source!To(r, step) PROVE SourceInv'
  <2>1. Moves(r, phase, step, "intent")
    BY <1>1, <1>4, StepTo
  <2> QED BY <1>1, <1>2, <1>3, <1>4, <2>1, PlainStep
<1>5. ASSUME Source!Stop(r) PROVE SourceInv'
  <2>1. Moves(r, "none", "none", "none") /\ "none" \in PlainPhases
    BY <1>1, <1>5, StepTo DEF PlainPhases
  <2> QED BY <1>1, <1>2, <1>3, <2>1, PlainStep
<1> QED BY <1>4, <1>5

\* The phases up to the merge, one by one: the rule of main,
LEMMA PrepareStep ==
  ASSUME SourceInv, NEW r \in {1, 2}, UNCHANGED <<sourcePlan, sourceStops, sourceMeddles, sourceReruns>>,
         Source!Prepare(r)
  PROVE  SourceInv'
<1>1. {"prepare", "inherit", "main-policy", "recheck"} \subseteq Words /\ "prepare" \in PlainPhases
  BY DEF Words, PlainPhases
<1>2. CASE Source!Gate(r, "prepare", Source!Continues(r) => sourceHub.rule = sourcePlan.policy,
                       IF Source!Continues(r) THEN "inherit" ELSE "main-policy")
  <2>1. PICK step \in {"inherit", "main-policy"} : Source!To(r, step) \/ Source!Stop(r)
    BY <1>2 DEF Source!Gate
  <2>2. sourceAt[r].phase = "prepare" /\ UNCHANGED <<sourceHub, sourceLog>>
    BY <1>2 DEF Source!Gate, Source!In
  <2> QED BY <1>1, <2>1, <2>2, MovesPlainly
<1>3. CASE Source!Acts(r, "prepare", "main-policy", "recheck")
  <2>1. "main-policy" \in Operations \ {"switch-default", "rollback-default"}
    BY DEF Operations
  <2> QED BY <1>1, <1>3, <2>1, ActsPlainly
<1>4. CASE Source!Concludes(r, "prepare", "inherit", "main-policy")
  <2>1. sourceAt[r].phase = "prepare" /\ UNCHANGED sourceHub /\ Source!To(r, "recheck") /\ Source!Records(r, "main-policy")
    BY <1>4 DEF Source!Concludes, Source!In
  <2> QED BY <1>1, <2>1, MovesPlainly
<1> QED BY <1>2, <1>3, <1>4 DEF Source!Prepare

\* the archive of the old branches,
LEMMA ArchiveStep ==
  ASSUME SourceInv, NEW r \in {1, 2}, UNCHANGED <<sourcePlan, sourceStops, sourceMeddles, sourceReruns>>,
         Source!Archive(r)
  PROVE  SourceInv'
<1>1. {"archive", "push", "tags", "result", "recheck", "archive-publish"} \subseteq Words /\ "archive" \in PlainPhases
  BY DEF Words, PlainPhases
<1>2. CASE Source!Gate(r, "archive", Source!Recorded(r, "archive-publish") => Source!ArchiveGate(r),
                       IF Source!Recorded(r, "archive-publish") THEN "recheck" ELSE "tags")
  <2>1. PICK step \in {"recheck", "tags"} : Source!To(r, step) \/ Source!Stop(r)
    BY <1>2 DEF Source!Gate
  <2>2. sourceAt[r].phase = "archive" /\ UNCHANGED <<sourceHub, sourceLog>>
    BY <1>2 DEF Source!Gate, Source!In
  <2> QED BY <1>1, <2>1, <2>2, MovesPlainly
<1>3. CASE /\ Source!In(r, "archive", "tags")
           /\ Source!Intends(r, "archive-publish") /\ Source!To(r, "push") /\ UNCHANGED sourceHub
  <2>1. sourceAt[r].phase = "archive"
    BY <1>3 DEF Source!In
  <2> QED BY <1>1, <1>3, <2>1, MovesPlainly
<1>4. CASE /\ Source!In(r, "archive", "push")
           /\ sourceHub' = [sourceHub EXCEPT !.tags = @ \cup {r}] /\ Source!To(r, "result") /\ UNCHANGED sourceLog
  <2>1. SourceTypes /\ sourceHub \in SHub /\ sourceAt[r].phase = "archive"
    BY <1>4 DEF SourceInv, SourceTypes, Source!In
  <2>2. Moves(r, "archive", "result", "intent") /\ Grows(r, {}, {}, {}, sourceLog[r].last)
    BY <1>1, <1>4, <2>1, StepTo, Journals
  <2>3. /\ sourceHub' \in SHub /\ sourceHub.tags \subseteq sourceHub'.tags
        /\ sourceHub'.main = sourceHub.main /\ sourceHub'.rule = sourceHub.rule
        /\ sourceHub'.default = sourceHub.default /\ sourceHub'.prs = sourceHub.prs
        /\ sourceHub'.pr.byHand = sourceHub.pr.byHand
    BY <1>4, <2>1 DEF SHub
  <2> QED BY <1>1, <2>1, <2>2, <2>3, PlainStep
<1>5. CASE Source!Concludes(r, "archive", "result", "archive-publish")
  <2>1. sourceAt[r].phase = "archive" /\ UNCHANGED sourceHub /\ Source!To(r, "recheck") /\ Source!Records(r, "archive-publish")
    BY <1>5 DEF Source!Concludes, Source!In
  <2> QED BY <1>1, <2>1, MovesPlainly
<1> QED BY <1>2, <1>3, <1>4, <1>5 DEF Source!Archive

\* the candidate, its branch and its pull request,
LEMMA StageStep ==
  ASSUME SourceInv, NEW r \in {1, 2}, UNCHANGED <<sourcePlan, sourceStops, sourceMeddles, sourceReruns>>,
         Source!Stage(r)
  PROVE  SourceInv'
<1>1. {"stage", "create-main", "create-integration", "fast-forward", "request", "body", "reviewed",
       "post", "posted", "recheck", "integration-pr"} \subseteq Words /\ "stage" \in PlainPhases
  BY DEF Words, PlainPhases
<1>2. CASE Source!Gate(r, "stage", Source!ArchiveGate(r),
                       IF Source!Continues(r) THEN "fast-forward" ELSE "create-main")
  <2>1. PICK step \in {"fast-forward", "create-main"} : Source!To(r, step) \/ Source!Stop(r)
    BY <1>2 DEF Source!Gate
  <2>2. sourceAt[r].phase = "stage" /\ UNCHANGED <<sourceHub, sourceLog>>
    BY <1>2 DEF Source!Gate, Source!In
  <2> QED BY <1>1, <2>1, <2>2, MovesPlainly
<1>3. CASE \/ Source!Acts(r, "stage", "create-main", "create-integration")
           \/ Source!Acts(r, "stage", "create-integration", "request")
           \/ Source!Acts(r, "stage", "fast-forward", "request")
           \/ Source!Acts(r, "stage", "body", "reviewed")
  <2>1. {"create-main", "create-integration", "fast-forward", "body"}
          \subseteq Operations \ {"switch-default", "rollback-default"}
    BY DEF Operations
  <2> QED BY <1>1, <1>3, <2>1, ActsPlainly
<1>4. CASE Source!In(r, "stage", "request") \/ Source!In(r, "stage", "reviewed")
  <2>1. sourceAt[r].phase = "stage"
    BY <1>4 DEF Source!In
  <2>2. CASE Source!In(r, "stage", "request") /\ ~Source!In(r, "stage", "post")
    <3>1. PICK step \in {"post", "body", "reviewed"} : Source!To(r, step) \/ Source!Stop(r)
      BY <2>2 DEF Source!Stage, Source!In, Source!Gate, Source!Acts, Source!Concludes
    <3>2. UNCHANGED sourceHub /\ (UNCHANGED sourceLog \/ Source!Intends(r, "integration-pr"))
      BY <2>2 DEF Source!Stage, Source!In, Source!Gate, Source!Acts, Source!Concludes
    <3> QED BY <1>1, <2>1, <3>1, <3>2, MovesPlainly
  <2>3. CASE Source!In(r, "stage", "reviewed")
    <3>1. PICK step \in {"recheck"} : Source!To(r, step) \/ Source!Stop(r)
      BY <2>3 DEF Source!Stage, Source!In, Source!Gate, Source!Acts, Source!Concludes
    <3>2. UNCHANGED sourceHub /\ (UNCHANGED sourceLog \/ Source!Records(r, "integration-pr"))
      BY <2>3 DEF Source!Stage, Source!In, Source!Gate, Source!Acts, Source!Concludes
    <3> QED BY <1>1, <2>1, <3>1, <3>2, MovesPlainly
  <2> QED BY <1>4, <2>2, <2>3 DEF Source!In
<1>5. CASE /\ Source!In(r, "stage", "post")
           /\ sourceHub' = [sourceHub EXCEPT !.pr = [@ EXCEPT !.state = "open", !.head = sourceHub.integration,
                                                              !.body = r]]
           /\ Source!To(r, "posted") /\ UNCHANGED sourceLog
  <2>1. SourceTypes /\ sourceHub \in SHub /\ sourceAt[r].phase = "stage"
    BY <1>5 DEF SourceInv, SourceTypes, Source!In
  <2>2. Moves(r, "stage", "posted", "intent") /\ Grows(r, {}, {}, {}, sourceLog[r].last)
    BY <1>1, <1>5, <2>1, StepTo, Journals
  <2>3. PICK p : p = [sourceHub.pr EXCEPT !.state = "open", !.head = sourceHub.integration, !.body = r]
    OBVIOUS
  <2>4. sourceHub' = [sourceHub EXCEPT !.pr = p]
    BY <1>5, <2>1, <2>3 DEF SHub
  <2>5. p \in [state : {"none", "open", "merged"}, head : {"none", "c1", "c2"}, body : 0 .. 2, byHand : BOOLEAN]
        /\ p.byHand = sourceHub.pr.byHand
    <3>1. /\ sourceHub.pr \in [state : {"none", "open", "merged"}, head : {"none", "c1", "c2"}, body : 0 .. 2,
                             byHand : BOOLEAN]
          /\ sourceHub.integration \in {"none", "c1", "c2"}
      BY <2>1 DEF SHub
    <3>2. r \in 0 .. 2
      OBVIOUS
    <3>3. /\ p.state = "open" /\ p.head = sourceHub.integration /\ p.body = r /\ p.byHand = sourceHub.pr.byHand
          /\ p = [state |-> "open", head |-> sourceHub.integration, body |-> r, byHand |-> sourceHub.pr.byHand]
      BY <2>3, <3>1
    <3> QED BY <3>1, <3>2, <3>3
  <2>6. /\ sourceHub' \in SHub /\ sourceHub.tags = sourceHub'.tags
        /\ sourceHub'.main = sourceHub.main /\ sourceHub'.rule = sourceHub.rule
        /\ sourceHub'.default = sourceHub.default /\ sourceHub'.prs = sourceHub.prs
        /\ sourceHub'.pr.byHand = sourceHub.pr.byHand
    BY <2>1, <2>4, <2>5 DEF SHub
  <2> QED BY <1>1, <2>1, <2>2, <2>6, PlainStep
<1>6. CASE Source!Concludes(r, "stage", "posted", "integration-pr")
  <2>1. sourceAt[r].phase = "stage" /\ UNCHANGED sourceHub /\ Source!To(r, "recheck") /\ Source!Records(r, "integration-pr")
    BY <1>6 DEF Source!Concludes, Source!In
  <2> QED BY <1>1, <2>1, MovesPlainly
<1> QED BY <1>2, <1>3, <1>4, <1>5, <1>6 DEF Source!Stage

\* and the tests, before the merge and after it.
LEMMA QualifyStep ==
  ASSUME SourceInv, NEW r \in {1, 2}, UNCHANGED <<sourcePlan, sourceStops, sourceMeddles, sourceReruns>>,
         Source!Qualify(r) \/ Source!VerifyMerged(r)
  PROVE  SourceInv'
<1>1. {"qualify", "source-quality", "qualified", "source-qualified", "verify-merged", "result",
       "merged-source-qualified", "recheck"} \subseteq Words /\ {"qualify", "verify-merged"} \subseteq PlainPhases
  BY DEF Words, PlainPhases
<1>2. CASE Source!Gate(r, "qualify", Source!QualifyGate(r), "source-quality")
  <2>1. sourceAt[r].phase = "qualify" /\ UNCHANGED <<sourceHub, sourceLog>>
    BY <1>2 DEF Source!Gate, Source!In
  <2>2. (Source!To(r, "source-quality") /\ r \in sourceHub.tags) \/ Source!Stop(r)
    BY <1>2 DEF Source!Gate, Source!QualifyGate, Source!ArchiveGate
  <2>3. CASE Source!To(r, "source-quality") /\ r \in sourceHub.tags
    BY <1>1, <2>1, <2>3, MovesPlainly
  <2>4. CASE Source!Stop(r)
    <3>1. "recheck" \in Words
      BY <1>1
    <3>2. \A step \in {"recheck"} : Source!To(r, step) \/ Source!Stop(r)
      BY <2>4
    <3> QED BY <1>1, <2>1, <3>1, <3>2, MovesPlainly
  <2> QED BY <2>2, <2>3, <2>4
<1>3. CASE Source!Acts(r, "qualify", "source-quality", "qualified")
  <2>1. "source-quality" \in Operations \ {"switch-default", "rollback-default"}
    BY DEF Operations
  <2> QED BY <1>1, <1>3, <2>1, ActsPlainly
<1>4. CASE Source!Concludes(r, "qualify", "qualified", "source-qualified")
  <2>1. /\ sourceAt[r].phase = "qualify" /\ sourceAt[r].step = "qualified" /\ UNCHANGED sourceHub
        /\ Source!To(r, "recheck") /\ Source!Records(r, "source-qualified")
    BY <1>4 DEF Source!Concludes, Source!In
  <2>2. r \in sourceHub.tags
    BY <2>1 DEF SourceInv, Merged, Qualified, Within
  <2> QED BY <1>1, <2>1, <2>2, MovesPlainly
<1>5. CASE Source!Gate(r, "verify-merged", Source!MergedIdentity(r) /\ sourceHub.main = Source!Merged[r]
                                             /\ Source!Passed(Source!Merged[r]), "result")
  <2>1. sourceAt[r].phase = "verify-merged" /\ UNCHANGED <<sourceHub, sourceLog>>
    BY <1>5 DEF Source!Gate, Source!In
  <2>2. Source!To(r, "result") \/ Source!Stop(r)
    BY <1>5 DEF Source!Gate
  <2> QED BY <1>1, <2>1, <2>2, MovesPlainly
<1>6. CASE Source!Concludes(r, "verify-merged", "result", "merged-source-qualified")
  <2>1. /\ sourceAt[r].phase = "verify-merged" /\ UNCHANGED sourceHub
        /\ Source!To(r, "recheck") /\ Source!Records(r, "merged-source-qualified")
    BY <1>6 DEF Source!Concludes, Source!In
  <2> QED BY <1>1, <2>1, MovesPlainly
<1> QED BY <1>2, <1>3, <1>4, <1>5, <1>6 DEF Source!Qualify, Source!VerifyMerged

\* What a merge changes, by whomever.
LEMMA MergeIs ==
  ASSUME SourceTypes, NEW byHand \in BOOLEAN, NEW brought, sourceHub' = Source!MergeOf(byHand, brought)
  PROVE  /\ sourceHub' \in SHub /\ sourceHub'.tags = sourceHub.tags /\ sourceHub'.rule = sourceHub.rule
         /\ sourceHub'.default = sourceHub.default /\ sourceHub'.pr.byHand = byHand
         /\ sourceHub'.main = IF sourceHub.pr.head = "c1" THEN "m1" ELSE "m2"
<1>1. sourceHub \in SHub
  BY DEF SourceTypes
<1>2. PICK m \in {"m1", "m2"} : m = IF sourceHub.pr.head = "c1" THEN "m1" ELSE "m2"
  OBVIOUS
<1>3. PICK p : p = [sourceHub.pr EXCEPT !.state = "merged", !.byHand = byHand]
  OBVIOUS
<1>4. PICK a : a = [q \in OldRequests |-> IF q \in brought THEN "merged" ELSE sourceHub.prs[q]]
  OBVIOUS
<1>5. sourceHub' = [sourceHub EXCEPT !.main = m, !.pr.state = "merged", !.pr.byHand = byHand, !.prs = a]
  BY <1>1, <1>2, <1>4 DEF Source!MergeOf, Source!PR, SHub
<1>6. sourceHub' = [sourceHub EXCEPT !.main = m, !.pr = p, !.prs = a]
  BY <1>1, <1>3, <1>5 DEF SHub
<1>7. p \in [state : {"none", "open", "merged"}, head : {"none", "c1", "c2"}, body : 0 .. 2, byHand : BOOLEAN]
      /\ p.byHand = byHand
  <2>1. sourceHub.pr \in [state : {"none", "open", "merged"}, head : {"none", "c1", "c2"}, body : 0 .. 2,
                          byHand : BOOLEAN]
    BY <1>1 DEF SHub
  <2> QED BY <1>3, <2>1
<1>8. a \in [OldRequests -> {"open", "merged"}]
  <2>1. sourceHub.prs \in [OldRequests -> {"open", "merged"}]
    BY <1>1 DEF SHub
  <2> QED BY <1>4, <2>1
<1>9. /\ sourceHub'.tags = sourceHub.tags /\ sourceHub'.rule = sourceHub.rule
      /\ sourceHub'.default = sourceHub.default /\ sourceHub'.pr = p /\ sourceHub'.main = m
  BY <1>1, <1>6 DEF SHub
<1>10. m \in {"none", "base", "m1", "m2", "foreign"}
  BY <1>2
<1>11. sourceHub' \in SHub
  <2>1. PICK b : b = [sourceHub EXCEPT !.main = m]
    OBVIOUS
  <2>2. PICK c : c = [b EXCEPT !.pr = p]
    OBVIOUS
  <2>3. b \in SHub
    BY <1>1, <1>10, <2>1 DEF SHub
  <2>4. c \in SHub
    BY <1>7, <2>2, <2>3 DEF SHub
  <2>5. sourceHub' = [c EXCEPT !.prs = a]
    BY <1>1, <1>6, <2>1, <2>2 DEF SHub
  <2> QED BY <1>8, <2>4, <2>5 DEF SHub
<1> QED BY <1>2, <1>7, <1>9, <1>11

\* The controller merges: the merge is of its own candidate, into a main that was none.
LEMMA MergeStep ==
  ASSUME SourceInv, NEW r \in {1, 2}, UNCHANGED <<sourcePlan, sourceStops, sourceMeddles, sourceReruns>>,
         Source!Merge(r)
  PROVE  SourceInv'
<1>1. {"merge", "put", "merged", "recheck"} \subseteq Words /\ "merge" \in PlainPhases
  BY DEF Words, PlainPhases
<1>2. SourceTypes /\ sourceAt[r].phase = "merge"
  BY DEF Source!Merge, Source!In, Source!Concludes, SourceInv
<1>3. CASE /\ sourceHub' = sourceHub /\ \/ Source!To(r, "recheck") /\ Source!Records(r, "merge")
                                        \/ Source!Stop(r) /\ UNCHANGED sourceLog
  <2>1. CASE Source!To(r, "recheck") /\ Source!Records(r, "merge")
    BY <1>1, <1>2, <1>3, <2>1, MovesPlainly
  <2>2. CASE Source!Stop(r) /\ UNCHANGED sourceLog
    <3>1. "recheck" \in Words /\ (Source!To(r, "recheck") \/ Source!Stop(r)) /\ "merge" # "qualify"
      BY <1>1, <2>2
    <3> QED BY <1>1, <1>2, <1>3, <2>2, <3>1, MovesPlainly
  <2> QED BY <1>3, <2>1, <2>2
<1>4. CASE /\ Source!MergeGate(r) /\ Source!Intends(r, "merge") /\ Source!To(r, "put") /\ UNCHANGED sourceHub
  <2>1. Source!Recorded(r, "source-qualified") /\ sourceHub.rule = "quality"
    BY <1>4 DEF Source!MergeGate
  <2> QED BY <1>1, <1>2, <1>4, <2>1, MovesPlainly
<1>5. CASE /\ Source!In(r, "merge", "put") /\ Source!SameHead(r) /\ Source!Mergeable
           /\ \E brought \in SUBSET Source!Open : sourceHub' = Source!MergeOf(FALSE, brought)
           /\ Source!To(r, "merged") /\ UNCHANGED sourceLog
  <2>1. /\ sourceHub' \in SHub /\ sourceHub'.tags = sourceHub.tags /\ sourceHub'.rule = sourceHub.rule
        /\ sourceHub'.default = sourceHub.default /\ sourceHub'.pr.byHand = FALSE
        /\ sourceHub'.main = IF sourceHub.pr.head = "c1" THEN "m1" ELSE "m2"
    BY <1>2, <1>5, MergeIs
  <2>2. sourceHub.main = "base" /\ sourceHub'.main = IF r = 1 THEN "m1" ELSE "m2"
    BY <1>5, <2>1 DEF Source!SameHead, Source!Mergeable, Source!PR, Source!Candidate, Source!Runs
  <2>3. Moves(r, "merge", "merged", "intent") /\ Grows(r, {}, {}, {}, sourceLog[r].last)
    BY <1>1, <1>2, <1>5, StepTo, Journals
  <2>4. SourceTypes'
    BY <1>2, <2>1, <2>3 DEF SourceTypes, Moves, Grows
  <2>5. /\ sourceAt[r].step = "put" /\ Qualified(r) /\ Source!Recorded(r, "source-qualified")
        /\ sourceMeddles = 0 => sourceHub.rule = "quality"
    BY <1>2, <1>5 DEF SourceInv, Merged, Qualified, Receipt, Source!In, Within
  <2>6. ASSUME NEW o \in {1, 2} PROVE Qualified(o)' /\ (sourceMeddles = 0 => Receipt(o)' /\ Counted(o)')
    <3>1. Qualified(o) /\ (sourceMeddles = 0 => Receipt(o) /\ Counted(o)) /\ ~IsMergeOf(o)
      BY <2>2 DEF SourceInv, Merged, IsMergeOf
    <3>2. /\ sourceAt'[o].phase = sourceAt[o].phase /\ sourceLog'[o] = sourceLog[o]
          /\ o # r => sourceAt'[o] = sourceAt[o] /\ ~IsMergeOf(o)'
          /\ o = r => sourceAt'[o].phase = "merge" /\ sourceAt'[o].step = "merged"
      BY <1>2, <1>5, <2>2, <2>3 DEF Moves, IsMergeOf
    <3>3. Qualified(o)'
      BY <2>1, <2>5, <3>1, <3>2 DEF Qualified, Source!Recorded, Within
    <3>4. ASSUME sourceMeddles = 0 PROVE Receipt(o)'
      BY <1>2, <2>1, <3>1, <3>2, <3>4 DEF Receipt, Source!Recorded, Source!Complete, Source!Intended, Within
    <3>5. ASSUME sourceMeddles = 0 PROVE Counted(o)'
      BY <1>2, <2>1, <3>1, <3>2, <3>5 DEF Counted, Source!Recorded, Source!Complete, Source!Intended, Within
    <3> QED BY <3>3, <3>4, <3>5
  <2> QED BY <2>1, <2>4, <2>5, <2>6 DEF SourceInv, Merged
<1> QED BY <1>3, <1>4, <1>5 DEF Source!Merge, Source!Concludes

\* The phases after the merge: what is left to be shown is about the run itself.
LEMMA LateStep ==
  ASSUME SourceInv, NEW r \in {1, 2}, UNCHANGED <<sourceHub, sourcePlan, sourceStops, sourceMeddles, sourceReruns>>,
         NEW phase, NEW step, NEW part, Moves(r, phase, step, part),
         NEW i, NEW s, NEW o, NEW l, Grows(r, i, s, o, l),
         phase \notin {"qualify", "merge"}, "source-qualified" \notin s,
         sourceMeddles = 0 => Receipt(r)' /\ Counted(r)'
  PROVE  SourceInv'
<1>1. sourceStops' \in Nat /\ sourceReruns' \in Nat /\ sourceStops <= sourceStops' /\ sourceReruns <= sourceReruns'
  BY DEF SourceInv, SourceTypes
<1>2. Qualified(r)'
  BY DEF SourceInv, Merged, Qualified, Source!Recorded, Within, IsMergeOf, Moves, Grows
<1>3. /\ sourceAt' \in [{1, 2} -> SAt] /\ \A p \in {1, 2} \ {r} : sourceAt'[p] = sourceAt[p]
      /\ sourceLog' \in [{1, 2} -> SLog] /\ \A p \in {1, 2} \ {r} : sourceLog'[p] = sourceLog[p]
  BY DEF Moves, Grows
<1> QED BY <1>1, <1>2, <1>3, OneRun

\* The default branch follows the run whose merge is main.
LEMMA DefaultStep ==
  ASSUME SourceInv, NEW r \in {1, 2}, UNCHANGED <<sourcePlan, sourceStops, sourceMeddles, sourceReruns>>,
         NEW op \in {"switch-default", "rollback-default"},
         sourceAt[r].phase = op, sourceAt[r].step = op, sourceAt[r].part = "change",
         Moves(r, op, op, "result"), Grows(r, {}, {}, {}, sourceLog[r].last),
         sourceHub' \in SHub, sourceHub'.tags = sourceHub.tags, sourceHub'.prs = sourceHub.prs,
         sourceHub'.pr.byHand = sourceHub.pr.byHand, sourceHub'.main = sourceHub.main,
         sourceHub'.rule = sourceHub.rule,
         sourceHub'.default = IF op = "switch-default" THEN "main" ELSE "base"
  PROVE  SourceInv'
<1>1. SourceTypes'
  BY DEF SourceInv, SourceTypes, Moves, Grows
<1>2. ASSUME NEW o \in {1, 2} PROVE Qualified(o)' /\ (sourceMeddles = 0 => Receipt(o)' /\ Counted(o)')
  <2>1. Qualified(o) /\ (sourceMeddles = 0 => Receipt(o) /\ Counted(o) /\ Receipt(r))
    BY DEF SourceInv, Merged
  <2>2. /\ sourceAt'[o].phase = sourceAt[o].phase /\ sourceAt'[o].step = sourceAt[o].step
        /\ o # r => sourceAt'[o] = sourceAt[o]
        /\ sourceLog'[o].intents = sourceLog[o].intents /\ sourceLog'[o].results = sourceLog[o].results
        /\ sourceLog'[o].observed = sourceLog[o].observed /\ sourceLog'[o].last = sourceLog[o].last
        /\ sourceAt'[r].phase = op /\ sourceAt'[r].step = op /\ sourceAt'[r].part = "result"
    BY DEF Moves, Grows
  <2>3. sourceMeddles = 0 => IsMergeOf(r) /\ (o # r => ~IsMergeOf(o)) /\ (IsMergeOf(o)' <=> IsMergeOf(o))
    <3>1. sourceMeddles = 0 => IsMergeOf(r)
      BY <2>1 DEF Receipt
    <3> QED BY <3>1 DEF IsMergeOf
  <2>4. Qualified(o)'
    BY <2>1, <2>2 DEF Qualified, Source!Recorded, Within, IsMergeOf
  <2>5. ASSUME sourceMeddles = 0, o # r PROVE Receipt(o)' /\ Counted(o)'
    <3>1. Receipt(o)'
      BY <2>1, <2>2, <2>3, <2>5 DEF Receipt, Source!Recorded, Source!Intended, Source!Complete, Within
    <3>2. Counted(o)'
      BY <2>1, <2>2, <2>3, <2>5 DEF Receipt, Counted, Source!Recorded, Source!Intended, Source!Complete, Within
    <3> QED BY <3>1, <3>2
  <2>6. ASSUME sourceMeddles = 0, o = r PROVE Receipt(r)' /\ Counted(r)'
    <3>1. Receipt(r)'
      BY <2>1, <2>2, <2>3, <2>6 DEF Receipt, Source!Recorded, Source!Intended, Source!Complete, Within, Noted
    <3>2. Counted(r)'
      BY <2>1, <2>2, <2>3, <2>6 DEF Counted, Source!Recorded, Source!Intended, Source!Complete, Within
    <3> QED BY <3>1, <3>2
  <2> QED BY <2>4, <2>5, <2>6
<1> QED BY <1>1, <1>2 DEF SourceInv, Merged

\* The default branch becomes main.
LEMMA SwitchStep ==
  ASSUME SourceInv, NEW r \in {1, 2}, UNCHANGED <<sourcePlan, sourceStops, sourceMeddles, sourceReruns>>,
         Source!SwitchDefault(r)
  PROVE  SourceInv'
<1>1. {"switch-default", "verified", "default-verified", "recheck", "none"} \subseteq Words
      /\ "switch-default" \in Operations
  BY DEF Words, Operations
<1>2. /\ SourceTypes /\ sourceAt[r].phase = "switch-default"
      /\ sourceMeddles = 0 => Receipt(r) /\ Counted(r)
  BY DEF Source!SwitchDefault, Source!Gate, Source!Acts, Source!Concludes, Source!In, SourceInv, Merged
<1>3. CASE Source!Gate(r, "switch-default", Source!MergedGate(r), "switch-default")
  <2>1. Grows(r, {}, {}, {}, sourceLog[r].last) /\ UNCHANGED sourceHub /\ sourceAt[r].step = "gate"
    BY <1>1, <1>2, <1>3, Journals DEF Source!Gate, Source!In
  <2>2. CASE Source!MergedGate(r) /\ Source!To(r, "switch-default")
    <3>1. Moves(r, "switch-default", "switch-default", "intent") /\ IsMergeOf(r)
      BY <1>1, <1>2, <2>2, StepTo DEF Source!MergedGate, Source!Merged, Source!Runs, IsMergeOf
    <3>2. ASSUME sourceMeddles = 0 PROVE Receipt(r)' /\ Counted(r)'
      BY <1>2, <2>1, <3>1, <3>2 DEF Moves, Grows, Receipt, Counted, Within, IsMergeOf, Noted, Source!Recorded,
                                    Source!Intended, Source!Complete
    <3> QED BY <2>1, <3>1, <3>2, LateStep
  <2>3. CASE Source!Stop(r)
    <3>1. Moves(r, "none", "none", "none")
      BY <1>1, <1>2, <2>3, StepTo
    <3>2. ASSUME sourceMeddles = 0 PROVE Receipt(r)' /\ Counted(r)'
      BY <1>2, <2>1, <3>1, <3>2 DEF Moves, Grows, Receipt, Counted, Within, IsMergeOf, Noted, Source!Recorded,
                                    Source!Intended, Source!Complete
    <3> QED BY <2>1, <3>1, <3>2, LateStep
  <2> QED BY <1>3, <2>2, <2>3 DEF Source!Gate
<1>4. CASE Source!Acts(r, "switch-default", "switch-default", "verified")
  <2>1. sourceAt[r].step = "switch-default"
    BY <1>1, <1>2, <1>4, ActsIs, ZenonT(40)
  <2>2. CASE /\ Moves(r, "switch-default", "switch-default", "change")
             /\ Grows(r, {"switch-default"}, {}, {}, sourceLog[r].last) /\ UNCHANGED sourceHub
    <3>1. ASSUME sourceMeddles = 0 PROVE Receipt(r)' /\ Counted(r)'
      BY <1>2, <2>1, <2>2, <3>1 DEF Moves, Grows, Receipt, Counted, Within, IsMergeOf, Noted, Source!Recorded,
                                    Source!Intended, Source!Complete
    <3> QED BY <2>2, <3>1, LateStep
  <2>3. CASE /\ Moves(r, "switch-default", "verified", "intent")
             /\ Grows(r, {}, {"switch-default"}, {}, sourceLog[r].last) /\ UNCHANGED sourceHub
    <3>1. ASSUME sourceMeddles = 0 PROVE Receipt(r)' /\ Counted(r)'
      BY <1>2, <2>1, <2>3, <3>1 DEF Moves, Grows, Receipt, Counted, Within, IsMergeOf, Noted, Source!Recorded,
                                    Source!Intended, Source!Complete
    <3>2. PICK s : s = {"switch-default"}
      OBVIOUS
    <3>3. "source-qualified" \notin s /\ Grows(r, {}, s, {}, sourceLog[r].last)
      BY <2>3, <3>2
    <3> QED BY <2>3, <3>1, <3>3, LateStep
  <2>4. CASE /\ Moves(r, "switch-default", "switch-default", "result") /\ Grows(r, {}, {}, {}, sourceLog[r].last)
             /\ sourceHub' = Source!Effect(r, "switch-default") /\ Source!Ready(r, "switch-default")
             /\ sourceAt[r].part = "change"
    <3>1. /\ sourceHub' \in SHub /\ sourceHub'.tags = sourceHub.tags /\ sourceHub'.prs = sourceHub.prs
          /\ sourceHub'.pr.byHand = sourceHub.pr.byHand /\ sourceHub'.main = sourceHub.main
          /\ sourceHub'.rule = sourceHub.rule /\ sourceHub'.default = "main"
      BY <1>1, <1>2, <2>4, EffectIs
    <3> QED BY <1>2, <2>1, <2>4, <3>1, DefaultStep
  <2>5. CASE /\ Moves(r, "none", "none", "none") /\ Grows(r, {}, {}, {}, sourceLog[r].last)
             /\ UNCHANGED sourceHub /\ ~Source!Done(r, "switch-default")
             /\ (sourceAt[r].part = "change" /\ ~Source!Ready(r, "switch-default")) \/ sourceAt[r].part = "result"
    <3>1. sourceHub.default \in {"base", "main"} /\ sourceHub.default # "main"
      BY <1>2, <2>5 DEF Source!Done, SourceTypes, SHub
    <3>2. sourceAt[r].part = "result"
      BY <2>5, <3>1 DEF Source!Ready
    <3>3. sourceMeddles # 0
      BY <1>2, <2>1, <3>1, <3>2 DEF Receipt, Within
    <3> QED BY <2>5, <3>3, LateStep
  <2> QED BY <1>1, <1>2, <1>4, <2>2, <2>3, <2>4, <2>5, ActsIs, ZenonT(40)
<1>5. CASE Source!Concludes(r, "switch-default", "verified", "default-verified")
  <2>1. /\ Moves(r, "switch-default", "recheck", "intent") /\ UNCHANGED sourceHub
        /\ Grows(r, {}, {"default-verified"}, {}, sourceLog[r].last) /\ sourceAt[r].step = "verified"
    BY <1>1, <1>2, <1>5, StepTo, Journals DEF Source!Concludes, Source!In
  <2>2. ASSUME sourceMeddles = 0 PROVE Receipt(r)' /\ Counted(r)'
    BY <1>2, <2>1, <2>2 DEF Moves, Grows, Receipt, Counted, Within, IsMergeOf, Noted, Source!Recorded,
                            Source!Intended, Source!Complete
  <2>3. PICK s : s = {"default-verified"}
    OBVIOUS
  <2>4. "source-qualified" \notin s /\ Grows(r, {}, s, {}, sourceLog[r].last)
    BY <2>1, <2>3
  <2> QED BY <2>1, <2>2, <2>4, LateStep
<1> QED BY <1>3, <1>4, <1>5 DEF Source!SwitchDefault

\* The receipt becomes complete.
LEMMA FinalizeStep ==
  ASSUME SourceInv, NEW r \in {1, 2}, UNCHANGED <<sourcePlan, sourceStops, sourceMeddles, sourceReruns>>,
         Source!Finalize(r)
  PROVE  SourceInv'
<1>1. {"finalize", "complete", "recheck", "none"} \subseteq Words
  BY DEF Words
<1>2. /\ SourceTypes /\ sourceAt[r].phase = "finalize" /\ UNCHANGED sourceHub
      /\ sourceMeddles = 0 => Receipt(r) /\ Counted(r)
  BY DEF Source!Finalize, Source!Gate, Source!In, SourceInv, Merged
<1>3. CASE Source!Gate(r, "finalize", Source!FinalizeGate(r), "complete")
  <2>1. Grows(r, {}, {}, {}, sourceLog[r].last) /\ sourceAt[r].step = "gate"
    BY <1>1, <1>2, <1>3, Journals DEF Source!Gate, Source!In
  <2>2. CASE Source!FinalizeGate(r) /\ Source!To(r, "complete")
    <3>1. Moves(r, "finalize", "complete", "intent")
      BY <1>1, <1>2, <2>2, StepTo
    <3>2. IsMergeOf(r) /\ sourceHub.default = "main" /\ r \in sourceHub.tags
      BY <2>2 DEF Source!FinalizeGate, Source!MergedGate, Source!MainIsDefault, Source!ArchiveGate,
                  Source!Merged, Source!Runs, IsMergeOf
    <3>3. ASSUME sourceMeddles = 0 PROVE Receipt(r)' /\ Counted(r)'
      BY <1>2, <2>1, <3>1, <3>2, <3>3 DEF Moves, Grows, Receipt, Counted, Within, IsMergeOf, Noted,
                                          Source!Recorded, Source!Intended, Source!Complete
    <3> QED BY <1>2, <2>1, <3>1, <3>3, LateStep
  <2>3. CASE Source!Stop(r)
    <3>1. Moves(r, "none", "none", "none")
      BY <1>1, <1>2, <2>3, StepTo
    <3>2. ASSUME sourceMeddles = 0 PROVE Receipt(r)' /\ Counted(r)'
      BY <1>2, <2>1, <3>1, <3>2 DEF Moves, Grows, Receipt, Counted, Within, IsMergeOf, Noted, Source!Recorded,
                                    Source!Intended, Source!Complete
    <3> QED BY <1>2, <2>1, <3>1, <3>2, LateStep
  <2> QED BY <1>3, <2>2, <2>3 DEF Source!Gate
<1>4. CASE Source!In(r, "finalize", "complete") /\ Source!Ends(r, "complete") /\ Source!To(r, "recheck")
  <2>1. PICK s : s = {"complete"}
    OBVIOUS
  <2>2. /\ Moves(r, "finalize", "recheck", "intent") /\ Grows(r, {}, s, {}, "complete")
        /\ sourceAt[r].step = "complete" /\ s = {"complete"} /\ "source-qualified" \notin s
    BY <1>1, <1>2, <1>4, <2>1, StepTo, Journals DEF Source!In
  <2>3. ASSUME sourceMeddles = 0 PROVE Receipt(r)' /\ Counted(r)'
    BY <1>2, <2>2, <2>3 DEF Moves, Grows, Receipt, Counted, Within, IsMergeOf, Noted, Source!Recorded,
                            Source!Intended, Source!Complete
  <2> QED BY <1>2, <2>2, <2>3, LateStep
<1> QED BY <1>2, <1>3, <1>4 DEF Source!Finalize

\* The default branch becomes the old one again.
LEMMA RollbackStep ==
  ASSUME SourceInv, NEW r \in {1, 2}, UNCHANGED <<sourcePlan, sourceStops, sourceMeddles, sourceReruns>>,
         Source!RollbackDefault(r)
  PROVE  SourceInv'
<1>1. {"rollback-default", "rolled-back", "recheck", "none"} \subseteq Words /\ "rollback-default" \in Operations
  BY DEF Words, Operations
<1>2. /\ SourceTypes /\ sourceAt[r].phase = "rollback-default"
      /\ sourceMeddles = 0 => Receipt(r) /\ Counted(r)
  BY DEF Source!RollbackDefault, Source!Gate, Source!Acts, Source!In, SourceInv, Merged
<1>3. CASE Source!Gate(r, "rollback-default", Source!Intended(r, "switch-default") /\ Source!MergedIdentity(r)
                            /\ sourceHub.main = Source!Merged[r], "rollback-default")
  <2>1. Grows(r, {}, {}, {}, sourceLog[r].last) /\ UNCHANGED sourceHub /\ sourceAt[r].step = "gate"
    BY <1>1, <1>2, <1>3, Journals DEF Source!Gate, Source!In
  <2>2. CASE /\ Source!Intended(r, "switch-default") /\ sourceHub.main = Source!Merged[r]
             /\ Source!To(r, "rollback-default")
    <3>1. Moves(r, "rollback-default", "rollback-default", "intent") /\ IsMergeOf(r)
      BY <1>1, <1>2, <2>2, StepTo DEF Source!Merged, Source!Runs, IsMergeOf
    <3>2. ASSUME sourceMeddles = 0 PROVE Receipt(r)' /\ Counted(r)'
      BY <1>2, <2>1, <2>2, <3>1, <3>2 DEF Moves, Grows, Receipt, Counted, Within, IsMergeOf, Noted,
                                          Source!Recorded, Source!Intended, Source!Complete
    <3> QED BY <2>1, <3>1, <3>2, LateStep
  <2>3. CASE Source!Stop(r)
    <3>1. Moves(r, "none", "none", "none")
      BY <1>1, <1>2, <2>3, StepTo
    <3>2. ASSUME sourceMeddles = 0 PROVE Receipt(r)' /\ Counted(r)'
      BY <1>2, <2>1, <3>1, <3>2 DEF Moves, Grows, Receipt, Counted, Within, IsMergeOf, Noted, Source!Recorded,
                                    Source!Intended, Source!Complete
    <3> QED BY <2>1, <3>1, <3>2, LateStep
  <2> QED BY <1>3, <2>2, <2>3 DEF Source!Gate
<1>4. CASE Source!Acts(r, "rollback-default", "rollback-default", "rolled-back")
  <2>1. sourceAt[r].step = "rollback-default"
    BY <1>1, <1>2, <1>4, ActsIs, ZenonT(40)
  <2>2. CASE /\ Moves(r, "rollback-default", "rollback-default", "change")
             /\ Grows(r, {"rollback-default"}, {}, {}, sourceLog[r].last) /\ UNCHANGED sourceHub
    <3>1. ASSUME sourceMeddles = 0 PROVE Receipt(r)' /\ Counted(r)'
      BY <1>2, <2>1, <2>2, <3>1 DEF Moves, Grows, Receipt, Counted, Within, IsMergeOf, Noted, Source!Recorded,
                                    Source!Intended, Source!Complete
    <3> QED BY <2>2, <3>1, LateStep
  <2>3. CASE /\ Moves(r, "rollback-default", "rolled-back", "intent") /\ Source!Done(r, "rollback-default")
             /\ Grows(r, {}, {"rollback-default"}, {}, sourceLog[r].last) /\ UNCHANGED sourceHub
    <3>1. PICK s : s = {"rollback-default"}
      OBVIOUS
    <3>2. "source-qualified" \notin s /\ "rolled-back" \notin s /\ Grows(r, {}, s, {}, sourceLog[r].last)
      BY <2>3, <3>1
    <3>3. sourceHub.default = "base"
      BY <2>3 DEF Source!Done
    <3>4. ASSUME sourceMeddles = 0 PROVE Receipt(r)' /\ Counted(r)'
      BY <1>2, <2>1, <2>3, <3>2, <3>3, <3>4 DEF Moves, Grows, Receipt, Counted, Within, IsMergeOf, Noted,
                                                Source!Recorded, Source!Intended, Source!Complete
    <3> QED BY <2>3, <3>2, <3>4, LateStep
  <2>4. CASE /\ Moves(r, "rollback-default", "rollback-default", "result")
             /\ Grows(r, {}, {}, {}, sourceLog[r].last)
             /\ sourceHub' = Source!Effect(r, "rollback-default") /\ Source!Ready(r, "rollback-default")
             /\ sourceAt[r].part = "change"
    <3>1. /\ sourceHub' \in SHub /\ sourceHub'.tags = sourceHub.tags /\ sourceHub'.prs = sourceHub.prs
          /\ sourceHub'.pr.byHand = sourceHub.pr.byHand /\ sourceHub'.main = sourceHub.main
          /\ sourceHub'.rule = sourceHub.rule /\ sourceHub'.default = "base"
      BY <1>1, <1>2, <2>4, EffectIs
    <3> QED BY <1>2, <2>1, <2>4, <3>1, DefaultStep
  <2>5. CASE /\ Moves(r, "none", "none", "none") /\ Grows(r, {}, {}, {}, sourceLog[r].last)
             /\ UNCHANGED sourceHub
    <3>1. ASSUME sourceMeddles = 0 PROVE Receipt(r)' /\ Counted(r)'
      BY <1>2, <2>1, <2>5, <3>1 DEF Moves, Grows, Receipt, Counted, Within, IsMergeOf, Noted, Source!Recorded,
                                    Source!Intended, Source!Complete
    <3> QED BY <2>5, <3>1, LateStep
  <2> QED BY <1>1, <1>2, <1>4, <2>2, <2>3, <2>4, <2>5, ActsIs, ZenonT(40)
<1>5. CASE /\ Source!In(r, "rollback-default", "rolled-back") /\ Source!Ends(r, "rolled-back")
           /\ Source!To(r, "recheck") /\ UNCHANGED sourceHub
  <2>1. PICK s : s = {"rolled-back"}
    OBVIOUS
  <2>2. /\ Moves(r, "rollback-default", "recheck", "intent") /\ Grows(r, {}, s, {}, "rolled-back")
        /\ sourceAt[r].step = "rolled-back" /\ s = {"rolled-back"} /\ "source-qualified" \notin s
    BY <1>1, <1>2, <1>5, <2>1, StepTo, Journals DEF Source!In
  <2>3. ASSUME sourceMeddles = 0 PROVE Receipt(r)' /\ Counted(r)'
    BY <1>2, <1>5, <2>2, <2>3 DEF Moves, Grows, Receipt, Counted, Within, IsMergeOf, Noted, Source!Recorded,
                                  Source!Intended, Source!Complete
  <2> QED BY <1>5, <2>2, <2>3, LateStep
<1> QED BY <1>3, <1>4, <1>5 DEF Source!RollbackDefault

\* check_state notes the PRs that are merged.
LEMMA ObservesIs ==
  ASSUME SourceTypes, NEW r \in {1, 2}, Source!Observes(r)
  PROVE  /\ \E o : Grows(r, {}, {}, o, sourceLog[r].last)
         /\ Source!StateOK(r) => \A q \in OldRequests : sourceHub.prs[q] = "open" \/ q \in sourceLog'[r].observed
<1>1. sourceLog[r] \in SLog /\ sourceLog \in [{1, 2} -> SLog] /\ sourcePlan.made \in BOOLEAN
      /\ sourceHub.prs \in [OldRequests -> {"open", "merged"}]
  BY DEF SourceTypes, SHub
<1>2. PICK seen : seen = {q \in OldRequests : sourceHub.prs[q] = "merged"}
  OBVIOUS
<1>3. CASE UNCHANGED sourceLog /\ (~Source!StateOK(r) \/ seen \subseteq sourceLog[r].observed)
  <2>1. PICK o : o = {}
    OBVIOUS
  <2>2. Grows(r, {}, {}, o, sourceLog[r].last)
    BY <1>1, <1>3, <2>1 DEF Grows, SLog
  <2> QED BY <1>1, <1>2, <1>3, <2>2
<1>4. CASE Source!Adds(r, [sourceLog[r] EXCEPT !.observed = sourceLog[r].observed \cup seen])
  <2>1. PICK c : c = [sourceLog[r] EXCEPT !.observed = sourceLog[r].observed \cup seen, !.grown = sourcePlan.made]
    OBVIOUS
  <2>2. sourceLog' = [sourceLog EXCEPT ![r] = c]
    BY <1>1, <1>4, <2>1 DEF Source!Adds, SLog
  <2>3. c \in SLog /\ c.observed = sourceLog[r].observed \cup seen /\ c.intents = sourceLog[r].intents
        /\ c.results = sourceLog[r].results /\ c.last = sourceLog[r].last
    BY <1>1, <1>2, <2>1 DEF SLog
  <2>4. Grows(r, {}, {}, seen, sourceLog[r].last) /\ seen \subseteq sourceLog'[r].observed
    BY <1>1, <2>2, <2>3 DEF Grows
  <2> QED BY <1>1, <1>2, <2>4
<1>5. \/ UNCHANGED sourceLog /\ (~Source!StateOK(r) \/ seen \subseteq sourceLog[r].observed)
      \/ Source!Adds(r, [sourceLog[r] EXCEPT !.observed = sourceLog[r].observed \cup seen])
  BY <1>1, <1>2 DEF Source!Observes, SLog
<1> QED BY <1>3, <1>4, <1>5

\* A phase ends with the checks it began with.
LEMMA RecheckStep ==
  ASSUME SourceInv, NEW r \in {1, 2}, UNCHANGED <<sourcePlan, sourceStops, sourceMeddles, sourceReruns>>,
         Source!Recheck(r)
  PROVE  SourceInv'
<1>1. SourceTypes /\ sourceAt[r].step = "recheck" /\ UNCHANGED sourceHub /\ "none" \in Words
  BY DEF Source!Recheck, SourceInv, Words
<1>2. Moves(r, "none", "none", "none")
  BY <1>1, StepTo DEF Source!Recheck
<1>3. PICK o : Grows(r, {}, {}, o, sourceLog[r].last)
  BY <1>1, ObservesIs DEF Source!Recheck
<1>4. ASSUME sourceMeddles = 0 PROVE Receipt(r)' /\ Counted(r)'
  <2>1. Receipt(r) /\ Counted(r)
    BY <1>4 DEF SourceInv, Merged
  <2> QED BY <1>1, <1>2, <1>3, <1>4, <2>1 DEF Moves, Grows, Receipt, Counted, Within, IsMergeOf, Noted,
                                              Source!Recorded, Source!Intended, Source!Complete
<1> QED BY <1>1, <1>2, <1>3, <1>4, LateStep

\* A controller that stops has cost a trouble.
LEMMA InterruptStep ==
  ASSUME SourceInv, NEW r \in {1, 2}, Source!Interrupt(r)
  PROVE  SourceInv'
<1>1. SourceTypes /\ UNCHANGED <<sourceHub, sourceLog, sourcePlan, sourceMeddles, sourceReruns>> /\ "none" \in Words
      /\ sourceStops' = sourceStops + 1
  BY DEF Source!Interrupt, SourceInv, Words
<1>2. Moves(r, "none", "none", "none")
  BY <1>1, StepTo DEF Source!Interrupt
<1>3. /\ sourceStops \in Nat /\ sourceReruns \in Nat /\ sourceStops' \in Nat /\ sourceStops' > 0
      /\ sourceReruns' \in Nat /\ sourceStops <= sourceStops' /\ sourceReruns <= sourceReruns'
  BY <1>1 DEF SourceTypes
<1>4. Qualified(r)'
  BY <1>1, <1>2 DEF SourceInv, Merged, Qualified, Source!Recorded, Within, IsMergeOf, Moves
<1>5. ASSUME sourceMeddles = 0 PROVE Receipt(r)' /\ Counted(r)'
  <2>1. Receipt(r) /\ Counted(r)
    BY <1>5 DEF SourceInv, Merged
  <2>2. Receipt(r)'
    BY <1>1, <1>2, <2>1 DEF Moves, Receipt, Within, IsMergeOf, Noted, Source!Recorded, Source!Intended,
                            Source!Complete
  <2>3. /\ sourceStops + sourceReruns > 1 => sourceStops' + sourceReruns' > 1
        /\ sourceStops + sourceReruns > 2 => sourceStops' + sourceReruns' > 2
    BY <1>3, More
  <2>4. Counted(r)'
    BY <1>1, <1>2, <1>3, <2>1, <2>3 DEF Moves, Counted, Within, Source!Recorded, Source!Intended, Source!Complete
  <2> QED BY <2>2, <2>4
<1>6. /\ sourceAt' \in [{1, 2} -> SAt] /\ \A o \in {1, 2} \ {r} : sourceAt'[o] = sourceAt[o]
      /\ sourceLog' \in [{1, 2} -> SLog] /\ \A o \in {1, 2} \ {r} : sourceLog'[o] = sourceLog[o]
  BY <1>1, <1>2 DEF Moves, SourceTypes
<1> QED BY <1>1, <1>3, <1>4, <1>5, <1>6, OneRun

\* A phase begins: in its turn, or again.
LEMMA EnterStep ==
  ASSUME SourceInv, NEW r \in {1, 2}, NEW phase \in Words, Source!Enter(r, phase),
         UNCHANGED <<sourceStops, sourceMeddles>>,
         \/ sourceReruns' = sourceReruns + 1
         \/ /\ sourceReruns' = sourceReruns /\ phase # "rollback-default"
            /\ phase = "switch-default" => ~Source!Recorded(r, "default-verified")
  PROVE  SourceInv'
<1>1. SourceTypes /\ UNCHANGED <<sourceHub, sourcePlan>> /\ sourceStops \in Nat /\ sourceReruns \in Nat
      /\ sourceReruns' \in Nat /\ sourceReruns <= sourceReruns' /\ sourceStops' \in Nat /\ sourceStops <= sourceStops'
  BY DEF Source!Enter, SourceInv, SourceTypes
<1>2. sourceAt[r].phase = "none" /\ sourceAt[r].step = "none" /\ sourceAt[r].part = "none"
  BY DEF Source!Enter, Source!Idle
<1>3. Moves(r, phase, "gate", "none")
  <2>1. PICK c : c = [phase |-> phase, step |-> "gate", part |-> "none"]
    OBVIOUS
  <2>2. c \in SAt /\ c.phase = phase /\ c.step = "gate" /\ c.part = "none"
    <3>1. "gate" \in Words /\ "none" \in Words
      BY DEF Words
    <3> QED BY <2>1, <3>1 DEF SAt
  <2>3. sourceAt \in [{1, 2} -> SAt] /\ sourceAt' = [sourceAt EXCEPT ![r] = c]
    BY <1>1, <2>1 DEF SourceTypes, Source!Enter
  <2> QED BY <2>2, <2>3 DEF Moves
<1>4. Source!StateOK(r) /\ Source!Observes(r)
  BY DEF Source!Enter, Source!Admitted
<1>5. PICK o : Grows(r, {}, {}, o, sourceLog[r].last)
  BY <1>1, <1>4, ObservesIs
<1>6. Noted(r)'
  BY <1>1, <1>4, ObservesIs DEF Noted
<1>7. Qualified(r)'
  BY <1>1, <1>3, <1>5 DEF SourceInv, Merged, Qualified, Source!Recorded, Within, IsMergeOf, Moves, Grows
<1>8. ASSUME sourceMeddles = 0 PROVE Receipt(r)' /\ Counted(r)'
  <2>1. Receipt(r) /\ Counted(r)
    BY <1>8 DEF SourceInv, Merged
  <2>2. Receipt(r)'
    BY <1>1, <1>2, <1>3, <1>5, <1>6, <2>1 DEF Moves, Grows, Receipt, Within, IsMergeOf, Noted, Source!Recorded,
                                             Source!Intended, Source!Complete
  <2>3. /\ sourceLog'[r].intents = sourceLog[r].intents /\ sourceLog'[r].results = sourceLog[r].results
        /\ sourceLog'[r].last = sourceLog[r].last
        /\ sourceAt'[r].phase = phase /\ sourceAt'[r].step = "gate"
    BY <1>3, <1>5 DEF Moves, Grows
  <2>4. (Source!Intended(r, "switch-default") /\ ~Source!Recorded(r, "default-verified") => sourceStops > 0)'
    BY <1>2, <2>1, <2>3 DEF Counted, Within, Source!Recorded, Source!Intended
  <2>5. (sourceAt[r].phase = "rollback-default" \/ Source!Recorded(r, "rolled-back") => sourceReruns > 0)'
    BY <1>1, <1>2, <2>1, <2>3 DEF Counted, Source!Recorded
  <2>6. ASSUME Source!Recorded(r, "rolled-back"), sourceHub.default = "main" \/ phase = "switch-default"
        PROVE  sourceStops + sourceReruns' > 1
    <3>1. sourceReruns > 0
      BY <2>1, <2>6 DEF Counted
    <3>2. CASE sourceHub.default = "main"
      <4>1. sourceStops + sourceReruns > 1
        BY <2>1, <2>6, <3>2 DEF Counted
      <4>2. sourceStops <= sourceStops /\ sourceStops \in Nat
        BY <1>1
      <4> QED BY <1>1, <4>1, <4>2, More
    <3>3. CASE phase = "switch-default" /\ sourceReruns' = sourceReruns + 1
      BY <1>1, <3>1, <3>3
    <3>4. CASE phase = "switch-default" /\ sourceReruns' = sourceReruns
      <4>1. Source!Intended(r, "switch-default") /\ ~Source!Recorded(r, "default-verified")
        BY <1>1, <2>1, <2>6, <3>4 DEF Receipt
      <4>2. sourceStops > 0
        BY <1>2, <2>1, <4>1 DEF Counted, Within
      <4> QED BY <1>1, <3>1, <3>4, <4>2
    <3> QED BY <2>6, <3>2, <3>3, <3>4
  <2>7. ASSUME Source!Recorded(r, "rolled-back"), Source!Complete(r),
               sourceHub.default = "base" \/ phase = "rollback-default"
        PROVE  sourceStops + sourceReruns' > 2
    <3>1. CASE sourceHub.default = "base"
      <4>1. sourceStops + sourceReruns > 2
        BY <2>1, <2>7, <3>1 DEF Counted
      <4>2. sourceStops <= sourceStops /\ sourceStops \in Nat
        BY <1>1
      <4> QED BY <1>1, <4>1, <4>2, More
    <3>2. CASE sourceHub.default # "base"
      <4>1. sourceHub.default = "main"
        BY <1>1, <3>2 DEF SourceTypes, SHub
      <4>2. sourceStops + sourceReruns > 1 /\ sourceReruns' = sourceReruns + 1
        BY <2>1, <2>7, <3>2, <4>1 DEF Counted
      <4> QED BY <1>1, <4>2
    <3> QED BY <3>1, <3>2
  <2>8. Counted(r)'
    BY <1>1, <2>3, <2>4, <2>5, <2>6, <2>7 DEF Counted, Within, Source!Recorded, Source!Intended, Source!Complete
  <2> QED BY <2>2, <2>8
<1>9. /\ sourceAt' \in [{1, 2} -> SAt] /\ \A p \in {1, 2} \ {r} : sourceAt'[p] = sourceAt[p]
      /\ sourceLog' \in [{1, 2} -> SLog] /\ \A p \in {1, 2} \ {r} : sourceLog'[p] = sourceLog[p]
  BY <1>3, <1>5 DEF Moves, Grows
<1> QED BY <1>1, <1>7, <1>8, <1>9, OneRun

\* At the start nothing is done and nothing is merged.
LEMMA SourceInit == ReleaseInit => SourceInv
<1> SUFFICES ASSUME ReleaseInit PROVE SourceInv
  OBVIOUS
<1>1. Source!Init
  BY DEF ReleaseInit
<1>2. SourceTypes
  <2>1. sourceHub \in SHub
    <3>1. PICK p : p = [state |-> "none", head |-> "none", body |-> 0, byHand |-> FALSE]
      OBVIOUS
    <3>2. PICK a : a = [q \in OldRequests |-> "open"]
      OBVIOUS
    <3>3. PICK c : c = [k \in Source!Commits |-> "none"]
      OBVIOUS
    <3>4. /\ p \in [state : {"none", "open", "merged"}, head : {"none", "c1", "c2"}, body : 0 .. 2, byHand : BOOLEAN]
          /\ a \in [OldRequests -> {"open", "merged"}] /\ c \in [Source!Commits -> {"none", "pass", "fail"}]
      BY <3>1, <3>2, <3>3
    <3>5. sourceHub = [original |-> TRUE, main |-> "none", integration |-> "none", default |-> "base",
                       rule |-> "none", pr |-> p, prs |-> a, tags |-> {}, ci |-> c]
      BY <1>1, <3>1, <3>2, <3>3 DEF Source!Init
    <3> QED BY <3>4, <3>5 DEF SHub
  <2>2. sourceLog \in [{1, 2} -> SLog]
    <3>1. [intents |-> {}, results |-> {}, observed |-> {}, last |-> "none", grown |-> FALSE] \in SLog
      BY Spoken DEF SLog
    <3> QED BY <1>1, <3>1 DEF Source!Init, Source!Runs
  <2>3. sourceAt \in [{1, 2} -> SAt]
    <3>1. Source!Idle \in SAt
      BY Spoken DEF SAt, Source!Idle
    <3> QED BY <1>1, <3>1 DEF Source!Init, Source!Runs
  <2> QED BY <1>1, <2>1, <2>2, <2>3 DEF Source!Init, SourceTypes
<1>3. sourceHub.main = "none" /\ \A r \in {1, 2} :
        /\ sourceAt[r].phase = "none" /\ sourceAt[r].step = "none" /\ sourceLog[r].results = {}
        /\ sourceLog[r].intents = {} /\ sourceLog[r].last = "none"
  BY <1>1 DEF Source!Init, Source!Runs, Source!Idle
<1>4. ASSUME NEW r \in {1, 2} PROVE Qualified(r) /\ Receipt(r) /\ Counted(r)
  BY <1>3 DEF Qualified, Receipt, Counted, IsMergeOf, Within, Source!Recorded, Source!Intended, Source!Complete
<1> QED BY <1>2, <1>3, <1>4 DEF SourceInv, Merged

\* What other people do to the repository, and what is then still promised.
LEMMA SourceMeddle == ASSUME SourceInv, Source!Meddle PROVE SourceInv'
<1>1. /\ SourceTypes /\ UNCHANGED <<sourceLog, sourceAt, sourcePlan, sourceStops, sourceReruns>>
      /\ sourceMeddles' = sourceMeddles + 1 /\ sourceHub \in SHub
  BY DEF Source!Meddle, SourceInv, SourceTypes
<1>2. sourceMeddles' \in Nat /\ sourceMeddles' # 0
  BY <1>1 DEF SourceTypes
<1>3. /\ sourceHub' \in SHub /\ sourceHub'.tags = sourceHub.tags
      /\ \/ sourceHub'.pr.byHand = TRUE
         \/ sourceHub'.pr.byHand = sourceHub.pr.byHand /\ sourceHub'.main \in {sourceHub.main, "foreign"}
  <2>1. CASE sourceHub' = [sourceHub EXCEPT !.original = FALSE]
    BY <1>1, <2>1 DEF SHub
  <2>2. ASSUME NEW brought \in SUBSET Source!Open, sourceHub' = Source!MergeOf(TRUE, brought)
        PROVE  sourceHub' \in SHub /\ sourceHub'.tags = sourceHub.tags /\ sourceHub'.pr.byHand = TRUE
    BY <1>1, <2>2, MergeIs
  <2>3. CASE sourceHub' = [sourceHub EXCEPT !.main = "foreign"]
    BY <1>1, <2>3 DEF SHub
  <2>4. ASSUME NEW c \in Source!Commits, sourceHub' = [sourceHub EXCEPT !.ci[c] = "fail"]
        PROVE  sourceHub' \in SHub /\ sourceHub'.tags = sourceHub.tags /\ sourceHub'.pr = sourceHub.pr
               /\ sourceHub'.main = sourceHub.main
    <3>1. PICK k : k = [sourceHub.ci EXCEPT ![c] = "fail"]
      OBVIOUS
    <3>2. sourceHub' = [sourceHub EXCEPT !.ci = k]
      BY <1>1, <2>4, <3>1 DEF SHub
    <3>3. k \in [Source!Commits -> {"none", "pass", "fail"}]
      BY <1>1, <3>1 DEF SHub
    <3> QED BY <1>1, <3>2, <3>3 DEF SHub
  <2> QED BY <2>1, <2>2, <2>3, <2>4 DEF Source!Meddle
<1>4. ASSUME NEW r \in {1, 2} PROVE Qualified(r)'
  <2>1. Qualified(r)
    BY DEF SourceInv, Merged
  <2>2. IsMergeOf(r)' /\ ~sourceHub'.pr.byHand => IsMergeOf(r) /\ ~sourceHub.pr.byHand
    BY <1>3 DEF IsMergeOf
  <2> QED BY <1>1, <1>3, <2>1, <2>2 DEF Qualified, Source!Recorded, Within
<1>5. SourceTypes'
  BY <1>1, <1>2, <1>3 DEF SourceTypes
<1> QED BY <1>2, <1>4, <1>5 DEF SourceInv, Merged

\* Steps that touch neither what a run has done nor what it is about.
LEMMA SourceIdle ==
  ASSUME SourceInv, SourceTypes', UNCHANGED <<sourceLog, sourceAt, sourceStops, sourceMeddles, sourceReruns>>,
         sourceHub'.main = sourceHub.main, sourceHub'.rule = sourceHub.rule, sourceHub'.tags = sourceHub.tags,
         sourceHub'.default = sourceHub.default, sourceHub'.prs = sourceHub.prs, sourceHub'.pr = sourceHub.pr
  PROVE  SourceInv'
<1>1. ASSUME NEW r \in {1, 2} PROVE Qualified(r)' /\ (sourceMeddles = 0 => Receipt(r)' /\ Counted(r)')
  <2>1. Qualified(r) /\ (sourceMeddles = 0 => Receipt(r) /\ Counted(r))
    BY DEF SourceInv, Merged
  <2> QED BY <2>1 DEF Qualified, Receipt, Counted, IsMergeOf, Within, Noted, Source!Recorded, Source!Intended,
                      Source!Complete
<1> QED BY <1>1 DEF SourceInv, Merged

\* Every step of the source integration keeps the invariant.
LEMMA SourceNext == ASSUME SourceInv, Source!Next PROVE SourceInv'
<1>1. ASSUME NEW r \in Source!Runs, Source!Step(r) PROVE SourceInv'
  BY <1>1, PrepareStep, ArchiveStep, StageStep, QualifyStep, MergeStep, SwitchStep, FinalizeStep, RollbackStep,
     RecheckStep DEF Source!Step, Source!counters, Source!Runs
<1>2. ASSUME NEW r \in Source!Runs, Source!Interrupt(r) PROVE SourceInv'
  BY <1>2, InterruptStep DEF Source!Runs
<1>3. CASE Source!Continue
  <2>1. sourcePlan' = [made |-> TRUE, policy |-> sourceHub.rule] /\ SourceTypes /\ sourceHub \in SHub
        /\ UNCHANGED <<sourceHub, sourceLog, sourceAt, sourceStops, sourceMeddles, sourceReruns>>
    BY <1>3 DEF Source!Continue, Source!counters, SourceInv, SourceTypes
  <2>2. sourceHub.rule \in {"none", "initial", "quality"}
    BY <2>1 DEF SHub
  <2>3. SourceTypes'
    BY <2>1, <2>2 DEF SourceTypes
  <2> QED BY <2>1, <2>3, SourceIdle
<1>4. CASE Source!Resume
  <2>1. PICK i \in DOMAIN Source!Phases : /\ Source!InTurn(Source!Current, i)
                                         /\ Source!Enter(Source!Current, Source!Phases[i])
    BY <1>4 DEF Source!Resume
  <2>2. PICK r \in {1, 2}, phase \in Words : r = Source!Current /\ phase = Source!Phases[i]
    BY DEF Source!Current, Source!Phases, Words
  <2>3. ~Source!Finished(r, phase)
    BY <2>1, <2>2 DEF Source!InTurn
  <2>4. phase # "rollback-default" /\ (phase = "switch-default" => ~Source!Recorded(r, "default-verified"))
    BY <2>3 DEF Source!Finished
  <2>5. UNCHANGED <<sourceStops, sourceMeddles, sourceReruns>> /\ Source!Enter(r, phase)
    BY <1>4, <2>1, <2>2 DEF Source!Resume, Source!counters
  <2> QED BY <2>4, <2>5, EnterStep
<1>5. CASE Source!Rerun
  <2>1. PICK r \in {1, 2}, i \in DOMAIN Source!Phases : Source!Enter(r, Source!Phases[i])
    BY <1>5 DEF Source!Rerun, Source!Runs
  <2>2. PICK phase \in Words : phase = Source!Phases[i]
    BY DEF Source!Phases, Words
  <2>3. UNCHANGED <<sourceStops, sourceMeddles>> /\ sourceReruns' = sourceReruns + 1 /\ Source!Enter(r, phase)
    BY <1>5, <2>1, <2>2 DEF Source!Rerun
  <2> QED BY <2>3, EnterStep
<1>6. CASE Source!Tests
  <2>1. PICK c \in Source!Commits, result \in {"pass", "fail"} : sourceHub' = [sourceHub EXCEPT !.ci[c] = result]
    BY <1>6 DEF Source!Tests
  <2>2. /\ SourceTypes /\ sourceHub \in SHub
        /\ UNCHANGED <<sourcePlan, sourceLog, sourceAt, sourceStops, sourceMeddles, sourceReruns>>
    BY <1>6 DEF Source!Tests, Source!counters, SourceInv, SourceTypes
  <2>3. PICK k : k = [sourceHub.ci EXCEPT ![c] = result]
    OBVIOUS
  <2>4. sourceHub' = [sourceHub EXCEPT !.ci = k]
    BY <2>1, <2>2, <2>3 DEF SHub
  <2>5. k \in [Source!Commits -> {"none", "pass", "fail"}]
    BY <2>2, <2>3 DEF SHub
  <2>6. /\ sourceHub' \in SHub
        /\ sourceHub'.main = sourceHub.main /\ sourceHub'.rule = sourceHub.rule /\ sourceHub'.tags = sourceHub.tags
        /\ sourceHub'.default = sourceHub.default /\ sourceHub'.prs = sourceHub.prs /\ sourceHub'.pr = sourceHub.pr
    BY <2>2, <2>4, <2>5 DEF SHub
  <2>7. SourceTypes'
    BY <2>2, <2>6 DEF SourceTypes
  <2> QED BY <2>2, <2>6, <2>7, SourceIdle
<1>7. CASE Source!Meddle
  BY <1>7, SourceMeddle
<1> QED BY <1>1, <1>2, <1>3, <1>4, <1>5, <1>6, <1>7 DEF Source!Next

\* Whatever the two controllers, the operator and other people do, what the phases
\* hold on to stays true, and what is wrong has been paid for.
THEOREM SourceInvariance == ReleaseSpec => []SourceInv
<1>1. ReleaseInit => SourceInv
  BY SourceInit
<1>2. SourceInv /\ [ReleaseNext]_<<vars, sourceVars, tool>> => SourceInv'
  <2> SUFFICES ASSUME SourceInv, [ReleaseNext]_<<vars, sourceVars, tool>> PROVE SourceInv'
    OBVIOUS
  <2>1. CASE Source!Next
    BY <2>1, SourceNext
  <2>2. CASE UNCHANGED sourceVars
    <3>1. SourceTypes'
      BY <2>2 DEF SourceInv, SourceTypes, sourceVars
    <3> QED BY <2>2, <3>1, SourceIdle DEF sourceVars
  <2> QED BY <2>1, <2>2 DEF ReleaseNext
<1> QED BY <1>1, <1>2, PTL DEF ReleaseSpec

\* Main is the merge of a candidate only if that very candidate was qualified and
\* archived, with two plans and two controllers for one branch and one pull request
\* that do not exclude each other (source_cutover.py: merge), for any requests.
THEOREM MainIsQualified == ReleaseSpec => []QualifiedMain
<1>1. SourceInv => QualifiedMain
  <2> SUFFICES ASSUME SourceInv PROVE QualifiedMain
    OBVIOUS
  <2>1. SourceTypes /\ sourceHub \in SHub /\ sourceLog[1] \in SLog /\ sourceLog[2] \in SLog
    BY DEF SourceInv, SourceTypes
  <2>2. Source!TypeOK
    BY <2>1 DEF Source!TypeOK, SourceTypes, SHub, SLog, Source!Runs
  <2>3. ASSUME NEW r \in Source!Runs, sourceHub.main = Source!Merged[r], ~Source!PR.byHand
        PROVE  Source!Recorded(r, "source-qualified") /\ r \in sourceHub.tags
    <3>1. r \in {1, 2} /\ IsMergeOf(r) /\ ~sourceHub.pr.byHand
      BY <2>3 DEF Source!Runs, Source!Merged, IsMergeOf, Source!PR
    <3> QED BY <3>1 DEF SourceInv, Merged, Qualified
  <2> QED BY <2>2, <2>3 DEF QualifiedMain, Source!QualifiedMain
<1> QED BY <1>1, SourceInvariance, PTL

\* A complete receipt describes the repository, or a rollback is announced in the
\* journal; one that is silently wrong took three interruptions and phases out of turn
\* (source_cutover.py: receipt, finalize, rollback_default), for any requests and bounds.
THEOREM ReceiptStands == ReleaseSpec => []SourceReceipt
<1>1. SourceInv => SourceReceipt
  <2> SUFFICES ASSUME SourceInv, NEW r \in {1, 2}, Source!Complete(r), sourceMeddles = 0
               PROVE  /\ sourceHub.main = Source!Merged[r] /\ sourceHub.rule = "quality" /\ r \in sourceHub.tags
                      /\ \A q \in OldRequests : sourceHub.prs[q] = "open" \/ q \in sourceLog[r].observed
                      /\ \/ sourceHub.default = "main"
                         \/ /\ Source!Intended(r, "rollback-default")
                            /\ Source!Recorded(r, "rolled-back") => sourceStops + sourceReruns > 2
    BY DEF SourceReceipt, Source!SourceReceipt, Source!Runs
  <2>1. Receipt(r) /\ Counted(r) /\ (sourceHub.main \in {"m1", "m2"} => sourceHub.rule = "quality")
        /\ sourceHub.default \in {"base", "main"}
    BY DEF SourceInv, Merged, SourceTypes, SHub
  <2>2. IsMergeOf(r) /\ r \in sourceHub.tags /\ Noted(r)
        /\ (sourceHub.default = "main" \/ Source!Intended(r, "rollback-default"))
    BY <2>1 DEF Receipt
  <2>3. sourceHub.main = Source!Merged[r] /\ sourceHub.rule = "quality"
    BY <2>1, <2>2 DEF IsMergeOf, Source!Merged, Source!Runs
  <2>4. sourceHub.default = "base" /\ Source!Recorded(r, "rolled-back") => sourceStops + sourceReruns > 2
    BY <2>1 DEF Counted
  <2> QED BY <2>1, <2>2, <2>3, <2>4 DEF Noted
<1> QED BY <1>1, SourceInvariance, PTL
-----------------------------------------------------------------------------
(* Cutover: one controller, its journal, and GitHub.                        *)

CHub == [heads : [Refs -> Commits], default : {"base", "main"}, renaming : {"no", "asked", "moved"},
         maintenance : BOOLEAN, quality : {"none", "initial", "bound", "final"}, archives : BOOLEAN,
         autoDelete : BOOLEAN, tags : BOOLEAN, pr : {"none", "open", "merged"},
         status : SUBSET {"candidate", "merged"},
         prs : [Requests -> [state : {"open", "closed", "merged"}, comments : Nat, moved : BOOLEAN]],
         foreign : [on : Topics \cup {"none"}, as : {"none", "base", "head"}, open : BOOLEAN],
         late : SUBSET Topics]

CutTypes ==
  /\ hub \in CHub
  /\ log = [intents |-> log.intents, results |-> log.results, deleting |-> log.deleting,
            deleted |-> log.deleted, resolved |-> log.resolved]
  /\ log.deleting \in SUBSET Targets /\ log.deleted \in SUBSET Targets /\ log.resolved \in SUBSET Requests
  /\ at = [phase |-> at.phase, step |-> at.step, todo |-> at.todo, ref |-> at.ref, seen |-> at.seen]
  /\ at.seen \in BOOLEAN /\ at.todo \in SUBSET (Topics \cup Requests \cup {"integration"})
  /\ at.phase = "resolve" => at.todo \subseteq Requests

\* A branch recorded as deleted is gone, or somebody pushed one of the same name; while
\* it is gone nothing depends on it, so it is not put back.
Branch(r) ==
  /\ hub.heads[r] = "none" => r \in log.deleting /\ hub.tags
  /\ r \in log.deleted => hub.heads[r] \in {"none", "foreign"}
  /\ r \in log.deleted /\ hub.heads[r] = "none" => ~Raced(r)
Asked(q) ==
  /\ hub.prs[q].comments <= 1
  /\ q \in log.resolved /\ Disposition[q] # "already_closed" /\ hub.prs[q].state # "merged" =>
       hub.prs[q].comments = 1

\* What the controller has seen of the branch or PR it works on is still so.
Holding ==
  /\ at.phase = "prune" /\ at.step = "push" => at.ref \in log.deleting /\ hub.tags
  /\ at.phase = "prune" /\ at.step = "after" =>
       at.ref \in Targets /\ (at.ref \in Topics => hub.heads[at.ref] \in {"none", "foreign"})
  /\ at.step = "undo" =>
       at.ref \in Targets /\ (at.ref \in Topics => at.ref \notin log.deleted \/ hub.heads[at.ref] # "none")
  /\ at.phase = "resolve" /\ at.step = "comment" => at.ref \in Requests /\ hub.prs[at.ref].comments = 0
  /\ at.phase = "resolve" /\ at.step \in {"advanced", "close", "confirm"} =>
       at.ref \in Requests /\ hub.prs[at.ref].comments = 1
Final ==
  /\ "final-quality" \in log.intents => hub.archives
  /\ at.phase = "finalize" /\ at.step # "undo" => hub.archives
  /\ at.phase = "finalize" /\ at.step \in {"quality", "auto", "unfreeze", "check", "complete"} => hub.default = "main" /\ hub.tags
  /\ at.phase = "finalize" /\ at.step \in {"auto", "unfreeze", "check", "complete"} => hub.quality = "final"
  /\ at.phase = "finalize" /\ at.step \in {"unfreeze", "check", "complete"} => hub.autoDelete = AutoDelete

CutInv == /\ CutTypes /\ Holding /\ Final
          /\ (\A r \in Topics : Branch(r)) /\ (\A q \in Requests : Asked(q))

\* The receipt becomes complete by the last step of finalize alone.
Truthful ==
  "complete" \in log'.results /\ "complete" \notin log.results =>
    /\ In("finalize", "complete") /\ UNCHANGED hub
    /\ hub.default = "main" /\ hub.tags /\ hub.archives /\ hub.quality = "final"
    /\ hub.autoDelete = AutoDelete

\* No rename is under way once the default branch is main, so that what the last look
\* saw is still so, but for what others pushed.
Checked ==
  /\ hub.default = "main" => hub.renaming = "no"
  /\ In("finalize", "complete") =>
       /\ ~hub.maintenance
       /\ \A r \in Refs \ hub.late : hub.heads[r] = IF r = "main" THEN "merged" ELSE "none"

Goes(phase, step, todo, ref, seen) ==
  at' = [phase |-> phase, step |-> step, todo |-> todo, ref |-> ref, seen |-> seen]
Writes(i, s) ==
  log' = [intents |-> log.intents \cup i, results |-> log.results \cup s, deleting |-> log.deleting,
          deleted |-> log.deleted, resolved |-> log.resolved]

\* The steps of the controller and of its journal, field by field.
LEMMA CutSteps ==
  ASSUME CutTypes, NEW step, NEW op
  PROVE  /\ To(step) => Goes(at.phase, step, at.todo, at.ref, at.seen)
         /\ Stop => Goes("none", "none", {}, "none", FALSE)
         /\ Intends(op) => Writes({op}, {})
         /\ Records(op) => Writes({}, {op})
         /\ UNCHANGED log => Writes({}, {})
<1>1. PICK a : a = at
  OBVIOUS
<1>2. a = [phase |-> a.phase, step |-> a.step, todo |-> a.todo, ref |-> a.ref, seen |-> a.seen]
  BY <1>1 DEF CutTypes
<1>3. PICK l : l = log
  OBVIOUS
<1>4. l = [intents |-> l.intents, results |-> l.results, deleting |-> l.deleting,
           deleted |-> l.deleted, resolved |-> l.resolved]
  BY <1>3 DEF CutTypes
<1>5. To(step) => Goes(at.phase, step, at.todo, at.ref, at.seen)
  BY <1>1, <1>2 DEF To, Goes
<1>6. Intends(op) => Writes({op}, {})
  BY <1>3, <1>4 DEF Intends, Writes
<1>7. Records(op) => Writes({}, {op})
  BY <1>3, <1>4 DEF Records, Writes
<1>8. UNCHANGED log => Writes({}, {})
  BY <1>3, <1>4 DEF Writes
<1> QED BY <1>5, <1>6, <1>7, <1>8 DEF Stop, Idle, Goes

\* What no step of the first phases can disturb.
LEMMA CutFrame ==
  ASSUME CutInv, CutTypes', Holding', Final',
         log'.deleting = log.deleting, log'.deleted = log.deleted, log'.resolved = log.resolved,
         \A r \in Topics : hub'.heads[r] = hub.heads[r],
         \A q \in Requests : /\ hub'.prs[q].comments = hub.prs[q].comments
                             /\ hub'.prs[q].state \in {hub.prs[q].state, "merged"},
         hub'.foreign = hub.foreign, hub.tags => hub'.tags
  PROVE  CutInv'
<1>1. ASSUME NEW r \in Topics PROVE Branch(r)'
  <2>1. Branch(r) /\ r # "integration"
    BY PlanAssumption DEF CutInv
  <2>2. Raced(r)' => Raced(r)
    BY <2>1 DEF Raced, Dependents
  <2> QED BY <2>1, <2>2 DEF Branch
<1>2. ASSUME NEW q \in Requests PROVE Asked(q)'
  <2>1. Asked(q)
    BY DEF CutInv
  <2> QED BY <2>1 DEF Asked
<1> QED BY <1>1, <1>2 DEF CutInv

FirstPhases == {"prepare", "archive", "publish", "qualify", "merge", "verify-merged", "rename"}

\* A step of one of them that deletes and closes nothing.
LEMMA PlainCut ==
  ASSUME CutInv, at.phase \in FirstPhases, NEW step,
         \/ Goes("none", "none", {}, "none", FALSE)
         \/ step # "undo" /\ Goes(at.phase, step, at.todo, at.ref, at.seen),
         NEW i, NEW s, Writes(i, s), "final-quality" \notin i, "complete" \notin s,
         hub' \in CHub, \A r \in Topics : hub'.heads[r] = hub.heads[r],
         \A q \in Requests : /\ hub'.prs[q].comments = hub.prs[q].comments
                             /\ hub'.prs[q].state \in {hub.prs[q].state, "merged"},
         hub'.foreign = hub.foreign, hub.tags => hub'.tags, hub.archives => hub'.archives
  PROVE  CutInv' /\ Truthful
<1>1. /\ log'.deleting = log.deleting /\ log'.deleted = log.deleted /\ log'.resolved = log.resolved
      /\ log'.intents = log.intents \cup i /\ log'.results = log.results \cup s
      /\ log' = [intents |-> log'.intents, results |-> log'.results, deleting |-> log'.deleting,
                 deleted |-> log'.deleted, resolved |-> log'.resolved]
  BY DEF Writes
<1>2. /\ at'.phase \in FirstPhases \cup {"none"} /\ at'.step # "undo"
      /\ at'.seen \in BOOLEAN /\ at'.todo \in SUBSET (Topics \cup Requests \cup {"integration"})
      /\ at' = [phase |-> at'.phase, step |-> at'.step, todo |-> at'.todo, ref |-> at'.ref, seen |-> at'.seen]
  <2>1. at.seen \in BOOLEAN /\ at.todo \in SUBSET (Topics \cup Requests \cup {"integration"})
    BY DEF CutInv, CutTypes
  <2>2. CASE Goes("none", "none", {}, "none", FALSE)
    <3>1. at'.phase = "none" /\ at'.step = "none" /\ at'.todo = {} /\ at'.ref = "none" /\ at'.seen = FALSE
      BY <2>2 DEF Goes
    <3> QED BY <2>2, <3>1 DEF Goes
  <2>3. CASE step # "undo" /\ Goes(at.phase, step, at.todo, at.ref, at.seen)
    <3>1. at'.phase = at.phase /\ at'.step = step /\ at'.todo = at.todo /\ at'.ref = at.ref /\ at'.seen = at.seen
      BY <2>3 DEF Goes
    <3> QED BY <2>1, <2>3, <3>1 DEF Goes
  <2> QED BY <2>2, <2>3
<1>3. CutTypes'
  BY <1>1, <1>2 DEF CutInv, CutTypes, FirstPhases
<1>4. Holding'
  BY <1>2 DEF Holding, FirstPhases
<1>5. Final'
  BY <1>1, <1>2 DEF Final, FirstPhases, CutInv
<1> QED BY <1>1, <1>3, <1>4, <1>5, CutFrame DEF Truthful

\* A change of GitHub that touches neither a branch nor an inventoried PR.
Edit ==
  \/ UNCHANGED hub
  \/ \E b \in BOOLEAN : hub' = [hub EXCEPT !.autoDelete = b] \/ hub' = [hub EXCEPT !.maintenance = b]
  \/ \E q \in {"initial", "bound", "final"} : hub' = [hub EXCEPT !.quality = q]
  \/ hub' = [hub EXCEPT !.archives = TRUE] \/ hub' = [hub EXCEPT !.tags = TRUE]
  \/ hub' = [hub EXCEPT !.pr = "open"] \/ hub' = [hub EXCEPT !.renaming = "asked"]
  \/ hub' = [hub EXCEPT !.late = {}]
  \/ \E c \in {"candidate", "merged"} : hub' = [hub EXCEPT !.status = hub.status \cup {c}]

\* What such a change leaves alone.
LEMMA EditIs ==
  ASSUME CutTypes, Edit
  PROVE  /\ hub' \in CHub /\ hub'.heads = hub.heads /\ hub'.prs = hub.prs /\ hub'.foreign = hub.foreign
         /\ hub'.default = hub.default
         /\ (hub.tags => hub'.tags) /\ (hub.archives => hub'.archives)
<1>1. hub \in CHub
  BY DEF CutTypes
<1>2. CASE UNCHANGED hub
  BY <1>1, <1>2
<1>3. ASSUME NEW b \in BOOLEAN, hub' = [hub EXCEPT !.autoDelete = b] \/ hub' = [hub EXCEPT !.maintenance = b]
      PROVE  /\ hub' \in CHub /\ hub'.heads = hub.heads /\ hub'.prs = hub.prs /\ hub'.foreign = hub.foreign
             /\ hub'.default = hub.default /\ hub'.tags = hub.tags /\ hub'.archives = hub.archives
  BY <1>1, <1>3 DEF CHub
<1>4. ASSUME NEW q \in {"initial", "bound", "final"}, hub' = [hub EXCEPT !.quality = q]
      PROVE  /\ hub' \in CHub /\ hub'.heads = hub.heads /\ hub'.prs = hub.prs /\ hub'.foreign = hub.foreign
             /\ hub'.default = hub.default /\ hub'.tags = hub.tags /\ hub'.archives = hub.archives
  BY <1>1, <1>4 DEF CHub
<1>5. CASE hub' = [hub EXCEPT !.archives = TRUE]
  BY <1>1, <1>5 DEF CHub
<1>6. CASE hub' = [hub EXCEPT !.tags = TRUE]
  BY <1>1, <1>6 DEF CHub
<1>7. CASE hub' = [hub EXCEPT !.pr = "open"] \/ hub' = [hub EXCEPT !.renaming = "asked"] \/ hub' = [hub EXCEPT !.late = {}]
  BY <1>1, <1>7 DEF CHub
<1>8. ASSUME NEW c \in {"candidate", "merged"}, hub' = [hub EXCEPT !.status = hub.status \cup {c}]
      PROVE  /\ hub' \in CHub /\ hub'.heads = hub.heads /\ hub'.prs = hub.prs /\ hub'.foreign = hub.foreign
             /\ hub'.default = hub.default /\ hub'.tags = hub.tags /\ hub'.archives = hub.archives
  BY <1>1, <1>8 DEF CHub
<1> QED BY <1>2, <1>3, <1>4, <1>5, <1>6, <1>7, <1>8 DEF Edit

\* Such a change in one of the first phases.
LEMMA EditStep ==
  ASSUME CutInv, at.phase \in FirstPhases, NEW step, step # "undo", To(step) \/ Stop \/ UNCHANGED at,
         at.step # "undo", Edit,
         NEW op, op \notin {"complete", "final-quality"}, UNCHANGED log \/ Intends(op) \/ Records(op)
  PROVE  CutInv' /\ Truthful
<1>1. CutTypes
  BY DEF CutInv
<1>2. PICK i \in {{}, {op}}, s \in {{}, {op}} : Writes(i, s)
  BY <1>1, CutSteps
<1>3. "final-quality" \notin i /\ "complete" \notin s
  BY <1>2
<1>4. PICK next : \/ Goes("none", "none", {}, "none", FALSE)
                  \/ next # "undo" /\ Goes(at.phase, next, at.todo, at.ref, at.seen)
  <2>1. CASE UNCHANGED at
    <3>1. Goes(at.phase, at.step, at.todo, at.ref, at.seen)
      BY <1>1, <2>1 DEF CutTypes, Goes
    <3> QED BY <3>1
  <2>2. CASE To(step) \/ Stop
    BY <1>1, <2>2, CutSteps
  <2> QED BY <2>1, <2>2
<1>5. /\ hub' \in CHub /\ hub'.heads = hub.heads /\ hub'.prs = hub.prs /\ hub'.foreign = hub.foreign
      /\ (hub.tags => hub'.tags) /\ (hub.archives => hub'.archives)
  BY <1>1, EditIs
<1> QED BY <1>2, <1>3, <1>4, <1>5, PlainCut

\* The first phases, one by one: the rules,
LEMMA CutPrepare == ASSUME CutInv, Prepare PROVE CutInv' /\ Truthful
<1>1. at.phase \in FirstPhases /\ at.step # "undo" /\ UNCHANGED log /\ hub \in CHub
  BY DEF Prepare, In, FirstPhases, CutInv, CutTypes
<1>2. Edit
  BY <1>1 DEF Prepare, Edit
<1>3. \E step \in {"rules"} : To(step) \/ Stop \/ UNCHANGED at
  BY DEF Prepare
<1> QED BY <1>1, <1>2, <1>3, EditStep

\* the archive,
LEMMA CutArchive == ASSUME CutInv, Archive PROVE CutInv' /\ Truthful
<1>1. at.phase \in FirstPhases /\ at.step # "undo" /\ "archive-publish" \notin {"complete", "final-quality"}
  BY DEF Archive, In, Concludes, FirstPhases
<1>2. Edit
  BY DEF Archive, Edit, Concludes
<1>3. \E step \in {"push", "result"} : To(step) \/ Stop
  BY DEF Archive, Concludes
<1>4. UNCHANGED log \/ Records("archive-publish")
  BY DEF Archive, Concludes
<1>5. PICK step \in {"push", "result"} : To(step) \/ Stop
  BY <1>3
<1> QED BY <1>1, <1>2, <1>4, <1>5, EditStep

\* the branch and its pull request,
LEMMA CutPublish == ASSUME CutInv, Publish PROVE CutInv' /\ Truthful
<1>1. at.phase = "publish" /\ at.phase \in FirstPhases /\ at.step # "undo" /\ CutTypes /\ hub \in CHub
  BY DEF Publish, In, Concludes, Refuses, FirstPhases, CutInv, CutTypes
<1>2. CASE In("publish", "push")
  <2>1. /\ hub' = [hub EXCEPT !.heads["integration"] = "candidate"] /\ To("request") /\ UNCHANGED log
    BY <1>2 DEF Publish, In, Refuses, Concludes
  <2>2. PICK h : h = [hub.heads EXCEPT !["integration"] = "candidate"]
    OBVIOUS
  <2>3. hub' = [hub EXCEPT !.heads = h]
    BY <1>1, <2>1, <2>2 DEF CHub
  <2>4. h \in [Refs -> Commits] /\ \A r \in Topics : h[r] = hub.heads[r]
    <3>1. \A r \in Topics : r # "integration" /\ r \in Refs
      BY PlanAssumption DEF Refs, Targets
    <3>2. hub.heads \in [Refs -> Commits] /\ "candidate" \in Commits
      BY <1>1 DEF CHub, Commits
    <3> QED BY <2>2, <3>1, <3>2
  <2>5. /\ hub' \in CHub /\ hub'.prs = hub.prs /\ hub'.foreign = hub.foreign /\ hub'.tags = hub.tags
        /\ hub'.archives = hub.archives /\ \A r \in Topics : hub'.heads[r] = hub.heads[r]
    BY <1>1, <2>3, <2>4 DEF CHub
  <2>6. Writes({}, {}) /\ Goes(at.phase, "request", at.todo, at.ref, at.seen)
    BY <1>1, <2>1, CutSteps
  <2> QED BY <1>1, <2>5, <2>6, PlainCut
<1>3. CASE ~In("publish", "push")
  <2>1. Edit
    BY <1>3 DEF Publish, Edit, Refuses, Concludes
  <2>2. PICK step \in {"push", "result"} : To(step) \/ Stop
    BY <1>3 DEF Publish, Refuses, Concludes
  <2>3. PICK op \in {"publish", "integration-pr"} : UNCHANGED log \/ Intends(op) \/ Records(op)
    BY <1>3 DEF Publish, Refuses, Concludes
  <2> QED BY <1>1, <2>1, <2>2, <2>3, EditStep
<1> QED BY <1>2, <1>3

\* the tests, before the merge and after it,
LEMMA CutQualify == ASSUME CutInv, Qualify \/ VerifyMerged PROVE CutInv' /\ Truthful
<1>1. at.phase \in FirstPhases /\ at.step # "undo"
  BY DEF Qualify, VerifyMerged, In, Concludes, Refuses, FirstPhases
<1>2. Edit
  BY DEF Qualify, VerifyMerged, Edit, Concludes, Refuses
<1>3. PICK step \in {"bind", "bound", "status", "result"} : To(step) \/ Stop
  BY DEF Qualify, VerifyMerged, Concludes, Refuses
<1>4. PICK op \in {"quality-app-binding", "qualified", "merged-qualified"} :
        UNCHANGED log \/ Intends(op) \/ Records(op)
  BY DEF Qualify, VerifyMerged, Concludes, Refuses
<1> QED BY <1>1, <1>2, <1>3, <1>4, EditStep

\* the merge, which may close other pull requests and take the branch with it,
LEMMA CutMerge == ASSUME CutInv, Merge PROVE CutInv' /\ Truthful
<1>1. at.phase = "merge" /\ at.phase \in FirstPhases /\ at.step # "undo" /\ CutTypes /\ hub \in CHub
  BY DEF Merge, In, Concludes, Refuses, FirstPhases, CutInv, CutTypes
<1>2. CASE In("merge", "put")
  <2>1. PICK brought : /\ hub' = [hub EXCEPT !.pr = "merged", !.heads["base"] = "merged",
                             !.heads["integration"] = IF hub.autoDelete THEN "none" ELSE @,
                             !.prs = [q \in Requests |-> IF q \in brought
                                        THEN [@[q] EXCEPT !.state = "merged"] ELSE @[q]]]
                       /\ To("result") /\ UNCHANGED log
    BY <1>2 DEF Merge, In, Refuses, Concludes
  <2>2. PICK v : v = IF hub.autoDelete THEN "none" ELSE hub.heads["integration"]
    OBVIOUS
  <2>3. PICK h : h = [hub.heads EXCEPT !["base"] = "merged", !["integration"] = v]
    OBVIOUS
  <2>4. PICK p : p = [q \in Requests |-> IF q \in brought THEN [hub.prs[q] EXCEPT !.state = "merged"]
                                         ELSE hub.prs[q]]
    OBVIOUS
  <2>5. hub' = [hub EXCEPT !.pr = "merged", !.heads = h, !.prs = p]
    <3>1. hub.heads["integration"] = [hub.heads EXCEPT !["base"] = "merged"]["integration"]
      BY <1>1 DEF CHub, Refs, Targets
    <3> QED BY <1>1, <2>1, <2>2, <2>3, <2>4, <3>1 DEF CHub
  <2>6. h \in [Refs -> Commits] /\ \A r \in Topics : h[r] = hub.heads[r]
    <3>1. \A r \in Topics : r # "integration" /\ r # "base" /\ r \in Refs
      BY PlanAssumption DEF Refs, Targets
    <3>2. hub.heads \in [Refs -> Commits] /\ {"merged", "none"} \subseteq Commits /\ "integration" \in Refs
      BY <1>1 DEF CHub, Commits, Refs, Targets
    <3>3. v \in Commits
      BY <2>2, <3>2
    <3> QED BY <2>3, <3>1, <3>2, <3>3
  <2>7. ASSUME NEW q \in Requests
        PROVE  /\ p[q] \in [state : {"open", "closed", "merged"}, comments : Nat, moved : BOOLEAN]
               /\ p[q].comments = hub.prs[q].comments /\ p[q].state \in {hub.prs[q].state, "merged"}
    <3>1. hub.prs[q] \in [state : {"open", "closed", "merged"}, comments : Nat, moved : BOOLEAN]
      BY <1>1 DEF CHub
    <3> QED BY <2>4, <3>1
  <2>8. p \in [Requests -> [state : {"open", "closed", "merged"}, comments : Nat, moved : BOOLEAN]]
    BY <2>4, <2>7
  <2>9. /\ hub' \in CHub /\ hub'.prs = p /\ hub'.foreign = hub.foreign /\ hub'.tags = hub.tags
        /\ hub'.archives = hub.archives /\ hub'.heads = h
    BY <1>1, <2>5, <2>6, <2>8 DEF CHub
  <2>10. Writes({}, {}) /\ Goes(at.phase, "result", at.todo, at.ref, at.seen)
    BY <1>1, <2>1, CutSteps
  <2> QED BY <1>1, <2>6, <2>7, <2>9, <2>10, PlainCut
<1>3. CASE ~In("merge", "put")
  <2>1. Edit
    BY <1>3 DEF Merge, Edit, Refuses, Concludes
  <2>2. PICK step \in {"put"} : To(step) \/ Stop
    BY <1>3 DEF Merge, Refuses, Concludes
  <2>3. PICK op \in {"merge"} : UNCHANGED log \/ Intends(op) \/ Records(op)
    BY <1>3 DEF Merge, Refuses, Concludes
  <2> QED BY <1>1, <2>1, <2>2, <2>3, EditStep
<1> QED BY <1>2, <1>3

\* and the request to rename.
LEMMA CutRename == ASSUME CutInv, Rename PROVE CutInv' /\ Truthful
<1>1. at.phase \in FirstPhases /\ at.step # "undo"
  BY DEF Rename, In, Concludes, Refuses, FirstPhases
<1>2. Edit
  BY DEF Rename, Edit, Concludes, Refuses
<1>3. PICK step \in {"watch"} : To(step) \/ Stop
  BY DEF Rename, Concludes, Refuses
<1>4. PICK op \in {"rename"} : UNCHANGED log \/ Intends(op) \/ Records(op)
  BY DEF Rename, Concludes, Refuses
<1> QED BY <1>1, <1>2, <1>3, <1>4, EditStep

\* GitHub, or other people, while the controller stands still.
LEMMA WorldStep ==
  ASSUME CutInv, UNCHANGED <<log, at>>, hub' \in CHub,
         hub'.tags = hub.tags, hub'.archives = hub.archives, hub'.quality = hub.quality,
         hub'.autoDelete = hub.autoDelete, hub.default = "main" => hub'.default = "main",
         \A q \in Requests : /\ hub'.prs[q].comments = hub.prs[q].comments
                             /\ hub.prs[q].state = "merged" => hub'.prs[q].state = "merged",
         \A r \in Topics : /\ hub'.heads[r] \in {hub.heads[r], "foreign"}
                           /\ hub'.heads[r] = "none" /\ Raced(r)' => Raced(r)
  PROVE  CutInv' /\ Truthful
<1>1. CutTypes'
  BY DEF CutInv, CutTypes
<1>2. Holding'
  BY DEF CutInv, Holding
<1>3. Final'
  BY DEF CutInv, Final
<1>4. ASSUME NEW r \in Topics PROVE Branch(r)'
  <2>1. Branch(r) /\ "foreign" # "none"
    BY DEF CutInv
  <2> QED BY <2>1 DEF Branch
<1>5. ASSUME NEW q \in Requests PROVE Asked(q)'
  <2>1. Asked(q)
    BY DEF CutInv
  <2> QED BY <2>1 DEF Asked
<1> QED BY <1>1, <1>2, <1>3, <1>4, <1>5 DEF CutInv, Truthful

\* GitHub renames: a planned topic is neither the old name nor the new one.
LEMMA CutSettles == ASSUME CutInv, RenameSettles PROVE CutInv' /\ Truthful
<1>1. hub \in CHub /\ UNCHANGED <<log, at>>
  BY DEF CutInv, CutTypes, RenameSettles
<1>2. \A r \in Topics : r # "main" /\ r # "base" /\ r \in Refs /\ r # "integration"
  BY PlanAssumption DEF Refs, Targets
<1>3. CASE hub' = [hub EXCEPT !.renaming = "moved", !.heads["base"] = "none",
                              !.heads["main"] = hub.heads["base"]]
  <2>1. PICK h : h = [hub.heads EXCEPT !["base"] = "none", !["main"] = hub.heads["base"]]
    OBVIOUS
  <2>2. hub' = [hub EXCEPT !.renaming = "moved", !.heads = h]
    BY <1>1, <1>3, <2>1 DEF CHub
  <2>3. h \in [Refs -> Commits] /\ \A r \in Topics : h[r] = hub.heads[r]
    <3>1. hub.heads \in [Refs -> Commits] /\ "none" \in Commits /\ "base" \in Refs
      BY <1>1 DEF CHub, Commits, Refs
    <3> QED BY <1>2, <2>1, <3>1
  <2>4. /\ hub' \in CHub /\ hub'.heads = h /\ hub'.tags = hub.tags /\ hub'.archives = hub.archives
        /\ hub'.quality = hub.quality /\ hub'.autoDelete = hub.autoDelete /\ hub'.default = hub.default
        /\ hub'.prs = hub.prs /\ hub'.foreign = hub.foreign /\ hub'.pr = hub.pr
    BY <1>1, <2>2, <2>3 DEF CHub
  <2>5. \A r \in Topics : Raced(r)' <=> Raced(r)
    BY <2>4 DEF Raced, Dependents
  <2> QED BY <1>1, <2>3, <2>4, <2>5, WorldStep
<1>4. CASE hub' = [hub EXCEPT !.renaming = "no", !.default = "main"]
  <2>1. /\ hub' \in CHub /\ hub'.heads = hub.heads /\ hub'.tags = hub.tags /\ hub'.archives = hub.archives
        /\ hub'.quality = hub.quality /\ hub'.autoDelete = hub.autoDelete /\ hub'.default = "main"
        /\ hub'.prs = hub.prs /\ hub'.foreign = hub.foreign /\ hub'.pr = hub.pr
    BY <1>1, <1>4 DEF CHub
  <2>2. \A r \in Topics : Raced(r)' <=> Raced(r)
    BY <2>1 DEF Raced, Dependents
  <2> QED BY <1>1, <2>1, <2>2, WorldStep
<1> QED BY <1>3, <1>4 DEF RenameSettles

\* Opening or reopening a PR needs the branch; a push by hand needs the lock to be off.
LEMMA CutMeddle == ASSUME CutInv, Meddle PROVE CutInv' /\ Truthful
<1>1. hub \in CHub /\ UNCHANGED <<log, at>>
  BY DEF CutInv, CutTypes, Meddle
<1>2. \A r \in Topics : r \in Refs /\ r # "integration" /\ r # "none"
  BY PlanAssumption DEF Refs, Targets
<1>3. ASSUME NEW f \in [on : Topics \cup {"none"}, as : {"none", "base", "head"}, open : BOOLEAN],
             hub' = [hub EXCEPT !.foreign = f],
             \A r \in Topics : f.on = r => \/ hub.heads[r] # "none"
                                           \/ hub.foreign.on = r /\ f.as = hub.foreign.as /\ ~f.open
      PROVE  CutInv' /\ Truthful
  <2>1. /\ hub' \in CHub /\ hub'.heads = hub.heads /\ hub'.tags = hub.tags /\ hub'.archives = hub.archives
        /\ hub'.quality = hub.quality /\ hub'.autoDelete = hub.autoDelete /\ hub'.default = hub.default
        /\ hub'.prs = hub.prs /\ hub'.foreign = f /\ hub'.pr = hub.pr
    BY <1>1, <1>3 DEF CHub
  <2>2. ASSUME NEW r \in Topics, hub'.heads[r] = "none", Raced(r)' PROVE Raced(r)
    BY <1>3, <2>1, <2>2 DEF Raced, Dependents
  <2> QED BY <1>1, <2>1, <2>2, WorldStep
<1>4. ASSUME NEW q \in Requests, NEW p,
             p \in [state : {"open", "closed", "merged"}, comments : Nat, moved : BOOLEAN],
             hub' = [hub EXCEPT !.prs[q] = p], p.comments = hub.prs[q].comments,
             p.state = hub.prs[q].state \/ (hub.prs[q].state = "closed" /\ (q \in Topics => hub.heads[q] # "none"))
      PROVE  CutInv' /\ Truthful
  <2>1. PICK a : a = [hub.prs EXCEPT ![q] = p]
    OBVIOUS
  <2>2. hub' = [hub EXCEPT !.prs = a]
    BY <1>1, <1>4, <2>1 DEF CHub
  <2>3. /\ a \in [Requests -> [state : {"open", "closed", "merged"}, comments : Nat, moved : BOOLEAN]]
        /\ a[q] = p /\ \A o \in Requests \ {q} : a[o] = hub.prs[o]
    <3>1. hub.prs \in [Requests -> [state : {"open", "closed", "merged"}, comments : Nat, moved : BOOLEAN]]
      BY <1>1 DEF CHub
    <3> QED BY <1>4, <2>1, <3>1
  <2>4. /\ hub' \in CHub /\ hub'.heads = hub.heads /\ hub'.tags = hub.tags /\ hub'.archives = hub.archives
        /\ hub'.quality = hub.quality /\ hub'.autoDelete = hub.autoDelete /\ hub'.default = hub.default
        /\ hub'.prs = a /\ hub'.foreign = hub.foreign /\ hub'.pr = hub.pr
    BY <1>1, <2>2, <2>3 DEF CHub
  <2>5. ASSUME NEW r \in Topics, hub'.heads[r] = "none", Raced(r)' PROVE Raced(r)
    BY <1>4, <2>3, <2>4, <2>5 DEF Raced, Dependents
  <2>6. \A o \in Requests : /\ hub'.prs[o].comments = hub.prs[o].comments
                            /\ hub.prs[o].state = "merged" => hub'.prs[o].state = "merged"
    BY <1>4, <2>3, <2>4
  <2> QED BY <1>1, <2>4, <2>5, <2>6, WorldStep
<1>5. ASSUME NEW r \in Topics, NEW as \in {"base", "head"}, hub.foreign.on = "none", hub.heads[r] # "none",
             hub' = [hub EXCEPT !.foreign = [on |-> r, as |-> as, open |-> TRUE]]
      PROVE  CutInv' /\ Truthful
  <2>1. PICK f : f = [on |-> r, as |-> as, open |-> TRUE]
    OBVIOUS
  <2>2. f \in [on : Topics \cup {"none"}, as : {"none", "base", "head"}, open : BOOLEAN] /\ f.on = r
    BY <2>1
  <2> QED BY <1>3, <1>5, <2>1, <2>2
<1>6. CASE hub' = [hub EXCEPT !.foreign.open = FALSE]
  <2>1. PICK f : f = [hub.foreign EXCEPT !.open = FALSE]
    OBVIOUS
  <2>2. hub' = [hub EXCEPT !.foreign = f]
    BY <1>1, <1>6, <2>1 DEF CHub
  <2>3. f \in [on : Topics \cup {"none"}, as : {"none", "base", "head"}, open : BOOLEAN]
        /\ f.on = hub.foreign.on /\ f.as = hub.foreign.as /\ f.open = FALSE
    BY <1>1, <2>1 DEF CHub
  <2> QED BY <1>3, <2>2, <2>3
<1>7. ASSUME NEW q \in Requests, \/ hub' = [hub EXCEPT !.prs[q].moved = TRUE]
                                 \/ /\ hub.prs[q].state = "closed" /\ (q \in Topics => hub.heads[q] # "none")
                                    /\ hub' = [hub EXCEPT !.prs[q].state = "open"]
      PROVE  CutInv' /\ Truthful
  <2>1. hub.prs[q] \in [state : {"open", "closed", "merged"}, comments : Nat, moved : BOOLEAN]
    BY <1>1 DEF CHub
  <2>2. CASE hub' = [hub EXCEPT !.prs[q].moved = TRUE]
    <3>1. PICK p : p = [hub.prs[q] EXCEPT !.moved = TRUE]
      OBVIOUS
    <3>2. /\ p \in [state : {"open", "closed", "merged"}, comments : Nat, moved : BOOLEAN]
          /\ p.comments = hub.prs[q].comments /\ p.state = hub.prs[q].state
      BY <2>1, <3>1
    <3>3. hub' = [hub EXCEPT !.prs[q] = p]
      BY <1>1, <2>2, <3>1 DEF CHub
    <3> QED BY <1>4, <3>2, <3>3
  <2>3. CASE /\ hub.prs[q].state = "closed" /\ (q \in Topics => hub.heads[q] # "none")
             /\ hub' = [hub EXCEPT !.prs[q].state = "open"]
    <3>1. PICK p : p = [hub.prs[q] EXCEPT !.state = "open"]
      OBVIOUS
    <3>2. /\ p \in [state : {"open", "closed", "merged"}, comments : Nat, moved : BOOLEAN]
          /\ p.comments = hub.prs[q].comments
      BY <2>1, <3>1
    <3>3. hub' = [hub EXCEPT !.prs[q] = p]
      BY <1>1, <2>3, <3>1 DEF CHub
    <3> QED BY <1>4, <2>3, <3>2, <3>3
  <2> QED BY <1>7, <2>2, <2>3
<1>8. ASSUME NEW r \in Topics, hub' = [hub EXCEPT !.heads[r] = "foreign", !.late = @ \cup {r}]
      PROVE  CutInv' /\ Truthful
  <2>1. PICK h : h = [hub.heads EXCEPT ![r] = "foreign"]
    OBVIOUS
  <2>2. hub' = [hub EXCEPT !.heads = h, !.late = hub.late \cup {r}]
    BY <1>1, <1>8, <2>1 DEF CHub
  <2>3. h \in [Refs -> Commits] /\ \A o \in Topics : h[o] \in {hub.heads[o], "foreign"}
    <3>1. hub.heads \in [Refs -> Commits] /\ "foreign" \in Commits
      BY <1>1 DEF CHub, Commits
    <3> QED BY <1>2, <2>1, <3>1
  <2>4. /\ hub' \in CHub /\ hub'.heads = h /\ hub'.tags = hub.tags /\ hub'.archives = hub.archives
        /\ hub'.quality = hub.quality /\ hub'.autoDelete = hub.autoDelete /\ hub'.default = hub.default
        /\ hub'.prs = hub.prs /\ hub'.foreign = hub.foreign /\ hub'.pr = hub.pr
    <3>1. PICK late \in SUBSET Topics : late = hub.late \cup {r}
      BY <1>1 DEF CHub
    <3> QED BY <1>1, <2>2, <2>3, <3>1 DEF CHub
  <2>5. \A o \in Topics : Raced(o)' <=> Raced(o)
    BY <2>4 DEF Raced, Dependents
  <2> QED BY <1>1, <2>3, <2>4, <2>5, WorldStep
<1> QED BY <1>5, <1>6, <1>7, <1>8 DEF Meddle

\* The controller stops, or begins a phase.
LEMMA CutStop == ASSUME CutInv, Stop, UNCHANGED <<hub, log>> PROVE CutInv' /\ Truthful
<1>1. at' = Idle /\ CutTypes
  BY DEF Stop, CutInv
<1>2. at'.phase = "none" /\ at'.step = "none" /\ at'.todo = {} /\ at'.seen = FALSE
  BY <1>1 DEF Idle
<1>3. CutTypes'
  BY <1>1, <1>2 DEF CutTypes, Idle
<1>4. Holding' /\ Final'
  BY <1>2 DEF CutInv, Holding, Final
<1> QED BY <1>3, <1>4, CutFrame DEF Truthful

\* A phase begins with what was left undone, or with its checks.
LEMMA CutEnter == ASSUME CutInv, NEW phase, Enter(phase) PROVE CutInv' /\ Truthful
<1>1. UNCHANGED <<hub, log>> /\ CutTypes
  BY DEF Enter, CutInv
<1>2. ASSUME NEW r \in log.deleting, hub.heads[r] = "none", Raced(r),
             at' = [Idle EXCEPT !.phase = phase, !.step = "undo", !.ref = r]
      PROVE  CutInv' /\ Truthful
  <2>1. /\ at' = [phase |-> phase, step |-> "undo", todo |-> {}, ref |-> r, seen |-> FALSE]
        /\ at'.phase = phase /\ at'.step = "undo" /\ at'.todo = {} /\ at'.ref = r /\ at'.seen = FALSE
    BY <1>2 DEF Idle
  <2>2. CutTypes'
    BY <1>1, <2>1 DEF CutTypes
  <2>3. Holding'
    <3>1. r \in Targets /\ (r \in Topics => r \notin log.deleted)
      BY <1>1, <1>2 DEF CutTypes, CutInv, Branch
    <3> QED BY <1>1, <2>1, <3>1 DEF Holding
  <2>4. Final'
    BY <1>1, <2>1 DEF CutInv, Final
  <2> QED BY <1>1, <2>2, <2>3, <2>4, CutFrame DEF Truthful
<1>3. ASSUME Admitted(phase), at' = [Idle EXCEPT !.phase = phase, !.step = "gate"] PROVE CutInv' /\ Truthful
  <2>1. /\ at' = [phase |-> phase, step |-> "gate", todo |-> {}, ref |-> "none", seen |-> FALSE]
        /\ at'.phase = phase /\ at'.step = "gate" /\ at'.todo = {} /\ at'.seen = FALSE
    BY <1>3 DEF Idle
  <2>2. CutTypes'
    BY <1>1, <2>1 DEF CutTypes
  <2>3. Holding'
    BY <2>1 DEF Holding
  <2>4. phase = "finalize" => hub.archives
    BY <1>3 DEF CutInv, Final, Admitted, Intended, RulesOK
  <2>5. Final'
    BY <1>1, <2>1, <2>4 DEF CutInv, Final
  <2> QED BY <1>1, <2>2, <2>3, <2>5, CutFrame DEF Truthful
<1> QED BY <1>2, <1>3 DEF Enter

\* Planned heads are commits of their own.
LEMMA PlannedIs ==
  ASSUME NEW r \in Targets
  PROVE  Planned[r] \in Commits /\ Planned[r] \notin {"none", "foreign"} /\ r # "base"
<1>1. r # "base" /\ (r \in Topics => r # "integration" /\ r \notin {"none", "foreign"})
  BY PlanAssumption DEF Targets
<1> QED BY <1>1 DEF Planned, Targets, Commits

\* A branch that is put back was not recorded as deleted.
LEMMA CutUndo == ASSUME CutInv, Undo PROVE CutInv' /\ Truthful
<1>1. CutTypes /\ Holding /\ hub \in CHub /\ at.step = "undo" /\ UNCHANGED log /\ Stop
  BY DEF Undo, CutInv, CutTypes
<1>2. CASE hub.heads[at.ref] # "none"
  BY <1>1, <1>2, CutStop DEF Undo
<1>3. CASE hub.heads[at.ref] = "none"
  <2>1. /\ hub' = [hub EXCEPT !.heads[at.ref] = Planned[at.ref]] /\ at.ref \in Targets
        /\ at.ref \in Topics => at.ref \notin log.deleted
    BY <1>1, <1>3 DEF Undo, Holding
  <2>2. PICK h : h = [hub.heads EXCEPT ![at.ref] = Planned[at.ref]]
    OBVIOUS
  <2>3. hub' = [hub EXCEPT !.heads = h]
    BY <1>1, <2>1, <2>2 DEF CHub
  <2>4. /\ h \in [Refs -> Commits] /\ \A r \in Topics \ {at.ref} : h[r] = hub.heads[r]
        /\ h[at.ref] \notin {"none", "foreign"}
    <3>1. hub.heads \in [Refs -> Commits] /\ Targets \subseteq Refs /\ Topics \subseteq Refs
      BY <1>1 DEF CHub, Refs, Targets
    <3> QED BY <2>1, <2>2, <3>1, PlannedIs
  <2>5. /\ hub' \in CHub /\ hub'.heads = h /\ hub'.tags = hub.tags /\ hub'.archives = hub.archives
        /\ hub'.prs = hub.prs /\ hub'.foreign = hub.foreign /\ hub'.pr = hub.pr
    BY <1>1, <2>3, <2>4 DEF CHub
  <2>6. at' = Idle /\ at'.phase = "none" /\ at'.step = "none" /\ at'.todo = {} /\ at'.seen = FALSE
    BY <1>1 DEF Stop, Idle
  <2>7. CutTypes'
    BY <1>1, <2>5, <2>6 DEF CutTypes, Idle
  <2>8. Holding' /\ Final'
    BY <1>1, <2>5, <2>6 DEF CutInv, Holding, Final
  <2>9. ASSUME NEW r \in Topics PROVE Branch(r)'
    <3>1. Branch(r)
      BY DEF CutInv
    <3>2. CASE r = at.ref
      BY <1>1, <2>1, <2>4, <2>5, <3>1, <3>2 DEF Branch
    <3>3. CASE r # at.ref
      <4>1. Raced(r)' <=> Raced(r)
        BY <2>5 DEF Raced, Dependents
      <4> QED BY <1>1, <2>4, <2>5, <3>1, <3>3, <4>1 DEF Branch
    <3> QED BY <3>2, <3>3
  <2>10. ASSUME NEW q \in Requests PROVE Asked(q)'
    BY <1>1, <2>5 DEF CutInv, Asked
  <2> QED BY <1>1, <2>7, <2>8, <2>9, <2>10 DEF CutInv, Truthful
<1> QED BY <1>2, <1>3

\* A step of resolve: what it has to show is about the PRs.
LEMMA RequestStep ==
  ASSUME CutInv, CutTypes', Holding', at'.phase \in {"resolve", "none"},
         log'.intents = log.intents, log'.results = log.results, log'.deleting = log.deleting,
         log'.deleted = log.deleted,
         hub'.heads = hub.heads, hub'.foreign = hub.foreign, hub'.tags = hub.tags, hub'.archives = hub.archives,
         \A q \in Requests : Asked(q)' /\ (hub'.prs[q].state = "open" => hub.prs[q].state = "open")
  PROVE  CutInv' /\ Truthful
<1>1. Final'
  BY DEF CutInv, Final
<1>2. ASSUME NEW r \in Topics PROVE Branch(r)'
  <2>1. Branch(r) /\ r # "integration"
    BY PlanAssumption DEF CutInv
  <2>2. Raced(r)' => Raced(r)
    BY <2>1 DEF Raced, Dependents
  <2> QED BY <2>1, <2>2 DEF Branch
<1> QED BY <1>1, <1>2 DEF CutInv, Truthful

\* A request is recorded as resolved: it is settled, or has its comment.
LEMMA ResolvedStep ==
  ASSUME CutInv, UNCHANGED hub, at.phase = "resolve", NEW q \in Requests, Resolved(q),
         Disposition[q] # "already_closed" /\ hub.prs[q].state # "merged" => hub.prs[q].comments = 1
  PROVE  CutInv' /\ Truthful
<1>1. CutTypes /\ hub \in CHub
  BY DEF CutInv, CutTypes
<1>2. PICK l : l = log
  OBVIOUS
<1>3. log' = [intents |-> l.intents, results |-> l.results, deleting |-> l.deleting,
              deleted |-> l.deleted, resolved |-> l.resolved \cup {q}]
  <2>1. l = [intents |-> l.intents, results |-> l.results, deleting |-> l.deleting,
             deleted |-> l.deleted, resolved |-> l.resolved]
    BY <1>1, <1>2 DEF CutTypes
  <2> QED BY <1>2, <2>1 DEF Resolved
<1>4. \/ at' = Idle
      \/ Goes("resolve", "look", at.todo \ {q}, at.ref, at.seen)
  <2>1. PICK a : a = at
    OBVIOUS
  <2>2. a = [phase |-> a.phase, step |-> a.step, todo |-> a.todo, ref |-> a.ref, seen |-> a.seen]
    BY <1>1, <2>1 DEF CutTypes
  <2> QED BY <2>1, <2>2 DEF Resolved, Goes
<1>5. CutTypes' /\ Holding' /\ at'.phase \in {"resolve", "none"}
  <2>1. CASE at' = Idle
    <3>1. at'.phase = "none" /\ at'.step = "none" /\ at'.todo = {} /\ at'.ref = "none" /\ at'.seen = FALSE
      BY <2>1 DEF Idle
    <3> QED BY <1>1, <1>2, <1>3, <2>1, <3>1 DEF CutTypes, Holding, Idle
  <2>2. CASE Goes("resolve", "look", at.todo \ {q}, at.ref, at.seen)
    <3>1. /\ at'.phase = "resolve" /\ at'.step = "look" /\ at'.todo = at.todo \ {q} /\ at'.ref = at.ref
          /\ at'.seen = at.seen
      BY <2>2 DEF Goes
    <3>2. CutTypes'
      BY <1>1, <1>2, <1>3, <2>2, <3>1 DEF CutTypes, Goes
    <3>3. Holding'
      BY <3>1 DEF Holding
    <3> QED BY <3>1, <3>2, <3>3
  <2> QED BY <1>4, <2>1, <2>2
<1>6. ASSUME NEW o \in Requests PROVE Asked(o)'
  <2>1. Asked(o)
    BY DEF CutInv
  <2> QED BY <1>2, <1>3, <2>1 DEF Asked
<1> QED BY <1>1, <1>2, <1>3, <1>5, <1>6, RequestStep

\* The next step of resolve with the same PR, or with a new one.
LEMMA LookStep ==
  ASSUME CutInv, UNCHANGED <<hub, log>>, at.phase = "resolve",
         NEW step, NEW todo \in SUBSET Requests, NEW ref, NEW seen \in BOOLEAN,
         Goes("resolve", step, todo, ref, seen), step # "undo",
         step = "comment" => ref \in Requests /\ hub.prs[ref].comments = 0,
         step \in {"advanced", "close", "confirm"} => ref \in Requests /\ hub.prs[ref].comments = 1
  PROVE  CutInv' /\ Truthful
<1>1. at'.phase = "resolve" /\ at'.step = step /\ at'.todo = todo /\ at'.ref = ref /\ at'.seen = seen
  BY DEF Goes
<1>2. CutTypes'
  BY <1>1 DEF CutInv, CutTypes, Goes
<1>3. Holding'
  BY <1>1 DEF Holding
<1>4. \A q \in Requests : Asked(q)'
  BY DEF CutInv, Asked
<1> QED BY <1>1, <1>2, <1>3, <1>4, RequestStep

\* A comment or a closing: the PR the controller is at.
LEMMA ChangeRequest ==
  ASSUME CutInv, at.phase = "resolve", UNCHANGED log, NEW p,
         p \in [state : {"open", "closed", "merged"}, comments : Nat, moved : BOOLEAN],
         at.ref \in Requests, hub' = [hub EXCEPT !.prs[at.ref] = p],
         p.comments = 1, p.state = "open" => hub.prs[at.ref].state = "open",
         NEW step \in {"advanced", "confirm"}, Goes("resolve", step, at.todo, at.ref, at.seen)
  PROVE  CutInv' /\ Truthful
<1>1. CutTypes /\ hub \in CHub
  BY DEF CutInv, CutTypes
<1>2. PICK a : a = [hub.prs EXCEPT ![at.ref] = p]
  OBVIOUS
<1>3. hub' = [hub EXCEPT !.prs = a]
  BY <1>1, <1>2 DEF CHub
<1>4. /\ a \in [Requests -> [state : {"open", "closed", "merged"}, comments : Nat, moved : BOOLEAN]]
      /\ a[at.ref] = p /\ \A o \in Requests \ {at.ref} : a[o] = hub.prs[o]
  <2>1. hub.prs \in [Requests -> [state : {"open", "closed", "merged"}, comments : Nat, moved : BOOLEAN]]
    BY <1>1 DEF CHub
  <2> QED BY <1>2, <2>1
<1>5. /\ hub' \in CHub /\ hub'.heads = hub.heads /\ hub'.tags = hub.tags /\ hub'.archives = hub.archives
      /\ hub'.prs = a /\ hub'.foreign = hub.foreign
  BY <1>1, <1>3, <1>4 DEF CHub
<1>6. at'.phase = "resolve" /\ at'.step = step /\ at'.todo = at.todo /\ at'.ref = at.ref /\ at'.seen = at.seen
  BY DEF Goes
<1>7. CutTypes'
  BY <1>1, <1>5, <1>6 DEF CutTypes, Goes
<1>8. Holding'
  BY <1>4, <1>5, <1>6 DEF Holding
<1>9. ASSUME NEW q \in Requests PROVE Asked(q)' /\ (hub'.prs[q].state = "open" => hub.prs[q].state = "open")
  <2>1. Asked(q)
    BY DEF CutInv
  <2>2. CASE q = at.ref
    BY <1>4, <1>5, <2>2 DEF Asked
  <2>3. CASE q # at.ref
    BY <1>4, <1>5, <2>1, <2>3 DEF Asked
  <2> QED BY <2>2, <2>3
<1> QED BY <1>5, <1>6, <1>7, <1>8, <1>9, RequestStep

\* Each PR gets one comment: it is looked for before it is made.
LEMMA CutResolve == ASSUME CutInv, Resolve PROVE CutInv' /\ Truthful
<1>1. /\ CutTypes /\ Holding /\ hub \in CHub /\ at.phase = "resolve" /\ at.todo \in SUBSET Requests
      /\ at.seen \in BOOLEAN
  BY DEF Resolve, In, Refuses, CutInv, CutTypes
<1>2. CASE Stop /\ UNCHANGED <<hub, log>>
  BY <1>2, CutStop
<1>3. CASE at' = [at EXCEPT !.step = "look", !.todo = Requests] /\ UNCHANGED <<hub, log>>
  <2>1. Goes("resolve", "look", Requests, at.ref, at.seen)
    <3>1. PICK a : a = at
      OBVIOUS
    <3>2. a = [phase |-> a.phase, step |-> a.step, todo |-> a.todo, ref |-> a.ref, seen |-> a.seen]
      BY <1>1, <3>1 DEF CutTypes
    <3> QED BY <1>1, <1>3, <3>1, <3>2 DEF Goes
  <2> QED BY <1>1, <1>3, <2>1, LookStep
<1>4. ASSUME NEW q \in at.todo, Settled(q), Resolved(q), UNCHANGED hub PROVE CutInv' /\ Truthful
  BY <1>1, <1>4, ResolvedStep DEF Settled
<1>5. ASSUME NEW q \in at.todo, Resolvable(q), UNCHANGED <<hub, log>>,
             at' = [at EXCEPT !.ref = q, !.seen = hub.prs[q].state = "open",
                              !.step = IF Uncommented(q) THEN "comment" ELSE "advanced"]
      PROVE  CutInv' /\ Truthful
  <2>1. PICK seen \in BOOLEAN : seen = (hub.prs[q].state = "open")
    OBVIOUS
  <2>2. PICK step : step = IF Uncommented(q) THEN "comment" ELSE "advanced"
    OBVIOUS
  <2>3. Goes("resolve", step, at.todo, q, seen)
    <3>1. PICK a : a = at
      OBVIOUS
    <3>2. a = [phase |-> a.phase, step |-> a.step, todo |-> a.todo, ref |-> a.ref, seen |-> a.seen]
      BY <1>1, <3>1 DEF CutTypes
    <3> QED BY <1>1, <1>5, <2>1, <2>2, <3>1, <3>2 DEF Goes
  <2>4. q \in Requests /\ hub.prs[q].comments \in Nat /\ hub.prs[q].comments <= 1
    BY <1>1, <1>5 DEF CHub, Resolvable
  <2>5. /\ step = "comment" => hub.prs[q].comments = 0
        /\ step \in {"advanced", "close", "confirm"} => hub.prs[q].comments = 1
        /\ step # "undo"
    BY <2>2, <2>4 DEF Uncommented
  <2> QED BY <1>1, <1>5, <2>3, <2>4, <2>5, LookStep
<1>6. CASE /\ In("resolve", "comment")
           /\ hub' = [hub EXCEPT !.prs[at.ref].comments = @ + 1] /\ To("advanced") /\ UNCHANGED log
  <2>1. at.ref \in Requests /\ hub.prs[at.ref].comments = 0
    BY <1>1, <1>6 DEF Holding, In
  <2>2. hub.prs[at.ref] \in [state : {"open", "closed", "merged"}, comments : Nat, moved : BOOLEAN]
    BY <1>1, <2>1 DEF CHub
  <2>3. PICK p : p = [hub.prs[at.ref] EXCEPT !.comments = 1]
    OBVIOUS
  <2>4. hub' = [hub EXCEPT !.prs[at.ref] = p]
    <3>1. hub.prs[at.ref].comments + 1 = 1
      BY <2>1
    <3>2. hub' = [hub EXCEPT !.prs[at.ref].comments = 1]
      BY <1>1, <1>6, <2>1, <3>1 DEF CHub
    <3> QED BY <1>1, <2>1, <2>3, <3>2 DEF CHub
  <2>5. /\ p \in [state : {"open", "closed", "merged"}, comments : Nat, moved : BOOLEAN]
        /\ p.comments = 1 /\ p.state = hub.prs[at.ref].state
    BY <2>2, <2>3
  <2>6. Goes("resolve", "advanced", at.todo, at.ref, at.seen)
    BY <1>1, <1>6, CutSteps
  <2> QED BY <1>1, <1>6, <2>1, <2>4, <2>5, <2>6, ChangeRequest
<1>7. CASE In("resolve", "advanced") /\ To("close") /\ UNCHANGED <<hub, log>>
  <2>1. at.ref \in Requests /\ hub.prs[at.ref].comments = 1
    BY <1>1, <1>7 DEF Holding, In
  <2>2. Goes("resolve", "close", at.todo, at.ref, at.seen)
    BY <1>1, <1>7, CutSteps
  <2> QED BY <1>1, <1>7, <2>1, <2>2, LookStep
<1>8. CASE /\ In("resolve", "close")
           /\ hub' = IF at.seen THEN [hub EXCEPT !.prs[at.ref].state = "closed"] ELSE hub
           /\ To("confirm") /\ UNCHANGED log
  <2>1. at.ref \in Requests /\ hub.prs[at.ref].comments = 1
    BY <1>1, <1>8 DEF Holding, In
  <2>2. Goes("resolve", "confirm", at.todo, at.ref, at.seen)
    BY <1>1, <1>8, CutSteps
  <2>3. CASE hub' = hub
    BY <1>1, <1>8, <2>1, <2>2, <2>3, LookStep
  <2>4. CASE hub' = [hub EXCEPT !.prs[at.ref].state = "closed"]
    <3>1. hub.prs[at.ref] \in [state : {"open", "closed", "merged"}, comments : Nat, moved : BOOLEAN]
      BY <1>1, <2>1 DEF CHub
    <3>2. PICK p : p = [hub.prs[at.ref] EXCEPT !.state = "closed"]
      OBVIOUS
    <3>3. hub' = [hub EXCEPT !.prs[at.ref] = p]
      BY <1>1, <2>1, <2>4, <3>2 DEF CHub
    <3>4. /\ p \in [state : {"open", "closed", "merged"}, comments : Nat, moved : BOOLEAN]
          /\ p.comments = 1 /\ p.state = "closed"
      BY <2>1, <3>1, <3>2
    <3> QED BY <1>1, <1>8, <2>1, <2>2, <3>3, <3>4, ChangeRequest
  <2> QED BY <1>8, <2>3, <2>4
<1>9. CASE In("resolve", "confirm") /\ Resolved(at.ref) /\ UNCHANGED hub
  <2>1. at.ref \in Requests /\ hub.prs[at.ref].comments = 1
    BY <1>1, <1>9 DEF Holding, In
  <2> QED BY <1>1, <1>9, <2>1, ResolvedStep
<1> QED BY <1>2, <1>3, <1>4, <1>5, <1>6, <1>7, <1>8, <1>9 DEF Resolve, Refuses

\* A step of prune that only notes something, or looks at the next branch.
LEMMA BranchStep ==
  ASSUME CutInv, UNCHANGED hub, at.phase = "prune",
         log'.intents = log.intents, log'.results = log.results, log'.resolved = log.resolved, CutTypes', Holding',
         at'.phase \in {"prune", "none"}, log.deleting \subseteq log'.deleting,
         \A r \in Topics \cap log'.deleted : r \in log.deleted \/ (hub.heads[r] \in {"none", "foreign"} /\ ~Raced(r))
  PROVE  CutInv' /\ Truthful
<1>1. Final'
  BY DEF CutInv, Final
<1>2. ASSUME NEW r \in Topics PROVE Branch(r)'
  <2>1. Branch(r) /\ (Raced(r)' <=> Raced(r))
    BY DEF CutInv, Raced, Dependents
  <2> QED BY <2>1 DEF Branch
<1>3. \A q \in Requests : Asked(q)'
  BY DEF CutInv, Asked
<1> QED BY <1>1, <1>2, <1>3 DEF CutInv, Truthful

\* Announced, deleted under a lease, looked at again, and only then recorded.
LEMMA CutPrune == ASSUME CutInv, Prune PROVE CutInv' /\ Truthful
<1>1. /\ CutTypes /\ Holding /\ hub \in CHub /\ at.phase = "prune" /\ at.seen \in BOOLEAN
      /\ at.todo \in SUBSET (Topics \cup Requests \cup {"integration"})
  BY DEF Prune, In, Refuses, CutInv, CutTypes
<1>2. PICK a : a = at
  OBVIOUS
<1>3. a = [phase |-> a.phase, step |-> a.step, todo |-> a.todo, ref |-> a.ref, seen |-> a.seen]
  BY <1>1, <1>2 DEF CutTypes
<1>4. PICK l : l = log
  OBVIOUS
<1>5. /\ l = [intents |-> l.intents, results |-> l.results, deleting |-> l.deleting,
              deleted |-> l.deleted, resolved |-> l.resolved]
      /\ l.deleting \in SUBSET Targets /\ l.deleted \in SUBSET Targets /\ l.resolved \in SUBSET Requests
  BY <1>1, <1>4 DEF CutTypes
<1>6. CASE Stop /\ UNCHANGED <<hub, log>>
  BY <1>6, CutStop
<1>7. CASE at' = [at EXCEPT !.step = "look", !.todo = Targets] /\ UNCHANGED <<hub, log>>
  <2>1. at' = [phase |-> "prune", step |-> "look", todo |-> Targets, ref |-> a.ref, seen |-> a.seen]
    BY <1>1, <1>2, <1>3, <1>7
  <2>2. at'.phase = "prune" /\ at'.step = "look" /\ at'.todo = Targets /\ at'.ref = at.ref /\ at'.seen = at.seen
    BY <1>2, <2>1
  <2>3. CutTypes'
    BY <1>1, <1>2, <1>7, <2>1, <2>2 DEF CutTypes, Targets
  <2>4. Holding'
    BY <2>2 DEF Holding
  <2> QED BY <1>1, <1>7, <2>2, <2>3, <2>4, BranchStep
<1>8. ASSUME NEW r \in Targets, Deletable(r), log' = [log EXCEPT !.deleting = log.deleting \cup {r}],
             at' = [at EXCEPT !.ref = r, !.step = "push"], UNCHANGED hub
      PROVE  CutInv' /\ Truthful
  <2>1. at' = [phase |-> "prune", step |-> "push", todo |-> a.todo, ref |-> r, seen |-> a.seen]
    BY <1>1, <1>2, <1>3, <1>8
  <2>2. at'.phase = "prune" /\ at'.step = "push" /\ at'.todo = at.todo /\ at'.ref = r /\ at'.seen = at.seen
    BY <1>2, <2>1
  <2>3. log' = [intents |-> l.intents, results |-> l.results, deleting |-> l.deleting \cup {r},
                deleted |-> l.deleted, resolved |-> l.resolved]
    BY <1>4, <1>5, <1>8
  <2>4. /\ log'.intents = l.intents /\ log'.results = l.results /\ log'.deleting = l.deleting \cup {r}
        /\ log'.deleted = l.deleted /\ log'.resolved = l.resolved
    BY <2>3
  <2>5. CutTypes'
    BY <1>1, <1>2, <1>5, <1>8, <2>1, <2>2, <2>3, <2>4 DEF CutTypes
  <2>6. Holding'
    <3>1. hub.tags
      BY <1>8 DEF Deletable, ArchiveGate
    <3> QED BY <1>8, <2>2, <2>4, <3>1 DEF Holding
  <2> QED BY <1>1, <1>4, <1>8, <2>2, <2>4, <2>5, <2>6, BranchStep
<1>9. ASSUME NEW r \in Targets, Vanished(r), at' = [at EXCEPT !.ref = r, !.step = "after"], UNCHANGED <<hub, log>>
      PROVE  CutInv' /\ Truthful
  <2>1. at' = [phase |-> "prune", step |-> "after", todo |-> a.todo, ref |-> r, seen |-> a.seen]
    BY <1>1, <1>2, <1>3, <1>9
  <2>2. at'.phase = "prune" /\ at'.step = "after" /\ at'.todo = at.todo /\ at'.ref = r /\ at'.seen = at.seen
    BY <1>2, <2>1
  <2>3. CutTypes'
    BY <1>1, <1>2, <1>9, <2>1, <2>2 DEF CutTypes
  <2>4. Holding'
    BY <1>9, <2>2 DEF Holding, Vanished
  <2> QED BY <1>1, <1>9, <2>2, <2>3, <2>4, BranchStep
<1>10. CASE /\ In("prune", "push") /\ hub.heads[at.ref] = Planned[at.ref]
            /\ hub' = [hub EXCEPT !.heads[at.ref] = "none",
                                  !.foreign.open = @ /\ hub.foreign.on # at.ref]
            /\ To("after") /\ UNCHANGED log
  <2>1. at.ref \in log.deleting /\ at.ref \in Targets /\ hub.tags
    BY <1>1, <1>10 DEF Holding, In, CutTypes
  <2>2. PICK h : h = [hub.heads EXCEPT ![at.ref] = "none"]
    OBVIOUS
  <2>3. PICK open \in BOOLEAN : open = (hub.foreign.open /\ hub.foreign.on # at.ref)
    OBVIOUS
  <2>4. PICK f : f = [hub.foreign EXCEPT !.open = open]
    OBVIOUS
  <2>5. hub' = [hub EXCEPT !.heads = h, !.foreign = f]
    BY <1>1, <1>10, <2>2, <2>3, <2>4 DEF CHub
  <2>6. /\ h \in [Refs -> Commits] /\ \A r \in Topics \ {at.ref} : h[r] = hub.heads[r]
        /\ h[at.ref] = "none"
    <3>1. hub.heads \in [Refs -> Commits] /\ Targets \subseteq Refs /\ Topics \subseteq Refs /\ "none" \in Commits
      BY <1>1 DEF CHub, Refs, Targets, Commits
    <3> QED BY <2>1, <2>2, <3>1
  <2>7. /\ f \in [on : Topics \cup {"none"}, as : {"none", "base", "head"}, open : BOOLEAN]
        /\ f.on = hub.foreign.on /\ f.as = hub.foreign.as /\ (f.open => hub.foreign.open)
    BY <1>1, <2>3, <2>4 DEF CHub
  <2>8. /\ hub' \in CHub /\ hub'.heads = h /\ hub'.tags = hub.tags /\ hub'.archives = hub.archives
        /\ hub'.prs = hub.prs /\ hub'.foreign = f /\ hub'.pr = hub.pr
    BY <1>1, <2>5, <2>6, <2>7 DEF CHub
  <2>9. at' = [phase |-> "prune", step |-> "after", todo |-> a.todo, ref |-> a.ref, seen |-> a.seen]
    BY <1>1, <1>2, <1>3, <1>10 DEF To
  <2>10. at'.phase = "prune" /\ at'.step = "after" /\ at'.todo = at.todo /\ at'.ref = at.ref /\ at'.seen = at.seen
    BY <1>2, <2>9
  <2>11. CutTypes'
    BY <1>1, <1>2, <1>10, <2>8, <2>9, <2>10 DEF CutTypes
  <2>12. Holding'
    BY <2>1, <2>6, <2>8, <2>10 DEF Holding
  <2>13. Final'
    BY <1>10, <2>8, <2>10 DEF CutInv, Final
  <2>14. ASSUME NEW r \in Topics PROVE Branch(r)'
    <3>1. Branch(r)
      BY DEF CutInv
    <3>2. CASE r = at.ref
      <4>1. r \notin log.deleted
        BY <1>10, <2>1, <3>1, <3>2, PlannedIs DEF Branch
      <4> QED BY <1>10, <2>1, <2>6, <2>8, <3>2, <4>1 DEF Branch
    <3>3. CASE r # at.ref
      <4>1. Raced(r)' => Raced(r)
        BY <2>7, <2>8 DEF Raced, Dependents
      <4> QED BY <1>10, <2>6, <2>8, <3>1, <3>3, <4>1 DEF Branch
    <3> QED BY <3>2, <3>3
  <2>15. ASSUME NEW q \in Requests PROVE Asked(q)'
    BY <1>10, <2>8 DEF CutInv, Asked
  <2> QED BY <1>10, <2>11, <2>12, <2>13, <2>14, <2>15 DEF CutInv, Truthful
<1>11. CASE In("prune", "after") /\ Raced(at.ref) /\ To("undo") /\ UNCHANGED <<hub, log>>
  <2>1. at.ref \in Targets /\ (at.ref \in Topics => at.ref \notin log.deleted \/ hub.heads[at.ref] # "none")
    BY <1>1, <1>11 DEF Holding, In, CutInv, Branch
  <2>2. at' = [phase |-> "prune", step |-> "undo", todo |-> a.todo, ref |-> a.ref, seen |-> a.seen]
    BY <1>1, <1>2, <1>3, <1>11 DEF To
  <2>3. at'.phase = "prune" /\ at'.step = "undo" /\ at'.todo = at.todo /\ at'.ref = at.ref /\ at'.seen = at.seen
    BY <1>2, <2>2
  <2>4. CutTypes'
    BY <1>1, <1>2, <1>11, <2>2, <2>3 DEF CutTypes
  <2>5. Holding'
    BY <1>11, <2>1, <2>3 DEF Holding
  <2> QED BY <1>1, <1>11, <2>3, <2>4, <2>5, BranchStep
<1>12. CASE In("prune", "after") /\ ~Raced(at.ref) /\ Deleted(at.ref) /\ UNCHANGED hub
  <2>1. at.ref \in Targets /\ (at.ref \in Topics => hub.heads[at.ref] \in {"none", "foreign"})
    BY <1>1, <1>12 DEF Holding, In
  <2>2. log' = [intents |-> l.intents, results |-> l.results, deleting |-> l.deleting,
                deleted |-> l.deleted \cup {a.ref}, resolved |-> l.resolved]
    BY <1>2, <1>4, <1>5, <1>12 DEF Deleted
  <2>3. /\ log'.intents = l.intents /\ log'.results = l.results /\ log'.deleting = l.deleting
        /\ log'.deleted = l.deleted \cup {a.ref} /\ log'.resolved = l.resolved
    BY <2>2
  <2>4. CutTypes' /\ Holding' /\ at'.phase \in {"prune", "none"}
    <3>1. CASE at' = Idle
      <4>1. at'.phase = "none" /\ at'.step = "none" /\ at'.todo = {} /\ at'.ref = "none" /\ at'.seen = FALSE
        BY <3>1 DEF Idle
      <4> QED BY <1>1, <1>2, <1>5, <1>12, <2>1, <2>2, <2>3, <3>1, <4>1 DEF CutTypes, Holding, Idle
    <3>2. CASE at' = [at EXCEPT !.todo = at.todo \ {at.ref}, !.step = "look"]
      <4>1. at' = [phase |-> "prune", step |-> "look", todo |-> a.todo \ {a.ref}, ref |-> a.ref, seen |-> a.seen]
        BY <1>1, <1>2, <1>3, <3>2
      <4>2. /\ at'.phase = "prune" /\ at'.step = "look" /\ at'.todo = at.todo \ {at.ref} /\ at'.ref = at.ref
            /\ at'.seen = at.seen
        BY <1>2, <4>1
      <4>3. CutTypes'
        BY <1>1, <1>2, <1>5, <1>12, <2>1, <2>2, <2>3, <4>1, <4>2 DEF CutTypes
      <4>4. Holding'
        BY <4>2 DEF Holding
      <4> QED BY <4>2, <4>3, <4>4
    <3>3. at' = Idle \/ at' = [at EXCEPT !.todo = at.todo \ {at.ref}, !.step = "look"]
      BY <1>2, <1>3, <1>12 DEF Deleted
    <3> QED BY <3>1, <3>2, <3>3
  <2>5. \A r \in Topics \cap log'.deleted : r \in log.deleted \/ (hub.heads[r] \in {"none", "foreign"} /\ ~Raced(r))
    BY <1>2, <1>4, <1>12, <2>1, <2>3
  <2> QED BY <1>1, <1>4, <1>12, <2>3, <2>4, <2>5, BranchStep
<1>13. CASE In("prune", "look")
  <2>1. UNCHANGED hub /\ \E r \in {r \in Targets : Turn(r)} :
          \/ /\ Deletable(r)
             /\ log' = [log EXCEPT !.deleting = @ \cup {r}]
             /\ at' = [at EXCEPT !.ref = r, !.step = "push"]
          \/ /\ Vanished(r)
             /\ at' = [at EXCEPT !.ref = r, !.step = "after"] /\ UNCHANGED log
          \/ ~Deletable(r) /\ ~Vanished(r) /\ Stop /\ UNCHANGED log
    BY <1>13 DEF Prune, In, Refuses
  <2> QED BY <1>4, <1>5, <1>6, <1>8, <1>9, <2>1
<1> QED BY <1>6, <1>7, <1>10, <1>11, <1>12, <1>13 DEF Prune, Refuses

\* A step of finalize holds on to what the gate and the steps before it saw.
LEMMA FinalStep ==
  ASSUME CutInv, Edit, at.phase = "finalize", at.step # "undo",
         NEW step, step # "undo", NEW seen \in BOOLEAN, Goes("finalize", step, at.todo, at.ref, seen),
         NEW i, Writes(i, {}),
         step \in {"quality", "auto", "unfreeze", "check", "complete"} => hub'.default = "main" /\ hub'.tags,
         step \in {"auto", "unfreeze", "check", "complete"} => hub'.quality = "final",
         step \in {"unfreeze", "check", "complete"} => hub'.autoDelete = AutoDelete
  PROVE  CutInv' /\ Truthful
<1>1. /\ hub' \in CHub /\ hub'.heads = hub.heads /\ hub'.prs = hub.prs /\ hub'.foreign = hub.foreign
      /\ (hub.tags => hub'.tags) /\ (hub.archives => hub'.archives) /\ CutTypes
  BY EditIs DEF CutInv
<1>2. /\ log'.deleting = log.deleting /\ log'.deleted = log.deleted /\ log'.resolved = log.resolved
      /\ log'.results = log.results \cup {}
      /\ log' = [intents |-> log'.intents, results |-> log'.results, deleting |-> log'.deleting,
                 deleted |-> log'.deleted, resolved |-> log'.resolved]
  BY DEF Writes
<1>3. /\ at'.phase = "finalize" /\ at'.step = step /\ at'.todo = at.todo /\ at'.seen = seen
      /\ at' = [phase |-> at'.phase, step |-> at'.step, todo |-> at'.todo, ref |-> at'.ref, seen |-> at'.seen]
  BY DEF Goes
<1>4. CutTypes'
  BY <1>1, <1>2, <1>3 DEF CutTypes
<1>5. Holding'
  BY <1>3 DEF Holding
<1>6. Final'
  <2>1. hub'.archives
    BY <1>1 DEF CutInv, Final
  <2> QED BY <1>3, <2>1 DEF Final
<1> QED BY <1>1, <1>2, <1>4, <1>5, <1>6, CutFrame DEF Truthful

\* The lasting rules, the settings, the lock, one last look, and the receipt.
LEMMA CutFinalize == ASSUME CutInv, Finalize PROVE CutInv' /\ Truthful
<1>1. /\ CutTypes /\ Final /\ hub \in CHub /\ at.phase = "finalize" /\ at.step # "undo" /\ at.seen \in BOOLEAN
  BY DEF Finalize, In, Refuses, Concludes, CutInv, CutTypes
<1>2. CASE Stop /\ UNCHANGED <<hub, log>>
  BY <1>2, CutStop
<1>3. CASE /\ FinalizeGate /\ Intends("final-quality")
           /\ at' = [at EXCEPT !.step = "quality", !.seen = hub.maintenance] /\ UNCHANGED hub
  <2>1. PICK seen \in BOOLEAN : seen = hub.maintenance
    BY <1>1 DEF CHub
  <2>2. Goes("finalize", "quality", at.todo, at.ref, seen)
    <3>1. PICK a : a = at
      OBVIOUS
    <3>2. a = [phase |-> a.phase, step |-> a.step, todo |-> a.todo, ref |-> a.ref, seen |-> a.seen]
      BY <1>1, <3>1 DEF CutTypes
    <3> QED BY <1>1, <1>3, <2>1, <3>1, <3>2 DEF Goes
  <2>3. PICK i : i = {"final-quality"}
    OBVIOUS
  <2>4. Writes(i, {}) /\ Edit
    BY <1>1, <1>3, <2>3, CutSteps DEF Edit
  <2>5. hub'.default = "main" /\ hub'.tags
    BY <1>3 DEF FinalizeGate, MainGate, ArchiveGate
  <2> QED BY <1>1, <2>2, <2>4, <2>5, FinalStep
<1>4. CASE In("finalize", "quality") /\ hub' = [hub EXCEPT !.quality = "final"] /\ To("auto") /\ UNCHANGED log
  <2>1. Goes("finalize", "auto", at.todo, at.ref, at.seen) /\ Writes({}, {}) /\ Edit
    BY <1>1, <1>4, CutSteps DEF Edit
  <2>2. hub'.default = "main" /\ hub'.tags /\ hub'.quality = "final"
    BY <1>1, <1>4 DEF Final, In, CHub
  <2> QED BY <1>1, <2>1, <2>2, FinalStep
<1>5. CASE In("finalize", "auto") /\ hub' = [hub EXCEPT !.autoDelete = AutoDelete] /\ To("unfreeze") /\ UNCHANGED log
  <2>1. Goes("finalize", "unfreeze", at.todo, at.ref, at.seen) /\ Writes({}, {}) /\ Edit
    BY <1>1, <1>5, CutSteps, PlanAssumption DEF Edit
  <2>2. hub'.default = "main" /\ hub'.tags /\ hub'.quality = "final" /\ hub'.autoDelete = AutoDelete
    BY <1>1, <1>5 DEF Final, In, CHub
  <2> QED BY <1>1, <2>1, <2>2, FinalStep
<1>6. CASE /\ In("finalize", "unfreeze")
           /\ hub' = [hub EXCEPT !.maintenance = @ /\ ~at.seen] /\ To("check") /\ UNCHANGED log
  <2>1. PICK m \in BOOLEAN : m = (hub.maintenance /\ ~at.seen)
    OBVIOUS
  <2>2. hub' = [hub EXCEPT !.maintenance = m]
    BY <1>1, <1>6, <2>1 DEF CHub
  <2>3. Goes("finalize", "check", at.todo, at.ref, at.seen) /\ Writes({}, {}) /\ Edit
    BY <1>1, <1>6, <2>2, CutSteps DEF Edit
  <2>4. hub'.default = "main" /\ hub'.tags /\ hub'.quality = "final" /\ hub'.autoDelete = AutoDelete
    BY <1>1, <1>6, <2>2 DEF Final, In, CHub
  <2> QED BY <1>1, <2>3, <2>4, FinalStep
<1>7. CASE /\ In("finalize", "check") /\ hub' = [hub EXCEPT !.late = {}]
           /\ To("complete") /\ UNCHANGED log
  <2>1. Goes("finalize", "complete", at.todo, at.ref, at.seen) /\ Writes({}, {}) /\ Edit
    BY <1>1, <1>7, CutSteps DEF Edit
  <2>2. hub'.default = "main" /\ hub'.tags /\ hub'.quality = "final" /\ hub'.autoDelete = AutoDelete
    BY <1>1, <1>7 DEF Final, In, CHub
  <2> QED BY <1>1, <2>1, <2>2, FinalStep
<1>8. CASE Concludes("finalize", "complete", "complete")
  <2>1. at' = Idle /\ at'.phase = "none" /\ at'.step = "none" /\ at'.todo = {} /\ at'.seen = FALSE
    BY <1>8 DEF Concludes, Stop, Idle
  <2>2. UNCHANGED hub /\ Writes({}, {"complete"})
    BY <1>1, <1>8, CutSteps DEF Concludes
  <2>3. /\ log'.deleting = log.deleting /\ log'.deleted = log.deleted /\ log'.resolved = log.resolved
        /\ log'.intents = log.intents \cup {}
        /\ log' = [intents |-> log'.intents, results |-> log'.results, deleting |-> log'.deleting,
                   deleted |-> log'.deleted, resolved |-> log'.resolved]
    BY <2>2 DEF Writes
  <2>4. CutTypes'
    BY <1>1, <2>1, <2>2, <2>3 DEF CutTypes, Idle
  <2>5. Holding' /\ Final'
    BY <1>1, <2>1, <2>2, <2>3 DEF Holding, Final
  <2>6. CutInv'
    BY <2>2, <2>3, <2>4, <2>5, CutFrame
  <2>7. /\ hub.default = "main" /\ hub.tags /\ hub.archives /\ hub.quality = "final"
        /\ hub.autoDelete = AutoDelete
    BY <1>1, <1>8 DEF Final, Concludes, In
  <2> QED BY <1>8, <2>2, <2>6, <2>7 DEF Truthful, Concludes
<1> QED BY <1>2, <1>3, <1>4, <1>5, <1>6, <1>7, <1>8 DEF Finalize, Refuses

\* At the start every planned branch is there and nothing is recorded.
LEMMA CutInit == ReleaseInit => CutInv
<1> SUFFICES ASSUME ReleaseInit PROVE CutInv
  OBVIOUS
<1>1. Init
  BY DEF ReleaseInit
<1>2. /\ at = [phase |-> "none", step |-> "none", todo |-> {}, ref |-> "none", seen |-> FALSE]
      /\ at.phase = "none" /\ at.step = "none" /\ at.todo = {} /\ at.ref = "none" /\ at.seen = FALSE
      /\ log = [intents |-> {}, results |-> {}, deleting |-> {}, deleted |-> {}, resolved |-> {}]
      /\ log.intents = {} /\ log.results = {} /\ log.deleting = {} /\ log.deleted = {} /\ log.resolved = {}
  BY <1>1 DEF Init, Idle
<1>3. PICK h : h = [r \in Refs |-> IF r \in Topics \cup {"base"} THEN Planned[r] ELSE "none"]
  OBVIOUS
<1>4. PICK p : p = [q \in Requests |->
                      [state |-> IF Disposition[q] = "already_closed" THEN "closed" ELSE "open",
                       comments |-> 0, moved |-> FALSE]]
  OBVIOUS
<1>5. hub = [heads |-> h, default |-> "base", renaming |-> "no", maintenance |-> FALSE, quality |-> "none",
             archives |-> FALSE, autoDelete |-> AutoDelete, tags |-> FALSE, pr |-> "none", status |-> {},
             prs |-> p, foreign |-> [on |-> "none", as |-> "none", open |-> FALSE], late |-> {}]
  BY <1>1, <1>3, <1>4 DEF Init
<1>6. h \in [Refs -> Commits] /\ \A r \in Topics : h[r] # "none"
  <2>1. Planned["base"] \in Commits
    BY DEF Planned, Commits, Targets
  <2>2. \A r \in Topics : r \in Refs /\ r \in Targets /\ Planned[r] \in Commits /\ Planned[r] # "none"
    BY PlannedIs DEF Refs, Targets
  <2>3. "none" \in Commits
    BY DEF Commits
  <2> QED BY <1>3, <2>1, <2>2, <2>3
<1>7. p \in [Requests -> [state : {"open", "closed", "merged"}, comments : Nat, moved : BOOLEAN]]
      /\ \A q \in Requests : p[q].comments = 0
  BY <1>4
<1>8. hub \in CHub
  <2>1. [on |-> "none", as |-> "none", open |-> FALSE]
          \in [on : Topics \cup {"none"}, as : {"none", "base", "head"}, open : BOOLEAN]
    OBVIOUS
  <2> QED BY <1>5, <1>6, <1>7, <2>1, PlanAssumption DEF CHub
<1>9. CutTypes
  BY <1>2, <1>8 DEF CutTypes
<1>10. \A r \in Topics : Branch(r)
  BY <1>2, <1>5, <1>6 DEF Branch
<1>11. \A q \in Requests : Asked(q)
  BY <1>2, <1>5, <1>7 DEF Asked
<1> QED BY <1>2, <1>9, <1>10, <1>11 DEF CutInv, Holding, Final

\* Every step of the cutover keeps the invariant, and no receipt is false.
LEMMA CutNext == ASSUME CutInv, Next PROVE CutInv' /\ Truthful
<1>1. CASE Step
  BY <1>1, CutPrepare, CutArchive, CutPublish, CutQualify, CutMerge, CutRename, CutResolve, CutPrune, CutFinalize,
     CutUndo DEF Step
<1>2. CASE Interrupt
  BY <1>2, CutStop DEF Interrupt
<1>3. CASE Resume \/ Rerun
  BY <1>3, CutEnter DEF Resume, Rerun
<1>4. CASE RenameSettles \/ Meddle
  BY <1>4, CutSettles, CutMeddle
<1> QED BY <1>1, <1>2, <1>3, <1>4 DEF Next

\* Every step of the release does.
LEMMA CutRelease == CutInv /\ [ReleaseNext]_<<vars, sourceVars, tool>> => CutInv' /\ Truthful
<1> SUFFICES ASSUME CutInv, [ReleaseNext]_<<vars, sourceVars, tool>> PROVE CutInv' /\ Truthful
  OBVIOUS
<1>1. CASE Next
  BY <1>1, CutNext
<1>2. CASE UNCHANGED vars
  <2>1. UNCHANGED <<hub, log, at>> /\ CutTypes /\ hub \in CHub
    BY <1>2 DEF vars, CutInv, CutTypes
  <2>2. \A r \in Topics : Raced(r)' <=> Raced(r)
    BY <2>1 DEF Raced, Dependents
  <2> QED BY <2>1, <2>2, WorldStep
<1> QED BY <1>1, <1>2 DEF ReleaseNext

\* What a rename under way and the last look of finalize depend on.
LEMMA CheckedStep == ASSUME CutInv, Checked, Next PROVE Checked'
<1>1. hub \in CHub /\ CutTypes /\ Final
  BY DEF CutInv, CutTypes
<1>2. CASE RenameSettles
  <2>1. hub.default # "main" /\ UNCHANGED at
    BY <1>2 DEF RenameSettles, Checked
  <2>2. ~In("finalize", "complete")
    BY <1>1, <2>1 DEF Final, In
  <2>3. hub'.default = "main" => hub'.renaming = "no"
    BY <1>1, <1>2, <2>1 DEF RenameSettles, CHub
  <2> QED BY <2>1, <2>2, <2>3 DEF Checked, In
<1>3. CASE Meddle
  <2>1. UNCHANGED at /\ hub.heads \in [Refs -> Commits]
    BY <1>1, <1>3 DEF Meddle, CHub
  <2> DEFINE Others ==
        /\ hub'.default = hub.default /\ hub'.renaming = hub.renaming /\ hub'.maintenance = hub.maintenance
        /\ hub.late \subseteq hub'.late /\ \A r \in Refs \ hub'.late : hub'.heads[r] = hub.heads[r]
  <2>2. Others
    <3>1. ASSUME NEW r \in Topics, hub' = [hub EXCEPT !.heads[r] = "foreign", !.late = @ \cup {r}]
          PROVE  Others
      <4>1. hub'.heads = [hub.heads EXCEPT ![r] = "foreign"] /\ hub'.late = hub.late \cup {r}
        BY <1>1, <3>1 DEF CHub
      <4> QED BY <1>1, <2>1, <3>1, <4>1 DEF CHub
    <3> QED BY <1>1, <1>3, <2>1, <3>1 DEF Meddle, CHub
  <2> QED BY <2>1, <2>2 DEF Checked, In
<1>4. ASSUME Step \/ Interrupt \/ Resume \/ Rerun
      PROVE  /\ hub'.default = hub.default
             /\ hub'.renaming = hub.renaming \/ hub.default = "base"
  <2>1. CASE UNCHANGED hub
    BY <2>1
  <2>2. CASE Interrupt \/ Resume \/ Rerun
    BY <2>2 DEF Interrupt, Resume, Rerun, Enter
  <2>3. CASE Prepare \/ Archive \/ Publish
    BY <1>1, <2>3 DEF Prepare, Archive, Publish, Concludes, Refuses, CHub
  <2>4. CASE Qualify \/ VerifyMerged
    BY <1>1, <2>4 DEF Qualify, VerifyMerged, Concludes, Refuses, CHub
  <2>5. CASE Merge
    BY <1>1, <2>5 DEF Merge, Concludes, Refuses, CHub
  <2>6. CASE Rename
    BY <1>1, <2>6 DEF Rename, RenameGate, Concludes, Refuses, CHub
  <2>7. CASE Resolve
    BY <1>1, <2>7 DEF Resolve, Refuses, CHub
  <2>8. CASE Prune
    BY <1>1, <2>8 DEF Prune, Refuses, CHub
  <2>9. CASE Finalize
    BY <1>1, <2>9 DEF Finalize, Concludes, Refuses, CHub
  <2>10. CASE Undo
    BY <1>1, <2>10 DEF Undo, CHub
  <2> QED BY <1>4, <2>1, <2>2, <2>3, <2>4, <2>5, <2>6, <2>7, <2>8, <2>9, <2>10 DEF Step
<1>5. ASSUME Step \/ Interrupt \/ Resume \/ Rerun, In("finalize", "complete")'
      PROVE  /\ ~hub'.maintenance
             /\ \A r \in Refs \ hub'.late : hub'.heads[r] = IF r = "main" THEN "merged" ELSE "none"
  <2>1. at' # Idle /\ at'.phase = "finalize" /\ at'.step = "complete"
    BY <1>5 DEF In, Idle
  <2>2. ~(Interrupt \/ Resume \/ Rerun \/ Undo)
    BY <2>1 DEF Interrupt, Resume, Rerun, Enter, Undo, Stop, Idle
  <2>3. ASSUME NEW step, step # "complete" PROVE ~To(step)
    BY <1>1, <2>1, <2>3 DEF To, CutTypes
  <2>4. CASE Finalize
    <3>1. /\ hub' = [hub EXCEPT !.late = {}] /\ ~hub.maintenance /\ StillOnlyMain
      BY <1>1, <2>1, <2>3, <2>4 DEF Finalize, Concludes, Refuses, Stop, CutTypes
    <3> QED BY <1>1, <3>1 DEF CHub, StillOnlyMain, OnlyMain
  <2>5. CASE Prepare \/ Archive \/ Publish \/ Qualify \/ Merge \/ VerifyMerged \/ Rename
    <3>1. at.phase \in FirstPhases
      BY <2>5 DEF Prepare, Archive, Publish, Qualify, Merge, VerifyMerged, Rename, In, Concludes, Refuses, FirstPhases
    <3>2. \/ UNCHANGED at \/ Stop \/ \E step : To(step)
      BY <2>5 DEF Prepare, Archive, Publish, Qualify, Merge, VerifyMerged, Rename, Concludes, Refuses
    <3>3. at'.phase \in {at.phase, "none"}
      BY <1>1, <3>2 DEF CutTypes, To, Stop, Idle
    <3> QED BY <2>1, <3>1, <3>3 DEF FirstPhases
  <2>6. CASE Resolve
    <3>1. at.phase = "resolve"
      BY <2>6 DEF Resolve, In, Refuses
    <3>2. ASSUME NEW q, Resolved(q) PROVE at'.phase \in {at.phase, "none"}
      BY <1>1, <3>2 DEF CutTypes, Resolved, Idle
    <3>3. ASSUME NEW q, NEW seen, NEW step, at' = [at EXCEPT !.ref = q, !.seen = seen, !.step = step]
          PROVE  at'.phase = at.phase
      BY <1>1, <3>3 DEF CutTypes
    <3>4. ASSUME NEW todo, at' = [at EXCEPT !.step = "look", !.todo = todo] PROVE at'.phase = at.phase
      BY <1>1, <3>4 DEF CutTypes
    <3>5. CASE In("resolve", "look")
      <4>1. PICK q \in at.todo :
              \/ Stop \/ Resolved(q)
              \/ at' = [at EXCEPT !.ref = q, !.seen = hub.prs[q].state = "open",
                                  !.step = IF Uncommented(q) THEN "comment" ELSE "advanced"]
        BY <2>1, <2>6, <3>5 DEF Resolve, Refuses, In
      <4>2. PICK seen, step : seen = (hub.prs[q].state = "open")
                              /\ step = IF Uncommented(q) THEN "comment" ELSE "advanced"
        OBVIOUS
      <4>3. Stop \/ Resolved(q) \/ at' = [at EXCEPT !.ref = q, !.seen = seen, !.step = step]
        BY <4>1, <4>2
      <4>4. at'.phase \in {at.phase, "none"}
        <5>1. at' = [at EXCEPT !.ref = q, !.seen = seen, !.step = step] => at'.phase = at.phase
          BY <3>3
        <5>2. Resolved(q) => at'.phase \in {at.phase, "none"}
          BY <3>2
        <5>3. Stop => at'.phase = "none"
          BY DEF Stop, Idle
        <5> QED BY <4>3, <5>1, <5>2, <5>3
      <4> QED BY <2>1, <3>1, <4>4
    <3>6. CASE at.step # "look"
      <4>1. \/ Stop \/ (\E step : To(step)) \/ Resolved(at.ref)
            \/ \E todo : at' = [at EXCEPT !.step = "look", !.todo = todo]
        BY <2>6, <3>6 DEF Resolve, Refuses, In
      <4>2. ASSUME NEW step, To(step) PROVE at'.phase = at.phase
        BY <1>1, <4>2 DEF CutTypes, To
      <4> QED BY <2>1, <3>1, <3>2, <3>4, <4>1, <4>2 DEF Stop, Idle
    <3> QED BY <2>6, <3>5, <3>6 DEF Resolve, Refuses, In
  <2>7. CASE Prune
    <3>1. at.phase = "prune"
      BY <2>7 DEF Prune, In, Refuses
    <3>2. ASSUME NEW r, Deleted(r) PROVE at'.phase \in {at.phase, "none"}
      BY <1>1, <3>2 DEF CutTypes, Deleted, Idle
    <3>3. ASSUME NEW r, NEW step, at' = [at EXCEPT !.ref = r, !.step = step] PROVE at'.phase = at.phase
      BY <1>1, <3>3 DEF CutTypes
    <3>4. ASSUME NEW todo, at' = [at EXCEPT !.step = "look", !.todo = todo] PROVE at'.phase = at.phase
      BY <1>1, <3>4 DEF CutTypes
    <3>5. CASE In("prune", "look")
      <4>1. Stop \/ \E r, step : at' = [at EXCEPT !.ref = r, !.step = step]
        BY <2>7, <3>5 DEF Prune, Refuses, In
      <4> QED BY <2>1, <3>1, <3>3, <4>1 DEF Stop, Idle
    <3>6. CASE at.step # "look"
      <4>1. \/ Stop \/ (\E step : To(step)) \/ Deleted(at.ref)
            \/ \E todo : at' = [at EXCEPT !.step = "look", !.todo = todo]
        BY <2>7, <3>6 DEF Prune, Refuses, In
      <4>2. ASSUME NEW step, To(step) PROVE at'.phase = at.phase
        BY <1>1, <4>2 DEF CutTypes, To
      <4> QED BY <2>1, <3>1, <3>2, <3>4, <4>1, <4>2 DEF Stop, Idle
    <3> QED BY <2>7, <3>5, <3>6 DEF Prune, Refuses, In
  <2> QED BY <1>5, <2>2, <2>4, <2>5, <2>6, <2>7 DEF Step
<1> QED BY <1>2, <1>3, <1>4, <1>5 DEF Next, Checked

\* However the phases are interrupted, repeated and raced by other people, what the
\* journal says of a branch or a request is so.
THEOREM CutoverInvariance == ReleaseSpec => []CutInv
<1>1. ReleaseInit => CutInv
  BY CutInit
<1>2. CutInv /\ [ReleaseNext]_<<vars, sourceVars, tool>> => CutInv'
  BY CutRelease
<1> QED BY <1>1, <1>2, PTL DEF ReleaseSpec

\* A branch is gone only by a recorded intent and with its commit in the archives; a
\* deletion recorded as done has raced no pull request; and every request has one
\* comment at most, one if it is recorded as closed (cutover.py: delete_branch,
\* restore_if_dependent, resolve), for any branches, requests and bounds.
THEOREM EffectsAreAccounted == ReleaseSpec => []EffectsAccounted
<1>1. CutInv => EffectsAccounted
  <2> SUFFICES ASSUME CutInv PROVE EffectsAccounted
    OBVIOUS
  <2>1. CutTypes /\ hub \in CHub
    BY DEF CutInv, CutTypes
  <2>2. TypeOK
    BY <2>1 DEF TypeOK, CutTypes, CHub
  <2>3. ASSUME NEW r \in Targets, hub.heads[r] = "none"
        PROVE  /\ r \in Topics => r \in log.deleting /\ hub.tags
               /\ r \in log.deleted => ~(hub.foreign.on = r /\ hub.foreign.as = "base")
    <3>1. CASE r \in Topics
      BY <2>3, <3>1 DEF CutInv, Branch, Raced
    <3>2. CASE r \notin Topics
      <4>1. hub.foreign.on \in Topics \cup {"none"} /\ r = "integration"
        BY <2>1, <3>2 DEF CHub, Targets
      <4> QED BY <3>2, <4>1
    <3> QED BY <3>1, <3>2
  <2>4. \A q \in Requests : Asked(q)
    BY DEF CutInv
  <2> QED BY <2>2, <2>3, <2>4 DEF EffectsAccounted, Asked
<1> QED BY <1>1, CutoverInvariance, PTL

\* At the start, and through every step of the release.
THEOREM CutoverChecked == ReleaseSpec => []Checked
<1>1. ReleaseInit => Checked
  BY DEF ReleaseInit, Init, Checked, In, Idle
<1>2. CutInv /\ Checked /\ [ReleaseNext]_<<vars, sourceVars, tool>> => Checked'
  <2> SUFFICES ASSUME CutInv, Checked, [ReleaseNext]_<<vars, sourceVars, tool>> PROVE Checked'
    OBVIOUS
  <2>1. CASE UNCHANGED vars
    BY <2>1 DEF vars, Checked, In
  <2> QED BY <2>1, CheckedStep DEF ReleaseNext
<1> QED BY <1>1, <1>2, CutoverInvariance, PTL DEF ReleaseSpec

\* When the receipt becomes complete the repository has the qualified main, the archives,
\* the lasting rules and the operator's settings, no lock, and no other branch but what
\* others pushed after the last look (cutover.py: finalize), for any branches, requests
\* and bounds.
THEOREM ReceiptIsClean == ReleaseSpec => CompleteIsClean
<1>1. CutInv /\ Checked /\ [ReleaseNext]_<<vars, sourceVars, tool>> =>
        [Recorded("complete")' /\ ~Recorded("complete") =>
           /\ \A r \in Refs \ hub'.late : hub'.heads[r] = IF r = "main" THEN "merged" ELSE "none"
           /\ hub'.default = "main"
           /\ hub'.tags /\ hub'.archives /\ hub'.quality = "final"
           /\ ~hub'.maintenance /\ hub'.autoDelete = AutoDelete]_vars
  BY CutRelease DEF Truthful, Recorded, Checked
<1> QED BY <1>1, CutoverInvariance, CutoverChecked, PTL DEF ReleaseSpec, CompleteIsClean
=============================================================================
