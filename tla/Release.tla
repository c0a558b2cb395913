------------------------------ MODULE Release ------------------------------
(***************************************************************************)
(* The two tools that change the repository on GitHub, one next to the     *)
(* other: the operator takes the cutover (Cutover) or, for the source      *)
(* alone, the narrower route (SourceIntegration), and never both           *)
(* (docs/engineering/source-integration.md).                               *)
(***************************************************************************)
EXTENDS MCCutover

CONSTANTS OldRequests,   \* PRs of the repository the source is integrated in
          MaxTroubles    \* bound of the source integration

VARIABLES
  tool,                  \* which one the operator uses
  sourceHub, sourceLog, sourceAt, sourcePlan, sourceStops, sourceMeddles, sourceReruns

sourceVars == <<sourceHub, sourceLog, sourceAt, sourcePlan,
                sourceStops, sourceMeddles, sourceReruns>>

Source == INSTANCE SourceIntegration WITH
  Requests <- OldRequests, hub <- sourceHub, log <- sourceLog, at <- sourceAt,
  plan <- sourcePlan, stops <- sourceStops, meddles <- sourceMeddles, reruns <- sourceReruns

ReleaseInit ==
  /\ tool \in {"cutover", "source"}
  /\ Init /\ Source!Init

ReleaseNext ==
  /\ tool' = tool
  /\ \/ tool = "cutover" /\ Next /\ UNCHANGED sourceVars
     \/ tool = "source" /\ Source!Next /\ UNCHANGED vars

\* The operator goes on until the receipt is complete, with a continuation where the
\* tests failed; GitHub renames, and tests, eventually.
ReleaseSpec ==
  /\ ReleaseInit /\ [][ReleaseNext]_<<vars, sourceVars, tool>>
  /\ WF_vars(tool = "cutover" /\ Step)
  /\ WF_vars(tool = "cutover" /\ Resume)
  /\ WF_vars(tool = "cutover" /\ RenameSettles)
  /\ \A r \in Source!Runs : WF_sourceVars(tool = "source" /\ Source!Step(r))
  /\ WF_sourceVars(tool = "source" /\ Source!Resume)
  /\ WF_sourceVars(tool = "source" /\ Source!Repair)
  /\ WF_sourceVars(tool = "source" /\ Source!Tests)
-----------------------------------------------------------------------------
\* Safety: main is the merge of a candidate only if that one was qualified and
\* archived, with two plans and two controllers for one branch and one PR (SourceIntegration).
QualifiedMain == Source!QualifiedMain

\* Safety: a complete receipt of the source integration describes the repository,
\* unless somebody meddled or a rollback is announced (SourceIntegration).
SourceReceipt == Source!SourceReceipt

\* Liveness: the operator who resumes after every interruption ends with a complete
\* receipt.  It is promised while nobody meddles; of the cutover unless publish was
\* interrupted before its push, of the source integration unless phases are run out
\* of their turn.
ReleaseFinishes ==
  <>(IF tool = "cutover"
     THEN Recorded("complete") \/ meddles > 0 \/ PublishLost
     ELSE Source!Complete(1) \/ Source!Complete(2) \/ sourceMeddles > 0 \/ sourceReruns > 0)
=============================================================================
