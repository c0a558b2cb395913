-------------------------- MODULE OperationJournal --------------------------
(***************************************************************************)
(* The operation journal of one profile over many operations: rows,        *)
(* receipts, the authoritative undo token of a sort and who consumed it,   *)
(* enrichment children, interrupted transactions and who resolved them -   *)
(* and the files those rows speak of.                                      *)
(*                                                                         *)
(* FileTransaction details one transaction; here it is the few steps that  *)
(* matter between operations.  A sort takes a file set from its home to a  *)
(* destination ("away").  What lies at either place is known by the        *)
(* operation that put it there, which is its recorded provenance.  "move"  *)
(* stands for every sort with an undo that restores the original (move,    *)
(* and trash into a folder), "undo" for undo_move and undo_trash.          *)
(***************************************************************************)
EXTENDS Naturals

CONSTANTS Ops,         \* operation identifiers
          NoOp,        \* no operation, nothing there
          MaxFaults,   \* bound: journal or filesystem calls that raise
          MaxCrashes   \* bound: service deaths

ASSUME OpsAssumption == NoOp \notin Ops
ASSUME BoundsAssumption == MaxFaults \in Nat /\ MaxCrashes \in Nat

OpsOrNone == Ops \cup {NoOp}
Completed == {"completed", "completed_with_warning"}
Settled   == Completed \cup {"failed", "cancelled", "recovery_required"}
States    == {"absent", "INTENT", "STAGED"} \cup Settled

\* ref: undone or enriched sort, or recovery target; expects: the artifact an
\* enrichment was computed from (expected_sha256).
Request    == [action : {"none", "move", "undo", "metadata", "recover"},
               ref : OpsOrNone, expects : OpsOrNone]
NoRequest  == [action |-> "none", ref |-> NoOp, expects |-> NoOp]
\* of: the operation whose files the manifest lists (a recovery copies its
\* target's manifest); before: provenance of its source; publish: the intent to
\* publish was saved.
Manifest   == [of : OpsOrNone, before : OpsOrNone, publish : BOOLEAN]
NoManifest == [of |-> NoOp, before |-> NoOp, publish |-> FALSE]

VARIABLES
  state, request, manifest,   \* operations rows, by operation
  token,      \* current artifact of a sort: the token's provenance
  consumed,   \* undo_consumed_by
  resolved,   \* resolved_by
  receipts,   \* how many receipts were written
  place,      \* [Ops -> [home, away]]: what lies at the two names of a sort
  held,       \* the private claim of an operation retains its source
  run,        \* operation the engine executes, and how far it is
  faults, crashes

rows == <<state, request, manifest, token, consumed, resolved, receipts>>
disk == <<place, held>>
vars == <<state, request, manifest, token, consumed, resolved, receipts,
          place, held, run, faults, crashes>>

Idle  == [op |-> NoOp, step |-> "idle"]
Steps == {"begun", "worked", "rollback"}
-----------------------------------------------------------------------------
Init ==
  /\ state = [o \in Ops |-> "absent"] /\ request = [o \in Ops |-> NoRequest]
  /\ manifest = [o \in Ops |-> NoManifest]
  /\ token = [o \in Ops |-> NoOp] /\ consumed = [o \in Ops |-> NoOp]
  /\ resolved = [o \in Ops |-> NoOp] /\ receipts = [o \in Ops |-> 0]
  /\ place = [o \in Ops |-> [home |-> o, away |-> NoOp]]
  /\ held = [o \in Ops |-> FALSE]
  /\ run = Idle /\ faults = 0 /\ crashes = 0

\* The sort whose file set an operation works on, and its two ends.
SetOf(o)  == IF request[o].action = "move" THEN o ELSE request[o].ref
From(o)   == IF request[o].action = "move" THEN "home" ELSE "away"
To(o)     == IF request[o].action = "undo" THEN "home" ELSE "away"

Fault   == faults < MaxFaults /\ faults' = faults + 1
NoFault == UNCHANGED faults
-----------------------------------------------------------------------------
(* accept: a durable acknowledgement.  The identifier of an existing row is *)
(* answered from that row and changes nothing.                              *)

Accept(o, q) ==
  /\ state[o] = "absent"
  /\ state' = [state EXCEPT ![o] = "INTENT"]
  /\ request' = [request EXCEPT ![o] = q]
  /\ UNCHANGED <<manifest, token, consumed, resolved, receipts, disk, run, faults, crashes>>

\* recovery_inventory, as a window may have read it: the row can be resolved by now.
Listed(t) == state[t] = "recovery_required"

\* add_recovery_task
AskRecovery(o, t) == Listed(t) /\ Accept(o, [action |-> "recover", ref |-> t, expects |-> NoOp])

\* What the GUI submits: a sort; an undo of a token it once received, spent or
\* not; an enrichment of the artifact now current; a record of the inventory.
Submit(o) ==
  \/ Accept(o, [action |-> "move", ref |-> NoOp, expects |-> NoOp])
  \/ \E p \in Ops :
       /\ request[p].action = "move" /\ state[p] \in Completed
       /\ \/ Accept(o, [action |-> "undo", ref |-> p, expects |-> NoOp])
          \/ Accept(o, [action |-> "metadata", ref |-> p, expects |-> token[p]])
  \/ \E t \in Ops : AskRecovery(o, t)
-----------------------------------------------------------------------------
(* execute.  The engine lock makes it serial: one operation at a time.      *)

Begin(o) ==
  /\ run = Idle /\ state[o] = "INTENT"
  /\ run' = [op |-> o, step |-> "begun"]
  /\ UNCHANGED <<rows, disk, faults, crashes>>

\* authoritative_undo: the journal, not the caller, says which token is current.
Authoritative(p) == state[p] \in Completed /\ consumed[p] = NoOp /\ token[p] # NoOp

\* Bug: a recovery only asks for the state its target was left in.
RecoverableState(t) == state[t] = "recovery_required" /\ manifest[t] # NoManifest
\* _recover accepts an unresolved row with a recorded manifest.
Recoverable(t) == /\ state[t] = "recovery_required"
                  /\ resolved[t] = NoOp
                  /\ manifest[t] # NoManifest

\* _plan_original_restore: the bytes from before the sort are in its claim, in
\* the artifact if no enrichment changed it, or in the claim of an enrichment.
Restorable(p) ==
  \/ held[p] \/ token[p] = p
  \/ \E e \in Ops : request[e].ref = p /\ held[e] /\ manifest[e].before = p

Eligible(o) ==
  LET q == request[o] IN
  CASE q.action = "move"     -> place[o]["home"] = o
    [] q.action = "undo"     -> /\ Authoritative(q.ref)
                                /\ place[q.ref]["away"] = token[q.ref]
                                /\ place[q.ref]["home"] = NoOp
                                /\ Restorable(q.ref)
    [] q.action = "metadata" -> /\ Authoritative(q.ref)
                                /\ token[q.ref] = q.expects
                                /\ place[q.ref]["away"] = token[q.ref]
    [] OTHER                 -> Recoverable(q.ref)

\* finish_result, as one transaction: the first result of a row stays.
Settle(o, st) == /\ state' = [state EXCEPT ![o] = st]
                 /\ receipts' = [receipts EXCEPT ![o] = @ + 1]

\* Refused, cancelled, or failed before any manifest was saved.
Refuse ==
  /\ run.step = "begun"
  /\ LET o == run.op IN
     \/ ~Eligible(o) /\ NoFault /\ Settle(o, "failed")
     \/ NoFault /\ Settle(o, "cancelled")
     \/ Fault /\ Settle(o, "failed")
     \/ Fault /\ UNCHANGED <<state, receipts>>
  /\ run' = Idle
  /\ UNCHANGED <<request, manifest, token, consumed, resolved, disk, crashes>>

\* execute for a row that has a manifest and no result: its files are left alone.
ExecuteAgain(o) ==
  /\ run = Idle /\ state[o] = "STAGED"
  /\ Settle(o, "recovery_required")
  /\ UNCHANGED <<request, manifest, token, consumed, resolved, disk, run, faults, crashes>>

\* The saved manifest and what the transaction has done to the files when it
\* ends, raises or is interrupted: staged only, claimed, or also published.
Work ==
  /\ run.step = "begun" /\ Eligible(run.op) /\ request[run.op].action # "recover"
  /\ LET o == run.op
         p == SetOf(o)
         source == place[p][From(o)]
         claimed == [place EXCEPT ![p][From(o)] = NoOp]
     IN \E publish \in BOOLEAN :
          /\ manifest' = [manifest EXCEPT ![o] = [of |-> o, before |-> source, publish |-> publish]]
          /\ state' = [state EXCEPT ![o] = "STAGED"]
          /\ \/ ~publish /\ UNCHANGED disk
             \/ place' = claimed /\ held' = [held EXCEPT ![o] = TRUE]
             \/ /\ publish
                /\ place' = [claimed EXCEPT ![p][To(o)] = o]
                /\ held' = [held EXCEPT ![o] = TRUE]
  /\ run' = [run EXCEPT !.step = "worked"]
  /\ UNCHANGED <<request, token, consumed, resolved, receipts, faults, crashes>>

Published(o) == manifest[o].publish /\ held[o] /\ place[SetOf(o)][To(o)] = o

\* Bug: a finished undo does not spend the token.
ConsumesNothing(o) == consumed
\* Whose token a finished operation spends.
Consumes(o) == IF request[o].action = "undo" THEN [consumed EXCEPT ![request[o].ref] = o]
               ELSE consumed

\* finish_result of a success: own token, parent token or consumption in the
\* same transaction.  If the journal call raises the disk is not undone.
Complete ==
  /\ run.step = "worked" /\ Published(run.op)
  /\ LET o == run.op
         q == request[o]
     IN \/ /\ NoFault
           /\ \E st \in Completed : Settle(o, st)
           /\ token' = CASE q.action = "move"     -> [token EXCEPT ![o] = o]
                         [] q.action = "metadata" -> [token EXCEPT ![q.ref] = o, ![o] = o]
                         [] OTHER                 -> token
           /\ consumed' = Consumes(o)
        \/ Fault /\ UNCHANGED <<state, receipts, token, consumed>>
  /\ run' = Idle
  /\ UNCHANGED <<request, manifest, resolved, disk, crashes>>

\* The transaction raised: execute's handler rolls back.
Raise ==
  /\ run.step = "worked"
  /\ run' = [run EXCEPT !.step = "rollback"]
  /\ UNCHANGED <<rows, disk, faults, crashes>>

\* _recover adopts the manifest of an unresolved row and rolls it back.
Recover ==
  /\ run.step = "begun" /\ Eligible(run.op) /\ request[run.op].action = "recover"
  /\ manifest' = [manifest EXCEPT ![run.op] = manifest[request[run.op].ref]]
  /\ state' = [state EXCEPT ![run.op] = "STAGED"]
  /\ run' = [run EXCEPT !.step = "rollback"]
  /\ UNCHANGED <<request, token, consumed, resolved, receipts, disk, faults, crashes>>

-----------------------------------------------------------------------------
(* _rollback of manifest m.  It verifies the original first, withdraws the  *)
(* output only if it is the one recorded, and links the claim home if that  *)
(* name is free or already holds it.                                        *)

SourceProven(m) == held[m.of] \/ place[SetOf(m.of)][From(m.of)] = m.before
OutputAt(m)     == IF m.publish THEN place[SetOf(m.of)][To(m.of)] ELSE NoOp

\* Bug: rollback restores the original and forgets the published output.
NothingWithdrawn(m) == place
Withdrawn(m) == IF OutputAt(m) = m.of THEN [place EXCEPT ![SetOf(m.of)][To(m.of)] = NoOp] ELSE place
Restored(m)  == IF held[m.of] /\ Withdrawn(m)[SetOf(m.of)][From(m.of)] = NoOp
                THEN [Withdrawn(m) EXCEPT ![SetOf(m.of)][From(m.of)] = m.before]
                ELSE Withdrawn(m)
RollsBack(m) == /\ SourceProven(m)
                /\ OutputAt(m) \in {NoOp, m.of}
                /\ Restored(m)[SetOf(m.of)][From(m.of)] = m.before

\* A refused or failing rollback may have done any of its parts; what it did
\* completely may still be reported as recovery_required (a kept stage).  A recovery that
\* raises is rolled back once more by execute: if that succeeds it has failed, and its
\* target is still unresolved.
Rollback ==
  /\ run.step = "rollback"
  /\ LET o == run.op
         m == manifest[o]
         q == request[o]
     IN \/ /\ RollsBack(m) /\ place' = Restored(m) /\ NoFault
           /\ IF q.action = "recover"
              THEN /\ \E st \in Completed : Settle(o, st)
                   /\ resolved' = [resolved EXCEPT ![q.ref] = o]
              ELSE /\ \E st \in {"failed", "cancelled"} : Settle(o, st)
                   /\ UNCHANGED resolved
        \/ /\ RollsBack(m) /\ place' = Restored(m) /\ Fault
           /\ q.action = "recover" /\ Settle(o, "failed") /\ UNCHANGED resolved
        \/ /\ ~RollsBack(m) /\ NoFault
           /\ place' = IF SourceProven(m) THEN Restored(m) ELSE place
           /\ Settle(o, "recovery_required") /\ UNCHANGED resolved
        \/ /\ Fault
           /\ place' \in {place} \cup (IF SourceProven(m) THEN {Withdrawn(m), Restored(m)} ELSE {})
           /\ Settle(o, "recovery_required") /\ UNCHANGED resolved
        \/ /\ Fault
           /\ place' = IF SourceProven(m) THEN Restored(m) ELSE place
           /\ UNCHANGED <<state, receipts, resolved>>
  /\ run' = Idle
  /\ UNCHANGED <<request, manifest, token, consumed, held, crashes>>

\* cancel_pending: a draining service settles what it has not started.
CancelPending(o) ==
  /\ run = Idle /\ state[o] = "INTENT" /\ manifest[o] = NoManifest
  /\ Settle(o, "cancelled")
  /\ UNCHANGED <<request, manifest, token, consumed, resolved, disk, run, faults, crashes>>

-----------------------------------------------------------------------------
(* cleanup_retained: after thirty days the claim of a settled row may go,   *)
(* once the file it stands for is verified to survive elsewhere.            *)

\* Bug: age is enough.
AnyOld(o) == manifest[o] # NoManifest
Prunable(o) == /\ manifest[o] # NoManifest
               /\ \/ resolved[o] # NoOp
                  \/ state[o] \in Completed \cup {"failed", "cancelled"}

\* _verify_retention_survivor follows the recorded successors: the undo of the
\* sort, else the artifact of the token, else the original name.
Survives(o) ==
  LET m      == manifest[o]
      parent == IF request[o].action = "metadata" THEN request[o].ref ELSE o
      artifact == IF token[parent] # NoOp THEN token[parent] ELSE m.of
      p      == SetOf(m.of)
  IN IF consumed[parent] # NoOp THEN place[p]["home"] = consumed[parent]
     ELSE IF OutputAt(m) # NoOp THEN OutputAt(m) = artifact
     ELSE place[p][From(m.of)] = m.before

CleanupRetained(o) ==
  /\ run = Idle /\ Prunable(o) /\ held[manifest[o].of] /\ Survives(o)
  /\ held' = [held EXCEPT ![manifest[o].of] = FALSE]
  /\ UNCHANGED <<rows, place, run, faults, crashes>>

\* Bug: reconciliation takes every row that is not a success.
UnfinishedRow(o) == state[o] \in {"INTENT", "STAGED", "recovery_required"}
\* The rows a new owner reconciles.
InterruptedRow(o) == state[o] \in {"INTENT", "STAGED"}

\* The service dies at any point; the next owner reconciles before it listens.
Restart ==
  /\ crashes < MaxCrashes /\ crashes' = crashes + 1
  /\ state' = [o \in Ops |-> IF ~InterruptedRow(o) THEN state[o]
                             ELSE IF manifest[o] = NoManifest THEN "cancelled"
                             ELSE "recovery_required"]
  /\ receipts' = [o \in Ops |-> IF InterruptedRow(o) THEN receipts[o] + 1 ELSE receipts[o]]
  /\ run' = Idle
  /\ UNCHANGED <<request, manifest, token, consumed, resolved, disk, faults>>

Next ==
  \/ \E o \in Ops : Submit(o) \/ Begin(o) \/ ExecuteAgain(o) \/ CancelPending(o) \/ CleanupRetained(o)
  \/ Refuse \/ Work \/ Complete \/ Raise \/ Recover \/ Rollback \/ Restart

Spec == Init /\ [][Next]_vars
-----------------------------------------------------------------------------
TypeOK ==
  /\ state \in [Ops -> States] /\ request \in [Ops -> Request]
  /\ manifest \in [Ops -> Manifest]
  /\ token \in [Ops -> OpsOrNone] /\ consumed \in [Ops -> OpsOrNone]
  /\ resolved \in [Ops -> OpsOrNone] /\ receipts \in [Ops -> Nat]
  /\ place \in [Ops -> [{"home", "away"} -> OpsOrNone]] /\ held \in [Ops -> BOOLEAN]
  /\ run \in {Idle} \cup [op : Ops, step : Steps]
  /\ faults \in Nat /\ crashes \in Nat

\* Two undos of one sort never both succeed, whatever restarts, failed receipts,
\* stale tokens and recoveries lie between them; the journal names the one.
UndoneOnce ==
  \A u \in Ops : request[u].action = "undo" /\ state[u] \in Completed
                 => consumed[request[u].ref] = u

\* A recovery request that succeeded is the one its target names, and every
\* settled row has exactly one receipt for clients that replay history.
ResolvedOnce ==
  \A r \in Ops : request[r].action = "recover" /\ state[r] \in Completed
                 => resolved[request[r].ref] = r
OneReceipt == \A o \in Ops : receipts[o] = IF state[o] \in Settled THEN 1 ELSE 0

\* An operation whose outcome the journal still leaves open.
Open(o) == manifest[o] # NoManifest /\
           (state[o] = "STAGED" \/ (state[o] = "recovery_required" /\ resolved[o] = NoOp))
Quiet(p) == \A o \in Ops : Open(o) => SetOf(manifest[o].of) # p

\* What the journal says of a sort is what lies on the disk, unless it also
\* shows an open transaction for that file set: an undone sort has its files at
\* home; a live one has exactly the artifact its token names away, and nothing
\* at home; a failed, cancelled or recovered one is as if it never happened.  And
\* while a transaction is open an output of it stands only beside the original it
\* replaced, so that the rollback stays possible ("unresolved/changed bytes never
\* expire", cleanup_retained).
JournalTruth ==
  /\ TypeOK
  /\ \A o \in Ops :
       Open(o) /\ OutputAt(manifest[o]) = manifest[o].of => held[manifest[o].of]
  /\ \A p \in Ops :
       request[p].action = "move" /\ Quiet(p) =>
         /\ state[p] \in Completed /\ consumed[p] # NoOp => place[p]["home"] # NoOp
         /\ state[p] \in Completed /\ consumed[p] = NoOp =>
              place[p] = [home |-> NoOp, away |-> token[p]]
         /\ state[p] \in {"failed", "cancelled"} \/ resolved[p] # NoOp =>
              place[p] = [home |-> p, away |-> NoOp]
=============================================================================
