----------------------- MODULE OperationJournalProofs -----------------------
(***************************************************************************)
(* What the journal promises for every set of operations, every number of  *)
(* failing journal calls and every number of service deaths.               *)
(*                                                                         *)
(* The invariants are not inductive alone.  Two facts about the operation  *)
(* the engine is executing carry them: its row is still open, so only one  *)
(* receipt can follow; and the token it is about to spend, or the row it   *)
(* is about to resolve, has been found unspent or unresolved and stays so, *)
(* because the engine lock lets no other operation in between.             *)
(*                                                                         *)
(* That the journal tells the truth about the disk needs JInv.  A sort is  *)
(* untouched, undone, or live; a live one holds the artifact its token     *)
(* names, unless an open transaction took that away, whose manifest        *)
(* records it as the thing a rollback puts back.  So what a row still      *)
(* open may yet do can only return the file set to what the journal says.  *)
(***************************************************************************)
EXTENDS OperationJournal, TLAPS

\* A row carries its request, and a request that refers to an operation names one.
RequestsRecorded ==
  \A o \in Ops :
    /\ state[o] # "absent" => request[o].action # "none"
    /\ request[o].action \in {"undo", "metadata", "recover"} => request[o].ref \in Ops

\* The row of the executing operation, and what it was found entitled to.
RunCoherent ==
  LET o == run.op
      q == request[run.op]
  IN /\ run.step = "begun" => state[o] = "INTENT"
     /\ run.step \in {"worked", "rollback"} => state[o] = "STAGED"
     /\ run.step = "worked" => q.action # "recover"
     /\ run.step = "worked" /\ q.action = "undo" => consumed[q.ref] = NoOp
     /\ run.step = "rollback" /\ q.action = "recover" => resolved[q.ref] = NoOp

\* The strengthening that makes the three histories inductive.
IInv == /\ TypeOK /\ RequestsRecorded /\ RunCoherent
        /\ OneReceipt /\ UndoneOnce /\ ResolvedOnce
-----------------------------------------------------------------------------
\* Outside Idle a run is of a recorded operation.
LEMMA RunningOp ==
  ASSUME run \in {Idle} \cup [op : Ops, step : Steps], run.step # "idle"
  PROVE  run.op \in Ops /\ run.step \in Steps /\ run = [op |-> run.op, step |-> run.step]
BY DEF Idle, Steps

\* The sort an accepted operation works on is a recorded operation.
LEMMA SetOfType ==
  ASSUME TypeOK, RequestsRecorded, NEW o \in Ops, state[o] # "absent"
  PROVE  SetOf(o) \in Ops
BY DEF TypeOK, RequestsRecorded, SetOf, Request

\* The empty journal satisfies the strengthening.
LEMMA InitInv == Init => IInv
BY OpsAssumption DEF Init, IInv, TypeOK, RequestsRecorded, RunCoherent, OneReceipt, UndoneOnce,
   ResolvedOnce, OpsOrNone, States, Settled, Completed, Request, NoRequest, Manifest, NoManifest,
   Idle, Steps

\* Accepting a request touches only its own row, which was absent.
LEMMA AcceptInv ==
  ASSUME IInv, NEW o \in Ops, NEW q \in Request, Accept(o, q),
         q.action # "none", q.action \in {"undo", "metadata", "recover"} => q.ref \in Ops
  PROVE  IInv'
<1>1. TypeOK'
  BY DEF IInv, TypeOK, Accept, States, disk
<1>2. RequestsRecorded'
  BY DEF IInv, TypeOK, RequestsRecorded, Accept
<1>3. RunCoherent'
  BY DEF IInv, TypeOK, RunCoherent, Accept, Idle, Steps
<1>4. OneReceipt'
  BY DEF IInv, TypeOK, OneReceipt, Accept, Settled, Completed
<1>5. UndoneOnce'
  BY DEF IInv, TypeOK, UndoneOnce, Accept, Completed
<1>6. ResolvedOnce'
  BY DEF IInv, TypeOK, ResolvedOnce, Accept, Completed
<1> QED BY <1>1, <1>2, <1>3, <1>4, <1>5, <1>6 DEF IInv

\* Beginning an operation leaves the journal alone.
LEMMA BeginInv ==
  ASSUME IInv, NEW o \in Ops, Begin(o)
  PROVE  IInv'
<1>1. TypeOK'
  BY DEF IInv, TypeOK, Begin, rows, disk, Steps
<1>2. RunCoherent'
  BY DEF IInv, RunCoherent, Begin, rows
<1>3. RequestsRecorded' /\ OneReceipt' /\ UndoneOnce' /\ ResolvedOnce'
  BY DEF IInv, RequestsRecorded, OneReceipt, UndoneOnce, ResolvedOnce, Begin, rows
<1> QED BY <1>1, <1>2, <1>3 DEF IInv

\* Settling an open row writes its only receipt, and adds no completed undo or
\* recovery unless the state it settles in says so.
LEMMA SettleHistory ==
  ASSUME IInv, NEW o \in Ops, NEW st \in Settled, Settle(o, st),
         state[o] \in {"INTENT", "STAGED"},
         request' = request, consumed' = consumed, resolved' = resolved,
         st \in Completed => request[o].action \notin {"undo", "recover"}
  PROVE  /\ state' \in [Ops -> States] /\ receipts' \in [Ops -> Nat]
         /\ RequestsRecorded' /\ OneReceipt' /\ UndoneOnce' /\ ResolvedOnce'
<1>1. state' \in [Ops -> States] /\ receipts' \in [Ops -> Nat]
  BY DEF IInv, TypeOK, Settle, States, Settled
<1>2. RequestsRecorded'
  BY DEF IInv, TypeOK, RequestsRecorded, Settle
<1>3. OneReceipt'
  BY DEF IInv, TypeOK, OneReceipt, Settle, Settled, Completed
<1>4. UndoneOnce'
  BY DEF IInv, TypeOK, UndoneOnce, Settle, Settled, Completed
<1>5. ResolvedOnce'
  BY DEF IInv, TypeOK, ResolvedOnce, Settle, Settled, Completed
<1> QED BY <1>1, <1>2, <1>3, <1>4, <1>5

\* A step that ends the run, with its row settled or left open by a failing
\* journal call, preserves the invariant.
LEMMA RunEnds ==
  ASSUME IInv, run' = Idle, RequestsRecorded', OneReceipt', UndoneOnce', ResolvedOnce', TypeOK'
  PROVE  IInv'
BY DEF IInv, RunCoherent, Idle

\* A refused, cancelled or early failing operation ends without a token or a
\* resolution to its name.
LEMMA RefuseInv ==
  ASSUME IInv, Refuse
  PROVE  IInv'
<1>1. run.op \in Ops
  BY RunningOp DEF IInv, TypeOK, Refuse
<1>2. state[run.op] = "INTENT"
  BY DEF IInv, RunCoherent, Refuse
<1>3. UNCHANGED <<request, manifest, token, consumed, resolved, place, held, crashes>> /\ run' = Idle
  BY DEF Refuse, disk
<1>4. faults' \in Nat
  BY DEF IInv, TypeOK, Refuse, Fault, NoFault
<1>5. CASE \E st \in {"failed", "cancelled"} : Settle(run.op, st)
  <2>1. PICK st \in {"failed", "cancelled"} : Settle(run.op, st)
    BY <1>5
  <2>2. st \in Settled /\ st \notin Completed
    BY DEF Settled, Completed
  <2>3. /\ state' \in [Ops -> States] /\ receipts' \in [Ops -> Nat]
        /\ RequestsRecorded' /\ OneReceipt' /\ UndoneOnce' /\ ResolvedOnce'
    BY <1>1, <1>2, <1>3, <2>1, <2>2, SettleHistory
  <2>4. TypeOK'
    BY <1>3, <1>4, <2>3 DEF IInv, TypeOK
  <2> QED BY <1>3, <2>3, <2>4, RunEnds
<1>6. CASE UNCHANGED <<state, receipts>>
  <2>1. TypeOK'
    BY <1>3, <1>4, <1>6 DEF IInv, TypeOK
  <2>2. RequestsRecorded' /\ OneReceipt' /\ UndoneOnce' /\ ResolvedOnce'
    BY <1>3, <1>6 DEF IInv, RequestsRecorded, OneReceipt, UndoneOnce, ResolvedOnce
  <2> QED BY <1>3, <2>1, <2>2, RunEnds
<1> QED BY <1>5, <1>6 DEF Refuse

\* Executing a row that already has a manifest settles it for recovery.
LEMMA ExecuteAgainInv ==
  ASSUME IInv, NEW o \in Ops, ExecuteAgain(o)
  PROVE  IInv'
<1>1. "recovery_required" \in Settled /\ "recovery_required" \notin Completed
  BY DEF Settled, Completed
<1>2. UNCHANGED <<request, manifest, token, consumed, resolved, place, held, run, faults, crashes>>
  BY DEF ExecuteAgain, disk
<1>3. /\ state' \in [Ops -> States] /\ receipts' \in [Ops -> Nat]
      /\ RequestsRecorded' /\ OneReceipt' /\ UndoneOnce' /\ ResolvedOnce'
  BY <1>1, <1>2, SettleHistory DEF ExecuteAgain
<1>4. TypeOK'
  BY <1>2, <1>3 DEF IInv, TypeOK
<1> QED BY <1>2, <1>3, <1>4, RunEnds DEF ExecuteAgain

\* Cancelling a row the worker has not started is no success.
LEMMA CancelPendingInv ==
  ASSUME IInv, NEW o \in Ops, CancelPending(o)
  PROVE  IInv'
<1>1. "cancelled" \in Settled /\ "cancelled" \notin Completed
  BY DEF Settled, Completed
<1>2. UNCHANGED <<request, manifest, token, consumed, resolved, place, held, run, faults, crashes>>
  BY DEF CancelPending, disk
<1>3. /\ state' \in [Ops -> States] /\ receipts' \in [Ops -> Nat]
      /\ RequestsRecorded' /\ OneReceipt' /\ UndoneOnce' /\ ResolvedOnce'
  BY <1>1, <1>2, SettleHistory DEF CancelPending
<1>4. TypeOK'
  BY <1>2, <1>3 DEF IInv, TypeOK
<1> QED BY <1>2, <1>3, <1>4, RunEnds DEF CancelPending

\* A transaction is entitled to what it does when its manifest is first saved.
LEMMA WorkInv ==
  ASSUME IInv, Work
  PROVE  IInv'
<1> DEFINE o == run.op
           p == SetOf(o)
           claimed == [place EXCEPT ![p][From(o)] = NoOp]
<1>1. o \in Ops /\ run = [op |-> o, step |-> "begun"] /\ state[o] = "INTENT"
  BY RunningOp DEF IInv, TypeOK, RunCoherent, Work
<1>2. /\ run' = [op |-> o, step |-> "worked"] /\ state' = [state EXCEPT ![o] = "STAGED"]
      /\ UNCHANGED <<request, token, consumed, resolved, receipts, faults, crashes>>
  BY <1>1 DEF Work
<1>3. p \in Ops
  BY <1>1, SetOfType DEF IInv
<1>4. manifest' \in [Ops -> Manifest]
  <2>1. place[p][From(o)] \in OpsOrNone
    BY <1>3 DEF IInv, TypeOK, From
  <2>2. PICK publish \in BOOLEAN :
          manifest' = [manifest EXCEPT ![o] = [of |-> o, before |-> place[p][From(o)], publish |-> publish]]
    BY DEF Work
  <2> QED BY <1>1, <2>1, <2>2 DEF IInv, TypeOK, Manifest, OpsOrNone
<1>5. place' \in [Ops -> [{"home", "away"} -> OpsOrNone]] /\ held' \in [Ops -> BOOLEAN]
  <2>1. /\ place' \in {place, claimed, [claimed EXCEPT ![p][To(o)] = o]}
        /\ held' \in {held, [held EXCEPT ![o] = TRUE]}
    BY DEF Work, disk
  <2>2. claimed \in [Ops -> [{"home", "away"} -> OpsOrNone]]
    BY <1>3 DEF IInv, TypeOK, OpsOrNone
  <2>3. [claimed EXCEPT ![p][To(o)] = o] \in [Ops -> [{"home", "away"} -> OpsOrNone]]
    BY <1>1, <1>3, <2>2 DEF OpsOrNone
  <2> QED BY <2>1, <2>2, <2>3 DEF IInv, TypeOK
<1>6. TypeOK'
  BY <1>1, <1>2, <1>4, <1>5 DEF IInv, TypeOK, States, Steps
<1>7. RunCoherent'
  <2>1. request[o].action # "recover"
    BY DEF Work
  <2>2. request[o].action = "undo" => consumed[request[o].ref] = NoOp
    BY DEF Work, Eligible, Authoritative
  <2> QED BY <1>1, <1>2, <2>1, <2>2 DEF IInv, TypeOK, RunCoherent
<1>8. RequestsRecorded' /\ OneReceipt' /\ UndoneOnce' /\ ResolvedOnce'
  BY <1>1, <1>2 DEF IInv, TypeOK, RequestsRecorded, OneReceipt, UndoneOnce, ResolvedOnce, Settled, Completed
<1> QED BY <1>6, <1>7, <1>8 DEF IInv

\* A success spends the token of the sort it undid, which nothing else had spent.
LEMMA CompleteInv ==
  ASSUME IInv, Complete
  PROVE  IInv'
<1> DEFINE o == run.op
           q == request[run.op]
<1>1. o \in Ops /\ state[o] = "STAGED" /\ q.action # "recover"
  BY RunningOp DEF IInv, TypeOK, RunCoherent, Complete
<1>2. UNCHANGED <<request, manifest, resolved, place, held, crashes>> /\ run' = Idle /\ faults' \in Nat
  BY DEF Complete, disk, Fault, NoFault, IInv, TypeOK
<1>3. CASE UNCHANGED <<state, receipts, token, consumed>>
  <2>1. TypeOK'
    BY <1>2, <1>3 DEF IInv, TypeOK
  <2>2. RequestsRecorded' /\ OneReceipt' /\ UndoneOnce' /\ ResolvedOnce'
    BY <1>2, <1>3 DEF IInv, RequestsRecorded, OneReceipt, UndoneOnce, ResolvedOnce
  <2> QED BY <1>2, <2>1, <2>2, RunEnds
<1>4. CASE /\ \E st \in Completed : Settle(o, st)
           /\ token' = CASE q.action = "move"     -> [token EXCEPT ![o] = o]
                         [] q.action = "metadata" -> [token EXCEPT ![q.ref] = o, ![o] = o]
                         [] OTHER                 -> token
           /\ consumed' = Consumes(o)
  <2>1. PICK st \in Completed : Settle(o, st)
    BY <1>4
  <2>2. token' \in [Ops -> OpsOrNone] /\ consumed' \in [Ops -> OpsOrNone]
    BY <1>1, <1>4 DEF IInv, TypeOK, OpsOrNone, Consumes
  <2>3. state' \in [Ops -> States] /\ receipts' \in [Ops -> Nat]
    BY <1>1, <2>1 DEF IInv, TypeOK, Settle, States, Settled
  <2>4. TypeOK'
    BY <1>2, <2>2, <2>3 DEF IInv, TypeOK
  <2>5. RequestsRecorded' /\ OneReceipt'
    BY <1>1, <1>2, <2>1 DEF IInv, TypeOK, RequestsRecorded, OneReceipt, Settle, Settled, Completed
  <2>6. ResolvedOnce'
    BY <1>1, <1>2, <2>1 DEF IInv, TypeOK, ResolvedOnce, Settle
  <2>7. UndoneOnce'
    <3>1. CASE q.action = "undo"
      <4>1. q.ref \in Ops /\ consumed[q.ref] = NoOp
        BY <1>1, <3>1 DEF IInv, RequestsRecorded, RunCoherent, Complete
      <4>2. consumed' = [consumed EXCEPT ![q.ref] = o]
        BY <1>4, <3>1 DEF Consumes
      <4> QED BY <1>1, <1>2, <2>1, <4>1, <4>2, OpsAssumption DEF IInv, TypeOK, UndoneOnce, Settle, RequestsRecorded
    <3>2. CASE q.action # "undo"
      BY <1>1, <1>2, <1>4, <2>1, <3>2 DEF IInv, TypeOK, UndoneOnce, Settle, Consumes
    <3> QED BY <3>1, <3>2
  <2> QED BY <1>2, <2>4, <2>5, <2>6, <2>7, RunEnds
<1> QED BY <1>3, <1>4 DEF Complete

\* An exception only turns the run into its rollback.
LEMMA RaiseInv ==
  ASSUME IInv, Raise
  PROVE  IInv'
<1>1. run.op \in Ops /\ run = [op |-> run.op, step |-> "worked"]
  BY RunningOp DEF IInv, TypeOK, Raise
<1>2. run' = [op |-> run.op, step |-> "rollback"] /\ UNCHANGED <<rows, disk, faults, crashes>>
  BY <1>1 DEF Raise
<1>3. TypeOK'
  BY <1>1, <1>2 DEF IInv, TypeOK, rows, disk, Steps
<1>4. RunCoherent'
  BY <1>1, <1>2 DEF IInv, RunCoherent, rows
<1>5. RequestsRecorded' /\ OneReceipt' /\ UndoneOnce' /\ ResolvedOnce'
  BY <1>2 DEF IInv, RequestsRecorded, OneReceipt, UndoneOnce, ResolvedOnce, rows
<1> QED BY <1>3, <1>4, <1>5 DEF IInv

\* A recovery adopts the manifest of a row that nothing has resolved yet.
LEMMA RecoverInv ==
  ASSUME IInv, Recover
  PROVE  IInv'
<1> DEFINE o == run.op
<1>1. /\ o \in Ops /\ run = [op |-> o, step |-> "begun"] /\ state[o] = "INTENT"
      /\ request[o].action = "recover"
  BY RunningOp DEF IInv, TypeOK, RunCoherent, Recover
<1>2. request[o].ref \in Ops /\ resolved[request[o].ref] = NoOp
  BY <1>1 DEF IInv, RequestsRecorded, Recover, Eligible, Recoverable
<1>3. /\ run' = [op |-> o, step |-> "rollback"] /\ state' = [state EXCEPT ![o] = "STAGED"]
      /\ manifest' = [manifest EXCEPT ![o] = manifest[request[o].ref]]
      /\ UNCHANGED <<request, token, consumed, resolved, receipts, place, held, faults, crashes>>
  BY <1>1 DEF Recover, disk
<1>4. TypeOK'
  BY <1>1, <1>2, <1>3 DEF IInv, TypeOK, States, Steps
<1>5. RunCoherent'
  BY <1>1, <1>2, <1>3 DEF IInv, TypeOK, RunCoherent
<1>6. RequestsRecorded' /\ OneReceipt' /\ UndoneOnce' /\ ResolvedOnce'
  BY <1>1, <1>3 DEF IInv, TypeOK, RequestsRecorded, OneReceipt, UndoneOnce, ResolvedOnce, Settled, Completed
<1> QED BY <1>4, <1>5, <1>6 DEF IInv

\* What a rollback does to the two names of a file set keeps their type.
LEMMA RollbackPlaces ==
  ASSUME TypeOK, NEW m \in Manifest
  PROVE  /\ Withdrawn(m) \in [Ops -> [{"home", "away"} -> OpsOrNone]]
         /\ Restored(m) \in [Ops -> [{"home", "away"} -> OpsOrNone]]
<1>1. Withdrawn(m) \in [Ops -> [{"home", "away"} -> OpsOrNone]]
  BY DEF TypeOK, Withdrawn, OpsOrNone
<1>2. m.before \in OpsOrNone
  BY DEF Manifest
<1> QED BY <1>1, <1>2 DEF Restored

\* A rollback settles its row as no success, unless the row is a recovery whose
\* target nothing had resolved.
LEMMA RollbackInv ==
  ASSUME IInv, Rollback
  PROVE  IInv'
<1> DEFINE o == run.op
           m == manifest[run.op]
           q == request[run.op]
<1>1. o \in Ops /\ state[o] = "STAGED" /\ m \in Manifest
  BY RunningOp DEF IInv, TypeOK, RunCoherent, Rollback
<1>2. UNCHANGED <<request, manifest, token, consumed, held, crashes>> /\ run' = Idle
  BY DEF Rollback
<1>3. faults' \in Nat
  BY DEF IInv, TypeOK, Rollback, Fault, NoFault
<1>4. place' \in [Ops -> [{"home", "away"} -> OpsOrNone]]
  <2>1. place' \in {place, Withdrawn(m), Restored(m)}
    BY DEF Rollback
  <2> QED BY <1>1, <2>1, RollbackPlaces DEF IInv, TypeOK
<1>5. CASE \E st \in {"failed", "cancelled", "recovery_required"} :
             Settle(o, st) /\ UNCHANGED resolved
  <2>1. PICK st \in {"failed", "cancelled", "recovery_required"} : Settle(o, st) /\ UNCHANGED resolved
    BY <1>5
  <2>2. st \in Settled /\ st \notin Completed
    BY DEF Settled, Completed
  <2>3. /\ state' \in [Ops -> States] /\ receipts' \in [Ops -> Nat]
        /\ RequestsRecorded' /\ OneReceipt' /\ UndoneOnce' /\ ResolvedOnce'
    BY <1>1, <1>2, <2>1, <2>2, SettleHistory
  <2>4. TypeOK'
    BY <1>2, <1>3, <1>4, <2>1, <2>3 DEF IInv, TypeOK
  <2> QED BY <1>2, <2>3, <2>4, RunEnds
<1>6. CASE UNCHANGED <<state, receipts, resolved>>
  <2>1. TypeOK'
    BY <1>2, <1>3, <1>4, <1>6 DEF IInv, TypeOK
  <2>2. RequestsRecorded' /\ OneReceipt' /\ UndoneOnce' /\ ResolvedOnce'
    BY <1>2, <1>6 DEF IInv, RequestsRecorded, OneReceipt, UndoneOnce, ResolvedOnce
  <2> QED BY <1>2, <2>1, <2>2, RunEnds
<1>7. CASE /\ q.action = "recover"
           /\ \E st \in Completed : Settle(o, st)
           /\ resolved' = [resolved EXCEPT ![q.ref] = o]
  <2>1. PICK st \in Completed : Settle(o, st)
    BY <1>7
  <2>2. q.ref \in Ops /\ resolved[q.ref] = NoOp
    BY <1>1, <1>7 DEF IInv, RequestsRecorded, RunCoherent, Rollback
  <2>3. TypeOK'
    <3>1. state' \in [Ops -> States] /\ receipts' \in [Ops -> Nat]
      BY <1>1, <2>1 DEF IInv, TypeOK, Settle, States, Settled
    <3>2. resolved' \in [Ops -> OpsOrNone]
      BY <1>1, <1>7 DEF IInv, TypeOK, OpsOrNone
    <3> QED BY <1>2, <1>3, <1>4, <3>1, <3>2 DEF IInv, TypeOK
  <2>4. RequestsRecorded' /\ OneReceipt'
    BY <1>1, <1>2, <2>1 DEF IInv, TypeOK, RequestsRecorded, OneReceipt, Settle, Settled, Completed
  <2>5. UndoneOnce'
    BY <1>1, <1>2, <1>7, <2>1 DEF IInv, TypeOK, UndoneOnce, Settle
  <2>6. ResolvedOnce'
    BY <1>1, <1>2, <1>7, <2>1, <2>2, OpsAssumption DEF IInv, TypeOK, ResolvedOnce, RequestsRecorded, Settle
  <2> QED BY <1>2, <2>3, <2>4, <2>5, <2>6, RunEnds
<1> QED BY <1>5, <1>6, <1>7 DEF Rollback

\* Housekeeping removes a claim and leaves the journal alone.
LEMMA CleanupInv ==
  ASSUME IInv, NEW o \in Ops, CleanupRetained(o)
  PROVE  IInv'
<1>1. UNCHANGED <<rows, place, run, faults, crashes>> /\ held' \in [Ops -> BOOLEAN]
  BY DEF IInv, TypeOK, CleanupRetained
<1>2. TypeOK'
  BY <1>1 DEF IInv, TypeOK, rows
<1>3. RunCoherent'
  BY <1>1 DEF IInv, RunCoherent, rows
<1>4. RequestsRecorded' /\ OneReceipt' /\ UndoneOnce' /\ ResolvedOnce'
  BY <1>1 DEF IInv, RequestsRecorded, OneReceipt, UndoneOnce, ResolvedOnce, rows
<1> QED BY <1>2, <1>3, <1>4 DEF IInv

\* Reconciliation settles every open row at once, none of them as a success.
LEMMA RestartInv ==
  ASSUME IInv, Restart
  PROVE  IInv'
<1>1. UNCHANGED <<request, manifest, token, consumed, resolved, place, held, faults>> /\ run' = Idle
  BY DEF Restart, disk
<1>2. TypeOK'
  BY <1>1 DEF IInv, TypeOK, Restart, States, Settled, Completed
<1>3. \A o \in Ops : state'[o] \in Completed => state'[o] = state[o]
  BY DEF Restart, Completed
<1>4. RequestsRecorded'
  BY <1>1 DEF IInv, TypeOK, RequestsRecorded, Restart, InterruptedRow
<1>5. OneReceipt'
  BY DEF IInv, TypeOK, OneReceipt, Restart, InterruptedRow, Settled, Completed
<1>6. UndoneOnce' /\ ResolvedOnce'
  BY <1>1, <1>3 DEF IInv, UndoneOnce, ResolvedOnce
<1> QED BY <1>1, <1>2, <1>4, <1>5, <1>6, RunEnds

\* Every kind of request the client submits is accepted with a known reference.
LEMMA SubmitInv ==
  ASSUME IInv, NEW o \in Ops, Submit(o)
  PROVE  IInv'
<1> DEFINE sort == [action |-> "move", ref |-> NoOp, expects |-> NoOp]
           undo(p) == [action |-> "undo", ref |-> p, expects |-> NoOp]
           enrichment(p) == [action |-> "metadata", ref |-> p, expects |-> token[p]]
           recovery(t) == [action |-> "recover", ref |-> t, expects |-> NoOp]
<1>1. CASE Accept(o, sort)
  BY <1>1, AcceptInv DEF Request, OpsOrNone
<1>2. CASE \E p \in Ops : Accept(o, undo(p))
  BY <1>2, AcceptInv DEF Request, OpsOrNone
<1>3. CASE \E p \in Ops : Accept(o, enrichment(p))
  <2>1. PICK p \in Ops : Accept(o, enrichment(p))
    BY <1>3
  <2>2. token[p] \in OpsOrNone
    BY DEF IInv, TypeOK
  <2> QED BY <2>1, <2>2, AcceptInv DEF Request, OpsOrNone
<1>4. CASE \E t \in Ops : Accept(o, recovery(t))
  BY <1>4, AcceptInv DEF Request, OpsOrNone
<1> QED BY <1>1, <1>2, <1>3, <1>4 DEF Submit, AskRecovery

\* The strengthening depends on the variables alone.
LEMMA StutterInv ==
  ASSUME IInv, UNCHANGED vars
  PROVE  IInv'
BY DEF IInv, vars, TypeOK, RequestsRecorded, RunCoherent, OneReceipt, UndoneOnce, ResolvedOnce

\* One case for each action of the journal.
LEMMA StepInv == IInv /\ [Next]_vars => IInv'
BY SubmitInv, BeginInv, ExecuteAgainInv, CancelPendingInv, RefuseInv, WorkInv, CompleteInv,
   RaiseInv, RecoverInv, RollbackInv, CleanupInv, RestartInv, StutterInv DEF Next
-----------------------------------------------------------------------------
\* The strengthening holds in every reachable state, for any set of operations.
THEOREM Invariance == Spec => []IInv
BY InitInv, StepInv, PTL DEF Spec

\* Every row, receipt count and place of the journal keeps its type: the
\* manifests and tokens that operation_journal.py stores are always of recorded
\* operations, so looking up the file set of an accepted row cannot fail.
THEOREM TypeCorrect == Spec => []TypeOK
<1>1. IInv => TypeOK
  BY DEF IInv
<1> QED BY <1>1, Invariance, PTL

\* finish_result with consume_parent: two undos of one sort never both succeed.
THEOREM UndoIsSpentOnce == Spec => []UndoneOnce
<1>1. IInv => UndoneOnce
  BY DEF IInv
<1> QED BY <1>1, Invariance, PTL

\* finish_result with resolve_operation: two recoveries of one interrupted
\* operation never both succeed.
THEOREM RecoveryResolvesOnce == Spec => []ResolvedOnce
<1>1. IInv => ResolvedOnce
  BY DEF IInv
<1> QED BY <1>1, Invariance, PTL

\* Clients that replay receipts see each settled operation exactly once, whether
\* the engine, cancel_pending or the next owner's reconciliation settled it.
THEOREM SettledOnce == Spec => []OneReceipt
<1>1. IInv => OneReceipt
  BY DEF IInv
<1> QED BY <1>1, Invariance, PTL
-----------------------------------------------------------------------------
(* The journal and the disk.                                                *)

Fresh(o)       == state[o] \in {"absent", "INTENT"}
Sorted(p)      == request[p].action = "move" /\ state[p] \in Completed
Planned(o)     == manifest[o] # NoManifest
Base(o)        == manifest[o].of
Artifact(z, p) == /\ z \in Ops /\ state[z] \in Completed
                  /\ request[z].action \in {"move", "metadata"} /\ SetOf(z) = p

\* A request that refers to a sort or to an interrupted row finds it like that for ever.
RequestOK(o) ==
  /\ state[o] = "absent" => request[o].action = "none"
  /\ request[o].action \in {"undo", "metadata"} => Sorted(request[o].ref)
  /\ request[o].action = "recover" => state[request[o].ref] = "recovery_required"

\* A manifest lists the files of its own operation, or those of the interrupted one
\* that a recovery adopted, and what it would restore is a sort's original or a
\* finished artifact of the same sort.
Recorded(o) ==
  /\ Base(o) \in Ops /\ manifest[Base(o)] = manifest[o]
  /\ request[Base(o)].action \in {"move", "undo", "metadata"}
  /\ request[o].action = "recover" => state[Base(o)] = "recovery_required"
  /\ request[o].action # "recover" => Base(o) = o
  /\ request[Base(o)].action = "move" => manifest[o].before = Base(o)
  /\ request[Base(o)].action # "move" => Artifact(manifest[o].before, SetOf(Base(o)))
  /\ state[Base(o)] \in Completed => manifest[o].publish
ManifestOK(o) ==
  /\ Fresh(o) => ~Planned(o)
  /\ state[o] \in {"STAGED", "recovery_required"} \cup Completed => Planned(o)
  /\ Planned(o) => Recorded(o)

\* A token names a finished artifact, who spent it a finished undo.
TokenOK(p) ==
  /\ Sorted(p) => Artifact(token[p], p)
  /\ consumed[p] # NoOp => /\ state[consumed[p]] \in Completed
                           /\ request[consumed[p]].action = "undo" /\ request[consumed[p]].ref = p
  /\ resolved[p] # NoOp => state[p] = "recovery_required"

Records == \A o \in Ops : RequestOK(o) /\ ManifestOK(o) /\ TokenOK(o)

\* What the executing operation was found entitled to, and what it adopted.
RunDisk ==
  /\ run.step = "worked" /\ request[run.op].action = "metadata" => consumed[request[run.op].ref] = NoOp
  /\ run.step = "worked" /\ request[run.op].action = "move" /\ place[run.op]["away"] = run.op
       => place[run.op]["home"] = NoOp
  /\ run.step = "rollback" /\ request[run.op].action = "recover"
       => manifest[run.op] = manifest[request[run.op].ref]

\* Only published outputs and originals lie at the names of a sort.
Output(z, p) == ~Fresh(z) /\ SetOf(z) = p /\ manifest[z].publish
Placed(p) ==
  /\ place[p]["away"] # NoOp =>
       Output(place[p]["away"], p) /\ request[place[p]["away"]].action \in {"move", "metadata"}
  /\ place[p]["home"] \notin {NoOp, p} =>
       Output(place[p]["home"], p) /\ request[place[p]["home"]].action = "undo"

\* A transaction that was rolled back has left no output; one that may be rolled
\* back still has the original if it left one.
RolledBack(o) == \/ resolved[o] # NoOp
                 \/ state[o] \in {"failed", "cancelled"}
                 \/ state[o] \in Completed /\ request[o].action = "recover"
NoOutput(o) == Planned(o) /\ RolledBack(o) => place[SetOf(Base(o))][To(Base(o))] # Base(o)
Retained(o) == Open(o) /\ OutputAt(manifest[o]) = manifest[o].of => held[manifest[o].of]

\* A file set is as it was before its sort, holds the undo that spent the token, or
\* holds the artifact of the token unless an open transaction took that away and can
\* only end by putting it back.
Unsorted(p) == \/ Fresh(p) \/ request[p].action # "move"
               \/ state[p] \in {"failed", "cancelled"} \/ resolved[p] # NoOp
InPlace(p)  == Unsorted(p) => place[p]["home"] = p /\ place[p]["away"] = NoOp
UndoneOK(p) == Sorted(p) /\ consumed[p] # NoOp => place[p]["home"] = consumed[p]
LiveAway(p) == \/ place[p]["away"] = token[p]
               \/ \E o \in Ops : Open(o) /\ SetOf(Base(o)) = p /\ manifest[o].before = token[p]
LiveHome(p) == \/ place[p]["home"] = NoOp
               \/ \E o \in Ops : Open(o) /\ Base(o) = place[p]["home"]
LiveOK(p)   == Sorted(p) /\ consumed[p] = NoOp => LiveAway(p) /\ LiveHome(p)

OnDisk(p) == Placed(p) /\ NoOutput(p) /\ Retained(p) /\ InPlace(p) /\ UndoneOK(p) /\ LiveOK(p)
Disk == \A p \in Ops : OnDisk(p)

JInv == IInv /\ Records /\ RunDisk /\ Disk
-----------------------------------------------------------------------------
\* The invariant says what the property promises.
LEMMA TruthFollows == JInv => JournalTruth
<1> SUFFICES ASSUME JInv
             PROVE  JournalTruth
  OBVIOUS
<1>1. TypeOK
  BY DEF JInv, IInv
<1>2. ASSUME NEW o \in Ops, Open(o), OutputAt(manifest[o]) = manifest[o].of
      PROVE  held[manifest[o].of]
  BY <1>2 DEF JInv, Disk, OnDisk, Retained
<1>3. ASSUME NEW p \in Ops, request[p].action = "move", Quiet(p)
      PROVE  /\ state[p] \in Completed /\ consumed[p] # NoOp => place[p]["home"] # NoOp
             /\ state[p] \in Completed /\ consumed[p] = NoOp => place[p] = [home |-> NoOp, away |-> token[p]]
             /\ state[p] \in {"failed", "cancelled"} \/ resolved[p] # NoOp
                  => place[p] = [home |-> p, away |-> NoOp]
  <2>1. place[p] \in [{"home", "away"} -> OpsOrNone]
    BY <1>1 DEF TypeOK
  <2>2. \A h, w : place[p]["home"] = h /\ place[p]["away"] = w => place[p] = [home |-> h, away |-> w]
    BY <2>1
  <2>3. OnDisk(p)
    BY DEF JInv, Disk
  <2>4. CASE state[p] \in Completed /\ consumed[p] # NoOp
    <3>1. place[p]["home"] = consumed[p]
      BY <1>3, <2>3, <2>4 DEF OnDisk, UndoneOK, Sorted
    <3>2. state[p] \notin {"failed", "cancelled"} /\ resolved[p] = NoOp
      BY <2>4 DEF JInv, Records, TokenOK, Completed
    <3> QED BY <2>4, <3>1, <3>2
  <2>5. CASE state[p] \in Completed /\ consumed[p] = NoOp
    <3>1. LiveAway(p) /\ LiveHome(p)
      BY <1>3, <2>3, <2>5 DEF OnDisk, LiveOK, Sorted
    <3>2. place[p]["away"] = token[p]
      BY <1>3, <3>1 DEF LiveAway, Quiet, Base
    <3>3. place[p]["home"] = NoOp
      <4>1. place[p]["home"] # NoOp => SetOf(place[p]["home"]) = p
        BY <1>3, <2>3 DEF OnDisk, Placed, Output, SetOf
      <4> QED BY <1>3, <3>1, <4>1 DEF LiveHome, Quiet, Base
    <3>4. state[p] \notin {"failed", "cancelled"} /\ resolved[p] = NoOp
      BY <2>5 DEF JInv, Records, TokenOK, Completed
    <3> QED BY <2>2, <2>5, <3>2, <3>3, <3>4
  <2>6. CASE state[p] \notin Completed
    BY <2>2, <2>3, <2>6 DEF OnDisk, InPlace, Unsorted
  <2> QED BY <2>4, <2>5, <2>6
<1> QED BY <1>1, <1>2, <1>3 DEF JournalTruth

\* The empty journal tells the truth.
LEMMA InitJInv == Init => JInv
<1> SUFFICES ASSUME Init
             PROVE  JInv
  OBVIOUS
<1>1. /\ \A o \in Ops : /\ state[o] = "absent" /\ request[o].action = "none" /\ manifest[o] = NoManifest
                        /\ consumed[o] = NoOp /\ resolved[o] = NoOp /\ place[o]["home"] = o /\ place[o]["away"] = NoOp
      /\ run.step = "idle"
  BY DEF Init, NoRequest, Idle
<1>2. Records
  BY <1>1 DEF Records, RequestOK, ManifestOK, TokenOK, Fresh, Sorted, Planned, Completed
<1>3. RunDisk
  BY <1>1 DEF RunDisk
<1>4. Disk
  BY <1>1 DEF Disk, OnDisk, Placed, NoOutput, Planned, Retained, Open, InPlace, UndoneOK, LiveOK, Sorted,
              Completed
<1> QED BY <1>2, <1>3, <1>4, InitInv DEF JInv

\* A row that is settled as failed before it did anything, or for recovery.
Closes(o) == \/ state[o] = "INTENT" /\ state'[o] \in {"failed", "cancelled"}
             \/ state[o] = "STAGED" /\ state'[o] = "recovery_required"

\* Closing rows leaves what is recorded of others as it was.
LEMMA ClosingKeepsRecords ==
  ASSUME JInv, UNCHANGED <<request, manifest, token, consumed, resolved>>,
         \A o \in Ops : state'[o] = state[o] \/ Closes(o)
  PROVE  Records'
<1>1. \A o \in Ops : /\ state[o] \in Completed <=> state'[o] \in Completed
                     /\ state[o] = "recovery_required" => state'[o] = "recovery_required"
                     /\ state'[o] = "absent" => state[o] = "absent"
                     /\ Fresh(o)' => Fresh(o)
                     /\ state'[o] \in {"STAGED", "recovery_required"} => state[o] \in {"STAGED", "recovery_required"}
  BY DEF Closes, Completed, Fresh
<1> SUFFICES ASSUME NEW o \in Ops
             PROVE  RequestOK(o)' /\ ManifestOK(o)' /\ TokenOK(o)'
  BY DEF Records
<1>2. RequestOK(o) /\ ManifestOK(o) /\ TokenOK(o) /\ RequestsRecorded /\ TypeOK
  BY DEF JInv, IInv, Records
<1>3. RequestOK(o)'
  BY <1>1, <1>2 DEF RequestOK, Sorted, RequestsRecorded
<1>4. ManifestOK(o)'
  BY <1>1, <1>2 DEF ManifestOK, Planned, Recorded, Base, Artifact, SetOf
<1>5. TokenOK(o)'
  BY <1>1, <1>2 DEF TokenOK, Sorted, Artifact, SetOf, TypeOK, OpsOrNone
<1> QED BY <1>3, <1>4, <1>5

\* Closing rows leaves the files, and what the journal says of them.
LEMMA ClosingKeepsDisk ==
  ASSUME JInv, Records', UNCHANGED <<request, manifest, token, consumed, resolved, place, held>>,
         \A o \in Ops : state'[o] = state[o] \/ Closes(o)
  PROVE  Disk'
<1>1. \A o \in Ops : /\ state[o] \in Completed <=> state'[o] \in Completed
                     /\ Fresh(o)' => Fresh(o)
                     /\ state'[o] \in {"failed", "cancelled"} => state[o] \in {"failed", "cancelled"} \/ Fresh(o)
  BY DEF Closes, Completed, Fresh
<1>2. \A o \in Ops : Open(o)' <=> Open(o)
  <2> SUFFICES ASSUME NEW o \in Ops, state'[o] # state[o]
               PROVE  Open(o)' <=> Open(o)
    BY DEF Open
  <2>1. CASE state[o] = "INTENT"
    <3>1. ~Planned(o)
      BY <2>1 DEF JInv, Records, ManifestOK, Fresh
    <3> QED BY <3>1 DEF Open, Planned
  <2>2. CASE state[o] = "STAGED" /\ state'[o] = "recovery_required"
    <3>1. resolved[o] = NoOp
      BY <2>2 DEF JInv, Records, TokenOK
    <3> QED BY <2>2, <3>1 DEF Open
  <2> QED BY <2>1, <2>2 DEF Closes
<1>3. ASSUME NEW p \in Ops PROVE OnDisk(p)'
  <2>1. OnDisk(p) /\ TypeOK
    BY DEF JInv, IInv, Disk
  <2>2. Placed(p)'
    BY <1>1, <2>1 DEF OnDisk, Placed, Output, SetOf, TypeOK, OpsOrNone
  <2>3. NoOutput(p)'
    <3>1. Planned(p) => ~Fresh(p)
      BY DEF JInv, Records, ManifestOK
    <3>2. Planned(p) /\ RolledBack(p)' => RolledBack(p)
      BY <1>1, <3>1 DEF RolledBack
    <3> QED BY <2>1, <3>2 DEF OnDisk, NoOutput, Planned, SetOf, To, Base
  <2>4. Retained(p)'
    BY <1>2, <2>1 DEF OnDisk, Retained, OutputAt, SetOf, To
  <2>5. InPlace(p)'
    BY <1>1, <2>1 DEF OnDisk, InPlace, Unsorted, Fresh
  <2>6. UndoneOK(p)'
    BY <1>1, <2>1 DEF OnDisk, UndoneOK, Sorted
  <2>7. LiveOK(p)'
    BY <1>1, <1>2, <2>1 DEF OnDisk, LiveOK, LiveAway, LiveHome, Sorted, Base, SetOf
  <2> QED BY <2>2, <2>3, <2>4, <2>5, <2>6, <2>7 DEF OnDisk
<1> QED BY <1>3 DEF Disk

\* A step that only closes rows, and moves the run on or ends it.
LEMMA ClosingInv ==
  ASSUME JInv, IInv', UNCHANGED <<request, manifest, token, consumed, resolved, place, held>>,
         \A o \in Ops : state'[o] = state[o] \/ Closes(o), RunDisk'
  PROVE  JInv'
BY ClosingKeepsRecords, ClosingKeepsDisk DEF JInv

\* The steps that change nothing but the state of rows: the start of an operation,
\* what ends it before it did anything, and what a new owner finds interrupted.
LEMMA RowStepsJInv ==
  ASSUME JInv, IInv',
         \/ \E o \in Ops : Begin(o) \/ ExecuteAgain(o) \/ CancelPending(o)
         \/ Refuse \/ Raise \/ Restart \/ UNCHANGED vars
  PROVE  JInv'
<1>1. UNCHANGED <<request, manifest, token, consumed, resolved, place, held>>
  BY DEF Begin, ExecuteAgain, CancelPending, Refuse, Raise, Restart, rows, disk, vars
<1>2. TypeOK
  BY DEF JInv, IInv
<1>3. \A o \in Ops : state'[o] = state[o] \/ Closes(o)
  <2>1. CASE UNCHANGED state
    BY <2>1
  <2>2. ASSUME NEW o \in Ops, ExecuteAgain(o) \/ CancelPending(o)
        PROVE  \A k \in Ops : state'[k] = state[k] \/ Closes(k)
    BY <1>2, <2>2 DEF TypeOK, ExecuteAgain, CancelPending, Settle, Closes
  <2>3. CASE Refuse
    <3>1. run.op \in Ops /\ state[run.op] = "INTENT"
      BY <1>2, <2>3, RunningOp DEF JInv, IInv, TypeOK, RunCoherent, Refuse
    <3> QED BY <1>2, <2>3, <3>1 DEF TypeOK, Refuse, Settle, Closes
  <2>4. CASE Restart
    <3> SUFFICES ASSUME NEW o \in Ops
                 PROVE  state'[o] = state[o] \/ Closes(o)
      OBVIOUS
    <3>1. /\ Fresh(o) => manifest[o] = NoManifest
          /\ state[o] = "STAGED" => manifest[o] # NoManifest
      BY DEF JInv, Records, ManifestOK, Planned
    <3> QED BY <2>4, <3>1 DEF Restart, InterruptedRow, Closes, Fresh
  <2> QED BY <2>1, <2>2, <2>3, <2>4 DEF Begin, Raise, rows, vars
<1>4. RunDisk'
  <2>1. CASE run' = Idle \/ \E o \in Ops : run' = [op |-> o, step |-> "begun"]
    BY <2>1 DEF RunDisk, Idle
  <2>2. CASE UNCHANGED run
    BY <1>1, <2>2 DEF JInv, RunDisk
  <2>3. CASE Raise
    <3>1. run'.step = "rollback" /\ run'.op = run.op /\ run.step = "worked"
      BY <1>2, <2>3, RunningOp DEF TypeOK, Raise
    <3>2. request[run.op].action # "recover"
      BY <3>1 DEF JInv, IInv, RunCoherent
    <3> QED BY <1>1, <3>1, <3>2 DEF RunDisk
  <2> QED BY <2>1, <2>2, <2>3 DEF Begin, ExecuteAgain, CancelPending, Refuse, Restart, vars
<1> QED BY <1>1, <1>3, <1>4, ClosingInv

\* A claim that is pruned is of a transaction that left no output to roll back.
LEMMA CleanupJInv ==
  ASSUME JInv, IInv', NEW o \in Ops, CleanupRetained(o)
  PROVE  JInv'
<1> DEFINE x == Base(o)
<1>1. /\ UNCHANGED <<state, request, manifest, token, consumed, resolved, place, run>>
      /\ held' = [held EXCEPT ![x] = FALSE] /\ Planned(o) /\ Prunable(o)
  BY DEF CleanupRetained, Prunable, Planned, rows, Base
<1>2. TypeOK /\ Recorded(o) /\ NoOutput(o)
  BY <1>1 DEF JInv, IInv, Records, ManifestOK, Disk, OnDisk
<1>3. ASSUME NEW k \in Ops, Open(k), OutputAt(manifest[k]) = manifest[k].of
      PROVE  manifest[k].of # x
  <2> SUFFICES ASSUME manifest[k].of = x
               PROVE  FALSE
    OBVIOUS
  <2>1. Recorded(k) /\ Base(k) = x
    BY <1>3 DEF JInv, Records, ManifestOK, Open, Planned, Base
  <2>2. place[SetOf(x)][To(x)] = x
    <3>1. x \in Ops /\ manifest[k].of = x
      BY <1>2, <2>1 DEF Recorded, Base
    <3> QED BY <1>3, <3>1, OpsAssumption DEF OutputAt
  <2>3. ~RolledBack(o)
    BY <1>1, <1>2, <2>2 DEF NoOutput
  <2>4. state[o] \in Completed /\ request[o].action # "recover"
    BY <1>1, <2>3 DEF Prunable, RolledBack
  <2>5. x = o /\ state[x] \in Completed
    BY <1>2, <2>4 DEF Recorded
  <2>6. k = x
    BY <2>1, <2>5 DEF Recorded, Completed
  <2> QED BY <1>3, <2>5, <2>6 DEF Open, Completed
<1>4. Disk'
  <2> SUFFICES ASSUME NEW p \in Ops
               PROVE  OnDisk(p)'
    BY DEF Disk
  <2>1. OnDisk(p)
    BY DEF JInv, Disk
  <2>2. Retained(p)'
    <3> SUFFICES ASSUME Open(p), OutputAt(manifest[p]) = manifest[p].of
                 PROVE  held'[manifest[p].of]
      BY <1>1 DEF Retained, Open, OutputAt, SetOf, To
    <3>1. manifest[p].of \in Ops
      BY DEF JInv, Records, ManifestOK, Recorded, Open, Planned, Base
    <3>2. held[manifest[p].of] /\ manifest[p].of # x
      BY <1>3, <2>1 DEF OnDisk, Retained
    <3> QED BY <1>1, <1>2, <3>1, <3>2 DEF TypeOK
  <2> QED BY <1>1, <2>1, <2>2 DEF OnDisk, Placed, Output, Fresh, NoOutput, Planned, RolledBack, Base, InPlace,
             Unsorted, UndoneOK, LiveOK, LiveAway, LiveHome, Sorted, Open, SetOf, To
<1>5. Records' /\ RunDisk'
  BY <1>1 DEF JInv, Records, RequestOK, ManifestOK, Planned, Recorded, Base, Artifact, TokenOK, Sorted, Fresh,
              SetOf, RunDisk
<1> QED BY <1>4, <1>5 DEF JInv

\* A request that is accepted refers to a sort that succeeded or to an interrupted
\* row, and its row was unknown, so nothing refers to it.
LEMMA AcceptJInv ==
  ASSUME JInv, IInv', NEW o \in Ops, NEW q \in Request, Accept(o, q),
         q.action \in {"undo", "metadata"} => q.ref \in Ops /\ Sorted(q.ref),
         q.action = "recover" => q.ref \in Ops /\ state[q.ref] = "recovery_required"
  PROVE  JInv'
<1>1. /\ state[o] = "absent" /\ state' = [state EXCEPT ![o] = "INTENT"]
      /\ request' = [request EXCEPT ![o] = q]
      /\ UNCHANGED <<manifest, token, consumed, resolved, receipts, place, held, run>>
  BY DEF Accept, disk
<1>2. TypeOK /\ RequestsRecorded /\ \A k \in Ops : RequestOK(k) /\ ManifestOK(k) /\ TokenOK(k) /\ OnDisk(k)
  BY DEF JInv, IInv, Records, Disk
<1>3. /\ state'[o] = "INTENT" /\ request'[o] = q /\ Fresh(o) /\ Fresh(o)' /\ ~Planned(o)
      /\ \A k \in Ops \ {o} : state'[k] = state[k] /\ request'[k] = request[k]
  BY <1>1, <1>2 DEF TypeOK, Fresh, ManifestOK
<1>4. \A k \in Ops : ~Fresh(k) => /\ k # o /\ ~Fresh(k)' /\ SetOf(k)' = SetOf(k)
                                  /\ From(k)' = From(k) /\ To(k)' = To(k)
  BY <1>3 DEF Fresh, SetOf, From, To
<1>5. \A k \in Ops : Planned(k) => ~Fresh(k) /\ Base(k) \in Ops /\ ~Fresh(Base(k))
  BY <1>2 DEF ManifestOK, Recorded
<1>6. \A z, p : z \in Ops /\ Artifact(z, p) => Artifact(z, p)'
  BY <1>3, <1>4 DEF Artifact, Fresh, Completed
<1>7. ASSUME NEW k \in Ops PROVE RequestOK(k)' /\ ManifestOK(k)' /\ TokenOK(k)'
  <2>1. RequestOK(k)'
    <3>1. CASE k = o
      <4>1. q.action \in {"undo", "metadata", "recover"} => q.ref \in Ops \ {o}
        BY <1>3 DEF Sorted, Completed, Fresh
      <4> QED BY <1>3, <3>1, <4>1 DEF RequestOK, Sorted
    <3>2. CASE k # o
      <4>1. request[k].action \in {"undo", "metadata", "recover"} => request[k].ref \in Ops \ {o}
        BY <1>2, <1>3, <3>2 DEF RequestsRecorded, RequestOK, Sorted, Completed, Fresh
      <4> QED BY <1>2, <1>3, <3>2, <4>1 DEF RequestOK, Sorted
    <3> QED BY <3>1, <3>2
  <2>2. Recorded(k) /\ Planned(k) => Recorded(k)'
    <3> SUFFICES ASSUME Recorded(k), Planned(k)
                 PROVE  Recorded(k)'
      OBVIOUS
    <3>1. /\ k # o /\ Base(k) \in Ops \ {o} /\ Base(k)' = Base(k)
          /\ SetOf(Base(k))' = SetOf(Base(k))
      BY <1>1, <1>3, <1>4, <1>5 DEF Base
    <3>2. request[Base(k)].action # "move" => Artifact(manifest[k].before, SetOf(Base(k)))'
      <4>1. Artifact(manifest[k].before, SetOf(Base(k))) => Artifact(manifest[k].before, SetOf(Base(k)))'
        BY <1>1, <1>3, <1>4, <3>1 DEF Artifact, Fresh, Completed
      <4> QED BY <4>1 DEF Recorded
    <3> QED BY <1>1, <1>3, <3>1, <3>2 DEF Recorded
  <2>3. ManifestOK(k)'
    BY <1>1, <1>2, <1>3, <2>2 DEF ManifestOK, Planned, Fresh, Completed
  <2>4. TokenOK(k)'
    <3>1. consumed[k] # NoOp => consumed[k] \in Ops
      BY <1>2 DEF TypeOK, OpsOrNone
    <3> QED BY <1>1, <1>2, <1>3, <1>6, <3>1 DEF TokenOK, Sorted, Completed, Artifact
  <2> QED BY <2>1, <2>3, <2>4
<1>8. RunDisk'
  <2>1. run.step # "idle" => run.op \in Ops /\ run.op # o
    <3> SUFFICES ASSUME run.step # "idle"
                 PROVE  run.op \in Ops /\ run.op # o
      OBVIOUS
    <3>1. run.op \in Ops /\ run.step \in Steps
      BY <1>2, RunningOp DEF TypeOK
    <3>2. state[run.op] \in {"INTENT", "STAGED"}
      BY <3>1 DEF JInv, IInv, RunCoherent, Steps
    <3> QED BY <1>1, <3>1, <3>2
  <2>2. RunDisk
    BY DEF JInv
  <2> QED BY <1>1, <1>3, <2>1, <2>2 DEF RunDisk
<1>9. ASSUME NEW p \in Ops PROVE OnDisk(p)'
  <2>1. OnDisk(p)
    BY <1>2
  <2>2. Open(p)' <=> Open(p)
    BY <1>1, <1>3 DEF Open, Planned
  <2>3. \A k \in Ops : Open(k)' <=> Open(k)
    BY <1>1, <1>3 DEF Open, Planned
  <2>4. \A z \in Ops : Output(z, p) => Output(z, p)' /\ z # o
    BY <1>1, <1>4 DEF Output
  <2>5. Placed(p)'
    BY <1>1, <1>2, <1>3, <2>1, <2>4 DEF OnDisk, Placed, TypeOK, OpsOrNone
  <2>6. NoOutput(p)'
    BY <1>1, <1>3, <1>4, <1>5, <2>1 DEF OnDisk, NoOutput, Planned, RolledBack, Base
  <2>7. Retained(p)'
    BY <1>1, <1>4, <1>5, <2>1, <2>2 DEF OnDisk, Retained, OutputAt, Open, Planned, Base
  <2>8. InPlace(p)'
    BY <1>1, <1>3, <2>1 DEF OnDisk, InPlace, Unsorted, Fresh
  <2>9. UndoneOK(p)' /\ LiveOK(p)'
    <3>1. Sorted(p)' => Sorted(p)
      BY <1>3 DEF Sorted, Completed
    <3>2. LiveAway(p) => LiveAway(p)'
      BY <1>1, <1>4, <1>5, <2>3 DEF LiveAway, Open, Planned, Base
    <3>3. LiveHome(p) => LiveHome(p)'
      BY <1>1, <2>3 DEF LiveHome, Base
    <3> QED BY <1>1, <2>1, <3>1, <3>2, <3>3 DEF OnDisk, UndoneOK, LiveOK
  <2> QED BY <2>5, <2>6, <2>7, <2>8, <2>9 DEF OnDisk
<1> QED BY <1>7, <1>8, <1>9 DEF JInv, Records, Disk

\* What the GUI submits is such a request.
LEMMA SubmitJInv ==
  ASSUME JInv, IInv', NEW o \in Ops, Submit(o)
  PROVE  JInv'
<1> DEFINE sort == [action |-> "move", ref |-> NoOp, expects |-> NoOp]
           undo(p) == [action |-> "undo", ref |-> p, expects |-> NoOp]
           enrichment(p) == [action |-> "metadata", ref |-> p, expects |-> token[p]]
           recovery(t) == [action |-> "recover", ref |-> t, expects |-> NoOp]
<1>1. CASE Accept(o, sort)
  BY <1>1, AcceptJInv DEF Request, OpsOrNone
<1>2. CASE \E p \in Ops : Sorted(p) /\ Accept(o, undo(p))
  BY <1>2, AcceptJInv DEF Request, OpsOrNone
<1>3. CASE \E p \in Ops : Sorted(p) /\ Accept(o, enrichment(p))
  <2>1. PICK p \in Ops : Sorted(p) /\ Accept(o, enrichment(p))
    BY <1>3
  <2>2. token[p] \in OpsOrNone
    BY DEF JInv, IInv, TypeOK
  <2> QED BY <2>1, <2>2, AcceptJInv DEF Request, OpsOrNone
<1>4. CASE \E t \in Ops : state[t] = "recovery_required" /\ Accept(o, recovery(t))
  BY <1>4, AcceptJInv DEF Request, OpsOrNone
<1> QED BY <1>1, <1>2, <1>3, <1>4 DEF Submit, AskRecovery, Listed, Sorted

\* The files a manifest lists are those of a sort.
LEMMA BaseType ==
  ASSUME JInv, NEW k \in Ops, Planned(k)
  PROVE  Recorded(k) /\ Base(k) \in Ops /\ SetOf(Base(k)) \in Ops
<1>1. TypeOK /\ RequestsRecorded /\ \A o \in Ops : ManifestOK(o)
  BY DEF JInv, IInv, Records
<1>2. Recorded(k) /\ Base(k) \in Ops /\ Planned(Base(k))
  BY <1>1 DEF ManifestOK, Recorded, Planned
<1>3. state[Base(k)] # "absent"
  BY <1>1, <1>2 DEF ManifestOK, Fresh
<1> QED BY <1>1, <1>2, <1>3, SetOfType

\* What the steps below leave alone: rows other than o, and what they refer to.
LEMMA OthersKept ==
  ASSUME JInv, NEW o \in Ops, state[o] \in {"INTENT", "STAGED"}, state'[o] # "absent", UNCHANGED request,
         \A k \in Ops \ {o} : state'[k] = state[k]
  PROVE  /\ \A k \in Ops : RequestOK(k) => RequestOK(k)'
         /\ \A z \in Ops, p \in Ops : Artifact(z, p) => Artifact(z, p)'
         /\ \A k \in Ops \ {o} : Planned(k) => Base(k) # o
<1>1. TypeOK /\ RequestsRecorded /\ \A k \in Ops : RequestOK(k) /\ ManifestOK(k)
  BY DEF JInv, IInv, Records
<1>2. ASSUME NEW k \in Ops, RequestOK(k) PROVE RequestOK(k)'
  <2>1. request[k].action \in {"undo", "metadata", "recover"} => request[k].ref \in Ops \ {o}
    BY <1>1, <1>2 DEF RequestsRecorded, RequestOK, Sorted, Completed
  <2>2. state'[k] = "absent" => request[k].action = "none"
    <3>1. CASE k = o
      BY <3>1
    <3> QED BY <1>2, <3>1 DEF RequestOK
  <2> QED BY <1>2, <2>1, <2>2 DEF RequestOK, Sorted
<1>3. ASSUME NEW z \in Ops, NEW p \in Ops, Artifact(z, p) PROVE Artifact(z, p)'
  BY <1>3 DEF Artifact, Completed, SetOf
<1>4. ASSUME NEW k \in Ops \ {o}, Planned(k) PROVE Base(k) # o
  BY <1>1, <1>4 DEF ManifestOK, Recorded, Planned, Fresh
<1> QED BY <1>2, <1>3, <1>4

\* What operation o on sort p does to its two names when it works: what lies where it
\* takes from is gone or still there, and its output is beside nothing it took.
Touches(o, p, publish) ==
  /\ \A k \in Ops \ {p} : place'[k] = place[k]
  /\ \A k \in Ops \ {o} : held'[k] = held[k]
  /\ \A s \in {"home", "away"} :
       \/ place'[p][s] \in {place[p][s], NoOp}
       \/ publish /\ place'[p][s] = o /\ s = To(o) /\ held'[o]
  /\ \A s \in {"home", "away"} : s \notin {From(o), To(o)} => place'[p][s] = place[p][s]
  /\ place'[p][To(o)] = o /\ To(o) # From(o) /\ place[p][To(o)] # o => place'[p][From(o)] = NoOp

\* Staging, claiming and publishing each do so.
LEMMA WorkTouches ==
  ASSUME TypeOK, NEW o \in Ops, NEW p \in Ops, NEW publish \in BOOLEAN,
         \/ UNCHANGED <<place, held>>
         \/ place' = [place EXCEPT ![p][From(o)] = NoOp] /\ held' = [held EXCEPT ![o] = TRUE]
         \/ /\ publish
            /\ place' = [[place EXCEPT ![p][From(o)] = NoOp] EXCEPT ![p][To(o)] = o]
            /\ held' = [held EXCEPT ![o] = TRUE]
  PROVE  Touches(o, p, publish)
<1> DEFINE claimed == [place EXCEPT ![p][From(o)] = NoOp]
           done == [claimed EXCEPT ![p][To(o)] = o]
<1>1. From(o) \in {"home", "away"} /\ To(o) \in {"home", "away"}
  BY DEF From, To
<1>2. /\ \A k \in Ops \ {p} : claimed[k] = place[k]
      /\ \A s \in {"home", "away"} : claimed[p][s] = IF s = From(o) THEN NoOp ELSE place[p][s]
      /\ claimed \in [Ops -> [{"home", "away"} -> OpsOrNone]]
  BY <1>1 DEF TypeOK, OpsOrNone
<1>3. \/ UNCHANGED <<place, held>>
      \/ place' = claimed /\ held' = [held EXCEPT ![o] = TRUE]
      \/ publish /\ place' = done /\ held' = [held EXCEPT ![o] = TRUE]
  OBVIOUS
<1> HIDE DEF claimed
<1>4. /\ \A k \in Ops \ {p} : done[k] = place[k]
      /\ \A s \in {"home", "away"} : done[p][s] = IF s = To(o) THEN o ELSE claimed[p][s]
  BY <1>1, <1>2 DEF OpsOrNone
<1>5. /\ \A k \in Ops \ {o} : [held EXCEPT ![o] = TRUE][k] = held[k]
      /\ [held EXCEPT ![o] = TRUE][o]
  BY DEF TypeOK
<1> HIDE DEF done
<1>6. CASE UNCHANGED <<place, held>>
  BY <1>1, <1>6 DEF Touches
<1>7. CASE place' = claimed /\ held' = [held EXCEPT ![o] = TRUE]
  BY <1>1, <1>2, <1>5, <1>7 DEF Touches
<1>8. CASE publish /\ place' = done /\ held' = [held EXCEPT ![o] = TRUE]
  BY <1>1, <1>2, <1>4, <1>5, <1>8 DEF Touches
<1> QED BY <1>3, <1>6, <1>7, <1>8

\* A transaction works on a sort nobody else has in hand, or takes the artifact of the
\* token away; its manifest says what puts it back.
LEMMA WorkJInv ==
  ASSUME JInv, IInv', Work
  PROVE  JInv'
<1>1. TypeOK /\ RequestsRecorded /\ \A k \in Ops : RequestOK(k) /\ ManifestOK(k) /\ TokenOK(k) /\ OnDisk(k)
  BY DEF JInv, IInv, Records, Disk
<1>2. PICK o \in Ops : run = [op |-> o, step |-> "begun"] /\ state[o] = "INTENT"
  BY <1>1, RunningOp DEF JInv, IInv, TypeOK, RunCoherent, Work
<1>3. PICK p \in Ops : p = SetOf(o)
  BY <1>1, <1>2, SetOfType
<1>4. PICK b \in OpsOrNone : b = place[p][From(o)]
  BY <1>1 DEF TypeOK, From
<1>5. /\ Eligible(o) /\ state' = [state EXCEPT ![o] = "STAGED"] /\ run'.step = "worked" /\ run'.op = o
      /\ UNCHANGED <<request, token, consumed, resolved>>
  BY <1>2 DEF Work
<1>6. PICK publish \in BOOLEAN :
        /\ manifest' = [manifest EXCEPT ![o] = [of |-> o, before |-> b, publish |-> publish]]
        /\ \/ UNCHANGED <<place, held>>
           \/ place' = [place EXCEPT ![p][From(o)] = NoOp] /\ held' = [held EXCEPT ![o] = TRUE]
           \/ /\ publish
              /\ place' = [[place EXCEPT ![p][From(o)] = NoOp] EXCEPT ![p][To(o)] = o]
              /\ held' = [held EXCEPT ![o] = TRUE]
  BY <1>2, <1>3, <1>4 DEF Work, disk
<1>7. Touches(o, p, publish)
  BY <1>1, <1>6, WorkTouches
<1>8. /\ manifest'[o].of = o /\ manifest'[o].before = b /\ manifest'[o].publish = publish
      /\ \A k \in Ops \ {o} : manifest'[k] = manifest[k] /\ state'[k] = state[k]
      /\ state'[o] = "STAGED" /\ Fresh(o) /\ ~Planned(o) /\ resolved[o] = NoOp /\ Planned(o)'
  <2>1. /\ manifest'[o].of = o /\ manifest'[o].before = b /\ manifest'[o].publish = publish
        /\ \A k \in Ops \ {o} : manifest'[k] = manifest[k] /\ state'[k] = state[k]
        /\ state'[o] = "STAGED"
    BY <1>1, <1>5, <1>6 DEF TypeOK
  <2>2. Fresh(o) /\ ~Planned(o) /\ resolved[o] = NoOp
    BY <1>1, <1>2 DEF Fresh, ManifestOK, TokenOK
  <2>3. Planned(o)'
    BY <2>1, OpsAssumption DEF Planned, NoManifest
  <2> QED BY <2>1, <2>2, <2>3
<1>9. request[o].action \in {"move", "undo", "metadata"}
  BY <1>1, <1>2 DEF Work, TypeOK, Request, RequestsRecorded
<1>10. \/ /\ request[o].action = "move" /\ p = o /\ b = o /\ From(o) = "home" /\ To(o) = "away"
          /\ place[p]["away"] = NoOp
       \/ /\ request[o].action \in {"undo", "metadata"} /\ p = request[o].ref /\ p # o /\ From(o) = "away"
          /\ Sorted(p) /\ consumed[p] = NoOp /\ b = token[p] /\ b \in Ops /\ Artifact(b, p)
          /\ request[o].action = "undo" => To(o) = "home" /\ place[p]["home"] = NoOp
          /\ request[o].action = "metadata" => To(o) = "away"
  <2>1. CASE request[o].action = "move"
    BY <1>1, <1>3, <1>4, <1>5, <1>8, <2>1 DEF SetOf, From, To, Eligible, OnDisk, InPlace, Unsorted
  <2>2. CASE request[o].action \in {"undo", "metadata"}
    <3>1. p = request[o].ref /\ From(o) = "away" /\ Sorted(p)
      BY <1>1, <1>3, <2>2 DEF SetOf, From, RequestOK
    <3>2. consumed[p] = NoOp /\ b = token[p]
      BY <1>4, <1>5, <2>2, <3>1 DEF Eligible, Authoritative
    <3>3. Artifact(b, p) /\ b \in Ops /\ p # o
      BY <1>1, <1>2, <3>1, <3>2 DEF TokenOK, Sorted, Completed, Artifact
    <3>4. /\ request[o].action = "undo" => To(o) = "home" /\ place[p]["home"] = NoOp
          /\ request[o].action = "metadata" => To(o) = "away"
      BY <1>5, <3>1 DEF To, Eligible
    <3> QED BY <2>2, <3>1, <3>2, <3>3, <3>4
  <2> QED BY <1>9, <2>1, <2>2
<1>11. /\ \A k \in Ops : RequestOK(k)'
       /\ \A z \in Ops, q \in Ops : Artifact(z, q) => Artifact(z, q)'
       /\ \A k \in Ops \ {o} : Planned(k) => Base(k) # o
  BY <1>1, <1>2, <1>5, <1>8, OthersKept
<1>12. ASSUME NEW k \in Ops PROVE ManifestOK(k)' /\ TokenOK(k)'
  <2>1. ASSUME k = o PROVE ManifestOK(k)'
    <3>1. Base(o)' = o /\ SetOf(o)' = p
      BY <1>3, <1>5, <1>8 DEF Base, SetOf
    <3>2. request[o].action # "move" => Artifact(b, p)'
      BY <1>10, <1>11
    <3>3. request[o].action # "move" => Artifact(manifest[o].before, SetOf(Base(o)))'
      BY <1>8, <3>1, <3>2 DEF Artifact
    <3>4. Recorded(o)'
      BY <1>5, <1>8, <1>9, <1>10, <3>1, <3>3 DEF Recorded, Completed
    <3> QED BY <1>8, <2>1, <3>4 DEF ManifestOK, Fresh
  <2>2. ASSUME k # o PROVE ManifestOK(k)'
    <3> SUFFICES Planned(k) => Recorded(k)'
      BY <1>1, <1>8, <2>2 DEF ManifestOK, Planned, Fresh
    <3> SUFFICES ASSUME Planned(k)
                 PROVE  Recorded(k)'
      OBVIOUS
    <3>1. Recorded(k) /\ Base(k) \in Ops \ {o}
      BY <1>1, <1>11, <2>2 DEF ManifestOK, Recorded
    <3>2. Base(k)' = Base(k) /\ SetOf(Base(k))' = SetOf(Base(k)) /\ manifest'[k] = manifest[k]
      BY <1>5, <1>8, <2>2 DEF Base, SetOf
    <3>3. request[Base(k)].action # "move" => Artifact(manifest[k].before, SetOf(Base(k)))'
      <4>1. Artifact(manifest[k].before, SetOf(Base(k))) => Artifact(manifest[k].before, SetOf(Base(k)))'
        BY <1>2, <1>5, <1>8, <2>2, <3>2 DEF Artifact, Completed, SetOf
      <4> QED BY <3>1, <4>1 DEF Recorded
    <3> QED BY <1>5, <1>8, <2>2, <3>1, <3>2, <3>3 DEF Recorded
  <2>3. TokenOK(k)'
    <3>1. Sorted(k)' => Sorted(k)
      BY <1>5, <1>8 DEF Sorted, Completed
    <3>2. consumed[k] # NoOp => consumed[k] \in Ops \ {o}
      BY <1>1, <1>2 DEF TypeOK, OpsOrNone, TokenOK, Completed
    <3>3. resolved[k] # NoOp => k # o
      BY <1>8
    <3> QED BY <1>1, <1>5, <1>8, <1>11, <3>1, <3>2, <3>3 DEF TokenOK, Artifact
  <2> QED BY <2>1, <2>2, <2>3
<1>13. RunDisk'
  <2>1. request[o].action = "metadata" => consumed[request[o].ref] = NoOp
    BY <1>10
  <2>2. request[o].action = "move" /\ place'[o]["away"] = o => place'[o]["home"] = NoOp
    BY <1>7, <1>10, OpsAssumption DEF Touches
  <2> QED BY <1>5, <2>1, <2>2 DEF RunDisk
<1>14. \A k \in Ops : /\ Open(k) => Open(k)' /\ Base(k)' = Base(k) /\ manifest'[k] = manifest[k] /\ k # o
                      /\ k # o /\ Open(k)' => Open(k)
  BY <1>5, <1>8 DEF Open, Planned, Base
<1>15. \A z \in Ops : ~Fresh(z) => z # o /\ ~Fresh(z)' /\ manifest'[z] = manifest[z]
  BY <1>8 DEF Fresh
<1>16. \A z \in Ops : SetOf(z)' = SetOf(z) /\ From(z)' = From(z) /\ To(z)' = To(z)
  BY <1>5 DEF SetOf, From, To
<1>17. \A z \in Ops \ {o}, r \in Ops, t \in {"home", "away"} : place'[r][t] = z => place[r][t] = z
  BY <1>7, OpsAssumption DEF Touches
<1>18. \A k \in Ops : Planned(k) => SetOf(Base(k)) \in Ops
  BY BaseType
<1>19. ASSUME NEW q \in Ops PROVE OnDisk(q)'
  <2>1. OnDisk(q)
    BY <1>1
  <2>2. Placed(q)'
    <3>1. \A z \in Ops : Output(z, q) => Output(z, q)' /\ z # o
      BY <1>15, <1>16 DEF Output
    <3>2. publish => Output(o, p)'
      BY <1>3, <1>8, <1>16 DEF Output, Fresh
    <3>3. CASE q # p
      BY <1>1, <1>5, <1>7, <2>1, <3>1, <3>3 DEF Touches, OnDisk, Placed, TypeOK, OpsOrNone
    <3>4. CASE q = p
      BY <1>1, <1>5, <1>7, <1>10, <2>1, <3>1, <3>2, <3>4 DEF Touches, OnDisk, Placed, TypeOK, OpsOrNone
    <3> QED BY <3>3, <3>4
  <2>3. NoOutput(q)'
    <3> SUFFICES ASSUME Planned(q)', RolledBack(q)'
                 PROVE  (place[SetOf(Base(q))][To(Base(q))] # Base(q))'
      BY DEF NoOutput
    <3>1. q # o
      BY <1>5, <1>8, <1>9 DEF RolledBack, Completed
    <3>2. Planned(q) /\ RolledBack(q) /\ Base(q)' = Base(q)
      BY <1>5, <1>8, <3>1 DEF Planned, RolledBack, Base
    <3>3. Base(q) \in Ops \ {o} /\ SetOf(Base(q)) \in Ops
      BY <1>1, <1>11, <1>18, <3>1, <3>2 DEF ManifestOK, Recorded
    <3> QED BY <1>16, <1>17, <2>1, <3>2, <3>3 DEF OnDisk, NoOutput, To
  <2>4. Retained(q)'
    <3> SUFFICES ASSUME Open(q)', (OutputAt(manifest[q]) = manifest[q].of)'
                 PROVE  held'[manifest'[q].of]
      BY DEF Retained
    <3>1. CASE q = o
      <4>1. place'[p][To(o)] = o
        BY <1>3, <1>8, <1>16, <3>1, OpsAssumption DEF OutputAt
      <4>2. place[p][To(o)] # o
        <5>1. CASE place[p][To(o)] \in {NoOp, p}
          BY <1>10, <5>1, OpsAssumption
        <5>2. CASE place[p][To(o)] \notin {NoOp, p}
          BY <1>1, <1>8, <5>2 DEF OnDisk, Placed, Output, To
        <5> QED BY <5>1, <5>2
      <4> QED BY <1>7, <1>8, <3>1, <4>1, <4>2, OpsAssumption DEF Touches, To
    <3>2. CASE q # o
      <4>1. Open(q) /\ manifest'[q] = manifest[q]
        BY <1>8, <1>14, <3>2
      <4>2. Base(q) \in Ops \ {o} /\ SetOf(Base(q)) \in Ops
        BY <1>1, <1>11, <1>18, <3>2, <4>1 DEF ManifestOK, Recorded, Open, Planned
      <4>3. OutputAt(manifest[q]) = manifest[q].of
        BY <1>16, <1>17, <4>1, <4>2, OpsAssumption DEF OutputAt, Base, To
      <4> QED BY <1>7, <2>1, <4>1, <4>2, <4>3 DEF Touches, OnDisk, Retained, Base
    <3> QED BY <3>1, <3>2
  <2>5. InPlace(q)'
    <3> SUFFICES ASSUME Unsorted(q)'
                 PROVE  place'[q]["home"] = q /\ place'[q]["away"] = NoOp
      BY DEF InPlace
    <3>1. q # p
      BY <1>1, <1>5, <1>8, <1>10 DEF Unsorted, Fresh, Sorted, Completed, TokenOK
    <3>2. Unsorted(q)
      BY <1>5, <1>8, <1>10, <3>1 DEF Unsorted, Fresh
    <3> QED BY <1>7, <2>1, <3>1, <3>2 DEF Touches, OnDisk, InPlace
  <2>6. UndoneOK(q)'
    <3>1. Sorted(q)' => Sorted(q)
      BY <1>5, <1>8 DEF Sorted, Completed
    <3>2. q = p => ~Sorted(q)' \/ consumed[q] = NoOp
      BY <1>5, <1>8, <1>10 DEF Sorted, Completed
    <3> QED BY <1>5, <1>7, <2>1, <3>1, <3>2 DEF Touches, OnDisk, UndoneOK
  <2>7. LiveOK(q)'
    <3> SUFFICES ASSUME Sorted(q)', consumed[q] = NoOp
                 PROVE  LiveAway(q)' /\ LiveHome(q)'
      BY <1>5 DEF LiveOK
    <3>1. Sorted(q) /\ LiveAway(q) /\ LiveHome(q)
      BY <1>5, <1>8, <2>1 DEF Sorted, Completed, OnDisk, LiveOK
    <3>2. CASE q # p
      <4>1. place'[q] = place[q]
        BY <1>7, <3>2 DEF Touches
      <4>2. LiveAway(q)'
        <5>1. ASSUME NEW k \in Ops, Open(k), SetOf(Base(k)) = q, manifest[k].before = token[q]
              PROVE  Open(k)' /\ SetOf(Base(k))' = q /\ manifest'[k].before = token'[q]
          <6>1. Base(k) \in Ops
            BY <1>1, <5>1 DEF ManifestOK, Recorded, Open, Planned
          <6>2. Open(k)' /\ Base(k)' = Base(k) /\ manifest'[k] = manifest[k]
            BY <1>14, <5>1
          <6>3. SetOf(Base(k))' = SetOf(Base(k))
            BY <1>5, <6>2 DEF SetOf
          <6> QED BY <1>5, <5>1, <6>2, <6>3
        <5> QED BY <1>5, <3>1, <4>1, <5>1 DEF LiveAway
      <4>3. LiveHome(q)'
        BY <1>14, <3>1, <4>1 DEF LiveHome
      <4> QED BY <4>2, <4>3
    <3>3. CASE q = p
      <4>1. Open(o)' /\ Base(o)' = o
        BY <1>8 DEF Open, Planned, Base
      <4>2. request[o].action \in {"undo", "metadata"}
        BY <1>8, <1>9, <1>10, <3>1, <3>3 DEF Sorted, Fresh, Completed
      <4>3. LiveAway(q)'
        <5>1. SetOf(o)' = p /\ manifest'[o].before = token'[p]
          BY <1>3, <1>5, <1>8, <1>10, <1>16, <4>2
        <5> QED BY <3>3, <4>1, <5>1 DEF LiveAway
      <4>4. LiveHome(q)'
        <5>1. place'[p]["home"] \in {place[p]["home"], NoOp, o}
          BY <1>7 DEF Touches
        <5> QED BY <1>14, <3>1, <3>3, <4>1, <5>1 DEF LiveHome
      <4> QED BY <4>3, <4>4
    <3> QED BY <3>2, <3>3
  <2> QED BY <2>2, <2>3, <2>4, <2>5, <2>6, <2>7 DEF OnDisk
<1> QED BY <1>11, <1>12, <1>13, <1>19 DEF JInv, Records, Disk

\* The rows of other operations stay true to their manifests.
LEMMA OthersRecorded ==
  ASSUME JInv, NEW o \in Ops, state[o] \in {"INTENT", "STAGED"}, state'[o] # "absent", UNCHANGED request,
         \A k \in Ops \ {o} : state'[k] = state[k] /\ manifest'[k] = manifest[k]
  PROVE  \A k \in Ops \ {o} : ManifestOK(k)'
<1> SUFFICES ASSUME NEW k \in Ops \ {o}
             PROVE  ManifestOK(k)'
  OBVIOUS
<1>1. ManifestOK(k)
  BY DEF JInv, Records
<1>2. ASSUME Planned(k) PROVE Recorded(k)'
  <2>1. Recorded(k) /\ Base(k) \in Ops \ {o}
    BY <1>1, <1>2, OthersKept DEF ManifestOK, Recorded
  <2>2. Base(k)' = Base(k) /\ SetOf(Base(k))' = SetOf(Base(k)) /\ manifest'[k] = manifest[k]
    BY DEF Base, SetOf
  <2>3. request[Base(k)].action # "move" => Artifact(manifest[k].before, SetOf(Base(k)))'
    <3>1. Artifact(manifest[k].before, SetOf(Base(k))) => Artifact(manifest[k].before, SetOf(Base(k)))'
      BY <2>2 DEF Artifact, Completed, SetOf
    <3> QED BY <2>1, <3>1 DEF Recorded
  <2> QED BY <2>1, <2>2, <2>3 DEF Recorded
<1> QED BY <1>1, <1>2 DEF ManifestOK, Planned, Fresh

\* What lies at the names of a sort stays an output while no row becomes fresh again.
LEMMA PlacedKept ==
  ASSUME JInv, NEW q \in Ops, UNCHANGED <<request, place>>,
         \A z \in Ops : ~Fresh(z) => ~Fresh(z)' /\ manifest'[z] = manifest[z]
  PROVE  Placed(q)'
<1>1. Placed(q) /\ TypeOK
  BY DEF JInv, IInv, Disk, OnDisk
<1>2. \A z \in Ops : Output(z, q) => Output(z, q)'
  BY DEF Output, SetOf
<1> QED BY <1>1, <1>2 DEF Placed, TypeOK, OpsOrNone

\* A recovery adopts the manifest of a row that is open, and leaves the files.
LEMMA RecoverJInv ==
  ASSUME JInv, IInv', Recover
  PROVE  JInv'
<1>1. TypeOK /\ RequestsRecorded /\ \A k \in Ops : RequestOK(k) /\ ManifestOK(k) /\ TokenOK(k) /\ OnDisk(k)
  BY DEF JInv, IInv, Records, Disk
<1>2. PICK r \in Ops : run = [op |-> r, step |-> "begun"] /\ state[r] = "INTENT"
  BY <1>1, RunningOp DEF JInv, IInv, TypeOK, RunCoherent, Recover
<1>3. request[r].action = "recover" /\ request[r].ref \in Ops
  BY <1>1, <1>2 DEF Recover, RequestsRecorded
<1>4. PICK t \in Ops : t = request[r].ref
  BY <1>3
<1>5. /\ state[t] = "recovery_required" /\ resolved[t] = NoOp /\ Planned(t) /\ t # r
      /\ run'.step = "rollback" /\ run'.op = r
      /\ UNCHANGED <<request, token, consumed, resolved, place, held>>
  BY <1>2, <1>3, <1>4 DEF Recover, Eligible, Recoverable, Planned, disk
<1>6. /\ manifest'[r] = manifest[t] /\ state'[r] = "STAGED"
      /\ \A k \in Ops \ {r} : manifest'[k] = manifest[k] /\ state'[k] = state[k]
  BY <1>1, <1>2, <1>4 DEF Recover, TypeOK
<1>7. Fresh(r) /\ ~Planned(r) /\ resolved[r] = NoOp /\ Recorded(t) /\ Base(t) \in Ops \ {r}
  BY <1>1, <1>2, <1>5, <1>6, OthersKept DEF Fresh, ManifestOK, TokenOK, Recorded
<1>8. /\ \A k \in Ops : RequestOK(k)'
      /\ \A z \in Ops, q \in Ops : Artifact(z, q) => Artifact(z, q)'
      /\ \A k \in Ops \ {r} : ManifestOK(k)'
  BY <1>1, <1>2, <1>5, <1>6, OthersKept, OthersRecorded
<1>9. PICK x \in Ops \ {r} : x = Base(t)
  BY <1>7
<1>10. state[x] = "recovery_required"
  BY <1>5, <1>7, <1>9 DEF Recorded
<1>11. ManifestOK(r)'
  <2>1. Base(r)' = x /\ SetOf(x)' = SetOf(x)
    BY <1>5, <1>6, <1>9 DEF Base, SetOf
  <2>2. /\ manifest[x] = manifest[t] /\ request[x].action \in {"move", "undo", "metadata"}
        /\ request[x].action = "move" => manifest[t].before = x
        /\ request[x].action # "move" => Artifact(manifest[t].before, SetOf(x))
    BY <1>7, <1>9 DEF Recorded
  <2>3. request[x].action # "move" => Artifact(manifest[t].before, SetOf(x))'
    BY <1>2, <1>5, <1>6, <2>2 DEF Artifact, Completed, SetOf
  <2>4. manifest'[r].before = manifest[t].before /\ manifest'[x] = manifest'[r]
    BY <1>6, <2>2
  <2>5. Recorded(r)'
    BY <1>3, <1>5, <1>6, <1>10, <2>1, <2>2, <2>3, <2>4 DEF Recorded, Completed
  <2>6. Planned(r)' /\ ~Fresh(r)'
    BY <1>5, <1>6 DEF Planned, Fresh
  <2> QED BY <2>5, <2>6 DEF ManifestOK
<1>12. ASSUME NEW k \in Ops PROVE TokenOK(k)'
  <2>1. Sorted(k)' => Sorted(k)
    BY <1>5, <1>6 DEF Sorted, Completed
  <2>2. consumed[k] # NoOp => consumed[k] \in Ops \ {r}
    BY <1>1, <1>2 DEF TypeOK, OpsOrNone, TokenOK, Completed
  <2>3. resolved[k] # NoOp => k # r
    BY <1>7
  <2> QED BY <1>1, <1>5, <1>6, <1>8, <2>1, <2>2, <2>3 DEF TokenOK, Artifact
<1>13. RunDisk'
  BY <1>3, <1>4, <1>5, <1>6 DEF RunDisk
<1>14. \A k \in Ops : /\ Open(k) => Open(k)' /\ Base(k)' = Base(k) /\ manifest'[k] = manifest[k]
                      /\ k # r /\ Open(k)' => Open(k)
  BY <1>5, <1>6, <1>7 DEF Open, Planned, Base
<1>15. ASSUME NEW q \in Ops PROVE OnDisk(q)'
  <2>1. OnDisk(q)
    BY <1>1
  <2>2. Placed(q)'
    BY <1>2, <1>5, <1>6, PlacedKept DEF Fresh
  <2>3. NoOutput(q)'
    <3>1. Planned(q)' /\ RolledBack(q)' => q # r /\ Planned(q) /\ RolledBack(q) /\ Base(q)' = Base(q)
      BY <1>5, <1>6, <1>7 DEF Planned, RolledBack, Completed, Base
    <3> QED BY <1>5, <2>1, <3>1 DEF OnDisk, NoOutput, SetOf, To
  <2>4. Retained(q)'
    <3>1. CASE q # r
      BY <1>5, <1>6, <1>14, <2>1, <3>1 DEF OnDisk, Retained, OutputAt, SetOf, To
    <3>2. CASE q = r
      <4>1. Retained(t) /\ Open(t)
        BY <1>1, <1>5 DEF OnDisk, Open, Planned
      <4> QED BY <1>5, <1>6, <3>2, <4>1 DEF Retained, OutputAt, SetOf, To
    <3> QED BY <3>1, <3>2
  <2>5. InPlace(q)'
    BY <1>2, <1>3, <1>5, <1>6, <2>1 DEF OnDisk, InPlace, Unsorted, Fresh
  <2>6. Sorted(q)' => Sorted(q)
    BY <1>5, <1>6 DEF Sorted, Completed
  <2>7. LiveAway(q) => LiveAway(q)'
    <3>1. ASSUME NEW k \in Ops, Open(k), SetOf(Base(k)) = q, manifest[k].before = token[q]
          PROVE  Open(k)' /\ SetOf(Base(k))' = q /\ manifest'[k].before = token'[q]
      BY <1>5, <1>14, <3>1 DEF SetOf
    <3> QED BY <1>5, <3>1 DEF LiveAway
  <2>8. LiveHome(q) => LiveHome(q)'
    BY <1>5, <1>14 DEF LiveHome
  <2>9. UndoneOK(q)' /\ LiveOK(q)'
    BY <1>5, <2>1, <2>6, <2>7, <2>8 DEF OnDisk, UndoneOK, LiveOK
  <2> QED BY <2>2, <2>3, <2>4, <2>5, <2>9 DEF OnDisk
<1> QED BY <1>8, <1>11, <1>12, <1>13, <1>15 DEF JInv, Records, Disk

\* A success records exactly what it published; a failing journal call records nothing.
LEMMA CompleteJInv ==
  ASSUME JInv, IInv', Complete
  PROVE  JInv'
<1>1. TypeOK /\ RequestsRecorded /\ \A k \in Ops : RequestOK(k) /\ ManifestOK(k) /\ TokenOK(k) /\ OnDisk(k)
  BY DEF JInv, IInv, Records, Disk
<1>2. PICK o \in Ops : /\ run = [op |-> o, step |-> "worked"] /\ state[o] = "STAGED"
                       /\ request[o].action # "recover"
                       /\ request[o].action = "undo" => consumed[request[o].ref] = NoOp
  BY <1>1, RunningOp DEF JInv, IInv, TypeOK, RunCoherent, Complete
<1>3. PICK p \in Ops : p = SetOf(o)
  BY <1>1, <1>2, SetOfType
<1>4. /\ Published(o) /\ run' = Idle
      /\ UNCHANGED <<request, manifest, resolved, place, held>>
  BY <1>2 DEF Complete, disk
<1>5. RunDisk'
  BY <1>4 DEF RunDisk, Idle
<1>6. CASE UNCHANGED <<state, receipts, token, consumed>>
  BY <1>4, <1>5, <1>6, ClosingInv
<1>7. CASE /\ \E st \in Completed : state' = [state EXCEPT ![o] = st]
           /\ token' = CASE request[o].action = "move"     -> [token EXCEPT ![o] = o]
                         [] request[o].action = "metadata" -> [token EXCEPT ![request[o].ref] = o, ![o] = o]
                         [] OTHER                          -> token
           /\ consumed' = Consumes(o)
  <2>1. /\ state'[o] \in Completed /\ \A k \in Ops \ {o} : state'[k] = state[k]
        /\ manifest[o].publish /\ place[p][To(o)] = o
    BY <1>1, <1>3, <1>4, <1>7 DEF TypeOK, Published
  <2>2. /\ Planned(o) /\ Recorded(o) /\ Base(o) = o /\ resolved[o] = NoOp
    BY <1>1, <1>2 DEF ManifestOK, TokenOK, Recorded
  <2>3. \/ request[o].action = "move" /\ p = o
        \/ request[o].action \in {"undo", "metadata"} /\ p = request[o].ref /\ Sorted(p) /\ p # o
    BY <1>1, <1>2, <1>3, <2>2 DEF Recorded, SetOf, RequestOK, Sorted, Completed
  <2>4. /\ request[o].action = "undo" => token' = token /\ consumed'[p] = o
        /\ request[o].action # "undo" => token'[p] = o /\ consumed' = consumed
        /\ \A k \in Ops \ {o, p} : token'[k] = token[k]
        /\ \A k \in Ops \ {p} : consumed'[k] = consumed[k]
    <3>1. CASE request[o].action = "move"
      BY <1>1, <1>7, <2>3, <3>1 DEF TypeOK, Consumes
    <3>2. CASE request[o].action = "undo"
      BY <1>1, <1>7, <2>3, <3>2 DEF TypeOK, Consumes
    <3>3. CASE request[o].action = "metadata"
      BY <1>1, <1>7, <2>3, <3>3 DEF TypeOK, Consumes
    <3> QED BY <2>3, <3>1, <3>2, <3>3
  <2>5. /\ \A k \in Ops : RequestOK(k)'
        /\ \A z \in Ops, q \in Ops : Artifact(z, q) => Artifact(z, q)'
        /\ \A k \in Ops \ {o} : ManifestOK(k)'
    BY <1>1, <1>2, <1>4, <2>1, OthersKept, OthersRecorded DEF Completed
  <2>6. ManifestOK(o)'
    <3>1. Base(o)' = o /\ SetOf(o)' = SetOf(o) /\ Planned(o)'
      BY <1>4, <2>2 DEF Base, SetOf, Planned
    <3>2. request[o].action # "move" => Artifact(manifest[o].before, SetOf(o))'
      <4>1. Artifact(manifest[o].before, SetOf(o)) => Artifact(manifest[o].before, SetOf(o))'
        BY <1>4, <2>1 DEF Artifact, SetOf
      <4> QED BY <2>2, <4>1 DEF Recorded
    <3>3. Recorded(o)'
      BY <1>2, <1>4, <2>1, <2>2, <3>1, <3>2 DEF Recorded
    <3> QED BY <2>1, <3>1, <3>3 DEF ManifestOK, Fresh, Completed
  <2>7. ASSUME NEW k \in Ops PROVE TokenOK(k)'
    <3>1. Sorted(k)' => Artifact(token[k], k)'
      <4>1. CASE k = p /\ request[o].action # "undo"
        <5>1. Artifact(o, p)'
          BY <1>3, <1>4, <2>1, <2>3, <4>1 DEF Artifact, SetOf
        <5>2. token'[k] = o
          BY <2>4, <4>1
        <5> QED BY <4>1, <5>1, <5>2 DEF Artifact, SetOf
      <4>2. CASE k # p \/ request[o].action = "undo"
        <5> SUFFICES ASSUME Sorted(k)'
                     PROVE  Artifact(token[k], k)'
          OBVIOUS
        <5>1. k # o
          BY <1>4, <2>3, <4>2 DEF Sorted
        <5>2. Sorted(k) /\ token'[k] = token[k]
          BY <1>4, <2>1, <2>4, <4>2, <5>1 DEF Sorted
        <5>3. Artifact(token[k], k)
          BY <1>1, <5>2 DEF TokenOK
        <5> QED BY <1>4, <2>1, <5>2, <5>3 DEF Artifact, SetOf
      <4> QED BY <4>1, <4>2
    <3>2. (consumed[k] # NoOp => /\ state[consumed[k]] \in Completed
                                 /\ request[consumed[k]].action = "undo" /\ request[consumed[k]].ref = k)'
      <4>1. CASE k = p /\ request[o].action = "undo"
        BY <1>4, <2>1, <2>3, <2>4, <4>1
      <4>2. CASE k # p \/ request[o].action # "undo"
        <5>1. consumed'[k] = consumed[k]
          BY <2>4, <4>2
        <5>2. consumed[k] # NoOp => consumed[k] \in Ops
          BY <1>1 DEF TypeOK, OpsOrNone
        <5> QED BY <1>1, <1>4, <2>1, <5>1, <5>2 DEF TokenOK
      <4> QED BY <4>1, <4>2
    <3>3. (resolved[k] # NoOp => state[k] = "recovery_required")'
      BY <1>1, <1>4, <2>1, <2>2 DEF TokenOK
    <3> QED BY <3>1, <3>2, <3>3 DEF TokenOK
  <2>8. \A k \in Ops \ {o} : Open(k) => Open(k)' /\ Base(k)' = Base(k) /\ SetOf(Base(k))' = SetOf(Base(k))
    BY <1>4, <2>1 DEF Open, Base, SetOf
  <2>9. ASSUME NEW q \in Ops PROVE OnDisk(q)'
    <3>1. OnDisk(q)
      BY <1>1
    <3>2. Placed(q)'
      <4>1. \A z \in Ops : ~Fresh(z) => ~Fresh(z)' /\ manifest'[z] = manifest[z]
        BY <1>4, <2>1 DEF Fresh, Completed
      <4> QED BY <1>4, <4>1, PlacedKept
    <3>3. NoOutput(q)'
      <4>1. RolledBack(q)' => RolledBack(q)
        BY <1>2, <1>4, <2>1, <2>2 DEF RolledBack, Completed
      <4> QED BY <1>4, <3>1, <4>1 DEF OnDisk, NoOutput, Planned, Base, SetOf, To
    <3>4. Retained(q)'
      <4>1. Open(q)' => Open(q)
        BY <1>4, <2>1, <2>2 DEF Open, Completed
      <4> QED BY <1>4, <3>1, <4>1 DEF OnDisk, Retained, OutputAt, SetOf, To
    <3>5. InPlace(q)'
      <4>1. Unsorted(q)' => Unsorted(q)
        BY <1>4, <2>1, <2>2 DEF Unsorted, Fresh, Completed
      <4> QED BY <1>4, <3>1, <4>1 DEF OnDisk, InPlace
    <3>6. UndoneOK(q)'
      <4> SUFFICES ASSUME Sorted(q)', consumed'[q] # NoOp
                   PROVE  place[q]["home"] = consumed'[q]
        BY <1>4 DEF UndoneOK
      <4>1. CASE q = p /\ request[o].action = "undo"
        BY <2>1, <2>4, <4>1 DEF To
      <4>2. CASE q # p \/ request[o].action # "undo"
        <5>1. consumed[q] # NoOp /\ consumed'[q] = consumed[q]
          BY <2>4, <4>2
        <5>2. Sorted(q)
          <6>1. CASE q = o
            <7>1. /\ consumed[o] \in Ops /\ request[consumed[o]].action = "undo" /\ request[consumed[o]].ref = o
                  /\ RequestOK(consumed[o])
              BY <1>1, <5>1, <6>1 DEF TokenOK, TypeOK, OpsOrNone
            <7> QED BY <6>1, <7>1 DEF RequestOK
          <6> QED BY <1>4, <2>1, <6>1 DEF Sorted
        <5> QED BY <3>1, <5>1, <5>2 DEF OnDisk, UndoneOK
      <4> QED BY <4>1, <4>2
    <3>7. LiveOK(q)'
      <4> SUFFICES ASSUME Sorted(q)', consumed'[q] = NoOp
                   PROVE  LiveAway(q)' /\ LiveHome(q)'
        BY DEF LiveOK
      <4>1. CASE q = p /\ request[o].action = "move"
        <5>1. place[p]["away"] = o /\ token'[p] = o /\ q = o
          BY <2>1, <2>3, <2>4, <4>1 DEF To
        <5>2. place[p]["home"] = NoOp
          BY <1>2, <4>1, <5>1 DEF JInv, RunDisk
        <5> QED BY <1>4, <4>1, <5>1, <5>2 DEF LiveAway, LiveHome
      <4>2. CASE q = p /\ request[o].action = "metadata"
        <5>1. place[p]["away"] = o /\ token'[p] = o /\ consumed[p] = NoOp /\ Sorted(p)
          BY <2>1, <2>3, <2>4, <4>2 DEF To
        <5>2. LiveHome(p)
          BY <1>1, <5>1 DEF OnDisk, LiveOK
        <5>3. place[p]["home"] # o
          BY <1>1, <2>3, <4>2, OpsAssumption DEF OnDisk, Placed
        <5> QED BY <1>4, <2>2, <2>8, <4>2, <5>1, <5>2, <5>3 DEF LiveAway, LiveHome
      <4>3. CASE q = p /\ request[o].action = "undo"
        BY <2>4, <4>3, OpsAssumption
      <4>4. CASE q # p
        <5>1. q # o
          BY <1>4, <2>3, <4>4 DEF Sorted
        <5>2. Sorted(q) /\ consumed[q] = NoOp /\ token'[q] = token[q]
          BY <1>4, <2>1, <2>4, <4>4, <5>1 DEF Sorted
        <5>3. LiveAway(q) /\ LiveHome(q)
          BY <3>1, <5>2 DEF OnDisk, LiveOK
        <5>4. LiveAway(q)'
          <6>1. ASSUME NEW k \in Ops, Open(k), SetOf(Base(k)) = q, manifest[k].before = token[q]
                PROVE  Open(k)' /\ SetOf(Base(k))' = q /\ manifest'[k].before = token'[q]
            <7>1. k # o
              BY <1>3, <2>2, <4>4, <6>1
            <7> QED BY <1>4, <2>8, <5>2, <6>1, <7>1
          <6> QED BY <1>4, <5>2, <5>3, <6>1 DEF LiveAway
        <5>5. LiveHome(q)'
          <6>1. ASSUME NEW k \in Ops, Open(k), Base(k) = place[q]["home"]
                PROVE  Open(k)' /\ Base(k)' = place'[q]["home"]
            <7>1. k # o
              BY <1>2, <1>3, <2>2, <3>1, <4>4, <5>1, <6>1, OpsAssumption DEF OnDisk, Placed, Output
            <7> QED BY <1>4, <2>8, <6>1, <7>1
          <6> QED BY <1>4, <5>3, <6>1 DEF LiveHome
        <5> QED BY <5>4, <5>5
      <4> QED BY <2>3, <4>1, <4>2, <4>3, <4>4
    <3> QED BY <3>2, <3>3, <3>4, <3>5, <3>6, <3>7 DEF OnDisk
  <2> QED BY <1>5, <2>5, <2>6, <2>7, <2>9 DEF JInv, Records, Disk
<1> QED BY <1>2, <1>6, <1>7 DEF Complete, Settle

\* What a rollback of manifest m may do to the names of sort p: the output it recorded
\* goes away, and what it took comes back to the name it was taken from.
Returns(m, p) ==
  /\ \A k \in Ops \ {p} : place'[k] = place[k]
  /\ \A s \in {"home", "away"} :
       \/ place'[p][s] = place[p][s]
       \/ /\ place[p][s] \in {NoOp, m.of} /\ place'[p][s] \in {NoOp, m.before}
          /\ place[p][s] = m.of => s = To(m.of)
          /\ place'[p][s] = m.before => s = From(m.of)

\* Every part of a rollback, done or not, is of that kind.
LEMMA RollbackReturns ==
  ASSUME TypeOK, NEW m \in Manifest, m.of \in Ops, m.before \in Ops, NEW p \in Ops, p = SetOf(m.of),
         place' \in {place, Withdrawn(m), Restored(m)}
  PROVE  Returns(m, p)
<1> DEFINE x == m.of
           W == Withdrawn(m)
           R == Restored(m)
<1>1. From(x) \in {"home", "away"} /\ To(x) \in {"home", "away"}
  BY DEF From, To
<1>2. W \in [Ops -> [{"home", "away"} -> OpsOrNone]]
  BY RollbackPlaces
<1>3. /\ \A k \in Ops \ {p} : W[k] = place[k]
      /\ \A s \in {"home", "away"} : W[p][s] # place[p][s] => W[p][s] = NoOp /\ place[p][s] = x /\ s = To(x)
  <2>1. CASE OutputAt(m) = x
    <3>1. place[p][To(x)] = x
      BY <2>1, OpsAssumption DEF OutputAt
    <3>2. W = [place EXCEPT ![p][To(x)] = NoOp]
      BY <2>1 DEF Withdrawn
    <3>3. /\ \A k \in Ops \ {p} : W[k] = place[k]
          /\ \A s \in {"home", "away"} : W[p][s] = IF s = To(x) THEN NoOp ELSE place[p][s]
      BY <1>1, <3>2 DEF TypeOK, OpsOrNone
    <3> QED BY <3>1, <3>3
  <2>2. CASE OutputAt(m) # x
    BY <2>2 DEF Withdrawn
  <2> QED BY <2>1, <2>2
<1>4. /\ \A k \in Ops \ {p} : R[k] = W[k]
      /\ \A s \in {"home", "away"} : R[p][s] # W[p][s] => R[p][s] = m.before /\ W[p][s] = NoOp /\ s = From(x)
  <2>1. CASE held[x] /\ W[p][From(x)] = NoOp
    <3>1. R = [W EXCEPT ![p][From(x)] = m.before]
      BY <2>1 DEF Restored
    <3> HIDE DEF W, R
    <3>2. /\ \A k \in Ops \ {p} : R[k] = W[k]
          /\ \A s \in {"home", "away"} : R[p][s] = IF s = From(x) THEN m.before ELSE W[p][s]
      BY <1>1, <1>2, <3>1 DEF TypeOK, OpsOrNone
    <3> QED BY <2>1, <3>2
  <2>2. CASE ~(held[x] /\ W[p][From(x)] = NoOp)
    BY <2>2 DEF Restored
  <2> QED BY <2>1, <2>2
<1> HIDE DEF W, R
<1>5. place' \in {place, W, R}
  BY DEF W, R
<1> QED BY <1>3, <1>4, <1>5, OpsAssumption DEF Returns

\* A rollback that succeeds has put back what was taken, and its output is gone.
LEMMA RollbackUndoes ==
  ASSUME TypeOK, NEW m \in Manifest, m.of \in Ops, m.before \in Ops, NEW p \in Ops, p = SetOf(m.of),
         RollsBack(m), place' = Restored(m), m.before # m.of \/ From(m.of) # To(m.of),
         place[p][To(m.of)] = m.of => m.publish
  PROVE  place'[p][From(m.of)] = m.before /\ place'[p][To(m.of)] # m.of
<1> DEFINE x == m.of
           W == Withdrawn(m)
<1>1. From(x) \in {"home", "away"} /\ To(x) \in {"home", "away"}
  BY DEF From, To
<1>2. place'[p][From(x)] = m.before
  BY DEF RollsBack
<1>3. W[p][To(x)] # x
  <2>1. CASE OutputAt(m) = x
    <3>1. W = [place EXCEPT ![p][To(x)] = NoOp]
      BY <2>1 DEF Withdrawn
    <3>2. W[p][To(x)] = NoOp
      BY <1>1, <3>1 DEF TypeOK
    <3> QED BY <3>2, OpsAssumption
  <2>2. CASE OutputAt(m) # x
    BY <2>2 DEF Withdrawn, OutputAt
  <2> QED BY <2>1, <2>2
<1>4. CASE From(x) = To(x)
  BY <1>2, <1>4
<1>5. CASE From(x) # To(x)
  <2>1. W \in [Ops -> [{"home", "away"} -> OpsOrNone]]
    BY RollbackPlaces
  <2>2. place' = W \/ place' = [W EXCEPT ![p][From(x)] = m.before]
    BY DEF Restored
  <2> HIDE DEF W
  <2>3. place'[p][To(x)] = W[p][To(x)]
    BY <1>1, <1>5, <2>1, <2>2
  <2> QED BY <1>2, <1>3, <2>3
<1> QED BY <1>2, <1>4, <1>5

\* A rollback, complete or not, gives back what an open row took; only a complete one
\* closes the row, and the row it recovered.
LEMMA RollbackJInv ==
  ASSUME JInv, IInv', Rollback
  PROVE  JInv'
<1>1. TypeOK /\ RequestsRecorded /\ \A k \in Ops : RequestOK(k) /\ ManifestOK(k) /\ TokenOK(k) /\ OnDisk(k)
  BY DEF JInv, IInv, Records, Disk
<1>2. PICK o \in Ops : /\ run = [op |-> o, step |-> "rollback"] /\ state[o] = "STAGED"
                       /\ request[o].action = "recover" => manifest[o] = manifest[request[o].ref]
  BY <1>1, RunningOp DEF JInv, IInv, TypeOK, RunCoherent, RunDisk, Rollback
<1>3. PICK m \in Manifest : m = manifest[o]
  BY <1>1 DEF TypeOK
<1>4. Planned(o) /\ Recorded(o) /\ resolved[o] = NoOp
  BY <1>1, <1>2 DEF ManifestOK, TokenOK
<1>5. PICK x \in Ops : x = Base(o) /\ x = m.of /\ manifest[x] = m
  BY <1>3, <1>4 DEF Recorded, Base
<1>6. /\ state[x] \in {"STAGED", "recovery_required"}
      /\ request[x].action \in {"move", "undo", "metadata"}
      /\ Planned(x) /\ RequestOK(x)
  BY <1>1, <1>2, <1>3, <1>4, <1>5 DEF Recorded, Planned
<1>7. PICK p \in Ops : p = SetOf(x)
  BY <1>1, <1>6, SetOfType
<1>8. PICK b \in OpsOrNone : b = m.before
  BY DEF Manifest
<1>9. \/ request[x].action = "move" /\ p = x /\ b = x /\ From(x) = "home" /\ To(x) = "away"
      \/ /\ request[x].action \in {"undo", "metadata"} /\ p = request[x].ref /\ Sorted(p) /\ p # x
         /\ From(x) = "away" /\ Artifact(b, p) /\ b # x
         /\ request[x].action = "undo" => To(x) = "home"
         /\ request[x].action = "metadata" => To(x) = "away"
  <2>1. CASE request[x].action = "move"
    BY <1>3, <1>4, <1>5, <1>7, <1>8, <2>1 DEF Recorded, SetOf, From, To
  <2>2. CASE request[x].action \in {"undo", "metadata"}
    <3>1. p = request[x].ref /\ Sorted(p) /\ From(x) = "away"
      BY <1>6, <1>7, <2>2 DEF SetOf, RequestOK, From
    <3>2. Artifact(b, p)
      BY <1>3, <1>4, <1>5, <1>7, <1>8, <2>2 DEF Recorded
    <3>3. p # x /\ b # x
      BY <1>6, <3>1, <3>2 DEF Sorted, Artifact, Completed
    <3> QED BY <2>2, <3>1, <3>2, <3>3 DEF To
  <2> QED BY <1>6, <2>1, <2>2
<1>10. b \in Ops
  BY <1>9 DEF Artifact
<1>11. UNCHANGED <<request, manifest, token, consumed, held>> /\ run' = Idle
  BY DEF Rollback
<1>12. place' \in {place, Withdrawn(m), Restored(m)}
  BY <1>2, <1>3 DEF Rollback
<1>13. Returns(m, p)
  BY <1>1, <1>5, <1>7, <1>8, <1>10, <1>12, RollbackReturns
<1>14. place[p][To(x)] = x => m.publish
  <2>1. place[p][To(x)] = x /\ To(x) = "away" => Output(x, p)
    BY <1>1, OpsAssumption DEF OnDisk, Placed
  <2>2. place[p][To(x)] = x /\ To(x) = "home" => Output(x, p)
    BY <1>1, <1>9, OpsAssumption DEF OnDisk, Placed
  <2> QED BY <1>5, <2>1, <2>2 DEF Output, To
<1>15. PICK ok \in BOOLEAN :
         /\ ok => /\ place'[p][From(x)] = b /\ place'[p][To(x)] # x
                  /\ IF request[o].action = "recover"
                     THEN \/ state'[o] \in Completed /\ resolved' = [resolved EXCEPT ![request[o].ref] = o]
                          \/ state'[o] = "failed" /\ resolved' = resolved
                     ELSE state'[o] \in {"failed", "cancelled"} /\ resolved' = resolved
         /\ ~ok => state'[o] \in {"STAGED", "recovery_required"} /\ resolved' = resolved
  <2>1. CASE /\ RollsBack(m) /\ place' = Restored(m)
             /\ IF request[o].action = "recover"
                THEN /\ \E st \in Completed : Settle(o, st)
                     /\ resolved' = [resolved EXCEPT ![request[o].ref] = o]
                ELSE /\ \E st \in {"failed", "cancelled"} : Settle(o, st)
                     /\ UNCHANGED resolved
    <3>1. place'[p][From(x)] = b /\ place'[p][To(x)] # x
      BY <1>1, <1>5, <1>7, <1>8, <1>9, <1>10, <1>14, <2>1, RollbackUndoes
    <3>2. IF request[o].action = "recover"
          THEN state'[o] \in Completed /\ resolved' = [resolved EXCEPT ![request[o].ref] = o]
          ELSE state'[o] \in {"failed", "cancelled"} /\ resolved' = resolved
      BY <1>1, <2>1 DEF Settle, TypeOK
    <3> QED BY <3>1, <3>2
  <2>2. CASE (Settle(o, "recovery_required") \/ UNCHANGED state) /\ UNCHANGED resolved
    BY <1>1, <1>2, <2>2 DEF Settle, TypeOK
  <2>3. CASE /\ RollsBack(m) /\ place' = Restored(m)
             /\ request[o].action = "recover" /\ Settle(o, "failed") /\ UNCHANGED resolved
    <3>1. place'[p][From(x)] = b /\ place'[p][To(x)] # x
      BY <1>1, <1>5, <1>7, <1>8, <1>9, <1>10, <1>14, <2>3, RollbackUndoes
    <3>2. state'[o] = "failed"
      BY <1>1, <2>3 DEF Settle, TypeOK
    <3> QED BY <2>3, <3>1, <3>2
  <2> QED BY <1>2, <1>3, <2>1, <2>2, <2>3 DEF Rollback
<1>16. \A k \in Ops \ {o} : state'[k] = state[k]
  BY <1>1, <1>2 DEF Rollback, Settle, TypeOK
<1>17. state'[o] \notin {"absent", "INTENT"}
  BY <1>15 DEF Completed
<1>18. request[o].action = "recover" => /\ request[o].ref \in Ops /\ request[o].ref # o
                                        /\ state[request[o].ref] = "recovery_required"
  BY <1>1, <1>2 DEF RequestsRecorded, RequestOK
<1>19. \A k \in Ops : resolved'[k] # resolved[k] => ok /\ request[o].action = "recover" /\ k = request[o].ref
  BY <1>1, <1>15, <1>18 DEF TypeOK
<1>20. /\ \A k \in Ops : RequestOK(k)'
       /\ \A z \in Ops, q \in Ops : Artifact(z, q) => Artifact(z, q)'
       /\ \A k \in Ops \ {o} : ManifestOK(k)'
  BY <1>1, <1>2, <1>11, <1>16, <1>17, OthersKept, OthersRecorded
<1>21. ManifestOK(o)'
  <2>1. Base(o)' = x /\ SetOf(x)' = SetOf(x) /\ Planned(o)'
    BY <1>4, <1>5, <1>11 DEF Base, SetOf, Planned
  <2>2. request[x].action # "move" => Artifact(m.before, SetOf(x))'
    BY <1>7, <1>8, <1>9, <1>10, <1>11, <1>20, <2>1 DEF Artifact
  <2>3. request[o].action = "recover" => state'[x] = "recovery_required"
    <3> SUFFICES ASSUME request[o].action = "recover" PROVE state'[x] = "recovery_required"
      OBVIOUS
    <3>1. state[x] = "recovery_required"
      BY <1>4, <1>5 DEF Recorded
    <3> QED BY <1>2, <1>16, <3>1
  <2>4. state'[x] \notin Completed
    <3>1. CASE x = o
      <4>1. request[o].action # "recover"
        BY <1>6, <3>1
      <4> QED BY <1>15, <3>1, <4>1 DEF Completed
    <3> QED BY <1>6, <1>16, <3>1 DEF Completed
  <2>5. Recorded(o)'
    BY <1>3, <1>4, <1>5, <1>11, <2>1, <2>2, <2>3, <2>4 DEF Recorded
  <2> QED BY <1>17, <2>1, <2>5 DEF ManifestOK, Fresh
<1>22. ASSUME NEW k \in Ops PROVE TokenOK(k)' /\ (Sorted(k)' <=> Sorted(k))
  <2>1. Sorted(k)' <=> Sorted(k)
    BY <1>2, <1>11, <1>15, <1>16 DEF Sorted, Completed
  <2>2. consumed[k] # NoOp => consumed[k] \in Ops \ {o}
    BY <1>1, <1>2 DEF TypeOK, OpsOrNone, TokenOK, Completed
  <2>3. (resolved[k] # NoOp => state[k] = "recovery_required")'
    BY <1>1, <1>4, <1>16, <1>18, <1>19 DEF TokenOK
  <2>4. Sorted(k)' => Artifact(token[k], k)'
    <3>1. Sorted(k) => token[k] \in Ops /\ Artifact(token[k], k)
      BY <1>1 DEF TokenOK, Artifact
    <3> QED BY <1>11, <1>20, <2>1, <3>1 DEF Artifact
  <2> QED BY <1>1, <1>11, <1>16, <2>1, <2>2, <2>3, <2>4 DEF TokenOK
<1>23. RunDisk'
  BY <1>11 DEF RunDisk, Idle
<1>24. ASSUME NEW k \in Ops
       PROVE  /\ Open(k) => Open(k)' \/ (ok /\ manifest[k] = m)
              /\ Open(k)' => Open(k)
              /\ RolledBack(k)' => RolledBack(k) \/ (ok /\ manifest[k] = m)
              /\ Unsorted(k)' => Unsorted(k) \/ (ok /\ k = x /\ request[x].action = "move")
              /\ Base(k)' = Base(k) /\ SetOf(Base(k))' = SetOf(Base(k)) /\ To(Base(k))' = To(Base(k))
  <2>1. manifest'[k] = manifest[k] /\ Base(k)' = Base(k)
    BY <1>11 DEF Base
  <2>2. SetOf(Base(k))' = SetOf(Base(k)) /\ To(Base(k))' = To(Base(k))
    BY <1>11, <2>1 DEF SetOf, To
  <2>3. k # o /\ resolved'[k] = resolved[k] =>
          /\ Open(k)' <=> Open(k)
          /\ RolledBack(k)' <=> RolledBack(k)
          /\ Unsorted(k)' <=> Unsorted(k)
    BY <1>11, <1>16 DEF Open, RolledBack, Unsorted, Fresh
  <2>4. ASSUME k # o, resolved'[k] # resolved[k]
        PROVE  /\ ok /\ manifest[k] = m
               /\ Open(k)' => Open(k)
               /\ Unsorted(k)' => Unsorted(k) \/ (k = x /\ request[x].action = "move")
    <3>1. ok /\ k = request[o].ref /\ request[o].action = "recover" /\ state[k] = "recovery_required"
      BY <1>18, <1>19, <2>4
    <3>2. manifest[k] = m
      BY <1>2, <1>3, <3>1
    <3>3. resolved'[k] = o
      <4>1. resolved' = [resolved EXCEPT ![request[o].ref] = o]
        BY <1>15, <2>4, <3>1
      <4> QED BY <1>1, <1>18, <3>1, <4>1 DEF TypeOK
    <3>4. Open(k)' => Open(k)
      BY <1>16, <2>4, <3>1, <3>3, OpsAssumption DEF Open
    <3>5. request[k].action = "move" => k = x
      <4>1. Recorded(k)
        BY <1>1, <3>1 DEF ManifestOK
      <4> QED BY <1>5, <3>2, <4>1 DEF Recorded, Base
    <3> QED BY <1>11, <3>1, <3>2, <3>4, <3>5 DEF Unsorted
  <2>5. ASSUME k = o
        PROVE  /\ Open(k) /\ manifest[k] = m
               /\ ~ok => Open(k)' /\ ~RolledBack(k)'
               /\ Unsorted(k)' => Unsorted(k) \/ (ok /\ k = x /\ request[x].action = "move")
    <3>1. resolved'[o] = NoOp
      BY <1>4, <1>18, <1>19
    <3>2. Open(o) /\ manifest[o] = m
      BY <1>2, <1>3, <1>4 DEF Open, Planned
    <3>3. ~ok => Open(o)' /\ ~RolledBack(o)'
      BY <1>4, <1>11, <1>15, <3>1 DEF Open, Planned, RolledBack, Completed
    <3>4. request[o].action = "move" => o = x
      BY <1>4, <1>5 DEF Recorded
    <3>5. ~ok /\ request[o].action = "move" => ~Unsorted(o)'
      BY <1>11, <1>15, <3>1 DEF Unsorted, Fresh
    <3> QED BY <1>11, <2>5, <3>2, <3>3, <3>4, <3>5 DEF Unsorted
  <2> QED BY <2>1, <2>2, <2>3, <2>4, <2>5
<1>25. ASSUME NEW k \in Ops, Planned(k), RolledBack(k) \/ Open(k),
              place'[SetOf(Base(k))][To(Base(k))] = Base(k)
       PROVE  place[SetOf(Base(k))][To(Base(k))] = Base(k)
  <2>1. PICK y \in Ops : y = Base(k) /\ SetOf(y) \in Ops /\ Recorded(k)
    BY <1>25, BaseType
  <2>2. CASE SetOf(y) # p
    BY <1>13, <1>25, <2>1, <2>2 DEF Returns
  <2>3. CASE SetOf(y) = p
    <3> SUFFICES ASSUME place'[p][To(y)] # place[p][To(y)]
                 PROVE  FALSE
      BY <1>25, <2>1, <2>3
    <3>1. y = b /\ To(y) = From(x)
      BY <1>5, <1>8, <1>13, <1>25, <2>1, <2>3, OpsAssumption DEF Returns, To
    <3>2. request[x].action # "move"
      BY <1>9, <3>1
    <3>3. state[b] \in Completed /\ request[b].action \in {"move", "metadata"}
      BY <1>9, <3>2 DEF Artifact
    <3>4. k = b
      BY <2>1, <3>1, <3>3 DEF Recorded, Completed
    <3>5. resolved[b] = NoOp
      BY <1>1, <1>10, <3>3 DEF TokenOK, Completed
    <3> QED BY <1>25, <3>3, <3>4, <3>5 DEF RolledBack, Open, Completed
  <2> QED BY <2>2, <2>3
<1>26. ASSUME NEW k \in Ops, manifest[k] = m
       PROVE  Base(k) = x /\ SetOf(Base(k)) = p
  BY <1>5, <1>7, <1>26 DEF Base
<1>27. ASSUME NEW q \in Ops PROVE OnDisk(q)'
  <2>1. OnDisk(q)
    BY <1>1
  <2>2. q # p => place'[q] = place[q]
    BY <1>13 DEF Returns
  <2>3. \A s \in {"home", "away"} :
           \/ place'[p][s] = place[p][s]
           \/ /\ place[p][s] \in {NoOp, x} /\ place'[p][s] \in {NoOp, b}
              /\ place[p][s] = x => s = To(x)
              /\ place'[p][s] = b => s = From(x)
    BY <1>5, <1>8, <1>13 DEF Returns
  <2>4. Placed(q)'
    <3>1. \A z \in Ops : Output(z, q) => Output(z, q)'
      BY <1>11, <1>16, <1>17 DEF Output, Fresh, SetOf
    <3>2. request[x].action # "move" => Output(b, p)'
      <4> SUFFICES ASSUME request[x].action # "move" PROVE Output(b, p)'
        OBVIOUS
      <4>1. Artifact(b, p)
        BY <1>9
      <4>2. Planned(b) /\ ~Fresh(b)
        BY <1>1, <1>10, <4>1 DEF ManifestOK, Artifact, Completed, Fresh
      <4>3. Recorded(b) /\ Base(b) = b /\ manifest[b].publish
        BY <1>1, <1>10, <4>1, <4>2 DEF ManifestOK, Recorded, Artifact
      <4> QED BY <1>11, <1>16, <1>17, <4>1, <4>2, <4>3 DEF Output, Artifact, SetOf, Fresh
    <3>3. request[x].action # "move" => request[b].action \in {"move", "metadata"}
      BY <1>9 DEF Artifact
    <3>4. CASE q # p
      BY <1>1, <1>11, <2>1, <2>2, <3>1, <3>4 DEF OnDisk, Placed, TypeOK, OpsOrNone
    <3>5. CASE q = p
      <4>1. place'[p]["away"] # NoOp =>
              Output(place[p]["away"], p)' /\ request[place'[p]["away"]].action \in {"move", "metadata"}
        <5>1. CASE place'[p]["away"] = place[p]["away"]
          BY <1>1, <2>1, <3>1, <3>5, <5>1 DEF OnDisk, Placed, TypeOK, OpsOrNone
        <5>2. CASE place'[p]["away"] # place[p]["away"] /\ place'[p]["away"] # NoOp
          <6>1. place'[p]["away"] = b /\ From(x) = "away"
            BY <2>3, <5>2
          <6>2. request[x].action # "move"
            BY <1>9, <6>1
          <6> QED BY <3>2, <3>3, <6>1, <6>2 DEF Output, SetOf
        <5> QED BY <5>1, <5>2
      <4>2. place'[p]["home"] \notin {NoOp, p} =>
              Output(place[p]["home"], p)' /\ request[place'[p]["home"]].action = "undo"
        <5>1. CASE place'[p]["home"] = place[p]["home"]
          BY <1>1, <2>1, <3>1, <3>5, <5>1 DEF OnDisk, Placed, TypeOK, OpsOrNone
        <5>2. CASE place'[p]["home"] # place[p]["home"] /\ place'[p]["home"] # NoOp
          BY <1>9, <2>3, <5>2
        <5> QED BY <5>1, <5>2
      <4> QED BY <1>11, <3>5, <4>1, <4>2 DEF Placed
    <3> QED BY <3>4, <3>5
  <2>5. NoOutput(q)'
    <3> SUFFICES ASSUME Planned(q), RolledBack(q)', place'[SetOf(Base(q))][To(Base(q))] = Base(q)
                 PROVE  FALSE
      BY <1>11, <1>24 DEF NoOutput, Planned
    <3>1. CASE RolledBack(q)
      BY <1>25, <2>1, <3>1 DEF OnDisk, NoOutput
    <3>2. CASE ok /\ manifest[q] = m
      BY <1>15, <1>26, <3>2
    <3> QED BY <1>24, <3>1, <3>2
  <2>6. Retained(q)'
    <3> SUFFICES ASSUME Open(q)', OutputAt(manifest[q])' = manifest[q].of
                 PROVE  held[manifest[q].of]
      BY <1>11 DEF Retained
    <3>1. Open(q) /\ Planned(q) /\ Base(q) \in Ops
      BY <1>24, BaseType DEF Open, Planned
    <3>2. /\ manifest[q].publish
          /\ place'[SetOf(Base(q))][To(Base(q))] = Base(q)
      BY <1>11, <1>24, <3>1, OpsAssumption DEF OutputAt, Base
    <3>3. OutputAt(manifest[q]) = manifest[q].of
      BY <1>25, <3>1, <3>2 DEF OutputAt, Base
    <3> QED BY <2>1, <3>1, <3>3 DEF OnDisk, Retained
  <2>7. InPlace(q)'
    <3> SUFFICES ASSUME Unsorted(q)'
                 PROVE  place'[q]["home"] = q /\ place'[q]["away"] = NoOp
      BY DEF InPlace
    <3>1. CASE Unsorted(q)
      <4>1. place[q]["home"] = q /\ place[q]["away"] = NoOp
        BY <2>1, <3>1 DEF OnDisk, InPlace
      <4>2. q = p => request[x].action = "move"
        BY <1>1, <1>9, <3>1 DEF Unsorted, Sorted, TokenOK, Fresh, Completed
      <4> QED BY <1>9, <2>2, <2>3, <4>1, <4>2, OpsAssumption
    <3>2. CASE ok /\ q = x /\ request[x].action = "move"
      <4>1. q = p /\ place'[p]["home"] = p /\ place'[p]["away"] # x
        BY <1>9, <1>15, <3>2
      <4>2. place'[p]["away"] \in {place[p]["away"], NoOp}
        BY <1>9, <2>3, <3>2
      <4>3. ASSUME place[p]["away"] # NoOp PROVE place[p]["away"] = x
        <5>1. PICK z \in Ops : z = place[p]["away"]
          BY <1>1, <4>3 DEF TypeOK, OpsOrNone
        <5>2. Output(z, p) /\ request[z].action \in {"move", "metadata"} /\ RequestOK(z)
          BY <1>1, <4>3, <5>1 DEF OnDisk, Placed
        <5>3. request[z].action = "metadata" => Sorted(p)
          BY <5>2 DEF Output, SetOf, RequestOK
        <5>4. ~Sorted(p)
          BY <1>6, <3>2, <4>1 DEF Sorted, Completed
        <5> QED BY <1>9, <3>2, <5>1, <5>2, <5>3, <5>4 DEF Output, SetOf
      <4> QED BY <4>1, <4>2, <4>3
    <3> QED BY <1>24, <3>1, <3>2
  <2>8. UndoneOK(q)'
    <3> SUFFICES ASSUME Sorted(q), consumed[q] # NoOp
                 PROVE  place'[q]["home"] = consumed[q]
      BY <1>11, <1>22 DEF UndoneOK
    <3>1. place[q]["home"] = consumed[q] /\ state[consumed[q]] \in Completed
      BY <1>1, <2>1 DEF OnDisk, UndoneOK, TokenOK
    <3>2. consumed[q] # x
      BY <1>6, <3>1 DEF Completed
    <3> QED BY <2>2, <2>3, <3>1, <3>2
  <2>9. LiveOK(q)'
    <3> SUFFICES ASSUME Sorted(q), consumed[q] = NoOp
                 PROVE  LiveAway(q)' /\ LiveHome(q)'
      BY <1>11, <1>22 DEF LiveOK
    <3>1. LiveAway(q) /\ LiveHome(q)
      BY <2>1 DEF OnDisk, LiveOK
    <3>2. token[q] \in Ops /\ state[token[q]] \in Completed /\ token[q] # x
      BY <1>1, <1>6 DEF TokenOK, Artifact, Completed
    <3>3. q = p => request[x].action # "move"
      BY <1>6, <1>9 DEF Sorted, Completed
    <3>4. CASE q # p
      <4>1. place'[q] = place[q]
        BY <2>2, <3>4
      <4>2. ASSUME NEW k \in Ops, Open(k), SetOf(Base(k)) = q PROVE Open(k)'
        BY <1>24, <1>26, <3>4, <4>2
      <4>3. LiveAway(q)'
        BY <1>11, <1>24, <3>1, <4>1, <4>2 DEF LiveAway
      <4>4. ASSUME NEW k \in Ops, Open(k), Base(k) = place[q]["home"], manifest[k] = m PROVE FALSE
        <5>1. place[q]["home"] = x
          BY <1>26, <4>4
        <5>2. q # x
          BY <1>9, <3>4 DEF Sorted
        <5> QED BY <1>7, <2>1, <3>4, <5>1, <5>2, OpsAssumption DEF OnDisk, Placed, Output
      <4>5. LiveHome(q)'
        BY <1>24, <3>1, <4>1, <4>4 DEF LiveHome
      <4> QED BY <4>3, <4>5
    <3>5. CASE q = p
      <4>1. From(x) = "away"
        BY <1>9, <3>3, <3>5
      <4>2. LiveAway(q)'
        <5>1. CASE place[p]["away"] = token[p]
          BY <1>11, <2>3, <3>2, <3>5, <5>1, OpsAssumption DEF LiveAway
        <5>2. ASSUME NEW k \in Ops, Open(k), SetOf(Base(k)) = p, manifest[k].before = token[p]
              PROVE  LiveAway(q)'
          <6>1. CASE Open(k)'
            BY <1>11, <1>24, <3>5, <5>2, <6>1 DEF LiveAway
          <6>2. CASE ok /\ manifest[k] = m
            BY <1>8, <1>11, <1>15, <3>5, <4>1, <5>2, <6>2 DEF LiveAway
          <6> QED BY <1>24, <5>2, <6>1, <6>2
        <5> QED BY <3>1, <3>5, <5>1, <5>2 DEF LiveAway
      <4>3. LiveHome(q)'
        <5>1. CASE place'[p]["home"] # place[p]["home"]
          BY <2>3, <3>5, <4>1, <5>1 DEF LiveHome
        <5>2. CASE place'[p]["home"] = place[p]["home"]
          <6>1. CASE place[p]["home"] = NoOp
            BY <3>5, <5>2, <6>1 DEF LiveHome
          <6>2. ASSUME NEW k \in Ops, Open(k), Base(k) = place[p]["home"], place[p]["home"] # NoOp
                PROVE  Open(k)' /\ Base(k)' = place'[p]["home"]
            <7> SUFFICES ASSUME ok, manifest[k] = m PROVE FALSE
              BY <1>24, <5>2, <6>2
            <7>1. place[p]["home"] = x
              BY <1>26, <6>2
            <7>2. To(x) = "home"
              BY <1>9, <2>1, <3>3, <3>5, <7>1, OpsAssumption DEF OnDisk, Placed
            <7> QED BY <1>15, <5>2, <7>1, <7>2
          <6> QED BY <3>1, <3>5, <6>1, <6>2 DEF LiveHome
        <5> QED BY <5>1, <5>2
      <4> QED BY <4>2, <4>3
    <3> QED BY <3>4, <3>5
  <2> QED BY <2>4, <2>5, <2>6, <2>7, <2>8, <2>9 DEF OnDisk
<1> QED BY <1>20, <1>21, <1>22, <1>23, <1>27 DEF JInv, Records, Disk

\* One case for each action of the journal.
LEMMA StepJInv == JInv /\ [Next]_vars => JInv'
<1> SUFFICES ASSUME JInv, [Next]_vars
             PROVE  JInv'
  OBVIOUS
<1>1. IInv'
  BY StepInv DEF JInv
<1> QED BY <1>1, SubmitJInv, RowStepsJInv, CleanupJInv, WorkJInv, CompleteJInv, RecoverJInv, RollbackJInv DEF Next

\* What the journal says of a sort is what lies on the disk: for every set of
\* operations, however undos, enrichments, recoveries, failing calls, service deaths
\* and pruned claims follow one another, a sort nobody has in hand lies where its row
\* and its token say, and an output whose rollback is open has its original retained.
THEOREM JournalTellsTruth == Spec => []JournalTruth
<1>1. Spec => []JInv
  BY InitJInv, StepJInv, PTL DEF Spec
<1> QED BY <1>1, TruthFollows, PTL
=============================================================================
