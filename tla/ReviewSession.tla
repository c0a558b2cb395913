----------------------------- MODULE ReviewSession -----------------------------
(***************************************************************************)
(* One window in use: SortingView and Enrichment share the GUI thread, and *)
(* the mutation service answers what they submit.  The service is reduced  *)
(* to what the window can tell: it settles requests in the order in which  *)
(* it accepted them (MutationService), changes the folder, keeps the       *)
(* authoritative revision of each token and spends it once                 *)
(* (OperationJournal).  Results of different requests may reach the window *)
(* in any order, since one whose receipt could not be written is only told *)
(* by a later owner; a reconnecting window is told old receipts again.     *)
(* What the service does once the window has closed is MutationService's.  *)
(***************************************************************************)
EXTENDS SortingView, Enrichment

CONSTANTS Actions,     \* sorts the user makes: a subset of Sorts
          Tagging,     \* ai_tagger.enabled in the settings of every operation
          MaxLost,     \* bound: settled operations without a usable receipt
          MaxReplays   \* bound: receipts told again

ASSUME SessionAssumption ==
  Actions \subseteq Sorts /\ Tagging \in BOOLEAN /\ {MaxLost, MaxReplays} \subseteq Nat

VARIABLES
  accepted,   \* requests the service has not settled, oldest first
  present,    \* images that lie in their source folder
  row,        \* [OpIds -> "open" | "ok" | "failed"]: the journal
  revision,   \* [OpIds -> Nat]: authoritative revision of each token, 0 for none
  spent,      \* tokens consumed in the journal
  stale,      \* tokens whose artifact was undone or rewritten without a receipt
  inbox,      \* messages on their way to the window
  lost, replays,
  unsure,     \* images the view may be wrong about until it is loaded again
  beside,     \* [left, right]: neighbours of the held image when it was held
  told,       \* newest revision of each token that any message brought
  dropped     \* tokens that left the history at its far end

window  == <<view, folder, generation, ops, tokens>>
service == <<accepted, present, row, revision, spent, stale, lost, replays>>
notes   == <<unsure, beside, told, dropped>>
vars    == <<view, folder, generation, ops, tokens, reader, interrupted, backlog, parents,
             cancelled, closing, accepted, present, row, revision, spent, stale, inbox, lost,
             replays, unsure, beside, told, dropped>>

Nobody == [left |-> {}, right |-> {}]
\* An operation of an earlier session, whose token only a replay brings.
Earlier(i) == [action |-> "move", image |-> i, index |-> 0, gen |-> 0,
               state |-> "earlier", token |-> 0, rev |-> 0]

Init ==
  /\ \E away \in SUBSET Images :
       /\ Cardinality(away) <= Min({1, MaxReplays})
       /\ ops = [o \in 1 .. Cardinality(away) |-> Earlier(CHOOSE i \in away : TRUE)]
       /\ present = Images \ away
       /\ row = [o \in OpIds |-> IF away # {} /\ o = 1 THEN "ok" ELSE "open"]
       /\ revision = [o \in OpIds |-> IF away # {} /\ o = 1 THEN 1 ELSE 0]
  /\ \E f \in Folders : ViewInit(f, present)
  /\ EnrichmentInit(OpIds)
  /\ accepted = <<>> /\ spent = {} /\ stale = {} /\ inbox = {}
  /\ lost = 0 /\ replays = 0
  /\ unsure = {} /\ beside = Nobody /\ told = [t \in OpIds |-> 0] /\ dropped = {}
-----------------------------------------------------------------------------
(* The user                                                                 *)

Submitted == accepted' = Append(accepted, NextOp)

Sort(a, advance) ==
  /\ ~closing
  /\ TriggerFileAction(a, advance)
  /\ Submitted
  /\ beside' = IF view'.held = NoHold THEN Nobody
               ELSE [left  |-> {At(view.images, k) : k \in 0 .. view.current - 1},
                     right |-> {At(view.images, k) : k \in view.current + 1 .. Len(view.images) - 1}]
  /\ UNCHANGED <<enrichment, present, row, revision, spent, stale, inbox, lost, replays, unsure, told,
                 dropped>>

Move(d) ==
  /\ ~closing
  /\ Navigate(d)
  /\ UNCHANGED <<enrichment, service, inbox, notes>>

\* Images whose operations are still out may change behind the new view.
Reload(f) ==
  /\ ~closing
  /\ LoadImages(f, present)
  /\ unsure' = {ops[o].image : o \in {p \in DOMAIN ops : ops[p].state = "pending"}}
  /\ UNCHANGED <<enrichment, service, inbox, beside, told, dropped>>

Undo ==
  /\ ~closing
  /\ UndoLastAction
  /\ AddUndo(ops'[NextOp].token)
  /\ Submitted
  /\ UNCHANGED <<present, row, revision, spent, stale, inbox, lost, replays, notes>>

Close == Shutdown /\ UNCHANGED <<window, service, inbox, notes>>
-----------------------------------------------------------------------------
(* The service                                                              *)

Message(o, ok, rev) == [op |-> o, ok |-> ok, rev |-> rev]
TokenOf(o) == IF ops[o].action \in Sorts THEN o ELSE ops[o].token
Live(t)    == revision[t] > 0 /\ t \notin spent

\* An undo or an enrichment works on the very file the token names (_files: verify).
Possible(o) ==
  LET op == ops[o] IN
  IF op.action \in Sorts THEN op.image \in present
  ELSE /\ Live(op.token) /\ op.token \notin stale
       /\ op.action = "undo_move" => op.image \notin present

Moved(o) == CASE ops[o].action \in {"move", "trash"} -> present \ {ops[o].image}
              [] ops[o].action = "undo_move"         -> present \cup {ops[o].image}
              [] OTHER                               -> present

\* The oldest accepted request succeeds, fails, or is done on the disk although no
\* receipt could be written: the window hears of a success without a token, or,
\* when the service died, of an operation to review.  Trash into the system's
\* trash gives no token.
Succeed(o) ==
  /\ Possible(o)
  /\ present' = Moved(o)
  /\ row' = [row EXCEPT ![o] = "ok"]
  /\ \E kept \in IF ops[o].action = "trash" THEN BOOLEAN ELSE {TRUE} :
       revision' = CASE ops[o].action \in Sorts -> [revision EXCEPT ![o] = IF kept THEN 1 ELSE 0]
                     [] ops[o].action = "metadata" -> [revision EXCEPT ![ops[o].token] = @ + 1]
                     [] OTHER -> revision
  /\ spent' = IF ops[o].action \in Undos THEN spent \cup {ops[o].token} ELSE spent
  /\ inbox' = inbox \cup {Message(o, TRUE, IF ops[o].action \in Undos THEN 0 ELSE revision'[TokenOf(o)])}
  /\ UNCHANGED <<stale, lost, unsure>>

Fail(o) ==
  /\ row' = [row EXCEPT ![o] = "failed"]
  /\ inbox' = inbox \cup {Message(o, FALSE, 0)}
  /\ UNCHANGED <<present, revision, spent, stale, lost, unsure>>

Lose(o) ==
  /\ lost < MaxLost /\ lost' = lost + 1
  /\ Possible(o)
  /\ present' = Moved(o)
  /\ stale' = IF ops[o].action \in Sorts THEN stale ELSE stale \cup {ops[o].token}
  /\ \E ok \in BOOLEAN :
       /\ inbox' = inbox \cup {Message(o, ok, 0)}
       /\ unsure' = IF ok THEN unsure ELSE unsure \cup {ops[o].image}
  /\ UNCHANGED <<row, revision, spent>>

SettleRequest ==
  /\ ~closing
  /\ accepted # <<>> /\ accepted' = Tail(accepted)
  /\ Succeed(Head(accepted)) \/ Fail(Head(accepted)) \/ Lose(Head(accepted))
  /\ UNCHANGED <<window, enrichment, replays, beside, told, dropped>>

\* A receipt is told again, with the token that is authoritative then.
Replay ==
  /\ ~closing
  /\ replays < MaxReplays /\ replays' = replays + 1
  /\ \E o \in DOMAIN ops :
       /\ row[o] # "open"
       /\ inbox' = inbox \cup {Message(o, row[o] = "ok",
                      IF ops[o].action \notin Undos /\ row[o] = "ok" /\ Live(TokenOf(o))
                      THEN revision[TokenOf(o)] ELSE 0)}
  /\ UNCHANGED <<window, enrichment, accepted, present, row, revision, spent, stale, lost, notes>>
-----------------------------------------------------------------------------
(* The GUI thread receives                                                  *)

Deliver(m) ==
  /\ m \in inbox /\ inbox' = inbox \ {m} /\ ~closing
  /\ IF ops[m.op].state = "pending"
     THEN /\ OnOperationResult(m.op, m.ok, m.rev)
          /\ IF ops[m.op].action \in {"move", "copy"} /\ m.ok
             THEN SortFinished(m.op, m.rev > 0, Tagging)
             ELSE UNCHANGED enrichment
     ELSE OnHistory(TokenOf(m.op), m.rev) /\ UNCHANGED enrichment
  /\ told' = [told EXCEPT ![TokenOf(m.op)] = Max({@, m.rev})]
  /\ dropped' = (dropped \cup (HistoryIds(tokens) \ (HistoryIds(tokens') \cup tokens'.consumed)))
                \ HistoryIds(tokens')
  /\ UNCHANGED <<service, unsure, beside>>

\* The metadata request of an answer that is still wanted; there may be no tags.
ReceiveTags(o) ==
  /\ Enriched(o)
  /\ IF Wanted(o) /\ Room
     THEN \/ /\ ops' = Append(ops, Request("metadata", ops[o].image, 0, o, 0)) /\ Submitted
          \/ UNCHANGED <<ops, accepted>>
     ELSE UNCHANGED <<ops, accepted>>
  /\ UNCHANGED <<view, folder, generation, tokens, present, row, revision, spent, stale, inbox,
                 lost, replays, notes>>

FinishReader(o) == ReaderFinished(o) /\ UNCHANGED <<window, service, inbox, notes>>
Infer(o)        == Read(o) /\ UNCHANGED <<window, service, inbox, notes>>

Next ==
  \/ \E a \in Actions, advance \in BOOLEAN : Sort(a, advance)
  \/ \E d \in {1, -1} : Move(d)
  \/ \E f \in Folders : Reload(f)
  \/ Undo \/ Close
  \/ SettleRequest \/ Replay
  \/ \E m \in inbox : Deliver(m)
  \/ \E o \in OpIds : Infer(o) \/ ReceiveTags(o) \/ FinishReader(o)

Spec == Init /\ [][Next]_vars
-----------------------------------------------------------------------------
TypeOK ==
  /\ ViewTypeOK /\ EnrichmentTypeOK
  /\ accepted \in Seq(DOMAIN ops) /\ present \subseteq Images
  /\ row \in [OpIds -> {"open", "ok", "failed"}] /\ revision \in [OpIds -> Nat]
  /\ {spent, stale, dropped} \subseteq SUBSET OpIds /\ told \in [OpIds -> Nat] /\ unsure \subseteq Images
  /\ inbox \subseteq [op : DOMAIN ops, ok : BOOLEAN, rev : Nat]
  /\ lost \in 0 .. MaxLost /\ replays \in 0 .. MaxReplays

\* The queue agrees with the folder: an image that no operation is out for, and
\* that none was out for when the view was loaded, is in the queue exactly once
\* if it lies in the folder and not at all if it does not, whatever failed, came
\* late, or was undone in between.
Out(i) == \E o \in DOMAIN ops : ops[o].image = i /\ ops[o].state = "pending"
ViewTruth ==
  /\ TypeOK
  /\ \A j, k \in DOMAIN view.images : view.images[j] = view.images[k] => j = k
  /\ \A i \in Images : Library[i] = folder /\ ~Out(i) /\ i \notin unsure
                       => (Contains(view.images, i) <=> i \in present)

\* Next and Previous leave a held image to its original neighbours: what was to
\* its left is left of the gap it occupies, however the queue shrank meanwhile.
HeldGap ==
  view.held # NoHold =>
    LET at  == IndexOf(view.images, view.held.image)
        gap == IF at # -1 THEN at ELSE view.held.index
    IN \A k \in Positions(view.images) :
         /\ At(view.images, k) \in beside.left  => k < gap
         /\ At(view.images, k) \in beside.right => k >= gap

\* A result brings the image it returns to the screen.  Any other message - the
\* result of a background sort, of an enrichment or of an earlier view, or a
\* receipt told again - leaves the image the user looks at on the screen.
Returns(m) ==
  LET op == ops[m.op] IN
  /\ op.state = "pending" /\ op.gen = generation /\ Library[op.image] = folder
  /\ \/ op.action = "undo_move" /\ m.ok
     \/ op.action \in {"move", "trash"} /\ ~m.ok
SelectionKept ==
  [][\A m \in inbox \ inbox' : Shown # NoImage /\ ~Returns(m) => Shown' = Shown]_vars

\* Every token the window was told of is in one place: offered once for undo, in
\* its newest revision; submitted; spent; or pushed out.  What the window holds for
\* spent is spent in the journal, if that could be written.
Places == <<HistoryIds(tokens), tokens.inflight, tokens.consumed, dropped>>
TokenPlaces ==
  /\ \A t \in OpIds : told[t] > 0 =>
       \E place \in DOMAIN Places : \A other \in DOMAIN Places : t \in Places[other] <=> other = place
  /\ Cardinality(HistoryIds(tokens)) = Len(tokens.history)
  /\ \A e \in ToSet(tokens.history) : e.rev = told[e.id]
  /\ lost = 0 => tokens.consumed \subseteq spent

\* No metadata is submitted for a sort after its undo was.
TaggingStops ==
  \A m, u \in DOMAIN ops :
    ops[m].action = "metadata" /\ ops[u].action \in Undos /\ ops[m].token = ops[u].token => m < u

\* An operation is admitted only for the image on the screen.
SortsWhatIsShown ==
  [][Len(ops') > Len(ops) /\ ops'[Len(ops')].action \in Sorts
     => ops'[Len(ops')].image = Shown]_vars
=============================================================================
