------------------------------ MODULE SortingView ------------------------------
(***************************************************************************)
(* The review window of ui_main.MainViewer: the queue of images, what is   *)
(* selected, the held snapshot of a move without auto-advance, and the     *)
(* undo tokens it has heard of.  Each definition below is a handler of     *)
(* the GUI thread; ReviewSession composes them with Enrichment and with    *)
(* the service that answers.                                               *)
(*                                                                         *)
(* Indices count from 0 as in the code, so image k is images[k + 1].  An   *)
(* image stands for its canonical path in its source folder; a token for   *)
(* the sort that created it (the code's token_id is unique to that sort).  *)
(***************************************************************************)
EXTENDS Lists

CONSTANTS Images,      \* numbered in the order in which a folder is listed
          Folders,     \* source folders the user reviews
          Library,     \* [Images -> Folders]: where each image comes from
          MaxOps,      \* bound: operations submitted
          MaxLoads,    \* bound: times a folder is loaded (load_generation)
          MaxHistory   \* undo entries the window keeps (50)

ASSUME ViewAssumption ==
  /\ Images \subseteq Nat \ {0} /\ IsFiniteSet(Images)
  /\ Library \in [Images -> Folders]
  /\ {MaxOps, MaxLoads, MaxHistory} \subseteq Nat \ {0}

VARIABLES
  view,        \* images, current_index, _view_complete, _held_move
  folder,      \* the source directory of the view
  generation,  \* load_generation
  ops,         \* pending_ops and the metadata requests, in order of submission
  tokens       \* history, _latest_undo_tokens, _undo_inflight, _consumed_undo_tokens

OpIds   == 1 .. MaxOps
NoImage == 0
Sorts   == {"move", "copy", "trash"}
Undos   == {"undo_move", "undo_copy"}

Hold   == [op : OpIds, image : Images, index : Int, completed : BOOLEAN]
NoHold == [op |-> 0, image |-> NoImage, index |-> 0, completed |-> FALSE]

\* index: PendingOp.original_index; token and rev: the sort an undo or an
\* enrichment refers to, and the revision handed over.
Op == [action : Sorts \cup Undos \cup {"metadata"}, image : Images, index : Int, gen : Nat,
       state : {"earlier", "pending", "finished", "error"}, token : 0 .. MaxOps, rev : Nat]
Request(a, i, k, t, r) == [action |-> a, image |-> i, index |-> k, gen |-> generation,
                           state |-> "pending", token |-> t, rev |-> r]
NextOp  == Len(ops) + 1
Room    == Len(ops) < MaxOps
-----------------------------------------------------------------------------
(* The queue of images.                                                     *)

Positions(s)  == 0 .. Len(s) - 1
At(s, k)      == s[k + 1]
IndexOf(s, i) == SelectInSeq(s, LAMBDA j : j = i) - 1
Clamp(k, lo, hi) == Max({lo, Min({k, hi})})

\* _is_path_pending: what the current view must skip.
PendingImages(table) ==
  {table[o].image : o \in {p \in DOMAIN table :
     table[p].gen = generation /\ table[p].state = "pending" /\ table[p].action \in {"move", "trash"}}}

\* _find_next_non_pending_index, from start in direction d.
FindFree(s, P, start, d) ==
  LET free == {k \in Positions(s) : At(s, k) \notin P}
      found == {k \in free : IF d > 0 THEN k >= start ELSE k <= start}
  IN IF found = {} THEN -1 ELSE IF d > 0 THEN Min(found) ELSE Max(found)

\* show_image: the nearest image that is not being sorted, later ones first.
ShowImage(v, P) ==
  LET next == FindFree(v.images, P, v.current, 1)
      prev == FindFree(v.images, P, v.current, -1)
  IN IF v.held # NoHold \/ v.complete \/ (next = -1 /\ prev = -1) THEN v
     ELSE [v EXCEPT !.current = IF next # -1 THEN next ELSE prev]

\* Bug: the gap of a held image does not move with the queue.
GapStays(v, k) == v.held.index
\* Where a held image lies after position k was removed.
GapAfter(v, k) == IF v.held # NoHold /\ k < v.held.index THEN v.held.index - 1 ELSE v.held.index

\* Bug: the selection keeps its number while the queue moves under it.
NumberAfter(v, k) == Min({v.current, Len(v.images) - 2})
\* The selection follows its image, and moves to the next one if that was removed.
CurrentAfter(v, k) ==
  CASE v.current = k                             -> Min({k, Len(v.images) - 2})
    [] v.current \in Positions(v.images) \ {k} -> IF v.current < k THEN v.current ELSE v.current - 1
    [] OTHER                                     -> Min({v.current, Len(v.images) - 2})

\* remove_image_from_queue
RemoveImage(v, i, P) ==
  LET k == IndexOf(v.images, i) IN
  IF k = -1 THEN v
  ELSE ShowImage([v EXCEPT !.images = RemoveAt(@, k + 1), !.current = CurrentAfter(v, k),
                           !.held.index = GapAfter(v, k)], P)

\* Bug: an image that never left the queue is inserted a second time.
NeverQueued(v, i) == FALSE
Queued(v, i) == Contains(v.images, i)

\* reinsert_image_at_index
Reinsert(v, i, index, P) ==
  LET k == Clamp(index, 0, Len(v.images)) IN
  IF Queued(v, i) THEN v
  ELSE ShowImage([v EXCEPT !.images = InsertAt(@, k + 1, i),
                           !.current = IF @ >= k THEN @ + 1 ELSE @,
                           !.held.index = IF v.held # NoHold /\ k <= @ THEN @ + 1 ELSE @], P)

\* The image comes back and is selected.
BringBack(v, i, index, P) ==
  LET back == Reinsert([v EXCEPT !.complete = FALSE], i, index, P)
  IN ShowImage([back EXCEPT !.current = IndexOf(back.images, i)], P)

\* _navigate.  A held image is the gap between its original neighbours; Next at
\* the end completes the view, Previous at the beginning changes nothing.
Navigated(v, d, P) ==
  LET at    == IndexOf(v.images, v.held.image)
      start == IF v.held = NoHold THEN v.current + d
               ELSE IF at # -1 THEN at + d
               ELSE IF d > 0 THEN v.held.index ELSE v.held.index - 1
      found == FindFree(v.images, P, start, d)
  IN IF found # -1 THEN [v EXCEPT !.held = NoHold, !.complete = FALSE, !.current = found]
     ELSE IF d > 0 THEN [v EXCEPT !.held = NoHold, !.complete = TRUE, !.current = Len(v.images)]
     ELSE v
-----------------------------------------------------------------------------
(* Undo tokens.                                                             *)

HistoryIds(k) == {e.id : e \in ToSet(k.history)}

\* Bug: whatever arrives last counts as the newest revision.
LastRevision(k, t, rev) == rev
NewestRevision(k, t, rev) == Max({rev, k.latest[t]})

\* The newest entries of a history.
Recent(h) == SubSeq(h, Max({1, Len(h) - MaxHistory + 1}), Len(h))

\* _remember_undo: revisions are monotonic, spent and submitted tokens stay out.
Remember(k, t, rev, add) ==
  LET newest == [id |-> t, rev |-> NewestRevision(k, t, rev)]
      at     == SelectInSeq(k.history, LAMBDA e : e.id = t)
  IN [k EXCEPT !.latest[t] = newest.rev,
        !.history = IF t \in k.consumed \cup k.inflight THEN @
                    ELSE IF at # 0 THEN ReplaceAt(@, at, newest)
                    ELSE IF add THEN Recent(Append(k.history, newest))
                    ELSE @]

Without(k, t) == Dropping(k.history, {e \in ToSet(k.history) : e.id = t})

\* The settled undo of a token: it is spent, or offered again.
Settled(k, o, ok) ==
  LET t == ops[o].token
      landed == [k EXCEPT !.inflight = @ \ {t}]
  IN IF ok THEN [landed EXCEPT !.consumed = @ \cup {t}, !.history = Without(k, t)]
     ELSE Remember(landed, t, ops[o].rev, TRUE)
-----------------------------------------------------------------------------
(* Handlers                                                                 *)

Listed(S) == [images |-> Ascending(S), current |-> IF S = {} THEN -1 ELSE 0,
              complete |-> FALSE, held |-> NoHold]

ViewInit(f, S) ==
  /\ folder = f /\ generation = 1
  /\ view = Listed({i \in S : Library[i] = f})
  /\ tokens = [history |-> <<>>, latest |-> [t \in OpIds |-> 0], inflight |-> {}, consumed |-> {}]

\* load_images of folder f, where the directory holds the files S.
LoadImages(f, S) ==
  /\ generation < MaxLoads /\ generation' = generation + 1
  /\ folder' = f
  /\ view' = Listed({i \in S : Library[i] = f})
  /\ UNCHANGED <<ops, tokens>>

Navigate(d) ==
  /\ view' = Navigated(view, d, PendingImages(ops))
  /\ UNCHANGED <<folder, generation, ops, tokens>>

\* No operation of any generation is about to take the image away.
FreeToSort(i) == \A o \in DOMAIN ops :
                   ops[o].image = i /\ ops[o].action \in Sorts => ops[o].state # "pending"

\* The image on the screen: the held snapshot, the selection, or none.
Shown == IF view.held # NoHold THEN view.held.image
         ELSE IF view.complete \/ view.current \notin Positions(view.images) THEN NoImage
         ELSE IF At(view.images, view.current) \in PendingImages(ops) THEN NoImage
         ELSE At(view.images, view.current)

\* trigger_file_action for the selected image, once it is admitted.  A move
\* without auto-advance holds the snapshot on the screen.
TriggerFileAction(a, advance) ==
  /\ Room /\ view.held = NoHold /\ view.current \in Positions(view.images)
  /\ LET i     == At(view.images, view.current)
         holds == a = "move" /\ ~advance
         hold  == [op |-> NextOp, image |-> i, index |-> view.current, completed |-> FALSE]
     IN /\ FreeToSort(i)
        /\ holds => Shown = i
        /\ ops' = Append(ops, Request(a, i, view.current, 0, 0))
        /\ view' = IF a = "copy"
                   THEN IF advance THEN Navigated(view, 1, PendingImages(ops)) ELSE view
                   ELSE ShowImage(IF holds THEN [view EXCEPT !.held = hold] ELSE view, PendingImages(ops'))
  /\ UNCHANGED <<folder, generation, tokens>>

\* undo_last_action, once admitted.  The position is that of the first operation
\* of this window on the original.
UndoLastAction ==
  /\ Room /\ (view.held = NoHold \/ view.held.completed)
  /\ tokens.history # <<>>
  /\ LET t == Last(tokens.history)
         i == ops[t.id].image
         mine == {o \in DOMAIN ops : ops[o].image = i /\ ops[o].action \in Sorts /\ ops[o].state # "earlier"}
         undo == IF ops[t.id].action = "copy" THEN "undo_copy" ELSE "undo_move"
     IN /\ ops' = Append(ops, Request(undo, i, IF mine = {} THEN 0 ELSE ops[Min(mine)].index, t.id, t.rev))
        /\ tokens' = [tokens EXCEPT !.history = Without(tokens, t.id), !.inflight = @ \cup {t.id}]
  /\ UNCHANGED <<view, folder, generation>>

\* Bug: the generation is not compared before the view is changed.
AnyView(o) == TRUE
CurrentView(o) == ops[o].gen = generation

\* What the window shows after the settled operation o of its own generation.
Settle(v, o, ok, P) ==
  LET op == ops[o]
      owns == v.held # NoHold /\ v.held.op = o
  IN CASE op.action \in {"move", "trash"} /\ ok ->
            ShowImage(RemoveImage(IF owns THEN [v EXCEPT !.held.completed = TRUE] ELSE v, op.image, P), P)
       [] op.action = "undo_move" /\ ok /\ Library[op.image] = folder ->
            BringBack([v EXCEPT !.held = NoHold], op.image, op.index, P)
       [] op.action \in {"move", "trash"} /\ ~ok /\ Library[op.image] = folder ->
            BringBack(IF owns THEN [v EXCEPT !.held = NoHold] ELSE v, op.image, op.index, P)
       [] OTHER -> ShowImage(v, P)

\* on_operation_result: the first result of operation o; rev is the revision of
\* the token that came with it, 0 for none.
OnOperationResult(o, ok, rev) ==
  LET a == ops[o].action IN
  /\ ops' = [ops EXCEPT ![o].state = IF ok THEN "finished" ELSE "error"]
  /\ tokens' = CASE a \in Undos -> Settled(tokens, o, ok)
                 [] a \in Sorts /\ ok /\ rev > 0 -> Remember(tokens, o, rev, TRUE)
                 [] a = "metadata" /\ ok /\ rev > 0 -> Remember(tokens, ops[o].token, rev, FALSE)
                 [] OTHER -> tokens
  /\ view' = IF a # "metadata" /\ CurrentView(o) THEN Settle(view, o, ok, PendingImages(ops')) ELSE view
  /\ UNCHANGED <<folder, generation>>

\* on_recovery_summary: a replayed receipt of an operation settled before.
OnHistory(t, rev) ==
  /\ tokens' = IF rev > 0 THEN Remember(tokens, t, rev, TRUE) ELSE tokens
  /\ UNCHANGED <<view, folder, generation, ops>>

ViewTypeOK ==
  /\ view \in [images : Seq(Images), current : Int, complete : BOOLEAN, held : Hold \cup {NoHold}]
  /\ view.current <= Len(view.images)
  /\ folder \in Folders /\ generation \in 1 .. MaxLoads
  /\ ops \in Seq(Op) /\ Len(ops) <= MaxOps
  /\ tokens \in [history : Seq([id : OpIds, rev : Nat \ {0}]), latest : [OpIds -> Nat],
                 inflight : SUBSET OpIds, consumed : SUBSET OpIds]
  /\ Len(tokens.history) <= MaxHistory
=============================================================================
