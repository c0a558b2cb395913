------------------------------ MODULE ImageLoader ------------------------------
(***************************************************************************)
(* The decoder thread (image_loader.ImageLoader) and the disposable reader *)
(* process it supervises (reader_process.run_reader, reader_job.main).     *)
(* The GUI thread queues requests under the condition variable; the thread *)
(* takes the most urgent one, watches a reader of its own process group    *)
(* decode it, and emits a result.  DecodeView is the GUI thread.           *)
(*                                                                         *)
(* An identity of a file is the version of its bytes and of the decoder    *)
(* that ImageCacheKey and the reader's metadata record.  The identifier of *)
(* a request may be used again once nothing refers to it any more.         *)
(***************************************************************************)
EXTENDS Lists

CONSTANTS Files,       \* images, numbered in the order of the folder
          Frames,      \* frames that may be asked for, 0 is the image itself
          Capacity,    \* MAX_QUEUE_CAPACITY (50)
          Volatile,    \* bound: files another program changes
          MaxChanges   \* bound: how often it does

ASSUME LoaderAssumption ==
  /\ Files \subseteq Nat \ {0} /\ IsFiniteSet(Files) /\ Files # {}
  /\ Frames \subseteq Nat /\ 0 \in Frames
  /\ Capacity \in Nat \ {0} /\ Volatile \subseteq Files /\ MaxChanges \in Nat

VARIABLES
  loader,   \* queue in order of arrival, active request, generation, running
  reader,   \* the thread: where it is, what its reader read, how that ended
  group,    \* live members of the process group of the last reader
  scratch,  \* whether its scratch directory exists
  results,  \* image_ready signals on their way to the GUI thread
  disk      \* [Files -> Nat]: the identity of each file

\* A request identifier, and what it was made for.
Ids      == [file : Files, frame : Frames, nth : Nat \ {0}]
NoId     == [file |-> 0, frame |-> 0, nth |-> 0]
Priority == 0 .. 3
Request  == [id : Ids, prio : Priority, gen : Nat, cancelled : BOOLEAN]
NoRequest == [id |-> NoId, prio |-> 0, gen |-> 0, cancelled |-> FALSE]
Result   == [id : Ids, gen : Nat, version : Nat]      \* version 0: an error

Members  == {"leader", "helper"}
\* Where the thread is: waiting; its reader at work; the group of the reader killed; an
\* image in hand; ended.
Stages   == {"idle", "reading", "killed", "emitting", "ended"}
Quiet    == [stage |-> "idle", version |-> 0]

LoaderTypeOK ==
  /\ loader \in [queue : Seq(Request), active : Request \cup {NoRequest}, gen : Nat, running : BOOLEAN]
  /\ Len(loader.queue) <= Capacity
  /\ reader \in [stage : Stages, version : Nat]
  /\ scratch \in BOOLEAN /\ group \subseteq Members
  /\ results \in Seq(Result) /\ disk \in [Files -> Nat \ {0}]

NewLoader == [queue |-> <<>>, active |-> NoRequest, gen |-> 0, running |-> TRUE]
ThreadInit ==
  /\ reader = Quiet
  /\ group = {} /\ scratch = FALSE
  /\ results = <<>>
  /\ disk = [f \in Files |-> 1]
-----------------------------------------------------------------------------
(* What the GUI thread calls, on the loader l.                              *)

Carried(l) == {l.queue[k].id : k \in DOMAIN l.queue} \cup {l.active.id}
InUse(l) == Carried(l) \cup {results[k].id : k \in DOMAIN results}

\* Pending work for the same image, frame and generation.
Duplicates(l, id, g) ==
  {k \in DOMAIN l.queue : /\ ~l.queue[k].cancelled /\ l.queue[k].gen = g
                          /\ l.queue[k].id.file = id.file /\ l.queue[k].id.frame = id.frame}

\* Bug: of the requests in the queue the most urgent is dropped.
MostUrgent(q) ==
  CHOOSE k \in DOMAIN q : \A j \in DOMAIN q : q[k].prio < q[j].prio \/ (q[k].prio = q[j].prio /\ k <= j)
\* The request an overflowing queue gives up: least urgent, and oldest of those.
Victim(q) ==
  CHOOSE k \in DOMAIN q : \A j \in DOMAIN q : q[k].prio > q[j].prio \/ (q[k].prio = q[j].prio /\ k <= j)

Overflows(q) == Len(q) > Capacity

\* add_task: the loader, the identifier, what was dropped.
AddRequest(l, id, p, g) ==
  LET same == Duplicates(l, id, g)
      req  == [id |-> id, prio |-> p, gen |-> g, cancelled |-> FALSE]
      long == Append(l.queue, req)
      k    == Victim(long)
      full == Overflows(long)
      now  == [l EXCEPT !.gen = Max({@, g})]
  IN IF ~l.running THEN [loader |-> l, id |-> id, dropped |-> NoRequest]
     ELSE IF same # {}
     THEN LET d == CHOOSE d \in same : TRUE
          IN [loader |-> [now EXCEPT !.queue[d].prio = Min({@, p})], id |-> l.queue[d].id,
              dropped |-> NoRequest]
     ELSE [loader  |-> [now EXCEPT !.queue = IF full THEN RemoveAt(long, k) ELSE long], id |-> id,
           dropped |-> IF full THEN long[k] ELSE NoRequest]

CancelRequest(l, id) ==
  [l EXCEPT !.queue  = [k \in DOMAIN @ |-> IF @[k].id = id THEN [@[k] EXCEPT !.cancelled = TRUE] ELSE @[k]],
            !.active.cancelled = @ \/ (l.active # NoRequest /\ l.active.id = id)]

\* clear_tasks(new_generation = g): the queue goes without a word; the request
\* being decoded is cancelled only if it is of an earlier generation.
ClearTasks(l, g) ==
  LET now == Max({l.gen, g}) IN
  [l EXCEPT !.gen = now, !.queue = <<>>,
            !.active.cancelled = @ \/ (l.active # NoRequest /\ l.active.gen < now)]

\* Bug: everything is cancelled, but the thread is not told to end.
CancelAll(l) == [l EXCEPT !.queue = <<>>, !.active.cancelled = l.active # NoRequest]
RequestStop(l) ==
  [l EXCEPT !.running = FALSE, !.queue = <<>>,
            !.active.cancelled = l.active # NoRequest]
-----------------------------------------------------------------------------
(* The decoder thread                                                       *)

At(stage) == reader.stage = stage
Obsolete(r) == r.cancelled \/ r.gen < loader.gen
Unwanted == ~loader.running \/ Obsolete(loader.active)

\* _emit_result: the image of version v, or an error for v = 0.
Emit(r, v) == results' = Append(results, [id |-> r.id, gen |-> r.gen, version |-> v])
\* And _finish_request.
Finish(v) ==
  /\ Emit(loader.active, v)
  /\ loader' = [loader EXCEPT !.active = NoRequest]
  /\ reader' = Quiet

Taken == MostUrgent(loader.queue)

End ==
  /\ At("idle") /\ ~loader.running /\ loader.queue = <<>>
  /\ reader' = [reader EXCEPT !.stage = "ended"]
  /\ UNCHANGED <<loader, group, scratch, results, disk>>

\* The most urgent request is taken, oldest first among equals; an obsolete one is
\* answered at once.
SkipObsolete ==
  /\ At("idle") /\ loader.queue # <<>>
  /\ Obsolete(loader.queue[Taken])
  /\ Emit(loader.queue[Taken], 0)
  /\ loader' = [loader EXCEPT !.queue = RemoveAt(@, Taken)]
  /\ UNCHANGED <<reader, group, scratch, disk>>

\* run_reader: a new scratch directory, a process in a session of its own.
Start ==
  /\ At("idle") /\ loader.queue # <<>>
  /\ ~Obsolete(loader.queue[Taken])
  /\ loader' = [loader EXCEPT !.queue = RemoveAt(@, Taken), !.active = loader.queue[Taken]]
  /\ reader' = [stage |-> "reading", version |-> 0]
  /\ scratch' = TRUE /\ group' = {"leader"}
  /\ UNCHANGED <<results, disk>>

\* The reader copies its input; a copy that changes meanwhile is an error.
ReadInput ==
  /\ At("reading") /\ reader.version = 0
  /\ reader' = [reader EXCEPT !.version = disk[loader.active.id.file]]
  /\ UNCHANGED <<loader, group, scratch, results, disk>>

\* The end of the wait for a reader that left an image of version v behind, or none.
\* Its group got SIGTERM, and SIGKILL 0.8 seconds later; who is still alive is stuck
\* in the kernel.  A helper for a component may outlive the reader itself.
Ended(v, alive) ==
  /\ reader' = [stage |-> "killed", version |-> v]
  /\ group' \in SUBSET alive
  /\ UNCHANGED <<loader, scratch, results, disk>>

\* What becomes of the output of a reader: an image, if it has read its input and the
\* reply is complete and consistent; otherwise an error.
Reply == {reader.version, 0}

\* The reader ends by itself.
ReaderAnswers ==
  /\ At("reading")
  /\ \E v \in Reply : Ended(v, {"helper"})

\* Cancelled, or the deadline has passed.
GiveUp == At("reading") /\ Ended(0, Members)

\* Bug: only the reader itself is looked at.
ReaderGone == "leader" \notin group
\* The group is empty and the reader was reaped.
GroupStopped == group = {}

\* The end of run_reader's finally clause; a reader that still lives keeps its scratch
\* directory, and neither is followed any further.  An exception is answered; so is a
\* cancellation, tested once more.
CleanUp ==
  /\ At("killed")
  /\ scratch' = ~GroupStopped /\ group' = {}
  /\ IF reader.version = 0 \/ Unwanted
     THEN Finish(0)
     ELSE reader' = [reader EXCEPT !.stage = "emitting"] /\ UNCHANGED <<loader, results>>
  /\ UNCHANGED disk

\* The image is emitted without another test.
EmitResult ==
  /\ At("emitting")
  /\ Finish(reader.version)
  /\ UNCHANGED <<group, scratch, disk>>

\* Another program writes to a file, or the decoder for it is replaced.
Change(f) ==
  /\ disk[f] <= MaxChanges
  /\ disk' = [disk EXCEPT ![f] = @ + 1]
  /\ UNCHANGED <<loader, reader, group, scratch, results>>

Thread == End \/ SkipObsolete \/ Start \/ GiveUp \/ CleanUp \/ EmitResult
LoaderNext ==
  \/ Thread \/ ReadInput \/ ReaderAnswers
  \/ \E f \in Volatile : Change(f)
-----------------------------------------------------------------------------
\* Action: the scratch directory goes only when no process of its reader lives - a
\* reader stalled in the kernel, or a helper that outlived it - whether the reader
\* answered, was cancelled or ran out of time (run_reader: "A kernel-stalled reader
\* still owns its scratch data; preserve it").
ScratchOwned == [][scratch /\ ~scratch' => group = {}]_scratch
=============================================================================
