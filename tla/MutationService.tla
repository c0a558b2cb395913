--------------------------- MODULE MutationService ---------------------------
(***************************************************************************)
(* The sole mutation owner and the windows that talk to it: MutationClient *)
(* in every GUI process, the service's event loop, its worker thread, and  *)
(* the journal rows they agree on.  Sockets are FIFO and break; the        *)
(* service dies or drains and a client starts another; a client resubmits  *)
(* what it still waits for.  File work itself is FileTransaction.          *)
(***************************************************************************)
EXTENDS Naturals, Sequences, FiniteSets, SequencesExt

CONSTANTS Guis,        \* GUI processes
          Ops,         \* operation identifiers
          NoOp,        \* the worker is free
          QueueSize,   \* capacity of the task queue (1024)
          MaxPending,  \* MutationClient.MAX_PENDING (1024)
          MaxConns,    \* bound: connections ever made
          Troubles     \* bound: connections given up, service deaths, terminal
                       \* journal updates that raise and services that nobody reached
                       \* for 15 seconds are, in one behaviour, within one of these

ASSUME ServiceAssumption ==
  /\ NoOp \notin Ops /\ IsFiniteSet(Ops) /\ QueueSize \in Nat \ {0} /\ MaxPending \in Nat \ {0} /\ MaxConns \in Nat
  /\ Troubles \subseteq [drops : Nat, crashes : Nat, faults : Nat, timeouts : Nat]

Conns   == 1 .. MaxConns
Results == {"completed", "failed", "cancelled", "recovery_required"}

Message(t, o, r) == [type |-> t, op |-> o, result |-> r]
Bare(t)          == Message(t, NoOp, "none")

VARIABLES
  gui,       \* [Guis -> "unopened" | "open" | "gone"]
  pending,   \* [Guis -> Seq(Ops)]: MutationClient.pending, in insertion order
  ready,     \* [Guis -> BOOLEAN]: MutationClient._ready
  conn,      \* [Guis -> Conns or 0]: its connection
  told,      \* [Ops -> what the window that asked was told]
  up, down,  \* bytes in flight, per connection: to the service, to the client
  conns,     \* connections made so far
  dead,      \* connections the service side has closed
  service,   \* the window that started the owner of the profile lock, or "none"
  draining, hadClient,
  clients,   \* connections the event loop serves
  replay,    \* of those, the ones owed the receipt history
  queue,     \* tasks
  busy,      \* task of the worker thread and whether it executes or cancels
  completed, \* results on their way from the worker to the event loop
  row,       \* [Ops -> journal row: "absent", "INTENT", "STAGED" or a result]
  receipts,  \* the journal's receipts, oldest first
  started,   \* [Ops -> Nat]: times file work was begun (history)
  drops, crashes, faults, timeouts

client  == <<gui, pending, ready, conn, told>>
wire    == <<up, down, conns, dead>>
owner   == <<service, draining, hadClient, clients, replay>>
work    == <<queue, busy, completed>>
journal == <<row, receipts, started>>
bounds  == <<drops, crashes, faults, timeouts>>
vars    == <<gui, pending, ready, conn, told, up, down, conns, dead,
             service, draining, hadClient, clients, replay, queue, busy, completed,
             row, receipts, started, drops, crashes, faults, timeouts>>

Free == [op |-> NoOp, mode |-> "free"]
-----------------------------------------------------------------------------
Init ==
  /\ gui = [g \in Guis |-> "unopened"] /\ pending = [g \in Guis |-> <<>>]
  /\ ready = [g \in Guis |-> FALSE] /\ conn = [g \in Guis |-> 0]
  /\ told = [o \in Ops |-> "new"]
  /\ up = [i \in Conns |-> <<>>] /\ down = [i \in Conns |-> <<>>]
  /\ conns = 0 /\ dead = {}
  /\ service = "none" /\ draining = FALSE /\ hadClient = FALSE
  /\ clients = {} /\ replay = {}
  /\ queue = <<>> /\ busy = Free /\ completed = <<>>
  /\ row = [o \in Ops |-> "absent"] /\ receipts = <<>> /\ started = [o \in Ops |-> 0]
  /\ drops = 0 /\ crashes = 0 /\ faults = 0 /\ timeouts = 0

May(d, c, f, t) ==
  \E b \in Troubles : d <= b.drops /\ c <= b.crashes /\ f <= b.faults /\ t <= b.timeouts

Open(g) == gui[g] = "open"
Up      == service # "none"

\* Bytes for a peer that has closed its end are lost.
Heard(i)  == \E g \in Guis : conn[g] = i
Send(i, s) == down' = IF Heard(i) THEN [down EXCEPT ![i] = @ \o s] ELSE down
Tell(i, s) == up' = IF i \in dead \cup {0} THEN up ELSE [up EXCEPT ![i] = @ \o s]
Ask(g, s)  == Tell(conn[g], [n \in 1 .. Len(s) |-> Message("submit", s[n], "none")])
-----------------------------------------------------------------------------
(* MutationClient                                                           *)

\* Bug: a client that reconnects and only waits for history.
NothingResubmitted(g) == <<>>
\* What a client asks again of an owner that has become ready.
Resubmitted(g) == pending[g]

\* pending.pop: the identifier is a key, so it is there once or not at all.
Pop(s, o) == IF Contains(s, o) THEN RemoveAt(s, CHOOSE i \in 1 .. Len(s) : s[i] = o) ELSE s

OpenGui(g) ==
  /\ gui[g] = "unopened" /\ gui' = [gui EXCEPT ![g] = "open"]
  /\ UNCHANGED <<pending, ready, conn, told, wire, owner, work, journal, bounds>>

Submit(g, o) ==
  /\ Open(g) /\ told[o] = "new" /\ Len(pending[g]) < MaxPending
  /\ told' = [told EXCEPT ![o] = "waiting"]
  /\ pending' = [pending EXCEPT ![g] = Append(@, o)]
  /\ IF ready[g] THEN Ask(g, <<o>>) ELSE UNCHANGED up
  /\ UNCHANGED <<gui, ready, conn, down, conns, dead, owner, work, journal, bounds>>

\* _connect: the listener answers, or a service is spawned.  A second spawn
\* cannot take the profile lock and exits, which is no step of its own.
Connect(g) ==
  /\ Open(g) /\ conn[g] = 0 /\ Up /\ conns < MaxConns
  /\ conns' = conns + 1
  /\ conn' = [conn EXCEPT ![g] = conns + 1]
  /\ up' = [up EXCEPT ![conns + 1] = <<Bare("hello")>>]
  /\ UNCHANGED <<gui, pending, ready, told, down, dead, owner, work, journal, bounds>>

Interrupted == {o \in Ops : row[o] \in {"INTENT", "STAGED"}}

\* Bug: interrupted rows are deleted, so their identifiers are new again.
ForgottenRow(st) == IF st \in {"INTENT", "STAGED"} THEN "absent" ELSE st
\* Bug: an interrupted row is cancelled even if its manifest was saved.
CancelledRow(st) == IF st \in {"INTENT", "STAGED"} THEN "cancelled" ELSE st
\* What reconciliation makes of a row: interrupted file work is left to review.
ReconciledRow(st) == CASE st = "INTENT" -> "cancelled"
                       [] st = "STAGED" -> "recovery_required"
                       [] OTHER         -> st

\* The service starts by reconciling what its predecessor left, under the lock.
Spawn(g) ==
  /\ Open(g) /\ conn[g] = 0 /\ ~Up
  /\ service' = g
  /\ row' = [o \in Ops |-> ReconciledRow(row[o])]
  /\ receipts' = receipts \o SetToSeq(Interrupted)
  /\ UNCHANGED <<client, wire, draining, hadClient, clients, replay, work, started, bounds>>

\* poll: one message.  A draining owner is not asked; anything pending is
\* resubmitted to one that is not.
Receive(g) ==
  /\ Open(g) /\ conn[g] # 0 /\ down[conn[g]] # <<>>
  /\ LET m == Head(down[conn[g]])
         mine == Contains(pending[g], m.op)
     IN /\ CASE m.type = "ready" ->
                  /\ ready' = [ready EXCEPT ![g] = TRUE]
                  /\ Ask(g, Resubmitted(g))
                  /\ UNCHANGED <<pending, told>>
             [] m.type = "ready_draining" ->
                  /\ ready' = [ready EXCEPT ![g] = FALSE]
                  /\ UNCHANGED <<up, pending, told>>
             [] OTHER ->   \* result, history or error
                  /\ pending' = [pending EXCEPT ![g] = Pop(@, m.op)]
                  /\ told' = IF mine THEN [told EXCEPT ![m.op] = m.result] ELSE told
                  /\ UNCHANGED <<up, ready>>
        /\ down' = [down EXCEPT ![conn[g]] = Tail(@)]
  /\ UNCHANGED <<gui, conn, conns, dead, owner, work, journal, bounds>>

\* What the client had queued but not yet sent goes with the connection.
HangUp(g) ==
  /\ conn' = [conn EXCEPT ![g] = 0] /\ ready' = [ready EXCEPT ![g] = FALSE]
  /\ down' = [i \in Conns |-> IF i = conn[g] THEN <<>> ELSE down[i]]
  /\ IF conn[g] \in dead \cup {0} THEN UNCHANGED up
     ELSE \E n \in 0 .. Len(up[conn[g]]) :
            up' = [up EXCEPT ![conn[g]] = SubSeq(@, 1, n) \o <<Bare("eof")>>]

\* poll raises: the service is gone, or the client gives the connection up.
LoseConnection(g) ==
  /\ Open(g) /\ conn[g] # 0
  /\ \/ conn[g] \in dead /\ UNCHANGED drops
     \/ conn[g] \notin dead /\ May(drops + 1, crashes, faults, timeouts) /\ drops' = drops + 1
  /\ HangUp(g)
  /\ UNCHANGED <<gui, pending, told, conns, dead, owner, work, journal,
                 crashes, faults, timeouts>>

\* disconnect at exit: durable identifiers stay with the service.
CloseGui(g) ==
  /\ Open(g) /\ gui' = [gui EXCEPT ![g] = "gone"]
  /\ pending' = [pending EXCEPT ![g] = <<>>]
  /\ HangUp(g)
  /\ UNCHANGED <<told, conns, dead, owner, work, journal, bounds>>
-----------------------------------------------------------------------------
(* The event loop of the service                                            *)

AcceptConnection(i) ==
  /\ Up /\ i \in (1 .. conns) \ (dead \cup clients)
  /\ clients' = clients \cup {i} /\ hadClient' = TRUE
  /\ UNCHANGED <<client, wire, service, draining, replay, work, journal, bounds>>

\* A submission the service does not look at: it drains, or the queue is full.
Refused == draining \/ Len(queue) >= QueueSize

\* One message of a client.  The queue is checked before the journal is asked
\* whether it knows the operation already.
Serve(i) ==
  /\ Up /\ i \in clients /\ up[i] # <<>>
  /\ LET m == Head(up[i])
         o == m.op
     IN \/ /\ m.type = "hello"
           /\ Send(i, <<Bare(IF draining THEN "ready_draining" ELSE "ready")>>)
           /\ replay' = replay \cup {i}
           /\ UNCHANGED <<clients, dead, queue, row>>
        \/ /\ m.type = "submit" /\ Refused
           /\ Send(i, <<Message("error", o, "error")>>)
           /\ UNCHANGED <<clients, dead, replay, queue, row>>
        \/ /\ m.type = "submit" /\ ~Refused /\ row[o] = "absent"
           /\ row' = [row EXCEPT ![o] = "INTENT"]
           /\ queue' = Append(queue, o)
           /\ UNCHANGED <<clients, dead, replay, down>>
        \/ /\ m.type = "submit" /\ ~Refused /\ row[o] # "absent"
           /\ IF row[o] \in Results THEN Send(i, <<Message("result", o, row[o])>>)
                                    ELSE UNCHANGED down
           /\ UNCHANGED <<clients, dead, replay, queue, row>>
        \/ /\ m.type = "eof"
           /\ clients' = clients \ {i} /\ replay' = replay \ {i} /\ dead' = dead \cup {i}
           /\ UNCHANGED <<down, queue, row>>
  /\ up' = [up EXCEPT ![i] = Tail(@)]
  /\ UNCHANGED <<client, conns, service, draining, hadClient, busy, completed,
                 receipts, started, bounds>>

\* A finished result goes to every client connected at that moment.
Broadcast ==
  /\ Up /\ completed # <<>>
  /\ down' = [i \in Conns |-> IF i \in clients /\ Heard(i) THEN Append(down[i], Head(completed)) ELSE down[i]]
  /\ completed' = Tail(completed)
  /\ UNCHANGED <<client, up, conns, dead, owner, queue, busy, journal, bounds>>

ReplayHistory(i) ==
  /\ Up /\ i \in replay
  /\ Send(i, [n \in 1 .. Len(receipts) |-> Message("history", receipts[n], row[receipts[n]])])
  /\ replay' = replay \ {i}
  /\ UNCHANGED <<client, up, conns, dead, service, draining, hadClient, clients, work,
                 journal, bounds>>

Stopped == /\ service' = "none" /\ draining' = FALSE /\ hadClient' = FALSE
           /\ clients' = {} /\ replay' = {} /\ queue' = <<>> /\ busy' = Free /\ completed' = <<>>
           /\ dead' = 1 .. conns /\ up' = [i \in Conns |-> <<>>]

\* Bug: only a client that came and went makes the service drain.
ClientsLeft == hadClient \/ draining
\* Nobody is connected: after its first client, when the window that started it
\* is gone, or when nobody came for 15 seconds.  With work left it drains,
\* without it releases the profile at once.
Abandoned == hadClient \/ gui[service] = "gone" \/ draining
Idle      == queue = <<>> /\ busy = Free

Drain ==
  /\ Up /\ clients = {}
  /\ \/ Abandoned /\ UNCHANGED timeouts
     \/ ~Abandoned /\ May(drops, crashes, faults, timeouts + 1) /\ timeouts' = timeouts + 1
  /\ IF Idle THEN Stopped
     ELSE /\ draining' = TRUE
          /\ UNCHANGED <<up, dead, service, hadClient, clients, replay, work>>
  /\ UNCHANGED <<client, down, conns, journal, drops, crashes, faults>>

Crash ==
  /\ Up /\ May(drops, crashes + 1, faults, timeouts) /\ crashes' = crashes + 1
  /\ Stopped
  /\ UNCHANGED <<client, down, conns, journal, drops, faults, timeouts>>
-----------------------------------------------------------------------------
(* The worker thread: execute_tasks                                         *)

Take ==
  /\ Up /\ queue # <<>> /\ busy = Free
  /\ busy' = [op |-> Head(queue), mode |-> IF draining THEN "cancel" ELSE "execute"]
  /\ queue' = Tail(queue)
  /\ UNCHANGED <<client, wire, owner, completed, journal, bounds>>

\* The engine saves the first manifest of the operation and touches files.
BeginWork ==
  /\ busy.mode = "execute" /\ row[busy.op] = "INTENT"
  /\ row' = [row EXCEPT ![busy.op] = "STAGED"]
  /\ started' = [started EXCEPT ![busy.op] = @ + 1]
  /\ UNCHANGED <<client, wire, owner, work, receipts, bounds>>

\* Bug: a task can be called complete before its first manifest is saved.
AnyEnding == {"completed"} \cup (IF draining THEN {"cancelled"} ELSE {})
\* How the task can end: it fails with its files as they were, or is cancelled so
\* when the service drains; once file work began it completes, or leaves files to
\* recover.
Endings == (IF busy.mode = "cancel" THEN {} ELSE
            {"failed"} \cup (IF row[busy.op] = "INTENT" THEN {} ELSE {"completed", "recovery_required"}))
           \cup (IF draining THEN {"cancelled"} ELSE {})

Report(o, r) == completed' = Append(completed, Message("result", o, r)) /\ busy' = Free

\* The result is durable before it is reported.  When that update raises, the
\* row keeps its manifest or intent and the result exists in memory only.
FinishTask ==
  /\ busy # Free
  /\ LET o == busy.op IN
     \/ \E r \in Endings :
          /\ row' = [row EXCEPT ![o] = r] /\ receipts' = Append(receipts, o)
          /\ Report(o, r) /\ UNCHANGED faults
     \/ /\ May(drops, crashes, faults + 1, timeouts) /\ faults' = faults + 1
        /\ \E r \in {"completed", "recovery_required"} :
             /\ r = "completed" => row[o] = "STAGED"
             /\ Report(o, r)
        /\ UNCHANGED <<row, receipts>>
  /\ UNCHANGED <<client, wire, owner, queue, started, drops, crashes, timeouts>>
-----------------------------------------------------------------------------
Client(g) == Connect(g) \/ Spawn(g) \/ Receive(g)
             \/ (conn[g] \in dead /\ LoseConnection(g))
Loop      == \/ \E i \in Conns : AcceptConnection(i) \/ Serve(i) \/ ReplayHistory(i)
             \/ Broadcast \/ Drain
Worker    == Take \/ BeginWork \/ FinishTask

Next ==
  \/ \E g \in Guis : \/ OpenGui(g) \/ CloseGui(g) \/ Client(g) \/ LoseConnection(g)
                     \/ \E o \in Ops : Submit(g, o)
  \/ Loop \/ Worker \/ Crash

\* The client's Qt timer fires every 50 ms, select wakes the event loop at least
\* as often and serves every ready connection, and the worker thread runs.
Fairness ==
  /\ \A g \in Guis : WF_vars(Client(g))
  /\ \A i \in Conns : WF_vars(AcceptConnection(i)) /\ WF_vars(Serve(i)) /\ WF_vars(ReplayHistory(i))
  /\ WF_vars(Broadcast) /\ WF_vars(Drain) /\ WF_vars(Worker)

Spec == Init /\ [][Next]_vars
FairSpec == Spec /\ Fairness
-----------------------------------------------------------------------------
TypeOK ==
  /\ gui \in [Guis -> {"unopened", "open", "gone"}] /\ pending \in [Guis -> Seq(Ops)]
  /\ ready \in [Guis -> BOOLEAN] /\ conn \in [Guis -> {0} \cup Conns]
  /\ told \in [Ops -> {"new", "waiting", "error"} \cup Results]
  /\ conns \in 0 .. MaxConns /\ dead \subseteq Conns
  /\ service \in {"none"} \cup Guis /\ draining \in BOOLEAN /\ hadClient \in BOOLEAN
  /\ clients \subseteq Conns /\ replay \subseteq clients
  /\ queue \in Seq(Ops) /\ Len(queue) <= QueueSize
  /\ busy \in {Free} \cup [op : Ops, mode : {"execute", "cancel"}]
  /\ row \in [Ops -> {"absent", "INTENT", "STAGED"} \cup Results]
  /\ receipts \in Seq(Ops) /\ started \in [Ops -> Nat]

\* File work of one operation is begun at most once, however often the request
\* is resubmitted, and through whatever deaths and drains of the service.
AtMostOnce == TypeOK /\ \A o \in Ops : started[o] <= 1

\* What a window was told is what happened: completed work was really executed
\* and is never recorded as cancelled, cancelled work is so in the journal.
ToldTruth ==
  \A o \in Ops :
    /\ told[o] = "completed" => started[o] = 1 /\ row[o] # "cancelled"
    /\ told[o] = "cancelled" => row[o] = "cancelled"
    /\ told[o] = "recovery_required" => row[o] # "completed"

\* A window that comes back while the owner it left drains is served by it all the
\* same: the owner does not exit while a client is connected, refuses submissions,
\* and never stops draining.
HeldDraining == draining /\ \E g \in Guis : conn[g] # 0

\* A result that no journal update recorded is told once, to the windows connected
\* then: one that was away waits for the next owner to reconcile the row.
MayMiss == drops > 0 /\ faults > 0

\* Unless it holds a draining owner up for ever, a window that stays open is answered
\* everything it waits for: after a drop, a death or a drain of the owner, and whether
\* or not the journal knows the operations.
Answered ==
  []<>~HeldDraining =>
    \A g \in Guis : []<>(pending[g] = <<>> \/ gui[g] = "gone" \/ MayMiss)

\* Once every window is gone the service gives up the profile, and unless it died
\* or a journal update failed, everything it had accepted is settled by then.
AllGone  == \A g \in Guis : gui[g] = "gone"
Releases == AllGone ~> (~Up /\ (crashes = 0 /\ faults = 0 => Interrupted = {}))
=============================================================================
