------------------------ MODULE MutationServiceProofs ------------------------
(***************************************************************************)
(* What the windows can rely on, for any number of windows, operations,    *)
(* connections, broken connections and deaths of the service: no operation *)
(* is begun twice, and what a window was told is what happened.            *)
(*                                                                         *)
(* A result travels through the worker, the event loop, a socket and the   *)
(* client while the journal goes on.  The invariant therefore says of every *)
(* message in flight what is said of the windows: it is true now, and it   *)
(* stays true because the operation has left the queue and the worker.     *)
(***************************************************************************)
EXTENDS MutationService, FiniteSetTheorems, SequenceTheorems, TLAPS

InWork(o) == busy.op = o \/ \E n \in 1 .. Len(queue) : queue[n] = o

\* What a result says of the journal and of the file work done.
Holds(o, r) ==
  /\ ~InWork(o) /\ row[o] # "absent"
  /\ r = "completed"         => started[o] = 1 /\ row[o] \in {"STAGED", "completed", "recovery_required"}
  /\ r = "cancelled"         => row[o] = "cancelled"
  /\ r = "recovery_required" => row[o] # "completed"

Asks == {Bare("hello"), Bare("eof")} \cup {Message("submit", o, "none") : o \in Ops}
Says == [type : {"ready", "ready_draining"}, op : {NoOp}, result : {"none"}]
        \cup [type : {"error"}, op : Ops, result : {"error"}]
        \cup {m \in [type : {"result", "history"}, op : Ops, result : Results] : Holds(m.op, m.result)}

States  == {"absent", "INTENT", "STAGED"} \cup Results
Known   == {o \in Ops : row[o] \in Results}

\* Without the text of the messages.
Shape ==
  /\ gui \in [Guis -> {"unopened", "open", "gone"}] /\ pending \in [Guis -> Seq(Ops)]
  /\ ready \in [Guis -> BOOLEAN] /\ conn \in [Guis -> {0} \cup Conns]
  /\ told \in [Ops -> {"new", "waiting", "error"} \cup Results]
  /\ conns \in 0 .. MaxConns /\ dead \subseteq Conns
  /\ service \in {"none"} \cup Guis /\ draining \in BOOLEAN /\ hadClient \in BOOLEAN
  /\ clients \subseteq Conns /\ replay \subseteq clients

WorkOK ==
  /\ queue \in Seq(Ops) /\ Len(queue) <= QueueSize
  /\ busy \in {Free} \cup [op : Ops, mode : {"execute", "cancel"}]
  /\ \A m, n \in 1 .. Len(queue) : queue[m] = queue[n] => m = n
  /\ \A n \in 1 .. Len(queue) : queue[n] # busy.op
  /\ ~Up => queue = <<>> /\ busy = Free

RowsOK ==
  /\ row \in [Ops -> States] /\ started \in [Ops -> Nat]
  /\ \A o \in Ops : /\ row[o] \in {"absent", "INTENT"}    => started[o] = 0
                    /\ row[o] \in {"STAGED", "completed"} => started[o] = 1
                    /\ started[o] <= 1
                    /\ InWork(o) => row[o] \in {"INTENT", "STAGED"}
  /\ receipts \in Seq(Known)

TellOK ==
  /\ up \in [Conns -> Seq(Asks)] /\ down \in [Conns -> Seq(Says)] /\ completed \in Seq(Says)
  /\ \A o \in Ops : told[o] \in Results => Holds(o, told[o])

SInv == Shape /\ WorkOK /\ RowsOK /\ TellOK
-----------------------------------------------------------------------------
(* Sequences.                                                               *)

\* A removed key leaves a sequence of keys.
LEMMA PopType ==
  ASSUME NEW s \in Seq(Ops), NEW o
  PROVE  Pop(s, o) \in Seq(Ops)
<1>1. CASE ~Contains(s, o)
  BY <1>1 DEF Pop
<1>2. CASE Contains(s, o)
  <2>1. PICK i \in 1 .. Len(s) : i = CHOOSE j \in 1 .. Len(s) : s[j] = o
    BY <1>2 DEF Contains
  <2>2. SubSeq(s, 1, i - 1) \in Seq(Ops)
    <3>1. \A j \in 1 .. i - 1 : s[j] \in Ops
      OBVIOUS
    <3> QED BY <2>1, <3>1, SubSeqProperties
  <2>3. SubSeq(s, i + 1, Len(s)) \in Seq(Ops)
    <3>1. \A j \in i + 1 .. Len(s) : s[j] \in Ops
      OBVIOUS
    <3> QED BY <2>1, <3>1, SubSeqProperties
  <2> QED BY <1>2, <2>1, <2>2, <2>3, ConcatProperties DEF Pop, RemoveAt
<1> QED BY <1>1, <1>2

\* A finite set is listed by a sequence of its elements.
LEMMA ListType ==
  ASSUME NEW S \in SUBSET Ops
  PROVE  SetToSeq(S) \in Seq(S)
<1>1. IsFiniteSet(S) /\ Cardinality(S) \in Nat
  BY ServiceAssumption, FS_Subset, FS_CardinalityType
<1>2. \E f \in [1 .. Cardinality(S) -> S] : IsInjective(f)
  <2>1. PICK f : f \in Bijection(1 .. Cardinality(S), S)
    BY <1>1, FS_CardinalityType DEF ExistsBijection
  <2> QED BY <2>1 DEF Bijection, Injection, IsInjective
<1>3. SetToSeq(S) \in [1 .. Cardinality(S) -> S]
  BY <1>2 DEF SetToSeq
<1> QED BY <1>1, <1>3

\* A message of a kind, and the two that carry nothing.
LEMMA MessageFields ==
  \A t, o, r : /\ Message(t, o, r).type = t /\ Message(t, o, r).op = o /\ Message(t, o, r).result = r
               /\ Message(t, o, r) = [type |-> t, op |-> o, result |-> r]
               /\ Bare(t) = [type |-> t, op |-> NoOp, result |-> "none"]
BY DEF Message, Bare

\* The first bytes a client still has to send form a stream of requests.
LEMMA CutType ==
  ASSUME NEW S, NEW s \in Seq(S), NEW n \in 0 .. Len(s)
  PROVE  SubSeq(s, 1, n) \in Seq(S)
<1>1. \A j \in 1 .. n : s[j] \in S
  OBVIOUS
<1> QED BY <1>1, SubSeqProperties
-----------------------------------------------------------------------------
(* What was said stays true.                                                *)

\* Of an operation that is known and no longer worked on, a step may only
\* reconcile the row, and may not take it up again.
Lasting ==
  \A o \in Ops : ~InWork(o) /\ row[o] # "absent" =>
    /\ ~InWork(o)' /\ started'[o] = started[o]
    /\ \/ row'[o] = row[o]
       \/ row[o] = "INTENT" /\ row'[o] = "cancelled"
       \/ row[o] = "STAGED" /\ row'[o] = "recovery_required"

\* Then every message and everything a window was told stays true.
LEMMA StillTrue ==
  ASSUME SInv, Lasting
  PROVE  /\ \A o \in Ops, r \in Results : Holds(o, r) => Holds(o, r)'
         /\ \A s \in Seq(Says) : s \in Seq(Says)'
         /\ Says \subseteq Says'
<1>1. \A o \in Ops, r \in Results : Holds(o, r) => Holds(o, r)'
  BY DEF Lasting, Holds, Results
<1>2. Says \subseteq Says'
  BY <1>1 DEF Says
<1>3. \A S, T : S \subseteq T => \A s \in Seq(S) : s \in Seq(T)
  BY SeqMonotonic
<1> QED BY <1>1, <1>2, <1>3

\* A step of a client, or of the event loop, that leaves the work and the journal alone.
LEMMA TalkStep ==
  ASSUME SInv, Shape', UNCHANGED <<queue, busy, row, started, receipts>>,
         service' = service \/ (queue = <<>> /\ busy = Free),
         up' \in [Conns -> Seq(Asks)], down' \in [Conns -> Seq(Says)], completed' \in Seq(Says),
         \A o \in Ops : told'[o] = told[o] \/ (told'[o] \in Results => Holds(o, told'[o]))
  PROVE  SInv'
<1>1. Says' = Says /\ Known' = Known
  BY DEF Says, Known, Holds, InWork
<1>2. WorkOK'
  BY DEF SInv, WorkOK, Up
<1>3. RowsOK'
  BY <1>1 DEF SInv, RowsOK, InWork
<1>4. TellOK'
  <2>1. up' \in [Conns -> Seq(Asks)] /\ (down \in [Conns -> Seq(Says)])' /\ (completed \in Seq(Says))'
    BY <1>1
  <2>2. \A o \in Ops : (told[o] \in Results => Holds(o, told[o]))'
    <3> SUFFICES ASSUME NEW o \in Ops, NEW r \in Results, told'[o] = r
                 PROVE  Holds(o, r)'
      OBVIOUS
    <3>1. Holds(o, r)
      BY DEF SInv, TellOK
    <3> QED BY <3>1 DEF Holds, InWork
  <2> QED BY <2>1, <2>2 DEF TellOK
<1> QED BY <1>2, <1>3, <1>4 DEF SInv
-----------------------------------------------------------------------------
(* The wire.                                                                *)

\* What is sent joins what is in flight, or is lost.
LEMMA SendType ==
  ASSUME down \in [Conns -> Seq(Says)], NEW i \in Conns, NEW s \in Seq(Says), Send(i, s)
  PROVE  down' \in [Conns -> Seq(Says)]
<1>1. down[i] \o s \in Seq(Says)
  BY ConcatProperties
<1> QED BY <1>1 DEF Send

\* So do the requests of a client.
LEMMA AskType ==
  ASSUME up \in [Conns -> Seq(Asks)], NEW g, conn[g] \in {0} \cup Conns, NEW s \in Seq(Ops), Ask(g, s)
  PROVE  up' \in [Conns -> Seq(Asks)]
<1> DEFINE a == [n \in 1 .. Len(s) |-> Message("submit", s[n], "none")]
<1>1. \A n \in 1 .. Len(s) : Message("submit", s[n], "none") \in Asks
  BY DEF Asks
<1>2. a \in Seq(Asks)
  <2>1. Len(s) \in Nat
    OBVIOUS
  <2>2. a \in [1 .. Len(s) -> Asks]
    BY <1>1
  <2> QED BY <2>1, <2>2
<1>3. CASE conn[g] \in dead \cup {0}
  BY <1>3 DEF Ask, Tell
<1>4. CASE conn[g] \notin dead \cup {0}
  <2>1. up[conn[g]] \o a \in Seq(Asks)
    BY <1>2, <1>4, ConcatProperties
  <2> QED BY <1>4, <2>1 DEF Ask, Tell
<1> QED BY <1>3, <1>4

\* A client that hangs up loses what it has not read or not sent.
LEMMA HangUpType ==
  ASSUME SInv, NEW g \in Guis, HangUp(g)
  PROVE  /\ up' \in [Conns -> Seq(Asks)] /\ down' \in [Conns -> Seq(Says)]
         /\ conn' \in [Guis -> {0} \cup Conns] /\ ready' \in [Guis -> BOOLEAN]
<1>1. /\ up \in [Conns -> Seq(Asks)] /\ down \in [Conns -> Seq(Says)]
      /\ conn \in [Guis -> {0} \cup Conns] /\ ready \in [Guis -> BOOLEAN]
  BY DEF SInv, TellOK, Shape
<1>2. conn' \in [Guis -> {0} \cup Conns] /\ ready' \in [Guis -> BOOLEAN]
  BY <1>1 DEF HangUp
<1>3. down' \in [Conns -> Seq(Says)]
  BY <1>1, EmptySeq DEF HangUp
<1>4. CASE conn[g] \in dead \cup {0}
  BY <1>1, <1>2, <1>3, <1>4 DEF HangUp
<1>5. CASE conn[g] \notin dead \cup {0}
  <2>1. PICK n \in 0 .. Len(up[conn[g]]) :
          up' = [up EXCEPT ![conn[g]] = SubSeq(up[conn[g]], 1, n) \o <<Bare("eof")>>]
    BY <1>5 DEF HangUp
  <2>2. conn[g] \in Conns /\ up[conn[g]] \in Seq(Asks) /\ <<Bare("eof")>> \in Seq(Asks)
    <3>1. Bare("eof") \in Asks
      BY DEF Asks
    <3> QED BY <1>1, <1>5, <3>1
  <2>3. SubSeq(up[conn[g]], 1, n) \in Seq(Asks)
    BY <2>1, <2>2, CutType
  <2>4. SubSeq(up[conn[g]], 1, n) \o <<Bare("eof")>> \in Seq(Asks)
    BY <2>2, <2>3, ConcatProperties
  <2> QED BY <1>1, <1>2, <1>3, <2>1, <2>4
<1> QED BY <1>4, <1>5
-----------------------------------------------------------------------------
(* The clients.                                                             *)

\* A client that is told something is told the truth.
LEMMA ReceiveInv ==
  ASSUME SInv, NEW g \in Guis, Receive(g)
  PROVE  SInv'
<1>1. /\ Shape /\ up \in [Conns -> Seq(Asks)] /\ down \in [Conns -> Seq(Says)] /\ completed \in Seq(Says)
      /\ conn[g] \in Conns /\ down[conn[g]] \in Seq(Says) /\ down[conn[g]] # <<>>
  BY DEF SInv, TellOK, Shape, Receive
<1>2. PICK m \in Says : m = Head(down[conn[g]])
  BY <1>1, HeadTailProperties
<1>3. down' \in [Conns -> Seq(Says)]
  <2>1. Tail(down[conn[g]]) \in Seq(Says) /\ down' = [down EXCEPT ![conn[g]] = Tail(down[conn[g]])]
    BY <1>1, HeadTailProperties DEF Receive
  <2> QED BY <1>1, <2>1
<1>4. UNCHANGED <<gui, conn, conns, dead, owner, work, journal, bounds>>
  BY DEF Receive
<1>5. CASE m.type = "ready"
  <2>1. /\ ready' = [ready EXCEPT ![g] = TRUE] /\ Ask(g, pending[g]) /\ UNCHANGED <<pending, told>>
    BY <1>2, <1>5 DEF Receive, Resubmitted
  <2>2. up' \in [Conns -> Seq(Asks)]
    BY <1>1, <2>1, AskType DEF Shape
  <2>3. Shape'
    BY <1>1, <1>4, <2>1 DEF Shape, owner
  <2> QED BY <1>1, <1>3, <1>4, <2>1, <2>2, <2>3, TalkStep DEF owner, work, journal
<1>6. CASE m.type = "ready_draining"
  <2>1. ready' = [ready EXCEPT ![g] = FALSE] /\ UNCHANGED <<up, pending, told>>
    BY <1>2, <1>6 DEF Receive
  <2>2. Shape'
    BY <1>1, <1>4, <2>1 DEF Shape, owner
  <2> QED BY <1>1, <1>3, <1>4, <2>1, <2>2, TalkStep DEF owner, work, journal
<1>7. CASE m.type \notin {"ready", "ready_draining"}
  <2>1. /\ pending' = [pending EXCEPT ![g] = Pop(pending[g], m.op)]
        /\ told' = [told EXCEPT ![m.op] = m.result] \/ told' = told
        /\ UNCHANGED <<up, ready>>
    BY <1>2, <1>7 DEF Receive
  <2>2. m.op \in Ops /\ m.result \in {"error"} \cup Results /\ (m.result \in Results => Holds(m.op, m.result))
    BY <1>7 DEF Says, Results
  <2>3. Pop(pending[g], m.op) \in Seq(Ops)
    BY <1>1, PopType DEF Shape
  <2>4. Shape'
    <3>1. pending' \in [Guis -> Seq(Ops)]
      BY <1>1, <2>1, <2>3 DEF Shape
    <3>2. told' \in [Ops -> {"new", "waiting", "error"} \cup Results]
      BY <1>1, <2>1, <2>2 DEF Shape
    <3> QED BY <1>1, <1>4, <2>1, <3>1, <3>2 DEF Shape, owner
  <2>5. \A o \in Ops : told'[o] = told[o] \/ (told'[o] \in Results => Holds(o, told'[o]))
    BY <1>1, <2>1, <2>2 DEF Shape
  <2> QED BY <1>1, <1>3, <1>4, <2>1, <2>4, <2>5, TalkStep DEF owner, work, journal
<1> QED BY <1>5, <1>6, <1>7

\* What else a window does: it opens, asks, connects, and leaves.
LEMMA ClientInv ==
  ASSUME SInv, NEW g \in Guis,
         OpenGui(g) \/ CloseGui(g) \/ Connect(g) \/ LoseConnection(g) \/ \E o \in Ops : Submit(g, o)
  PROVE  SInv'
<1>1. Shape /\ up \in [Conns -> Seq(Asks)] /\ down \in [Conns -> Seq(Says)] /\ completed \in Seq(Says)
  BY DEF SInv, TellOK
<1>2. UNCHANGED <<owner, work, journal>>
  BY DEF OpenGui, CloseGui, Connect, LoseConnection, Submit
<1>3. CASE OpenGui(g)
  <2>1. Shape'
    BY <1>1, <1>2, <1>3 DEF OpenGui, Shape, owner, wire
  <2> QED BY <1>1, <1>2, <1>3, <2>1, TalkStep DEF OpenGui, owner, work, journal, wire
<1>4. CASE CloseGui(g)
  <2>1. Shape'
    <3>1. pending' \in [Guis -> Seq(Ops)]
      BY <1>1, <1>4, EmptySeq DEF CloseGui, Shape
    <3> QED BY <1>1, <1>2, <1>4, <3>1, HangUpType DEF CloseGui, Shape, owner
  <2> QED BY <1>1, <1>2, <1>4, <2>1, TalkStep, HangUpType DEF CloseGui, owner, work, journal
<1>5. CASE LoseConnection(g)
  <2>1. Shape'
    BY <1>1, <1>2, <1>5, HangUpType DEF LoseConnection, Shape, owner
  <2> QED BY <1>1, <1>2, <1>5, <2>1, TalkStep, HangUpType DEF LoseConnection, owner, work, journal
<1>6. CASE Connect(g)
  <2>1. conns + 1 \in Conns /\ conns + 1 \in 0 .. MaxConns
    BY <1>1, <1>6, ServiceAssumption DEF Connect, Shape, Conns
  <2>2. Bare("hello") \in Asks
    BY DEF Asks
  <2>3. up' \in [Conns -> Seq(Asks)]
    BY <1>1, <1>6, <2>1, <2>2 DEF Connect
  <2>4. Shape'
    BY <1>1, <1>2, <1>6, <2>1 DEF Connect, Shape, owner
  <2> QED BY <1>1, <1>2, <1>6, <2>3, <2>4, TalkStep DEF Connect, owner, work, journal
<1>7. ASSUME NEW o \in Ops, Submit(g, o) PROVE SInv'
  <2>1. up' \in [Conns -> Seq(Asks)]
    <3>1. <<o>> \in Seq(Ops)
      OBVIOUS
    <3> QED BY <1>1, <1>7, <3>1, AskType DEF Submit, Shape
  <2>2. Shape'
    <3>1. pending' \in [Guis -> Seq(Ops)]
      BY <1>1, <1>7 DEF Submit, Shape
    <3>2. told' \in [Ops -> {"new", "waiting", "error"} \cup Results]
      BY <1>1, <1>7 DEF Submit, Shape
    <3> QED BY <1>1, <1>2, <1>7, <3>1, <3>2 DEF Submit, Shape, owner
  <2>3. \A k \in Ops : told'[k] = told[k] \/ told'[k] \notin Results
    BY <1>1, <1>7 DEF Submit, Shape, Results
  <2> QED BY <1>1, <1>2, <1>7, <2>1, <2>2, <2>3, TalkStep DEF Submit, owner, work, journal
<1> QED BY <1>3, <1>4, <1>5, <1>6, <1>7
-----------------------------------------------------------------------------
(* The event loop.                                                          *)

\* A step that works on an operation leaves what was said of the others true.
LEMMA WorkStep ==
  ASSUME SInv, Lasting, Shape', WorkOK', RowsOK', told' = told,
         up' \in [Conns -> Seq(Asks)], down' \in [Conns -> Seq(Says)], (completed \in Seq(Says))'
  PROVE  SInv'
<1>1. (down \in [Conns -> Seq(Says)])'
  BY StillTrue
<1>2. \A o \in Ops : (told[o] \in Results => Holds(o, told[o]))'
  <2> SUFFICES ASSUME NEW o \in Ops, NEW r \in Results, told'[o] = r
               PROVE  Holds(o, r)'
    OBVIOUS
  <2>1. Holds(o, r)
    BY DEF SInv, TellOK
  <2> QED BY <2>1, StillTrue
<1> QED BY <1>1, <1>2 DEF SInv, TellOK

\* A receipt of a settled row may be sent: it says what the journal says.
LEMMA SettledHolds ==
  ASSUME SInv, NEW o \in Known
  PROVE  /\ o \in Ops /\ row[o] \in Results /\ Holds(o, row[o])
         /\ \A t \in {"result", "history"} : Message(t, o, row[o]) \in Says
<1>1. o \in Ops /\ row[o] \in Results
  BY DEF Known
<1>2. Holds(o, row[o])
  BY <1>1 DEF SInv, RowsOK, Holds, Results
<1>3. ASSUME NEW t \in {"result", "history"} PROVE Message(t, o, row[o]) \in Says
  <2>1. Message(t, o, row[o]) \in [type : {"result", "history"}, op : Ops, result : Results]
    BY <1>1 DEF Message
  <2> QED BY <1>2, <2>1, MessageFields DEF Says
<1> QED BY <1>1, <1>2, <1>3

\* A request for an operation that is not known is accepted into the queue.
LEMMA AcceptInv ==
  ASSUME SInv, Up, NEW o \in Ops, ~Refused, row[o] = "absent",
         row' = [row EXCEPT ![o] = "INTENT"], queue' = Append(queue, o), up' \in [Conns -> Seq(Asks)],
         UNCHANGED <<clients, dead, replay, down, client, conns, service, draining, hadClient, busy,
                     completed, receipts, started>>
  PROVE  SInv'
<1>1. Shape /\ WorkOK /\ RowsOK /\ TellOK
  BY DEF SInv
<1>2. ~InWork(o) /\ started[o] = 0
  BY <1>1 DEF RowsOK
<1>3. /\ queue' \in Seq(Ops) /\ Len(queue') = Len(queue) + 1
      /\ \A n \in 1 .. Len(queue') : queue'[n] = IF n = Len(queue) + 1 THEN o ELSE queue[n]
  BY <1>1 DEF WorkOK
<1>4. busy' = busy /\ busy.op # o /\ o # NoOp /\ row' \in [Ops -> States]
      /\ \A k \in Ops : row'[k] = IF k = o THEN "INTENT" ELSE row[k]
  BY <1>1, <1>2, ServiceAssumption DEF InWork, RowsOK, States
<1>5. \A k \in Ops : InWork(k)' => InWork(k) \/ k = o
  BY <1>1, <1>3, <1>4 DEF InWork, WorkOK
<1>6. Lasting
  BY <1>4, <1>5 DEF Lasting
<1>7. Shape'
  BY <1>1 DEF Shape, client
<1>8. WorkOK'
  <2>1. Len(queue') <= QueueSize
    BY <1>1, <1>3, ServiceAssumption DEF Refused, WorkOK
  <2>2. \A n \in 1 .. Len(queue) : queue[n] # o
    BY <1>2 DEF InWork
  <2> QED BY <1>1, <1>3, <1>4, <2>1, <2>2 DEF WorkOK, Up
<1>9. RowsOK'
  <2>1. Known \subseteq Known'
    BY <1>4 DEF Known, Results
  <2>2. receipts' \in Seq(Known')
    BY <1>1, <2>1, SeqMonotonic DEF RowsOK
  <2> QED BY <1>1, <1>2, <1>4, <1>5, <2>2 DEF RowsOK, Results
<1>10. (completed \in Seq(Says))'
  BY <1>1, <1>6, StillTrue DEF TellOK
<1> QED BY <1>1, <1>6, <1>7, <1>8, <1>9, <1>10, WorkStep DEF TellOK, client

\* One message of a client is served.
LEMMA ServeInv ==
  ASSUME SInv, NEW i \in Conns, Serve(i)
  PROVE  SInv'
<1>1. /\ Shape /\ up \in [Conns -> Seq(Asks)] /\ down \in [Conns -> Seq(Says)] /\ completed \in Seq(Says)
      /\ up[i] \in Seq(Asks) /\ up[i] # <<>> /\ up' = [up EXCEPT ![i] = Tail(up[i])]
  BY DEF SInv, TellOK, Serve
<1>2. PICK m \in Asks : m = Head(up[i])
  BY <1>1, HeadTailProperties
<1>3. up' \in [Conns -> Seq(Asks)]
  <2>1. Tail(up[i]) \in Seq(Asks)
    BY <1>1, HeadTailProperties
  <2> QED BY <1>1, <2>1
<1>4. /\ UNCHANGED <<client, conns, service, draining, hadClient, busy, completed, receipts, started>>
      /\ m.type = "submit" => m.op \in Ops
  BY MessageFields DEF Serve, Asks
<1>5. CASE m.type = "hello"
  <2>1. /\ Send(i, <<Bare(IF draining THEN "ready_draining" ELSE "ready")>>)
        /\ replay' = replay \cup {i} /\ UNCHANGED <<clients, dead, queue, row>> /\ i \in clients
    BY <1>2, <1>5 DEF Serve
  <2>2. Bare(IF draining THEN "ready_draining" ELSE "ready") \in Says
    BY MessageFields DEF Says
  <2>3. down' \in [Conns -> Seq(Says)]
    <3>1. <<Bare(IF draining THEN "ready_draining" ELSE "ready")>> \in Seq(Says)
      BY <2>2
    <3> QED BY <1>1, <2>1, <3>1, SendType
  <2>4. Shape'
    BY <1>1, <1>4, <2>1 DEF Shape, client
  <2> QED BY <1>1, <1>3, <1>4, <2>1, <2>3, <2>4, TalkStep DEF client
<1>6. CASE m.type = "submit" /\ Refused
  <2>1. Send(i, <<Message("error", m.op, "error")>>) /\ UNCHANGED <<clients, dead, replay, queue, row>>
    BY <1>2, <1>6 DEF Serve
  <2>2. Message("error", m.op, "error") \in Says
    BY <1>4, <1>6 DEF Says, Message
  <2>3. down' \in [Conns -> Seq(Says)]
    <3>1. <<Message("error", m.op, "error")>> \in Seq(Says)
      BY <2>2
    <3> QED BY <1>1, <2>1, <3>1, SendType
  <2>4. Shape'
    BY <1>1, <1>4, <2>1 DEF Shape, client
  <2> QED BY <1>1, <1>3, <1>4, <2>1, <2>3, <2>4, TalkStep DEF client
<1>7. CASE m.type = "submit" /\ ~Refused /\ row[m.op] = "absent"
  <2>1. /\ row' = [row EXCEPT ![m.op] = "INTENT"] /\ queue' = Append(queue, m.op)
        /\ UNCHANGED <<clients, dead, replay, down>> /\ Up
    BY <1>2, <1>7 DEF Serve
  <2> QED BY <1>3, <1>4, <1>7, <2>1, AcceptInv
<1>8. CASE m.type = "submit" /\ ~Refused /\ row[m.op] # "absent"
  <2>1. /\ IF row[m.op] \in Results THEN Send(i, <<Message("result", m.op, row[m.op])>>) ELSE UNCHANGED down
        /\ UNCHANGED <<clients, dead, replay, queue, row>>
    BY <1>2, <1>8 DEF Serve
  <2>2. down' \in [Conns -> Seq(Says)]
    <3>1. CASE row[m.op] \in Results
      <4>1. Message("result", m.op, row[m.op]) \in Says
        BY <1>4, <1>8, <3>1, SettledHolds DEF Known
      <4>2. <<Message("result", m.op, row[m.op])>> \in Seq(Says)
        BY <4>1
      <4> QED BY <1>1, <2>1, <3>1, <4>2, SendType
    <3> QED BY <1>1, <2>1, <3>1
  <2>3. Shape'
    BY <1>1, <1>4, <2>1 DEF Shape, client
  <2> QED BY <1>1, <1>3, <1>4, <2>1, <2>2, <2>3, TalkStep DEF client
<1>9. CASE m.type = "eof"
  <2>1. /\ clients' = clients \ {i} /\ replay' = replay \ {i} /\ dead' = dead \cup {i}
        /\ UNCHANGED <<down, queue, row>>
    BY <1>2, <1>9 DEF Serve
  <2>2. Shape'
    BY <1>1, <1>4, <2>1 DEF Shape, client
  <2> QED BY <1>1, <1>3, <1>4, <2>1, <2>2, TalkStep DEF client
<1>10. m.type \in {"hello", "submit", "eof"}
  BY MessageFields DEF Asks
<1> QED BY <1>5, <1>6, <1>7, <1>8, <1>9, <1>10

\* The rest of the loop, the death of the service, and its successor.
LEMMA LoopInv ==
  ASSUME SInv, Broadcast \/ Drain \/ Crash \/ (\E i \in Conns : AcceptConnection(i) \/ ReplayHistory(i))
  PROVE  SInv'
<1>1. Shape /\ up \in [Conns -> Seq(Asks)] /\ down \in [Conns -> Seq(Says)] /\ completed \in Seq(Says)
  BY DEF SInv, TellOK
<1>2. CASE Broadcast
  <2>1. Head(completed) \in Says /\ Tail(completed) \in Seq(Says)
    BY <1>1, <1>2, HeadTailProperties DEF Broadcast
  <2>2. down' \in [Conns -> Seq(Says)]
    <3>1. \A i \in Conns : Append(down[i], Head(completed)) \in Seq(Says)
      BY <1>1, <2>1
    <3> QED BY <1>1, <1>2, <3>1 DEF Broadcast
  <2>3. Shape'
    BY <1>1, <1>2 DEF Broadcast, Shape, client, owner
  <2> QED BY <1>1, <1>2, <2>1, <2>2, <2>3, TalkStep DEF Broadcast, client, owner, journal
<1>3. ASSUME NEW i \in Conns, AcceptConnection(i) PROVE SInv'
  <2>1. Shape'
    BY <1>1, <1>3 DEF AcceptConnection, Shape, client, wire
  <2> QED BY <1>1, <1>3, <2>1, TalkStep DEF AcceptConnection, client, wire, work, journal
<1>4. ASSUME NEW i \in Conns, ReplayHistory(i) PROVE SInv'
  <2> DEFINE h == [n \in 1 .. Len(receipts) |-> Message("history", receipts[n], row[receipts[n]])]
  <2>1. receipts \in Seq(Known) /\ Len(receipts) \in Nat
    BY DEF SInv, RowsOK
  <2>2. \A n \in 1 .. Len(receipts) : Message("history", receipts[n], row[receipts[n]]) \in Says
    BY <2>1, SettledHolds
  <2>3. h \in Seq(Says)
    <3>1. h \in [1 .. Len(receipts) -> Says]
      BY <2>2
    <3> QED BY <2>1, <3>1
  <2>4. down' \in [Conns -> Seq(Says)]
    BY <1>1, <1>4, <2>3, SendType DEF ReplayHistory
  <2>5. Shape'
    BY <1>1, <1>4 DEF ReplayHistory, Shape, client
  <2> QED BY <1>1, <1>4, <2>4, <2>5, TalkStep DEF ReplayHistory, client, work, journal
<1>5. CASE Drain /\ ~Stopped
  <2>1. /\ draining' = TRUE /\ UNCHANGED <<up, dead, service, hadClient, clients, replay, work>>
        /\ UNCHANGED <<client, down, conns, journal>>
    BY <1>5 DEF Drain
  <2>2. Shape'
    BY <1>1, <2>1 DEF Shape, client
  <2> QED BY <1>1, <2>1, <2>2, TalkStep DEF client, work, journal
<1>6. CASE Stopped /\ (Drain \/ Crash)
  <2>1. /\ service' = "none" /\ draining' = FALSE /\ hadClient' = FALSE /\ clients' = {} /\ replay' = {}
        /\ queue' = <<>> /\ busy' = Free /\ completed' = <<>> /\ dead' = 1 .. conns
        /\ up' = [c \in Conns |-> <<>>] /\ UNCHANGED <<client, down, conns, journal>>
    BY <1>6 DEF Drain, Crash, Stopped
  <2>2. \A o \in Ops : ~InWork(o)'
    BY <2>1, ServiceAssumption DEF InWork, Free
  <2>3. Lasting
    BY <2>1, <2>2 DEF Lasting, journal
  <2>4. Shape'
    <3>1. dead' \subseteq Conns
      BY <1>1, <2>1, ServiceAssumption DEF Shape, Conns
    <3> QED BY <1>1, <2>1, <3>1 DEF Shape, client
  <2>5. WorkOK'
    BY <2>1, ServiceAssumption DEF WorkOK, Up, Free
  <2>6. RowsOK'
    BY <2>1, <2>2 DEF SInv, RowsOK, Known, journal
  <2>7. up' \in [Conns -> Seq(Asks)] /\ (completed \in Seq(Says))'
    BY <2>1, EmptySeq
  <2> QED BY <1>1, <2>1, <2>3, <2>4, <2>5, <2>6, <2>7, WorkStep DEF client
<1> QED BY <1>2, <1>3, <1>4, <1>5, <1>6 DEF Crash

\* A service starts: what its predecessor left unfinished is settled first.
LEMMA SpawnInv ==
  ASSUME SInv, NEW g \in Guis, Spawn(g)
  PROVE  SInv'
<1>1. Shape /\ WorkOK /\ RowsOK /\ TellOK
  BY DEF SInv
<1>2. /\ ~Up /\ service' = g /\ row' = [o \in Ops |-> ReconciledRow(row[o])]
      /\ receipts' = receipts \o SetToSeq(Interrupted)
      /\ UNCHANGED <<client, wire, draining, hadClient, clients, replay, work, started>>
  BY DEF Spawn
<1>3. \A o \in Ops : ~InWork(o) /\ ~InWork(o)'
  BY <1>1, <1>2, ServiceAssumption DEF WorkOK, InWork, Free, work
<1>4. \A o \in Ops : /\ row[o] \in States
                     /\ row'[o] = IF row[o] = "INTENT" THEN "cancelled"
                                  ELSE IF row[o] = "STAGED" THEN "recovery_required" ELSE row[o]
  BY <1>1, <1>2 DEF RowsOK, ReconciledRow
<1>5. Lasting
  BY <1>2, <1>3, <1>4 DEF Lasting
<1>6. Shape'
  BY <1>1, <1>2 DEF Shape, client, wire
<1>7. WorkOK'
  BY <1>1, <1>2 DEF WorkOK, work, Up
<1>8. RowsOK'
  <2>1. row' \in [Ops -> States]
    BY <1>2, <1>4 DEF States, Results
  <2>2. Known \subseteq Known' /\ Interrupted \subseteq Known'
    BY <1>4 DEF Known, Interrupted, Results
  <2>3. SetToSeq(Interrupted) \in Seq(Interrupted)
    BY ListType DEF Interrupted
  <2>4. receipts \in Seq(Known') /\ SetToSeq(Interrupted) \in Seq(Known')
    BY <1>1, <2>2, <2>3, SeqMonotonic DEF RowsOK
  <2>5. receipts' \in Seq(Known')
    BY <1>2, <2>4, ConcatProperties
  <2> QED BY <1>1, <1>2, <1>3, <1>4, <2>1, <2>5 DEF RowsOK, Results
<1>9. (completed \in Seq(Says))'
  BY <1>1, <1>2, <1>5, StillTrue DEF TellOK, work
<1> QED BY <1>1, <1>2, <1>5, <1>6, <1>7, <1>8, <1>9, WorkStep DEF TellOK, client, wire
-----------------------------------------------------------------------------
(* The worker thread.                                                       *)

\* The worker takes the head of the queue: nothing else is in both.
LEMMA TakeInv ==
  ASSUME SInv, Take
  PROVE  SInv'
<1>1. Shape /\ WorkOK /\ RowsOK /\ TellOK
  BY DEF SInv
<1>2. PICK o \in Ops : /\ o = queue[1] /\ busy'.op = o /\ busy' \in [op : Ops, mode : {"execute", "cancel"}]
                       /\ queue' = Tail(queue) /\ queue # <<>> /\ busy = Free
                       /\ UNCHANGED <<client, wire, owner, completed, journal>> /\ Up
  BY <1>1 DEF Take, WorkOK
<1>3. /\ queue' \in Seq(Ops) /\ Len(queue) \in Nat /\ Len(queue) >= 1 /\ Len(queue') = Len(queue) - 1
      /\ \A n \in 1 .. Len(queue') : queue'[n] = queue[n + 1]
  BY <1>1, <1>2, HeadTailProperties DEF WorkOK
<1>4. \A k \in Ops : InWork(k)' => InWork(k)
  BY <1>2, <1>3 DEF InWork
<1>5. Lasting
  BY <1>2, <1>4 DEF Lasting, journal
<1>6. Shape'
  BY <1>1, <1>2 DEF Shape, client, wire, owner
<1>7. WorkOK'
  <2>1. Len(queue') <= QueueSize
    BY <1>1, <1>3, ServiceAssumption DEF WorkOK
  <2>2. \A m, n \in 1 .. Len(queue') : queue'[m] = queue'[n] => m = n
    BY <1>1, <1>3 DEF WorkOK
  <2>3. \A n \in 1 .. Len(queue') : queue'[n] # busy'.op
    BY <1>1, <1>2, <1>3 DEF WorkOK
  <2> QED BY <1>2, <1>3, <2>1, <2>2, <2>3 DEF WorkOK, Up, owner
<1>8. RowsOK'
  BY <1>1, <1>2, <1>4 DEF RowsOK, Known, journal
<1>9. (completed \in Seq(Says))'
  BY <1>1, <1>2, <1>5, StillTrue DEF TellOK
<1> QED BY <1>1, <1>2, <1>5, <1>6, <1>7, <1>8, <1>9, WorkStep DEF TellOK, client, wire

\* File work begins, for the first time.
LEMMA BeginInv ==
  ASSUME SInv, BeginWork
  PROVE  SInv'
<1>1. Shape /\ WorkOK /\ RowsOK /\ TellOK
  BY DEF SInv
<1>2. PICK o \in Ops : /\ o = busy.op /\ row[o] = "INTENT"
                       /\ row' = [row EXCEPT ![o] = "STAGED"] /\ started' = [started EXCEPT ![o] = started[o] + 1]
                       /\ UNCHANGED <<client, wire, owner, work, receipts>>
  <2>1. busy.mode = "execute" /\ busy.op \in Ops
    BY <1>1 DEF BeginWork, WorkOK, Free
  <2> QED BY <2>1 DEF BeginWork
<1>3. InWork(o) /\ \A k \in Ops : InWork(k)' = InWork(k)
  BY <1>2 DEF InWork, work
<1>4. /\ \A k \in Ops : /\ row'[k] = IF k = o THEN "STAGED" ELSE row[k]
                        /\ started'[k] = IF k = o THEN 1 ELSE started[k]
      /\ row' \in [Ops -> States] /\ started' \in [Ops -> Nat]
  BY <1>1, <1>2 DEF RowsOK, States
<1>5. Lasting
  BY <1>3, <1>4 DEF Lasting
<1>6. Shape' /\ WorkOK'
  BY <1>1, <1>2 DEF Shape, WorkOK, Up, client, wire, owner, work
<1>7. RowsOK'
  <2>1. Known \subseteq Known'
    BY <1>2, <1>4 DEF Known, Results
  <2>2. receipts' \in Seq(Known')
    BY <1>1, <1>2, <2>1, SeqMonotonic DEF RowsOK
  <2> QED BY <1>1, <1>3, <1>4, <2>2 DEF RowsOK
<1>8. (completed \in Seq(Says))'
  BY <1>1, <1>2, <1>5, StillTrue DEF TellOK, work
<1> QED BY <1>1, <1>2, <1>5, <1>6, <1>7, <1>8, WorkStep DEF TellOK, client, wire

\* A task ends: its result is true whether the journal took it or not.
LEMMA FinishInv ==
  ASSUME SInv, FinishTask
  PROVE  SInv'
<1>1. Shape /\ WorkOK /\ RowsOK /\ TellOK
  BY DEF SInv
<1>2. PICK o \in Ops, r \in Results :
        /\ o = busy.op /\ busy' = Free /\ completed' = Append(completed, Message("result", o, r))
        /\ UNCHANGED <<client, wire, owner, queue, started>>
        /\ \/ /\ row' = [row EXCEPT ![o] = r] /\ receipts' = Append(receipts, o)
              /\ r \in {"completed", "recovery_required"} => row[o] # "INTENT"
           \/ /\ r \in {"completed", "recovery_required"} /\ (r = "completed" => row[o] = "STAGED")
              /\ UNCHANGED <<row, receipts>>
  <2>1. busy.op \in Ops
    BY <1>1 DEF FinishTask, WorkOK, Free
  <2>2. Endings \subseteq Results /\ ("completed" \in Endings \/ "recovery_required" \in Endings => row[busy.op] # "INTENT")
    BY DEF Endings, Results
  <2> QED BY <2>1, <2>2 DEF FinishTask, Report, Results
<1>3. /\ InWork(o) /\ row[o] \in {"INTENT", "STAGED"}
      /\ \A k \in Ops : InWork(k)' => InWork(k) /\ k # o
  BY <1>1, <1>2, ServiceAssumption DEF InWork, RowsOK, WorkOK, Free
<1>4. /\ \A k \in Ops \ {o} : row'[k] = row[k]
      /\ row' \in [Ops -> States] /\ row'[o] \in {r, row[o]} /\ (r \in {"failed", "cancelled"} => row'[o] = r)
      /\ started' = started
  BY <1>1, <1>2 DEF RowsOK, States, Results
<1>5. Lasting
  BY <1>3, <1>4 DEF Lasting
<1>6. Shape' /\ WorkOK'
  <2>1. WorkOK'
    BY <1>1, <1>2, ServiceAssumption DEF WorkOK, Up, Free, owner
  <2> QED BY <1>1, <1>2, <2>1 DEF Shape, client, wire, owner
<1>7. started[o] = 1 \/ r # "completed"
  BY <1>1, <1>2, <1>3 DEF RowsOK
<1>8. RowsOK'
  <2>1. Known \subseteq Known'
    BY <1>3, <1>4 DEF Known, Results
  <2>2. receipts' \in Seq(Known')
    <3>1. receipts \in Seq(Known')
      BY <1>1, <2>1, SeqMonotonic DEF RowsOK
    <3>2. ASSUME row' = [row EXCEPT ![o] = r] PROVE o \in Known'
      BY <1>1, <3>2 DEF RowsOK, Known
    <3> QED BY <1>2, <3>1, <3>2
  <2> QED BY <1>1, <1>3, <1>4, <1>7, <2>2 DEF RowsOK, Results
<1>9. (completed \in Seq(Says))'
  <2>1. (Holds(o, r))'
    BY <1>2, <1>3, <1>4, <1>7 DEF Holds, Results
  <2>2. Message("result", o, r) \in Says'
    BY <2>1, MessageFields DEF Says
  <2>3. completed \in Seq(Says')
    BY <1>1, <1>5, StillTrue DEF TellOK
  <2> QED BY <1>2, <2>2, <2>3
<1> QED BY <1>1, <1>2, <1>5, <1>6, <1>8, <1>9, WorkStep DEF TellOK, client, wire
-----------------------------------------------------------------------------
\* Nothing is known, asked or said at the beginning.
LEMMA InitS ==
  ASSUME Init
  PROVE  SInv
<1>1. <<>> \in Seq(Ops) /\ <<>> \in Seq(Asks) /\ <<>> \in Seq(Says) /\ <<>> \in Seq(Known) /\ Len(<<>>) = 0
  BY EmptySeq
<1>2. Shape
  <2>1. 0 \in 0 .. MaxConns
    BY ServiceAssumption
  <2>2. pending \in [Guis -> Seq(Ops)] /\ gui \in [Guis -> {"unopened", "open", "gone"}]
    BY <1>1 DEF Init
  <2>3. ready \in [Guis -> BOOLEAN] /\ conn \in [Guis -> {0} \cup Conns]
    BY DEF Init
  <2>4. told \in [Ops -> {"new", "waiting", "error"} \cup Results]
    BY DEF Init
  <2> QED BY <2>1, <2>2, <2>3, <2>4 DEF Init, Shape
<1>3. WorkOK
  BY <1>1, ServiceAssumption DEF Init, WorkOK, Free
<1>4. \A o \in Ops : ~InWork(o)
  BY <1>1, ServiceAssumption DEF Init, InWork, Free
<1>5. RowsOK
  BY <1>1, <1>4 DEF Init, RowsOK, States, Results
<1>6. TellOK
  BY <1>1 DEF Init, TellOK, Results
<1> QED BY <1>2, <1>3, <1>5, <1>6 DEF SInv

\* Every step keeps the invariant.
LEMMA StepS ==
  ASSUME SInv, [Next]_vars
  PROVE  SInv'
<1>1. CASE UNCHANGED vars
  <2>1. Shape'
    BY <1>1 DEF vars, SInv, Shape
  <2> QED BY <1>1, <2>1, TalkStep DEF vars, SInv, TellOK
<1>2. CASE \E g \in Guis : \/ OpenGui(g) \/ CloseGui(g) \/ Client(g) \/ LoseConnection(g)
                           \/ \E o \in Ops : Submit(g, o)
  BY <1>2, ClientInv, ReceiveInv, SpawnInv DEF Client
<1>3. CASE Loop
  BY <1>3, ServeInv, LoopInv DEF Loop
<1>4. CASE Worker \/ Crash
  BY <1>4, TakeInv, BeginInv, FinishInv, LoopInv DEF Worker
<1> QED BY <1>1, <1>2, <1>3, <1>4 DEF Next

\* In every state that broken connections, deaths and drains of the service can
\* reach, every message in flight is true of the journal.
THEOREM ServiceInvariance == Spec => []SInv
BY InitS, StepS, PTL DEF Spec

\* File work of one operation is begun at most once: a resubmission finds the row, a
\* successor settles it before it serves anybody.
THEOREM BegunAtMostOnce == Spec => []AtMostOnce
<1>1. SInv => AtMostOnce
  <2> SUFFICES ASSUME SInv PROVE AtMostOnce
    OBVIOUS
  <2>1. receipts \in Seq(Ops)
    <3>1. Known \subseteq Ops
      BY DEF Known
    <3> QED BY <3>1, SeqMonotonic DEF SInv, RowsOK
  <2>2. TypeOK
    BY <2>1 DEF SInv, Shape, WorkOK, RowsOK, TypeOK, States
  <2> QED BY <2>2 DEF SInv, RowsOK, AtMostOnce
<1> QED BY <1>1, ServiceInvariance, PTL

\* Whatever a window was told - by a result, a repeated answer or the history, before or
\* after the service died - is what happened and what the journal says.
THEOREM WindowsAreToldTheTruth == Spec => []ToldTruth
<1>1. SInv => ToldTruth
  BY DEF SInv, TellOK, Holds, ToldTruth, Results
<1> QED BY <1>1, ServiceInvariance, PTL
=============================================================================
