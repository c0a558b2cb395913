------------------------------ MODULE Enrichment ------------------------------
(***************************************************************************)
(* Tagging of finished sorts by queue_worker.QueueWorker: reader threads,  *)
(* the backlog behind them, and the cancellation of a tagging whose sort   *)
(* is being undone.  A tagging is named by the sort it belongs to.         *)
(***************************************************************************)
EXTENDS Lists

CONSTANTS MaxReaders,  \* reader threads at a time (2)
          MaxBacklog   \* taggings that may wait (256)

ASSUME EnrichmentAssumption == MaxReaders \in Nat \ {0} /\ MaxBacklog \in Nat

VARIABLES
  reader,       \* _readers, by sort: what its thread and its signals are at
  interrupted,  \* readers asked to stop
  backlog,      \* _enrichment_queue
  parents,      \* sorts whose token is in _enrichment_tokens
  cancelled,    \* _cancelled_enrichments
  closing       \* _closing

enrichment == <<reader, interrupted, backlog, parents, cancelled, closing>>
Active == {o \in DOMAIN reader : reader[o] # "none"}

EnrichmentInit(Ids) ==
  /\ reader = [o \in Ids |-> "none"] /\ interrupted = {} /\ backlog = <<>>
  /\ parents = {} /\ cancelled = {} /\ closing = FALSE

\* Bug: an undo stops the reader and forgets what is waiting or about to answer.
StopReaderOnly(t) ==
  /\ interrupted' = interrupted \cup ({t} \cap Active)
  /\ UNCHANGED <<backlog, cancelled>>
\* add_task of an undo: whatever tagging of that sort is not committed is stopped.
CancelTagging(t) ==
  /\ interrupted' = interrupted \cup ({t} \cap Active)
  /\ cancelled' = cancelled \cup ({t} \cap parents)
  /\ backlog' = IF t \in parents THEN Dropping(backlog, {t}) ELSE backlog

AddUndo(t) == CancelTagging(t) /\ UNCHANGED <<reader, parents, closing>>

\* _result of sort o after the window has handled it.
Tag(o, tagged) ==
  IF ~tagged \/ closing \/ o \in cancelled THEN UNCHANGED <<reader, backlog>>
  ELSE \/ /\ Cardinality(Active) < MaxReaders
          /\ reader' = [reader EXCEPT ![o] = "reading"] /\ UNCHANGED backlog
       \/ /\ Cardinality(Active) >= MaxReaders /\ Len(backlog) < MaxBacklog
          /\ backlog' = Append(backlog, o) /\ UNCHANGED reader
       \/ /\ Cardinality(Active) >= MaxReaders /\ Len(backlog) >= MaxBacklog
          /\ UNCHANGED <<reader, backlog>>

SortFinished(o, hasToken, tagged) ==
  /\ parents' = IF hasToken THEN parents \cup {o} ELSE parents
  /\ Tag(o, tagged)
  /\ UNCHANGED <<interrupted, cancelled, closing>>

\* EnrichmentReader.run: the answer is posted unless it was interrupted before.
Read(o) ==
  /\ reader[o] = "reading"
  /\ reader' = [reader EXCEPT ![o] = IF o \in interrupted THEN "ending" ELSE "posted"]
  /\ UNCHANGED <<interrupted, backlog, parents, cancelled, closing>>

\* _enriched, in the GUI thread: the answer may come too late.
Wanted(o) == ~closing /\ o \notin cancelled
Enriched(o) ==
  /\ reader[o] = "posted"
  /\ reader' = [reader EXCEPT ![o] = "ending"]
  /\ UNCHANGED <<interrupted, backlog, parents, cancelled, closing>>

\* The tagging that takes over a slot.
NextTagging == IF backlog = <<>> \/ closing THEN {} ELSE {Head(backlog)}

\* _reader_finished: the slot goes to the oldest waiting tagging.
ReaderFinished(o) ==
  /\ reader[o] = "ending"
  /\ reader' = [p \in DOMAIN reader |-> IF p = o THEN "none"
                                        ELSE IF p \in NextTagging THEN "reading" ELSE reader[p]]
  /\ backlog' = IF NextTagging = {} THEN backlog ELSE Tail(backlog)
  /\ interrupted' = interrupted \ {o}
  /\ UNCHANGED <<parents, cancelled, closing>>

\* shutdown
Shutdown ==
  /\ ~closing /\ closing' = TRUE
  /\ backlog' = <<>> /\ interrupted' = Active
  /\ UNCHANGED <<reader, parents, cancelled>>

EnrichmentTypeOK ==
  /\ reader \in [DOMAIN reader -> {"none", "reading", "posted", "ending"}]
  /\ interrupted \subseteq Active /\ backlog \in Seq(DOMAIN reader) /\ Len(backlog) <= MaxBacklog
  /\ cancelled \subseteq parents /\ closing \in BOOLEAN
=============================================================================
