--------------------------- MODULE SettingsDialog ---------------------------
(***************************************************************************)
(* The settings dialog of one window (SettingsWindow) with what it runs    *)
(* beside itself: threads that verify the AI model (ModelCheckWorker), the *)
(* process of a component job (ComponentsPanel) and the message box of a   *)
(* successful save; and the main window that opens it, applies what was    *)
(* saved and waits for it when it closes.                                  *)
(*                                                                         *)
(* The dialog keeps one thread in check_worker ("held"); its signals are   *)
(* queued for the event loop ("inbox").  A thread no longer runs once it   *)
(* has posted its last signal, which is handled later.  The next dialog    *)
(* opens when the threads of the one before have ended.                    *)
(***************************************************************************)
EXTENDS SettingsStore, Lists

CONSTANTS Viewer,        \* the window with the dialog
          Forms,         \* what the user may fill in
          MaxDialogs,   \* bound: dialogs opened
          MaxJobs       \* bound: component jobs started

ASSUME DialogAssumption == Viewer \in Windows /\ MaxDialogs \in Nat /\ MaxJobs \in Nat
ASSUME FormsAssumption == \A f \in Forms : f \in [view : {"default", "chosen"}, rows : Seq(Row)]

Checks == 1 .. MaxDialogs + MaxJobs     \* every refresh starts at most one thread
NoCheck == 0

VARIABLES
  dlg,       \* the dialog and its form
  ai,        \* the checkbox of the AI tagger and the label of its button
  threads,   \* ModelCheckWorker threads
  held,      \* the dialog's check_worker
  inbox,     \* signals of the threads not handled yet
  refresh,   \* _model_refresh_pending
  job,       \* ComponentsPanel.process
  valid,     \* whether the store holds a valid model
  main,      \* the main window
  ghost      \* what was accepted, applied, changed without a report, dropped

dialogVars == <<dlg, ai, threads, held, inbox, refresh, job, valid, main, ghost>>
vars == <<storeVars, dialogVars>>

\* A row without a key is skipped, the others get their key in capitals.
Blank == [key : {"blank"}, folder : Folders]
Entered(rows) == Dropping(rows, Blank)
Typed(rows) == [i \in DOMAIN rows |-> [rows[i] EXCEPT !.key = Clean[@]]]

NoDialog == [visible |-> FALSE, exec |-> FALSE, box |-> FALSE, enabled |-> TRUE,
             pending |-> FALSE, result |-> "none", opened |-> 0, jobs |-> 0,
             form |-> [view |-> "default", rows |-> <<>>]]

DialogInit ==
  /\ dlg = NoDialog
  /\ ai = [usable |-> FALSE, checked |-> FALSE, label |-> "checking", saw |-> "none"]
  /\ threads = [i \in Checks |-> [at |-> "unused", val |-> "none"]]
  /\ held = NoCheck /\ inbox = <<>> /\ refresh = FALSE
  /\ job = "none" /\ valid \in BOOLEAN /\ main = "open"
  /\ ghost = [accepted |-> FALSE, applied |-> FALSE, unreported |-> FALSE, dropped |-> FALSE]

Init == StoreInit /\ DialogInit
-----------------------------------------------------------------------------
IsRunning(i) == i # NoCheck /\ threads[i].at \in {"running", "read", "answered"}
Busy   == job # "none" \/ IsRunning(held)
Unused == {i \in Checks : threads[i].at = "unused"}
Usable == dlg.visible /\ dlg.enabled /\ ~dlg.box /\ dlg.exec

NextCheck == CHOOSE i \in Unused : \A j \in Unused : i <= j
StartCheck(box) ==
  /\ ai' = [box EXCEPT !.usable = FALSE, !.label = "checking"]
  /\ threads' = [threads EXCEPT ![NextCheck].at = "running"]
  /\ held' = NextCheck

(* refresh_ai_model_status: a running check is repeated when it ends,      *)
(* otherwise a new thread takes the place of the one held.                 *)
Refreshed ==
  IF IsRunning(held)
  THEN refresh' = TRUE /\ UNCHANGED <<ai, threads, held>>
  ELSE StartCheck(ai) /\ UNCHANGED refresh
Forgotten == UNCHANGED <<refresh, ai, threads, held>>

(* ComponentsPanel.cancel: SIGTERM now, SIGKILL a second later.            *)
Cancelled == job' = IF job = "running" THEN "terminating" ELSE job

Hidden(d, r) == [d EXCEPT !.visible = FALSE, !.result = r]

(* done, accept, reject: close, or close once everything has ended.        *)
Done(r) ==
  IF Busy
  THEN dlg' = [dlg EXCEPT !.pending = TRUE, !.result = r, !.box = FALSE] /\ Cancelled
  ELSE dlg' = [Hidden(dlg, r) EXCEPT !.box = FALSE] /\ UNCHANGED job

(* closeEvent: as done with Rejected, and no input any more meanwhile.     *)
\* Bug: what runs is told to end, and nothing closes the dialog when it has.
ClosedUnlessBusy ==
  IF Busy THEN Cancelled /\ UNCHANGED dlg
          ELSE dlg' = (IF dlg.visible THEN Hidden(dlg, "rejected") ELSE dlg) /\ UNCHANGED job
Closed ==
  IF Busy
  THEN /\ dlg' = [dlg EXCEPT !.pending = TRUE, !.result = "rejected", !.enabled = FALSE]
       /\ Cancelled
  ELSE /\ dlg' = IF dlg.visible THEN Hidden(dlg, "rejected") ELSE dlg
       /\ UNCHANGED job

(* _finish_pending_close, once nothing runs.                               *)
\* Bug: a close that had to wait ends as if it was cancelled.
ForgetsTheResult == dlg' = [Hidden(dlg, "rejected") EXCEPT !.pending = FALSE]
FinishPending    == dlg' = [Hidden(dlg, dlg.result) EXCEPT !.pending = FALSE]
-----------------------------------------------------------------------------
\* open_settings, SettingsWindow.__init__: the form shows the settings in memory; the
\* checkbox is unchecked until the first check has ended.
OpenSettings ==
  /\ main = "open" /\ win[Viewer] = "up" /\ ~dlg.exec
  /\ dlg.opened < MaxDialogs
  /\ inbox = <<>> /\ \A i \in Checks : ~IsRunning(i)
  /\ StartCheck([ai EXCEPT !.checked = FALSE, !.saw = "none"])
  /\ dlg' = [NoDialog EXCEPT !.visible = TRUE, !.exec = TRUE, !.opened = dlg.opened + 1,
                             !.jobs = dlg.jobs,
                             !.form = [view |-> mem[Viewer].view, rows |-> mem[Viewer].rows]]
  /\ refresh' = FALSE
  /\ ghost' = [ghost EXCEPT !.accepted = FALSE, !.applied = FALSE, !.unreported = FALSE]
  /\ UNCHANGED <<inbox, job, valid, main, storeVars>>

\* The user fills in the form.
Fill ==
  /\ Usable
  /\ \/ /\ dlg' \in {[dlg EXCEPT !.form = f] : f \in Forms} /\ dlg' # dlg /\ UNCHANGED ai
     \/ /\ ai.usable /\ ai' = [ai EXCEPT !.checked = ~@] /\ UNCHANGED dlg
  /\ UNCHANGED <<threads, held, inbox, refresh, job, valid, main, ghost, storeVars>>

(* save_settings: every row with a key is a single character, used once,   *)
(* and its folder a directory that exists, whatever its name.              *)
\* Bug: duplicates are looked for in the keys as typed.
RowsAsTyped(rows) ==
  /\ \A i \in DOMAIN rows : Clean[rows[i].key] \in Single
  /\ \A i, j \in DOMAIN rows : rows[i].key = rows[j].key => i = j
  /\ \A i \in DOMAIN rows : rows[i].folder = "in" => folder = "dir"
RowsAccepted(rows) ==
  /\ \A i \in DOMAIN rows : Clean[rows[i].key] \in Single
  /\ \A i, j \in DOMAIN rows : Clean[rows[i].key] = Clean[rows[j].key] => i = j
  /\ \A i \in DOMAIN rows : rows[i].folder = "in" => folder = "dir"

Save ==
  /\ Usable /\ RowsAccepted(Entered(dlg.form.rows))
  /\ \E ok \in BOOLEAN :
       /\ Apply(Viewer, ok, [mem[Viewer] EXCEPT !.view = dlg.form.view,
                                                !.rows = Typed(Entered(dlg.form.rows)),
                                                !.tagging = IF ai.checked THEN "on" ELSE "off"])
       /\ dlg' = [dlg EXCEPT !.box = ok]
  /\ UNCHANGED <<ai, threads, held, inbox, refresh, job, valid, main, ghost>>

\* The message box after a save is confirmed: accept().
Confirm ==
  /\ dlg.box
  /\ Done("accepted")
  /\ ghost' = [ghost EXCEPT !.accepted = main = "open"]
  /\ UNCHANGED <<ai, threads, held, inbox, refresh, valid, main, storeVars>>

\* Cancel or Escape, also while a close is pending.
Reject ==
  /\ Usable /\ Done("rejected")
  /\ ghost' = [ghost EXCEPT !.accepted = FALSE]
  /\ UNCHANGED <<ai, threads, held, inbox, refresh, valid, main, storeVars>>

\* The close button of the dialog's frame.
CloseDialog ==
  /\ dlg.visible /\ ~dlg.box /\ Closed
  /\ ghost' = [ghost EXCEPT !.accepted = FALSE]
  /\ UNCHANGED <<ai, threads, held, inbox, refresh, valid, main, storeVars>>

\* The timer of a pending close.
Poll ==
  /\ dlg.pending /\ ~Busy /\ FinishPending
  /\ UNCHANGED <<ai, threads, held, inbox, refresh, job, valid, main, ghost, storeVars>>

\* exec() returns when the dialog and the box are gone; on_settings_closed applies.
Return ==
  /\ dlg.exec /\ ~dlg.visible /\ ~dlg.box
  /\ dlg' = [dlg EXCEPT !.exec = FALSE]
  /\ ghost' = [ghost EXCEPT !.applied = dlg.result = "accepted"]
  /\ UNCHANGED <<ai, threads, held, inbox, refresh, job, valid, main, storeVars>>
-----------------------------------------------------------------------------
\* ModelCheckWorker.run: the reader process verifies the files, or fails, is
\* interrupted or takes more than a minute.
CheckReads(i) ==
  /\ threads[i].at = "running"
  /\ \E v \in {IF valid THEN "valid" ELSE "invalid", "failed"} :
       threads' = [threads EXCEPT ![i] = [at |-> "read", val |-> v]]
  /\ UNCHANGED <<dlg, ai, held, inbox, refresh, job, valid, main, ghost, storeVars>>

CheckAnswers(i) ==
  /\ threads[i].at = "read"
  /\ threads' = [threads EXCEPT ![i] = [at |-> "answered", val |-> "none"]]
  /\ inbox' = Append(inbox, threads[i].val)
  /\ UNCHANGED <<dlg, ai, held, refresh, job, valid, main, ghost, storeVars>>

\* The last signal of a thread nothing refers to any more may be lost with the thread.
CheckEnds(i) ==
  /\ threads[i].at = "answered"
  /\ threads' = [threads EXCEPT ![i] = [at |-> "over", val |-> "none"]]
  /\ \/ inbox' = Append(inbox, "over")
     \/ held # i /\ UNCHANGED inbox
  /\ UNCHANGED <<dlg, ai, held, refresh, job, valid, main, ghost, storeVars>>

\* _on_model_check_finished.
CheckAnswered ==
  /\ inbox # <<>> /\ Head(inbox) # "over"
  /\ inbox' = Tail(inbox)
  /\ ai' = [usable |-> Head(inbox) = "valid", label |-> "manage", saw |-> Head(inbox),
            checked |-> Head(inbox) = "valid" /\ mem[Viewer].tagging = "on"]
  /\ UNCHANGED <<dlg, threads, held, refresh, job, valid, main, ghost, storeVars>>

(* _on_model_check_thread_finished: it forgets the thread it holds, whose  *)
(* signal this need not be, then closes or repeats the check.              *)
Repeated    == StartCheck(ai) /\ refresh' = FALSE
NotRepeated == held' = NoCheck /\ UNCHANGED <<refresh, ai, threads>>

CheckOver ==
  /\ inbox # <<>> /\ Head(inbox) = "over"
  /\ inbox' = Tail(inbox)
  /\ ghost' = [ghost EXCEPT !.dropped = @ \/ IsRunning(held)]
  /\ IF dlg.pending
     THEN /\ held' = NoCheck /\ UNCHANGED <<refresh, ai, threads>>
          /\ IF job = "none" THEN FinishPending ELSE UNCHANGED dlg
     ELSE /\ IF refresh THEN Repeated ELSE NotRepeated
          /\ UNCHANGED dlg
  /\ UNCHANGED <<job, valid, main, storeVars>>
-----------------------------------------------------------------------------
\* ComponentsPanel.start: also while a close is pending that left the dialog enabled.
StartJob ==
  /\ Usable /\ job = "none" /\ dlg.jobs < MaxJobs
  /\ job' = "running" /\ dlg' = [dlg EXCEPT !.jobs = @ + 1]
  /\ UNCHANGED <<ai, threads, held, inbox, refresh, valid, main, ghost, storeVars>>

\* The user cancels the job, or it writes more than the status channel takes.
CancelJob ==
  /\ job = "running" /\ Cancelled
  /\ UNCHANGED <<dlg, ai, threads, held, inbox, refresh, valid, main, ghost, storeVars>>

(* _finished: the job may have changed the model in the store, also one    *)
(* that was killed after the activation.  Only a success is followed by a  *)
(* new check, unless the dialog is closing.                                *)
\* Bug: a running check is taken for one of the new model.
ReportsIfQuiet(ok) == ok /\ ~dlg.pending /\ ~IsRunning(held)
Reports(ok)        == ok /\ ~dlg.pending

JobEnds ==
  /\ job # "none" /\ job' = "none"
  /\ \E ok \in BOOLEAN, v \in BOOLEAN :
       /\ valid' = v
       /\ IF Reports(ok) THEN Refreshed ELSE Forgotten
       /\ ghost' = [ghost EXCEPT !.unreported = IF ok THEN FALSE ELSE @ \/ v # valid]
  /\ UNCHANGED <<dlg, inbox, main, storeVars>>
-----------------------------------------------------------------------------
\* MainViewer.closeEvent: SIGTERM arrives, or the user closes the window when no
\* dialog is open.  Readers and decoder end on their own (ReviewSession, ImageLoader).
CloseMain ==
  /\ main = "open" /\ win[Viewer] = "up" /\ main' = "closing"
  /\ Closed
  /\ ghost' = [ghost EXCEPT !.accepted = FALSE]
  /\ UNCHANGED <<ai, threads, held, inbox, refresh, valid, storeVars>>

SettingsRunning == dlg.visible \/ Busy

MainCloses ==
  /\ main = "closing" /\ ~SettingsRunning
  /\ main' = "closed"
  /\ UNCHANGED <<dlg, ai, threads, held, inbox, refresh, job, valid, ghost, storeVars>>
-----------------------------------------------------------------------------
StoreNext ==
  \/ \E w \in Windows : StoreStep(w) \/ LeaveFullscreen(w) \/ Exit(w)
  \/ EditFile \/ ChangeFolder

\* One window with its dialog.
DialogNext ==
  \/ OpenSettings \/ Fill \/ Save \/ Confirm \/ Reject \/ CloseDialog \/ Poll \/ Return
  \/ \E i \in Checks : CheckReads(i) \/ CheckAnswers(i) \/ CheckEnds(i)
  \/ CheckAnswered \/ CheckOver
  \/ StartJob \/ CancelJob \/ JobEnds
  \/ CloseMain \/ MainCloses
  \/ ChangeFolder /\ UNCHANGED dialogVars
-----------------------------------------------------------------------------
DialogTypeOK ==
  /\ held \in Checks \cup {NoCheck} /\ job \in {"none", "running", "terminating"}
  /\ dlg.result \in {"none", "accepted", "rejected"}
  /\ main \in {"open", "closing", "closed"}
  /\ ai.checked => ai.usable \/ ai.label = "checking"

\* Safety: when the save is reported the settings in memory are what the form shows,
\* but for the folders whose names have a control character, and so they are at the next
\* start unless a folder became a file: nothing else the dialog accepts is repaired away
\* without a word (save_settings against _validate_and_repair).
Shown == Typed(Entered(dlg.form.rows))
WithoutControl(rows) ==
  [i \in DOMAIN rows |-> [rows[i] EXCEPT !.folder = IF @ = "ctl" THEN "" ELSE @]]
SavedAsShown ==
  /\ DialogTypeOK
  /\ dlg.box => /\ mem[Viewer].rows = WithoutControl(Shown)
                /\ mem[Viewer].view = dlg.form.view
                /\ file = Holds(mem[Viewer])
                /\ folder # "file" => Repair(file.c) = mem[Viewer]

\* Safety: when nothing runs any more, the dialog shows whether the model in the store
\* is usable, whatever jobs and checks overlapped, or that the check failed; not
\* after a job that changed the model without succeeding, and not when a check was
\* dropped because the signal of the one before came late.
Quiet == inbox = <<>> /\ job = "none" /\ \A i \in Checks : ~IsRunning(i)
FreshStatus ==
  dlg.visible /\ Quiet /\ ~dlg.pending /\ ~ghost.unreported /\ ~ghost.dropped =>
    /\ ai.label = "manage" /\ ~refresh
    /\ ai.saw = "failed" \/ ai.usable = valid

\* Liveness: settings that were saved are applied to the window, also when the dialog had
\* to wait for a check or a job before it closed, unless it is dismissed meanwhile.
SavedIsApplied == ghost.accepted ~> ghost.applied \/ ~ghost.accepted

\* Liveness: a window that is closed goes, whatever the dialog runs at that time.
CloseEnds == main = "closing" ~> main = "closed"

\* The event loop runs, a check takes a minute at most, a job ends, and the user
\* confirms the message box.
DialogFairness ==
  /\ \A i \in Checks : WF_vars(CheckReads(i) \/ CheckAnswers(i) \/ CheckEnds(i))
  /\ WF_vars(CheckAnswered \/ CheckOver)
  /\ WF_vars(JobEnds) /\ WF_vars(Poll) /\ WF_vars(Return) /\ WF_vars(Confirm) /\ WF_vars(MainCloses)
=============================================================================
