# Image Sorter: models, checks and proofs

Image Sorter shows a folder of images one at a time and lets the user move,
copy or trash each of them, undo that, and have tags written into what was
sorted.  A sort is a durable transaction carried out by a separate *mutation
service*; the window only ever learns of its outcome by message.  Images are
decoded by disposable *reader processes*, optional codecs and models come from
a *component store*, and two controllers replace the branches of the hosted
repository.  This directory holds TLA+ models of that machinery, the TLC runs
that check them on small instances and TLAPS proofs about them.

File names below are relative to `src/imagesorter/` of the repository, those
of the controllers to `scripts/`.

## 1. The system

### 1.1 Components and how they interact

    window (ui_main) --requests--> MutationClient ==socket==> mutation service
       |    ^  results, history      (mutation_client)          event loop | worker thread
       |    +--------------------------------------------------------+     |
       +--> queue_worker: tagging of finished sorts                  operation_engine
       +--> image_loader -> reader_process: decoding, tagging          |         |
       |        component_runtime -> helpers of leased versions      file_safety operation_journal
       +--> settings dialog -> settings_manager, component jobs      (disk)     (SQLite)
                                  component_manager (store lock, leases)

| component | state it keeps | operations | what is hard | what makes it correct |
|---|---|---|---|---|
| file transactions `operation_engine`, `file_safety` | directory entries of an image and its sidecar, private claims, stages and quarantines; the manifest in memory | plan, stage, claim, publish, trash, commit, rollback, recover, clean up what was retained | a failing call or a crash between any two renames; other programs editing the same names; a recovery that is itself interrupted | no user bytes lose their last name; every move is recorded before it happens; the reported state is the state of the disk |
| operation journal `operation_journal` | rows, manifests, receipts, undo tokens and their consumer, resolved recoveries (SQLite) | accept, save_manifest, finish_result, authoritative_undo, recovery_records, reconcile | stale tokens, lost receipts, restarts, recovery of an operation whose file set has moved on | a token and a recovery are spent once, one receipt per result, the journal agrees with the disk |
| mutation service `mutation_service`, `profile_lock`, `worker_protocol` | the profile lock, connections, task queue, the worker's task, draining | pin the runtime, accept a client, hello, submit, broadcast, replay history, drain, exit | event loop against worker thread, death, several windows, a full queue | an accepted operation is executed at most once, is answered, and the profile is released |
| mutation client `mutation_client` | pending identifiers, connection, ready flag | submit, connect or spawn, poll, resubmit, disconnect | resubmission after a lost connection or a death | what the window is told is what happened |
| main window `ui_main` | queue of images, selection, held move, undo history, latest/in flight/spent tokens, load generation; the pixmap cache, pending requests, the frame bar | sort, undo, result, reload, navigate; show, cache, seek a frame | results of earlier views and requests, revisions of a token, files that change while they are decoded | a late result never touches a newer view; a spent token stays spent; the pixels shown are those of the file and frame named |
| queue worker `queue_worker` | tagging slots, backlog, cancelled sorts, waiting metadata requests | submit, tag, cancel by undo, publish metadata | two readers against the undo of the sort they read | at most two readers, no metadata after the undo was requested |
| image loader `image_loader`, `reader_process` | bounded priority queue, active request, generations; one process group and its scratch directory | add, coalesce, cancel, clear, stop, take, supervise a reader | the queue overflows, a cancellation races the result, a reader answers as its time ends or does not die | the image on the screen comes or fails, scratch data is not deleted under a live process, the thread ends |
| reader job `reader_job`, `component_runtime` | one decoding or tagging, its leases and what it will answer | snapshot, choose, lease, decode, infer on GPU or CPU | the codec, model, provider and image change while it works | the answer names what really did the work |
| component manager `component_manager`, `component_jobs`, `ui_components` | registry, version directories, receipts of installations, store lock, leases | install, import, enable, disable, roll back, remove, verify, recover | a job killed or failing between two durable steps; readers of a version that is removed | what is active, rolled back to or read is complete; receipts tell the truth; every job ends |
| settings `settings_manager` | the settings file and its backups; a copy in memory of every window | load, repair, back up a corrupt file, save, change | two windows starting and saving, saves that fail, folders that change | file and memory agree, no corrupt file is replaced before a copy is kept |
| settings dialog `ui_settings` | the form, one check thread, one component job, a pending close | fill, save, check the model, run a job, close | checks, jobs and closing overlap; signals arrive late | what is reported as saved is what is shown, it is applied, the status is current, the window can close |
| start-up and paths `bootstrap`, `main`, `paths`, `worker_protocol` | environment variables, a flag file, the profile's directories, the pinned copy of the runtime | select a home, inherit it, find a directory, pin | flag, directories and package change while processes start | an isolated profile is never left, a service runs one whole version |
| release cutover `cutover.py` | a journal, GitHub's branches, rules, settings and PRs | ten phases, each resumable | a stop between an intent, a request and its record; other people using the repository | no effect without an intent, no effect twice, the final receipt is true |
| source integration `source_integration.py` | two journals, GitHub's new branches, rule, PR and test results | nine phases, continuation by a second plan | as above, and two controllers for one branch and one PR | only the qualified candidate becomes main, the receipt is true |
| decoding and tagging algorithms, metadata formats, diagnostics, packaging | none that outlives a call | pure or one-shot | - | out of the scope of a state model |

`PROJECT.json` lists all parts with their status, and under `hazards` every
place in the code where something can go wrong that a unit test would hardly
reach.

### 1.2 What is modelled

*Sorting.*

* **FileTransaction** - one request from plan to result, at the grain of single
  filesystem calls and journal transactions, with up to two explicit recoveries.
* **OperationJournal** - many operations over shared file sets; a transaction
  is four steps (begin, work, complete or roll back).
* **MutationService** - the service process, its two threads, its windows and
  the sockets between them; a transaction is two steps of the worker.
* **SortingView** - the handlers of the review window: the queue of images, the
  selection, a held move, load generations and undo tokens.
* **Enrichment** - the tagging of finished sorts: reader threads, their backlog
  and their cancellation by an undo.
* **ReviewSession** - one window in use: the two above in one GUI thread, and a
  mutation service reduced to what a window can tell of it.
* **Lists** - the filtered and sorted lists of these models.

*Showing.*

* **ImageLoader** - the decoder thread, its queue and the reader process.
* **DecodeView** - the window's requests, pixmap cache, screen and frame bar on
  top of ImageLoader.

*Components.*

* **VersionStore** - what a component store promises: an abstract specification.
* **ComponentStore** - the processes that change a store, shown to implement it.
* **ReaderJob** - a decoding or tagging job whose two stores are VersionStores.
* **Components** - the two sides in one specification for the run.

*A window before it sorts.*

* **SettingsStore**, **SettingsDialog** - the settings file under two windows,
  and the dialog of one of them with its threads and its component job.
* **Launch** - homes, inherited environments and the pinned runtime.
* **Desktop** - these in one specification for the run.

*The hosted repository.*

* **Cutover**, **SourceIntegration** - the two controllers and GitHub.
* **Release** - both in one specification for the run.

*Proofs*: **FileTransactionProofs**, **OperationJournalProofs**,
**MutationServiceProofs**, **ReviewSessionProofs**, **DecodeViewProofs**,
**ComponentsProofs**, **DesktopProofs**, **ReleaseProofs** (section 5).  Definitions for TLC:
**MCFileTransaction**, **MCOperationJournal**, **MCMutationService**,
**MCReviewSession**, **MCDesktop**, **MCCutover**.

The first three models are layers of the same story, and each abstracts the one
below: the steps between `Begin` and `Finish` of FileTransaction are `Work`,
`Complete`, `Raise` and `Rollback` of OperationJournal, which are `BeginWork`
and `FinishTask` of MutationService.  This correspondence is by construction
and by comment.  ReviewSession sits on top: its service settles requests in the
order of acceptance, as MutationService does, and keeps revisions and spent
tokens as OperationJournal does.

In the component part the correspondence is proved: ComponentStore implements
VersionStore (`ImplementsStore` under a refinement mapping, checked by TLC and
proved as `StoreIsImplemented`), what VersionStore promises is therefore proved of
ComponentStore for all constants (`InUseIsComplete`), and ReaderJob assumes of its stores exactly the
actions of VersionStore.

Desktop, Components and Release put parts side by side that meet in one thing
only (a path, the promise of the store, an operator's choice).  A variable
(`scene`, `tool`) picks the part a behaviour is about; there is no interleaving
between parts that share nothing.

## 2. The models

### 2.1 FileTransaction

A *file set* is an image and an optional sidecar (`Roles`).  `fs[r][l]` is the
inode the name `l` of role `r` leads to: its public `source` and `dest` names and
the private `claim`, `stage` and `quarantine` names the engine makes.  Several
names may lead to one inode, since publishing and restoring are hard links.
`data[r][i]` says whether the bytes of an inode are those the manifest has
fingerprinted, a partial write, or were edited by another program.  So `Verify`
tells apart exactly what `file_safety.verify_file` does: identity and content.

`rows` is what SQLite holds; `mem` is the manifest the worker thread has in
memory.  `SaveThen` is `save_manifest`: either the row takes `mem` or the call
raises and the memory keeps what the row does not have.  `pc` is the position of
the worker in `execute`, `_perform`, `_rollback` or `_recover`; `todo` the items
left of its current loop; `relinked` (a ghost) the roles whose output a raising
verification linked back; `outcome` the exception being handled; `errors`
whether rollback errors or cleanup warnings were collected.

Each action is one call that can be seen from outside, or one decision before it:

| actions | code in `operation_engine` |
|---|---|
| `Plan` | `_perform` and `_metadata` up to their preflight |
| `Stage`, `CopyStage`, `Annotate`, `RecordAnnotation`, `PrepareAttributes` | `_stage`, `secure_copy`, the annotation of a staged copy, `_prepare_attributes` |
| `Claims`, `ClaimCheck`, `ClaimRename` | `_claims` and `claim_source`, whose check and rename are two steps |
| `Checkpoint` | the last cancellation point |
| `Publish`, `LinkOutput`, `CheckOutput` | `_publish`, output by output |
| `Trash`, `TrashCall`, `Trashed` | `_system_trash` around the platform's call |
| `Commit`, `CleanStage`, `Cleaned`, `Finish` | the success half of `execute`, `_cleanup_stages`, `finish_result` |
| `RollbackCheck`, `WithdrawOutput`, `QuarantineCheck`, `QuarantineRename`, `QuarantineUnlink`, `RestoreClaim`, `RollbackEnd` | `_rollback` and `unlink_owned`, whose check, rename and unlink are three steps; a second check that raises links the output back (`GiveBack`) |
| `SubmitRecovery`, `Recover`, `ExecuteAgain` | a recovery accepted and started; `execute` for a row with a manifest |
| `Crash`, `Restart` | death of the service; `reconcile_interrupted_operations` |
| `UserEdit` | any other program at the public names: create, replace, rewrite, remove |

A call that raises is a disjunct with `Fault`.  Where a primitive can raise after
it took effect (rename, link, unlink, the trash call) both outcomes are there.

### 2.2 OperationJournal

`place[p]` is what lies at the two ends of the sort `p`, named by the operation
that put it there: this is the provenance `verify_file` compares.  `held[o]`
says that the private claim of `o` retains its source.  `token[p]` is the
artifact an undo of `p` must find, `consumed[p]` the undo that spent it,
`resolved[t]` the recovery that settled row `t`.

| definitions | code |
|---|---|
| `Accept`, `Submit`, `AskRecovery`, `Listed` | `accept`; what a window submits; `add_recovery_task` for a record of `recovery_inventory`, which may be out of date |
| `Eligible`, `Authoritative`, `Recoverable`, `Restorable` | `authoritative_undo`, the preconditions of `_perform`, `_metadata` and `_recover`, and `_plan_original_restore`: an undo needs the bytes from before the sort, in a claim or in an artifact no enrichment changed |
| `Begin`, `Refuse`, `ExecuteAgain`, `Work`, `Raise` | `execute`; `Work` chooses how far the transaction got (staged, claimed, published) before it ended, raised or was interrupted |
| `Complete`, `Rollback`, `Recover`, `Settle` | `_rollback`, `_recover` and `finish_result`, one SQLite transaction that writes the row, the receipt, the token or its consumption and the resolved target, or raises and writes nothing |
| `CancelPending` | what a draining service does with tasks it has not started |
| `CleanupRetained`, `Prunable`, `Survives` | `cleanup_retained` and `_verify_retention_survivor`: the claim of a settled row is deleted when its successor - the undo, the current artifact or the original name - is verified |
| `Restart` | a death followed by reconciliation under the lock |

### 2.3 MutationService

Client and service exchange framed messages over FIFO channels `up[i]` and
`down[i]`, one pair per connection.  A connection that a client closes ends with
an `eof` message the service still has to read; the messages not yet written are
lost with it (`HangUp` picks how many were).  A connection of a dead service is
in `dead`.

| actions | code |
|---|---|
| `OpenGui`, `Submit`, `CloseGui` | the window; `MutationClient.submit`, `disconnect` |
| `Connect`, `Spawn` | `_connect` finding a listener or starting one; the start takes the profile lock and reconciles |
| `Receive`, `LoseConnection` | `poll`, one message or an error |
| `AcceptConnection`, `Serve`, `Broadcast`, `ReplayHistory`, `Drain` | the parts of one turn of `serve` |
| `Take`, `BeginWork`, `FinishTask` | `execute_tasks` in the worker thread |
| `Crash` | death of the process |

`row` and `receipts` survive a death; everything else of the service does not.
`FinishTask` has a branch where the terminal update raises: the engine then
returns a result that exists in memory only, and the row stays open.

### 2.4 SortingView, Enrichment and ReviewSession

`view` is the record of `images`, `current` (`current_index`), `complete`
(`_view_complete`) and `held` (`_held_move`).  The operators that change it
(`ShowImage`, `RemoveImage`, `Reinsert`, `BringBack`, `Navigated`) are the
methods of the same name; they are functions of a view and of the images that
are being sorted, because `on_operation_result` calls several of them in a row
and the order matters.  `ops` holds every operation of the window, oldest first:
`pending_ops`, of which nothing is ever removed, and the metadata requests of the
queue worker.  `tokens` is the undo history with the newest revision known
(`latest`), the tokens whose undo is under way and those spent.  A token is named
by the sort that created it and compared by revision.

| actions of ReviewSession | code |
|---|---|
| `Sort` | `trigger_file_action` for the selected image, by key or button |
| `Undo` | `undo_last_action`, and `add_task` cancelling the tagging of that sort |
| `Move`, `Reload`, `Close` | `_navigate`, `load_images`, `closeEvent` |
| `Deliver` | `poll` handing a result to `_result` and `on_operation_result`, or a receipt of the history to `on_recovery_summary` |
| `Infer`, `ReceiveTags`, `FinishReader` | `EnrichmentReader.run`, `_enriched`, `_reader_finished` |
| `SettleRequest`, `Replay` | the service: success, failure, or done without a receipt; a receipt told again.  It works on the file its token names (`_files`), so a token is `stale` once that file was undone or rewritten without a receipt |

An image that is on the screen has been decoded: a move without auto-advance is
refused until then, which is a delay and no other behaviour.  `inbox` is a set,
so messages overtake each other: results of one service come in order, but an
operation whose receipt was lost is only told by the next owner.  A few variables
record what the properties compare with and no action reads: `unsure`, `beside`,
`told`, `dropped`.

### 2.5 ImageLoader and DecodeView

`loader` is what the condition variable guards: the queue, the active request,
the generation and `running`.  `reader` is where the thread is and the identity
of the bytes its reader has read; `group` the live members of the reader's
process group, `scratch` its directory, `results` the queued `image_ready`
signals.  An identity is a number per file that grows when the bytes or the
decoder in use change.  Handlers of DecodeView are functions of the pair
`w = [l |-> loader, v |-> view]`, since one handler calls several methods of the
loader: `AddRequest`, `CancelRequest`, `ClearTasks`, `RequestStop`.

| actions | code |
|---|---|
| `SkipObsolete`, `Start`, `EmitResult`, `End` | the loop of `ImageLoader.run`, with its tests of the request before a reader is started and after it ended, none of them together with the emission |
| `ReadInput`, `ReaderAnswers`, `GiveUp`, `CleanUp` | `run_reader`: the copy of the input, the end of the child, the deadline or a cancellation, SIGTERM and SIGKILL to the group, the scratch directory |
| `Change` | another program, or an exchanged decoder |
| `LoadImages`, `Select`, `Refresh`, `HoldMove`, `MoveDone`, `Close` | `load_images`, navigation, `show_image`, a held move and its end, `closeEvent` |
| `SeekFrame` | `_seek_frame` from the frame bar |
| `Deliver`, `ShowLater` | `on_image_ready`, `QTimer.singleShot(0, show_image)` |

`AddToCache`, `Touch` and `Purge` are the methods of the pixmap cache.  The
user acts when no result is waiting: a result that waits meanwhile is the same
behaviour as one that is about to be emitted.

### 2.6 VersionStore, ComponentStore and ReaderJob

VersionStore has the complete versions, the active one, the one a rollback
returns to, whether readers are served, and who reads what.  Only
`Discard` makes a version incomplete, and only one nothing points to and nobody
reads.

ComponentStore has the registry file, the directory of each version (`tree`:
none, partial, whole), the receipts of installations, the component processes
(`job`), the store lock and the leases.  Whatever a job does under the lock is
split where something durable happens, because `Kill` can come there: the panel
sends SIGKILL a second after Cancel.

| actions | code in `component_manager` |
|---|---|
| `Launch`, `Cancel`, `Kill`, `Pack` | `component_jobs.main`, the panel's cancel, packing of a legacy model |
| `Begin`, `Prepare`, `Abandon`, `Place`, `Point`, `Complete` | `install`: receipts before the activation, failure or cancellation, the version's directory, the registry, the last receipt |
| `Enable`, `Disable`, `Rollback` | one registry write each |
| `Remove`, `StopWaiting`, `Unlist`, `RemoveTree` | `remove`: waits for leases, writes the registry, deletes file by file |
| `Recover`, `Reconcile` | `recover_jobs`, receipt by receipt |
| `Choose`, `Acquire`, `Release`, `Verify`, `Verified` | `active_path` without the lock, `acquire` under it, the end of a helper, `verify` |

ReaderJob is `reader_job.execute`.  The record `job` holds what it really did
(`work`) and what it tells (`answer`).  `Snapshot` copies the image; `Choose`
reads `active_path`; `Lease` takes what is active by now (a codec) or what was
chosen (a model); `DecodeInBase`, `DecodeInHelper` are `decode_component`;
`CopyModel`, `AskProvider`, `LeaseProvider`, `GpuAnswers`, `GpuFails`,
`CpuAnswers` are `infer_component` with its single fallback; `Fail` is every
failure, deadline or cancellation.  `StoreMoves`, `ProviderMoves` and
`FileChanges` are the rest of the world, at any time and as often as it likes.

### 2.7 Cutover and SourceIntegration

`hub` is GitHub, `log` the synced journal reduced to the entries later steps
look up, `at` the controller: phase, step and what it holds in memory.  A phase
is a series of steps named after what they do (`gate`, `push`, `result`, ...);
`Interrupt` stops the controller between any two of them, which is a crash, a
request that failed, or one that took effect and whose answer was lost.  `Enter`
and `Admitted` are `run` with `check_rules`, `check_drift` and the undoing of
raced deletions (Cutover), or `check_state` and `check_policy`
(SourceIntegration).  The phases are the actions of the same name.  `Meddle` is
what other people do to the repository, `RenameSettles` and `Tests` what GitHub
does in its own time.

In SourceIntegration the pattern of `action` - announce, look, change, look
again, record - is the operator `Acts` with `Done`, `Ready` and `Effect` of each
kind.  `log` and `at` are indexed by run: 1 is the plan, 2 its continuation,
which has a journal and a lock of its own.

### 2.8 SettingsStore, SettingsDialog and Launch

SettingsStore has the file, its backups, and per process how far
`SettingsManager.__init__` is (`win`) and what it has in memory (`mem`).  The
sections are reduced to what the code treats alike: one option that may be bad
or missing, the tagging flag, the rows of hotkeys with their folders, and an
unknown key.  Of the keys some differ in case only, one is too long and one blank; of
the folders one may become a file or vanish, and one has a control character in its
name, which the repair empties and the dialog accepts.  What is left of a file edited
by hand (`Damage`) and what the user fills in (`Forms`) are constants: any rows at
all.  `Repair` and `Modified` are `_validate_and_repair`; `Persist`
replaces the file whole or not at all; `Backup` is `_backup_corrupt_file` with
its rename, its copy and its failures; `Apply` is `apply_changes` and `set`.

| actions of SettingsDialog | code in `ui_settings`, `ui_components`, `ui_main` |
|---|---|
| `OpenSettings`, `Fill`, `Save`, `Confirm`, `Reject`, `CloseDialog`, `Poll`, `Return` | the dialog: `__init__`, `save_settings`, its message box, `done`, `closeEvent`, the timer of a pending close, `on_settings_closed` |
| `CheckReads`, `CheckAnswers`, `CheckEnds` | `ModelCheckWorker.run` and its end |
| `CheckAnswered`, `CheckOver` | `_on_model_check_finished`, `_on_model_check_thread_finished` |
| `StartJob`, `CancelJob`, `JobEnds` | `ComponentsPanel` |
| `CloseMain`, `MainCloses` | `MainViewer.closeEvent` |

Launch has, per process, the two environment variables that select a profile and
the homes it has used; per window the home it was launched with; the installed
package and the pinned copies.  `LaunchWindow`, `StartChild`, `Access` are
`bootstrap.entry`, `worker_environment` and the `get_*_dir` functions of `paths`,
which work out the home anew each time.  `Inventory`, `TakeLock`, `CopyTree`,
`PublishCopy`, `UseCopy` are `_pin_runtime`.  `Meddle` changes flag, directories,
package or a copy.

## 3. Runs

Deadlock checking is off everywhere because the systems really stop: an idle
engine waits for requests, a service nobody uses exits, a cutover is complete.
The liveness properties show that they do not stop with work left.  The type
invariant of a module is the conjunct `TypeOK` (`LoaderTypeOK`, `StoreTypeOK`,
`DialogTypeOK`) of the first invariant of its run.

| run | instance | properties | result |
|---|---|---|---|
| `transaction_faults` | all six kinds of operation, 3 rows, 1 fault, 2 crashes, 1 edit | IntentRecorded, HonestFailure, HonestCompletion, RecoveryConverges, NothingDestroyed | holds, 3.2 million states |
| `journal_history` | 4 operations, 1 fault, 1 restart, cleanup at any time | UndoneOnce, ResolvedOnce, OneReceipt, JournalTruth | holds, 1.6 million states |
| `service_one_window` | 1 window, 2 operations, queue of 1, 3 connections; one drop, or one death, fault and time-out | Answered, Releases | holds under fairness, 350 thousand states |
| `service_two_windows` | 2 windows with one pending operation each, two connections, queue of 1; one fault and a drop or a death, up to permutation of the windows | AtMostOnce, ToldTruth | holds, 2.6 million states |
| `review_queue` | 3 images, 3 operations (moves, undos), 2 loads of two folders, one lost receipt | ViewTruth, HeldGap, SelectionKept | holds, 1 million states |
| `review_tagging` | 1 image, 4 operations (copies, trash, undos, metadata), 1 reader, backlog of 1, history of 1, one lost and one repeated receipt | TokenPlaces, TaggingStops | holds, 1.1 million states |
| `review_unseen` | as `review_queue` | SortsWhatIsShown | violated (finding 1) |
| `decode` | 2 images, one with two frames that changes once, one larger than the cache; queue and cache of 1; 2 listings | CacheTruth, ScreenTruth, ScratchOwned, LateAnswers, LoadingEnds, LoaderStops | holds under fairness, 234 thousand states |
| `components` | store: 2 versions, 3 processes, 1 reader, one fault, one kill; reader: 2 versions, 1 of the provider, 2 contents | AnswerTruth, ReceiptTruth, ImplementsStore, JobsEnd | holds under fairness, 707 thousand states |
| `release` | cutover: 2 topic branches, 3 PRs, 2 stops, 2 steps of others, 1 phase out of turn; source: 1 PR, two troubles | EffectsAccounted, QualifiedMain, SourceReceipt, CompleteIsClean, ReleaseFinishes | holds under fairness, 466 thousand states |
| `cutover_resume` | the cutover with one stop and nobody else | Resumable | violated (finding 2) |
| `desktop` | file: 2 windows, 2 starts, 1 fault, 2 edits; dialog: 2 forms, 1 fault, and either one job or 2 edits; launch: 2 windows, 4 processes, 1 outside change | SettingsKept, SavedAsShown, FreshStatus, OneHome, FilesKept, SavedIsApplied, CloseEnds | holds under fairness, 535 thousand states |

### 3.1 What the properties say

*Transactions, journal and service.*

* **NothingDestroyed** (action property).  Whatever the service does, in any
  state that users and earlier crashes left, it never removes the last name of an
  inode with a user's bytes.  The danger is in the gap between the check and the
  rename of `claim_source` and of `unlink_owned`.
* **IntentRecorded.**  At every instant, hence at every crash, a claimed, staged
  or published file is named by a manifest that is durable.
* **HonestFailure, HonestCompletion.**  `failed`, `cancelled` and a resolved
  recovery mean that both files are home and no output is visible; a completed
  operation is complete for the whole set.  Excluded are the names another program
  changed (`touched`) and, of a failure, the outputs that a raising verification
  linked back out of their quarantine (`relinked`).  That
  exception is disagreement 3 of section 4.
* **RecoveryConverges.**  A recovery that meets no failing call succeeds,
  however often earlier ones were interrupted.  The property excludes trash and
  metadata, see section 7.
* **UndoneOnce, ResolvedOnce, OneReceipt.**  See section 5.
* **JournalTruth.**  What the journal says of a sort is what lies on the disk,
  unless it also shows an open transaction for that file set.  While one is open,
  an output of it stands only beside the original it replaced, so that retention
  cleanup never takes what a rollback still needs.
* **AtMostOnce, ToldTruth.**  Resubmission never starts file work twice; what a
  window hears is compatible with the journal and with the work done.
* **Answered.**  A waiting window gets an answer if it stays open: through drops,
  drains, deaths, lost updates and time-outs.  Two cases are excepted, both as the code
  has them.  The premise `[]<>~HeldDraining` leaves out that a draining service is
  held up for ever by a window that waits for it (disagreement 4 of section 4);
  `MayMiss` that the window was disconnected when a result which no journal update
  recorded was told, once, to the windows of that moment.
* **Releases.**  After the last window the profile is released, with nothing accepted left
  unsettled unless the service died or a journal update failed.

*One window.*

* **ViewTruth.**  The queue of the window agrees with the folder for every image
  without an operation under way: in it once if the file is there, not at all
  otherwise.  Images whose operation was under way when a folder was loaded, or
  whose receipt was lost, are excluded until the next load: the window has no way
  to know of them.
* **HeldGap.**  While a move without auto-advance is on the screen, the gap it
  left stays between its original neighbours.
* **SelectionKept** (action property).  Only the result that brings an image back
  to the current view changes what is on the screen; every other message leaves
  it.
* **TokenPlaces.**  A token is offered, submitted, spent or pushed out of the
  history, exactly one of them, and offered in the newest revision told.
* **TaggingStops.**  No metadata request follows the undo of its sort.
* **CacheTruth.**  Cached pixels are what their key says, although a request is
  made under one identity and its reader may have read another.
* **ScreenTruth.**  The picture is of the selected file and of the frame the
  frame bar names, and all frames shown of a file are of one content.
* **LateAnswers** (action property).  A held snapshot is not replaced by an
  answer, and no frame is presented but the one sought last.
* **ScratchOwned** (action property).  A scratch directory goes only when no
  process of its reader lives.
* **LoadingEnds, LoaderStops.**  "Loading image" does not stay, although the
  queue overflows, requests are coalesced and dropped, and late answers are
  discarded; the decoder thread ends when the window closes.

*Components.*

* **ReceiptTruth.**  A receipt becomes `completed` only while its version is
  active and whole, one told as failed or cancelled has activated nothing, and a
  settled one never changes: with calls that raise after their effect and jobs
  killed between any two writes.
* **ImplementsStore.**  Every step of ComponentStore is a step or a stutter of
  VersionStore under the mapping `complete <- {v : tree[v] = "whole"}`,
  `active`, `previous`, `enabled` from the registry and `held <- lease`.
* **JobsEnd.**  No process waits for the lock or a lease for ever.
* **AnswerTruth.**  An answer names the content that was read, the version that
  decoded it or whose model was loaded, the helper and the processor; it admits
  the fallback exactly when there was one.

*The hosted repository.*

* **EffectsAccounted.**  A branch is gone only by a recorded intent and with its
  commit archived; its deletion is recorded as done only if nobody had opened a
  PR to it by then; no PR gets two comments, and one closed has one.
* **CompleteIsClean** (action property).  When the receipt becomes complete the
  repository has the qualified main, the lasting rules, the operator's settings and
  no maintenance lock; a branch beside main was pushed after `finalize` had read the
  branches for the last time (`late`).  The lock is gone by then and the reads and
  the entry in the journal are two steps, so no more can be promised.
* **QualifiedMain, SourceReceipt.**  Main becomes only the merge of a candidate
  that was qualified and archived, with two controllers on one branch and one
  PR; a complete receipt describes the repository.
* **ReleaseFinishes.**  An operator who resumes after every interruption ends
  with a complete receipt.  It is promised while nobody meddles and, of the
  cutover, unless publish was interrupted before its push (finding 2); of the
  source integration unless phases are run out of their turn.

*A window before it sorts.*

* **SettingsKept.**  What a window has in memory is what the file has as long as
  it changed the file last, so a failed save changes neither; what the program wrote
  needs no repair at the next start, unless a folder became a file.
* **FilesKept** (action property).  A start loses nothing of the file it finds.
  `LegibleKept`: what it reads keeps every option that is legible, what it does not
  know, and of every key that may be one the first row, with its folder if that is
  valid; no row is added.  `CorruptKept`: its recovery does not overwrite a corrupt
  file before a backup holds it, with two windows recovering at once.
* **SavedAsShown.**  When a save is reported, memory, file and the next start have
  what the form showed: validation and repair agree on keys, repetitions, blank rows
  and folders, but for folders with control characters (disagreement 5 of
  section 4) and folders that became files.
* **FreshStatus.**  When nothing runs, the dialog shows the state of the model in
  the store, whatever jobs and checks overlapped.
* **SavedIsApplied, CloseEnds.**  Saved settings are applied although the dialog
  had to wait; a window that is closed goes.
* **OneHome.**  A window with an explicit or portable profile and all its
  processes keep to that profile or fail, and a service runs a complete copy of
  one version of its runtime.

### 3.2 Bounds, and why they are enough

* *Transactions.*  A file set has at most two roles and every loop of the code
  runs over them, so one fault position per loop iteration is reachable.  Three
  rows are an operation, a recovery and a recovery of that recovery, which
  already works from a copied manifest with a partly restored disk; a fourth
  finds no new kind of manifest.  Two crashes interrupt the operation and its
  first recovery.  One fault and one edit meet each other at any two points.
* *Journal.*  Four operations make a sort with an enrichment and two undos, or a
  sort with an undo and two recoveries, and two file sets side by side.  A fault
  and a restart lose two receipts.  A second restart adds nothing after the first
  has settled every open row except for work begun later, which the first one
  covers.  Thirty days may have passed at any time.
* *Service.*  Three connections let a single client come back while the service
  drains, and once more to its successor, or reconnect after a death and a time-out.  A
  drop is not combined with the other troubles in this run; over a single operation,
  with five connections, all of them together were checked apart (44 thousand
  states).  Two operations are one in work and one waiting or refused.  Two windows have two connections between them, of which a drop or a
  death can take one.  The queue of one makes "full" reachable with two operations; the code's
  size is 1024 and its guard is the same comparison.
* *Review.*  Three images have a left and a right neighbour of a held one; three
  operations are two results that overtake each other around a third.  Two loads
  make an earlier generation.  Four operations on one image fill the reader and
  the backlog and leave one to be refused, or are a sort, its metadata, its undo
  and another sort.  The code's limits are 2 readers, 256 waiting and 50 tokens,
  with the same comparisons.
* *Decode.*  A queue of one overflows as soon as an image and its neighbour are
  asked for, a cache of one evicts at the second image (50 requests and a
  share of the memory in the code).  One file changes once, so an identity is current, late or both.
* *Components.*  Two versions are an active and a previous one; three processes
  are two that compete and one that recovers.  In the reader's part the stores
  move without bound.
* *Release.*  A branch with a PR of its own, one without, a PR of a fork and one
  already closed are all kinds the inventory tells apart.  Two stops interrupt a
  phase and its repetition.
* *Desktop.*  Two starts are two windows at once or one after the other; one
  fault and two edits (of the file, of a folder) fall anywhere between.  The edited
  files have each defect, and keys that are equal in upper case only; one form is
  accepted and one is not.  For any other files and rows there are the proofs.  A
  job and an edit have nothing in common and do not meet in the dialog.  A dialog with one job starts up to
  two checks, which overlap.  Four processes are two windows and two children.
* The operation identifiers of `journal_history` and the windows of
  `service_two_windows` are symmetric: Init and Next treat them alike, nothing
  chooses among them, and these runs have no liveness property.

### 3.3 Fairness

* *MutationService.*  Each window's client: a Qt timer calls `poll` every 50 ms
  as long as the window is open, and `poll` connects, spawns or receives whatever
  there is.  Each part of the service's loop: `select` returns after at most
  50 ms and one turn serves every ready connection, broadcasts and checks for
  drain.  The worker thread, which blocks only on its queue.  A `LoseConnection`
  of a live service is not fair; one of a dead service is part of `poll`.
* *DecodeView.*  The event loop handles a queued signal (`Shift`) and a queued
  call (`Called`), and the decoder thread is scheduled: it gives its reader up
  when the deadline has passed, so nothing is assumed of readers or the kernel.
* *Components.*  Started processes run and helpers end (they have deadlines).
  `Running` is one condition for all of them: none of their steps can be taken
  for ever, so it implies fairness to each.
* *Release.*  The operator resumes, and continues with a second plan after the
  tests failed; a controller that runs goes on; GitHub renames and tests
  eventually.
* *Desktop.*  The event loop runs, a check takes a minute at most, a job ends
  (SIGKILL follows SIGTERM), the user confirms the message box.

Nothing is assumed of users, deaths, drops, kills or other programs.

## 4. Findings

1. **After the end of a review, a key may sort an image nobody sees**
   (`ui_main.py:1528`).  "Review complete" is a selection past the end of the
   queue.  A move that succeeds afterwards shortens the queue, and
   `remove_image_from_queue` clamps the selection to the last image, which makes
   it valid while the screen still says that the review is complete.  Delete and
   the hotkeys only look at the selection.  A test
   (`test_ui_source_integration.py:317`) expects Delete to do nothing then, but
   has no operation under way.  Run `review_unseen`.
2. **An interrupted publish stops the cutover for good** (`cutover.py:495`).
   `publish` records its intent (431) before it pushes the branch (438).  When
   the controller stops in between, the branch is absent, and `check_drift`, which
   runs before every phase (986), takes the recorded intent for the branch itself
   and refuses: also `publish`, which would push it.  The runbook
   (`docs/engineering/cutover-runbook.md:189-191`) says that the expected prior
   state can be retried on resume.  Run `cutover_resume`.

Three more disagreements are exceptions of properties that hold otherwise; dropping the
exception gives the trace.

3. **A recovery may succeed with the output still visible** (`file_safety.py:392`).
   When the verification of a quarantined output raises, for whatever reason,
   `unlink_owned` links it back to its public name and raises (392-400).  The next
   rollback finds the quarantine the manifest names (`operation_engine.py:531-539`),
   skips the check of the public name (386), unlinks only the quarantine and returns:
   the original is restored, the row is resolved, and the output stays beside it.
   `docs/architecture.md:34-35` says that restart recovery removes what is proven to be
   its own and that ambiguous entries remain `RECOVERY_REQUIRED`.  No bytes are lost.
   `HonestFailure` without `relinked`: a move with two failing calls and nobody else.
4. **A dropped connection may leave a window waiting for good**
   (`mutation_service.py:288`).  Without clients the service drains, and never stops
   draining; it exits when it has neither clients nor work.  A window whose
   connection was dropped while work was left comes back to it, is told to wait
   (`mutation_client.py:145`), and by its connection keeps the service from exiting.
   What it submitted is not rechecked, as `mutation_client.py:136` announces, and what
   it submits now is refused until the "owner exits" (`mutation_service.py:226`).
   `Answered` without its premise: the run `service_one_window`, one drop.
5. **A saved shortcut may lose its folder** (`ui_settings.py:655`).  `save_settings`
   accepts any directory that exists; `apply_changes` repairs what it is given and
   empties a folder whose name has a control character (`settings_manager.py:52-56`,
   375-384).  The dialog reports success (687) and closes, against its description
   (565-566).  `SavedAsShown` without `WithoutControl`: any form with such a folder.

## 5. Proofs

Eight modules hold the theorems; each names its invariant and keeps one lemma per
action or per group of actions that disturb it in the same way, and a last step
that combines them by temporal reasoning.  What a theorem says holds for every
value of the constants: any requests, operations, windows, versions, branches, and
any bound on failing calls, deaths and changes made by others.

| module | theorems | of the properties |
|---|---|---|
| OperationJournalProofs | Invariance, TypeCorrect, UndoIsSpentOnce, RecoveryResolvesOnce, SettledOnce, JournalTellsTruth | JournalTruth and its parts |
| FileTransactionProofs | TransactionInvariance, IntentIsRecorded, NothingIsDestroyed, HonestInvariance, FailureIsHonest, CompletionIsHonest, RecoveriesConverge | IntentRecorded, NothingDestroyed, HonestFailure, HonestCompletion, RecoveryConverges |
| MutationServiceProofs | ServiceInvariance, BegunAtMostOnce, WindowsAreToldTheTruth | AtMostOnce, ToldTruth |
| ComponentsProofs | ComponentsInvariance, AnswersAreTrue, ReceiptsAreTrue, StoreIsImplemented, InUseIsComplete | AnswerTruth, ReceiptTruth, ImplementsStore |
| ReviewSessionProofs | ReviewInvariance, QueueIsTrue, GapIsHeld, TokensHavePlaces, UndoStopsTagging, SelectionIsKept | ViewTruth, HeldGap, TokenPlaces, TaggingStops, SelectionKept |
| DecodeViewProofs | DecodeInvariance, CacheIsTrue, ScreenIsTrue, LateAnswersReplaceNothing, ScratchIsOwned | CacheTruth, ScreenTruth, LateAnswers, ScratchOwned |
| DesktopProofs | HomeInvariance, WindowsKeepOneHome, CorruptIsKept, CheckInvariance, StatusIsFresh, FormInvariance, SettingsAreKept, LegibleIsKept, FilesAreKept, SavedIsShown | OneHome, FilesKept, FreshStatus, SettingsKept, SavedAsShown |
| ReleaseProofs | SourceInvariance, MainIsQualified, ReceiptStands, CutoverInvariance, EffectsAreAccounted, CutoverChecked, ReceiptIsClean | QualifiedMain, SourceReceipt, EffectsAccounted, CompleteIsClean |

Every strengthening was checked by TLC as an invariant of the run of its module
before it was proved.

### 5.1 The arguments

*Operation journal.*  `IInv` makes the histories inductive: `OneReceipt` needs that
the operation about to be settled is still open, and `UndoneOnce` that the token
found unspent when an undo began is unspent when it finishes.  Both are
`RunCoherent`, which holds because one operation runs at a time and `Accept`,
`CancelPending` and `ExecuteAgain` do not touch its row.  `JournalTruth` needs
`JInv`, which adds what the records say of one another (`Records`: what a request
refers to stays as it was found, a manifest lists its own files or those a recovery
adopted, a token names a finished artifact) and what lies on the disk (`Disk`): a
sort nobody has in hand is where it was, is undone, or is where its token says,
and what an open transaction took away is what its rollback would put back.

*File transactions.*  `TInv` is what the journal knows: the manifest on disk only
grows and is saved before the call it announces, so a claim, a stage or a
published copy is always recorded, with its fingerprint.  From it follow
IntentRecorded, and NothingDestroyed: the names a step overwrites are free, and
those it removes are proven to be the operation's own or held elsewhere.
HonestFailure, HonestCompletion and RecoveryConverges need `HonestInv`, in four
parts.  `ControlOK` says on whose behalf the thread runs: while row 1 runs nobody
recovers it, a rollback of row 1 has an exception to report, and one without an
exception is a recovery.  `ManifestsOK` says that a manifest with a set contains the
originals, that every visible output belongs to a set whose publication was
declared, and that only what the manifest does not claim may be half written.
`RoleOK(r)`, for a role nobody else touched, follows its names: each is free or holds
what this operation put there (`Steady`); up to the claims the original is at
home, afterwards it is in its claim, and at the end every output stands (`Forward`);
a rollback that has counted no error has withdrawn the outputs, except those that were
linked back, and returned the originals of the roles it is done with (`Back`); what is settled is so and stays so
(`End`).  `Converges` follows a recovery that nothing disturbs: every check
it makes then succeeds, because `Steady` and the manifests leave no other case.
That argument is the reason for the exceptions in the property: `kind # "trash"`
since a staged trash cannot be told from a lost one, and `kind # "metadata"`
since its generated sidecar is staged before a manifest can name it.

*Mutation service.*  `SInv`: every message on a wire or in a queue is true of the
journal at every later moment (`TellOK`), because a row that is known and no longer
in work changes only by the reconciliation of a next owner, from an open state to the
settled one that was told (`Lasting`).  An operation is in work once: in the queue
or with the worker, never twice (`WorkOK`).

*Components.*  `StoreInv` says what a job has established by the place where it
is, and that it holds the store lock there; the versions it is about to remove are
neither listed nor leased.  `ReaderInv` says what a reader's job carries by its
stage.  StoreIsImplemented proves the refinement step by step: under
`complete <- {v : tree[v] = "whole"}` and the registry's names every action is an
action of VersionStore or a stutter.  InUseIsComplete then carries the promise of
VersionStore over: its types and `InUseComplete` are inductive there
(`PromiseTypes`, `PromiseKept`), and every step of the component store is one of its
steps.  So for any number of jobs, readers and versions no directory that readers
get, that a rollback returns to or that somebody reads is ever less than complete.

*The review window.*  Between an answer of the service and its delivery the queue
is wrong, and rightly so; ViewTruth speaks of images no operation is out for, and
says nothing of how they got there.  `IInv` says what the queue differs by: by the
successes on their way to the window (`TruthOf`: a sort that landed takes an image
still in the queue, an undo that landed returns one that is not in it yet, and
otherwise queue and folder agree).  That a delivery then leaves the right queue
needs that there is one such success for an image at most, which four other parts
carry: an operation that is out is with the service or has one message on its way
(`Waiting`, `Messages`), one sort is out for an image (`Queueing`), an image is
away because of one token only, which is neither spent nor stale (`Presence`), and
what a request names is done and was told of (`Requests`, `Journal`).  HeldGap needs
that the index of the held image is its position until its sort succeeded and the
gap it left afterwards (`Holding`).  TokenPlaces needs that the tokens submitted are
those of the undos that are out, one undo each (`Tokens`).  TaggingStops needs that
an undo of a finished sort has cancelled its tagging (`Taggings`).  Each part
depends on some of the variables, so a step is proved part by part, and the
delivery of a message is reduced to four changes of the view (`ViewStep`) and
three of the tokens (`TokensStep`).  SelectionKept, an action property, follows
from the same invariant: what `remove_image_from_queue` does to the position of a
free image on the screen (`RemoveImageIs`).  The operators on lists are
characterised once, by the least-number argument (`DroppingIs`, `AscendingIs`).

*The decode window.*  An answer names a request, and requests are reused: a second
demand for the same picture gets the request that is already out, and an
identifier is free again once nobody uses it.  So the identifier alone proves
nothing, and CacheTruth and ScreenTruth rest on what the window remembers beside
it.  `IInv` says of the thread what it may rely on (`LoaderTypeOK`, `ThreadOK`) and
of the window two things.  `Good`: every cached entry holds what its key says;
a request has one remembered identity, a new one being free (`FreshIs`, a count:
among one more identifiers than there are in use one is not in use); the frame bar
stands for one identity of one file, and the request it waits for remembers the same
one.  `Steady`: unless a move holds the snapshot, the bar is that of the selected
file, and the picture on the screen is the frame the bar names, of the bar's
identity.  The answer `on_image_ready` uses has the identity its request remembers
(`Late` drops the others), which is the one that goes into the cache key and, for
a frame, that of the bar.  An answer for an earlier listing is known by its generation,
and once the bar is reset it waits for no request.  A handler is several calls, each
of which keeps `Good` while only the last restores `Steady`, so the proof has a lemma
per call (the cache, the request, the preload of one neighbour, the reset of the bar)
and composes them as the handler does.
LateAnswers follows from the same invariant (`Answers`: nothing an answer does
touches a held snapshot, and it presents only the frame sought), ScratchOwned from
the steps of the thread.

*A window before it sorts.*  `HomeInv`: the environment of a running process selects
the home of its window.  `CorruptInv`: a window that is about to write finds a
corrupt file only if a backup holds it.  `CheckInv` is the bookkeeping of threads,
queued signals and jobs; its heart is that the last answer in the queue is fresh
unless another check follows it.  `SettingsInv` and `FormInv` say that what the
program writes is a fixed point of its own repair, and that an open success message
stands over a form whose rows were accepted.  These are statements about `Rows` and
`Dropping`, recursions over the rows of a file and of a form, and are proved by hand:
were there a length for which one fails, there would be a least one (a fact about sets
of numbers, from which the proof takes the induction step).  LegibleIsKept needs the
same for what is kept: after n rows, exactly the first of each key that may be one
(`FirstIsKept`).  SavedIsShown needs in addition that rows the dialog accepted are
their own firsts, so that the repair changes their folders only.

*The hosted repository.*  `SourceInv`: while nobody meddles a merge of main is
final, and every phase holds on to what its gate saw; `Counted` counts the
interruptions a wrong receipt costs.  `CutInv`: what the controller has seen of the
branch or request it works on is still so, although others push, open and close.
`Checked` adds what the last reads of `finalize` establish and others may change
before its entry: every branch they did not read is one pushed since.

### 5.2 Assumptions, and what proving changed

The assumptions on constants are named in the modules that declare them and
evaluated by TLC in every run: `BoundsAssumption`, `OpsAssumption`,
`ServiceAssumption`, `LoaderAssumption`, `ViewAssumption`, `EnrichmentAssumption`,
`SessionAssumption`, `StoreAssumption`, `WindowsAssumption`, `DamageAssumption`, `FormsAssumption`,
`DialogAssumption` and `PlanAssumption` say that bounds are numbers, that the absent operation, version or
window is none, that a service has finitely many operations and a folder finitely many
images, numbered, that frame 0 is the image itself, that an edited file which is
legible at all has the known sections and a form has rows, and that the names of
branches and commits of a cutover are distinct.  The finite operations are used
once, where the next owner lists the rows it has settled.  The distinct names are
a matter of the model, not of the plan: a branch and its commit go by one name, so
no branch may be called like one of the model's own words (`main`, `merged`).

Proving changed the models in these places, two of them in what they say.
`ViewTruth` had held within the run's bound only: the service of ReviewSession could
undo a sort twice when the receipt of the first undo was lost, because the
journal then still offers the token, and the second undo left the queue wrong.
The code refuses that, since `_files` verifies the fingerprint of the artifact the
token names (`operation_engine.py:137`) and the first undo took it away; the
variable `stale` now holds the tokens whose artifact is gone or rewritten, and
`Possible` asks for it.
`SourceReceipt` had said that a wrong receipt needs a rollback that is announced and
not recorded; SourceInv showed that a *second* rollback, interrupted before it is
recorded, leaves a receipt wrong with nothing announced, which takes three
interruptions and phases out of turn and so lay outside the run's bound.  The
property now says so.  `CASE` expressions have exclusive arms (their meaning is
open to the prover otherwise), a removed version is `DoneWith` in one place,
`Pop` is a named operator, `Rows` is a recursive function, and the lists of the
review window are filtered and sorted by `Dropping` and `Ascending` of the module
Lists, whose recursion and choice a proof can use.  DecodeView drops entries of its cache
by the same `Dropping`, asks for the three neighbours in three
`PreloadOne` instead of a fold, and looks an entry up with `PlaceOf`; its bound on
requests for one frame is gone, since a free identifier exists whatever is in use.

### 5.3 What is only model-checked

* Liveness under fairness, which this prover does not do: `Answered`, `Releases`,
  `LoadingEnds`, `LoaderStops`, `JobsEnd`, `ReleaseFinishes`, `SavedIsApplied`,
  `CloseEnds`.
* The correspondence between FileTransaction, OperationJournal and MutationService,
  which is by construction and by comment.

## 6. Plan

1. Abstract specifications: an atomic file-set operation that FileTransaction
   implements up to an open row; a once-only request that MutationService
   implements.  `RoleOK` and `SInv` are the invariants those refinements need.
2. Still to model: downloads and archives of components; timed playback of
   frames; paging of the recovery dialog.

## 7. Limits, and where code and expectation part

Left out everywhere: formatting, logging, widgets, inference and codecs, build
and packaging scripts, acceptance drivers.

* *File transactions.*  Open descriptors held by another program, attribute and
  format details, and capacity numbers are not modelled.  The free name search of
  a destination is one free candidate name.  Trash returns no handle, so the
  engine leaves an interrupted one to review and the model promises no recovery.
  The sidecar that `write_metadata` creates is staged before a manifest can name
  it: after a crash at that point rollback cannot remove the stage directory, so a
  recovery stays open; no user file is affected.  A rollback that is repeated after
  its save failed (inside a recovery) takes the quarantine path for recorded and
  renames the output to a name no durable manifest holds
  (`operation_engine.py:537`, against `file_safety.py:379`); no user bytes are at
  risk, but after a crash nobody knows the file.  A metadata operation whose output
  has the name of its source takes the way of disagreement 3 as well, and a second
  recovery of it may not converge (`operation_engine.py:531-541`); `RecoveryConverges`
  leaves out metadata.
* *Journal.*  The older interface (`record_intent`, leases, rows without a
  request), schema migration and paging are left out: nothing in the running
  program creates such rows.  Recovery of an enrichment interrupted before its
  sort was undone links the retained claim back to the sorted name; what the user
  should then see is nowhere stated, so no property is claimed.
  `cleanup_retained` verifies the survivor and then deletes the claim
  (`operation_engine.py:715`); another program may change the survivor in
  between, which is not modelled and costs bytes that program replaced.
* *Service.*  The result that exists in memory only is told to the windows
  connected at that moment; others learn the outcome from the next owner's
  reconciliation (`MayMiss`).  An exception that ends the event loop is a death.  A
  window accepted while the service drains is disagreement 4, which is why `Answered`
  has a premise; it is checked for one window, whose connection is dropped once.
  A resubmission that meets a full queue is told an error although its operation
  was accepted earlier (227).  Listen backlog, message sizes, the output limit of
  a slow client, the listing of recoveries and the close message are not modelled.
* *Review.*  Transient launch paths, zoom, the recovery dialog and changes of
  settings during a session are not modelled.  A refused submission changes
  nothing in the window and is no action.  Once the window has closed only its
  readers run on; what the service does then is in MutationService.
* *Decoding.*  Batches of frames for timed playback and target sizes are left
  out.  A request that the full queue drops as it arrives reports its error before
  the window has registered it, and "Loading image" then stays until the next
  `show_image`: `LoadingEnds` excludes exactly these (`lost`).
* *Components.*  Downloads, archives and staging directories are steps that
  succeed or fail.  A remove that is killed leaves a partial directory for which
  install and remove of that version fail, also after Recover.  When the receipt `activating` is
  written but reported as failed, and marking it failed fails as well
  (`component_manager.py:523`, 549), it stays `activating` with nothing activated until
  the next Recover; that pair of failures is not modelled.  The comment and
  test on retained staged files (`component_manager.py:545`) describe a case that
  the `finally` clause's removal of the directory excludes.  Files of a version
  that are altered after its verification are caught by the helper's digest check
  only, which is one of the failures of a helper here.  A model outside the
  store is not modelled.
* *Release.*  Evidence files, bundles and the identity of operator and checkout
  are taken as unchanging.  Running publish again after prune creates the
  integration branch anew; running prepare again after finalize creates the
  maintenance rule and then stops.  A PR whose head is the deleted branch is
  closed by GitHub and not seen by `restore_if_dependent`.  In the source
  integration, a second rollback announces nothing new (`SourceReceipt` admits
  the wrong receipt that takes three troubles), making a continuation may append to the earlier journal without holding its
  lock, and a continuation is refused for ever once the earlier journal grew.
* *Settings.*  Saving before the first model check ended stores "tagging off"
  although the user did not touch the box.  Escape after Save, while the close
  is pending, drops the result and the saved settings are not applied
  (`SavedIsApplied` excuses a dismissal).  A job that ends between a check's end
  and its queued `finished` signal starts a check whose reference that signal
  drops (`ui_settings.py:458`): the window may close while it runs and the status
  may be old (`dropped`).  A job that was killed after the activation changes the
  model without a new check (`unreported`).  After a file could not be read the
  window works with defaults, and a later save replaces the good file; after a
  backup failed, a save by the user replaces the corrupt one.  Saves of a start
  may overwrite another window's: there is no lock between processes.  The
  dialog drops unknown keys inside directories and hotkeys.  The check of the folders
  and the save are one step here: a folder that becomes a file between them is the
  case SavedAsShown excepts.  The rewriting of a model path at the start, which on
  Windows normalises the default, is not modelled.
* *Start-up.*  The native home is not pinned: a flag added while a window runs, or
  the temporary directory of a fallback, can make its processes disagree, and
  OneHome claims isolated profiles only.  A damaged pinned runtime is refused for
  ever.  A window launched with a valid inherited root is not modelled.  Launch arguments and platform plugins are not modelled.
