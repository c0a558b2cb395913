--------------------------- MODULE FileTransaction ---------------------------
(***************************************************************************)
(* One file-set operation of OperationEngine.execute, together with the    *)
(* explicit recoveries that may follow it: the filesystem primitives of    *)
(* file_safety.py, the manifest saved in the operation journal before each *)
(* of them, rollback, crashes, the reconciliation of the next service      *)
(* start, and a user editing the same names meanwhile.                     *)
(*                                                                         *)
(* A file set is an image and its optional sidecar.  A file is the inode a *)
(* name leads to plus what became of its bytes: hard links share an inode. *)
(***************************************************************************)
EXTENDS Naturals, FiniteSets

CONSTANTS Kinds,       \* actions of the request: a subset of AllKinds
          MaxRows,     \* bound: the operation (row 1) and its recoveries
          MaxFaults,   \* bound: filesystem or journal calls that raise
          MaxCrashes,  \* bound: times the service process dies
          MaxEdits     \* bound: changes made by the user to public names

AllKinds == {"move", "copy", "trash", "undo_move", "undo_copy", "metadata"}

ASSUME BoundsAssumption ==
  /\ Kinds \subseteq AllKinds
  /\ MaxRows \in Nat \ {0}
  /\ MaxFaults \in Nat /\ MaxCrashes \in Nat /\ MaxEdits \in Nat

Rows   == 1 .. MaxRows
Roles  == {"image", "sidecar"}
Names  == {"source", "claim", "stage", "dest", "quarantine"}
Inodes == {"original", "copy", "guest_source", "guest_dest"}
Guest(l) == IF l = "source" THEN "guest_source" ELSE "guest_dest"

\* Requests whose file set comes from an undo token, and what each one does.
TokenKinds   == {"undo_move", "undo_copy", "metadata"}
Publishing   == {"move", "copy", "undo_move", "metadata"}
\* Where the outputs of an operation go: metadata republishes in place.
DestOf(k)    == IF k = "metadata" THEN "source" ELSE "dest"

Intents == {"stage", "claim", "publish", "trash", "commit"}
Manifest == [files : SUBSET Roles, excluded : SUBSET Roles, generated : SUBSET Roles,
             prov : SUBSET Roles, intents : SUBSET Intents, quarantined : SUBSET Roles]
NoManifest == [files |-> {}, excluded |-> {}, generated |-> {},
               prov |-> {}, intents |-> {}, quarantined |-> {}]

Completed == {"completed", "completed_with_warning"}
Settled   == Completed \cup {"failed", "cancelled", "recovery_required"}
Row   == [state : {"none", "accepted"} \cup Settled, manifest : Manifest,
          target : {0} \cup Rows, resolved : BOOLEAN]

VARIABLES
  kind,      \* action of the operation in row 1
  original,  \* roles its file set has
  fs,        \* [Roles -> [Names -> inode or "none"]]: the directory entries
  data,      \* [Roles -> [Inodes -> "good" | "partial" | "edited"]]
  rows,      \* the durable journal
  cur,       \* row being executed
  mem,       \* manifest of that row in memory
  pc,        \* what the worker thread does next
  todo,      \* roles the current loop has left
  outcome,   \* exception being handled: "none", "failed" or "cancelled"
  errors,    \* rollback errors or cleanup warnings were collected
  faults, crashes, edits,
  touched,   \* roles whose public names the user changed (history)
  relinked   \* roles whose output a rollback gave its public name back (history)

store == <<fs, data>>
request == <<kind, original>>
world == <<crashes, edits, touched, relinked, kind, original>>
vars == <<kind, original, fs, data, rows, cur, mem, pc, todo, outcome, errors,
          faults, crashes, edits, touched, relinked>>

dest == DestOf(kind)
First(S) == IF "image" \in S THEN "image" ELSE "sidecar"
Last(S)  == IF "sidecar" \in S THEN "sidecar" ELSE "image"

-----------------------------------------------------------------------------
(* file_safety: verify compares identity and content; rename and link move  *)
(* or share whatever inode the name leads to.                               *)

Exists(r, l) == fs[r][l] # "none"

\* Bug: a file counts as the recorded one whatever inode its name leads to.
VerifyContentOnly(r, l, ino) == Exists(r, l) /\ data[r][ino] = "good"
Verify(r, l, ino) == fs[r][l] = ino /\ data[r][ino] = "good"
Unlink(r, l)      == [fs EXCEPT ![r][l] = "none"]
Rename(r, a, b)   == [fs EXCEPT ![r][a] = "none", ![r][b] = fs[r][a]]
Link(r, a, b)     == [fs EXCEPT ![r][b] = fs[r][a]]

\* Bug: rollback looks for the original only where the user left it.
HolderIsSource(r) == "source"
\* The name that holds the user's bytes during rollback.
Holder(r) == IF Exists(r, "claim") THEN "claim" ELSE "source"

\* A primitive or a journal transaction raises.
Fault   == faults < MaxFaults /\ faults' = faults + 1
NoFault == UNCHANGED faults

Goto(p, t) == pc' = p /\ todo' = t /\ UNCHANGED outcome
Raise(o)   == pc' = "rollback" /\ todo' = {} /\ outcome' = o

\* save_manifest: the manifest in memory becomes durable, or the call raises.
SaveThen(p, t) ==
  \/ /\ rows' = [rows EXCEPT ![cur].manifest = mem']
     /\ Goto(p, t) /\ NoFault
  \/ Fault /\ Raise("failed") /\ UNCHANGED rows

\* Bug: the intent reaches the journal only with the next save.
DeclareLate(i) == mem
\* The manifest with one more intent, to be saved before it is carried out.
Declare(i) == [mem EXCEPT !.intents = @ \cup {i}]
-----------------------------------------------------------------------------
Init ==
  /\ kind \in Kinds
  /\ original \in {{"image"}, Roles}
  /\ fs = [r \in Roles |-> [l \in Names |->
             IF r \in original /\ l = "source" THEN "original" ELSE "none"]]
  /\ data = [r \in Roles |-> [i \in Inodes |-> "good"]]
  /\ rows = [i \in Rows |-> [state |-> IF i = 1 THEN "accepted" ELSE "none",
                             manifest |-> NoManifest, target |-> 0, resolved |-> FALSE]]
  /\ cur = 1 /\ mem = NoManifest
  /\ pc = "plan" /\ todo = {} /\ outcome = "none" /\ errors = FALSE
  /\ faults = 0 /\ crashes = 0 /\ edits = 0 /\ touched = {} /\ relinked = {}

\* _perform and _metadata up to their preflight.  A name the plan may use is
\* free for both roles; a token's files must still be exactly the recorded ones.
FilesAccepted == \A r \in original : Verify(r, "source", "original")
PlanAccepts ==
  /\ FilesAccepted
  /\ kind = "undo_move" => \A r \in Roles : ~Exists(r, "dest")
  /\ kind = "metadata"  => \A r \in Roles \ original : ~Exists(r, "source")

Plan ==
  /\ pc = "plan"
  /\ \/ /\ PlanAccepts /\ NoFault
        /\ \E ex \in SUBSET (IF kind = "undo_move" THEN original \cap {"sidecar"} ELSE {}) :
              mem' = [NoManifest EXCEPT !.files = original, !.excluded = ex]
        /\ Goto(IF kind = "undo_copy" THEN "claims" ELSE "stage", {})
     \/ /\ ~PlanAccepts /\ NoFault
        /\ mem' = [NoManifest EXCEPT !.files = IF FilesAccepted THEN original ELSE {}]
        /\ Raise("failed")
     \/ /\ Fault   \* fingerprint, capacity or prerequisite probe
        /\ \E f \in {{}, original} : mem' = [NoManifest EXCEPT !.files = f]
        /\ Raise("failed")
     \/ NoFault /\ mem' = NoManifest /\ Raise("cancelled")   \* before execution
  /\ UNCHANGED <<store, rows, cur, errors, world>>

\* Bug: the sidecar is not part of what is staged and published.
KeptImage == mem.files \cap {"image"}
Kept == mem.files \ mem.excluded      \* items with a stage and a destination

\* _stage: a private directory and its member names are recorded first.
Stage ==
  /\ pc = "stage"
  /\ mem' = Declare("stage")
  /\ SaveThen("copy_stage", Kept)
  /\ UNCHANGED <<store, cur, errors, world>>

AfterStaging == IF kind = "metadata" THEN "annotate" ELSE "attributes"

\* secure_copy of one item; undo_move copies a retained claim of its parent.
SourceIntact(r) == kind = "undo_move" \/ Verify(r, "source", "original")

CopyStage ==
  /\ pc = "copy_stage" /\ todo # {}
  /\ LET r == First(todo) IN
     \/ /\ SourceIntact(r) /\ NoFault
        /\ fs' = [fs EXCEPT ![r]["stage"] = "copy"]
        /\ mem' = [mem EXCEPT !.prov = @ \cup {r}]
        /\ Goto(IF todo = {r} THEN AfterStaging ELSE "copy_stage", todo \ {r})
        /\ UNCHANGED data
     \/ /\ \/ Fault /\ Raise("failed")
           \/ ~SourceIntact(r) /\ NoFault /\ Raise("failed")
           \/ NoFault /\ Raise("cancelled")
        /\ \/ UNCHANGED store
           \/ /\ fs' = [fs EXCEPT ![r]["stage"] = "copy"]
              /\ data' = [data EXCEPT ![r]["copy"] = "partial"]
        /\ UNCHANGED mem
  /\ UNCHANGED <<rows, cur, errors, world>>

\* write_metadata rewrites the staged image and may create a staged sidecar.
Annotate ==
  /\ pc = "annotate"
  /\ \/ /\ NoFault /\ Goto("record", {})
        /\ fs' \in {fs, [fs EXCEPT !["sidecar"]["stage"] = "copy"]}
        /\ data' = [data EXCEPT !["image"]["copy"] = "partial"]
     \/ /\ Fault /\ Raise("failed")
        /\ fs' \in {fs, [fs EXCEPT !["sidecar"]["stage"] = "copy"]}
        /\ data' \in {data, [data EXCEPT !["image"]["copy"] = "partial"]}
  /\ UNCHANGED <<rows, cur, mem, errors, world>>

\* The generated sidecar joins the set, every stage is fingerprinted again.
RecordAnnotation ==
  /\ pc = "record"
  /\ LET new == {r \in Roles \ mem.files : Exists(r, "stage")} IN
       mem' = [mem EXCEPT !.files = @ \cup new, !.generated = new, !.prov = mem.files \cup new]
  /\ data' = [data EXCEPT !["image"]["copy"] = "good"]
  /\ \/ SaveThen("attributes", {})
     \/ NoFault /\ rows' = [rows EXCEPT ![cur].manifest = mem'] /\ Raise("cancelled")
  /\ UNCHANGED <<fs, cur, errors, world>>

\* _prepare_attributes: verify each stage, save the targets, apply them.
PrepareAttributes ==
  /\ pc = "attributes"
  /\ UNCHANGED mem
  /\ SaveThen(IF kind = "copy" THEN "checkpoint" ELSE "claims", {})
  /\ UNCHANGED <<store, cur, errors, world>>
-----------------------------------------------------------------------------
(* _claims: rename every original into a recorded private directory.        *)

Claims ==
  /\ pc = "claims"
  /\ mem' = Declare("claim")
  /\ SaveThen("claim_check", mem.files \ mem.generated)
  /\ UNCHANGED <<store, cur, errors, world>>

ClaimCheck ==
  /\ pc = "claim_check"
  /\ LET r == First(todo) IN
     \/ Verify(r, "source", "original") /\ NoFault /\ Goto("claim_rename", todo)
     \/ ~Verify(r, "source", "original") /\ NoFault /\ Raise("failed")
     \/ kind # "metadata" /\ NoFault /\ Raise("cancelled")
     \/ Fault /\ Raise("failed")
  /\ UNCHANGED <<store, rows, cur, mem, errors, world>>

AfterClaims == CASE kind = "undo_copy" -> "commit"
                 [] kind = "metadata"  -> "publish"
                 [] OTHER              -> "checkpoint"

\* The name may have changed since it was verified; the claim is verified.
ClaimRename ==
  /\ pc = "claim_rename"
  /\ LET r == First(todo) IN
     \/ /\ Exists(r, "source")
        /\ fs' = Rename(r, "source", "claim")
        /\ \/ /\ Verify(r, "source", "original") /\ NoFault
              /\ IF todo = {r} THEN Goto(AfterClaims, {}) ELSE Goto("claim_check", todo \ {r})
           \/ ~Verify(r, "source", "original") /\ NoFault /\ Raise("failed")
           \/ Fault /\ Raise("failed")
     \/ /\ UNCHANGED fs
        /\ \/ ~Exists(r, "source") /\ NoFault /\ Raise("failed")
           \/ Fault /\ Raise("failed")
  /\ UNCHANGED <<data, rows, cur, mem, errors, world>>

\* The last cancellation point before the set becomes visible.
Checkpoint ==
  /\ pc = "checkpoint" /\ NoFault
  /\ \/ Goto(IF kind = "trash" THEN "trash" ELSE "publish", {})
     \/ Raise("cancelled")
  /\ UNCHANGED <<store, rows, cur, mem, errors, world>>
-----------------------------------------------------------------------------
(* _publish: link every stage to its final name, never replacing one.       *)

Publish ==
  /\ pc = "publish"
  /\ mem' = Declare("publish")
  /\ SaveThen("link", Kept)
  /\ UNCHANGED <<store, cur, errors, world>>

LinkOutput ==
  /\ pc = "link"
  /\ LET r == First(todo) IN
     \/ /\ ~Exists(r, dest)
        /\ fs' = Link(r, "stage", dest)
        /\ \/ NoFault /\ Goto(IF todo = {r} THEN "check_output" ELSE "link", todo \ {r})
           \/ Fault /\ Raise("failed")
     \/ /\ UNCHANGED fs
        /\ \/ Exists(r, dest) /\ NoFault /\ Raise("failed")
           \/ Fault /\ Raise("failed")
  /\ UNCHANGED <<data, rows, cur, mem, errors, world>>

OutputsStand ==
  /\ \A r \in mem.files \ mem.generated :
        Verify(r, IF kind = "copy" THEN "source" ELSE "claim", "original")
  /\ \A r \in Kept : Verify(r, dest, "copy")
  /\ Kept = {"image"} => ~Exists("sidecar", dest)

CheckOutput ==
  /\ pc = "check_output"
  /\ \/ OutputsStand /\ NoFault /\ Goto("commit", {})
     \/ ~OutputsStand /\ NoFault /\ Raise("failed")
     \/ Fault /\ Raise("failed")
  /\ UNCHANGED <<store, rows, cur, mem, errors, world>>

(* _system_trash: hand the staging directory to the platform.               *)

Trash ==
  /\ pc = "trash"
  /\ IF \A r \in mem.files : Verify(r, "claim", "original")
     THEN mem' = Declare("trash") /\ SaveThen("trash_call", {})
     ELSE UNCHANGED <<mem, rows, faults>> /\ Raise("failed")
  /\ UNCHANGED <<store, cur, errors, world>>

TrashCall ==
  /\ pc = "trash_call"
  /\ \/ /\ fs' = [r \in Roles |-> [fs[r] EXCEPT !["stage"] = "none"]]
        /\ \/ NoFault /\ Goto("trashed", {})
           \/ Fault /\ Raise("failed")
     \/ UNCHANGED fs /\ Fault /\ Raise("failed")
  /\ UNCHANGED <<data, rows, cur, mem, errors, world>>

Trashed ==
  /\ pc = "trashed"
  /\ UNCHANGED mem
  /\ SaveThen("commit", {})
  /\ UNCHANGED <<store, cur, errors, world>>
-----------------------------------------------------------------------------
(* The success half of execute.  From here a failing journal call no longer *)
(* rolls back: the row simply stays without a result.                       *)

Commit ==
  /\ pc = "commit"
  /\ mem' = Declare("commit") /\ errors' = FALSE
  /\ \/ /\ rows' = [rows EXCEPT ![cur].manifest = mem']
        /\ Goto("cleanup", mem.files) /\ NoFault
     \/ Fault /\ Goto("idle", {}) /\ UNCHANGED rows
  /\ UNCHANGED <<store, cur, world>>

\* _cleanup_stages, one item: a stage is removed when it is provably ours, or
\* when it is an incomplete copy of an original that is still intact.
CleanStage ==
  /\ pc \in {"cleanup", "rb_clean"} /\ todo # {}
  /\ LET r == First(todo)
         owned == IF r \in mem.prov THEN Verify(r, "stage", "copy")
                                    ELSE Verify(r, "source", "original")
     IN \/ ~Exists(r, "stage") /\ NoFault /\ UNCHANGED <<fs, errors>>
        \/ /\ Exists(r, "stage") /\ owned /\ NoFault
           /\ fs' = Unlink(r, "stage") /\ UNCHANGED errors
        \/ /\ Exists(r, "stage") /\ ~owned /\ NoFault
           /\ errors' = TRUE /\ UNCHANGED fs
        \/ /\ Exists(r, "stage") /\ Fault /\ errors' = TRUE
           /\ fs' \in {fs} \cup (IF owned THEN {Unlink(r, "stage")} ELSE {})
  /\ Goto(pc, todo \ {First(todo)})
  /\ UNCHANGED <<data, rows, cur, mem, world>>

\* Bug: a directory that is not empty is no reason for a warning.
NoLeftovers == FALSE
\* rmdir of the recorded stage and rollback directories: they must be empty.
Leftovers == \/ \E r \in Roles : Exists(r, "stage")
             \/ \E r \in mem.quarantined : Exists(r, "quarantine")

Cleaned ==
  /\ pc = "cleanup" /\ todo = {}
  /\ errors' = (errors \/ Leftovers)
  /\ Goto("finish", {}) /\ NoFault
  /\ UNCHANGED <<store, rows, cur, mem, world>>

Result == CASE outcome = "none" -> IF errors THEN "completed_with_warning" ELSE "completed"
            [] outcome # "none" /\ errors -> "recovery_required"
            [] OTHER  -> outcome

\* finish_result: state, final manifest and resolved target in one transaction.
Finish ==
  /\ pc = "finish"
  /\ \/ /\ NoFault
        /\ LET t == rows[cur].target
               done == [rows EXCEPT ![cur].state = Result]
           IN rows' = CASE outcome # "none" -> done
                        [] outcome = "none" /\ t = 0 -> [done EXCEPT ![cur].manifest = mem]
                        [] OTHER -> [done EXCEPT ![cur].manifest = mem, ![t].resolved = TRUE]
     \/ Fault /\ UNCHANGED rows
  /\ pc' = "idle" /\ todo' = {} /\ outcome' = "none" /\ errors' = FALSE
  /\ mem' = NoManifest
  /\ UNCHANGED <<store, cur, world>>
-----------------------------------------------------------------------------
(* _rollback                                                                *)

\* Every original is proven before anything is discarded.
RollbackCheck ==
  /\ pc = "rollback"
  /\ \/ /\ \E r \in mem.files \ mem.generated : ~Verify(r, Holder(r), "original")
        /\ NoFault /\ errors' = TRUE /\ Goto("rb_end", {})
     \/ /\ \A r \in mem.files \ mem.generated : Verify(r, Holder(r), "original")
        /\ NoFault /\ errors' = ("trash" \in mem.intents /\ \A r \in Roles : ~Exists(r, "stage"))
        /\ Goto(IF mem.files = {} THEN "rb_end" ELSE "rb_dest", mem.files)
     \/ /\ mem.files \ mem.generated # {}
        /\ Fault /\ errors' = TRUE /\ Goto("rb_end", {})
  /\ UNCHANGED <<store, rows, cur, mem, world>>

\* A published output is withdrawn through a recorded quarantine name.
WithdrawOutput ==
  /\ pc = "rb_dest"
  /\ LET r == Last(todo)
         published == /\ "publish" \in mem.intents /\ r \in Kept /\ r \in mem.prov
                      /\ \/ Exists(r, dest)
                         \/ r \in mem.quarantined /\ Exists(r, "quarantine")
     IN IF published /\ r \notin mem.quarantined
        THEN /\ mem' = [mem EXCEPT !.quarantined = @ \cup {r}]
             /\ \/ /\ rows' = [rows EXCEPT ![cur].manifest = mem']
                   /\ NoFault /\ Goto("rb_verify", todo) /\ UNCHANGED errors
                \/ /\ Fault /\ UNCHANGED rows
                   /\ errors' = TRUE /\ Goto("rb_claim", todo)
        ELSE /\ Goto(IF published THEN "rb_verify" ELSE "rb_claim", todo)
             /\ NoFault /\ UNCHANGED <<mem, rows, errors>>
  /\ UNCHANGED <<store, cur, world>>

\* unlink_owned, before its rename.
QuarantineCheck ==
  /\ pc = "rb_verify"
  /\ LET r == Last(todo) IN
     \/ Exists(r, "quarantine") /\ NoFault /\ Goto("rb_unlink", todo) /\ UNCHANGED errors
     \/ /\ ~Exists(r, "quarantine") /\ Verify(r, dest, "copy") /\ NoFault
        /\ Goto("rb_rename", todo) /\ UNCHANGED errors
     \/ /\ ~Exists(r, "quarantine") /\ ~Verify(r, dest, "copy") /\ NoFault
        /\ errors' = TRUE /\ Goto("rb_claim", todo)
     \/ Fault /\ errors' = TRUE /\ Goto("rb_claim", todo)
  /\ UNCHANGED <<store, rows, cur, mem, world>>

QuarantineRename ==
  /\ pc = "rb_rename"
  /\ LET r == Last(todo) IN
     \/ /\ Exists(r, dest)
        /\ fs' = Rename(r, dest, "quarantine")
        /\ \/ NoFault /\ Goto("rb_unlink", todo) /\ UNCHANGED errors
           \/ Fault /\ Goto("rb_claim", todo) /\ errors' = TRUE
     \/ /\ ~Exists(r, dest) /\ NoFault
        /\ errors' = TRUE /\ Goto("rb_claim", todo) /\ UNCHANGED fs
  /\ UNCHANGED <<data, rows, cur, mem, world>>

\* The quarantined file is linked back if its name is still free.
GiveBack(r) ==
  IF Exists(r, dest) THEN UNCHANGED <<fs, relinked>>
  ELSE fs' = Link(r, "quarantine", dest) /\ relinked' = relinked \cup {r}

\* A quarantined file that is not ours goes back, and so does one of ours whose
\* verification raises; the quarantine keeps its own name of it.
QuarantineUnlink ==
  /\ pc = "rb_unlink"
  /\ LET r     == Last(todo)
         owned == Verify(r, "quarantine", "copy")
     IN
     \/ /\ owned /\ NoFault
        /\ fs' = Unlink(r, "quarantine") /\ UNCHANGED <<errors, relinked>>
     \/ /\ IF owned THEN Fault ELSE NoFault
        /\ GiveBack(r) /\ errors' = TRUE
     \/ /\ Fault                                        \* the link or the unlink raises
        /\ fs' \in {fs} \cup (IF owned THEN {Unlink(r, "quarantine")} ELSE {})
        /\ errors' = TRUE /\ UNCHANGED relinked
  /\ Goto("rb_claim", todo)
  /\ UNCHANGED <<data, rows, cur, mem, crashes, edits, touched, request>>

\* The claim is linked home and itself retained; an occupied home is verified.
RestoreClaim ==
  /\ pc = "rb_claim"
  /\ LET r == Last(todo)
         home == Link(r, "claim", "source")
     IN
     /\ \/ ~Exists(r, "claim") /\ NoFault /\ UNCHANGED <<fs, errors>>
        \/ /\ Exists(r, "claim") /\ NoFault
           /\ IF Exists(r, "source")
              THEN errors' = (errors \/ ~Verify(r, "source", "original")
                                     \/ ~Verify(r, "claim", "original")) /\ UNCHANGED fs
              ELSE /\ errors' = (errors \/ ~Verify(r, "claim", "original"))
                   /\ fs' = IF Verify(r, "claim", "original") THEN home ELSE fs
        \/ /\ Exists(r, "claim") /\ Fault /\ errors' = TRUE
           /\ fs' \in {fs} \cup (IF Verify(r, "claim", "original") /\ ~Exists(r, "source")
                                THEN {home} ELSE {})
     /\ IF todo = {r} THEN Goto("rb_clean", mem.files) ELSE Goto("rb_dest", todo \ {r})
  /\ UNCHANGED <<data, rows, cur, mem, world>>

\* End of _rollback: a failed recovery runs it a second time from execute's
\* handler; otherwise the handler saves the phase and reports.
RollbackEnd ==
  /\ pc = "rb_end" \/ (pc = "rb_clean" /\ todo = {})
  /\ LET failed == errors \/ (pc = "rb_clean" /\ Leftovers) IN
     IF outcome = "none"
     THEN /\ NoFault /\ UNCHANGED <<rows, errors>>
          /\ IF failed THEN Raise("failed") ELSE Goto("commit", {})
     ELSE /\ Goto("finish", {})
          /\ \/ /\ errors' = failed /\ NoFault
                /\ rows' = IF mem.files = {} THEN rows ELSE [rows EXCEPT ![cur].manifest = mem]
             \/ mem.files # {} /\ Fault /\ errors' = TRUE /\ UNCHANGED rows
  /\ UNCHANGED <<store, cur, mem, world>>
-----------------------------------------------------------------------------
(* Explicit recovery, restart, and the user.                                *)

Unresolved(t) == /\ rows[t].state = "recovery_required" /\ ~rows[t].resolved
                 /\ rows[t].manifest.files # {}

\* A recover request is accepted for a row the inventory shows.
SubmitRecovery ==
  /\ pc = "idle"
  /\ \E i, t \in Rows :
       /\ rows[i].state = "none" /\ \A j \in 1 .. (i - 1) : rows[j].state # "none"
       /\ Unresolved(t)
       /\ rows' = [rows EXCEPT ![i].state = "accepted", ![i].target = t]
       /\ cur' = i
  /\ mem' = NoManifest
  /\ Goto("recover", {})
  /\ UNCHANGED <<store, errors, faults, world>>

\* _recover: refuse before owning anything, else adopt the target's manifest.
Recover ==
  /\ pc = "recover"
  /\ \/ /\ kind # "trash"
        /\ mem' = rows[rows[cur].target].manifest
        /\ SaveThen("rollback", {})
     \/ kind = "trash" /\ NoFault /\ Raise("failed") /\ UNCHANGED <<mem, rows>>
     \/ Fault /\ Raise("failed") /\ UNCHANGED <<mem, rows>>
     \/ NoFault /\ Raise("cancelled") /\ UNCHANGED <<mem, rows>>   \* before execution
  /\ UNCHANGED <<store, cur, errors, world>>

\* execute called again for a row that has a manifest and no result.
ExecuteAgain ==
  /\ pc = "idle"
  /\ \E i \in Rows : /\ rows[i].state = "accepted" /\ rows[i].manifest.files # {}
                     /\ rows' = [rows EXCEPT ![i].state = "recovery_required"]
  /\ UNCHANGED <<store, cur, mem, pc, todo, outcome, errors, faults, world>>

Crash ==
  /\ crashes < MaxCrashes /\ pc # "down"
  /\ crashes' = crashes + 1
  /\ pc' = "down" /\ mem' = NoManifest /\ todo' = {} /\ outcome' = "none" /\ errors' = FALSE
  /\ UNCHANGED <<store, rows, cur, faults, edits, touched, relinked, request>>

\* A new service owner: reconcile_interrupted_operations(force=True).
Restart ==
  /\ pc = "down"
  /\ rows' = [i \in Rows |-> IF rows[i].state # "accepted" THEN rows[i]
                ELSE [rows[i] EXCEPT !.state = IF rows[i].manifest.files # {}
                                               THEN "recovery_required" ELSE "cancelled"]]
  /\ Goto("idle", {})
  /\ UNCHANGED <<store, cur, mem, errors, faults, world>>

PublicNames == {"source"} \cup (IF kind \in Publishing THEN {dest} ELSE {})

\* Another program creates, replaces, edits in place or removes a public file.
\* Before a plan without a token, that only chooses which set is the original.
UserEdit ==
  /\ edits < MaxEdits /\ edits' = edits + 1
  /\ pc = "plan" => kind \in TokenKinds
  /\ \E r \in Roles, l \in PublicNames :
       /\ touched' = touched \cup {r}
       /\ \/ fs' = [fs EXCEPT ![r][l] = Guest(l)] /\ UNCHANGED data
          \/ Exists(r, l) /\ fs' = Unlink(r, l) /\ UNCHANGED data
          \/ /\ Exists(r, l) /\ UNCHANGED fs
             /\ data' = [data EXCEPT ![r][fs[r][l]] = "edited"]
  /\ UNCHANGED <<rows, cur, mem, pc, todo, outcome, errors, faults, crashes, relinked, request>>

Perform == \/ Plan \/ Stage \/ CopyStage \/ Annotate \/ RecordAnnotation \/ PrepareAttributes
           \/ Claims \/ ClaimCheck \/ ClaimRename \/ Checkpoint
           \/ Publish \/ LinkOutput \/ CheckOutput \/ Trash \/ TrashCall \/ Trashed
Succeed == Commit \/ CleanStage \/ Cleaned \/ Finish
Rollback == \/ RollbackCheck \/ WithdrawOutput \/ QuarantineCheck \/ QuarantineRename
            \/ QuarantineUnlink \/ RestoreClaim \/ RollbackEnd

Service == Perform \/ Succeed \/ Rollback \/ SubmitRecovery \/ Recover \/ ExecuteAgain
Next == Service \/ Crash \/ Restart \/ UserEdit

Spec == Init /\ [][Next]_vars
-----------------------------------------------------------------------------
TypeOK ==
  /\ kind \in Kinds /\ original \subseteq Roles
  /\ fs \in [Roles -> [Names -> Inodes \cup {"none"}]]
  /\ data \in [Roles -> [Inodes -> {"good", "partial", "edited"}]]
  /\ rows \in [Rows -> Row]
  /\ cur \in Rows /\ mem \in Manifest /\ todo \subseteq Roles
  /\ pc \in {"plan", "stage", "copy_stage", "annotate", "record", "attributes", "claims",
             "claim_check", "claim_rename", "checkpoint", "publish", "link", "check_output",
             "trash", "trash_call", "trashed", "commit", "cleanup", "finish", "rollback",
             "rb_dest", "rb_verify", "rb_rename", "rb_unlink", "rb_claim", "rb_clean",
             "rb_end", "idle", "recover", "down"}
  /\ outcome \in {"none", "failed", "cancelled"} /\ errors \in BOOLEAN
  /\ faults \in 0 .. MaxFaults /\ crashes \in 0 .. MaxCrashes /\ edits \in 0 .. MaxEdits
  /\ touched \subseteq Roles /\ relinked \subseteq Roles
-----------------------------------------------------------------------------
(* Properties *)

Linked(r, i) == \E l \in Names : fs[r][l] = i

\* Whatever the service does - claim, publish, roll back, clean up, recover, in
\* any state the user and earlier crashes left - it never removes the last name
\* of an inode that carries a user's bytes: an original, a file somebody put at
\* a public name, or an output that was edited after its publication.
NothingDestroyed ==
  [][Service => \A r \in Roles, i \in Inodes :
       Linked(r, i) /\ (i # "copy" \/ data[r][i] = "edited") => Linked(r, i)']_vars

RecordedIn(i, intent, r) == intent \in rows[i].manifest.intents /\ r \in rows[i].manifest.files

\* docs/architecture.md: durable intent precedes destructive transitions.  At
\* every instant, so also at every crash, a file the service moved or published
\* is named by a manifest that is already in the journal.
IntentRecorded ==
  /\ TypeOK
  /\ \A r \in Roles :
       /\ Exists(r, "claim")    => \E i \in Rows : RecordedIn(i, "claim", r)
       /\ Exists(r, "stage")    => \E i \in Rows : "stage" \in rows[i].manifest.intents
       /\ fs[r][dest] = "copy"  => \E i \in Rows : /\ RecordedIn(i, "publish", r)
                                                   /\ r \in rows[i].manifest.prov

\* A failed, cancelled or recovered operation has left no trace in public: both
\* files are back under their own names, byte for byte, no output of it is
\* visible and no stage is left.  Names the user changed are not promised, nor that
\* an output is gone whose withdrawal was taken back because its verification raised:
\* the next recovery takes the quarantined name for the output.
Undone(r) == /\ r \in original => Verify(r, "source", "original")
             /\ fs[r][dest] # "copy" \/ r \in relinked
             /\ ~Exists(r, "stage")

HonestFailure ==
  rows[1].state \in {"failed", "cancelled"} \/ rows[1].resolved =>
    \A r \in Roles \ touched : Undone(r)

\* A completed operation is complete for the whole set: every output is
\* published, every original it took is retained in its claim, none is left at
\* its old name, and a copy has left the originals alone.
Done(r) ==
  LET m == rows[1].manifest IN
  /\ kind \in Publishing /\ r \in m.files \ m.excluded => Verify(r, dest, "copy")
  /\ kind # "copy" /\ r \in original =>
       Verify(r, "claim", "original") /\ fs[r]["source"] # "original"
  /\ kind = "copy" /\ r \in original => Verify(r, "source", "original")
  /\ rows[1].state = "completed" => ~Exists(r, "stage")

HonestCompletion ==
  rows[1].state \in Completed => \A r \in Roles \ touched : Done(r)

\* A recovery that meets no failing call and no user change resolves its row,
\* however often earlier recoveries of the same operation were interrupted, unless it
\* is cancelled before it has begun.  Not promised to trash, which the engine leaves
\* to review, and to metadata: its generated sidecar is staged before the journal can
\* name it, and its outputs, published at the names of the originals, are in the way
\* of the claims until their quarantine is recorded and emptied.
RecoveryConverges ==
  pc = "finish" /\ rows[cur].target # 0 /\ faults = 0 /\ touched = {}
  /\ kind \notin {"trash", "metadata"} => outcome # "failed"
=============================================================================
