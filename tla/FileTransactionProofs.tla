------------------------ MODULE FileTransactionProofs ------------------------
(***************************************************************************)
(* What one file transaction promises in every state that failing calls,   *)
(* crashes, repeated recoveries and a user editing the same names can      *)
(* leave, for every subset of the request kinds and every bound.           *)
(***************************************************************************)
EXTENDS FileTransaction, TLAPS

Early     == {"plan", "stage", "copy_stage", "annotate", "record", "attributes", "claims",
              "claim_check", "claim_rename", "checkpoint", "publish"}
FirstRun  == Early \cup {"link", "check_output", "trash", "trash_call", "trashed"}
Unclaimed == {"plan", "stage", "copy_stage", "annotate", "record", "attributes", "claims"}

\* The copy of a role has been at a name the user or a rollback can reach.
Out(r) == data[r]["copy"] = "edited" \/ \E l \in Names \ {"stage"} : fs[r][l] = "copy"

\* The planned set of the first run: it has the image, the image has an output.
PlanOK ==
  /\ pc \in FirstRun => cur = 1 /\ "image" \in original /\ \A i \in Rows \ {1} : rows[i].manifest = NoManifest
  /\ pc = "plan" => mem = NoManifest
  /\ pc \in FirstRun \ {"plan"} => "image" \in mem.files \ (mem.excluded \cup mem.generated)
  /\ pc \in {"copy_stage", "annotate"} => "stage" \in rows[1].manifest.intents
  /\ pc = "copy_stage" => todo \subseteq Kept /\ Kept \ todo \subseteq mem.prov
  /\ pc \in {"annotate", "record"} => Kept \subseteq mem.prov
  /\ pc \in {"attributes", "claims", "claim_check", "claim_rename", "checkpoint", "publish", "link"}
       => kind = "undo_copy" \/ Kept \subseteq mem.prov
  /\ pc \in {"checkpoint", "publish", "link", "check_output"} => kind # "undo_copy"
  /\ pc \in {"publish", "link", "check_output"} => kind # "trash"
  /\ pc \in {"trash", "trash_call", "trashed"} => kind = "trash"
  /\ pc \in {"claim_check", "claim_rename"} => /\ todo # {} /\ todo \subseteq mem.files
                                               /\ "claim" \in rows[1].manifest.intents
                                               /\ mem.files \subseteq rows[1].manifest.files
  /\ pc = "link" => todo # {} /\ todo \subseteq Kept /\ rows[1].manifest = mem /\ "publish" \in mem.intents

\* What is saved only grows, and is what the thread goes on from.
SavedOK ==
  /\ rows[1].state # "none"
  /\ cur = 1 /\ pc \notin {"idle", "down", "recover"} =>
       /\ rows[1].manifest.intents \subseteq mem.intents
       /\ rows[1].manifest.files \subseteq mem.files
       /\ rows[1].manifest.prov \subseteq mem.prov
  /\ mem.prov \subseteq mem.files
  /\ pc = "recover" => cur # 1 /\ rows[cur].target \in Rows
  /\ pc \in {"cleanup", "rb_clean"} => todo \subseteq mem.files
  /\ \A i \in Rows : rows[i].manifest.prov \subseteq rows[i].manifest.files

\* What lies at the private names, and when.
NamesOK ==
  /\ \A r \in Roles :
       /\ fs[r]["stage"] \in {"none", "copy"}
       /\ pc \in Unclaimed \/ (pc \in {"claim_check", "claim_rename"} /\ r \in todo) => ~Exists(r, "claim")
       /\ pc \in Early \/ kind = "trash" => ~Out(r)
  /\ pc = "rb_rename" => ~Exists(Last(todo), "quarantine")

\* The manifests know every file that was moved.
KnownOK ==
  \A r \in Roles :
    /\ Exists(r, "claim") => RecordedIn(1, "claim", r)
    /\ Exists(r, "stage") => "stage" \in rows[1].manifest.intents
    /\ Out(r) => /\ RecordedIn(1, "publish", r)
                 /\ mem.files # {} => r \in mem.prov
                 /\ \A i \in Rows : rows[i].manifest.files # {} => r \in rows[i].manifest.prov

TInv == TypeOK /\ PlanOK /\ SavedOK /\ NamesOK /\ KnownOK
-----------------------------------------------------------------------------
(* The primitives, name by name.                                            *)

FsType   == [Roles -> [Names -> Inodes \cup {"none"}]]
DataType == [Roles -> [Inodes -> {"good", "partial", "edited"}]]

\* rename, link and unlink change the names they are given and no other.
LEMMA Primitives ==
  ASSUME fs \in FsType, NEW r \in Roles, NEW a \in Names, NEW b \in Names, a # b
  PROVE  /\ Unlink(r, a) \in FsType /\ Rename(r, a, b) \in FsType /\ Link(r, a, b) \in FsType
         /\ \A k \in Roles, l \in Names :
              /\ Unlink(r, a)[k][l] = IF k = r /\ l = a THEN "none" ELSE fs[k][l]
              /\ Rename(r, a, b)[k][l] = IF k = r /\ l = a THEN "none"
                                         ELSE IF k = r /\ l = b THEN fs[r][a] ELSE fs[k][l]
              /\ Link(r, a, b)[k][l] = IF k = r /\ l = b THEN fs[r][a] ELSE fs[k][l]
BY DEF FsType, Unlink, Rename, Link

\* A name is set, or the copy of a role changes.
LEMMA Updates ==
  ASSUME fs \in FsType, data \in DataType, NEW r \in Roles, NEW a \in Names,
         NEW i \in Inodes \cup {"none"}, NEW j \in Inodes, NEW d \in {"good", "partial", "edited"}
  PROVE  /\ [fs EXCEPT ![r][a] = i] \in FsType /\ [data EXCEPT ![r][j] = d] \in DataType
         /\ \A k \in Roles, l \in Names :
              [fs EXCEPT ![r][a] = i][k][l] = IF k = r /\ l = a THEN i ELSE fs[k][l]
         /\ \A k \in Roles, l \in Inodes :
              [data EXCEPT ![r][j] = d][k][l] = IF k = r /\ l = j THEN d ELSE data[k][l]
BY DEF FsType, DataType

\* A manifest is saved in the row being executed, and nothing else of the journal changes.
Saves == rows' = rows \/ rows' = [rows EXCEPT ![cur].manifest = mem']

\* Such a save keeps the journal a journal.
LEMMA SavesRow ==
  ASSUME TypeOK, mem' \in Manifest, Saves
  PROVE  /\ rows' \in [Rows -> Row]
         /\ \A i \in Rows : /\ rows'[i].state = rows[i].state /\ rows'[i].target = rows[i].target
                            /\ \/ rows'[i].manifest = rows[i].manifest
                               \/ i = cur /\ rows'[i].manifest = mem'
<1>1. rows \in [Rows -> Row] /\ cur \in Rows
  BY DEF TypeOK
<1>2. CASE rows' = rows
  BY <1>1, <1>2
<1>3. CASE rows' = [rows EXCEPT ![cur].manifest = mem']
  <2>1. [rows[cur] EXCEPT !.manifest = mem'] \in Row
    BY <1>1 DEF Row
  <2> QED BY <1>1, <1>3, <2>1 DEF Row
<1> QED BY <1>2, <1>3 DEF Saves

\* The counters stay within their bounds, whether the step met a fault or not.
LEMMA FaultType == ASSUME TypeOK, Fault \/ NoFault PROVE faults' \in 0 .. MaxFaults
BY BoundsAssumption DEF TypeOK, Fault, NoFault

\* A role taken from a set of roles is a role.
LEMMA FirstLast == \A S \in SUBSET Roles : /\ First(S) \in Roles /\ Last(S) \in Roles
                                           /\ S # {} => First(S) \in S /\ Last(S) \in S
BY DEF First, Last, Roles

\* What the last step of unlink_owned can leave: the quarantine gone, both names as
\* they were, or the quarantined file back at its public name as well.
LEMMA Unlinked ==
  ASSUME TypeOK, QuarantineUnlink
  PROVE  /\ pc = "rb_unlink" /\ pc' = "rb_claim" /\ UNCHANGED <<todo, outcome>>
         /\ UNCHANGED <<data, rows, cur, mem, crashes, edits, touched, kind, original>>
         /\ Fault \/ NoFault
         /\ errors' \in BOOLEAN /\ (errors => errors')
         /\ \/ /\ fs' = Unlink(Last(todo), "quarantine") /\ Verify(Last(todo), "quarantine", "copy")
               /\ relinked' = relinked
            \/ /\ errors' = TRUE /\ fs' = fs /\ relinked' = relinked
            \/ /\ errors' = TRUE /\ ~Exists(Last(todo), dest)
               /\ fs' = Link(Last(todo), "quarantine", dest) /\ relinked' = relinked \cup {Last(todo)}
         /\ faults' = 0 /\ Verify(Last(todo), "quarantine", "copy") =>
               errors' = errors /\ fs' = Unlink(Last(todo), "quarantine")
<1> DEFINE r == Last(todo)
           owned == Verify(r, "quarantine", "copy")
<1>1. /\ pc = "rb_unlink" /\ pc' = "rb_claim" /\ UNCHANGED <<todo, outcome>>
      /\ UNCHANGED <<data, rows, cur, mem, crashes, edits, touched, kind, original>>
  BY DEF QuarantineUnlink, Goto, request
<1>2. Fault => faults' # 0
  BY DEF Fault, TypeOK
<1>3. \/ owned /\ NoFault /\ fs' = Unlink(r, "quarantine") /\ UNCHANGED <<errors, relinked>>
      \/ (IF owned THEN Fault ELSE NoFault) /\ GiveBack(r) /\ errors' = TRUE
      \/ /\ Fault /\ fs' \in {fs} \cup (IF owned THEN {Unlink(r, "quarantine")} ELSE {})
         /\ errors' = TRUE /\ UNCHANGED relinked
  BY DEF QuarantineUnlink
<1>4. errors \in BOOLEAN
  BY DEF TypeOK
<1>5. CASE owned /\ NoFault /\ fs' = Unlink(r, "quarantine") /\ UNCHANGED <<errors, relinked>>
  BY <1>1, <1>4, <1>5
<1>6. CASE (IF owned THEN Fault ELSE NoFault) /\ GiveBack(r) /\ errors' = TRUE
  BY <1>1, <1>2, <1>6 DEF GiveBack
<1>7. CASE /\ Fault /\ fs' \in {fs} \cup (IF owned THEN {Unlink(r, "quarantine")} ELSE {})
           /\ errors' = TRUE /\ UNCHANGED relinked
  BY <1>1, <1>2, <1>7
<1> QED BY <1>3, <1>5, <1>6, <1>7

\* What no step of a rollback changes, and who alone gives a file back.
LEMMA RollbackKeeps ==
  ASSUME TypeOK, Rollback
  PROVE  /\ UNCHANGED <<kind, original, data, cur, touched, crashes, edits>>
         /\ QuarantineUnlink \/ UNCHANGED relinked
         /\ ~WithdrawOutput => UNCHANGED mem
         /\ pc \in {"rollback", "rb_dest", "rb_verify", "rb_rename", "rb_unlink", "rb_claim", "rb_clean", "rb_end"}
<1>1. CASE QuarantineUnlink
  BY <1>1, Unlinked
<1>2. CASE RollbackCheck \/ WithdrawOutput \/ QuarantineCheck
  BY <1>2 DEF RollbackCheck, WithdrawOutput, QuarantineCheck, store, world
<1>3. CASE QuarantineRename \/ RestoreClaim \/ RollbackEnd
  BY <1>3 DEF QuarantineRename, RestoreClaim, RollbackEnd, store, world
<1> QED BY <1>1, <1>2, <1>3 DEF Rollback

\* The same of the steps that end an operation; what was given back stays on record.
LEMMA RestKeeps ==
  ASSUME TypeOK, Succeed \/ Rollback
  PROVE  /\ UNCHANGED <<kind, original, data, cur, touched, crashes, edits>>
         /\ QuarantineUnlink \/ UNCHANGED relinked
         /\ relinked \subseteq relinked'
<1>1. CASE Succeed
  BY <1>1 DEF Succeed, Commit, CleanStage, Cleaned, Finish, store, world
<1>2. QuarantineUnlink => relinked \subseteq relinked'
  BY Unlinked
<1> QED BY <1>1, <1>2, RollbackKeeps

\* Every step up to the end of the publication keeps the types.
LEMMA PerformType ==
  ASSUME TInv, Perform
  PROVE  TypeOK'
<1>1. TypeOK
  BY DEF TInv
<1>2. fs \in FsType /\ data \in DataType /\ First(todo) \in Roles /\ dest \in Names /\ dest # "stage"
  BY <1>1, FirstLast DEF TypeOK, FsType, DataType, dest, DestOf, Names
<1>3. CASE Plan
  <2>1. mem' \in Manifest
    <3>1. \A f \in SUBSET Roles, ex \in SUBSET Roles :
            /\ NoManifest \in Manifest /\ [NoManifest EXCEPT !.files = f] \in Manifest
            /\ [NoManifest EXCEPT !.files = f, !.excluded = ex] \in Manifest
      BY DEF NoManifest, Manifest
    <3>2. original \in SUBSET Roles /\ {} \in SUBSET Roles
      BY <1>1 DEF TypeOK
    <3>3. CASE \E ex \in SUBSET (IF kind = "undo_move" THEN original \cap {"sidecar"} ELSE {}) :
                 mem' = [NoManifest EXCEPT !.files = original, !.excluded = ex]
      <4>1. PICK ex \in SUBSET Roles : mem' = [NoManifest EXCEPT !.files = original, !.excluded = ex]
        BY <3>2, <3>3
      <4> QED BY <3>1, <3>2, <4>1
    <3>4. CASE \E f \in {{}, original} : mem' = [NoManifest EXCEPT !.files = f]
      BY <3>1, <3>2, <3>4
    <3>5. CASE mem' = NoManifest
      BY <3>1, <3>2, <3>5
    <3> QED BY <1>3, <3>3, <3>4, <3>5 DEF Plan
  <2> QED BY <1>1, <1>3, <2>1, FaultType DEF Plan, TypeOK, Goto, Raise, store, world
<1>4. CASE Stage
  BY <1>1, <1>4, FaultType, SavesRow DEF Stage, TypeOK, Goto, Raise, SaveThen, Declare, Manifest, store, world, Intents, Kept, Saves
<1>5. CASE CopyStage
  <2>1. fs' \in FsType /\ data' \in DataType
    <3>1. PICK r \in Roles : \/ fs' = [fs EXCEPT ![r]["stage"] = "copy"] /\ UNCHANGED data
                             \/ UNCHANGED store
                             \/ /\ fs' = [fs EXCEPT ![r]["stage"] = "copy"]
                                /\ data' = [data EXCEPT ![r]["copy"] = "partial"]
      BY <1>2, <1>5 DEF CopyStage
    <3>2. "stage" \in Names /\ "copy" \in Inodes
      BY DEF Names, Inodes
    <3>3. fs' \in FsType
      BY <1>2, <3>1, <3>2 DEF store, FsType
    <3>4. data' \in DataType
      BY <1>2, <3>1, <3>2 DEF store, DataType
    <3> QED BY <3>3, <3>4
  <2>2. mem' \in Manifest
    <3>1. PICK r \in Roles : mem' = mem \/ mem' = [mem EXCEPT !.prov = @ \cup {r}]
      BY <1>2, <1>5 DEF CopyStage
    <3>2. mem \in Manifest
      BY <1>1 DEF TypeOK
    <3> QED BY <3>1, <3>2 DEF Manifest
  <2> QED BY <1>1, <1>5, <2>1, <2>2, FaultType DEF CopyStage, TypeOK, Goto, Raise, AfterStaging, world, FsType, DataType
<1>6. CASE Annotate
  BY <1>1, <1>6, FaultType DEF Annotate, TypeOK, Goto, Raise, store, world, Roles, Names, Inodes
<1>7. CASE RecordAnnotation
  BY <1>1, <1>7, FaultType, SavesRow DEF RecordAnnotation, TypeOK, Goto, Raise, SaveThen, Manifest, store, world, Roles, Names, Inodes, Saves
<1>8. CASE PrepareAttributes
  BY <1>1, <1>8, FaultType, SavesRow DEF PrepareAttributes, TypeOK, Goto, Raise, SaveThen, store, world, Saves
<1>9. CASE Claims
  BY <1>1, <1>9, FaultType, SavesRow DEF Claims, TypeOK, Goto, Raise, SaveThen, Declare, Manifest, store, world, Intents, Saves
<1>10. CASE ClaimCheck
  BY <1>1, <1>10, FaultType DEF ClaimCheck, TypeOK, Goto, Raise, store, world
<1>11. CASE ClaimRename
  <2>1. fs' \in FsType
    BY <1>2, <1>11, Primitives DEF ClaimRename, Names
  <2>2. AfterClaims \in {"commit", "publish", "checkpoint"}
    BY DEF AfterClaims
  <2> QED BY <1>1, <1>11, <2>1, <2>2, FaultType DEF ClaimRename, TypeOK, Goto, Raise, world, FsType
<1>12. CASE Checkpoint
  BY <1>1, <1>12, FaultType DEF Checkpoint, TypeOK, Goto, Raise, store, world
<1>13. CASE Publish
  BY <1>1, <1>13, FaultType, SavesRow DEF Publish, TypeOK, Goto, Raise, SaveThen, Declare, Manifest, store, world, Intents, Kept, Saves
<1>14. CASE LinkOutput
  <2>1. fs' \in FsType
    BY <1>2, <1>14, Primitives, SMTT(20) DEF LinkOutput, Names
  <2> QED BY <1>1, <1>14, <2>1, FaultType DEF LinkOutput, TypeOK, Goto, Raise, world, FsType
<1>15. CASE CheckOutput
  BY <1>1, <1>15, FaultType DEF CheckOutput, TypeOK, Goto, Raise, store, world
<1>16. CASE Trash
  <2>1. mem' \in Manifest /\ Saves /\ (Fault \/ NoFault)
    BY <1>1, <1>16 DEF Trash, TypeOK, SaveThen, Declare, Manifest, Intents, Saves, NoFault
  <2>2. rows' \in [Rows -> Row]
    BY <1>1, <2>1, SavesRow
  <2> QED BY <1>1, <1>16, <2>1, <2>2, FaultType DEF Trash, TypeOK, Goto, Raise, SaveThen, store, world
<1>17. CASE TrashCall
  <2>1. fs' \in FsType
    BY <1>2, <1>17 DEF TrashCall, Names, FsType
  <2> QED BY <1>1, <1>17, <2>1, FaultType DEF TrashCall, TypeOK, Goto, Raise, world, FsType
<1>18. CASE Trashed
  BY <1>1, <1>18, FaultType, SavesRow DEF Trashed, TypeOK, Goto, Raise, SaveThen, store, world, Saves
<1> QED BY <1>3, <1>4, <1>5, <1>6, <1>7, <1>8, <1>9, <1>10, <1>11, <1>12, <1>13, <1>14, <1>15, <1>16,
           <1>17, <1>18 DEF Perform

\* A row stays a row when it is resolved.
LEMMA RowResolved ==
  ASSUME NEW f \in [Rows -> Row], NEW i \in Rows
  PROVE  [f EXCEPT ![i].resolved = TRUE] \in [Rows -> Row]
<1>1. f[i] \in Row
  OBVIOUS
<1>2. [f[i] EXCEPT !.resolved = TRUE] \in Row
  BY <1>1, Zenon DEF Row
<1> QED BY <1>2

\* So does the success half,
LEMMA SucceedType ==
  ASSUME TInv, Succeed
  PROVE  TypeOK'
<1>1. TypeOK
  BY DEF TInv
<1>2. fs \in FsType /\ data \in DataType /\ First(todo) \in Roles
  BY <1>1, FirstLast DEF TypeOK, FsType, DataType
<1>3. CASE Commit
  BY <1>1, <1>3, FaultType, SavesRow DEF Commit, TypeOK, Goto, Declare, Manifest, store, world, Intents, Saves
<1>4. CASE CleanStage
  <2>1. fs' \in FsType
    BY <1>2, <1>4, Primitives, SMTT(20) DEF CleanStage, Names
  <2> QED BY <1>1, <1>4, <2>1, FaultType DEF CleanStage, TypeOK, Goto, world, FsType
<1>5. CASE Cleaned
  BY <1>1, <1>5, FaultType DEF Cleaned, TypeOK, Goto, store, world, Leftovers
<1>6. CASE Finish
  <2>1. rows' \in [Rows -> Row]
    <3>1. Result \in Settled
      BY <1>1 DEF Result, TypeOK, Settled, Completed
    <3>2. PICK st \in Settled : st = Result
      BY <3>1
    <3>3. rows \in [Rows -> Row] /\ cur \in Rows /\ mem \in Manifest
      BY <1>1 DEF TypeOK
    <3> DEFINE done == [rows EXCEPT ![cur].state = st]
               saved == [done EXCEPT ![cur].manifest = mem]
               t == rows[cur].target
    <3>4. done \in [Rows -> Row]
      BY <3>3 DEF Row
    <3>5. t \in {0} \cup Rows
      BY <3>3 DEF Row
    <3>6. rows' \in {rows, done, saved} \/ (t # 0 /\ rows' = [saved EXCEPT ![t].resolved = TRUE])
      BY <1>6, <3>2 DEF Finish
    <3> HIDE DEF done, t
    <3>7. saved \in [Rows -> Row]
      BY <3>3, <3>4 DEF Row
    <3> HIDE DEF saved
    <3>8. t # 0 => [saved EXCEPT ![t].resolved = TRUE] \in [Rows -> Row]
      BY <3>5, <3>7, RowResolved
    <3> QED BY <3>3, <3>4, <3>6, <3>7, <3>8
  <2> QED BY <1>1, <1>6, <2>1, FaultType DEF Finish, TypeOK, store, world, NoManifest, Manifest
<1> QED BY <1>3, <1>4, <1>5, <1>6 DEF Succeed

\* so does rollback,
LEMMA RollbackType ==
  ASSUME TInv, Rollback
  PROVE  TypeOK'
<1>1. TypeOK
  BY DEF TInv
<1>2. fs \in FsType /\ data \in DataType /\ First(todo) \in Roles /\ Last(todo) \in Roles /\ dest \in {"source", "dest"}
  BY <1>1, FirstLast DEF TypeOK, FsType, DataType, dest, DestOf
<1>3. CASE RollbackCheck
  BY <1>1, <1>3, FaultType DEF RollbackCheck, TypeOK, Goto, store, world, Manifest
<1>4. CASE WithdrawOutput
  <2>1. mem' \in Manifest
    <3>1. PICK r \in Roles : mem' = mem \/ mem' = [mem EXCEPT !.quarantined = @ \cup {r}]
      BY <1>2, <1>4 DEF WithdrawOutput
    <3>2. mem \in Manifest
      BY <1>1 DEF TypeOK
    <3> QED BY <3>1, <3>2 DEF Manifest
  <2>2. Saves
    BY <1>4 DEF WithdrawOutput, Saves
  <2>3. rows' \in [Rows -> Row]
    BY <1>1, <2>1, <2>2, SavesRow
  <2> QED BY <1>1, <1>4, <2>1, <2>3, FaultType DEF WithdrawOutput, TypeOK, Goto, store, world
<1>5. CASE QuarantineCheck
  BY <1>1, <1>5, FaultType DEF QuarantineCheck, TypeOK, Goto, store, world
<1>6. CASE QuarantineRename
  <2>1. fs' \in FsType
    <3>1. fs' = fs \/ fs' = Rename(Last(todo), dest, "quarantine")
      BY <1>6 DEF QuarantineRename
    <3> QED BY <1>2, <3>1, Primitives DEF Names
  <2> QED BY <1>1, <1>6, <2>1, FaultType DEF QuarantineRename, TypeOK, Goto, world, FsType
<1>7. CASE QuarantineUnlink
  <2>1. fs' \in FsType
    <3>1. \/ fs' = fs \/ fs' = Unlink(Last(todo), "quarantine")
          \/ fs' = Link(Last(todo), "quarantine", dest)
      BY <1>1, <1>7, Unlinked
    <3> QED BY <1>2, <3>1, Primitives DEF Names
  <2>2. pc' = "rb_claim" /\ relinked' \subseteq Roles /\ errors' \in BOOLEAN /\ faults' \in 0 .. MaxFaults
    BY <1>1, <1>2, <1>7, Unlinked, FaultType DEF TypeOK
  <2> QED BY <1>1, <1>7, <2>1, <2>2, Unlinked DEF TypeOK, FsType
<1>8. CASE RestoreClaim
  <2>1. fs' \in FsType
    BY <1>2, <1>8, Primitives DEF RestoreClaim, Names
  <2> QED BY <1>1, <1>8, <2>1, FaultType DEF RestoreClaim, TypeOK, Goto, world, FsType, Manifest
<1>9. CASE RollbackEnd
  <2>1. Saves /\ mem' = mem
    BY <1>9 DEF RollbackEnd, Saves
  <2>2. rows' \in [Rows -> Row]
    BY <1>1, <2>1, SavesRow DEF TypeOK
  <2> QED BY <1>1, <1>9, <2>2, FaultType DEF RollbackEnd, TypeOK, Goto, Raise, store, world, Leftovers
<1> QED BY <1>3, <1>4, <1>5, <1>6, <1>7, <1>8, <1>9 DEF Rollback

\* and so do recovery requests, deaths, restarts and the user.
LEMMA OtherType ==
  ASSUME TInv, SubmitRecovery \/ Recover \/ ExecuteAgain \/ Crash \/ Restart \/ UserEdit
  PROVE  TypeOK'
<1>1. TypeOK
  BY DEF TInv
<1>2. fs \in FsType /\ data \in DataType /\ PublicNames \subseteq {"source", "dest"} /\ NoManifest \in Manifest
  BY <1>1 DEF TypeOK, FsType, DataType, PublicNames, dest, DestOf, NoManifest, Manifest
<1>3. CASE SubmitRecovery
  BY <1>1, <1>2, <1>3 DEF SubmitRecovery, TypeOK, Goto, store, world, Row
<1>4. CASE Recover
  <2>1. mem' \in Manifest
    BY <1>1, <1>4 DEF TInv, SavedOK, Recover, TypeOK, Row, SaveThen
  <2>2. Saves
    BY <1>4 DEF Recover, Saves, SaveThen
  <2>3. rows' \in [Rows -> Row]
    BY <1>1, <2>1, <2>2, SavesRow
  <2> QED BY <1>1, <1>4, <2>1, <2>3, FaultType DEF Recover, TypeOK, Goto, Raise, SaveThen, store, world
<1>5. CASE ExecuteAgain
  <2>1. rows' \in [Rows -> Row]
    BY <1>1, <1>5 DEF ExecuteAgain, TypeOK, Row, Settled
  <2> QED BY <1>1, <1>5, <2>1 DEF ExecuteAgain, TypeOK, store, world
<1>6. CASE Crash
  <2>1. crashes' \in 0 .. MaxCrashes
    BY <1>1, <1>6, BoundsAssumption DEF Crash, TypeOK
  <2> QED BY <1>1, <1>2, <1>6, <2>1 DEF Crash, TypeOK, store, request
<1>7. CASE Restart
  <2>1. rows' \in [Rows -> Row]
    <3>1. \A i \in Rows, st \in {"recovery_required", "cancelled"} : [rows[i] EXCEPT !.state = st] \in Row
      BY <1>1 DEF TypeOK, Row, Settled
    <3> QED BY <1>1, <1>7, <3>1 DEF Restart, TypeOK
  <2> QED BY <1>1, <1>7, <2>1 DEF Restart, TypeOK, Goto, store, world
<1>8. CASE UserEdit
  <2>1. edits' \in 0 .. MaxEdits
    BY <1>1, <1>8, BoundsAssumption DEF UserEdit, TypeOK
  <2>2. fs' \in FsType /\ data' \in DataType /\ touched' \subseteq Roles
    <3>1. PICK r \in Roles, l \in PublicNames :
            /\ touched' = touched \cup {r}
            /\ \/ fs' = [fs EXCEPT ![r][l] = Guest(l)] /\ UNCHANGED data
               \/ Exists(r, l) /\ fs' = Unlink(r, l) /\ UNCHANGED data
               \/ /\ Exists(r, l) /\ UNCHANGED fs
                  /\ data' = [data EXCEPT ![r][fs[r][l]] = "edited"]
      BY <1>8 DEF UserEdit
    <3>2. l \in Names /\ Guest(l) \in Inodes /\ (Exists(r, l) => fs[r][l] \in Inodes)
      BY <1>2 DEF Names, Guest, Inodes, FsType, Exists
    <3>3. CASE fs' = [fs EXCEPT ![r][l] = Guest(l)] /\ UNCHANGED data
      BY <1>1, <1>2, <3>1, <3>2, <3>3 DEF TypeOK, FsType
    <3>4. CASE fs' = Unlink(r, l) /\ UNCHANGED data
      BY <1>1, <1>2, <3>1, <3>2, <3>4 DEF TypeOK, FsType, Unlink
    <3>5. CASE Exists(r, l) /\ UNCHANGED fs /\ data' = [data EXCEPT ![r][fs[r][l]] = "edited"]
      BY <1>1, <1>2, <3>1, <3>2, <3>5 DEF TypeOK, DataType
    <3> QED BY <1>1, <3>1, <3>3, <3>4, <3>5 DEF TypeOK
  <2> QED BY <1>1, <1>8, <2>1, <2>2 DEF UserEdit, TypeOK, FsType, DataType, request
<1> QED BY <1>3, <1>4, <1>5, <1>6, <1>7, <1>8
-----------------------------------------------------------------------------
(* What most steps have in common: the manifest only grows, it is saved or  *)
(* not, and no file comes to a name it was not recorded for.                *)

Grows ==
  /\ mem.intents \subseteq mem'.intents /\ mem.files \subseteq mem'.files /\ mem.prov \subseteq mem'.prov
  /\ mem'.prov \subseteq mem'.files
  /\ mem.files # {} \/ mem'.files = {} \/ pc \in Early

FilesShrink ==
  \A r \in Roles : /\ Exists(r, "claim")' => Exists(r, "claim")
                   /\ Exists(r, "stage")' => fs'[r]["stage"] = fs[r]["stage"]
                   /\ Out(r)' => Out(r)

Running == pc \notin {"idle", "down", "recover"}

\* What is in the journal after such a step is what was there and what was added.
LEMMA GrowsSaved ==
  ASSUME TInv, mem' \in Manifest, Grows, Saves, Running
  PROVE  /\ rows'[1].state # "none"
         /\ \A i \in Rows : rows'[i].manifest.prov \subseteq rows'[i].manifest.files
         /\ cur = 1 => /\ rows'[1].manifest.intents \subseteq mem'.intents
                       /\ rows'[1].manifest.files \subseteq mem'.files
                       /\ rows'[1].manifest.prov \subseteq mem'.prov
         /\ rows[1].manifest.intents \subseteq rows'[1].manifest.intents
         /\ rows[1].manifest.files \subseteq rows'[1].manifest.files
         /\ \A r \in Roles : Out(r) => /\ mem'.files # {} => r \in mem'.prov
                                       /\ \A i \in Rows : rows'[i].manifest.files # {} => r \in rows'[i].manifest.prov
<1>1. TypeOK /\ SavedOK /\ KnownOK /\ NamesOK
  BY DEF TInv
<1>2. 1 \in Rows /\ cur \in Rows
  BY <1>1, BoundsAssumption DEF TypeOK, Rows
<1>3. \A i \in Rows : /\ rows'[i].state = rows[i].state
                      /\ \/ rows'[i].manifest = rows[i].manifest
                         \/ i = cur /\ rows'[i].manifest = mem'
  BY <1>1, SavesRow
<1>4. \A r \in Roles : Out(r) /\ mem'.files # {} => r \in mem'.prov
  BY <1>1 DEF Grows, KnownOK, NamesOK
<1>5. \A r \in Roles : Out(r) => \A i \in Rows : rows'[i].manifest.files # {} => r \in rows'[i].manifest.prov
  BY <1>1, <1>3, <1>4 DEF KnownOK
<1>6. \A i \in Rows : rows'[i].manifest.prov \subseteq rows'[i].manifest.files
  BY <1>1, <1>3 DEF Grows, SavedOK
<1>7. rows'[1].state # "none"
  BY <1>1, <1>2, <1>3 DEF SavedOK
<1>8. cur = 1 => /\ rows'[1].manifest.intents \subseteq mem'.intents
                 /\ rows'[1].manifest.files \subseteq mem'.files
                 /\ rows'[1].manifest.prov \subseteq mem'.prov
  BY <1>1, <1>2, <1>3 DEF Grows, SavedOK, Running
<1>9. /\ rows[1].manifest.intents \subseteq rows'[1].manifest.intents
      /\ rows[1].manifest.files \subseteq rows'[1].manifest.files
  BY <1>1, <1>2, <1>3 DEF Grows, SavedOK, Running
<1> QED BY <1>4, <1>5, <1>6, <1>7, <1>8, <1>9

\* A file comes to a private name only after the journal has recorded that it would.
FilesKnown ==
  \A r \in Roles : /\ Exists(r, "claim")' => Exists(r, "claim") \/ RecordedIn(1, "claim", r)
                   /\ Exists(r, "stage")' => \/ fs'[r]["stage"] = fs[r]["stage"]
                                             \/ fs'[r]["stage"] = "copy" /\ "stage" \in rows[1].manifest.intents
                   /\ Out(r)' => Out(r)

\* A step of that kind needs no more than its place in the run.
LEMMA StepKnown ==
  ASSUME TInv, TypeOK', PlanOK', Grows, Saves, Running, FilesKnown, UNCHANGED <<kind, cur>>,
         pc' \in Early => pc \in Early,
         pc' \in Unclaimed => \A r \in Roles : fs'[r]["claim"] = "none",
         pc' \in {"claim_check", "claim_rename"} => \A r \in todo' : fs'[r]["claim"] = "none",
         pc' # "recover",
         pc' \in {"cleanup", "rb_clean"} => todo' \subseteq mem'.files,
         pc' = "rb_rename" => fs'[Last(todo')]["quarantine"] = "none"
  PROVE  TInv'
<1>1. TypeOK /\ SavedOK /\ KnownOK /\ NamesOK /\ mem' \in Manifest
  BY DEF TInv, TypeOK
<1>2. 1 \in Rows
  BY BoundsAssumption DEF Rows
<1>3. SavedOK'
  BY <1>1, GrowsSaved DEF SavedOK, Grows
<1>4. KnownOK'
  BY <1>1, GrowsSaved DEF KnownOK, RecordedIn, FilesKnown, Exists
<1>5. NamesOK'
  BY <1>1 DEF NamesOK, FilesKnown, Exists
<1> QED BY <1>3, <1>4, <1>5 DEF TInv

\* A step that takes nothing to a private name is one.
LEMMA StepKept ==
  ASSUME TInv, TypeOK', PlanOK', Grows, Saves, Running, FilesShrink, UNCHANGED <<kind, cur>>,
         pc' \in Early => pc \in Early,
         pc' \in Unclaimed => pc \in Unclaimed,
         pc' \in {"claim_check", "claim_rename"} => \A r \in todo' : fs'[r]["claim"] = "none",
         pc' # "recover",
         pc' \in {"cleanup", "rb_clean"} => todo' \subseteq mem'.files,
         pc' = "rb_rename" => fs'[Last(todo')]["quarantine"] = "none"
  PROVE  TInv'
<1>1. FilesKnown
  BY DEF FilesShrink, FilesKnown
<1>2. pc' \in Unclaimed => \A r \in Roles : fs'[r]["claim"] = "none"
  BY DEF TInv, NamesOK, FilesShrink, Exists
<1> QED BY <1>1, <1>2, StepKnown

\* Outside the first run nothing is planned.
LEMMA Later == pc' \notin FirstRun => PlanOK' /\ pc' \notin Early /\ pc' \notin Unclaimed /\ pc' \notin {"claim_check", "claim_rename"}
BY DEF PlanOK, FirstRun, Early, Unclaimed

\* The primitives after which the private names hold no more than before.
LEMMA Shrinks ==
  ASSUME fs \in FsType, data \in DataType, NEW r \in Roles, UNCHANGED data,
         \/ UNCHANGED fs
         \/ \E a \in Names : fs' = Unlink(r, a)
         \/ \E a \in Names \ {"stage"}, b \in Names \ {"stage", "claim"} : a # b /\ fs' \in {Rename(r, a, b), Link(r, a, b)}
  PROVE  FilesShrink
<1>1. CASE UNCHANGED fs
  BY <1>1 DEF FilesShrink, Exists, Out
<1>2. ASSUME NEW a \in Names, fs' = Unlink(r, a) PROVE FilesShrink
  <2>1. \A k \in Roles, l \in Names : fs'[k][l] = "none" \/ fs'[k][l] = fs[k][l]
    BY <1>2 DEF FsType, Unlink
  <2> QED BY <2>1 DEF FilesShrink, Exists, Out, Names
<1>3. ASSUME NEW a \in Names \ {"stage"}, NEW b \in Names \ {"stage", "claim"}, a # b,
             fs' \in {Rename(r, a, b), Link(r, a, b)}
      PROVE  FilesShrink
  <2>1. \A k \in Roles, l \in Names : \/ fs'[k][l] = "none"
                                      \/ fs'[k][l] = fs[k][l]
                                      \/ k = r /\ l = b /\ fs'[k][l] = fs[r][a]
    BY <1>3, Primitives
  <2> QED BY <1>3, <2>1 DEF FilesShrink, Exists, Out, Names
<1> QED BY <1>1, <1>2, <1>3
-----------------------------------------------------------------------------
(* Rollback and the success half.                                           *)

\* Rolling back and cleaning up take nothing to a private name.
LEMMA RestShrinks ==
  ASSUME TypeOK, Succeed \/ Rollback
  PROVE  FilesShrink /\ UNCHANGED data
<1>1. /\ fs \in FsType /\ data \in DataType /\ First(todo) \in Roles /\ Last(todo) \in Roles
      /\ dest \in Names \ {"stage", "claim"} /\ "quarantine" \in Names \ {"stage", "claim"} /\ dest # "quarantine"
      /\ "claim" \in Names \ {"stage"} /\ "source" \in Names \ {"stage", "claim"} /\ "stage" \in Names
  BY FirstLast DEF TypeOK, FsType, DataType, dest, DestOf, Names
<1>2. UNCHANGED data
  BY DEF Succeed, Commit, CleanStage, Cleaned, Finish, Rollback, RollbackCheck, WithdrawOutput, QuarantineCheck,
         QuarantineRename, QuarantineUnlink, RestoreClaim, RollbackEnd, store
<1>3. CASE UNCHANGED fs
  BY <1>1, <1>2, <1>3, Shrinks
<1>4. CASE CleanStage
  <2>1. UNCHANGED fs \/ fs' = Unlink(First(todo), "stage")
    BY <1>4 DEF CleanStage
  <2> QED BY <1>1, <1>2, <2>1, Shrinks
<1>5. CASE QuarantineRename
  BY <1>1, <1>2, <1>5, Shrinks DEF QuarantineRename
<1>6. CASE QuarantineUnlink
  BY <1>1, <1>2, <1>6, Unlinked, Shrinks
<1>7. CASE RestoreClaim
  <2>1. UNCHANGED fs \/ fs' = Link(Last(todo), "claim", "source")
    BY <1>7 DEF RestoreClaim
  <2> QED BY <1>1, <1>2, <2>1, Shrinks
<1> QED BY <1>3, <1>4, <1>5, <1>6, <1>7
     DEF Succeed, Commit, Cleaned, Finish, Rollback, RollbackCheck, WithdrawOutput, QuarantineCheck, RollbackEnd, store

\* Rollback only gives back.
LEMMA RollbackStep ==
  ASSUME TInv, Rollback
  PROVE  TInv'
<1>1. TypeOK /\ SavedOK /\ KnownOK /\ NamesOK /\ TypeOK'
  BY RollbackType DEF TInv
<1>2. /\ fs \in FsType /\ data \in DataType /\ Last(todo) \in Roles /\ dest \in {"source", "dest"}
      /\ dest \in Names \ {"stage", "claim"} /\ "quarantine" \in Names \ {"stage", "claim"}
      /\ "claim" \in Names \ {"stage"} /\ "source" \in Names \ {"stage", "claim"} /\ dest # "quarantine"
  BY <1>1, FirstLast DEF TypeOK, FsType, DataType, dest, DestOf, Names
<1>3. UNCHANGED <<kind, cur>> /\ Running
  BY <1>1, RollbackKeeps DEF Running
<1>4. FilesShrink
  BY <1>1, RestShrinks
<1>5. Grows
  <2>1. CASE UNCHANGED mem
    BY <1>1, <2>1 DEF Grows, SavedOK
  <2>2. CASE mem' = [mem EXCEPT !.quarantined = @ \cup {Last(todo)}]
    <3>1. mem \in Manifest
      BY <1>1 DEF TypeOK
    <3>2. /\ mem'.intents = mem.intents /\ mem'.files = mem.files /\ mem'.prov = mem.prov
      BY <2>2, <3>1 DEF Manifest
    <3> QED BY <1>1, <3>2 DEF Grows, SavedOK
  <2> QED BY <2>1, <2>2 DEF Rollback, RollbackCheck, WithdrawOutput, QuarantineCheck, QuarantineRename,
             QuarantineUnlink, RestoreClaim, RollbackEnd
<1>6. Saves
  BY DEF Rollback, RollbackCheck, WithdrawOutput, QuarantineCheck, QuarantineRename,
         QuarantineUnlink, RestoreClaim, RollbackEnd, Saves
<1>7. /\ pc' \notin FirstRun /\ pc' # "recover"
      /\ pc' \in {"cleanup", "rb_clean"} => todo' \subseteq mem'.files
      /\ pc' = "rb_rename" => fs'[Last(todo')]["quarantine"] = "none"
  <2>1. CASE RollbackCheck
    BY <2>1 DEF RollbackCheck, Goto, FirstRun, Early
  <2>2. CASE WithdrawOutput
    BY <2>2 DEF WithdrawOutput, Goto, FirstRun, Early
  <2>3. CASE QuarantineCheck
    BY <2>3 DEF QuarantineCheck, Goto, FirstRun, Early, store, Exists
  <2>4. CASE QuarantineRename
    BY <2>4 DEF QuarantineRename, Goto, FirstRun, Early
  <2>5. CASE QuarantineUnlink
    BY <1>1, <2>5, Unlinked DEF FirstRun, Early
  <2>6. CASE RestoreClaim
    BY <2>6 DEF RestoreClaim, Goto, FirstRun, Early
  <2>7. CASE RollbackEnd
    BY <2>7 DEF RollbackEnd, Goto, Raise, FirstRun, Early
  <2> QED BY <2>1, <2>2, <2>3, <2>4, <2>5, <2>6, <2>7 DEF Rollback
<1> QED BY <1>1, <1>3, <1>4, <1>5, <1>6, <1>7, Later, StepKept

\* What finish_result leaves in the journal: the settled row with the manifest in
\* hand, and the target it has resolved.
FinishedRows ==
  /\ \A i \in Rows : rows'[i].state = IF i = cur THEN Result ELSE rows[i].state
  /\ \A i \in Rows : rows'[i].target = rows[i].target
  /\ \A i \in Rows : rows'[i].manifest = IF i = cur /\ outcome = "none" THEN mem ELSE rows[i].manifest
  /\ \A i \in Rows : rows'[i].resolved <=> rows[i].resolved \/ (outcome = "none" /\ i = rows[cur].target)

\* The transaction is exactly that, or it raised and changed nothing.
LEMMA FinishRows ==
  ASSUME TypeOK, Finish
  PROVE  /\ Result \in Settled
         /\ UNCHANGED rows \/ FinishedRows
<1>1. rows \in [Rows -> Row] /\ cur \in Rows /\ mem \in Manifest
  BY DEF TypeOK
<1>2. Result \in Settled
  BY DEF Result, TypeOK, Settled, Completed
<1>3. PICK st \in Settled : st = Result
  BY <1>2
<1>4. PICK t \in {0} \cup Rows : t = rows[cur].target
  BY <1>1 DEF Row
<1>5. PICK done \in [Rows -> Row] : done = [rows EXCEPT ![cur].state = st]
  <2>1. [rows EXCEPT ![cur].state = st] \in [Rows -> Row]
    BY <1>1 DEF Row
  <2> QED BY <2>1
<1>6. /\ done[cur].state = st /\ \A i \in Rows \ {cur} : done[i].state = rows[i].state
      /\ \A i \in Rows : done[i].target = rows[i].target /\ done[i].manifest = rows[i].manifest
                         /\ done[i].resolved = rows[i].resolved
  BY <1>1, <1>5 DEF Row
<1>7. PICK saved \in [Rows -> Row] : saved = [done EXCEPT ![cur].manifest = mem]
  <2>1. [done EXCEPT ![cur].manifest = mem] \in [Rows -> Row]
    BY <1>1 DEF Row
  <2> QED BY <2>1
<1>8. /\ saved[cur].manifest = mem /\ \A i \in Rows \ {cur} : saved[i].manifest = done[i].manifest
      /\ \A i \in Rows : saved[i].target = done[i].target /\ saved[i].state = done[i].state
                         /\ saved[i].resolved = done[i].resolved
  BY <1>1, <1>7 DEF Row
<1>9. \/ UNCHANGED rows
      \/ outcome # "none" /\ rows' = done
      \/ outcome = "none" /\ t = 0 /\ rows' = saved
      \/ outcome = "none" /\ t # 0 /\ rows' = [saved EXCEPT ![t].resolved = TRUE]
  BY <1>3, <1>4, <1>5, <1>7 DEF Finish
<1>10. ASSUME outcome # "none", rows' = done PROVE FinishedRows
  BY <1>1, <1>3, <1>6, <1>10 DEF FinishedRows
<1>11. ASSUME outcome = "none", t = 0, rows' = saved PROVE FinishedRows
  BY <1>1, <1>3, <1>4, <1>6, <1>8, <1>11 DEF FinishedRows, Rows
<1>12. ASSUME outcome = "none", t # 0, rows' = [saved EXCEPT ![t].resolved = TRUE] PROVE FinishedRows
  <2>1. t \in Rows /\ saved[t] \in Row /\ rows' = [saved EXCEPT ![t] = [saved[t] EXCEPT !.resolved = TRUE]]
    BY <1>12
  <2>2. /\ [saved[t] EXCEPT !.resolved = TRUE].target = saved[t].target
        /\ [saved[t] EXCEPT !.resolved = TRUE].state = saved[t].state
        /\ [saved[t] EXCEPT !.resolved = TRUE].manifest = saved[t].manifest
        /\ [saved[t] EXCEPT !.resolved = TRUE].resolved = TRUE
    BY <2>1 DEF Row
  <2>3. /\ \A i \in Rows : rows'[i].target = saved[i].target /\ rows'[i].state = saved[i].state
                           /\ rows'[i].manifest = saved[i].manifest
        /\ rows'[t].resolved = TRUE /\ \A i \in Rows \ {t} : rows'[i].resolved = saved[i].resolved
    BY <2>1, <2>2
  <2> QED BY <1>1, <1>3, <1>4, <1>6, <1>8, <1>12, <2>1, <2>3 DEF FinishedRows
<1> QED BY <1>2, <1>9, <1>10, <1>11, <1>12

\* The success half removes stages and settles the row with the manifest in hand.
LEMMA SucceedStep ==
  ASSUME TInv, Succeed
  PROVE  TInv'
<1>1. TypeOK /\ SavedOK /\ KnownOK /\ NamesOK /\ TypeOK'
  BY SucceedType DEF TInv
<1>2. fs \in FsType /\ data \in DataType /\ First(todo) \in Roles /\ "stage" \in Names
  BY <1>1, FirstLast DEF TypeOK, FsType, DataType, Names
<1>3. CASE Commit
  <2>1. UNCHANGED store /\ Saves /\ UNCHANGED <<kind, cur>> /\ Running
    BY <1>3 DEF Commit, world, Saves, Running
  <2>2. Grows
    <3>1. mem \in Manifest
      BY <1>1 DEF TypeOK
    <3>2. mem' = Declare("commit")
      BY <1>3 DEF Commit
    <3>3. mem'.intents = mem.intents \cup {"commit"} /\ mem'.files = mem.files /\ mem'.prov = mem.prov
      BY <3>1, <3>2 DEF Declare, Manifest
    <3> QED BY <1>1, <3>3 DEF Grows, SavedOK
  <2>3. FilesShrink
    BY <1>1, RestShrinks
  <2>4. mem'.files = mem.files
    BY <1>1, <1>3 DEF Commit, Declare, TypeOK, Manifest
  <2>5. pc' \notin FirstRun /\ pc' \notin {"recover", "rb_rename"} /\ (pc' \in {"cleanup", "rb_clean"} => todo' \subseteq mem'.files)
    BY <1>3, <2>4 DEF Commit, Goto, FirstRun, Early
  <2> QED BY <1>1, <2>1, <2>2, <2>3, <2>5, Later, StepKept
<1>4. CASE CleanStage \/ Cleaned
  <2>1. UNCHANGED <<rows, mem, kind, cur>> /\ Running
    BY <1>4 DEF CleanStage, Cleaned, world, Running
  <2>2. Grows /\ Saves
    BY <1>1, <2>1 DEF Grows, SavedOK, Saves
  <2>3. FilesShrink
    BY <1>1, RestShrinks
  <2>4. pc' \notin FirstRun /\ pc' \notin {"recover", "rb_rename"} /\ (pc' \in {"cleanup", "rb_clean"} => todo' \subseteq mem'.files)
    BY <1>1, <1>4 DEF CleanStage, Cleaned, Goto, FirstRun, Early, SavedOK
  <2> QED BY <1>1, <2>1, <2>2, <2>3, <2>4, Later, StepKept
<1>5. CASE Finish
  <2>1. /\ pc' = "idle" /\ mem' = NoManifest /\ UNCHANGED <<store, kind, cur>> /\ pc = "finish"
    BY <1>5 DEF Finish, world
  <2>2. Result # "none"
    BY <1>1 DEF Result, TypeOK
  <2>3. \A i \in Rows : /\ rows'[i].state \in {rows[i].state, Result}
                        /\ rows'[i].manifest = rows[i].manifest \/ (i = cur /\ rows'[i].manifest = mem)
    BY <1>1, <1>5, FinishRows DEF FinishedRows
  <2>4. 1 \in Rows
    BY BoundsAssumption DEF Rows
  <2>5. SavedOK'
    BY <1>1, <2>1, <2>2, <2>3, <2>4 DEF SavedOK, NoManifest
  <2>6. NamesOK'
    BY <1>1, <2>1 DEF NamesOK, store, Exists, Out, Early, Unclaimed
  <2>7. KnownOK'
    <3>1. \A r \in Roles, n \in Intents : RecordedIn(1, n, r) => RecordedIn(1, n, r)'
      BY <1>1, <2>1, <2>3, <2>4 DEF RecordedIn, SavedOK
    <3>2. "stage" \in rows[1].manifest.intents => "stage" \in rows'[1].manifest.intents
      BY <1>1, <2>1, <2>3, <2>4 DEF SavedOK
    <3>3. \A r \in Roles : /\ Exists(r, "claim")' = Exists(r, "claim") /\ Exists(r, "stage")' = Exists(r, "stage")
                           /\ Out(r)' = Out(r)
      BY <2>1 DEF store, Exists, Out
    <3>4. "claim" \in Intents /\ "publish" \in Intents
      BY DEF Intents
    <3> QED BY <1>1, <2>1, <2>3, <3>1, <3>2, <3>3, <3>4 DEF KnownOK, NoManifest
  <2> QED BY <1>1, <2>1, <2>5, <2>6, <2>7, Later DEF TInv, FirstRun, Early
<1> QED BY <1>3, <1>4, <1>5 DEF Succeed
-----------------------------------------------------------------------------
(* Recovery requests, deaths, restarts, and the user.                       *)

\* No step of these starts a first run, and the files stay.
LEMMA JournalStep ==
  ASSUME TInv, TypeOK', UNCHANGED <<store, kind>>, pc' \in {"idle", "down", "recover", "rollback"},
         pc' = "recover" => cur' # 1 /\ rows'[cur'].target \in Rows,
         \A i \in Rows : /\ rows'[i].state # "none" \/ rows[i].state = "none"
                         /\ \/ rows'[i].manifest = rows[i].manifest
                            \/ i # 1 /\ rows'[i].manifest = mem',
         \/ UNCHANGED mem
         \/ mem' = NoManifest
         \/ \E t \in Rows : mem' = rows[t].manifest,
         pc' = "rollback" => cur' # 1
  PROVE  TInv'
<1>1. TypeOK /\ SavedOK /\ KnownOK /\ NamesOK
  BY DEF TInv
<1>2. 1 \in Rows
  BY BoundsAssumption DEF Rows
<1>3. mem'.prov \subseteq mem'.files
  BY <1>1 DEF SavedOK, NoManifest
<1>4. SavedOK'
  BY <1>1, <1>2, <1>3 DEF SavedOK
<1>5. NamesOK'
  BY <1>1 DEF NamesOK, store, Exists, Out, Early, Unclaimed
<1>6. \A r \in Roles : Out(r) /\ mem'.files # {} => r \in mem'.prov
  BY <1>1 DEF KnownOK, NoManifest
<1>7. rows'[1].manifest = rows[1].manifest
  BY <1>2
<1>8. KnownOK'
  BY <1>1, <1>6, <1>7 DEF KnownOK, RecordedIn, store, Exists, Out
<1> QED BY <1>4, <1>5, <1>8, Later DEF TInv, FirstRun, Early

\* The user changes one public name, or the bytes of what it leads to.
LEMMA EditEffect ==
  ASSUME TypeOK, UserEdit
  PROVE  /\ UNCHANGED <<rows, cur, mem, pc, todo, outcome, errors, faults, kind, original>> /\ touched \subseteq touched'
         /\ \E r \in touched', l \in {"source", "dest"} :
              /\ \A k \in Roles, n \in Names : \/ fs'[k][n] = fs[k][n]
                                               \/ k = r /\ n = l /\ fs'[k][n] \in {Guest(l), "none"}
              /\ \A k \in Roles, i \in Inodes : \/ data'[k][i] = data[k][i]
                                                \/ k = r /\ i = fs[r][l] /\ data'[k][i] = "edited"
<1>1. fs \in FsType /\ data \in DataType
  BY DEF TypeOK, FsType, DataType
<1>2. UNCHANGED <<rows, cur, mem, pc, todo, outcome, errors, faults, kind, original>>
  BY DEF UserEdit, request
<1>3. PICK r \in Roles, l \in {"source", "dest"} :
        /\ touched' = touched \cup {r}
        /\ \/ fs' = [fs EXCEPT ![r][l] = Guest(l)] /\ UNCHANGED data
           \/ fs' = Unlink(r, l) /\ UNCHANGED data
           \/ UNCHANGED fs /\ Exists(r, l) /\ data' = [data EXCEPT ![r][fs[r][l]] = "edited"]
  BY DEF UserEdit, PublicNames, dest, DestOf
<1>4. l \in Names /\ (Exists(r, l) => fs[r][l] \in Inodes)
  BY <1>1 DEF Names, FsType, Exists
<1>5. /\ \A k \in Roles, n \in Names : \/ fs'[k][n] = fs[k][n]
                                       \/ k = r /\ n = l /\ fs'[k][n] \in {Guest(l), "none"}
      /\ \A k \in Roles, i \in Inodes : \/ data'[k][i] = data[k][i]
                                        \/ k = r /\ i = fs[r][l] /\ data'[k][i] = "edited"
  <2>1. CASE fs' = [fs EXCEPT ![r][l] = Guest(l)] /\ UNCHANGED data
    BY <1>1, <1>4, <2>1 DEF FsType
  <2>2. CASE fs' = Unlink(r, l) /\ UNCHANGED data
    BY <1>1, <1>4, <2>2 DEF FsType, Unlink
  <2>3. CASE UNCHANGED fs /\ Exists(r, l) /\ data' = [data EXCEPT ![r][fs[r][l]] = "edited"]
    BY <1>1, <1>4, <2>3 DEF DataType
  <2> QED BY <1>3, <2>1, <2>2, <2>3
<1> QED BY <1>2, <1>3, <1>5

\* The user changes public names alone, so nothing the journal knows of is hidden.
LEMMA EditStep ==
  ASSUME TInv, UserEdit
  PROVE  TInv'
<1>1. TypeOK /\ SavedOK /\ KnownOK /\ NamesOK /\ PlanOK /\ TypeOK'
  BY OtherType DEF TInv
<1>2. UNCHANGED <<rows, cur, mem, pc, todo, kind, original>>
  BY DEF UserEdit, request
<1>3. PICK r \in touched', l \in {"source", "dest"} :
        /\ \A k \in Roles, n \in Names : \/ fs'[k][n] = fs[k][n]
                                         \/ k = r /\ n = l /\ fs'[k][n] \in {Guest(l), "none"}
        /\ \A k \in Roles, i \in Inodes : \/ data'[k][i] = data[k][i]
                                          \/ k = r /\ i = fs[r][l] /\ data'[k][i] = "edited"
  BY <1>1, EditEffect
<1>4. l \in Names \ {"stage", "claim", "quarantine"} /\ Guest(l) \in Inodes \ {"copy"} /\ "copy" \in Inodes
  BY DEF Names, Inodes, Guest
<1>5. /\ FilesShrink
      /\ \A k \in Roles : fs'[k]["quarantine"] = fs[k]["quarantine"]
  BY <1>3, <1>4 DEF FilesShrink, Exists, Out, Names
<1>6. PlanOK' /\ SavedOK'
  BY <1>1, <1>2 DEF PlanOK, SavedOK, Kept
<1>7. NamesOK'
  BY <1>1, <1>2, <1>5, FirstLast DEF NamesOK, FilesShrink, Exists, TypeOK
<1>8. KnownOK'
  BY <1>1, <1>2, <1>5 DEF KnownOK, RecordedIn, FilesShrink, Exists
<1> QED BY <1>1, <1>6, <1>7, <1>8 DEF TInv

\* Nothing else happens between operations.
LEMMA OtherStep ==
  ASSUME TInv, SubmitRecovery \/ Recover \/ ExecuteAgain \/ Crash \/ Restart \/ UserEdit
  PROVE  TInv'
<1>1. TypeOK /\ SavedOK /\ TypeOK' /\ rows \in [Rows -> Row]
  BY OtherType DEF TInv, TypeOK
<1>2. CASE SubmitRecovery
  <2>1. PICK i \in Rows, t \in Rows : /\ rows[i].state = "none" /\ cur' = i
                                      /\ rows' = [rows EXCEPT ![i].state = "accepted", ![i].target = t]
    BY <1>2 DEF SubmitRecovery
  <2>2. i # 1
    BY <1>1, <2>1 DEF SavedOK
  <2>3. /\ rows'[i].target = t
        /\ \A k \in Rows : /\ rows'[k].manifest = rows[k].manifest
                           /\ rows'[k].state \in {rows[k].state, "accepted"}
    BY <1>1, <2>1 DEF Row
  <2> QED BY <1>1, <1>2, <2>1, <2>2, <2>3, JournalStep DEF SubmitRecovery, Goto, world
<1>3. CASE Recover
  <2>1. cur # 1 /\ rows[cur].target \in Rows /\ cur' = cur
    BY <1>1, <1>3 DEF Recover, SavedOK
  <2>2. Saves /\ (UNCHANGED mem \/ mem' = rows[rows[cur].target].manifest)
    BY <1>3 DEF Recover, Saves, SaveThen
  <2>3. \A i \in Rows : /\ rows'[i].state = rows[i].state
                        /\ \/ rows'[i].manifest = rows[i].manifest
                           \/ i = cur /\ rows'[i].manifest = mem'
    BY <1>1, <2>2, SavesRow DEF TypeOK
  <2>4. pc' = "rollback" /\ UNCHANGED <<store, kind>>
    BY <1>3 DEF Recover, SaveThen, Goto, Raise, world
  <2> QED BY <1>1, <2>1, <2>2, <2>3, <2>4, JournalStep
<1>4. CASE ExecuteAgain
  <2>1. PICK i \in Rows : rows' = [rows EXCEPT ![i].state = "recovery_required"]
    BY <1>4 DEF ExecuteAgain
  <2>2. \A k \in Rows : /\ rows'[k].manifest = rows[k].manifest
                        /\ rows'[k].state \in {rows[k].state, "recovery_required"}
    BY <1>1, <2>1 DEF Row
  <2> QED BY <1>1, <1>4, <2>2, JournalStep DEF ExecuteAgain, world
<1>5. CASE Crash
  BY <1>1, <1>5, JournalStep DEF Crash, request
<1>6. CASE Restart
  <2>1. \A k \in Rows : /\ rows'[k].manifest = rows[k].manifest
                        /\ rows'[k].state \in {rows[k].state, "recovery_required", "cancelled"}
    BY <1>1, <1>6 DEF Restart, Row
  <2> QED BY <1>1, <1>6, <2>1, JournalStep DEF Restart, Goto, world
<1> QED BY <1>2, <1>3, <1>4, <1>5, <1>6, EditStep
-----------------------------------------------------------------------------
(* The first run of the operation.                                          *)

\* The steps that leave the files alone: a decision, or a save of what comes next.
LEMMA DecideStep ==
  ASSUME TInv, Plan \/ Stage \/ PrepareAttributes \/ Claims \/ ClaimCheck \/ Checkpoint \/ Publish
                    \/ CheckOutput \/ Trash \/ Trashed
  PROVE  TInv'
<1>1. TypeOK /\ SavedOK /\ KnownOK /\ NamesOK /\ PlanOK /\ TypeOK' /\ mem \in Manifest /\ original \subseteq Roles
  BY PerformType DEF TInv, Perform, TypeOK
<1>2. UNCHANGED <<store, kind, cur>> /\ Running
  <2>1. Plan => UNCHANGED <<store, kind, cur>> /\ Running
    BY DEF Plan, world, Running
  <2> QED BY <2>1 DEF Stage, PrepareAttributes, Claims, ClaimCheck, Checkpoint, Publish, CheckOutput, Trash, Trashed,
         world, Running
<1>3. Saves
  BY DEF Plan, Stage, PrepareAttributes, Claims, ClaimCheck, Checkpoint, Publish, CheckOutput, Trash, Trashed,
         SaveThen, Saves
<1>4. FilesShrink
  BY <1>1, <1>2, Shrinks DEF store, TypeOK, FsType, DataType, Roles
<1>5. \A n : mem' = Declare(n) =>
         /\ mem'.files = mem.files /\ mem'.prov = mem.prov /\ mem'.intents = mem.intents \cup {n}
         /\ mem'.excluded = mem.excluded /\ mem'.generated = mem.generated
  BY <1>1 DEF Declare, Manifest
<1>6. Grows
  <2>1. CASE UNCHANGED mem \/ \E n : mem' = Declare(n)
    BY <1>1, <1>5, <2>1 DEF Grows, SavedOK
  <2>2. CASE Plan
    <3>1. mem'.prov = {}
      <4>1. \/ \E ex, f : mem' = [NoManifest EXCEPT !.files = f, !.excluded = ex]
            \/ \E f : mem' = [NoManifest EXCEPT !.files = f]
            \/ mem' = NoManifest
        BY <2>2 DEF Plan
      <4>2. \A f, ex : /\ NoManifest.prov = {} /\ [NoManifest EXCEPT !.files = f].prov = {}
                       /\ [NoManifest EXCEPT !.files = f, !.excluded = ex].prov = {}
        BY DEF NoManifest
      <4> QED BY <4>1, <4>2
    <3>2. mem = NoManifest /\ pc \in Early
      BY <1>1, <2>2 DEF Plan, PlanOK, Early
    <3> QED BY <3>1, <3>2 DEF Grows, NoManifest
  <2> QED BY <2>1, <2>2 DEF Stage, PrepareAttributes, Claims, ClaimCheck, Checkpoint, Publish, CheckOutput, Trash,
             Trashed
<1>7. PlanOK'
  <2> DEFINE saved == rows' = [rows EXCEPT ![cur].manifest = mem']
  <2>1. pc \in FirstRun
    BY DEF Plan, Stage, PrepareAttributes, Claims, ClaimCheck, Checkpoint, Publish, CheckOutput, Trash, Trashed,
           FirstRun, Early
  <2>2. cur = 1 /\ cur' = 1 /\ kind' = kind /\ "image" \in original' /\ (\A i \in Rows \ {1} : rows'[i].manifest = NoManifest)
        /\ (saved => rows'[1].manifest = mem')
    <3>1. cur = 1 /\ "image" \in original /\ (\A i \in Rows \ {1} : rows[i].manifest = NoManifest) /\ 1 \in Rows
      BY <1>1, <2>1, BoundsAssumption DEF PlanOK, Rows
    <3>2. \A i \in Rows \ {1} : rows'[i].manifest = rows[i].manifest
      BY <1>1, <1>3, <3>1, SavesRow DEF TypeOK
    <3>3. saved => rows'[1].manifest = mem'
      BY <1>1, <3>1 DEF TypeOK, Row
    <3>4. UNCHANGED original
      BY DEF Plan, Stage, PrepareAttributes, Claims, ClaimCheck, Checkpoint, Publish, CheckOutput, Trash, Trashed,
             world
    <3> QED BY <1>2, <3>1, <3>2, <3>3, <3>4
  <2>3. CASE pc' = "rollback"
    BY <2>3, Later DEF FirstRun, Early
  <2>4. CASE Plan /\ pc' # "rollback"
    <3>1. PICK ex \in SUBSET (original \cap {"sidecar"}) : mem' = [NoManifest EXCEPT !.files = original, !.excluded = ex]
      BY <2>4 DEF Plan, Goto, Raise
    <3>2. mem'.files = original /\ mem'.excluded = ex /\ mem'.generated = {}
      BY <3>1 DEF NoManifest
    <3>3. "image" \in original
      BY <1>1, <2>1 DEF PlanOK
    <3>4. pc' \in {"claims", "stage"} /\ (pc' = "claims" => kind = "undo_copy")
      BY <2>4 DEF Plan, Goto, Raise
    <3> QED BY <2>2, <3>2, <3>3, <3>4 DEF PlanOK, FirstRun, Early, Kept
  <2>5. CASE Stage /\ pc' # "rollback"
    BY <1>1, <1>5, <2>1, <2>2, <2>5 DEF Stage, PlanOK, Goto, Raise, FirstRun, Early, SaveThen, Kept
  <2>6. CASE PrepareAttributes /\ pc' # "rollback"
    BY <1>1, <2>1, <2>2, <2>6 DEF PrepareAttributes, PlanOK, Goto, Raise, FirstRun, Early, SaveThen, Kept
  <2>7. CASE Claims /\ pc' # "rollback"
    BY <1>1, <1>5, <2>1, <2>2, <2>7 DEF Claims, PlanOK, Goto, Raise, FirstRun, Early, SaveThen, Kept
  <2>8. CASE ClaimCheck /\ pc' # "rollback"
    BY <1>1, <2>1, <2>2, <2>8 DEF ClaimCheck, PlanOK, Goto, Raise, FirstRun, Early, Kept
  <2>9. CASE Checkpoint /\ pc' # "rollback"
    BY <1>1, <2>1, <2>2, <2>9 DEF Checkpoint, PlanOK, Goto, Raise, FirstRun, Early, Kept
  <2>10. CASE Publish /\ pc' # "rollback"
    BY <1>1, <1>5, <2>1, <2>2, <2>10 DEF Publish, PlanOK, Goto, Raise, FirstRun, Early, SaveThen, Kept
  <2>11. CASE CheckOutput /\ pc' # "rollback"
    BY <1>1, <2>1, <2>2, <2>11 DEF CheckOutput, PlanOK, Goto, Raise, FirstRun, Early
  <2>12. CASE Trash /\ pc' # "rollback"
    BY <1>1, <1>5, <2>1, <2>2, <2>12 DEF Trash, PlanOK, Goto, Raise, FirstRun, Early, SaveThen
  <2>13. CASE Trashed /\ pc' # "rollback"
    BY <1>1, <2>1, <2>2, <2>13 DEF Trashed, PlanOK, Goto, Raise, FirstRun, Early, SaveThen
  <2> QED BY <2>3, <2>4, <2>5, <2>6, <2>7, <2>8, <2>9, <2>10, <2>11, <2>12, <2>13
<1>8. pc' \notin {"recover", "cleanup", "rb_clean", "rb_rename"}
  BY DEF Plan, Stage, PrepareAttributes, Claims, ClaimCheck, Checkpoint, Publish, CheckOutput, Trash, Trashed,
         SaveThen, Goto, Raise
<1>9. (pc' \in Early => pc \in Early) /\ (pc' \in Unclaimed => pc \in Unclaimed)
  BY DEF Plan, Stage, PrepareAttributes, Claims, ClaimCheck, Checkpoint, Publish, CheckOutput, Trash, Trashed,
         SaveThen, Goto, Raise, Early, Unclaimed
<1>10. pc' \in {"claim_check", "claim_rename"} => \A r \in todo' : fs'[r]["claim"] = "none"
  <2>1. CASE Claims
    BY <1>1, <1>2, <2>1 DEF Claims, NamesOK, Exists, Unclaimed, store, TypeOK, SaveThen, Goto, Raise, Manifest
  <2>2. CASE ClaimCheck
    BY <1>1, <1>2, <2>2 DEF ClaimCheck, NamesOK, Exists, store, TypeOK, Goto, Raise
  <2>3. CASE ~(Claims \/ ClaimCheck)
    BY <2>3 DEF Plan, Stage, PrepareAttributes, Checkpoint, Publish, CheckOutput, Trash, Trashed, SaveThen, Goto, Raise
  <2> QED BY <2>1, <2>2, <2>3
<1> QED BY <1>1, <1>2, <1>3, <1>4, <1>6, <1>7, <1>8, <1>9, <1>10, StepKept

\* Copying and annotating fill the recorded stage.
LEMMA StagingStep ==
  ASSUME TInv, CopyStage \/ Annotate \/ RecordAnnotation
  PROVE  TInv'
<1>1. TypeOK /\ SavedOK /\ KnownOK /\ NamesOK /\ PlanOK /\ TypeOK' /\ mem \in Manifest
  BY PerformType DEF TInv, Perform, TypeOK
<1>2. fs \in FsType /\ data \in DataType /\ First(todo) \in Roles /\ "stage" \in Names /\ "copy" \in Inodes
  BY <1>1, FirstLast DEF TypeOK, FsType, DataType, Names, Inodes
<1>3. UNCHANGED <<kind, cur, original>> /\ Running /\ pc \in Unclaimed /\ pc \in Early
  BY DEF CopyStage, Annotate, RecordAnnotation, world, Running, Unclaimed, Early
<1>4. /\ cur = 1 /\ "image" \in original /\ (\A i \in Rows \ {1} : rows[i].manifest = NoManifest) /\ 1 \in Rows
      /\ \A r \in Roles : ~Out(r) /\ ~Exists(r, "claim")
  BY <1>1, <1>3, BoundsAssumption DEF PlanOK, FirstRun, Rows, NamesOK
<1>5. Saves
  BY DEF CopyStage, Annotate, RecordAnnotation, SaveThen, Saves
<1>6. \A i \in Rows \ {1} : rows'[i].manifest = NoManifest
  BY <1>1, <1>4, <1>5, SavesRow DEF TypeOK
<1>7. CASE CopyStage
  <2>1. PICK r \in Roles :
          /\ r = First(todo) /\ todo # {}
          /\ UNCHANGED fs \/ fs' = [fs EXCEPT ![r]["stage"] = "copy"]
          /\ UNCHANGED data \/ data' = [data EXCEPT ![r]["copy"] = "partial"]
          /\ mem' = mem \/ mem' = [mem EXCEPT !.prov = @ \cup {r}]
          /\ \/ pc' = "rollback"
             \/ /\ mem' = [mem EXCEPT !.prov = @ \cup {r}] /\ todo' = todo \ {r}
                /\ pc' = IF todo = {r} THEN AfterStaging ELSE "copy_stage"
    BY <1>2, <1>7 DEF CopyStage, store, Goto, Raise
  <2>2. r \in todo /\ todo \subseteq Kept /\ Kept \ todo \subseteq mem.prov /\ "stage" \in rows[1].manifest.intents
        /\ UNCHANGED rows
    BY <1>1, <1>7, <2>1, FirstLast DEF CopyStage, PlanOK, TypeOK
  <2>3. /\ \A k \in Roles, l \in Names : fs'[k][l] = fs[k][l] \/ (k = r /\ l = "stage" /\ fs'[k][l] = "copy")
        /\ \A k \in Roles : data'[k]["copy"] \in {data[k]["copy"], "partial"}
    BY <1>2, <2>1 DEF FsType, DataType
  <2>4. FilesKnown
    BY <2>2, <2>3 DEF FilesKnown, Exists, Out, Names
  <2>5. /\ mem'.intents = mem.intents /\ mem'.files = mem.files /\ mem'.prov \in {mem.prov, mem.prov \cup {r}}
        /\ mem'.excluded = mem.excluded /\ mem'.generated = mem.generated
        /\ mem' = [mem EXCEPT !.prov = @ \cup {r}] => mem'.prov = mem.prov \cup {r}
    BY <1>1, <2>1 DEF Manifest
  <2>6. Grows
    BY <1>1, <1>3, <2>2, <2>5 DEF Grows, SavedOK, Kept
  <2>7. PlanOK'
    <3>1. CASE pc' = "rollback"
      BY <3>1, Later DEF FirstRun, Early
    <3>2. CASE pc' # "rollback"
      <4>1. pc' \in {"annotate", "attributes", "copy_stage"} /\ (pc' # "copy_stage" => todo = {r})
        BY <2>1, <3>2 DEF AfterStaging
      <4>2. "image" \in mem.files \ (mem.excluded \cup mem.generated)
        BY <1>1, <1>7 DEF CopyStage, PlanOK, FirstRun, Early
      <4> QED BY <1>3, <1>4, <1>6, <2>1, <2>2, <2>5, <3>2, <4>1, <4>2 DEF PlanOK, Kept, FirstRun, Early
    <3> QED BY <3>1, <3>2
  <2>8. /\ \A k \in Roles : fs'[k]["claim"] = "none"
        /\ pc' \notin {"claim_check", "claim_rename", "recover", "cleanup", "rb_clean", "rb_rename"}
    <3>1. "claim" \in Names
      BY DEF Names
    <3> QED BY <1>4, <2>1, <2>3, <3>1 DEF Exists, AfterStaging
  <2> QED BY <1>1, <1>3, <1>5, <2>4, <2>6, <2>7, <2>8, StepKnown
<1>8. CASE Annotate
  <2>1. /\ UNCHANGED fs \/ fs' = [fs EXCEPT !["sidecar"]["stage"] = "copy"]
        /\ UNCHANGED data \/ data' = [data EXCEPT !["image"]["copy"] = "partial"]
        /\ pc' \in {"rollback", "record"} /\ UNCHANGED <<mem, rows>>
    BY <1>8 DEF Annotate, Goto, Raise
  <2>2. /\ \A k \in Roles, l \in Names : fs'[k][l] = fs[k][l] \/ (l = "stage" /\ fs'[k][l] = "copy")
        /\ \A k \in Roles : data'[k]["copy"] \in {data[k]["copy"], "partial"}
    BY <1>2, <2>1 DEF FsType, DataType
  <2>3. "stage" \in rows[1].manifest.intents
    BY <1>1, <1>8 DEF Annotate, PlanOK
  <2>4. FilesKnown
    BY <2>2, <2>3 DEF FilesKnown, Exists, Out, Names
  <2>5. Grows
    BY <1>1, <2>1 DEF Grows, SavedOK
  <2>6. PlanOK'
    BY <1>1, <1>3, <1>8, <2>1 DEF Annotate, PlanOK, Kept, FirstRun, Early
  <2>7. \A k \in Roles : fs'[k]["claim"] = "none"
    <3>1. "claim" \in Names
      BY DEF Names
    <3> QED BY <1>4, <2>2, <3>1 DEF Exists
  <2> QED BY <1>1, <1>3, <1>5, <2>1, <2>4, <2>5, <2>6, <2>7, StepKnown
<1>9. CASE RecordAnnotation
  <2>1. PICK new \in SUBSET (Roles \ mem.files) :
          mem' = [mem EXCEPT !.files = @ \cup new, !.generated = new, !.prov = mem.files \cup new]
    BY <1>9 DEF RecordAnnotation
  <2>2. /\ mem'.intents = mem.intents /\ mem'.files = mem.files \cup new /\ mem'.prov = mem.files \cup new
        /\ mem'.excluded = mem.excluded /\ mem'.generated = new
    BY <1>1, <2>1 DEF Manifest
  <2>3. Grows
    BY <1>1, <1>3, <2>2 DEF Grows, SavedOK
  <2>4. /\ UNCHANGED fs /\ \A k \in Roles : data'[k]["copy"] \in {data[k]["copy"], "good"}
    BY <1>2, <1>9 DEF RecordAnnotation, DataType
  <2>5. FilesShrink
    BY <2>4 DEF FilesShrink, Exists, Out
  <2>6. pc' \in {"attributes", "rollback"}
    BY <1>9 DEF RecordAnnotation, SaveThen, Goto, Raise
  <2>7. PlanOK'
    BY <1>1, <1>3, <1>4, <1>6, <1>9, <2>2, <2>6 DEF RecordAnnotation, PlanOK, Kept, FirstRun, Early
  <2> QED BY <1>1, <1>3, <1>5, <2>3, <2>5, <2>6, <2>7, StepKept
<1> QED BY <1>7, <1>8, <1>9

\* The rename of an original was recorded, and so was the link of an output.
LEMMA MovingStep ==
  ASSUME TInv, ClaimRename \/ LinkOutput \/ TrashCall
  PROVE  TInv'
<1>1. TypeOK /\ SavedOK /\ KnownOK /\ NamesOK /\ PlanOK /\ TypeOK' /\ mem \in Manifest
  BY PerformType DEF TInv, Perform, TypeOK
<1>2. /\ fs \in FsType /\ data \in DataType /\ First(todo) \in Roles /\ dest \in {"source", "dest"}
      /\ "stage" \in Names /\ "claim" \in Names /\ "source" \in Names /\ dest \in Names
  BY <1>1, FirstLast DEF TypeOK, FsType, DataType, Names, dest, DestOf
<1>3. UNCHANGED <<kind, cur, original, rows, mem, data>> /\ Running /\ pc \in FirstRun \ {"plan"} /\ Saves
  BY DEF ClaimRename, LinkOutput, TrashCall, world, Running, FirstRun, Early, Saves
<1>4. Grows
  BY <1>1, <1>3 DEF Grows, SavedOK
<1>5. CASE ClaimRename
  <2>1. PICK r \in Roles :
          /\ r = First(todo)
          /\ UNCHANGED fs \/ fs' = Rename(r, "source", "claim")
          /\ \/ pc' = "rollback"
             \/ pc' = AfterClaims /\ todo = {r}
             \/ pc' = "claim_check" /\ todo # {r} /\ todo' = todo \ {r}
    BY <1>2, <1>5 DEF ClaimRename, Goto, Raise
  <2>2. /\ r \in todo /\ r \in mem.files /\ RecordedIn(1, "claim", r) /\ todo \subseteq Roles
        /\ \A k \in todo : fs[k]["claim"] = "none"
    BY <1>1, <1>5, <2>1, FirstLast DEF ClaimRename, PlanOK, NamesOK, TypeOK, RecordedIn, Exists
  <2>3. \A k \in Roles, l \in Names : \/ fs'[k][l] = fs[k][l]
                                      \/ k = r /\ l = "source" /\ fs'[k][l] = "none"
                                      \/ k = r /\ l = "claim" /\ fs'[k][l] = fs[r]["source"]
    BY <1>2, <2>1, Primitives
  <2>4. FilesKnown
    BY <1>2, <1>3, <2>2, <2>3 DEF FilesKnown, Exists, Out, Names
  <2>5. /\ pc' \notin Unclaimed /\ pc' \in {"rollback", "commit", "publish", "checkpoint", "claim_check"}
        /\ pc' = "checkpoint" => kind # "undo_copy"
        /\ pc' = "publish" => kind = "metadata"
    BY <2>1 DEF AfterClaims, Unclaimed
  <2>6. pc' = "claim_check" => \A k \in todo' : fs'[k]["claim"] = "none"
    BY <1>2, <2>1, <2>2, <2>3, <2>5 DEF AfterClaims
  <2>7. PlanOK'
    <3>1. pc' = "claim_check" => todo' # {} /\ todo' \subseteq todo
      BY <2>1, <2>2 DEF AfterClaims
    <3> QED BY <1>1, <1>3, <1>5, <2>5, <3>1 DEF ClaimRename, PlanOK, Kept, FirstRun, Early
  <2>8. pc \in Early /\ pc' \notin {"claim_rename", "recover", "cleanup", "rb_clean", "rb_rename"}
    BY <1>5, <2>5 DEF ClaimRename, Early
  <2> QED BY <1>1, <1>3, <1>4, <2>4, <2>5, <2>6, <2>7, <2>8, StepKnown
<1>6. CASE LinkOutput
  <2>1. PICK r \in Roles :
          /\ r = First(todo)
          /\ UNCHANGED fs \/ (~Exists(r, dest) /\ fs' = Link(r, "stage", dest))
          /\ \/ pc' = "rollback"
             \/ pc' = "check_output"
             \/ pc' = "link" /\ todo # {r} /\ todo' = todo \ {r}
    BY <1>2, <1>6 DEF LinkOutput, Goto, Raise
  <2>2. /\ r \in Kept /\ rows[1].manifest = mem /\ "publish" \in mem.intents /\ r \in mem.prov /\ kind # "trash"
        /\ cur = 1 /\ (\A i \in Rows \ {1} : rows[i].manifest = NoManifest) /\ todo \subseteq Kept /\ r \in todo
    BY <1>1, <1>6, <2>1, FirstLast DEF LinkOutput, PlanOK, FirstRun, TypeOK
  <2>3. /\ \A k \in Roles, l \in Names : \/ fs'[k][l] = fs[k][l]
                                         \/ k = r /\ l = dest /\ fs'[k][l] = fs[r]["stage"]
        /\ dest # "stage" /\ dest # "claim"
    BY <1>2, <2>1, Primitives
  <2>4. /\ \A k \in Roles : Exists(k, "claim")' = Exists(k, "claim") /\ fs'[k]["stage"] = fs[k]["stage"]
        /\ \A k \in Roles : Out(k)' => Out(k) \/ k = r
    BY <1>2, <1>3, <2>3 DEF Exists, Out, Names
  <2>5. pc' \in {"rollback", "link", "check_output"} /\ pc' \notin Unclaimed /\ pc' \notin Early
    BY <2>1 DEF Unclaimed, Early
  <2>6. PlanOK'
    <3>1. pc' = "link" => todo' # {} /\ todo' \subseteq Kept
      BY <2>1, <2>2
    <3> QED BY <1>1, <1>3, <1>6, <2>2, <2>5, <3>1 DEF LinkOutput, PlanOK, Kept, FirstRun, Early
  <2>7. SavedOK'
    BY <1>1, <1>3, <2>5 DEF SavedOK, Running
  <2>8. NamesOK'
    BY <1>1, <1>3, <2>2, <2>4, <2>5 DEF NamesOK, Exists
  <2>9. KnownOK'
    <3>1. RecordedIn(1, "publish", r) /\ mem.files # {}
      BY <2>2 DEF RecordedIn, Kept
    <3>2. \A i \in Rows : rows[i].manifest.files # {} => r \in rows[i].manifest.prov
      BY <2>2 DEF NoManifest
    <3> QED BY <1>1, <1>3, <2>2, <2>4, <3>1, <3>2 DEF KnownOK, RecordedIn, Exists
  <2> QED BY <1>1, <2>6, <2>7, <2>8, <2>9 DEF TInv
<1>7. CASE TrashCall
  <2>1. \A k \in Roles, l \in Names : fs'[k][l] = fs[k][l] \/ (l = "stage" /\ fs'[k][l] = "none")
    BY <1>2, <1>7 DEF TrashCall, FsType
  <2>2. FilesShrink
    BY <1>3, <2>1 DEF FilesShrink, Exists, Out, Names
  <2>3. pc' \in {"trashed", "rollback"}
    BY <1>7 DEF TrashCall, Goto, Raise
  <2>4. PlanOK'
    BY <1>1, <1>3, <1>7, <2>3 DEF TrashCall, PlanOK, Kept, FirstRun, Early
  <2>5. pc' \notin Unclaimed /\ pc' \notin Early
    BY <2>3 DEF Unclaimed, Early
  <2> QED BY <1>1, <1>3, <1>4, <2>2, <2>3, <2>4, <2>5, StepKept
<1> QED BY <1>5, <1>6, <1>7

\* Every step keeps the invariant.
LEMMA StepT ==
  ASSUME TInv, [Next]_vars
  PROVE  TInv'
<1>1. CASE Perform
  BY <1>1, DecideStep, StagingStep, MovingStep DEF Perform
<1>2. CASE UNCHANGED vars
  BY <1>2 DEF vars, TInv, TypeOK, PlanOK, SavedOK, NamesOK, KnownOK, Out, Exists, Kept, RecordedIn, dest
<1> QED BY <1>1, <1>2, SucceedStep, RollbackStep, OtherStep DEF Next, Service

\* The initial states: nothing has been moved, nothing is recorded.
LEMMA InitT ==
  ASSUME Init
  PROVE  TInv
<1>1. NoManifest \in Manifest /\ 1 \in Rows
  BY BoundsAssumption DEF NoManifest, Manifest, Rows
<1>2. /\ \A i \in Rows : rows[i].manifest = NoManifest /\ rows \in [Rows -> Row]
      /\ rows[1].state = "accepted"
  BY <1>1 DEF Init, Row
<1>3. fs \in FsType /\ data \in DataType
  BY DEF Init, FsType, DataType, Names, Inodes
<1>4. \A r \in Roles : /\ \A l \in Names \ {"source"} : fs[r][l] = "none"
                       /\ fs[r]["source"] # "copy" /\ data[r]["copy"] = "good"
  BY DEF Init, Names, Inodes
<1>5. /\ kind \in Kinds /\ original \subseteq Roles /\ "image" \in original /\ mem = NoManifest /\ pc = "plan"
      /\ cur = 1 /\ todo = {} /\ outcome = "none" /\ errors = FALSE /\ faults = 0 /\ crashes = 0 /\ edits = 0
      /\ touched = {} /\ relinked = {}
  BY DEF Init, Roles
<1>6. TypeOK
  <2>1. 0 \in 0 .. MaxFaults /\ 0 \in 0 .. MaxCrashes /\ 0 \in 0 .. MaxEdits /\ relinked \subseteq Roles
    BY <1>5, BoundsAssumption
  <2>2. rows \in [Rows -> Row] /\ mem \in Manifest /\ cur \in Rows /\ todo \subseteq Roles /\ touched \subseteq Roles
    BY <1>1, <1>2, <1>5
  <2>3. pc = "plan" /\ outcome = "none" /\ errors \in BOOLEAN
    BY <1>5
  <2> QED BY <1>3, <1>5, <2>1, <2>2, <2>3 DEF TypeOK, FsType, DataType
<1>7. \A r \in Roles : ~Exists(r, "claim") /\ ~Exists(r, "stage") /\ ~Out(r)
  BY <1>4 DEF Exists, Out, Names
<1>8. PlanOK
  BY <1>2, <1>5 DEF PlanOK, FirstRun, Early
<1>9. SavedOK
  BY <1>1, <1>2, <1>5 DEF SavedOK, NoManifest
<1>10. NamesOK
  BY <1>5, <1>7 DEF NamesOK, Exists
<1>11. KnownOK
  BY <1>7 DEF KnownOK
<1> QED BY <1>6, <1>8, <1>9, <1>10, <1>11 DEF TInv

\* In every state that failures, crashes, recoveries and user edits can reach the
\* journal is ahead of the files: nothing is in a claim, in a stage or published
\* without being recorded.
THEOREM TransactionInvariance == Spec => []TInv
BY InitT, StepT, PTL DEF Spec

\* Durable intent precedes destructive transitions: whenever the service dies, a
\* file it had renamed away, staged or published is named, with the intent that
\* moved it, by a manifest the journal already holds.
THEOREM IntentIsRecorded == Spec => []IntentRecorded
<1>1. TInv => IntentRecorded
  <2> SUFFICES ASSUME TInv PROVE IntentRecorded
    OBVIOUS
  <2>1. TypeOK /\ KnownOK /\ SavedOK /\ 1 \in Rows
    BY BoundsAssumption DEF TInv, Rows
  <2>2. dest \in Names \ {"stage"}
    BY DEF dest, DestOf, Names
  <2>3. ASSUME NEW r \in Roles, fs[r][dest] = "copy"
        PROVE  RecordedIn(1, "publish", r) /\ r \in rows[1].manifest.prov
    <3>1. Out(r)
      BY <2>2, <2>3 DEF Out
    <3> QED BY <2>1, <3>1 DEF KnownOK, RecordedIn
  <2> QED BY <2>1, <2>3 DEF IntentRecorded, KnownOK
<1> QED BY <1>1, TransactionInvariance, PTL
-----------------------------------------------------------------------------
(* Nothing the user can own loses its last name.                            *)

\* A name may change when what it led to has another name, or was no user's.
Spared(k, l) ==
  \/ fs'[k][l] = fs[k][l] \/ fs[k][l] = "none"
  \/ fs[k][l] = "copy" /\ data[k]["copy"] # "edited"
  \/ \E m \in Names : fs'[k][m] = fs[k][l]

KeepsLinked == \A r \in Roles, i \in Inodes :
                 Linked(r, i) /\ (i # "copy" \/ data[r][i] = "edited") => Linked(r, i)'

\* Then every inode that may carry a user's bytes still has a name.
LEMMA SparedLinked ==
  ASSUME \A k \in Roles, l \in Names : Spared(k, l)
  PROVE  KeepsLinked
<1> SUFFICES ASSUME NEW r \in Roles, NEW i \in Inodes, Linked(r, i), i # "copy" \/ data[r][i] = "edited"
             PROVE  \E l \in Names : fs'[r][l] = i
  BY DEF KeepsLinked, Linked
<1>1. PICK l \in Names : fs[r][l] = i
  BY DEF Linked
<1>2. i # "none"
  BY DEF Inodes
<1> QED BY <1>1, <1>2 DEF Spared

\* The steps of the first run: what is overwritten is empty or a copy again.
LEMMA PerformSpares ==
  ASSUME TInv, Perform
  PROVE  \A k \in Roles, l \in Names : Spared(k, l)
<1>1. TypeOK /\ NamesOK /\ PlanOK
  BY DEF TInv
<1>2. /\ fs \in FsType /\ First(todo) \in Roles /\ dest \in Names /\ dest # "stage"
      /\ "stage" \in Names /\ "claim" \in Names /\ "source" \in Names
  BY <1>1, FirstLast DEF TypeOK, FsType, Names, dest, DestOf
<1>3. CASE CopyStage \/ Annotate
  <2>1. PICK r \in Roles : UNCHANGED fs \/ fs' = [fs EXCEPT ![r]["stage"] = "copy"]
    <3>1. "sidecar" \in Roles
      BY DEF Roles
    <3> QED BY <1>2, <1>3, <3>1 DEF CopyStage, Annotate, store
  <2>2. \A k \in Roles, l \in Names : fs'[k][l] = fs[k][l] \/ (l = "stage" /\ fs'[k][l] = "copy")
    BY <1>2, <2>1 DEF FsType
  <2> QED BY <1>1, <2>2 DEF Spared, NamesOK
<1>4. CASE ClaimRename
  <2>1. UNCHANGED fs \/ fs' = Rename(First(todo), "source", "claim")
    BY <1>4 DEF ClaimRename
  <2>2. fs[First(todo)]["claim"] = "none"
    <3>1. pc = "claim_rename" /\ First(todo) \in todo
      BY <1>1, <1>4, FirstLast DEF ClaimRename, PlanOK, TypeOK
    <3> QED BY <1>1, <1>2, <3>1 DEF NamesOK, Exists
  <2> QED BY <1>2, <2>1, <2>2, Primitives DEF Spared
<1>5. CASE LinkOutput
  <2>1. UNCHANGED fs \/ (fs[First(todo)][dest] = "none" /\ fs' = Link(First(todo), "stage", dest))
    BY <1>5 DEF LinkOutput, Exists
  <2> QED BY <1>2, <2>1, Primitives DEF Spared
<1>6. CASE TrashCall
  <2>1. \A k \in Roles, l \in Names : fs'[k][l] = fs[k][l] \/ l = "stage"
    BY <1>2, <1>6 DEF TrashCall, FsType
  <2>2. \A k \in Roles : ~Out(k)
    BY <1>1, <1>6 DEF TrashCall, PlanOK, NamesOK
  <2> QED BY <1>1, <2>1, <2>2 DEF Spared, NamesOK, Out
<1>7. CASE UNCHANGED fs
  BY <1>7 DEF Spared
<1>8. Plan => UNCHANGED fs
  BY DEF Plan, store
<1> QED BY <1>3, <1>4, <1>5, <1>6, <1>7, <1>8
     DEF Perform, Stage, RecordAnnotation, PrepareAttributes, Claims, ClaimCheck, Checkpoint,
         Publish, CheckOutput, Trash, Trashed, store

\* Cleaning up and rolling back: an unlinked name was proven to be ours, a link
\* or a rename only takes a free name.
LEMMA RestSpares ==
  ASSUME TInv, Succeed \/ Rollback
  PROVE  \A k \in Roles, l \in Names : Spared(k, l)
<1>1. TypeOK /\ NamesOK /\ SavedOK /\ KnownOK
  BY DEF TInv
<1>2. /\ fs \in FsType /\ First(todo) \in Roles /\ Last(todo) \in Roles /\ dest \in Names
      /\ dest # "quarantine" /\ "stage" \in Names /\ "claim" \in Names /\ "source" \in Names
      /\ "quarantine" \in Names
  BY <1>1, FirstLast DEF TypeOK, FsType, Names, dest, DestOf
<1>3. CASE CleanStage
  <2> DEFINE r == First(todo)
  <2>1. UNCHANGED fs \/ (fs' = Unlink(r, "stage") /\ (r \in mem.prov => data[r]["copy"] = "good"))
    BY <1>3 DEF CleanStage, Verify
  <2>2. mem.files # {}
    BY <1>1, <1>3 DEF CleanStage, SavedOK
  <2>3. fs[r]["stage"] \in {"none", "copy"} /\ (r \notin mem.prov => data[r]["copy"] # "edited")
    BY <1>1, <1>2, <2>2 DEF NamesOK, KnownOK, Out
  <2>4. \A k \in Roles, l \in Names : fs'[k][l] = fs[k][l] \/ (k = r /\ l = "stage" /\ fs' = Unlink(r, "stage"))
    BY <1>2, <2>1 DEF Unlink, FsType
  <2> QED BY <1>2, <2>1, <2>3, <2>4 DEF Spared
<1>4. CASE QuarantineRename
  <2>1. UNCHANGED fs \/ fs' = Rename(Last(todo), dest, "quarantine")
    BY <1>4 DEF QuarantineRename
  <2>2. fs[Last(todo)]["quarantine"] = "none"
    BY <1>1, <1>4 DEF QuarantineRename, NamesOK, Exists
  <2> QED BY <1>2, <2>1, <2>2, Primitives DEF Spared
<1>5. CASE QuarantineUnlink
  <2> DEFINE r == Last(todo)
  <2>1. \/ UNCHANGED fs
        \/ fs' = Unlink(r, "quarantine") /\ fs[r]["quarantine"] = "copy" /\ data[r]["copy"] = "good"
        \/ fs' = Link(r, "quarantine", dest) /\ fs[r][dest] = "none"
    <3>1. dest \in Names
      BY <1>2
    <3> QED BY <1>1, <1>5, <3>1, Unlinked DEF TInv, TypeOK, FsType, Exists, Verify
  <2>2. \A k \in Roles, l \in Names :
          /\ Unlink(r, "quarantine")[k][l] = fs[k][l] \/ (k = r /\ l = "quarantine")
          /\ Link(r, "quarantine", dest)[k][l] = fs[k][l] \/ (k = r /\ l = dest)
    BY <1>2, Primitives
  <2> QED BY <2>1, <2>2 DEF Spared
<1>6. CASE RestoreClaim
  <2>1. UNCHANGED fs \/ (fs' = Link(Last(todo), "claim", "source") /\ fs[Last(todo)]["source"] = "none")
    BY <1>6 DEF RestoreClaim, Exists
  <2> QED BY <1>2, <2>1, Primitives DEF Spared
<1>7. CASE UNCHANGED fs
  BY <1>7 DEF Spared
<1> QED BY <1>3, <1>4, <1>5, <1>6, <1>7
     DEF Succeed, Rollback, Commit, Cleaned, Finish, RollbackCheck, WithdrawOutput, QuarantineCheck,
         RollbackEnd, store

\* Whatever the service does - claim, publish, roll back, clean up, recover, in
\* any state the user and earlier crashes left - it never removes the last name
\* of an inode that carries a user's bytes.
THEOREM NothingIsDestroyed == Spec => NothingDestroyed
<1>1. TInv /\ [Next]_vars => [Service => KeepsLinked]_vars
  <2> SUFFICES ASSUME TInv, Service PROVE KeepsLinked
    OBVIOUS
  <2>1. \A k \in Roles, l \in Names : Spared(k, l)
    <3>1. CASE Perform \/ Succeed \/ Rollback
      BY <3>1, PerformSpares, RestSpares
    <3>2. CASE SubmitRecovery \/ Recover \/ ExecuteAgain
      BY <3>2 DEF SubmitRecovery, Recover, ExecuteAgain, store, Spared
    <3> QED BY <3>1, <3>2 DEF Service
  <2> QED BY <2>1, SparedLinked
<1> QED BY <1>1, TransactionInvariance, PTL DEF Spec, NothingDestroyed, KeepsLinked

-----------------------------------------------------------------------------
(* What a failure and a completion promise of names nobody else touched.    *)

Backward == {"rollback", "rb_dest", "rb_verify", "rb_rename", "rb_unlink", "rb_claim", "rb_clean", "rb_end"}
Loop     == {"rb_dest", "rb_verify", "rb_rename", "rb_unlink", "rb_claim"}
Ending   == {"commit", "cleanup", "finish"}

\* Who runs, on whose behalf, and how it is going.
ControlOK ==
  /\ pc \in FirstRun \cup {"commit", "cleanup", "idle", "recover", "down"} => outcome = "none"
  /\ cur = 1 /\ pc \in Backward => outcome # "none"
  /\ pc \notin {"idle", "down"} => rows[cur].state = "accepted"
  /\ rows[1].state # "recovery_required" => cur = 1 /\ \A i \in Rows \ {1} : rows[i].state = "none"
  /\ rows[1].resolved => rows[1].state = "recovery_required"
  /\ \A i \in Rows : rows[i].target = 0 <=> i = 1 \/ rows[i].state = "none"
  /\ rows[cur].state # "none"
  /\ pc = "recover" => rows[rows[cur].target].manifest.files # {} /\ mem.files = {}
  /\ pc \in Backward /\ outcome = "none" => mem.files # {}
  /\ pc = "commit" => mem.files # {}
  /\ pc = "rb_end" /\ ~errors => mem.files = {}
  /\ pc \in Loop => todo # {} /\ todo \subseteq mem.files
  /\ pc \in {"claims", "claim_check", "claim_rename"} => kind # "copy"

\* A manifest that has a set has the originals, and every output that was published.
Fits(m) ==
  /\ m.intents # {} => m.files # {}
  /\ "trash" \in m.intents => kind = "trash"
  /\ m.quarantined \subseteq m.files
  /\ m.files # {} =>
       /\ original \subseteq m.files /\ m.generated = m.files \ original
       /\ \A r \in Roles : /\ Out(r) => r \in m.files \ m.excluded /\ "publish" \in m.intents
                           /\ kind # "metadata" /\ Exists(r, "stage") => r \in m.files
  /\ kind # "metadata" => m.generated = {} /\ \A r \in m.prov : data[r]["copy"] # "partial"

ManifestsOK ==
  /\ Fits(mem) /\ \A i \in Rows : Fits(rows[i].manifest)
  /\ pc = "stage" => mem.prov = {}
  /\ pc = "copy_stage" => todo \cap mem.prov = {}
  /\ pc \in {"annotate", "record"} => kind = "metadata"
  /\ pc \in {"stage", "copy_stage", "annotate", "record"} => mem.generated = {}
  /\ pc \in Early => \A r \in Roles : data[r]["copy"] = "good" \/ (pc = "record" /\ r = "image")

\* The names of a role nobody else has touched.
Original(r) == IF r \in original THEN {"original"} ELSE {}
\* Its output has left its public name, or was given it back by a rollback.
Away(r) == fs[r][dest] # "copy" \/ r \in relinked
Steady(r) ==
  /\ data[r]["original"] = "good"
  /\ fs[r]["claim"] \in {"none"} \cup Original(r)
  /\ fs[r]["source"] \in {"none"} \cup Original(r) \cup (IF dest = "source" THEN {"copy"} ELSE {})
  /\ r \in original => fs[r]["source"] = "original" \/ fs[r]["claim"] = "original"
  /\ fs[r]["dest"] \in {"none", "copy"}
  /\ fs[r]["quarantine"] \in {"none", "copy"}
  /\ Out(r) => data[r]["copy"] = "good"
  /\ fs[r]["quarantine"] = "copy" => Away(r)

\* The first run, on its way.
AtHome(r) == r \in original => fs[r]["source"] = "original"
Claimed(r) == r \in original => fs[r]["claim"] = "original" /\ fs[r]["source"] # "original"
Taken(r) == IF kind = "copy" THEN AtHome(r) ELSE Claimed(r)
Forward(r) ==
  /\ pc \in Unclaimed => AtHome(r)
  /\ pc \in {"claim_check", "claim_rename"} => IF r \in todo THEN AtHome(r) ELSE Claimed(r)
  /\ pc \in {"checkpoint", "publish", "link", "check_output", "trash", "trash_call", "trashed"} => Taken(r)
  /\ pc \in FirstRun => /\ data[r]["copy"] = "good" \/ (pc = "record" /\ r = "image")
                        /\ ~Exists(r, "quarantine")
  /\ pc \in Ending /\ cur = 1 /\ outcome = "none" =>
       /\ Taken(r)
       /\ kind \in Publishing /\ r \in Kept => Verify(r, dest, "copy")
       /\ pc = "finish" /\ ~errors => ~Exists(r, "stage")

\* Rollback, on its way.
Withdrawn(r) == AtHome(r) /\ Away(r)
Back(r) ==
  /\ pc \in Loop /\ r \notin todo /\ ~errors => Withdrawn(r)
  /\ pc = "rb_clean" /\ ~errors => Withdrawn(r)
  /\ pc \in {"rb_unlink", "rb_claim"} /\ ~errors /\ r = Last(todo) => Away(r)
  /\ pc = "rb_rename" /\ r = Last(todo) => fs[r][dest] = "copy"

\* How it ends, and that it stays so.
IsUndone(r) == Withdrawn(r) /\ ~Exists(r, "stage")
End(r) ==
  /\ pc = "finish" /\ cur = 1 /\ outcome # "none" /\ ~errors => IsUndone(r)
  /\ pc \in Ending /\ cur # 1 /\ outcome = "none" => IsUndone(r)
  /\ rows[1].state \in {"failed", "cancelled"} \/ rows[1].resolved => IsUndone(r)
  /\ rows[1].state \in Completed => Done(r)

RoleOK(r) == Steady(r) /\ Forward(r) /\ Back(r) /\ End(r)

\* A recovery in a world where nothing fails and nobody else touches a name.
Undisturbed == faults = 0 /\ touched = {} /\ kind \notin {"trash", "metadata"} /\ cur # 1
Converges ==
  Undisturbed =>
    /\ pc \in Backward \cup Ending => outcome = "none" \/ (outcome = "cancelled" /\ mem.files = {})
    /\ pc \in Backward \ {"rollback"} => ~errors /\ (pc = "rb_end" => outcome = "cancelled")
    /\ pc \in Loop => \A r \in mem.quarantined \ todo : ~Exists(r, "quarantine")
    /\ pc = "rb_verify" => Exists(Last(todo), dest) \/ Exists(Last(todo), "quarantine")
    /\ pc = "rb_unlink" => Exists(Last(todo), "quarantine")
    /\ pc = "rb_claim" => Last(todo) \notin mem.quarantined \/ ~Exists(Last(todo), "quarantine")
    /\ pc = "rb_clean" => /\ \A r \in mem.quarantined : ~Exists(r, "quarantine")
                          /\ \A r \in Roles \ todo : ~Exists(r, "stage")

HonestInv ==
  /\ ControlOK /\ ManifestsOK
  /\ \A r \in Roles \ touched : RoleOK(r)
  /\ Converges
-----------------------------------------------------------------------------
(* Control: a save leaves the states, targets and resolutions of the rows.  *)

\* A save of the manifest in hand changes no more of the journal than that manifest.
LEMMA SavesManifest ==
  ASSUME TypeOK, mem' \in Manifest, Saves
  PROVE  \A i \in Rows : /\ rows'[i].state = rows[i].state /\ rows'[i].target = rows[i].target
                         /\ rows'[i].resolved = rows[i].resolved
                         /\ \/ rows'[i].manifest = rows[i].manifest
                            \/ i = cur /\ rows'[i].manifest = mem'
<1>1. rows \in [Rows -> Row] /\ cur \in Rows
  BY DEF TypeOK
<1>2. CASE rows' = rows
  BY <1>2
<1>3. CASE rows' = [rows EXCEPT ![cur].manifest = mem']
  <2>1. PICK m \in Manifest : m = mem'
    OBVIOUS
  <2>2. rows' = [rows EXCEPT ![cur] = [rows[cur] EXCEPT !.manifest = m]]
    BY <1>3, <2>1
  <2> QED BY <1>1, <2>1, <2>2 DEF Row
<1> QED BY <1>2, <1>3 DEF Saves

\* A step of the first run goes on, or is the exception that starts the rollback.
LEMMA PerformFlow ==
  ASSUME TInv, ControlOK, Perform
  PROVE  /\ pc \in FirstRun /\ cur = 1 /\ outcome = "none" /\ rows[1].state = "accepted"
         /\ UNCHANGED <<kind, original, cur, errors, touched, relinked>> /\ Saves /\ mem' \in Manifest
         /\ \/ pc' \in FirstRun \cup {"commit"} /\ UNCHANGED outcome
            \/ pc' = "rollback" /\ outcome' \in {"failed", "cancelled"}
         /\ pc' \in {"claims", "claim_check", "claim_rename"} => kind # "copy"
         /\ pc' = "commit" => mem'.files # {}
<1>1. TypeOK /\ TypeOK' /\ PlanOK /\ mem \in Manifest /\ mem' \in Manifest
  BY PerformType DEF TInv, TypeOK
<1>2. pc \in FirstRun
  BY DEF Perform, Plan, Stage, CopyStage, Annotate, RecordAnnotation, PrepareAttributes, Claims, ClaimCheck,
         ClaimRename, Checkpoint, Publish, LinkOutput, CheckOutput, Trash, TrashCall, Trashed, FirstRun, Early
<1>3. cur = 1 /\ outcome = "none" /\ rows[1].state = "accepted"
  BY <1>1, <1>2 DEF ControlOK, PlanOK, FirstRun, Early
<1>4. UNCHANGED <<kind, original, cur, errors, touched, relinked>> /\ Saves
  <2>1. Plan => UNCHANGED <<kind, original, cur, errors, touched, relinked>> /\ Saves
    BY DEF Plan, world, Saves
  <2> QED BY <2>1 DEF Perform, Stage, CopyStage, Annotate, RecordAnnotation, PrepareAttributes, Claims, ClaimCheck,
         ClaimRename, Checkpoint, Publish, LinkOutput, CheckOutput, Trash, TrashCall, Trashed, world, Saves, SaveThen
<1> DEFINE Flow == /\ \/ pc' \in FirstRun \cup {"commit"} /\ UNCHANGED outcome
                      \/ pc' = "rollback" /\ outcome' \in {"failed", "cancelled"}
                   /\ pc' \in {"claims", "claim_check", "claim_rename"} => kind # "copy"
                   /\ pc' = "commit" => UNCHANGED mem /\ pc # "plan"
<1>5. ASSUME Plan PROVE Flow
  BY <1>5 DEF Plan, Goto, Raise, FirstRun, Early
<1>6. ASSUME Stage \/ CopyStage \/ Annotate PROVE Flow
  BY <1>6 DEF Stage, CopyStage, Annotate, AfterStaging, SaveThen, Goto, Raise, FirstRun, Early
<1>7. ASSUME RecordAnnotation \/ PrepareAttributes PROVE Flow
  BY <1>7 DEF RecordAnnotation, PrepareAttributes, SaveThen, Goto, Raise, FirstRun, Early
<1>8. ASSUME Claims \/ ClaimCheck PROVE Flow
  BY <1>8 DEF ControlOK, Claims, ClaimCheck, SaveThen, Goto, Raise, FirstRun, Early
<1>9. ASSUME ClaimRename PROVE Flow
  <2>1. AfterClaims \in {"commit", "publish", "checkpoint"}
    BY DEF AfterClaims
  <2> QED BY <1>9, <2>1 DEF ControlOK, ClaimRename, Goto, Raise, FirstRun, Early
<1>10. ASSUME Checkpoint \/ Publish \/ LinkOutput \/ CheckOutput PROVE Flow
  BY <1>10 DEF Checkpoint, Publish, LinkOutput, CheckOutput, SaveThen, Goto, Raise, FirstRun, Early
<1>11. ASSUME Trash \/ TrashCall \/ Trashed PROVE Flow
  BY <1>11 DEF Trash, TrashCall, Trashed, SaveThen, Goto, Raise, FirstRun, Early
<1>12. Flow
  BY <1>5, <1>6, <1>7, <1>8, <1>9, <1>10, <1>11 DEF Perform
<1>13. pc' = "commit" => mem'.files # {}
  BY <1>1, <1>2, <1>12 DEF PlanOK
<1> QED BY <1>1, <1>2, <1>3, <1>4, <1>12, <1>13

\* The first run touches neither the states nor the targets of the journal.
LEMMA PerformControl ==
  ASSUME TInv, ControlOK, Perform
  PROVE  ControlOK'
<1>1. TypeOK /\ 1 \in Rows /\ cur \in Rows
  BY BoundsAssumption DEF TInv, TypeOK, Rows
<1>2. \A i \in Rows : rows'[i].state = rows[i].state /\ rows'[i].target = rows[i].target /\ rows'[i].resolved = rows[i].resolved
  BY <1>1, PerformFlow, SavesManifest
<1>3. pc' \notin {"idle", "down", "recover", "rb_end"} \cup Loop
  BY PerformFlow DEF FirstRun, Early, Loop
<1> QED BY <1>1, <1>2, <1>3, PerformFlow DEF ControlOK, Backward, FirstRun, Early

\* A row settles once, and with it the row it recovered.
LEMMA SucceedControl ==
  ASSUME TInv, ControlOK, Succeed
  PROVE  ControlOK'
<1>1. TypeOK /\ TypeOK' /\ SavedOK /\ 1 \in Rows /\ cur \in Rows /\ rows \in [Rows -> Row]
  BY SucceedType, BoundsAssumption DEF TInv, TypeOK, Rows
<1>2. CASE Commit \/ CleanStage \/ Cleaned
  <2>1. Saves /\ mem' \in Manifest /\ UNCHANGED <<kind, cur, outcome>>
    BY <1>1, <1>2 DEF Commit, CleanStage, Cleaned, Goto, Saves, world, TypeOK
  <2>2. \A i \in Rows : rows'[i].state = rows[i].state /\ rows'[i].target = rows[i].target /\ rows'[i].resolved = rows[i].resolved
    BY <1>1, <2>1, SavesManifest
  <2>3. /\ pc' \in {"cleanup", "idle", "finish"} \/ (pc' = "rb_clean" /\ pc = "rb_clean" /\ UNCHANGED mem)
        /\ pc' \in {"cleanup", "idle"} => outcome = "none"
        /\ pc' \notin {"idle", "down"} => pc \notin {"idle", "down"}
    BY <1>2 DEF Commit, CleanStage, Cleaned, Goto, ControlOK
  <2> QED BY <1>1, <2>1, <2>2, <2>3 DEF ControlOK, Backward, FirstRun, Early, Loop
<1>3. CASE Finish
  <2>1. rows[cur].state = "accepted" /\ UNCHANGED <<kind, cur>> /\ pc' = "idle" /\ outcome' = "none"
    BY <1>3 DEF Finish, ControlOK, world
  <2> DEFINE t == rows[cur].target
  <2>2. t \in {0} \cup Rows /\ (t = 0 <=> cur = 1)
    BY <1>1, <2>1 DEF Row, ControlOK
  <2>3. PICK st \in Settled : st = Result
    BY <1>1, <1>3, FinishRows
  <2>4. /\ \A i \in Rows : rows'[i].target = rows[i].target
        /\ \A i \in Rows \ {cur} : rows'[i].state = rows[i].state
        /\ rows'[cur].state \in {st, rows[cur].state}
        /\ \A i \in Rows : rows'[i].resolved => rows[i].resolved \/ i = t
    BY <1>1, <1>3, <2>3, FinishRows DEF FinishedRows
  <2>5. "accepted" # "none" /\ st # "none"
    BY <2>3 DEF Settled, Completed
  <2>6. rows'[1].state # "recovery_required" => cur = 1 /\ \A i \in Rows \ {1} : rows'[i].state = "none"
    BY <1>1, <2>1, <2>4 DEF ControlOK
  <2>7. rows'[1].resolved => rows'[1].state = "recovery_required"
    BY <1>1, <2>1, <2>2, <2>4 DEF ControlOK
  <2>8. \A i \in Rows : rows'[i].target = 0 <=> i = 1 \/ rows'[i].state = "none"
    BY <1>1, <2>1, <2>4, <2>5 DEF ControlOK
  <2>9. rows'[cur].state # "none"
    BY <2>1, <2>4, <2>5
  <2> QED BY <2>1, <2>6, <2>7, <2>8, <2>9 DEF ControlOK, Backward, FirstRun, Early, Loop
<1> QED BY <1>2, <1>3 DEF Succeed

\* A rollback walks the set, and ends with what it found.
LEMMA RollbackControl ==
  ASSUME TInv, ControlOK, Rollback
  PROVE  ControlOK'
<1>1. TypeOK /\ TypeOK' /\ 1 \in Rows /\ cur \in Rows /\ mem \in Manifest /\ mem' \in Manifest
  BY RollbackType, BoundsAssumption DEF TInv, TypeOK, Rows
<1>2. Saves /\ UNCHANGED <<kind, cur>> /\ mem'.files = mem.files /\ pc \in Backward
  <2>1. UNCHANGED <<kind, cur>> /\ pc \in Backward
    BY <1>1, RollbackKeeps DEF Backward
  <2>2. mem'.files = mem.files
    BY <1>1, RollbackKeeps DEF WithdrawOutput, Manifest
  <2>3. Saves
    BY DEF Rollback, RollbackCheck, WithdrawOutput, QuarantineCheck, QuarantineRename, QuarantineUnlink,
           RestoreClaim, RollbackEnd, Saves
  <2> QED BY <2>1, <2>2, <2>3
<1>3. \A i \in Rows : rows'[i].state = rows[i].state /\ rows'[i].target = rows[i].target /\ rows'[i].resolved = rows[i].resolved
  BY <1>1, <1>2, SavesManifest
<1> DEFINE Flow == /\ pc' \in Backward \/ (pc' = "commit" /\ outcome' = "none" /\ mem.files # {}) \/ pc' = "finish"
                   /\ pc' \in Backward => outcome' = outcome \/ outcome' = "failed"
                   /\ pc' = "rb_end" /\ ~errors' => mem'.files = {}
                   /\ pc' \in Loop => todo' # {} /\ todo' \subseteq mem'.files
<1>4. todo \subseteq Roles
  BY <1>1 DEF TypeOK
<1>5. ASSUME RollbackCheck PROVE Flow
  BY <1>2, <1>5 DEF RollbackCheck, Goto, Backward, Loop
<1>6. ASSUME WithdrawOutput \/ QuarantineCheck \/ QuarantineRename \/ QuarantineUnlink PROVE Flow
  BY <1>2, <1>6 DEF WithdrawOutput, QuarantineCheck, QuarantineRename, QuarantineUnlink, ControlOK, Goto, Backward, Loop
<1>7. ASSUME RestoreClaim PROVE Flow
  BY <1>2, <1>4, <1>7, FirstLast DEF RestoreClaim, ControlOK, Goto, Backward, Loop
<1>8. ASSUME RollbackEnd PROVE Flow
  BY <1>2, <1>8 DEF RollbackEnd, ControlOK, Goto, Raise, Backward, Loop
<1>9. Flow
  BY <1>5, <1>6, <1>7, <1>8 DEF Rollback
<1>10. pc' \notin {"idle", "down", "recover", "cleanup"} \cup FirstRun
  BY <1>9 DEF Backward, FirstRun, Early
<1> QED BY <1>1, <1>2, <1>3, <1>9, <1>10 DEF ControlOK, Backward, FirstRun, Early

\* A recovery runs on behalf of a row that waits for one.
LEMMA OtherControl ==
  ASSUME TInv, ControlOK, SubmitRecovery \/ Recover \/ ExecuteAgain \/ Crash \/ Restart \/ UserEdit
  PROVE  ControlOK'
<1>1. TypeOK /\ SavedOK /\ 1 \in Rows /\ cur \in Rows /\ rows \in [Rows -> Row] /\ \A i \in Rows : i # 0
  BY BoundsAssumption DEF TInv, TypeOK, Rows
<1>2. CASE SubmitRecovery
  <2>1. PICK i, t \in Rows : /\ rows[i].state = "none" /\ Unresolved(t) /\ cur' = i
                             /\ rows' = [rows EXCEPT ![i].state = "accepted", ![i].target = t]
    BY <1>2 DEF SubmitRecovery
  <2>2. /\ \A j \in Rows \ {i} : rows'[j] = rows[j]
        /\ rows'[i].state = "accepted" /\ rows'[i].target = t /\ \A j \in Rows : rows'[j].manifest = rows[j].manifest
    BY <1>1, <2>1 DEF Row
  <2>3. rows[1].state = "recovery_required" /\ i # 1
    BY <1>1, <2>1 DEF ControlOK, SavedOK, Unresolved
  <2>4. pc' = "recover" /\ outcome' = outcome /\ outcome = "none" /\ kind' = kind /\ mem'.files = {}
    BY <1>2 DEF SubmitRecovery, Goto, ControlOK, world, NoManifest
  <2> QED BY <1>1, <2>1, <2>2, <2>3, <2>4 DEF ControlOK, Backward, FirstRun, Early, Loop, Unresolved
<1>3. CASE Recover
  <2>1. Saves /\ mem' \in Manifest /\ UNCHANGED <<kind, cur>> /\ cur # 1 /\ rows[cur].target \in Rows
    BY <1>1, <1>3 DEF Recover, SaveThen, Saves, world, SavedOK, TypeOK, Row
  <2>2. \A i \in Rows : rows'[i].state = rows[i].state /\ rows'[i].target = rows[i].target /\ rows'[i].resolved = rows[i].resolved
    BY <1>1, <2>1, SavesManifest
  <2>3. pc' = "rollback" /\ (outcome' = "none" => mem'.files # {})
    BY <1>3 DEF Recover, SaveThen, Goto, Raise, ControlOK
  <2> QED BY <1>1, <1>3, <2>1, <2>2, <2>3 DEF ControlOK, Recover, Backward, FirstRun, Early, Loop
<1>4. CASE ExecuteAgain
  <2>1. PICK i \in Rows : rows[i].state = "accepted" /\ rows' = [rows EXCEPT ![i].state = "recovery_required"]
    BY <1>4 DEF ExecuteAgain
  <2>2. /\ \A j \in Rows \ {i} : rows'[j] = rows[j]
        /\ rows'[i].state = "recovery_required" /\ rows'[i].target = rows[i].target /\ rows'[i].resolved = rows[i].resolved
    BY <1>1, <2>1 DEF Row
  <2>3. pc = "idle" /\ UNCHANGED <<kind, cur, pc, outcome>>
    BY <1>4 DEF ExecuteAgain, world
  <2> QED BY <1>1, <2>1, <2>2, <2>3 DEF ControlOK, Backward, FirstRun, Early, Loop
<1>5. CASE Crash
  BY <1>1, <1>5 DEF Crash, ControlOK, request, Backward, FirstRun, Early, Loop
<1>6. CASE Restart
  <2>1. \A i \in Rows : /\ rows'[i].target = rows[i].target /\ rows'[i].resolved = rows[i].resolved
                        /\ rows'[i].state = rows[i].state
                           \/ (rows[i].state = "accepted" /\ rows'[i].state \in {"recovery_required", "cancelled"})
    <3> SUFFICES ASSUME NEW i \in Rows
                 PROVE  /\ rows'[i].target = rows[i].target /\ rows'[i].resolved = rows[i].resolved
                        /\ rows'[i].state = rows[i].state
                           \/ (rows[i].state = "accepted" /\ rows'[i].state \in {"recovery_required", "cancelled"})
      OBVIOUS
    <3>1. PICK st \in {"recovery_required", "cancelled"} :
            rows'[i] = rows[i] \/ (rows[i].state = "accepted" /\ rows'[i] = [rows[i] EXCEPT !.state = st])
      BY <1>6 DEF Restart
    <3>2. rows[i] \in Row
      BY <1>1
    <3> QED BY <3>1, <3>2 DEF Row
  <2>2. pc' = "idle" /\ UNCHANGED <<kind, cur, outcome>> /\ outcome = "none"
    BY <1>6 DEF Restart, Goto, world, ControlOK
  <2> QED BY <1>1, <2>1, <2>2 DEF ControlOK, Backward, FirstRun, Early, Loop
<1>7. CASE UserEdit
  BY <1>7 DEF UserEdit, ControlOK, request
<1> QED BY <1>2, <1>3, <1>4, <1>5, <1>6, <1>7

\* So every step keeps the control.
LEMMA ControlStep ==
  ASSUME TInv, ControlOK, [Next]_vars
  PROVE  ControlOK'
<1>1. CASE UNCHANGED vars
  BY <1>1 DEF vars, ControlOK
<1> QED BY <1>1, PerformControl, SucceedControl, RollbackControl, OtherControl DEF Next, Service

-----------------------------------------------------------------------------
(* Manifests: what is saved tells what was done.                            *)

\* A manifest goes on telling what was done while nothing more is.
LEMMA FitsKept ==
  ASSUME NEW m \in Manifest, Fits(m), UNCHANGED <<kind, original>>,
         \A r \in Roles :
           /\ Out(r)' => Out(r) \/ (m.files # {} => r \in m.files \ m.excluded /\ "publish" \in m.intents)
           /\ Exists(r, "stage")' => Exists(r, "stage") \/ kind = "metadata" \/ (m.files # {} => r \in m.files)
           /\ data'[r]["copy"] = "partial" => \/ data[r]["copy"] = "partial" \/ kind = "metadata"
                                             \/ r \notin m.prov
  PROVE  Fits(m)'
BY DEF Fits, Manifest

\* One more intent is the manifest of a set all the same.
LEMMA FitsDeclared ==
  ASSUME NEW n, mem \in Manifest, Fits(mem), mem' = Declare(n), mem.files # {}, n = "trash" => kind = "trash"
  PROVE  Fits(mem')
<1>1. /\ mem'.intents = mem.intents \cup {n} /\ mem'.files = mem.files /\ mem'.prov = mem.prov
      /\ mem'.excluded = mem.excluded /\ mem'.generated = mem.generated /\ mem'.quarantined = mem.quarantined
  BY DEF Declare, Manifest
<1> QED BY <1>1 DEF Fits

\* Nothing new becomes visible, and nothing is half written but what is annotated.
Quiet ==
  /\ UNCHANGED <<kind, original>>
  /\ \A r \in Roles : /\ Out(r)' => Out(r)
                      /\ kind # "metadata" /\ Exists(r, "stage")' => Exists(r, "stage")
                      /\ kind # "metadata" /\ data'[r]["copy"] = "partial" => data[r]["copy"] = "partial"

\* Then the manifests go on fitting, the one that is saved included.
LEMMA QuietManifests ==
  ASSUME TypeOK, ManifestsOK, mem' \in Manifest, Saves, Quiet, Fits(mem')
  PROVE  Fits(mem)' /\ \A i \in Rows : Fits(rows[i].manifest)'
<1>1. PICK m \in Manifest : m = mem'
  OBVIOUS
<1>2. Fits(m)
  BY <1>1
<1>3. Fits(m)'
  BY <1>2, FitsKept DEF Quiet
<1>4. Fits(mem)'
  BY <1>1, <1>3 DEF Fits
<1>5. ASSUME NEW i \in Rows PROVE Fits(rows[i].manifest)'
  <2>1. PICK k \in Manifest : k = rows[i].manifest
    BY DEF TypeOK, Row
  <2>2. Fits(k)
    BY <2>1 DEF ManifestsOK
  <2>3. Fits(k)'
    BY <2>2, FitsKept DEF Quiet
  <2>4. rows'[i].manifest = k \/ rows'[i].manifest = m
    BY <1>1, <2>1, SavesManifest
  <2> QED BY <1>3, <2>3, <2>4 DEF Fits
<1> QED BY <1>4, <1>5

\* A step that leaves the names alone is quiet.
LEMMA StoreQuiet == ASSUME UNCHANGED <<store, kind, original>> PROVE Quiet
BY DEF store, Quiet, Out, Exists

\* A step that only takes names away is quiet.
LEMMA ShrinkQuiet == ASSUME FilesShrink, UNCHANGED <<data, kind, original>>, \A r \in Roles : fs[r]["stage"] \in {"none", "copy"}
                     PROVE Quiet
BY DEF FilesShrink, Quiet, Exists

\* What the first run saves fits what it has done.
LEMMA PerformManifests ==
  ASSUME TInv, TInv', ControlOK, ManifestsOK, Perform
  PROVE  ManifestsOK'
<1>1. /\ TypeOK /\ SavedOK /\ KnownOK /\ NamesOK /\ PlanOK /\ mem \in Manifest /\ mem' \in Manifest /\ cur = 1
      /\ pc \in FirstRun /\ UNCHANGED <<kind, original, cur>> /\ Saves /\ Fits(mem) /\ 1 \in Rows
  BY PerformFlow, BoundsAssumption DEF TInv, ManifestsOK, TypeOK, Rows
<1>2. /\ fs \in FsType /\ data \in DataType /\ First(todo) \in Roles /\ dest \in {"source", "dest"}
      /\ "stage" \in Names /\ "claim" \in Names /\ "source" \in Names /\ dest \in Names /\ "copy" \in Inodes
      /\ todo \subseteq Roles
  BY <1>1, FirstLast DEF TypeOK, FsType, DataType, Names, dest, DestOf, Inodes
<1> DEFINE Fitting == Fits(mem)' /\ \A i \in Rows : Fits(rows[i].manifest)'
           Rest == /\ pc' = "stage" => mem'.prov = {}
                   /\ pc' = "copy_stage" => todo' \cap mem'.prov = {}
                   /\ pc' \in {"annotate", "record"} => kind = "metadata"
                   /\ pc' \in {"stage", "copy_stage", "annotate", "record"} => mem'.generated = {}
                   /\ pc' \in Early => \A r \in Roles : data'[r]["copy"] = "good" \/ (pc' = "record" /\ r = "image")
<1>3. ASSUME Fitting, Rest PROVE ManifestsOK'
  BY <1>1, <1>3 DEF ManifestsOK
<1>4. CASE Plan
  <2>1. PICK f \in {{}, original}, ex \in SUBSET (original \cap {"sidecar"}) :
          \/ mem' = [NoManifest EXCEPT !.files = f, !.excluded = ex]
          \/ ex = {} /\ mem' = [NoManifest EXCEPT !.files = f]
          \/ f = {} /\ ex = {} /\ mem' = NoManifest
    <3>1. \/ \E ex \in SUBSET (original \cap {"sidecar"}) : mem' = [NoManifest EXCEPT !.files = original, !.excluded = ex]
          \/ \E f \in {{}, original} : mem' = [NoManifest EXCEPT !.files = f]
          \/ mem' = NoManifest
      BY <1>4 DEF Plan
    <3> QED BY <3>1
  <2>2. /\ mem'.files = f /\ mem'.excluded = ex /\ mem'.generated = {} /\ mem'.prov = {} /\ mem'.intents = {}
        /\ mem'.quarantined = {}
    <3>1. CASE mem' = [NoManifest EXCEPT !.files = f, !.excluded = ex]
      BY <3>1 DEF NoManifest
    <3>2. CASE ex = {} /\ mem' = [NoManifest EXCEPT !.files = f]
      BY <3>2 DEF NoManifest
    <3>3. CASE f = {} /\ ex = {} /\ mem' = NoManifest
      BY <3>3 DEF NoManifest
    <3> QED BY <2>1, <3>1, <3>2, <3>3
  <2>3. /\ UNCHANGED <<store, rows>> /\ pc = "plan" /\ pc' \in {"claims", "stage", "rollback"}
    BY <1>4 DEF Plan, Goto, Raise
  <2>4. \A r \in Roles : ~Out(r) /\ ~Exists(r, "stage")
    <3>1. mem.intents = {} /\ rows[1].manifest.intents = {} /\ pc \in Early
      BY <1>1, <2>3 DEF PlanOK, SavedOK, NoManifest, Early
    <3> QED BY <1>1, <3>1 DEF NamesOK, KnownOK
  <2>5. Fits(mem')
    BY <1>1, <2>2, <2>4 DEF Fits, TypeOK
  <2>6. Fitting
    BY <1>1, <2>3, <2>5, StoreQuiet, QuietManifests
  <2>7. Rest
    BY <1>2, <2>2, <2>3 DEF ManifestsOK, Early, store
  <2> QED BY <1>3, <2>6, <2>7
<1>5. CASE Stage \/ Claims \/ Publish \/ (Trash /\ mem' = Declare("trash"))
  <2>1. PICK n \in {"stage", "claim", "publish", "trash"} : mem' = Declare(n) /\ (n = "trash" => pc = "trash")
    BY <1>5 DEF Stage, Claims, Publish, Trash
  <2>2. /\ mem'.files = mem.files /\ mem'.generated = mem.generated /\ mem'.prov = mem.prov /\ mem'.excluded = mem.excluded
    BY <1>1, <2>1 DEF Declare, Manifest
  <2>3. UNCHANGED store /\ pc \in {"stage", "claims", "publish", "trash"}
    BY <1>5 DEF Stage, Claims, Publish, Trash
  <2>4. mem.files # {}
    BY <1>1, <2>3 DEF PlanOK, FirstRun, Early
  <2>5. Fits(mem')
    BY <1>1, <2>1, <2>4, FitsDeclared DEF PlanOK
  <2>6. Fitting
    BY <1>1, <2>3, <2>5, StoreQuiet, QuietManifests
  <2>7. /\ pc' \in {"rollback", "claim_check", "link", "trash_call"} \/ (pc = "stage" /\ pc' = "copy_stage")
        /\ pc' \in Early => pc \in {"stage", "claims"}
    BY <1>5 DEF Stage, Claims, Publish, Trash, SaveThen, Goto, Raise, Early
  <2>8. Rest
    BY <1>2, <2>2, <2>3, <2>7 DEF ManifestsOK, Early, store
  <2> QED BY <1>3, <2>6, <2>8
<1>6. CASE PrepareAttributes \/ ClaimCheck \/ Checkpoint \/ CheckOutput \/ Trashed \/ (Trash /\ UNCHANGED mem)
  <2>1. UNCHANGED <<store, mem>>
    BY <1>6 DEF PrepareAttributes, ClaimCheck, Checkpoint, CheckOutput, Trash, Trashed
  <2>2. Fitting
    BY <1>1, <2>1, StoreQuiet, QuietManifests
  <2>3. /\ pc' \notin {"stage", "copy_stage", "annotate", "record"} /\ pc # "record"
        /\ pc' \in Early => pc \in Early
    BY <1>6 DEF PrepareAttributes, ClaimCheck, Checkpoint, CheckOutput, Trash, Trashed, SaveThen, Goto, Raise, Early
  <2>4. Rest
    BY <2>1, <2>3 DEF ManifestsOK, store
  <2> QED BY <1>3, <2>2, <2>4
<1>7. CASE CopyStage
  <2>1. PICK r \in Roles :
          /\ r = First(todo) /\ todo # {}
          /\ UNCHANGED fs \/ fs' = [fs EXCEPT ![r]["stage"] = "copy"]
          /\ \/ pc' = "rollback" /\ UNCHANGED mem /\ data' \in {data, [data EXCEPT ![r]["copy"] = "partial"]}
             \/ /\ mem' = [mem EXCEPT !.prov = @ \cup {r}] /\ todo' = todo \ {r} /\ UNCHANGED data
                /\ pc' = IF todo = {r} THEN AfterStaging ELSE "copy_stage"
    BY <1>2, <1>7 DEF CopyStage, store, Goto, Raise
  <2>2. /\ mem'.intents = mem.intents /\ mem'.files = mem.files /\ mem'.prov \in {mem.prov, mem.prov \cup {r}}
        /\ mem'.excluded = mem.excluded /\ mem'.generated = mem.generated /\ mem'.quarantined = mem.quarantined
        /\ pc' # "rollback" => mem'.prov = mem.prov \cup {r} /\ UNCHANGED data
    BY <1>1, <2>1 DEF Manifest
  <2>3. pc = "copy_stage" /\ pc \in Early /\ r \in todo /\ r \in mem.files /\ r \notin mem.prov /\ data[r]["copy"] = "good"
    BY <1>1, <1>2, <1>7, <2>1, FirstLast DEF CopyStage, PlanOK, Kept, ManifestsOK, Early
  <2>4. UNCHANGED rows
    BY <1>7 DEF CopyStage
  <2>5. /\ \A k \in Roles : /\ Out(k)' => Out(k)
                            /\ Exists(k, "stage")' => Exists(k, "stage") \/ k = r
                            /\ data'[k]["copy"] = data[k]["copy"] \/ (k = r /\ UNCHANGED mem)
    <3>1. /\ \A k \in Roles, l \in Names : fs'[k][l] = fs[k][l] \/ (k = r /\ l = "stage" /\ fs'[k][l] = "copy")
          /\ \A k \in Roles : \/ data'[k]["copy"] = data[k]["copy"]
                              \/ k = r /\ data'[k]["copy"] = "partial" /\ UNCHANGED mem
      BY <1>2, <2>1 DEF FsType, DataType
    <3>2. ASSUME NEW k \in Roles PROVE Out(k)' => Out(k)
      BY <1>2, <3>1 DEF Out, Names
    <3>3. ASSUME NEW k \in Roles PROVE Exists(k, "stage")' => Exists(k, "stage") \/ k = r
      BY <1>2, <3>1 DEF Exists
    <3> QED BY <3>1, <3>2, <3>3
  <2>6. Fits(mem')
    BY <1>1, <2>2, <2>3 DEF Fits
  <2>7. Fits(mem)'
    <3>1. PICK m \in Manifest : m = mem'
      BY <1>1
    <3>2. Fits(m) /\ (UNCHANGED mem => m = mem)
      BY <2>6, <3>1
    <3>3. r \in m.files /\ (UNCHANGED mem => r \notin m.prov)
      BY <2>2, <2>3, <3>1
    <3>4. Fits(m)'
      BY <1>1, <2>5, <3>2, <3>3, FitsKept
    <3> QED BY <3>1, <3>4 DEF Fits
  <2>8. ASSUME NEW i \in Rows PROVE Fits(rows[i].manifest)'
    <3>1. PICK m \in Manifest : m = rows[i].manifest
      BY <1>1 DEF TypeOK, Row
    <3>2. Fits(m) /\ m = rows'[i].manifest
      BY <2>4, <3>1 DEF ManifestsOK
    <3>3. r \notin m.prov /\ (m.files # {} => kind = "metadata" \/ r \in m.files)
      <4>1. i # 1 => m = NoManifest
        BY <1>1, <3>1 DEF PlanOK
      <4>2. i = 1 => m.prov \subseteq mem.prov
        BY <1>1, <2>3, <3>1 DEF SavedOK
      <4>3. kind # "metadata" => mem.files = original /\ (m.files # {} => original \subseteq m.files)
        BY <1>1, <2>3, <3>2 DEF Fits
      <4> QED BY <2>3, <4>1, <4>2, <4>3 DEF NoManifest
    <3>4. Fits(m)'
      BY <1>1, <2>5, <3>2, <3>3, FitsKept
    <3> QED BY <3>2, <3>4 DEF Fits
  <2>9. Rest
    <3>1. AfterStaging \in {"annotate", "attributes"} /\ (AfterStaging = "annotate" => kind = "metadata")
      BY DEF AfterStaging
    <3>2. \A k \in Roles : data[k]["copy"] = "good"
      BY <2>3 DEF ManifestsOK
    <3> QED BY <2>1, <2>2, <2>3, <3>1, <3>2 DEF ManifestsOK, Early
  <2>10. Fitting
    BY <2>7, <2>8
  <2> QED BY <1>3, <2>9, <2>10
<1>8. CASE Annotate
  <2>1. /\ UNCHANGED fs \/ fs' = [fs EXCEPT !["sidecar"]["stage"] = "copy"]
        /\ UNCHANGED data \/ data' = [data EXCEPT !["image"]["copy"] = "partial"]
        /\ pc' \in {"rollback", "record"} /\ UNCHANGED mem /\ pc = "annotate"
    BY <1>8 DEF Annotate, Goto, Raise
  <2>2. /\ \A k \in Roles, l \in Names : fs'[k][l] = fs[k][l] \/ (l = "stage" /\ fs'[k][l] = "copy")
        /\ \A k \in Roles : data'[k]["copy"] = data[k]["copy"] \/ (k = "image" /\ data'[k]["copy"] = "partial")
    BY <1>2, <2>1 DEF FsType, DataType, Roles
  <2>3. kind = "metadata" /\ mem.generated = {} /\ \A k \in Roles : data[k]["copy"] = "good"
    BY <2>1 DEF ManifestsOK, Early
  <2>4. Quiet
    <3>1. ASSUME NEW k \in Roles PROVE Out(k)' => Out(k)
      BY <2>2 DEF Out, Names
    <3> QED BY <1>1, <2>3, <3>1 DEF Quiet
  <2>5. Fitting
    BY <1>1, <2>1, <2>4, QuietManifests
  <2>6. Rest
    BY <2>1, <2>2, <2>3 DEF Early
  <2> QED BY <1>3, <2>5, <2>6
<1>9. CASE RecordAnnotation
  <2>1. PICK new \in SUBSET (Roles \ mem.files) :
          mem' = [mem EXCEPT !.files = @ \cup new, !.generated = new, !.prov = mem.files \cup new]
    BY <1>9 DEF RecordAnnotation
  <2>2. /\ mem'.intents = mem.intents /\ mem'.files = mem.files \cup new /\ mem'.prov = mem.files \cup new
        /\ mem'.excluded = mem.excluded /\ mem'.generated = new /\ mem'.quarantined = mem.quarantined
    BY <1>1, <2>1 DEF Manifest
  <2>3. /\ UNCHANGED fs /\ data' = [data EXCEPT !["image"]["copy"] = "good"] /\ pc' \in {"attributes", "rollback"}
        /\ pc = "record"
    BY <1>9 DEF RecordAnnotation, SaveThen, Goto, Raise
  <2>4. /\ kind = "metadata" /\ mem.generated = {} /\ data["sidecar"]["copy"] = "good" /\ mem.files # {}
        /\ \A k \in Roles : ~Out(k)
    BY <1>1, <2>3 DEF ManifestsOK, Early, PlanOK, FirstRun, Roles, NamesOK
  <2>5. \A k \in Roles : data'[k]["copy"] = "good"
    BY <1>2, <2>3, <2>4 DEF DataType, Roles
  <2>6. Fits(mem')
    BY <1>1, <2>2, <2>4 DEF Fits
  <2>7. Quiet
    <3>1. ASSUME NEW k \in Roles PROVE Out(k)' => Out(k)
      BY <2>3, <2>5 DEF Out, Names
    <3> QED BY <1>1, <2>4, <3>1 DEF Quiet
  <2>8. Fitting
    BY <1>1, <2>6, <2>7, QuietManifests
  <2>9. Rest
    BY <2>3, <2>5 DEF Early
  <2> QED BY <1>3, <2>8, <2>9
<1>10. CASE ClaimRename
  <2>1. PICK r \in Roles : UNCHANGED fs \/ fs' = Rename(r, "source", "claim")
    BY <1>2, <1>10 DEF ClaimRename
  <2>2. \A k \in Roles, l \in Names : fs'[k][l] \in {fs[k][l], "none"} \/ (k = r /\ l = "claim" /\ fs'[k][l] = fs[r]["source"])
    BY <1>2, <2>1, Primitives
  <2>3. UNCHANGED <<data, mem>> /\ pc = "claim_rename" /\ pc \in Early /\ \A k \in Roles : ~Out(k)
    BY <1>1, <1>10 DEF ClaimRename, NamesOK, Early
  <2>4. Quiet
    <3>1. ASSUME NEW k \in Roles PROVE Out(k)' => Out(k)
      BY <1>2, <2>2, <2>3 DEF Out, Names
    <3>2. ASSUME NEW k \in Roles PROVE Exists(k, "stage")' => Exists(k, "stage")
      BY <1>2, <2>2 DEF Exists, Names
    <3> QED BY <1>1, <2>3, <3>1, <3>2 DEF Quiet
  <2>5. Fitting
    BY <1>1, <2>3, <2>4, QuietManifests
  <2>6. pc' \in {"rollback", "commit", "publish", "checkpoint", "claim_check"}
    BY <1>10 DEF ClaimRename, Goto, Raise, AfterClaims
  <2>7. Rest
    BY <2>3, <2>6 DEF ManifestsOK
  <2> QED BY <1>3, <2>5, <2>7
<1>11. CASE LinkOutput
  <2>1. PICK r \in Roles : r = First(todo) /\ (UNCHANGED fs \/ fs' = Link(r, "stage", dest))
    BY <1>2, <1>11 DEF LinkOutput
  <2>2. /\ r \in Kept /\ rows[1].manifest = mem /\ "publish" \in mem.intents
        /\ \A i \in Rows \ {1} : rows[i].manifest = NoManifest
    BY <1>1, <1>11, <2>1, FirstLast DEF LinkOutput, PlanOK, FirstRun, TypeOK
  <2>3. /\ \A k \in Roles, l \in Names : fs'[k][l] = fs[k][l] \/ (k = r /\ l = dest /\ fs'[k][l] = fs[r]["stage"])
        /\ dest # "stage" /\ UNCHANGED <<data, mem, rows>> /\ pc' \in {"rollback", "link", "check_output"}
    BY <1>2, <1>11, <2>1, Primitives DEF LinkOutput, Goto, Raise
  <2>4. /\ \A k \in Roles : (Out(k)' => Out(k) \/ k = r) /\ Exists(k, "stage")' = Exists(k, "stage")
    BY <1>2, <2>3 DEF Out, Exists, Names
  <2>5. ASSUME NEW m \in Manifest, Fits(m), m \in {mem, NoManifest} PROVE Fits(m)'
    <3>1. m.files # {} => r \in m.files \ m.excluded /\ "publish" \in m.intents
      BY <2>2, <2>5 DEF Kept, NoManifest
    <3> QED BY <1>1, <2>3, <2>4, <2>5, <3>1, FitsKept
  <2>6. Fits(mem)'
    <3>1. PICK m \in Manifest : m = mem
      BY <1>1
    <3> QED BY <1>1, <2>3, <2>5, <3>1 DEF Fits
  <2>7. ASSUME NEW i \in Rows PROVE Fits(rows[i].manifest)'
    <3>1. PICK m \in Manifest : m = rows[i].manifest
      BY <1>1 DEF TypeOK, Row
    <3>2. Fits(m) /\ m \in {mem, NoManifest} /\ m = rows'[i].manifest
      BY <2>2, <2>3, <3>1 DEF ManifestsOK
    <3> QED BY <2>5, <3>2 DEF Fits
  <2>8. Fitting
    BY <2>6, <2>7
  <2>9. Rest
    BY <2>3 DEF Early
  <2> QED BY <1>3, <2>8, <2>9
<1>12. CASE TrashCall
  <2>1. \A k \in Roles, l \in Names : fs'[k][l] = fs[k][l] \/ fs'[k][l] = "none"
    BY <1>2, <1>12 DEF TrashCall, FsType
  <2>2. UNCHANGED <<data, mem>> /\ pc' \in {"trashed", "rollback"}
    BY <1>12 DEF TrashCall, Goto, Raise
  <2>3. Quiet
    <3>1. ASSUME NEW k \in Roles PROVE Out(k)' => Out(k)
      BY <2>1, <2>2 DEF Out, Names
    <3>2. ASSUME NEW k \in Roles PROVE Exists(k, "stage")' => Exists(k, "stage")
      BY <1>2, <2>1 DEF Exists
    <3> QED BY <1>1, <2>2, <3>1, <3>2 DEF Quiet
  <2>4. Fitting
    BY <1>1, <2>2, <2>3, QuietManifests
  <2>5. Rest
    BY <2>2 DEF Early
  <2> QED BY <1>3, <2>4, <2>5
<1> QED BY <1>4, <1>5, <1>6, <1>7, <1>8, <1>9, <1>10, <1>11, <1>12 DEF Perform, Trash

\* So does what the success half and a rollback save.
LEMMA RestManifests ==
  ASSUME TInv, TInv', ControlOK, ManifestsOK, Succeed \/ Rollback
  PROVE  ManifestsOK'
<1>1. /\ TypeOK /\ NamesOK /\ mem \in Manifest /\ mem' \in Manifest /\ UNCHANGED <<kind, original>> /\ Fits(mem)
      /\ \A r \in Roles : fs[r]["stage"] \in {"none", "copy"}
  BY RestKeeps DEF TInv, TypeOK, NamesOK, ManifestsOK
<1>2. Quiet
  BY <1>1, RestShrinks, ShrinkQuiet
<1>3. pc' \notin Early
  BY DEF Succeed, Commit, CleanStage, Cleaned, Finish, Rollback, RollbackCheck, WithdrawOutput, QuarantineCheck,
         QuarantineRename, QuarantineUnlink, RestoreClaim, RollbackEnd, Goto, Raise, Early
<1>4. ASSUME Fits(mem)', \A i \in Rows : Fits(rows[i].manifest)' PROVE ManifestsOK'
  BY <1>3, <1>4 DEF ManifestsOK, Early
<1>5. ASSUME Saves, Fits(mem') PROVE ManifestsOK'
  BY <1>1, <1>2, <1>4, <1>5, QuietManifests
<1>6. CASE Commit
  BY <1>1, <1>5, <1>6, FitsDeclared DEF Commit, Saves, ControlOK
<1>7. CASE UNCHANGED mem /\ Saves
  BY <1>1, <1>5, <1>7
<1>8. CASE WithdrawOutput
  <2>1. PICK r \in Roles : mem' = mem \/ (r \in Kept /\ mem' = [mem EXCEPT !.quarantined = @ \cup {r}])
    BY <1>1, <1>8, FirstLast DEF WithdrawOutput, TypeOK
  <2>2. /\ mem'.intents = mem.intents /\ mem'.files = mem.files /\ mem'.prov = mem.prov
        /\ mem'.excluded = mem.excluded /\ mem'.generated = mem.generated /\ mem'.quarantined \subseteq mem.quarantined \cup Kept
    BY <1>1, <2>1 DEF Manifest
  <2>3. Fits(mem')
    BY <1>1, <2>2 DEF Fits, Kept
  <2> QED BY <1>5, <1>8, <2>3 DEF WithdrawOutput, Saves
<1>9. CASE Finish
  <2>1. mem' = NoManifest /\ \A i \in Rows : rows'[i].manifest \in {rows[i].manifest, mem}
    BY <1>1, <1>9, FinishRows DEF Finish, FinishedRows
  <2>2. ASSUME NEW m \in Manifest, Fits(m) PROVE Fits(m)'
    BY <1>2, <2>2, FitsKept DEF Quiet
  <2>3. Fits(mem)'
    BY <2>1 DEF Fits, NoManifest
  <2>4. ASSUME NEW i \in Rows PROVE Fits(rows[i].manifest)'
    <3>1. PICK m \in Manifest : m = rows'[i].manifest /\ m \in {rows[i].manifest, mem}
      BY <1>1, <2>1 DEF TypeOK, Row
    <3>2. Fits(m)
      BY <3>1 DEF ManifestsOK
    <3> QED BY <2>2, <3>1, <3>2 DEF Fits
  <2> QED BY <1>4, <2>3, <2>4
<1> QED BY <1>6, <1>7, <1>8, <1>9
     DEF Succeed, CleanStage, Cleaned, Rollback, RollbackCheck, QuarantineCheck, QuarantineRename, QuarantineUnlink,
         RestoreClaim, RollbackEnd, Saves

\* And a recovery goes on from a manifest that was saved.
LEMMA OtherManifests ==
  ASSUME TInv, TInv', ManifestsOK, SubmitRecovery \/ Recover \/ ExecuteAgain \/ Crash \/ Restart \/ UserEdit
  PROVE  ManifestsOK'
<1>1. /\ TypeOK /\ NamesOK /\ SavedOK /\ mem \in Manifest /\ mem' \in Manifest /\ UNCHANGED <<kind, original>>
      /\ rows \in [Rows -> Row]
  BY DEF TInv, TypeOK, SubmitRecovery, Recover, ExecuteAgain, Crash, Restart, UserEdit, world, request
<1>2. ASSUME NEW m \in Manifest, Fits(m), UNCHANGED store PROVE Fits(m)'
  BY <1>1, <1>2, FitsKept DEF store, Out, Exists
<1>3. ASSUME UNCHANGED store, Fits(mem'), \A i \in Rows : rows'[i].manifest \in {rows[i].manifest, mem'}
      PROVE  Fits(mem)' /\ \A i \in Rows : Fits(rows[i].manifest)'
  <2>1. PICK m \in Manifest : m = mem'
    BY <1>1
  <2>2. Fits(m) /\ Fits(m)'
    BY <1>2, <1>3, <2>1
  <2>3. ASSUME NEW i \in Rows PROVE Fits(rows[i].manifest)'
    <3>1. PICK k \in Manifest : k = rows[i].manifest
      BY <1>1 DEF Row
    <3>2. Fits(k)'
      BY <1>2, <1>3, <3>1 DEF ManifestsOK
    <3> QED BY <1>3, <2>1, <2>2, <3>1, <3>2 DEF Fits
  <2> QED BY <2>1, <2>2, <2>3 DEF Fits
<1>4. Fits(mem) /\ Fits(NoManifest)
  BY DEF ManifestsOK, Fits, NoManifest
<1>5. ASSUME UNCHANGED store, Fits(mem'), pc' \notin Early, \A i \in Rows : rows'[i].manifest \in {rows[i].manifest, mem'}
      PROVE  ManifestsOK'
  BY <1>3, <1>5 DEF ManifestsOK, Early
<1>6. CASE SubmitRecovery
  <2>1. \A i \in Rows : rows'[i].manifest = rows[i].manifest
    <3>1. PICK i, t \in Rows : rows' = [rows EXCEPT ![i].state = "accepted", ![i].target = t]
      BY <1>6 DEF SubmitRecovery
    <3> QED BY <1>1, <3>1 DEF Row
  <2> QED BY <1>4, <1>5, <1>6, <2>1 DEF SubmitRecovery, Goto, Early
<1>7. CASE Recover
  <2>1. \A i \in Rows : rows'[i].manifest \in {rows[i].manifest, mem'}
    <3>1. Saves
      BY <1>7 DEF Recover, SaveThen, Saves
    <3> QED BY <1>1, <3>1, SavesManifest
  <2>2. Fits(mem')
    BY <1>1, <1>4, <1>7 DEF Recover, SavedOK, ManifestsOK
  <2> QED BY <1>5, <1>7, <2>1, <2>2 DEF Recover, SaveThen, Goto, Raise, Early
<1>8. CASE ExecuteAgain
  <2>1. \A i \in Rows : rows'[i].manifest = rows[i].manifest
    BY <1>1, <1>8 DEF ExecuteAgain, Row
  <2> QED BY <1>4, <1>5, <1>8, <2>1 DEF ExecuteAgain, Early
<1>9. CASE Crash
  BY <1>4, <1>5, <1>9 DEF Crash, Early
<1>10. CASE Restart
  <2>1. \A i \in Rows : rows'[i].manifest = rows[i].manifest
    BY <1>1, <1>10 DEF Restart, Row
  <2> QED BY <1>4, <1>5, <1>10, <2>1 DEF Restart, Goto, Early
<1>11. CASE UserEdit
  <2>1. PICK r \in touched', l \in {"source", "dest"} :
          /\ \A k \in Roles, n \in Names : \/ fs'[k][n] = fs[k][n]
                                           \/ k = r /\ n = l /\ fs'[k][n] \in {Guest(l), "none"}
          /\ \A k \in Roles, i \in Inodes : \/ data'[k][i] = data[k][i]
                                            \/ k = r /\ i = fs[r][l] /\ data'[k][i] = "edited"
    BY <1>1, <1>11, EditEffect
  <2>2. l \in Names \ {"stage"} /\ "stage" \in Names /\ "copy" \in Inodes /\ Guest(l) # "copy"
    BY DEF Names, Inodes, Guest
  <2>3. ASSUME NEW k \in Roles, Out(k)' PROVE Out(k)
    <3>1. data'[k]["copy"] = "edited" => data[k]["copy"] = "edited" \/ fs[k][l] = "copy"
      BY <2>1, <2>2
    <3>2. \A n \in Names : fs'[k][n] = "copy" => fs[k][n] = "copy"
      BY <2>1, <2>2
    <3> QED BY <2>2, <2>3, <3>1, <3>2 DEF Out
  <2>4. Quiet
    BY <1>1, <2>1, <2>2, <2>3 DEF Quiet, Exists
  <2>5. UNCHANGED <<rows, mem, pc, todo>>
    BY <1>1, <1>11, EditEffect
  <2>6. Fits(mem)' /\ \A i \in Rows : Fits(rows[i].manifest)'
    BY <1>1, <1>4, <2>4, <2>5, QuietManifests DEF Saves
  <2>7. pc \in Early => \A k \in Roles : data'[k]["copy"] = data[k]["copy"]
    BY <1>1, <2>1, <2>2 DEF NamesOK, Out
  <2> QED BY <1>1, <2>5, <2>6, <2>7 DEF ManifestsOK
<1> QED BY <1>6, <1>7, <1>8, <1>9, <1>10, <1>11

\* So every step keeps the manifests.
LEMMA ManifestsStep ==
  ASSUME TInv, TInv', ControlOK, ManifestsOK, [Next]_vars
  PROVE  ManifestsOK'
<1>1. CASE UNCHANGED vars
  BY <1>1 DEF vars, ManifestsOK, Fits, Out, Exists
<1> QED BY <1>1, PerformManifests, RestManifests, OtherManifests DEF Next, Service

-----------------------------------------------------------------------------
(* The names of a role nobody else has touched.                             *)

\* A step that leaves the names but the stage alone leaves them steady.
LEMMA SteadyNames ==
  ASSUME NEW r \in Roles, Steady(r), UNCHANGED <<kind, original>>,
         \A l \in Names \ {"stage"} : fs'[r][l] = fs[r][l], data'[r]["original"] = data[r]["original"],
         Out(r)' => data'[r]["copy"] = "good", relinked \subseteq relinked'
  PROVE  Steady(r)'
<1>1. dest' = dest /\ dest \in Names \ {"stage"}
  BY DEF dest, DestOf, Names
<1>2. Original(r)' = Original(r)
  BY DEF Original
<1> QED BY <1>1, <1>2 DEF Steady, Names, Away

\* The first run takes originals to their claims and copies to free names.
LEMMA PerformSteady ==
  ASSUME TInv, ControlOK, ManifestsOK, Perform, NEW r \in Roles, RoleOK(r)
  PROVE  Steady(r)'
<1>1. /\ TypeOK /\ NamesOK /\ PlanOK /\ UNCHANGED <<kind, original>> /\ pc \in FirstRun /\ todo \subseteq Roles
      /\ Steady(r) /\ Forward(r) /\ UNCHANGED relinked
  BY PerformFlow DEF TInv, TypeOK, RoleOK
<1>2. /\ fs \in FsType /\ data \in DataType /\ First(todo) \in Roles /\ dest \in {"source", "dest"}
      /\ "stage" \in Names /\ "claim" \in Names /\ "source" \in Names /\ dest \in Names /\ "copy" \in Inodes
      /\ "original" \in Inodes /\ "quarantine" \in Names /\ dest' = dest /\ "dest" \in Names
  BY <1>1, FirstLast DEF TypeOK, FsType, DataType, Names, dest, DestOf, Inodes
<1>3. CASE UNCHANGED store
  <2>1. Out(r)' = Out(r)
    BY <1>3 DEF store, Out
  <2> QED BY <1>1, <1>3, <2>1, SteadyNames DEF store, Steady
<1>4. CASE CopyStage \/ Annotate \/ RecordAnnotation
  <2>1. pc \in Early
    BY <1>4 DEF CopyStage, Annotate, RecordAnnotation, Early
  <2>2. PICK q \in Roles, d \in {"partial", "good"} :
          /\ UNCHANGED fs \/ fs' = [fs EXCEPT ![q]["stage"] = "copy"]
          /\ UNCHANGED data \/ data' = [data EXCEPT ![q]["copy"] = d] \/ data' = [data EXCEPT !["image"]["copy"] = d]
    <3>1. "sidecar" \in Roles
      BY DEF Roles
    <3> QED BY <1>2, <1>4, <3>1 DEF CopyStage, Annotate, RecordAnnotation, store
  <2>3. /\ \A l \in Names \ {"stage"} : fs'[r][l] = fs[r][l]
        /\ data'[r]["original"] = data[r]["original"] /\ data'[r]["copy"] \in {data[r]["copy"], "partial", "good"}
    BY <1>2, <2>2 DEF FsType, DataType, Roles
  <2>4. ~Out(r)
    BY <1>1, <2>1 DEF NamesOK
  <2>5. ~Out(r)'
    BY <2>3, <2>4 DEF Out
  <2> QED BY <1>1, <2>3, <2>5, SteadyNames
<1>5. CASE ClaimRename
  <2>1. PICK q \in Roles : q = First(todo) /\ (UNCHANGED fs \/ fs' = Rename(q, "source", "claim")) /\ UNCHANGED data
    BY <1>2, <1>5 DEF ClaimRename
  <2>2. pc = "claim_rename" /\ q \in todo /\ fs[q]["claim"] = "none" /\ ~Out(r)
    BY <1>1, <1>5, <2>1, FirstLast DEF ClaimRename, PlanOK, NamesOK, Exists, Early
  <2>3. \A l \in Names : fs'[r][l] = fs[r][l] \/ (r = q /\ l = "claim" /\ fs'[r][l] = fs[r]["source"])
                         \/ (r = q /\ l = "source" /\ fs'[r][l] = "none")
    BY <1>2, <2>1, Primitives
  <2>4. fs[r]["source"] # "copy"
    BY <1>2, <2>2 DEF Out
  <2>5. ~Out(r)'
    BY <2>1, <2>2, <2>3, <2>4 DEF Out
  <2>6. CASE r = q /\ fs' = Rename(q, "source", "claim")
    <3>1. /\ fs'[r]["source"] = "none" /\ fs'[r]["claim"] = fs[r]["source"]
          /\ fs'[r]["dest"] = fs[r]["dest"] /\ fs'[r]["quarantine"] = fs[r]["quarantine"]
      BY <1>2, <2>6, Primitives DEF Names
    <3>2. r \in original => fs[r]["source"] = "original"
      BY <1>1, <2>2, <2>6 DEF Steady
    <3>3. fs'[r]["quarantine"] # "copy"
      BY <1>2, <2>2, <3>1 DEF Out
    <3> QED BY <1>1, <1>2, <2>1, <2>4, <2>5, <3>1, <3>2, <3>3 DEF Steady, Original, Away
  <2>7. CASE r # q \/ UNCHANGED fs
    <3>1. \A l \in Names : fs'[r][l] = fs[r][l]
      BY <2>3, <2>7
    <3> QED BY <1>1, <2>1, <2>5, <3>1, SteadyNames
  <2> QED BY <2>1, <2>6, <2>7
<1>6. CASE LinkOutput
  <2>1. PICK q \in Roles : /\ q = First(todo) /\ UNCHANGED data
                           /\ UNCHANGED fs \/ (fs[q][dest] = "none" /\ fs' = Link(q, "stage", dest))
    BY <1>2, <1>6 DEF LinkOutput, Exists
  <2>2. data[r]["copy"] = "good" /\ fs[r]["quarantine"] = "none" /\ fs[r]["stage"] \in {"none", "copy"}
    BY <1>1, <1>6 DEF LinkOutput, Forward, NamesOK, Exists
  <2>3. CASE r = q /\ fs[q][dest] = "none" /\ fs' = Link(q, "stage", dest)
    <3>1. \A l \in Names : fs'[r][l] = IF l = dest THEN fs[r]["stage"] ELSE fs[r][l]
      BY <1>2, <2>3, Primitives
    <3> QED BY <1>1, <1>2, <2>1, <2>2, <2>3, <3>1 DEF Steady, Original, Away
  <2>4. CASE r # q \/ UNCHANGED fs
    <3>1. \A l \in Names : fs'[r][l] = fs[r][l]
      BY <1>2, <2>1, <2>4, Primitives
    <3> QED BY <1>1, <2>1, <2>2, <3>1, SteadyNames
  <2> QED BY <2>1, <2>3, <2>4
<1>7. CASE TrashCall
  <2>1. /\ \A l \in Names \ {"stage"} : fs'[r][l] = fs[r][l]
        /\ UNCHANGED data
    BY <1>2, <1>7 DEF TrashCall, FsType
  <2>2. Out(r)' = Out(r)
    BY <2>1 DEF Out
  <2> QED BY <1>1, <2>1, <2>2, SteadyNames DEF Steady
<1> QED BY <1>3, <1>4, <1>5, <1>6, <1>7
     DEF Perform, Plan, Stage, PrepareAttributes, Claims, ClaimCheck, Checkpoint, Publish, CheckOutput, Trash, Trashed

\* Cleaning up and rolling back move only what is known to be a copy, and give an
\* original only the name it had.
LEMMA RestSteady ==
  ASSUME TInv, Succeed \/ Rollback, NEW r \in Roles, RoleOK(r)
  PROVE  Steady(r)'
<1>1. TypeOK /\ NamesOK /\ Steady(r) /\ Back(r) /\ UNCHANGED <<kind, original, data>>
  BY RestKeeps DEF TInv, RoleOK
<1>2. /\ fs \in FsType /\ First(todo) \in Roles /\ Last(todo) \in Roles /\ dest \in {"source", "dest"}
      /\ "stage" \in Names /\ "claim" \in Names /\ "source" \in Names /\ dest \in Names
      /\ "quarantine" \in Names /\ dest' = dest /\ "dest" \in Names
  BY <1>1, FirstLast DEF TypeOK, FsType, Names, dest, DestOf
<1>3. Out(r)' => Out(r)
  BY <1>1, RestShrinks DEF FilesShrink
<1>10. relinked \subseteq relinked'
  BY <1>1, RestKeeps
<1>4. ASSUME \A l \in Names \ {"stage"} : fs'[r][l] = fs[r][l] PROVE Steady(r)'
  BY <1>1, <1>3, <1>4, <1>10, SteadyNames DEF Steady
<1>5. CASE CleanStage
  <2>1. UNCHANGED fs \/ fs' = Unlink(First(todo), "stage")
    BY <1>5 DEF CleanStage
  <2> QED BY <1>2, <1>4, <2>1 DEF Unlink, FsType
<1>6. CASE QuarantineRename
  <2>1. PICK q \in Roles : q = Last(todo) /\ (UNCHANGED fs \/ fs' = Rename(q, dest, "quarantine"))
    BY <1>2, <1>6 DEF QuarantineRename
  <2>2. CASE r = q /\ fs' = Rename(q, dest, "quarantine")
    <3>1. \A l \in Names : fs'[r][l] = IF l = dest THEN "none" ELSE IF l = "quarantine" THEN fs[r][dest] ELSE fs[r][l]
      BY <1>2, <2>2, Primitives DEF Names
    <3>2. fs[r][dest] = "copy"
      BY <1>1, <1>6, <2>1, <2>2 DEF QuarantineRename, Back
    <3> QED BY <1>1, <1>2, <1>3, <1>10, <3>1, <3>2 DEF Steady, Original, Away
  <2>3. CASE r # q \/ UNCHANGED fs
    BY <1>2, <1>4, <2>1, <2>3, Primitives
  <2> QED BY <2>1, <2>2, <2>3
<1>7. CASE QuarantineUnlink
  <2>1. PICK q \in Roles :
          /\ q = Last(todo)
          /\ \/ UNCHANGED fs \/ fs' = Unlink(q, "quarantine")
             \/ fs[q][dest] = "none" /\ fs' = Link(q, "quarantine", dest) /\ q \in relinked'
    BY <1>1, <1>2, <1>7, Unlinked DEF Exists
  <2>2. CASE r = q /\ fs' = Unlink(q, "quarantine")
    <3>1. \A l \in Names : fs'[r][l] = IF l = "quarantine" THEN "none" ELSE fs[r][l]
      BY <1>2, <2>2 DEF Unlink, FsType
    <3> QED BY <1>1, <1>2, <1>3, <3>1 DEF Steady, Original, Away
  <2>3. CASE r = q /\ fs[q][dest] = "none" /\ fs' = Link(q, "quarantine", dest) /\ q \in relinked'
    <3>1. fs[r]["quarantine"] \in {"none", "copy"} /\ dest # "claim" /\ (dest = "source" => "source" # "dest")
      BY <1>1, <1>2 DEF Steady
    <3>2. \A l \in Names : fs'[r][l] = IF l = dest THEN fs[r]["quarantine"] ELSE fs[r][l]
      BY <1>2, <2>3, Primitives
    <3>3. Away(r)'
      BY <2>3 DEF Away
    <3>4. fs[r]["source"] = "original" => fs'[r]["source"] = "original"
      BY <1>2, <2>3, <3>2
    <3> QED BY <1>1, <1>2, <1>3, <2>3, <3>1, <3>2, <3>3, <3>4 DEF Steady, Original
  <2>4. CASE r # q \/ UNCHANGED fs
    <3>1. r # q => \A l \in Names : Unlink(q, "quarantine")[r][l] = fs[r][l] /\ Link(q, "quarantine", dest)[r][l] = fs[r][l]
      BY <1>2 DEF Unlink, Link, FsType
    <3> QED BY <1>4, <2>1, <2>4, <3>1
  <2> QED BY <2>1, <2>2, <2>3, <2>4
<1>8. CASE RestoreClaim
  <2>1. PICK q \in Roles :
          /\ q = Last(todo)
          /\ \/ UNCHANGED fs
             \/ fs[q]["source"] = "none" /\ Verify(q, "claim", "original") /\ fs' = Link(q, "claim", "source")
    BY <1>2, <1>8 DEF RestoreClaim, Exists
  <2>2. CASE r = q /\ fs[q]["source"] = "none" /\ Verify(q, "claim", "original") /\ fs' = Link(q, "claim", "source")
    <3>1. \A l \in Names : fs'[r][l] = IF l = "source" THEN "original" ELSE fs[r][l]
      BY <1>2, <2>2, Primitives DEF Verify
    <3>2. r \in original
      BY <1>1, <2>2 DEF Steady, Original, Verify
    <3> QED BY <1>1, <1>2, <1>3, <1>10, <3>1, <3>2 DEF Steady, Original, Away
  <2>3. CASE r # q \/ UNCHANGED fs
    <3>1. r # q => \A l \in Names : Link(q, "claim", "source")[r][l] = fs[r][l]
      BY <1>2 DEF Link, FsType
    <3> QED BY <1>4, <2>1, <2>3, <3>1
  <2> QED BY <2>1, <2>2, <2>3
<1>9. CASE UNCHANGED fs
  BY <1>4, <1>9
<1> QED BY <1>5, <1>6, <1>7, <1>8, <1>9
     DEF Succeed, Commit, Cleaned, Finish, Rollback, RollbackCheck, WithdrawOutput, QuarantineCheck, RollbackEnd, store

\* The first run: every original is where the steps so far have taken it.
LEMMA PerformForward ==
  ASSUME TInv, ControlOK, ManifestsOK, Perform, NEW r \in Roles, RoleOK(r)
  PROVE  Forward(r)'
<1>1. /\ TypeOK /\ NamesOK /\ PlanOK /\ UNCHANGED <<kind, original, cur>> /\ pc \in FirstRun /\ todo \subseteq Roles
      /\ Steady(r) /\ Forward(r) /\ Fits(mem) /\ cur = 1 /\ outcome = "none" /\ mem \in Manifest
  BY PerformFlow DEF TInv, TypeOK, RoleOK, ManifestsOK
<1>2. /\ fs \in FsType /\ data \in DataType /\ First(todo) \in Roles /\ dest \in {"source", "dest"}
      /\ "stage" \in Names /\ "claim" \in Names /\ "source" \in Names /\ dest \in Names /\ "copy" \in Inodes
      /\ "original" \in Inodes /\ "quarantine" \in Names /\ dest' = dest /\ "dest" \in Names
      /\ (dest = "source" <=> kind = "metadata")
  BY <1>1, FirstLast DEF TypeOK, FsType, DataType, Names, dest, DestOf, Inodes
<1>3. /\ data[r]["copy"] = "good" \/ (pc = "record" /\ r = "image")
      /\ fs[r]["quarantine"] = "none"
  BY <1>1 DEF Forward, Exists
<1>4. CASE pc' = "rollback"
  BY <1>4 DEF Forward, Unclaimed, FirstRun, Early, Ending
<1> DEFINE Going == pc' # "rollback"
           Sound == /\ data'[r]["copy"] = "good" \/ (pc' = "record" /\ r = "image")
                    /\ fs'[r]["quarantine"] = "none"
           Home  == r \in original => fs'[r]["source"] = "original"
           Gone  == r \in original => fs'[r]["claim"] = "original" /\ fs'[r]["source"] # "original"
           At    == IF kind = "copy" THEN Home ELSE Gone
<1>5. /\ AtHome(r)' <=> Home
      /\ Claimed(r)' <=> Gone
      /\ Taken(r)' <=> At
  BY <1>1 DEF AtHome, Claimed, Taken
<1>6. ASSUME pc' \in Unclaimed, Home, Sound PROVE Forward(r)'
  BY <1>5, <1>6 DEF Forward, Unclaimed, FirstRun, Early, Ending, Exists
<1>7. ASSUME pc' \in {"claim_check", "claim_rename"}, IF r \in todo' THEN Home ELSE Gone, Sound PROVE Forward(r)'
  BY <1>5, <1>7 DEF Forward, Unclaimed, FirstRun, Early, Ending, Exists
<1>8. ASSUME pc' \in {"checkpoint", "publish", "link", "check_output", "trash", "trash_call", "trashed"}, At, Sound
      PROVE Forward(r)'
  BY <1>5, <1>8 DEF Forward, Unclaimed, FirstRun, Early, Ending, Exists
<1>9. ASSUME pc' = "commit", At, kind \in Publishing /\ r \in Kept => Verify(r, dest, "copy"),
             UNCHANGED <<mem, data>>, fs'[r][dest] = fs[r][dest]
      PROVE  Forward(r)'
  <2>1. Kept' = Kept /\ (Verify(r, dest, "copy") => Verify(r, dest, "copy")')
    BY <1>2, <1>9 DEF Kept, Verify
  <2> QED BY <1>1, <1>5, <1>9, <2>1 DEF Forward, Unclaimed, FirstRun, Early, Ending
<1>10. ASSUME pc \in Unclaimed PROVE r \in original => fs[r]["source"] = "original"
  BY <1>1, <1>10 DEF Forward, AtHome
<1>11. ASSUME pc \in {"checkpoint", "publish", "link", "check_output", "trash", "trash_call", "trashed"}
       PROVE  r \in original => IF kind = "copy" THEN fs[r]["source"] = "original"
                                ELSE fs[r]["claim"] = "original" /\ fs[r]["source"] # "original"
  BY <1>1, <1>11 DEF Forward, Taken, AtHome, Claimed
<1>12. CASE Plan \/ Stage \/ PrepareAttributes
  <2>1. UNCHANGED store /\ pc \in Unclaimed /\ pc # "record"
    BY <1>12 DEF Plan, Stage, PrepareAttributes, Unclaimed
  <2>2. pc' \in Unclaimed \cup {"rollback"} \/ (pc' = "checkpoint" /\ kind = "copy")
    BY <1>12 DEF Plan, Stage, PrepareAttributes, SaveThen, Goto, Raise, Unclaimed
  <2> QED BY <1>3, <1>4, <1>6, <1>8, <1>10, <2>1, <2>2 DEF store
<1>13. CASE CopyStage \/ Annotate \/ RecordAnnotation
  <2>1. pc \in Unclaimed /\ pc' \in Unclaimed \cup {"rollback"}
    BY <1>13 DEF CopyStage, Annotate, RecordAnnotation, SaveThen, Goto, Raise, AfterStaging, Unclaimed
  <2>2. PICK q \in Roles : UNCHANGED fs \/ fs' = [fs EXCEPT ![q]["stage"] = "copy"]
    <3>1. "sidecar" \in Roles
      BY DEF Roles
    <3> QED BY <1>2, <1>13, <3>1 DEF CopyStage, Annotate, RecordAnnotation, store
  <2>3. fs'[r]["source"] = fs[r]["source"] /\ fs'[r]["quarantine"] = fs[r]["quarantine"]
    BY <1>2, <2>2 DEF FsType
  <2>4. Going => data'[r]["copy"] = "good" \/ (pc' = "record" /\ r = "image")
    <3>1. CASE CopyStage
      BY <1>3, <3>1 DEF CopyStage, Goto, Raise, store
    <3>2. CASE Annotate /\ Going
      <4>1. pc' = "record" /\ pc = "annotate" /\ data' = [data EXCEPT !["image"]["copy"] = "partial"]
        BY <3>2 DEF Annotate, Goto, Raise
      <4> QED BY <1>2, <1>3, <4>1 DEF DataType
    <3>3. CASE RecordAnnotation
      BY <1>2, <1>3, <3>3 DEF RecordAnnotation, DataType
    <3> QED BY <1>13, <3>1, <3>2, <3>3
  <2> QED BY <1>3, <1>4, <1>6, <1>10, <2>1, <2>3, <2>4
<1>14. CASE Claims
  <2>1. /\ UNCHANGED store /\ pc \in Unclaimed /\ pc # "record"
        /\ pc' = "rollback" \/ (pc' = "claim_check" /\ todo' = mem.files \ mem.generated)
    BY <1>14 DEF Claims, SaveThen, Goto, Raise, Unclaimed
  <2>2. mem.files # {}
    BY <1>1, <1>14 DEF Claims, PlanOK, FirstRun, Early
  <2>3. r \in original => r \in mem.files \ mem.generated
    BY <1>1, <2>2 DEF Fits
  <2> QED BY <1>3, <1>4, <1>7, <1>10, <2>1, <2>2, <2>3 DEF store
<1>15. CASE ClaimCheck
  <2>1. UNCHANGED store /\ pc = "claim_check" /\ (pc' = "rollback" \/ (pc' = "claim_rename" /\ todo' = todo))
    BY <1>15 DEF ClaimCheck, Goto, Raise
  <2>2. IF r \in todo THEN AtHome(r) ELSE Claimed(r)
    BY <1>1, <2>1 DEF Forward
  <2> QED BY <1>3, <1>4, <1>7, <2>1, <2>2 DEF store, AtHome, Claimed
<1>16. CASE ClaimRename /\ Going
  <2>1. PICK q \in Roles :
          /\ q = First(todo) /\ fs' = Rename(q, "source", "claim") /\ Verify(q, "source", "original")
          /\ UNCHANGED <<data, mem>>
          /\ \/ pc' = AfterClaims /\ todo = {q}
             \/ pc' = "claim_check" /\ todo # {q} /\ todo' = todo \ {q}
    BY <1>2, <1>16 DEF ClaimRename, Goto, Raise
  <2>2. pc = "claim_rename" /\ q \in todo /\ kind # "copy"
    BY <1>1, <1>16, <2>1, FirstLast DEF ClaimRename, PlanOK, ControlOK
  <2>3. IF r \in todo THEN AtHome(r) ELSE Claimed(r)
    BY <1>1, <2>2 DEF Forward
  <2>4. \A l \in Names : fs'[r][l] = IF r = q /\ l = "source" THEN "none"
                                     ELSE IF r = q /\ l = "claim" THEN fs[q]["source"] ELSE fs[r][l]
    BY <1>2, <2>1, Primitives
  <2>5. r = q => Gone
    BY <1>2, <2>1, <2>4 DEF Verify
  <2>6. r # q => /\ r \in todo => Home
                 /\ r \notin todo => Gone
    BY <1>2, <2>3, <2>4 DEF AtHome, Claimed
  <2>7. Sound
    BY <1>2, <1>3, <2>1, <2>2, <2>4
  <2>8. CASE pc' = "claim_check"
    BY <1>7, <2>1, <2>2, <2>5, <2>6, <2>7, <2>8 DEF AfterClaims
  <2>9. CASE pc' \in {"publish", "checkpoint"}
    BY <1>8, <2>1, <2>2, <2>5, <2>6, <2>7, <2>9
  <2>10. CASE pc' = "commit"
    <3>1. kind = "undo_copy"
      BY <2>1, <2>10 DEF AfterClaims
    <3>2. kind \notin Publishing /\ dest = "dest"
      BY <1>2, <3>1 DEF Publishing
    <3> QED BY <1>2, <1>9, <2>1, <2>2, <2>4, <2>5, <2>6, <2>10, <3>2
  <2> QED BY <2>1, <2>8, <2>9, <2>10 DEF AfterClaims
<1>17. CASE Checkpoint \/ Publish \/ Trash
  <2>1. /\ UNCHANGED store /\ pc \in {"checkpoint", "publish", "trash"}
        /\ pc' \in {"rollback", "trash", "publish", "link", "trash_call"}
    BY <1>17 DEF Checkpoint, Publish, Trash, SaveThen, Goto, Raise
  <2> QED BY <1>3, <1>4, <1>8, <1>11, <2>1 DEF store
<1>18. CASE LinkOutput
  <2>1. PICK q \in Roles : UNCHANGED fs \/ (~Exists(q, dest) /\ fs' = Link(q, "stage", dest))
    BY <1>2, <1>18 DEF LinkOutput
  <2>2. \A l \in Names : fs'[r][l] = fs[r][l] \/ (l = dest /\ fs'[r][l] = fs[r]["stage"])
    BY <1>2, <2>1, Primitives
  <2>3. UNCHANGED data /\ pc = "link" /\ pc' \in {"rollback", "link", "check_output"} /\ fs[r]["stage"] # "original"
    BY <1>1, <1>18 DEF LinkOutput, Goto, Raise, NamesOK
  <2>4. kind = "copy" => fs'[r]["source"] = fs[r]["source"]
    BY <1>2, <2>2
  <2> QED BY <1>2, <1>3, <1>4, <1>8, <1>11, <2>2, <2>3, <2>4
<1>19. CASE CheckOutput
  <2>1. /\ UNCHANGED <<store, mem>> /\ pc = "check_output"
        /\ pc' = "rollback" \/ (pc' = "commit" /\ OutputsStand)
    BY <1>19 DEF CheckOutput, Goto, Raise
  <2> QED BY <1>4, <1>9, <1>11, <2>1 DEF store, OutputsStand
<1>20. CASE TrashCall
  <2>1. /\ \A l \in Names \ {"stage"} : fs'[r][l] = fs[r][l]
        /\ UNCHANGED data /\ pc = "trash_call" /\ pc' \in {"rollback", "trashed"}
    BY <1>2, <1>20 DEF TrashCall, FsType, Goto, Raise
  <2> QED BY <1>2, <1>3, <1>4, <1>8, <1>11, <2>1
<1>21. CASE Trashed
  <2>1. UNCHANGED <<store, mem>> /\ pc = "trashed" /\ pc' \in {"rollback", "commit"} /\ kind \notin Publishing
    BY <1>1, <1>21 DEF Trashed, SaveThen, Goto, Raise, PlanOK, Publishing
  <2> QED BY <1>4, <1>9, <1>11, <2>1 DEF store
<1> QED BY <1>4, <1>12, <1>13, <1>14, <1>15, <1>16, <1>17, <1>18, <1>19, <1>20, <1>21 DEF Perform

\* A completed set stays complete while the thread ends the operation, and a
\* rollback of the first run never ends as a success.
LEMMA RestForward ==
  ASSUME TInv, ControlOK, Succeed \/ Rollback, NEW r \in Roles, RoleOK(r)
  PROVE  Forward(r)'
<1>1. TypeOK /\ Forward(r) /\ UNCHANGED <<kind, original, data, cur>> /\ mem \in Manifest
  BY RestKeeps DEF TInv, RoleOK, TypeOK
<1>2. /\ fs \in FsType /\ First(todo) \in Roles /\ dest \in Names \ {"stage"}
      /\ "stage" \in Names /\ "claim" \in Names /\ "source" \in Names /\ dest' = dest
  BY <1>1, FirstLast DEF TypeOK, FsType, Names, dest, DestOf
<1>3. ASSUME pc' \notin FirstRun, ~(pc' \in Ending /\ cur = 1 /\ outcome' = "none") PROVE Forward(r)'
  BY <1>1, <1>3 DEF Forward, Unclaimed, FirstRun, Early
<1>4. CASE Rollback
  <2>1. /\ pc' \in Backward \cup {"commit", "finish"}
        /\ cur = 1 /\ pc' \in Ending => outcome' # "none"
    BY <1>4 DEF Rollback, RollbackCheck, WithdrawOutput, QuarantineCheck, QuarantineRename, QuarantineUnlink,
       RestoreClaim, RollbackEnd, Goto, Raise, ControlOK, Backward, Ending
  <2> QED BY <1>3, <2>1 DEF Backward, FirstRun, Early
<1>5. CASE Finish
  BY <1>3, <1>5 DEF Finish, FirstRun, Early, Ending
<1>6. CASE Commit \/ CleanStage \/ Cleaned
  <2>1. /\ UNCHANGED outcome /\ pc' \in {"cleanup", "idle", "finish", "rb_clean"} /\ (pc' = "rb_clean" => pc = "rb_clean")
        /\ pc \in {"commit", "cleanup", "rb_clean"} /\ (pc' \in Ending => pc \in Ending)
    BY <1>6 DEF Commit, CleanStage, Cleaned, Goto, Ending
  <2>2. mem'.files = mem.files /\ mem'.excluded = mem.excluded
    BY <1>1, <1>6 DEF Commit, CleanStage, Cleaned, Declare, Manifest
  <2>3. \A l \in Names \ {"stage"} : fs'[r][l] = fs[r][l]
    <3>1. UNCHANGED fs \/ fs' = Unlink(First(todo), "stage")
      BY <1>6 DEF Commit, CleanStage, Cleaned, store
    <3> QED BY <1>2, <3>1 DEF Unlink, FsType
  <2>4. pc' = "finish" /\ ~errors' => fs'[r]["stage"] = "none"
    BY <1>6 DEF Commit, CleanStage, Cleaned, Goto, Leftovers, store, Exists
  <2>5. pc' \notin FirstRun
    BY <2>1 DEF FirstRun, Early
  <2>6. ASSUME pc \in Ending, cur = 1, outcome = "none", pc' \in Ending PROVE Forward(r)'
    <3>1. Taken(r) /\ (kind \in Publishing /\ r \in Kept => Verify(r, dest, "copy"))
      BY <1>1, <2>6 DEF Forward
    <3>2. Taken(r)'
      BY <1>1, <1>2, <2>3, <3>1 DEF Taken, AtHome, Claimed
    <3>3. kind' \in Publishing /\ r \in Kept' => Verify(r, dest, "copy")'
      BY <1>1, <1>2, <2>2, <2>3, <3>1 DEF Kept, Verify
    <3> QED BY <2>4, <2>5, <3>2, <3>3 DEF Forward, Unclaimed, FirstRun, Early, Exists
  <2> QED BY <1>1, <1>3, <2>1, <2>5, <2>6
<1> QED BY <1>4, <1>5, <1>6 DEF Succeed

\* Rollback withdraws what was published and takes every original home, or it has
\* counted an error.
LEMMA RestBack ==
  ASSUME TInv, ControlOK, ManifestsOK, Succeed \/ Rollback, NEW r \in Roles, RoleOK(r)
  PROVE  Back(r)'
<1>1. /\ TypeOK /\ KnownOK /\ Steady(r) /\ Back(r) /\ UNCHANGED <<kind, original, data>> /\ Fits(mem) /\ mem \in Manifest
      /\ todo \subseteq Roles
  BY RestKeeps DEF TInv, RoleOK, ManifestsOK, TypeOK
<1>2. /\ fs \in FsType /\ First(todo) \in Roles /\ Last(todo) \in Roles /\ dest \in {"source", "dest"}
      /\ "stage" \in Names /\ "claim" \in Names /\ "source" \in Names /\ dest \in Names
      /\ "quarantine" \in Names /\ dest' = dest
  BY <1>1, FirstLast DEF TypeOK, FsType, Names, dest, DestOf
<1> DEFINE Home == (r \in original => fs'[r]["source"] = "original") /\ (fs'[r][dest] # "copy" \/ r \in relinked')
<1>3. (Withdrawn(r)' <=> Home) /\ (Away(r)' <=> fs'[r][dest] # "copy" \/ r \in relinked')
  BY <1>1, <1>2 DEF Withdrawn, AtHome, Away
<1>14. relinked \subseteq relinked'
  BY <1>1, RestKeeps
<1>4. ASSUME pc' \notin Loop \cup {"rb_clean"} PROVE Back(r)'
  BY <1>4 DEF Back, Loop
<1>5. fs[r][dest] = "copy" => Out(r)
  BY <1>2 DEF Out
<1>6. CASE RollbackCheck
  <2>1. /\ UNCHANGED <<store, mem>>
        /\ pc' = "rb_end" \/ (pc' = "rb_dest" /\ todo' = mem.files /\ mem.files # {})
    BY <1>6 DEF RollbackCheck, Goto
  <2>2. CASE pc' = "rb_dest" /\ r \notin mem.files
    <3>1. r \notin original /\ ~Out(r)
      BY <1>1, <2>1, <2>2 DEF Fits
    <3> QED BY <1>3, <1>5, <2>1, <2>2, <3>1 DEF Back, store
  <2> QED BY <1>4, <2>1, <2>2 DEF Back, Loop
<1>7. CASE WithdrawOutput
  <2>1. /\ pc = "rb_dest" /\ UNCHANGED <<store, todo>> /\ pc' \in {"rb_verify", "rb_claim"} /\ (errors => errors')
    BY <1>1, <1>7 DEF WithdrawOutput, Goto, TypeOK
  <2>2. r \notin todo /\ ~errors' => Home
    BY <1>1, <1>14, <2>1 DEF Back, Loop, Withdrawn, AtHome, Away, store
  <2>3. pc' = "rb_claim" /\ ~errors' /\ r = Last(todo) => fs'[r][dest] # "copy"
    <3> SUFFICES ASSUME r = Last(todo), fs[r][dest] = "copy", pc' = "rb_claim", ~errors' PROVE FALSE
      BY <2>1 DEF store
    <3>1. mem.files # {} /\ Out(r) /\ Exists(r, dest)
      BY <1>5, <2>1 DEF ControlOK, Loop, Exists
    <3>2. "publish" \in mem.intents /\ r \in Kept /\ r \in mem.prov
      BY <1>1, <3>1 DEF Fits, KnownOK, Kept
    <3> QED BY <1>7, <3>1, <3>2 DEF WithdrawOutput, Goto
  <2> QED BY <1>2, <1>3, <2>1, <2>2, <2>3 DEF Back, Loop
<1>8. CASE QuarantineCheck
  <2>1. /\ pc = "rb_verify" /\ UNCHANGED <<store, todo>> /\ pc' \in {"rb_unlink", "rb_rename", "rb_claim"}
        /\ (errors => errors') /\ (pc' = "rb_claim" => errors')
    BY <1>1, <1>8 DEF QuarantineCheck, Goto, TypeOK
  <2>2. r \notin todo /\ ~errors' => Home
    BY <1>1, <1>14, <2>1 DEF Back, Loop, Withdrawn, AtHome, Away, store
  <2>3. pc' = "rb_unlink" /\ r = Last(todo) => Away(r)'
    BY <1>1, <1>3, <1>8, <1>14, <2>1 DEF QuarantineCheck, Goto, Exists, Steady, Away, store
  <2>4. pc' = "rb_rename" /\ r = Last(todo) => fs'[r][dest] = "copy"
    BY <1>8, <2>1 DEF QuarantineCheck, Goto, Verify, store
  <2> QED BY <1>2, <1>3, <2>1, <2>2, <2>3, <2>4 DEF Back, Loop
<1>9. CASE QuarantineRename
  <2>1. PICK q \in Roles :
          /\ q = Last(todo) /\ UNCHANGED todo /\ pc = "rb_rename"
          /\ \/ fs' = Rename(q, dest, "quarantine") /\ pc' \in {"rb_unlink", "rb_claim"} /\ (errors => errors')
             \/ UNCHANGED fs /\ errors' /\ pc' = "rb_claim"
    BY <1>1, <1>2, <1>9 DEF QuarantineRename, Goto, TypeOK
  <2>2. r \notin todo => r # q
    BY <1>1, <2>1, FirstLast DEF ControlOK, Loop
  <2>3. r # q => /\ fs'[r]["source"] = fs[r]["source"]
                 /\ fs'[r][dest] = fs[r][dest]
    BY <1>2, <2>1, Primitives
  <2>4. r \notin todo /\ ~errors' => Home
    BY <1>1, <1>14, <2>1, <2>2, <2>3 DEF Back, Loop, Withdrawn, AtHome, Away
  <2>5. ~errors' /\ r = q => fs'[r][dest] # "copy"
    BY <1>2, <2>1, Primitives
  <2> QED BY <1>2, <1>3, <2>1, <2>4, <2>5 DEF Back, Loop
<1>10. CASE QuarantineUnlink
  <2>1. PICK q \in Roles :
          /\ q = Last(todo) /\ UNCHANGED todo /\ pc = "rb_unlink" /\ pc' = "rb_claim" /\ (errors => errors')
          /\ fs' = fs \/ fs' = Unlink(q, "quarantine") \/ errors'
    BY <1>1, <1>2, <1>10, Unlinked
  <2>2. ~errors' => fs'[r]["source"] = fs[r]["source"] /\ fs'[r][dest] = fs[r][dest]
    BY <1>2, <2>1 DEF Unlink, FsType
  <2>3. r \notin todo /\ ~errors' => Home
    BY <1>1, <1>14, <2>1, <2>2 DEF Back, Loop, Withdrawn, AtHome, Away
  <2>4. ~errors' /\ r = q => Away(r)'
    BY <1>1, <1>3, <1>14, <2>1, <2>2 DEF Back, Away
  <2> QED BY <1>2, <1>3, <2>1, <2>3, <2>4 DEF Back, Loop
<1>11. CASE RestoreClaim
  <2>1. PICK q \in Roles :
          /\ q = Last(todo) /\ pc = "rb_claim"
          /\ UNCHANGED fs \/ fs' = Link(q, "claim", "source")
          /\ \/ todo = {q} /\ pc' = "rb_clean"
             \/ todo # {q} /\ pc' = "rb_dest" /\ todo' = todo \ {q}
    BY <1>2, <1>11 DEF RestoreClaim, Goto
  <2>2. q \in todo /\ (~errors' => ~errors)
    BY <1>1, <1>11, <2>1, FirstLast DEF RestoreClaim, ControlOK, Loop, TypeOK
  <2>3. ASSUME ~errors', r # q, r \notin todo PROVE Home
    <3>1. fs'[r]["source"] = fs[r]["source"] /\ fs'[r][dest] = fs[r][dest]
      BY <1>2, <2>1, <2>3, Primitives
    <3> QED BY <1>1, <1>14, <2>1, <2>2, <2>3, <3>1 DEF Back, Loop, Withdrawn, AtHome, Away
  <2>4. ASSUME ~errors', r = q PROVE Home
    <3>1. fs[r][dest] # "copy" \/ r \in relinked'
      BY <1>1, <1>14, <2>1, <2>2, <2>4 DEF Back, Away
    <3>2. \/ fs[r]["claim"] = "none" /\ UNCHANGED fs
          \/ fs[r]["source"] = "original" /\ UNCHANGED fs
          \/ fs[r]["claim"] = "original" /\ fs' = Link(q, "claim", "source")
      BY <1>11, <2>1, <2>4 DEF RestoreClaim, Exists, Verify
    <3>3. CASE UNCHANGED fs
      <4>1. r \in original => fs[r]["source"] = "original"
        BY <1>1, <2>4, <3>2, <3>3, <1>2, Primitives DEF Steady
      <4> QED BY <3>1, <3>3, <4>1
    <3>4. CASE fs[r]["claim"] = "original" /\ fs' = Link(q, "claim", "source")
      <4>1. fs'[r]["source"] = "original" /\ (dest # "source" => fs'[r][dest] = fs[r][dest])
        BY <1>2, <2>4, <3>4, Primitives
      <4> QED BY <3>1, <4>1
    <3> QED BY <3>2, <3>3, <3>4
  <2>5. CASE pc' = "rb_clean"
    BY <1>3, <2>1, <2>2, <2>3, <2>4, <2>5 DEF Back, Loop
  <2>6. CASE pc' = "rb_dest"
    BY <1>3, <2>1, <2>2, <2>3, <2>4, <2>6 DEF Back, Loop
  <2> QED BY <2>1, <2>5, <2>6
<1>12. CASE CleanStage
  <2>1. /\ pc' = pc /\ pc \in {"cleanup", "rb_clean"} /\ (errors => errors')
        /\ UNCHANGED fs \/ fs' = Unlink(First(todo), "stage")
    BY <1>1, <1>12 DEF CleanStage, Goto, TypeOK
  <2>2. fs'[r]["source"] = fs[r]["source"] /\ fs'[r][dest] = fs[r][dest]
    BY <1>2, <2>1 DEF Unlink, FsType
  <2>3. pc = "rb_clean" /\ ~errors' => Home
    BY <1>1, <1>14, <2>1, <2>2 DEF Back, Withdrawn, AtHome, Away
  <2> QED BY <1>3, <2>1, <2>3 DEF Back, Loop
<1>13. CASE Commit \/ Cleaned \/ Finish \/ RollbackEnd
  BY <1>4, <1>13 DEF Commit, Cleaned, Finish, RollbackEnd, Goto, Raise, Loop
<1> QED BY <1>6, <1>7, <1>8, <1>9, <1>10, <1>11, <1>12, <1>13 DEF Succeed, Rollback


\* Names that were taken back stay so: nothing is left to rename, to link or to unlink.
LEMMA UndoneKept ==
  ASSUME TInv, Succeed \/ Rollback, NEW r \in Roles, RoleOK(r), IsUndone(r)
  PROVE  IsUndone(r)'
<1>1. TypeOK /\ NamesOK /\ Steady(r) /\ Back(r) /\ UNCHANGED <<kind, original, data>>
  BY RestKeeps DEF TInv, RoleOK
<1>2. /\ fs \in FsType /\ First(todo) \in Roles /\ Last(todo) \in Roles /\ dest \in {"source", "dest"}
      /\ "stage" \in Names /\ "claim" \in Names /\ "source" \in Names /\ dest \in Names
      /\ "quarantine" \in Names /\ dest' = dest
  BY <1>1, FirstLast DEF TypeOK, FsType, Names, dest, DestOf
<1>3. /\ r \in original => fs[r]["source"] = "original"
      /\ fs[r][dest] # "copy" \/ r \in relinked
      /\ fs[r]["stage"] = "none" /\ relinked \subseteq relinked'
  BY <1>1, RestKeeps DEF IsUndone, Withdrawn, AtHome, Away, Exists
<1>10. ASSUME r \in original => fs'[r]["source"] = fs[r]["source"], fs'[r][dest] # "copy" \/ r \in relinked',
              fs'[r]["stage"] \in {"none", fs[r]["stage"]}
       PROVE  IsUndone(r)'
  BY <1>1, <1>2, <1>3, <1>10 DEF IsUndone, Withdrawn, AtHome, Away, Exists
<1>4. ASSUME fs'[r]["source"] = fs[r]["source"], fs'[r][dest] = fs[r][dest], fs'[r]["stage"] \in {"none", fs[r]["stage"]}
      PROVE  IsUndone(r)'
  BY <1>3, <1>4, <1>10
<1>5. CASE CleanStage
  <2>1. UNCHANGED fs \/ fs' = Unlink(First(todo), "stage")
    BY <1>5 DEF CleanStage
  <2> QED BY <1>2, <1>4, <2>1 DEF Unlink, FsType
<1>6. CASE QuarantineRename
  <2>1. PICK q \in Roles : q = Last(todo) /\ (UNCHANGED fs \/ fs' = Rename(q, dest, "quarantine"))
    BY <1>2, <1>6 DEF QuarantineRename
  <2>2. CASE r = q /\ fs' = Rename(q, dest, "quarantine")
    <3>1. fs[r][dest] = "copy"
      BY <1>1, <1>6, <2>1, <2>2 DEF QuarantineRename, Back
    <3>2. \A l \in Names : fs'[r][l] = IF l = dest THEN "none" ELSE IF l = "quarantine" THEN fs[r][dest] ELSE fs[r][l]
      BY <1>2, <2>2, Primitives
    <3> QED BY <1>2, <1>3, <1>10, <3>1, <3>2
  <2>3. CASE r # q /\ fs' = Rename(q, dest, "quarantine")
    BY <1>2, <1>4, <2>3, Primitives
  <2> QED BY <1>4, <2>1, <2>2, <2>3
<1>7. CASE QuarantineUnlink
  <2>1. PICK q \in Roles :
          /\ q = Last(todo)
          /\ \/ UNCHANGED fs \/ fs' = Unlink(q, "quarantine")
             \/ fs[q][dest] = "none" /\ fs' = Link(q, "quarantine", dest) /\ q \in relinked'
    BY <1>1, <1>2, <1>7, Unlinked DEF Exists
  <2>2. CASE fs' = Unlink(q, "quarantine")
    BY <1>2, <1>4, <2>2 DEF Unlink, FsType
  <2>3. CASE r = q /\ fs[q][dest] = "none" /\ fs' = Link(q, "quarantine", dest) /\ q \in relinked'
    <3>1. \A l \in Names : fs'[r][l] = IF l = dest THEN fs[r]["quarantine"] ELSE fs[r][l]
      BY <1>2, <2>3, Primitives
    <3> QED BY <1>2, <1>3, <1>10, <2>3, <3>1
  <2>4. CASE UNCHANGED fs
    BY <1>4, <2>4
  <2>5. CASE r # q /\ fs' = Link(q, "quarantine", dest)
    BY <1>2, <1>4, <2>5, Primitives
  <2> QED BY <2>1, <2>2, <2>3, <2>4, <2>5
<1>8. CASE RestoreClaim
  <2>1. PICK q \in Roles :
          /\ q = Last(todo)
          /\ \/ UNCHANGED fs
             \/ fs[q]["source"] = "none" /\ Verify(q, "claim", "original") /\ fs' = Link(q, "claim", "source")
    BY <1>2, <1>8 DEF RestoreClaim, Exists
  <2>2. CASE fs[q]["source"] = "none" /\ Verify(q, "claim", "original") /\ fs' = Link(q, "claim", "source")
    <3>1. r # q
      BY <1>1, <1>3, <2>2 DEF Steady, Original, Verify
    <3> QED BY <1>2, <1>4, <2>2, <3>1, Primitives, SMTT(20)
  <2> QED BY <1>4, <2>1, <2>2
<1>9. CASE UNCHANGED fs
  BY <1>4, <1>9
<1> QED BY <1>5, <1>6, <1>7, <1>8, <1>9
     DEF Succeed, Commit, Cleaned, Finish, Rollback, RollbackCheck, WithdrawOutput, QuarantineCheck, RollbackEnd, store

\* Where no set was ever recorded, nothing was touched.
LEMMA NothingTaken ==
  ASSUME TInv, ManifestsOK, NEW r \in Roles, RoleOK(r), rows[1].manifest.files = {}
  PROVE  IsUndone(r)
<1>1. KnownOK /\ Steady(r) /\ 1 \in Rows /\ rows[1].manifest \in Manifest
  BY BoundsAssumption DEF TInv, RoleOK, TypeOK, Rows, Row
<1>2. rows[1].manifest.intents = {}
  BY <1>1 DEF ManifestsOK, Fits
<1>3. ~Exists(r, "claim") /\ ~Exists(r, "stage") /\ ~Out(r)
  BY <1>1, <1>2 DEF KnownOK, RecordedIn
<1>4. dest \in Names \ {"stage"}
  BY DEF dest, DestOf, Names
<1> QED BY <1>1, <1>3, <1>4 DEF Steady, IsUndone, Withdrawn, AtHome, Away, Out, Exists

\* A rollback that counted no error has taken everything back.
LEMMA RolledBack ==
  ASSUME TInv, ControlOK, ManifestsOK, NEW r \in Roles, RoleOK(r), ~errors,
         \/ pc = "rb_end" /\ cur = 1
         \/ pc = "rb_clean" /\ ~Leftovers
  PROVE  IsUndone(r)
<1>1. TypeOK /\ KnownOK /\ SavedOK /\ Steady(r) /\ Back(r) /\ 1 \in Rows /\ rows[1].manifest \in Manifest
  BY BoundsAssumption DEF TInv, RoleOK, TypeOK, Rows, Row
<1>2. CASE pc = "rb_clean" /\ ~Leftovers
  BY <1>1, <1>2 DEF Back, Leftovers, IsUndone
<1>3. CASE pc = "rb_end" /\ cur = 1
  <2>1. rows[1].manifest.files = {}
    BY <1>1, <1>3 DEF ControlOK, SavedOK
  <2> QED BY <2>1, NothingTaken
<1> QED BY <1>2, <1>3

\* The first run settles nothing before it ends.
LEMMA PerformEnd ==
  ASSUME TInv, ControlOK, Perform, NEW r \in Roles
  PROVE  End(r)'
<1>1. TypeOK /\ 1 \in Rows
  BY BoundsAssumption DEF TInv, TypeOK, Rows
<1>2. rows'[1].state = "accepted" /\ (rows'[1].resolved <=> rows[1].resolved)
  BY <1>1, PerformFlow, SavesManifest
<1>3. ~rows'[1].resolved
  BY <1>2, PerformFlow DEF ControlOK
<1>4. cur' = 1 /\ pc' # "finish"
  BY PerformFlow DEF FirstRun, Early
<1> QED BY <1>2, <1>3, <1>4 DEF End, Completed

\* The row is settled by what has been established when the thread ends.
LEMMA FinishEnd ==
  ASSUME TInv, ControlOK, Finish, NEW r \in Roles, RoleOK(r)
  PROVE  End(r)'
<1>1. /\ TypeOK /\ 1 \in Rows /\ cur \in Rows /\ UNCHANGED <<kind, original, data, fs, cur, relinked>> /\ pc' = "idle" /\ pc = "finish"
      /\ Forward(r) /\ End(r)
  BY BoundsAssumption DEF TInv, TypeOK, Rows, Finish, store, world, RoleOK
<1>2. /\ IsUndone(r)' <=> IsUndone(r)
      /\ dest' = dest
  BY <1>1 DEF IsUndone, Withdrawn, AtHome, Away, Exists, dest
<1>3. rows'[1].state = rows[1].state /\ rows'[1].manifest = rows[1].manifest => (Done(r)' <=> Done(r))
  BY <1>1, <1>2 DEF Done, Verify, Exists
<1>4. CASE UNCHANGED rows
  BY <1>1, <1>2, <1>3, <1>4 DEF End, Ending
<1>5. CASE FinishedRows /\ cur = 1
  <2>1. rows[1].state = "accepted" /\ rows[1].target = 0
    BY <1>1, <1>5 DEF ControlOK
  <2>2. ~rows'[1].resolved /\ rows'[1].state = Result /\ (outcome = "none" => rows'[1].manifest = mem)
    BY <1>1, <1>5, <2>1 DEF FinishedRows, ControlOK
  <2>3. rows'[1].state \in {"failed", "cancelled"} => IsUndone(r)
    BY <1>1, <1>5, <2>2 DEF Result, End, TypeOK
  <2>4. ASSUME rows'[1].state \in Completed PROVE Done(r)'
    <3>1. outcome = "none" /\ rows'[1].manifest = mem /\ (rows'[1].state = "completed" => ~errors)
      BY <1>1, <2>2, <2>4 DEF Result, Completed, TypeOK
    <3>2. Taken(r) /\ (kind \in Publishing /\ r \in Kept => Verify(r, dest, "copy")) /\ (~errors => ~Exists(r, "stage"))
      BY <1>1, <1>5, <3>1 DEF Forward, Ending
    <3>3. data[r]["original"] = "good"
      BY DEF RoleOK, Steady
    <3> QED BY <1>1, <1>2, <3>1, <3>2, <3>3 DEF Done, Taken, AtHome, Claimed, Kept, Verify, Exists
  <2> QED BY <1>1, <1>2, <2>2, <2>3, <2>4 DEF End, Ending
<1>6. CASE FinishedRows /\ cur # 1
  <2>1. rows'[1].state = rows[1].state /\ rows'[1].manifest = rows[1].manifest
        /\ (rows'[1].resolved => rows[1].resolved \/ outcome = "none")
    BY <1>1, <1>6 DEF FinishedRows
  <2>2. outcome = "none" => IsUndone(r)
    BY <1>1, <1>6 DEF End, Ending
  <2> QED BY <1>1, <1>2, <1>3, <2>1, <2>2 DEF End, Ending
<1> QED BY <1>1, <1>4, <1>5, <1>6, FinishRows

\* And nothing the thread does before takes that back.
LEMMA RestEnd ==
  ASSUME TInv, ControlOK, ManifestsOK, Succeed \/ Rollback, NEW r \in Roles, RoleOK(r)
  PROVE  End(r)'
<1>1. CASE Finish
  BY <1>1, FinishEnd
<1>2. CASE ~Finish
  <2>1. /\ TypeOK /\ 1 \in Rows /\ cur \in Rows /\ mem \in Manifest /\ mem' \in Manifest /\ End(r)
    BY BoundsAssumption, SucceedType, RollbackType DEF TInv, TypeOK, Rows, RoleOK
  <2>2. Saves /\ UNCHANGED cur /\ pc \notin {"idle", "down"}
    <3>1. UNCHANGED cur
      BY <2>1, RestKeeps
    <3>2. Saves /\ pc \notin {"idle", "down"}
      BY <1>2 DEF Succeed, Commit, CleanStage, Cleaned, Rollback, RollbackCheck, WithdrawOutput, QuarantineCheck,
         QuarantineRename, QuarantineUnlink, RestoreClaim, RollbackEnd, Saves
    <3> QED BY <3>1, <3>2
  <2>3. rows'[1].state = rows[1].state /\ (rows'[1].resolved <=> rows[1].resolved)
    BY <2>1, <2>2, SavesManifest
  <2>4. rows[1].state \in {"accepted", "recovery_required"}
    BY <2>2 DEF ControlOK
  <2>5. rows[1].resolved => IsUndone(r)'
    BY <2>1, UndoneKept DEF End
  <2>6. ASSUME pc' = "finish", cur = 1, outcome' # "none", ~errors' PROVE IsUndone(r)'
    <3>1. RollbackEnd /\ outcome # "none"
      BY <1>2, <2>6 DEF Succeed, Commit, CleanStage, Cleaned, Rollback, RollbackCheck, WithdrawOutput, QuarantineCheck,
         QuarantineRename, QuarantineUnlink, RestoreClaim, RollbackEnd, Goto, Raise, ControlOK
    <3>2. ~errors /\ (pc = "rb_end" \/ (pc = "rb_clean" /\ ~Leftovers))
      BY <2>6, <3>1 DEF RollbackEnd
    <3> QED BY <2>6, <3>2, RolledBack, UndoneKept
  <2>7. ASSUME pc' \in Ending, cur # 1, outcome' = "none" PROVE IsUndone(r)'
    <3>1. CASE RollbackEnd
      <4>1. outcome = "none" /\ ~errors /\ (pc = "rb_end" \/ (pc = "rb_clean" /\ ~Leftovers))
        BY <2>7, <3>1 DEF RollbackEnd, Goto, Raise, Ending
      <4>2. pc # "rb_end"
        BY <4>1 DEF ControlOK, Backward
      <4> QED BY <4>1, <4>2, RolledBack, UndoneKept
    <3>2. CASE ~RollbackEnd
      <4>1. pc \in Ending /\ outcome = "none"
        BY <1>2, <2>7, <3>2 DEF Succeed, Commit, CleanStage, Cleaned, Rollback, RollbackCheck, WithdrawOutput,
           QuarantineCheck, QuarantineRename, QuarantineUnlink, RestoreClaim, Goto, Ending
      <4> QED BY <2>1, <2>7, <4>1, UndoneKept DEF End
    <3> QED BY <3>1, <3>2
  <2> QED BY <2>2, <2>3, <2>4, <2>5, <2>6, <2>7 DEF End, Completed
<1> QED BY <1>1, <1>2

\* Between operations the files stay as they are, and the journal tells the same of
\* them; a row that a restart cancels never took anything.
LEMMA OtherRole ==
  ASSUME TInv, ControlOK, ManifestsOK, SubmitRecovery \/ Recover \/ ExecuteAgain \/ Crash \/ Restart,
         NEW r \in Roles, RoleOK(r)
  PROVE  RoleOK(r)'
<1>1. /\ TypeOK /\ SavedOK /\ 1 \in Rows /\ cur \in Rows /\ rows \in [Rows -> Row] /\ UNCHANGED <<store, kind, original, relinked>>
      /\ Steady(r) /\ End(r) /\ pc' \in {"idle", "down", "recover", "rollback"}
  BY BoundsAssumption DEF TInv, TypeOK, Rows, RoleOK, SubmitRecovery, Recover, ExecuteAgain, Crash, Restart, world,
     request, Goto, Raise, SaveThen
<1>2. /\ dest' = dest /\ (IsUndone(r)' <=> IsUndone(r))
      /\ Steady(r)' /\ Forward(r)' /\ Back(r)'
  <2>1. dest' = dest
    BY <1>1 DEF dest
  <2>2. Steady(r)'
    BY <1>1, <2>1 DEF Steady, Original, Away, Out, store
  <2>3. Forward(r)'
    BY <1>1 DEF Forward, Unclaimed, FirstRun, Early, Ending
  <2>4. Back(r)'
    BY <1>1 DEF Back, Loop
  <2> QED BY <1>1, <2>1, <2>2, <2>3, <2>4 DEF IsUndone, Withdrawn, AtHome, Away, Exists, store
<1>3. ASSUME rows'[1].state \in {"failed", "cancelled"} \/ rows'[1].resolved => IsUndone(r),
             rows'[1].state \in Completed => Done(r)'
      PROVE  RoleOK(r)'
  BY <1>1, <1>2, <1>3 DEF RoleOK, End, Ending
<1>4. ASSUME rows'[1] = rows[1] PROVE RoleOK(r)'
  <2>1. Done(r)' <=> Done(r)
    BY <1>1, <1>2, <1>4 DEF Done, Verify, Exists, store
  <2> QED BY <1>1, <1>3, <1>4, <2>1 DEF End
<1>5. CASE SubmitRecovery
  <2>1. PICK i, t \in Rows : rows[i].state = "none" /\ rows' = [rows EXCEPT ![i].state = "accepted", ![i].target = t]
    BY <1>5 DEF SubmitRecovery
  <2> QED BY <1>1, <1>4, <2>1 DEF SavedOK
<1>6. CASE Recover
  <2>1. cur # 1 /\ (UNCHANGED rows \/ rows' = [rows EXCEPT ![cur].manifest = mem'])
    BY <1>1, <1>6 DEF Recover, SaveThen, SavedOK
  <2> QED BY <1>1, <1>4, <2>1
<1>7. CASE ExecuteAgain
  <2>1. PICK i \in Rows : rows[i].state = "accepted" /\ rows' = [rows EXCEPT ![i].state = "recovery_required"]
    BY <1>7 DEF ExecuteAgain
  <2>2. CASE i = 1
    <3>1. rows'[1].state = "recovery_required" /\ rows'[1].resolved = rows[1].resolved
      BY <1>1, <2>1, <2>2 DEF Row
    <3>2. ~rows[1].resolved
      BY <2>1, <2>2 DEF ControlOK
    <3> QED BY <1>3, <3>1, <3>2 DEF Completed
  <2> QED BY <1>1, <1>4, <2>1, <2>2
<1>8. CASE Crash
  BY <1>4, <1>8 DEF Crash
<1>9. CASE Restart
  <2>1. CASE rows[1].state # "accepted"
    BY <1>1, <1>4, <1>9, <2>1 DEF Restart
  <2>2. CASE rows[1].state = "accepted"
    <3>1. rows'[1] = [rows[1] EXCEPT !.state = IF rows[1].manifest.files # {} THEN "recovery_required" ELSE "cancelled"]
      BY <1>1, <1>9, <2>2 DEF Restart
    <3>2. /\ rows'[1].resolved = rows[1].resolved
          /\ rows'[1].state = IF rows[1].manifest.files # {} THEN "recovery_required" ELSE "cancelled"
      BY <1>1, <3>1 DEF Row
    <3>3. ~rows[1].resolved
      BY <2>2 DEF ControlOK
    <3>4. rows'[1].state = "cancelled" => IsUndone(r)
      BY <3>2, NothingTaken
    <3> QED BY <1>3, <3>2, <3>3, <3>4 DEF Completed
  <2> QED BY <2>1, <2>2
<1> QED BY <1>5, <1>6, <1>7, <1>8, <1>9

\* The user changes the names of one role, and nothing is promised of that one.
LEMMA EditRole ==
  ASSUME TInv, UserEdit, NEW r \in Roles, r \notin touched', RoleOK(r)
  PROVE  RoleOK(r)'
<1>1. TypeOK /\ UNCHANGED <<rows, cur, mem, pc, todo, outcome, errors, kind, original, relinked>>
  BY EditEffect DEF TInv, UserEdit
<1>2. /\ \A n \in Names : fs'[r][n] = fs[r][n]
      /\ \A i \in Inodes : data'[r][i] = data[r][i]
  BY <1>1, EditEffect
<1>3. /\ dest' = dest /\ dest \in Names /\ "copy" \in Inodes /\ "original" \in Inodes
      /\ "source" \in Names /\ "claim" \in Names /\ "stage" \in Names /\ "quarantine" \in Names /\ "dest" \in Names
  BY <1>1 DEF dest, DestOf, Names, Inodes
<1>4. /\ Exists(r, "stage")' <=> Exists(r, "stage")
      /\ Exists(r, "quarantine")' <=> Exists(r, "quarantine")
      /\ Verify(r, dest, "copy")' <=> Verify(r, dest, "copy")
      /\ Verify(r, "claim", "original")' <=> Verify(r, "claim", "original")
      /\ Verify(r, "source", "original")' <=> Verify(r, "source", "original")
      /\ AtHome(r)' <=> AtHome(r)
      /\ Claimed(r)' <=> Claimed(r)
      /\ Withdrawn(r)' <=> Withdrawn(r)
      /\ Away(r)' <=> Away(r)
  BY <1>1, <1>2, <1>3 DEF Exists, Verify, AtHome, Claimed, Withdrawn, Away
<1>5. Steady(r)'
  <2>1. Out(r)' => Out(r)
    BY <1>2, <1>3 DEF Out
  <2> QED BY <1>1, <1>2, <1>3, <2>1, SteadyNames DEF RoleOK, Steady
<1>6. Forward(r)'
  <2>1. /\ Taken(r)' <=> Taken(r)
        /\ Kept' = Kept
    BY <1>1, <1>4 DEF Taken, Kept
  <2> QED BY <1>1, <1>2, <1>3, <1>4, <2>1 DEF RoleOK, Forward
<1>7. Back(r)'
  BY <1>1, <1>2, <1>3, <1>4 DEF RoleOK, Back
<1>8. End(r)'
  <2>1. IsUndone(r)' <=> IsUndone(r)
    BY <1>4 DEF IsUndone
  <2>2. Done(r)' <=> Done(r)
    BY <1>1, <1>2, <1>3, <1>4 DEF Done
  <2> QED BY <1>1, <2>1, <2>2 DEF RoleOK, End
<1> QED BY <1>5, <1>6, <1>7, <1>8 DEF RoleOK

\* The first run takes nothing back yet.
LEMMA PerformBack ==
  ASSUME TInv, ControlOK, Perform, NEW r \in Roles
  PROVE  Back(r)'
<1>1. pc' \notin Loop \cup {"rb_clean"}
  BY PerformFlow DEF FirstRun, Early, Loop
<1> QED BY <1>1 DEF Back, Loop

\* So every step keeps what holds of a role nobody else has touched.
LEMMA RoleStep ==
  ASSUME TInv, ControlOK, ManifestsOK, [Next]_vars, NEW r \in Roles, r \notin touched', RoleOK(r)
  PROVE  RoleOK(r)'
<1>1. CASE Perform
  BY <1>1, PerformSteady, PerformForward, PerformBack, PerformEnd DEF RoleOK
<1>2. CASE Succeed \/ Rollback
  BY <1>2, RestSteady, RestForward, RestBack, RestEnd DEF RoleOK
<1>3. CASE UNCHANGED vars
  BY <1>3 DEF vars, RoleOK, Steady, Original, Out, Forward, Taken, AtHome, Claimed, Kept, Verify, Exists, Back, Withdrawn,
     Away, End, IsUndone, Done, dest
<1> QED BY <1>1, <1>2, <1>3, OtherRole, EditRole DEF Next, Service

-----------------------------------------------------------------------------
(* A recovery nobody disturbs.                                              *)

\* Without a fault nothing has failed before either.
LEMMA FaultFree ==
  ASSUME TypeOK, faults' = 0, Fault \/ NoFault
  PROVE  ~Fault /\ faults = 0
BY BoundsAssumption DEF TypeOK, Fault, NoFault

\* What an undisturbed recovery finds at the names of every role.
LEMMA AllSteady ==
  ASSUME TInv, ControlOK, ManifestsOK, \A r \in Roles \ touched : RoleOK(r), Undisturbed, pc \in Backward, outcome = "none"
  PROVE  /\ dest = "dest" /\ mem.files # {} /\ mem.generated = {} /\ mem.files \subseteq original
         /\ mem.quarantined \subseteq mem.files /\ "trash" \notin mem.intents
         /\ \A r \in Roles :
              /\ Back(r) /\ data[r]["original"] = "good"
              /\ r \in original => fs[r]["source"] = "original" \/ fs[r]["claim"] = "original"
              /\ fs[r]["source"] \in {"none", "original"}
              /\ fs[r]["claim"] \in {"none", "original"} /\ (fs[r]["claim"] = "original" => r \in original)
              /\ fs[r]["stage"] \in {"none", "copy"}
              /\ fs[r]["dest"] \in {"none", "copy"} /\ fs[r]["quarantine"] \in {"none", "copy"}
              /\ fs[r]["dest"] = "copy" \/ fs[r]["quarantine"] = "copy" =>
                   data[r]["copy"] = "good" /\ "publish" \in mem.intents /\ r \in Kept /\ r \in mem.prov
              /\ r \in mem.prov => data[r]["copy"] = "good"
              /\ Exists(r, "stage") => r \in mem.files
<1>1. /\ TypeOK /\ NamesOK /\ KnownOK /\ Fits(mem) /\ kind \notin {"trash", "metadata"} /\ mem \in Manifest
      /\ \A r \in Roles : RoleOK(r)
  BY DEF TInv, TypeOK, ManifestsOK, Undisturbed
<1>2. dest = "dest" /\ mem.files # {} /\ "dest" \in Names \ {"stage"} /\ "quarantine" \in Names \ {"stage"} /\ "copy" \in Inodes
  BY <1>1 DEF dest, DestOf, ControlOK, Names, Inodes
<1>3. /\ mem.generated = {} /\ mem.files \subseteq original /\ mem.quarantined \subseteq mem.files
      /\ "trash" \notin mem.intents
  BY <1>1, <1>2 DEF Fits, Manifest
<1>4. ASSUME NEW r \in Roles
      PROVE  /\ Back(r) /\ data[r]["original"] = "good"
             /\ r \in original => fs[r]["source"] = "original" \/ fs[r]["claim"] = "original"
             /\ fs[r]["source"] \in {"none", "original"}
             /\ fs[r]["claim"] \in {"none", "original"} /\ (fs[r]["claim"] = "original" => r \in original)
             /\ fs[r]["stage"] \in {"none", "copy"}
             /\ fs[r]["dest"] \in {"none", "copy"} /\ fs[r]["quarantine"] \in {"none", "copy"}
  <2>1. RoleOK(r)
    BY <1>1
  <2>2. Steady(r) /\ Back(r)
    BY <2>1 DEF RoleOK
  <2> QED BY <1>1, <1>2, <2>2 DEF NamesOK, Steady, Original
<1>5. ASSUME NEW r \in Roles, fs[r]["dest"] = "copy" \/ fs[r]["quarantine"] = "copy"
      PROVE  data[r]["copy"] = "good" /\ "publish" \in mem.intents /\ r \in Kept /\ r \in mem.prov
  <2>1. Out(r)
    BY <1>2, <1>5 DEF Out
  <2>2. data[r]["copy"] = "good"
    BY <1>1, <2>1 DEF RoleOK, Steady
  <2>3. r \in mem.files \ mem.excluded /\ "publish" \in mem.intents
    BY <1>1, <1>2, <2>1 DEF Fits
  <2>4. r \in mem.prov
    BY <1>1, <1>2, <2>1 DEF KnownOK
  <2> QED BY <2>2, <2>3, <2>4 DEF Kept
<1>6. ASSUME NEW r \in Roles, r \in mem.prov PROVE data[r]["copy"] = "good"
  <2>1. data[r]["copy"] # "partial"
    BY <1>1, <1>6 DEF Fits
  <2>2. data[r]["copy"] = "edited" => data[r]["copy"] = "good"
    BY <1>1 DEF Out, RoleOK, Steady
  <2> QED BY <1>1, <1>2, <2>1, <2>2 DEF TypeOK
<1>7. ASSUME NEW r \in Roles, Exists(r, "stage") PROVE r \in mem.files
  BY <1>1, <1>2, <1>7 DEF Fits
<1> QED BY <1>2, <1>3, <1>4, <1>5, <1>6, <1>7

\* Every original is proven, and the loop over the set begins.
LEMMA CheckConverges ==
  ASSUME TInv, HonestInv, RollbackCheck, Undisturbed'
  PROVE  Converges'
<1>1. /\ TypeOK /\ UNCHANGED <<mem, fs, cur, kind, touched>> /\ faults = 0 /\ pc = "rollback" /\ pc \in Backward
      /\ pc' \in Backward \ {"rollback"}
  <2>1. TypeOK /\ (Fault \/ NoFault) /\ pc = "rollback" /\ pc' \in {"rb_end", "rb_dest"}
        /\ UNCHANGED <<mem, fs, cur, kind, touched>>
    BY DEF TInv, RollbackCheck, store, world, Goto
  <2> QED BY <2>1, FaultFree DEF Undisturbed, Backward
<1>2. Undisturbed /\ (outcome = "none" \/ (outcome = "cancelled" /\ mem.files = {}))
  BY <1>1 DEF Undisturbed, HonestInv, Converges
<1>3. ~Fault
  BY <1>1, FaultFree DEF Undisturbed
<1>4. CASE outcome = "none"
  <2>1. ASSUME NEW r \in mem.files \ mem.generated PROVE Verify(r, Holder(r), "original")
    <3>1. r \in Roles
      BY <1>1 DEF TypeOK, Manifest
    <3>2. r \in original
      BY <1>1, <1>2, <1>4, AllSteady DEF HonestInv
    <3> QED BY <1>1, <1>2, <1>4, <3>1, <3>2, AllSteady DEF HonestInv, Verify, Holder, Exists
  <2>2. mem.files # {} /\ mem.quarantined \subseteq mem.files /\ "trash" \notin mem.intents
    BY <1>1, <1>2, <1>4, AllSteady DEF HonestInv
  <2>3. pc' = "rb_dest" /\ todo' = mem.files /\ ~errors' /\ UNCHANGED outcome
    BY <1>3, <2>1, <2>2 DEF RollbackCheck, Goto
  <2> QED BY <1>1, <1>4, <2>2, <2>3 DEF Converges
<1>5. CASE outcome = "cancelled" /\ mem.files = {}
  <2>1. "trash" \notin mem.intents
    BY <1>5 DEF HonestInv, ManifestsOK, Fits
  <2>2. pc' = "rb_end" /\ ~errors' /\ UNCHANGED outcome
    BY <1>3, <1>5, <2>1 DEF RollbackCheck, Goto
  <2> QED BY <1>1, <1>5, <2>2 DEF Converges, Loop
<1> QED BY <1>2, <1>4, <1>5

\* The quarantine name is recorded for what has to be withdrawn.
LEMMA WithdrawConverges ==
  ASSUME TInv, HonestInv, WithdrawOutput, Undisturbed'
  PROVE  Converges'
<1>1. /\ TypeOK /\ UNCHANGED <<fs, cur, kind, touched>> /\ faults = 0 /\ ~Fault /\ pc = "rb_dest" /\ pc \in Backward /\ pc \in Loop
      /\ UNCHANGED <<todo, outcome>> /\ mem \in Manifest
  BY FaultFree DEF TInv, TypeOK, WithdrawOutput, store, world, Undisturbed, Goto, Backward, Loop
<1>2. Undisturbed /\ outcome = "none" /\ ~errors /\ \A r \in mem.quarantined \ todo : ~Exists(r, "quarantine")
  <2>1. mem.files # {}
    BY <1>1 DEF HonestInv, ControlOK
  <2> QED BY <1>1, <2>1 DEF Undisturbed, HonestInv, Converges
<1>3. PICK r \in Roles : r = Last(todo) /\ r \in todo
  BY <1>1, FirstLast DEF TypeOK, HonestInv, ControlOK
<1>4. /\ UNCHANGED errors /\ pc' \in {"rb_verify", "rb_claim"} /\ mem'.quarantined \subseteq mem.quarantined \cup {r}
      /\ pc' = "rb_claim" => UNCHANGED mem
  BY <1>1, <1>3 DEF WithdrawOutput, Goto, Manifest
<1>5. pc' = "rb_verify" => Exists(r, dest) \/ Exists(r, "quarantine")
  BY <1>1, <1>3 DEF WithdrawOutput, Goto
<1>6. ASSUME pc' = "rb_claim", r \in mem.quarantined, Exists(r, "quarantine") PROVE FALSE
  <2>1. "publish" \in mem.intents /\ r \in Kept /\ r \in mem.prov
    BY <1>1, <1>2, <1>3, <1>6, AllSteady DEF HonestInv, Exists
  <2> QED BY <1>1, <1>3, <1>6, <2>1 DEF WithdrawOutput, Goto
<1>7. dest' = dest
  BY <1>1 DEF dest
<1> QED BY <1>1, <1>2, <1>3, <1>4, <1>5, <1>6, <1>7 DEF Converges, Exists, Backward, Ending, Loop

\* What is found there is the copy, and the copy is proven.
LEMMA QuarantineConverges ==
  ASSUME TInv, HonestInv, QuarantineCheck \/ QuarantineRename \/ QuarantineUnlink, Undisturbed'
  PROVE  Converges'
<1>1. /\ TypeOK /\ UNCHANGED <<mem, cur, kind, touched, todo, outcome>> /\ faults = 0 /\ ~Fault /\ pc \in Backward /\ pc \in Loop
      /\ pc # "rollback"
  <2>1. CASE QuarantineCheck \/ QuarantineRename
    BY <2>1, FaultFree DEF TInv, QuarantineCheck, QuarantineRename, store, world, Undisturbed, Goto, Backward, Loop
  <2>2. CASE QuarantineUnlink
    BY <2>2, Unlinked, FaultFree DEF TInv, Undisturbed, Backward, Loop
  <2> QED BY <2>1, <2>2
<1>2. /\ Undisturbed /\ outcome = "none" /\ ~errors /\ \A r \in mem.quarantined \ todo : ~Exists(r, "quarantine")
      /\ pc = "rb_verify" => Exists(Last(todo), dest) \/ Exists(Last(todo), "quarantine")
      /\ pc = "rb_unlink" => Exists(Last(todo), "quarantine")
  <2>1. mem.files # {}
    BY <1>1 DEF HonestInv, ControlOK
  <2> QED BY <1>1, <2>1 DEF Undisturbed, HonestInv, Converges
<1>3. PICK r \in Roles : r = Last(todo) /\ r \in todo
  BY <1>1, FirstLast DEF TypeOK, HonestInv, ControlOK
<1>4. /\ dest = "dest" /\ fs[r]["dest"] \in {"none", "copy"} /\ fs[r]["quarantine"] \in {"none", "copy"} /\ Back(r)
      /\ fs[r]["dest"] = "copy" \/ fs[r]["quarantine"] = "copy" => data[r]["copy"] = "good"
  BY <1>1, <1>2, AllSteady DEF HonestInv
<1>5. fs \in FsType /\ "dest" \in Names /\ "quarantine" \in Names /\ \A k \in mem.quarantined : k \in Roles
  BY <1>1 DEF TypeOK, FsType, Names, Manifest
<1>6. CASE QuarantineCheck
  <2>1. /\ UNCHANGED <<fs, errors>>
        /\ \/ pc' = "rb_unlink" /\ Exists(r, "quarantine")
           \/ pc' = "rb_rename"
    BY <1>1, <1>2, <1>3, <1>4, <1>6 DEF QuarantineCheck, Verify, Exists, Goto, store
  <2> QED BY <1>1, <1>2, <1>3, <2>1 DEF Converges, Exists, Backward, Ending, Loop
<1>7. CASE QuarantineRename
  <2>1. fs[r][dest] = "copy"
    BY <1>3, <1>4, <1>7 DEF QuarantineRename, Back
  <2>2. fs' = Rename(r, dest, "quarantine") /\ pc' = "rb_unlink" /\ UNCHANGED errors
    BY <1>1, <1>3, <1>7, <2>1 DEF QuarantineRename, Exists, Goto
  <2>3. fs'[r]["quarantine"] = "copy" /\ \A k \in Roles \ {r} : fs'[k]["quarantine"] = fs[k]["quarantine"]
    BY <1>4, <1>5, <2>1, <2>2, Primitives
  <2> QED BY <1>1, <1>2, <1>3, <1>5, <2>2, <2>3 DEF Converges, Exists, Backward, Ending, Loop
<1>8. CASE QuarantineUnlink
  <2>1. fs' = Unlink(r, "quarantine") /\ pc' = "rb_claim" /\ UNCHANGED errors
    <3>1. Verify(r, "quarantine", "copy")
      <4>1. pc = "rb_unlink"
        BY <1>1, <1>8, Unlinked
      <4> QED BY <1>2, <1>3, <1>4, <4>1 DEF Exists, Verify
    <3> QED BY <1>1, <1>3, <1>8, <3>1, Unlinked DEF Undisturbed
  <2>2. fs'[r]["quarantine"] = "none" /\ \A k \in Roles \ {r} : fs'[k]["quarantine"] = fs[k]["quarantine"]
    BY <1>5, <2>1 DEF Unlink, FsType
  <2> QED BY <1>1, <1>2, <1>3, <1>5, <2>1, <2>2 DEF Converges, Exists, Backward, Ending, Loop
<1> QED BY <1>6, <1>7, <1>8

\* The claim goes home, and an occupied home is the original itself.
LEMMA ClaimConverges ==
  ASSUME TInv, HonestInv, RestoreClaim, Undisturbed'
  PROVE  Converges'
<1>1. /\ TypeOK /\ UNCHANGED <<mem, cur, kind, touched, outcome>> /\ faults = 0 /\ ~Fault /\ pc \in Backward /\ pc \in Loop
      /\ pc = "rb_claim"
  BY FaultFree DEF TInv, RestoreClaim, store, world, Undisturbed, Goto, Backward, Loop
<1>2. /\ Undisturbed /\ outcome = "none" /\ ~errors /\ \A r \in mem.quarantined \ todo : ~Exists(r, "quarantine")
      /\ Last(todo) \notin mem.quarantined \/ ~Exists(Last(todo), "quarantine")
  <2>1. mem.files # {}
    BY <1>1 DEF HonestInv, ControlOK
  <2> QED BY <1>1, <2>1 DEF Undisturbed, HonestInv, Converges
<1>3. PICK r \in Roles : r = Last(todo) /\ r \in todo
  BY <1>1, FirstLast DEF TypeOK, HonestInv, ControlOK
<1>4. /\ data[r]["original"] = "good" /\ fs[r]["source"] \in {"none", "original"} /\ fs[r]["claim"] \in {"none", "original"}
      /\ \A k \in Roles : Exists(k, "stage") => k \in mem.files
  BY <1>1, <1>2, AllSteady DEF HonestInv
<1>5. fs \in FsType /\ {"source", "claim", "quarantine", "stage"} \subseteq Names /\ \A k \in mem.quarantined : k \in Roles
  BY <1>1 DEF TypeOK, FsType, Names, Manifest
<1>6. ~errors' /\ (UNCHANGED fs \/ fs' = Link(r, "claim", "source"))
  <2>1. Exists(r, "claim") => Verify(r, "claim", "original")
    BY <1>4 DEF Exists, Verify
  <2>2. Exists(r, "source") => Verify(r, "source", "original")
    BY <1>4 DEF Exists, Verify
  <2>3. UNCHANGED fs \/ fs' = Link(r, "claim", "source")
    BY <1>1, <1>3, <2>1 DEF RestoreClaim
  <2>4. ~errors'
    <3>1. CASE ~Exists(r, "claim")
      BY <1>1, <1>2, <1>3, <3>1 DEF RestoreClaim
    <3>2. CASE Exists(r, "claim") /\ Exists(r, "source")
      BY <1>1, <1>2, <1>3, <2>1, <2>2, <3>2 DEF RestoreClaim
    <3>3. CASE Exists(r, "claim") /\ ~Exists(r, "source")
      BY <1>1, <1>2, <1>3, <2>1, <3>3 DEF RestoreClaim
    <3> QED BY <3>1, <3>2, <3>3
  <2> QED BY <2>3, <2>4
<1>7. \A k \in Roles : fs'[k]["quarantine"] = fs[k]["quarantine"] /\ fs'[k]["stage"] = fs[k]["stage"]
  BY <1>5, <1>6, Primitives
<1>8. \/ todo = {r} /\ pc' = "rb_clean" /\ todo' = mem.files
      \/ todo # {r} /\ pc' = "rb_dest" /\ todo' = todo \ {r}
  BY <1>3 DEF RestoreClaim, Goto
<1>9. CASE pc' = "rb_clean"
  BY <1>1, <1>2, <1>3, <1>4, <1>5, <1>6, <1>7, <1>8, <1>9 DEF Converges, Exists, Backward, Ending, Loop
<1>10. CASE pc' = "rb_dest"
  BY <1>1, <1>2, <1>3, <1>5, <1>6, <1>7, <1>8, <1>10 DEF Converges, Exists, Backward, Ending, Loop
<1> QED BY <1>8, <1>9, <1>10

\* Every stage left is provably ours or a broken copy of an intact original.
LEMMA CleanConverges ==
  ASSUME TInv, HonestInv, CleanStage, Undisturbed'
  PROVE  Converges'
<1>1. /\ TypeOK /\ SavedOK /\ UNCHANGED <<mem, cur, kind, touched, outcome, pc>> /\ faults = 0 /\ ~Fault /\ pc \in {"cleanup", "rb_clean"}
  BY FaultFree DEF TInv, CleanStage, store, world, Undisturbed, Goto
<1>2. /\ Undisturbed /\ outcome = "none"
      /\ pc = "rb_clean" => /\ ~errors /\ \A r \in mem.quarantined : ~Exists(r, "quarantine")
                            /\ \A r \in Roles \ todo : ~Exists(r, "stage")
  <2>1. mem.files # {}
    BY <1>1 DEF CleanStage, SavedOK
  <2> QED BY <1>1, <2>1 DEF Undisturbed, HonestInv, Converges, Backward, Ending
<1>3. PICK r \in Roles : r = First(todo) /\ r \in mem.files /\ todo' = todo \ {r}
  BY <1>1, FirstLast DEF TypeOK, SavedOK, CleanStage, Goto
<1>4. CASE pc = "cleanup"
  BY <1>1, <1>2, <1>4 DEF Converges, Backward, Loop
<1>5. CASE pc = "rb_clean"
  <2>1. pc \in Backward
    BY <1>5 DEF Backward
  <2>2. /\ data[r]["original"] = "good" /\ fs[r]["stage"] \in {"none", "copy"} /\ (r \in mem.prov => data[r]["copy"] = "good")
        /\ Back(r) /\ r \in original
    BY <1>1, <1>2, <1>3, <2>1, AllSteady DEF HonestInv
  <2>3. fs[r]["source"] = "original"
    BY <1>2, <1>5, <2>2 DEF Back, Withdrawn, AtHome
  <2>4. UNCHANGED errors /\ ((UNCHANGED fs /\ fs[r]["stage"] = "none") \/ fs' = Unlink(r, "stage"))
    BY <1>1, <1>3, <2>2, <2>3 DEF CleanStage, Exists, Verify
  <2>5. fs \in FsType /\ {"quarantine", "stage"} \subseteq Names /\ \A k \in mem.quarantined : k \in Roles
    BY <1>1 DEF TypeOK, FsType, Names, Manifest
  <2>6. /\ fs'[r]["stage"] = "none" /\ \A k \in Roles \ {r} : fs'[k]["stage"] = fs[k]["stage"]
        /\ \A k \in Roles : fs'[k]["quarantine"] = fs[k]["quarantine"]
    BY <2>4, <2>5 DEF Unlink, FsType
  <2> QED BY <1>1, <1>2, <1>3, <1>5, <2>4, <2>5, <2>6 DEF Converges, Exists, Backward, Ending, Loop
<1> QED BY <1>1, <1>4, <1>5

\* So the recovery ends as a success, and every other step leaves it on its way.
LEMMA ConvergesStep ==
  ASSUME TInv, HonestInv, [Next]_vars
  PROVE  Converges'
<1> SUFFICES ASSUME Undisturbed' PROVE Converges'
  BY DEF Converges
<1>1. TypeOK /\ cur' # 1 /\ touched' = {} /\ faults' = 0 /\ kind' \notin {"trash", "metadata"} /\ ControlOK
  BY DEF TInv, Undisturbed, HonestInv
<1>2. CASE Perform
  BY <1>1, <1>2, PerformFlow
<1>3. CASE Commit \/ Cleaned
  <2>1. /\ UNCHANGED <<cur, kind, touched, outcome>> /\ (Fault \/ NoFault) /\ pc \in Ending
        /\ pc' \in {"cleanup", "idle", "finish"} /\ mem'.files = mem.files
    BY <1>1, <1>3 DEF Commit, Cleaned, world, Goto, Ending, Declare, TypeOK, Manifest
  <2>2. Undisturbed
    BY <1>1, <2>1, FaultFree DEF Undisturbed
  <2> QED BY <2>1, <2>2 DEF HonestInv, Converges, Backward, Loop
<1>4. CASE RollbackEnd
  <2>1. /\ UNCHANGED <<cur, kind, touched>> /\ (Fault \/ NoFault) /\ pc \in {"rb_end", "rb_clean"}
        /\ pc = "rb_clean" => todo = {}
    BY <1>4 DEF RollbackEnd, world
  <2>2. Undisturbed
    BY <1>1, <2>1, FaultFree DEF Undisturbed
  <2>3. pc \in Backward \ {"rollback"}
    BY <2>1 DEF Backward
  <2>4. /\ outcome = "none" \/ (outcome = "cancelled" /\ mem.files = {})
        /\ ~errors /\ (pc = "rb_end" => outcome = "cancelled")
        /\ pc = "rb_clean" => /\ \A r \in Roles : ~Exists(r, "stage")
                              /\ \A r \in mem.quarantined : ~Exists(r, "quarantine")
    BY <2>1, <2>2, <2>3 DEF HonestInv, Converges
  <2>5. CASE outcome = "none"
    <3>1. pc = "rb_clean" /\ todo = {} /\ ~errors
      BY <2>1, <2>4, <2>5
    <3>2. ~Leftovers
      BY <1>1, <2>4, <3>1 DEF Leftovers
    <3>3. pc' = "commit" /\ outcome' = "none"
      BY <1>4, <2>5, <3>1, <3>2 DEF RollbackEnd, Goto
    <3> QED BY <3>3 DEF Converges, Backward, Loop
  <2>6. CASE outcome = "cancelled" /\ mem.files = {}
    <3>1. pc' = "finish" /\ outcome' = "cancelled" /\ mem' = mem
      BY <1>4, <2>6 DEF RollbackEnd, Goto
    <3> QED BY <2>6, <3>1 DEF Converges, Backward, Loop
  <2> QED BY <2>4, <2>5, <2>6
<1>5. CASE Recover
  <2>1. UNCHANGED kind /\ (Fault \/ NoFault) /\ pc = "recover" /\ outcome = "none"
    BY <1>1, <1>5 DEF Recover, SaveThen, world, ControlOK
  <2>2. ~Fault
    BY <1>1, <2>1, FaultFree
  <2>3. /\ pc' = "rollback"
        /\ outcome' = "none" \/ (outcome' = "cancelled" /\ mem' = mem)
    BY <1>1, <1>5, <2>1, <2>2 DEF Recover, SaveThen, Goto, Raise
  <2>4. mem.files = {}
    BY <1>1, <2>1 DEF ControlOK
  <2> QED BY <2>3, <2>4 DEF Converges, Loop
<1>6. CASE pc' \in {"idle", "down", "recover"}
  BY <1>6 DEF Converges, Backward, Ending, Loop
<1>7. CASE UserEdit
  BY <1>1, <1>7, EditEffect
<1>8. CASE UNCHANGED vars
  BY <1>8 DEF vars, HonestInv, Converges, Undisturbed, Exists, dest
<1>9. CASE ExecuteAgain
  BY <1>6, <1>9 DEF ExecuteAgain
<1>10. CASE Finish \/ SubmitRecovery \/ Crash \/ Restart
  BY <1>6, <1>10 DEF Finish, SubmitRecovery, Crash, Restart, Goto
<1> QED BY <1>2, <1>3, <1>4, <1>5, <1>7, <1>8, <1>9, <1>10, CheckConverges, WithdrawConverges, QuarantineConverges,
       ClaimConverges, CleanConverges DEF Next, Service, Succeed, Rollback

-----------------------------------------------------------------------------
(* The invariant behind what a failure, a completion and a recovery promise. *)

\* At the start the originals are at home and nothing else is anywhere.
LEMMA InitHonest ==
  ASSUME Init
  PROVE  HonestInv
<1>1. TypeOK /\ NamesOK /\ 1 \in Rows
  BY InitT, BoundsAssumption DEF TInv, Rows
<1>2. /\ \A i \in Rows : /\ rows[i].state = IF i = 1 THEN "accepted" ELSE "none"
                         /\ rows[i].manifest = NoManifest /\ rows[i].target = 0 /\ ~rows[i].resolved
      /\ mem = NoManifest /\ pc = "plan" /\ cur = 1 /\ outcome = "none" /\ touched = {}
  BY DEF Init
<1>3. \A r \in Roles : /\ \A l \in Names \ {"source"} : fs[r][l] = "none"
                       /\ fs[r]["source"] = IF r \in original THEN "original" ELSE "none"
                       /\ \A i \in Inodes : data[r][i] = "good"
  BY DEF Init, Names
<1>4. /\ dest \in {"source", "dest"} /\ {"source", "claim", "stage", "dest", "quarantine"} \subseteq Names
      /\ {"original", "copy"} \subseteq Inodes
  BY DEF dest, DestOf, Names, Inodes
<1>5. ControlOK
  BY <1>1, <1>2 DEF ControlOK, FirstRun, Early, Backward, Loop
<1>6. Fits(NoManifest)
  BY DEF Fits, NoManifest
<1>7. ManifestsOK
  BY <1>2, <1>3, <1>4, <1>6 DEF ManifestsOK, NoManifest
<1>8. ASSUME NEW r \in Roles PROVE RoleOK(r)
  <2>1. ~Out(r) /\ AtHome(r) /\ ~Exists(r, "quarantine")
    BY <1>3, <1>4 DEF Out, AtHome, Exists
  <2>2. Steady(r)
    BY <1>3, <1>4, <2>1 DEF Steady, Original
  <2>3. Forward(r)
    BY <1>2, <1>3, <1>4, <2>1 DEF Forward, Ending
  <2>4. Back(r) /\ End(r)
    BY <1>1, <1>2 DEF Back, Loop, End, Ending, Completed
  <2> QED BY <2>2, <2>3, <2>4 DEF RoleOK
<1>9. Converges
  BY <1>2 DEF Converges, Undisturbed
<1> QED BY <1>5, <1>7, <1>8, <1>9 DEF HonestInv

\* Every step keeps it.
LEMMA StepHonest ==
  ASSUME TInv, TInv', HonestInv, [Next]_vars
  PROVE  HonestInv'
<1>1. ControlOK' /\ ManifestsOK' /\ Converges'
  BY ControlStep, ManifestsStep, ConvergesStep DEF HonestInv
<1>2. touched \subseteq touched'
  <2>1. CASE Perform
    BY <2>1, PerformFlow DEF HonestInv
  <2>2. CASE Succeed \/ Rollback
    BY <2>2, RestKeeps DEF TInv
  <2> QED BY <2>1, <2>2, EditEffect DEF TInv, Next, Service, SubmitRecovery, Recover, ExecuteAgain, Crash, Restart,
        world, vars
<1>3. ASSUME NEW r \in Roles, r \notin touched' PROVE RoleOK(r)'
  BY <1>2, <1>3, RoleStep DEF HonestInv
<1> QED BY <1>1, <1>3 DEF HonestInv

\* In every state the manifests tell what was done, every name nobody else touched is
\* on its way from home and back, and an undisturbed recovery is on its way to success.
THEOREM HonestInvariance == Spec => []HonestInv
<1>1. Init => TInv /\ HonestInv
  BY InitT, InitHonest
<1>2. TInv /\ HonestInv /\ [Next]_vars => TInv' /\ HonestInv'
  BY StepT, StepHonest
<1> QED BY <1>1, <1>2, PTL DEF Spec

\* A row that says failed, cancelled or recovered tells the truth of every name the
\* user left alone: the original is back, no output is visible and no stage is left.
THEOREM FailureIsHonest == Spec => []HonestFailure
<1>1. HonestInv => HonestFailure
  BY DEF HonestInv, RoleOK, Steady, End, HonestFailure, IsUndone, Withdrawn, AtHome, Away, Undone, Verify
<1> QED BY <1>1, HonestInvariance, PTL

\* A row that says completed tells the truth of the whole set: every output is
\* published and every original taken is retained in its claim.
THEOREM CompletionIsHonest == Spec => []HonestCompletion
<1>1. HonestInv => HonestCompletion
  BY DEF HonestInv, RoleOK, End, HonestCompletion
<1> QED BY <1>1, HonestInvariance, PTL

\* A recovery that meets no failing call and no user change resolves its row, however
\* often the operation and its recoveries were interrupted before.
THEOREM RecoveriesConverge == Spec => []RecoveryConverges
<1>1. TInv /\ HonestInv => RecoveryConverges
  <2> SUFFICES ASSUME TInv, HonestInv, pc = "finish", rows[cur].target # 0, faults = 0, touched = {},
                      kind \notin {"trash", "metadata"}
               PROVE  outcome # "failed"
    BY DEF RecoveryConverges
  <2>1. cur # 1
    BY DEF TInv, TypeOK, HonestInv, ControlOK
  <2> QED BY <2>1 DEF HonestInv, Converges, Undisturbed, Ending
<1> QED BY <1>1, HonestInvariance, TransactionInvariance, PTL
=============================================================================
