------------------------------ MODULE ReaderJob ------------------------------
(***************************************************************************)
(* One job of the reader process (reader_job.execute): it decodes an image *)
(* with the base decoder or an optional codec, or tags an image with the   *)
(* model component, on the NVIDIA provider or on the CPU.  Codec, model    *)
(* and provider are optional components that other processes install,      *)
(* switch, roll back and remove while the job runs; their stores are the   *)
(* abstract VersionStore, which ComponentStore implements.  The answer     *)
(* becomes a cache key of the window (decode) or the receipt written       *)
(* beside the tags (infer), so it has to name what really did the work.    *)
(***************************************************************************)
CONSTANTS Versions,    \* versions of the codec or model
          Providers,   \* versions of the NVIDIA provider
          NoVersion,
          Contents     \* contents the image file may have

VARIABLES complete, active, previous, enabled, held,       \* store of the codec or model
          pcomplete, pactive, pprevious, penabled, pheld,  \* store of the provider
          file,        \* content of the image file
          job          \* the job, with what it really did ("work") and told ("answer")

store    == <<complete, active, previous, enabled, held>>
provider == <<pcomplete, pactive, pprevious, penabled, pheld>>
vars     == <<store, provider, file, job>>

Tool == INSTANCE VersionStore WITH Holders <- {"job"}
Gpu  == INSTANCE VersionStore WITH
  Versions <- Providers, Holders <- {"job"}, complete <- pcomplete, active <- pactive,
  previous <- pprevious, enabled <- penabled, held <- pheld

Core    == "base"
Nothing == [on |-> "none", helper |-> NoVersion, model |-> NoVersion, content |-> "none",
            fallback |-> FALSE]

Init ==
  /\ Tool!Init /\ Gpu!Init
  /\ file \in Contents
  /\ \E kind \in {"decode", "infer"}, hardware \in BOOLEAN :
       job = [kind |-> kind, hardware |-> hardware, at |-> "start", chosen |-> NoVersion,
              fallback |-> FALSE, work |-> Nothing, answer |-> Nothing]

At(where)  == job.at = where
Serves     == enabled /\ active # NoVersion
GpuServes  == penabled /\ pactive # NoVersion
-----------------------------------------------------------------------------
\* _snapshot: a copy of the image at one instant; a file that changes meanwhile fails.
Snapshot ==
  /\ At("start")
  /\ job' = [job EXCEPT !.at = "read", !.work.content = file]
  /\ UNCHANGED <<store, provider, file>>

\* active_path, without the lock: without a codec the base decoder is used, without a
\* model the job fails.
Choose ==
  /\ At("read")
  /\ job' = IF Serves THEN [job EXCEPT !.at = "chosen", !.chosen = active]
            ELSE [job EXCEPT !.at = IF job.kind = "decode" THEN "base" ELSE "failed"]
  /\ UNCHANGED <<store, provider, file>>

(* acquire takes the codec that is active now, acquire_path the model that *)
(* was chosen; both under the lock of the store.                           *)
Wanted == IF job.kind = "decode" THEN active ELSE job.chosen

Lease ==
  /\ At("chosen") /\ Tool!Hold("job", Wanted)
  /\ job' = [job EXCEPT !.at = IF job.kind = "decode" THEN "decoding" ELSE "leased"]
  /\ UNCHANGED <<provider, file>>

NoLease ==
  /\ At("chosen") /\ ~(enabled /\ Wanted \in complete)
  /\ job' = [job EXCEPT !.at = "failed"]
  /\ UNCHANGED <<store, provider, file>>

Done(on, helper, fallback, answer) ==
  job' = [job EXCEPT !.at = "told", !.fallback = fallback,
                     !.work.on = on, !.work.helper = helper, !.answer = answer]

\* The identity of a decoder is that of the helper which answered, not the chosen one.
\* Bug: the version read before the lease stays in the answer.
ChosenFirst == job.chosen
Decoder     == held["job"]

DecodeInBase ==
  /\ At("base")
  /\ Done("cpu", Core, FALSE,
          [Nothing EXCEPT !.on = "cpu", !.helper = Core, !.content = job.work.content])
  /\ UNCHANGED <<store, provider, file>>

DecodeInHelper ==
  /\ At("decoding") /\ Tool!Release("job")
  /\ Done("cpu", held["job"], FALSE,
          [Nothing EXCEPT !.on = "cpu", !.helper = Decoder, !.content = job.work.content])
  /\ UNCHANGED <<provider, file>>
-----------------------------------------------------------------------------
\* infer_component: the model and its labels are copied under the lease of their version.
CopyModel ==
  /\ At("leased") /\ held["job"] \in complete
  /\ job' = [job EXCEPT !.at = "copied", !.work.model = held["job"]]
  /\ UNCHANGED <<store, provider, file>>

\* active_path of the provider decides whether the GPU is tried.
AskProvider ==
  /\ At("copied")
  /\ job' = [job EXCEPT !.at = IF job.hardware /\ GpuServes THEN "gpu" ELSE "cpu",
                        !.fallback = job.hardware /\ ~GpuServes]
  /\ UNCHANGED <<store, provider, file>>

FallsBack == job' = [job EXCEPT !.at = "cpu", !.fallback = TRUE]

LeaseProvider ==
  /\ At("gpu")
  /\ \/ /\ Gpu!Hold("job", pactive) /\ job' = [job EXCEPT !.at = "gpu runs"]
     \/ /\ ~(penabled /\ pactive \in pcomplete) /\ FallsBack /\ UNCHANGED provider
  /\ UNCHANGED <<store, file>>

(* _inference_receipt: the model version is that of the lease.             *)
\* Bug: the receipt names the model that is active by now.
ModelByNow  == active
ModelLeased == held["job"]

Receipt(on, helper, fallback) ==
  [on |-> on, helper |-> helper, model |-> ModelLeased, content |-> job.work.content,
   fallback |-> fallback]

(* _validate_cuda_precision: an answer counts only if the helper attests   *)
(* that CUDA computed, in full precision; a provider may fall back itself. *)
\* Bug: an answer that is well-formed is taken.
AnyAnswer(on) == TRUE
Attested(on)  == on = "cuda"

GpuAnswers ==
  /\ At("gpu runs") /\ Gpu!Release("job")
  /\ \E on \in {"cuda", "cpu"} :
       IF Attested(on)
       THEN Done(on, pheld["job"], FALSE, Receipt("cuda", pheld["job"], FALSE)) /\ Tool!Release("job")
       ELSE FallsBack /\ UNCHANGED store
  /\ UNCHANGED file

\* The helper dies, breaks the protocol or its time is over: one attempt on the CPU.
GpuFails ==
  /\ At("gpu runs") /\ Gpu!Release("job") /\ FallsBack
  /\ UNCHANGED <<store, file>>

CpuAnswers ==
  /\ At("cpu") /\ Tool!Release("job")
  /\ Done("cpu", Core, job.fallback, Receipt("cpu", Core, job.fallback))
  /\ UNCHANGED <<provider, file>>

\* A helper or the job fails, or run_reader's deadline or a cancellation kills it: its
\* leases end with it.
Fail ==
  /\ job.at \notin {"told", "failed"}
  /\ Tool!Release("job") /\ Gpu!Release("job")
  /\ job' = [job EXCEPT !.at = "failed"]
  /\ UNCHANGED file
-----------------------------------------------------------------------------
StoreMoves ==
  /\ \/ \E v \in Versions : Tool!Publish(v) \/ Tool!Activate(v) \/ Tool!Discard(v)
     \/ \E gone \in SUBSET Versions : Tool!Retire(gone)
     \/ Tool!SwitchOn \/ Tool!SwitchOff \/ Tool!RollBack
  /\ UNCHANGED <<provider, file, job>>

ProviderMoves ==
  /\ \/ \E v \in Providers : Gpu!Publish(v) \/ Gpu!Activate(v) \/ Gpu!Discard(v)
     \/ \E gone \in SUBSET Providers : Gpu!Retire(gone)
     \/ Gpu!SwitchOn \/ Gpu!SwitchOff \/ Gpu!RollBack
  /\ UNCHANGED <<store, file, job>>

FileChanges == file' \in Contents \ {file} /\ UNCHANGED <<store, provider, job>>

Next ==
  \/ Snapshot \/ Choose \/ Lease \/ NoLease \/ DecodeInBase \/ DecodeInHelper
  \/ CopyModel \/ AskProvider \/ LeaseProvider \/ GpuAnswers \/ GpuFails \/ CpuAnswers \/ Fail
  \/ StoreMoves \/ ProviderMoves \/ FileChanges

Spec == Init /\ [][Next]_vars
-----------------------------------------------------------------------------
\* Safety: an answer names what did the work - the content that was read, the version
\* that decoded it or whose model was loaded, the helper and the processor that computed -
\* and says that it fell back exactly when hardware was wanted and the CPU computed,
\* whatever became of the file and the components meanwhile (execute, infer_component,
\* _inference_receipt).  No helper runs from a version that is not complete.
AnswerTruth ==
  /\ At("told") => job.answer = [job.work EXCEPT !.fallback = job.answer.fallback]
  /\ At("told") /\ job.kind = "infer" => (job.answer.fallback <=> job.hardware /\ job.work.on = "cpu")
  /\ At("decoding") => held["job"] \in complete
  /\ At("gpu runs") => pheld["job"] \in pcomplete
=============================================================================
