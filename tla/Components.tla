----------------------------- MODULE Components -----------------------------
(***************************************************************************)
(* The two sides of an optional component.  A behaviour is about the       *)
(* processes that change one store (ComponentStore) or about the job of a  *)
(* reader that uses a component and its provider (ReaderJob).  What joins  *)
(* them is VersionStore: the first implements it and the second knows no   *)
(* more of a store than that.                                              *)
(***************************************************************************)
EXTENDS ComponentStore

CONSTANTS Providers,   \* versions of the NVIDIA provider
          Contents     \* contents the image file may have

VARIABLES scene,
          complete, active, previous, enabled, held,
          pcomplete, pactive, pprevious, penabled, pheld, file, task

readerVars == <<complete, active, previous, enabled, held,
                pcomplete, pactive, pprevious, penabled, pheld, file, task>>

Reading == INSTANCE ReaderJob WITH job <- task

ComponentsInit ==
  /\ scene \in {"store", "reader"}
  /\ Init
  /\ Reading!Init
  /\ scene = "store" => task.kind = "decode" /\ ~task.hardware /\ file = CHOOSE c \in Contents : TRUE

ComponentsNext ==
  /\ scene' = scene
  /\ \/ scene = "store" /\ Next /\ UNCHANGED readerVars
     \/ scene = "reader" /\ Reading!Next /\ UNCHANGED vars

\* Only the processes of the store are promised to end: see FairSpec.
ComponentsSpec ==
  /\ ComponentsInit /\ [][ComponentsNext]_<<vars, readerVars, scene>>
  /\ WF_vars(Running /\ UNCHANGED <<scene, readerVars>>)
-----------------------------------------------------------------------------
\* Safety: an answer of a reader names what really did the work (ReaderJob).
AnswerTruth == Reading!AnswerTruth
=============================================================================
