------------------------- MODULE MCSharedRingBuffer -------------------------
(***************************************************************************)
(* The plugin's two rings, as TLC runs them: the host ring is drained with *)
(* a cursor, the model ring is read in snapshots, none in both ways.       *)
(***************************************************************************)
EXTENDS SharedRingBuffer

VARIABLE use   \* how the ring is read

MCInit == Init /\ use \in {"snapshots", "drain"}

MCNext ==
  /\ UNCHANGED use
  /\ \/ Writer
     \/ use = "snapshots" /\ (CallReadLastN \/ Snapshot)
     \/ use = "drain" /\ (AttachCursor \/ Drain)

MCvars == <<vars, use>>

(* A write, once begun, runs on, whatever the readers do, and the drain     *)
(* loop keeps calling read().  No fairness makes anyone begin a write or a  *)
(* snapshot, or take a step of one.                                         *)
MCSpec ==
  /\ MCInit
  /\ [][MCNext]_MCvars
  /\ WF_vars(StoreSample \/ Publish)
  /\ WF_vars(use = "drain" /\ Drain)

(* A reader that keeps draining (AnalysisThread.h:214-232) is level with    *)
(* the writer again and again once the audio pauses (MaxCount), even after  *)
(* it has been lapped.                                                      *)
DrainCatchesUp == use = "drain" => []<>(cursor = writeCount)
=============================================================================
