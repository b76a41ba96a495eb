--------------------------- MODULE MCEmbeddedFile ---------------------------
(***************************************************************************)
(* What one file costs, and the file the calls are counted in: EmbeddedFile *)
(* over UsageLimit, and UsageTracker with one process, which implements    *)
(* UsageLimit.  A behaviour is one of one of them, its subject, while the  *)
(* other rests.                                                            *)
(***************************************************************************)
EXTENDS EmbeddedFile, UsageTracker, TLC

CONSTANTS onnx, api, w1, i1, i2

VARIABLE subject

(* The second version is the first saved again; the third has two batches  *)
(* of chunks.                                                              *)
MCWording == <<"short", "short", "long">>
MCChunkCount == [short |-> 1, long |-> 3]

(* Calls whose count is lost are cut off here. *)
FewAdmitted == \A m \in Month : admitted[m] <= 4

(* The file at rest is one that was indexed. *)
Settled ==
  /\ kind = "note"
  /\ row = [stamp |-> 1, text |-> Text(1), model |-> None, vlmHash |-> None,
            torn |-> None]
  /\ vectors = NoVectors(row.text)

Init ==
  /\ TrackerInit
  /\ \/ subject = "file" /\ FileInit
     \/ /\ subject = "tracker" /\ UsageInit /\ Settled
        /\ disk = [version |-> 1, stamp |-> 1] /\ task = None
        /\ requests = [m \in 1 .. Months |-> 0] /\ unwritten = requests
        /\ faults = 0

Rests == UNCHANGED <<subject, trackerVars>>

Next ==
  \/ subject = "file" /\ FileNext /\ Rests
  \/ subject = "tracker" /\ TrackerNext /\ FewAdmitted' /\ UNCHANGED <<subject, vars>>

Vars == <<subject, vars, trackerVars>>
Spec ==
  Init /\ [][Next]_Vars /\ WF_Vars(subject = "file" /\ IndexStep /\ Rests)
=============================================================================
