------------------------------- MODULE MCMedia -------------------------------
(***************************************************************************)
(* The camera and its pictures in one run: the monitor's threads, the camera  *)
(* they open, the streamer they feed, the parser and the face recognition    *)
(* that read the pictures.  In a behaviour one part runs and the others stay *)
(* where they start.                                                       *)
(***************************************************************************)
EXTENDS Monitor, Camera, Streamer, H264Parser, FaceRecognition

(* Boxes as the network puts them out: the second is the first face again,    *)
(* the third overlaps that one but not the first, the fourth reaches over     *)
(* two edges of the image, and the fifth is not confident enough.            *)
Box(a, b, c, d, s) == [x1 |-> a, y1 |-> b, x2 |-> c, y2 |-> d, score |-> s]

MCAnchors ==
  {Box(0, 0, 20, 20, 9), Box(2, 2, 22, 22, 8), Box(11, 0, 31, 20, 7),
   Box(45, -8, 65, 16, 9), Box(0, 20, 20, 40, 6)}

(* The bits of each unit are read right; MediaProofs takes it from here to    *)
(* streams of any length.                                                   *)
ASSUME MCUnitsLegible == UnitsLegible

VARIABLE part     (* the part that runs *)

MediaInit ==
  /\ part \in {"monitor", "camera", "streamer", "parser", "faces"}
  /\ MonitorInit /\ CameraInit /\ StreamerInit /\ ParserInit /\ FaceInit

MediaNext ==
  /\ UNCHANGED part
  /\ \/ /\ part = "monitor" /\ MonitorNext
        /\ UNCHANGED <<cameraVars, streamerVars, parserVars, faceVars>>
     \/ /\ part = "camera" /\ CameraNext
        /\ UNCHANGED <<monitorVars, streamerVars, parserVars, faceVars>>
     \/ /\ part = "streamer" /\ StreamerNext
        /\ UNCHANGED <<monitorVars, cameraVars, parserVars, faceVars>>
     \/ /\ part = "parser" /\ ParserNext
        /\ UNCHANGED <<monitorVars, cameraVars, streamerVars, faceVars>>
     \/ /\ part = "faces" /\ FaceNext
        /\ UNCHANGED <<monitorVars, cameraVars, streamerVars, parserVars>>

(* The fairness of MonitorFairSpec, while the monitor runs.                  *)
MediaSpec ==
  /\ MediaInit
  /\ [][MediaNext]_<<part, monitorVars, cameraVars, streamerVars, parserVars, faceVars>>
  /\ WF_monitorVars(part = "monitor" /\ monitorThreadFunc)
  /\ WF_monitorVars(part = "monitor" /\ audioThreadFunc)
  /\ WF_monitorVars(part = "monitor" /\ stopMonitorEnds)
=============================================================================
