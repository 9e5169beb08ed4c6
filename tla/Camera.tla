------------------------------- MODULE Camera -------------------------------
(***************************************************************************)
(* How the camera is opened and closed (core/v4l2_capture.c,                *)
(* core/rkisp_camera.c, FaceManager::initCamera): the MIPI camera with the  *)
(* 3A library is tried first, a USB camera second.  Every step of the way   *)
(* may fail, and what the code takes back then differs from step to step.   *)
(*                                                                         *)
(* The streaming of frames is in module Monitor.  The model counts what is  *)
(* held: the context, the descriptor, the 3A context and its threads, the   *)
(* mapped buffers and the exported DMA-BUF descriptors.                     *)
(***************************************************************************)
EXTENDS Integers, FiniteSets

CONSTANT BufferCount   (* the buffers the kernel grants *)

ASSUME CameraAssumption == BufferCount \in Nat \ {0, 1}

VARIABLES
  step,        (* where an open is; "closed" or "streaming" outside of one  *)
  is_mplane,   (* the MIPI path                                            *)
  held,        (* of "ctx", "fd", "aiq" and "3A" (the library's threads)    *)
  aiqDeinits,  (* how often the last 3A context has been given back         *)
  deviceFmt,   (* the format the device is set to                          *)
  pixfmt,      (* the one the context says                                 *)
  mapped,      (* buffers that are mapped and that the context knows        *)
  lostMaps,    (* whether there are mapped ones it does not know            *)
  dma_fds,     (* the descriptors exported for each buffer, known or not    *)
  last_index   (* the buffer last dequeued, or 0                           *)

cameraVars == <<step, is_mplane, held, aiqDeinits, deviceFmt, pixfmt, mapped, lostMaps, dma_fds,
                last_index>>

BufferIds == 1 .. BufferCount

Formats == {"NV12", "YUYV", "other"}

MipiNext == [find |-> "open", open |-> "sensor", sensor |-> "init", init |-> "prepare",
             prepare |-> "start", start |-> "format", format |-> "request", request |-> "map",
             map |-> "queue", queue |-> "stream", stream |-> "streaming"]

UsbNext == [find |-> "open", open |-> "capability", capability |-> "NV12", NV12 |-> "request",
            YUYV |-> "request", request |-> "map", map |-> "queue", queue |-> "stream",
            stream |-> "streaming"]

CameraTypeOK ==
  /\ step \in DOMAIN MipiNext \cup DOMAIN UsbNext \cup {"closed", "streaming"}
  /\ {is_mplane, lostMaps} \subseteq BOOLEAN
  /\ held \subseteq {"ctx", "fd", "aiq", "3A"} /\ aiqDeinits \in 0 .. 2
  /\ deviceFmt \in Formats /\ pixfmt \in Formats
  /\ mapped \in 0 .. BufferCount /\ last_index \in 0 .. BufferCount
  /\ dma_fds \in [BufferIds -> 0 .. 2]

CameraInit ==
  /\ step = "closed" /\ is_mplane = FALSE /\ held = {} /\ aiqDeinits = 0
  /\ deviceFmt = "other" /\ pixfmt = "other" /\ mapped = 0 /\ lostMaps = FALSE
  /\ dma_fds = [b \in BufferIds |-> 0] /\ last_index = 0

-----------------------------------------------------------------------------
(* The steps of an open that succeed. *)

initCamera ==
  /\ step = "closed"
  /\ step' = "find" /\ is_mplane' = TRUE
  /\ aiqDeinits' = 0 /\ pixfmt' = "other"
  /\ UNCHANGED <<held, deviceFmt, mapped, lostMaps, dma_fds, last_index>>

(* What a step takes into possession. *)
Gained(s) ==
  CASE s = "open" -> {"ctx", "fd"} [] s = "init" -> {"aiq"} [] s = "start" -> {"3A"}
    [] OTHER -> {}

(* The steps that need no more than that; the frame rate is set on the way,   *)
(* and whether that works does not matter.                                  *)
StepSucceeds ==
  /\ step \in {"find", "open", "sensor", "init", "prepare", "start", "capability", "request",
               "queue", "stream"}
  /\ held' = held \cup Gained(step)
  /\ step' = IF is_mplane THEN MipiNext[step] ELSE UsbNext[step]
  /\ UNCHANGED <<is_mplane, aiqDeinits, deviceFmt, pixfmt, mapped, lostMaps, dma_fds, last_index>>

(* rkisp: VIDIOC_S_FMT answers with what it has set. *)
MplaneFormat ==
  /\ step = "format"
  /\ deviceFmt' \in Formats /\ pixfmt' = deviceFmt'
  /\ step' = "request"
  /\ UNCHANGED <<is_mplane, held, aiqDeinits, mapped, lostMaps, dma_fds, last_index>>

(* negotiate_format, for one format: TRY_FMT or S_FMT may refuse, or change    *)
(* the format, and then the next one is tried.                              *)
TryFormat(f) ==
  /\ step = f /\ f \in {"NV12", "YUYV"}
  /\ deviceFmt' \in {deviceFmt} \cup Formats
  /\ \/ deviceFmt' = f /\ pixfmt' = f /\ step' = "request"
     \/ f = "NV12" /\ UNCHANGED pixfmt /\ step' = "YUYV"
  /\ UNCHANGED <<is_mplane, held, aiqDeinits, mapped, lostMaps, dma_fds, last_index>>

(* QUERYBUF and mmap, one buffer after the other; rkisp exports each at once,  *)
(* if it can.                                                               *)
MapBuffer ==
  /\ step = "map"
  /\ mapped' = mapped + 1
  /\ dma_fds' \in {dma_fds} \cup (IF is_mplane THEN {[dma_fds EXCEPT ![mapped + 1] = 1]} ELSE {})
  /\ step' = IF mapped' = BufferCount THEN "queue" ELSE "map"
  /\ UNCHANGED <<is_mplane, held, aiqDeinits, deviceFmt, pixfmt, lostMaps, last_index>>

-----------------------------------------------------------------------------
(* Failures and the close. *)

(* v4l2_capture_close with a 3A context still set gives that back. *)
AiqGivenBack(times) == aiqDeinits' = aiqDeinits + times

(* Mutant: the descriptors of the exported buffers stay open. *)
CloseKeepsDma ==
  /\ held' = {} /\ mapped' = 0 /\ last_index' = 0
  /\ dma_fds' = dma_fds

(* The context's descriptors, buffers and memory; it knows one descriptor for  *)
(* each buffer.                                                             *)
v4l2_capture_close ==
  /\ held' = {} /\ mapped' = 0 /\ last_index' = 0
  /\ dma_fds' = [b \in BufferIds |-> IF dma_fds[b] > 0 THEN dma_fds[b] - 1 ELSE 0]

(* rkisp_camera_open: the early steps free what there is; those that have      *)
(* buffers give the 3A context back and then call the close, which does it    *)
(* again.  initCamera goes on with a USB camera.                            *)
MipiFails ==
  /\ is_mplane /\ step \notin {"closed", "streaming"}
  /\ v4l2_capture_close
  /\ AiqGivenBack(IF "aiq" \notin held THEN 0
                  ELSE IF step \in {"request", "map", "queue", "stream"} THEN 2 ELSE 1)
  /\ is_mplane' = FALSE /\ step' = "find"
  /\ UNCHANGED <<deviceFmt, pixfmt, lostMaps>>

(* v4l2_capture_open closes the context.  init_mmap_buffers has dropped the    *)
(* table of the buffers by then, and only a failed mmap unmaps those before.  *)
UsbFails ==
  /\ ~is_mplane /\ step \notin {"closed", "streaming", "NV12", "find"}
  /\ v4l2_capture_close
  /\ \/ lostMaps' = (lostMaps \/ step = "queue")
     \/ step = "map" /\ lostMaps' = (lostMaps \/ mapped > 0)
  /\ step' = "closed"
  /\ UNCHANGED <<is_mplane, aiqDeinits, deviceFmt, pixfmt>>

NotExportedYet == dma_fds[last_index] = 0

DequeueFrame ==
  /\ step = "streaming" /\ last_index = 0
  /\ last_index' \in BufferIds
  /\ UNCHANGED <<step, is_mplane, held, aiqDeinits, deviceFmt, pixfmt, mapped, lostMaps, dma_fds>>

v4l2_capture_get_fd ==
  /\ step = "streaming" /\ last_index # 0
  /\ dma_fds' = IF NotExportedYet /\ dma_fds[last_index] < 2
                  THEN [dma_fds EXCEPT ![last_index] = @ + 1] ELSE dma_fds
  /\ last_index' = 0
  /\ UNCHANGED <<step, is_mplane, held, aiqDeinits, deviceFmt, pixfmt, mapped, lostMaps>>

(* releaseCamera: the 3A loop is stopped before STREAMOFF. *)
CloseCamera ==
  /\ step = "streaming"
  /\ v4l2_capture_close
  /\ AiqGivenBack(IF "aiq" \in held THEN 1 ELSE 0)
  /\ step' = "closed" /\ is_mplane' = FALSE
  /\ UNCHANGED <<deviceFmt, pixfmt, lostMaps>>

CameraNext ==
  \/ initCamera \/ StepSucceeds \/ MplaneFormat \/ (\E f \in Formats : TryFormat(f)) \/ MapBuffer
  \/ MipiFails \/ UsbFails \/ DequeueFrame \/ v4l2_capture_get_fd \/ CloseCamera

CameraSpec == CameraInit /\ [][CameraNext]_cameraVars

-----------------------------------------------------------------------------
(* Properties. *)

(* Whatever step of an open fails and however long a camera has streamed, no   *)
(* descriptor, context or thread outlives it; a camera that streams is set to *)
(* the format its frames are read by                                         *)
(* (v4l2_capture.c:76-99, 343-346, 463-517, rkisp_camera.c:172-268).          *)
DescriptorsReleased ==
  /\ step = "closed" => held = {} /\ \A b \in BufferIds : dma_fds[b] = 0
  /\ step = "streaming" => pixfmt = deviceFmt /\ mapped = BufferCount

(* Why: what a step has taken is what the step before it left, on either path, *)
(* and no buffer is exported twice.                                         *)
OpeningInv ==
  /\ is_mplane \in BOOLEAN /\ last_index \in 0 .. BufferCount
  /\ step \in {"find", "open", "request", "map", "queue", "stream", "streaming"}
            \cup IF is_mplane THEN {"sensor", "init", "prepare", "start", "format"}
                             ELSE {"closed", "capability", "NV12", "YUYV"}
  /\ dma_fds \in [BufferIds -> {0, 1}]
  /\ mapped \in IF step = "map" THEN 0 .. BufferCount - 1
               ELSE IF step \in {"queue", "stream", "streaming"} THEN {BufferCount} ELSE {0}
  /\ step \in {"request", "map", "queue", "stream", "streaming"} => pixfmt = deviceFmt

(* rkisp_camera.c:157: "On error all branches roll back."  Violated: with     *)
(* buffers the 3A context is given back twice.                              *)
RolledBackOnce == aiqDeinits < 2

(* The same of the USB camera.  Violated: a failed QUERYBUF or QBUF leaves     *)
(* buffers mapped.                                                          *)
MapsReleased == ~lostMaps

=============================================================================
