------------------------------- MODULE Monitor -------------------------------
(***************************************************************************)
(* The monitor of the client (core/facemanager.cpp): a thread that sends    *)
(* the camera's frames to an RTSP server, one that sends the microphone's   *)
(* sound, and the GUI thread, which starts and stops them, borrows the      *)
(* camera for face payment and registration (ui/facepaywidget.cpp,          *)
(* ui/memberregister.cpp) and the microphone for voice commands             *)
(* (services/voice_assist.cpp).                                            *)
(*                                                                         *)
(* A frame is the index of its buffer.  Two branches of the loop are left   *)
(* out because no run takes them: consecutive_send_fail is set back after   *)
(* every captured frame, sent or not, and never reaches its limit of 10;    *)
(* rtsp_retries counts a reconnection only while there is a streamer, and   *)
(* never exceeds 1.                                                        *)
(***************************************************************************)
EXTENDS Integers, FiniteSets

CONSTANTS
  Buffers,           (* V4L2_BUFFER_COUNT buffers, as indices              *)
  MaxFails,          (* MAX_CONSECUTIVE_FAILS                              *)
  MaxCameraRetries,  (* MAX_CAMERA_RETRIES                                 *)
  StableFrames       (* STABLE_FRAMES_TO_RESET                             *)

ASSUME MonitorAssumption ==
  /\ Buffers \subseteq Nat /\ IsFiniteSet(Buffers) /\ Cardinality(Buffers) > 1
  /\ {MaxFails, MaxCameraRetries, StableFrames} \subseteq Nat \ {0}

None == -1

VARIABLES
  m_isMonitoring, m_monitorRunning, m_monitorPaused, m_audioRunning, m_audioPaused,
  m_v4l2Ctx,             (* "open" or "null"                               *)
  queued,                (* the buffers the kernel has                     *)
  last_dequeued_index,
  m_streamer,            (* "null", "connected" or "broken"                *)
  m_streamingBaseTimeMs, (* 0, or which connection of the session made it  *)
  startTime,             (* start_time_ms of the streamer, likewise        *)
  m_streamerMtx,         (* its holder, in a set                           *)
  camThread,             (* where monitorThreadFunc is, "none" without it  *)
  captureFails, cameraRetries, stableFrames,
  audioThread,           (* where audioThreadFunc is                       *)
  alsa,                  (* whether audioThread has the microphone open    *)
  gui,                   (* what the GUI thread is inside of               *)
  guest,                 (* who borrows the camera                         *)
  m_wasMonitoring,
  assistantListens,           (* of the voice assistant                         *)
  connects,              (* history: connections of this session, up to 2  *)
  shared,                (* history: a guest and camThread met             *)
  wakeLost               (* history: a notify came just before the wait    *)

flags == <<m_isMonitoring, m_monitorRunning, m_monitorPaused, m_audioRunning>>
camera == <<m_v4l2Ctx, queued, last_dequeued_index>>
stream == <<m_streamer, m_streamingBaseTimeMs, startTime, connects>>
counters == <<captureFails, cameraRetries, stableFrames>>
audio == <<audioThread, alsa>>
visit == <<guest, m_wasMonitoring>>
monitorVars == <<flags, m_audioPaused, camera, stream, m_streamerMtx, camThread, counters,
                 audio, gui, visit, assistantListens, shared, wakeLost>>

MonitorTypeOK ==
  /\ {m_isMonitoring, m_monitorRunning, m_monitorPaused, m_audioRunning, m_audioPaused,
      m_wasMonitoring, assistantListens, shared, wakeLost, alsa} \subseteq BOOLEAN
  /\ m_v4l2Ctx \in {"open", "null"} /\ queued \subseteq Buffers
  /\ last_dequeued_index \in Buffers \cup {None}
  /\ m_streamer \in {"null", "connected", "broken"}
  /\ {m_streamingBaseTimeMs, startTime, connects} \subseteq 0 .. 2
  /\ m_streamerMtx \subseteq {"cam", "audio"}
  /\ camThread \in {"none", "top", "paused", "armed", "waiting", "look", "polling", "frame",
                    "lost", "reconnect", "backoff", "failed", "reopen", "ended"}
  /\ captureFails \in 0 .. MaxFails /\ cameraRetries \in 0 .. MaxCameraRetries
  /\ stableFrames \in 0 .. StableFrames
  /\ audioThread \in {"none", "top", "read", "sending", "ended"}
  /\ gui \in {"idle", "polling", "frame", "joinMonitor", "joinAudio"}
  /\ guest \in {"none", "register", "dialog", "dialog without camera"}

MonitorInit ==
  /\ m_isMonitoring = FALSE /\ m_monitorRunning = FALSE /\ m_monitorPaused = FALSE
  /\ m_audioRunning = FALSE /\ m_audioPaused = FALSE
  /\ m_v4l2Ctx = "null" /\ queued = {} /\ last_dequeued_index = None
  /\ m_streamer = "null" /\ m_streamingBaseTimeMs = 0 /\ startTime = 0 /\ connects = 0
  /\ m_streamerMtx = {} /\ camThread = "none"
  /\ captureFails = 0 /\ cameraRetries = 0 /\ stableFrames = 0
  /\ audioThread = "none" /\ alsa = FALSE
  /\ gui = "idle" /\ guest = "none" /\ m_wasMonitoring = FALSE /\ assistantListens = FALSE
  /\ shared = FALSE /\ wakeLost = FALSE

-----------------------------------------------------------------------------
(* The camera and the streamer, as the threads call them. *)

(* initCamera on a closed camera. *)
OpenCamera ==
  m_v4l2Ctx' = "open" /\ queued' = Buffers /\ last_dequeued_index' = None

releaseCamera ==
  m_v4l2Ctx' = "null" /\ queued' = {} /\ last_dequeued_index' = None

v4l2_capture_dequeue ==
  \E b \in queued : /\ queued' = queued \ {b} /\ last_dequeued_index' = b
                    /\ UNCHANGED m_v4l2Ctx

(* It gives back the buffer dequeued last, by whichever thread. *)
v4l2_capture_enqueue ==
  /\ queued' = IF m_v4l2Ctx = "open" THEN queued \cup ({last_dequeued_index} \ {None})
                                    ELSE queued
  /\ last_dequeued_index' = None
  /\ UNCHANGED m_v4l2Ctx

(* A connection keeps the time base of the session, the first one makes it. *)
StreamerOpens ==
  /\ m_streamer' = "connected"
  /\ connects' = IF connects = 0 THEN 1 ELSE 2
  /\ startTime' = IF m_streamingBaseTimeMs > 0 THEN m_streamingBaseTimeMs ELSE connects'
  /\ m_streamingBaseTimeMs' = IF m_streamingBaseTimeMs = 0 THEN startTime'
                                                          ELSE m_streamingBaseTimeMs

(* Mutant: a new connection starts its own time. *)
StopForgetsBase ==
  /\ m_streamer' = "null" /\ startTime' = 0
  /\ m_streamingBaseTimeMs' = 0
  /\ UNCHANGED connects

stopStreaming ==
  /\ m_streamer' = "null" /\ startTime' = 0
  /\ m_streamingBaseTimeMs' = IF m_streamer # "null" THEN startTime ELSE m_streamingBaseTimeMs
  /\ UNCHANGED connects

-----------------------------------------------------------------------------
(* monitorThreadFunc *)

CamGoto(place) == camThread' = place

(* The loop's condition and the look at the pause flag. *)
LoopTop ==
  /\ camThread = "top"
  /\ CamGoto(IF ~m_monitorRunning THEN "ended" ELSE IF m_monitorPaused THEN "paused" ELSE "look")
  /\ UNCHANGED <<flags, m_audioPaused, camera, stream, m_streamerMtx, counters, audio, gui, visit,
                 assistantListens, shared, wakeLost>>

(* The predicate of the wait, under m_monitorMtx, which nobody else takes. *)
WaitPredicate ==
  /\ camThread = "paused"
  /\ CamGoto(IF ~m_monitorPaused \/ ~m_monitorRunning THEN "look" ELSE "armed")
  /\ UNCHANGED <<flags, m_audioPaused, camera, stream, m_streamerMtx, counters, audio, gui, visit,
                 assistantListens, shared, wakeLost>>

(* m_monitorCV.wait.  A wait may also end without a reason. *)
WaitBegins ==
  /\ camThread = "armed"
  /\ CamGoto("waiting")
  /\ UNCHANGED <<flags, m_audioPaused, camera, stream, m_streamerMtx, counters, audio, gui, visit,
                 assistantListens, shared, wakeLost>>

SpuriousWake ==
  /\ camThread = "waiting"
  /\ CamGoto("paused")
  /\ UNCHANGED <<flags, m_audioPaused, camera, stream, m_streamerMtx, counters, audio, gui, visit,
                 assistantListens, shared, wakeLost>>

(* The second look at the loop's condition; without camera or streamer there *)
(* is no frame.                                                             *)
LookForFrame ==
  /\ camThread = "look"
  /\ CamGoto(IF ~m_monitorRunning THEN "ended"
             ELSE IF m_v4l2Ctx = "open" /\ m_streamer # "null" THEN "polling" ELSE "failed")
  /\ shared' = (shared \/ (m_monitorRunning /\ gui \in {"polling", "frame"}))
  /\ UNCHANGED <<flags, m_audioPaused, camera, stream, m_streamerMtx, counters, audio, gui, visit,
                 assistantListens, wakeLost>>

(* poll() and DQBUF; poll() times out when the camera is gone. *)
PollEndsWithFrame ==
  /\ camThread = "polling" /\ v4l2_capture_dequeue
  /\ CamGoto("frame")
  /\ UNCHANGED <<flags, m_audioPaused, stream, m_streamerMtx, counters, audio, gui, visit,
                 assistantListens, shared, wakeLost>>

PollTimesOut ==
  /\ camThread = "polling"
  /\ CamGoto("failed")
  /\ UNCHANGED <<flags, m_audioPaused, camera, stream, m_streamerMtx, counters, audio, gui, visit,
                 assistantListens, shared, wakeLost>>

(* Mutant: the buffer of a frame that cannot be converted is kept. *)
ConversionKeepsBuffer ==
  /\ camThread = "frame"
  /\ CamGoto("top")
  /\ UNCHANGED <<flags, m_audioPaused, camera, stream, m_streamerMtx, counters, audio, gui, visit,
                 assistantListens, shared, wakeLost>>

ConversionFails ==
  /\ camThread = "frame"
  /\ v4l2_capture_enqueue
  /\ CamGoto("top")
  /\ UNCHANGED <<flags, m_audioPaused, stream, m_streamerMtx, counters, audio, gui, visit,
                 assistantListens, shared, wakeLost>>

(* The frame is encoded and written, or not; the buffer goes back. *)
SendFrame ==
  /\ camThread = "frame"
  /\ m_streamer' \in IF m_streamer = "connected" THEN {"connected", "broken"} ELSE {m_streamer}
  /\ v4l2_capture_enqueue
  /\ IF m_streamer' = "connected"
       THEN /\ CamGoto("top") /\ captureFails' = 0
            /\ LET steady == stableFrames + 1 >= StableFrames IN
               /\ stableFrames' = IF steady THEN 0 ELSE stableFrames + 1
               /\ cameraRetries' = IF steady THEN 0 ELSE cameraRetries
       ELSE CamGoto("lost") /\ UNCHANGED counters
  /\ UNCHANGED <<flags, m_audioPaused, m_streamingBaseTimeMs, startTime, connects, m_streamerMtx,
                 audio, gui, visit, assistantListens, shared, wakeLost>>

(* Mutant: the lost streamer is closed without its lock. *)
CloseLostUnlocked ==
  /\ camThread = "lost"
  /\ stopStreaming
  /\ CamGoto("reconnect")
  /\ UNCHANGED <<flags, m_audioPaused, camera, m_streamerMtx, counters, audio, gui, visit,
                 assistantListens, shared, wakeLost>>

(* conn_lost: the streamer is closed under its lock, and 500 ms later opened  *)
(* again.                                                                   *)
CloseLost ==
  /\ camThread = "lost" /\ m_streamerMtx = {}
  /\ stopStreaming
  /\ CamGoto("reconnect")
  /\ UNCHANGED <<flags, m_audioPaused, camera, m_streamerMtx, counters, audio, gui, visit,
                 assistantListens, shared, wakeLost>>

Reconnects ==
  /\ camThread = "reconnect" /\ m_streamerMtx = {}
  /\ StreamerOpens
  /\ CamGoto("top")
  /\ captureFails' = 0 /\ stableFrames' = (stableFrames + 1) % StableFrames
  /\ cameraRetries' = IF stableFrames' = 0 THEN 0 ELSE cameraRetries
  /\ UNCHANGED <<flags, m_audioPaused, camera, m_streamerMtx, audio, gui, visit, assistantListens,
                 shared, wakeLost>>

(* It sleeps with the lock held. *)
ReconnectFails ==
  /\ camThread = "reconnect" /\ m_streamerMtx = {}
  /\ m_streamerMtx' = {"cam"}
  /\ CamGoto("backoff")
  /\ UNCHANGED <<flags, m_audioPaused, camera, stream, counters, audio, gui, visit, assistantListens,
                 shared, wakeLost>>

BackoffEnds ==
  /\ camThread = "backoff"
  /\ m_streamerMtx' = {}
  /\ CamGoto("top")
  /\ UNCHANGED <<flags, m_audioPaused, camera, stream, counters, audio, gui, visit, assistantListens,
                 shared, wakeLost>>

(* No frame: after MaxFails in a row the camera is restarted. *)
CaptureFailed ==
  /\ camThread = "failed"
  /\ captureFails' = IF captureFails < MaxFails THEN captureFails + 1 ELSE MaxFails
  /\ IF captureFails' >= MaxFails
       THEN /\ releaseCamera /\ CamGoto("reopen")
            /\ shared' = (shared \/ gui \in {"polling", "frame"})
       ELSE CamGoto("top") /\ UNCHANGED <<camera, shared>>
  /\ UNCHANGED <<flags, m_audioPaused, stream, m_streamerMtx, cameraRetries, stableFrames, audio,
                 gui, visit, assistantListens, wakeLost>>

(* initCamera also succeeds when the GUI has opened the camera meanwhile. *)
CameraReopens ==
  /\ camThread = "reopen"
  /\ IF m_v4l2Ctx = "null" THEN OpenCamera ELSE UNCHANGED camera
  /\ captureFails' = 0
  /\ cameraRetries' = IF cameraRetries < MaxCameraRetries THEN cameraRetries + 1 ELSE cameraRetries
  /\ CamGoto("top")
  /\ UNCHANGED <<flags, m_audioPaused, stream, m_streamerMtx, stableFrames, audio, gui, visit,
                 assistantListens, shared, wakeLost>>

(* The thread gives up, with m_isMonitoring still set. *)
CameraStaysAway ==
  /\ camThread = "reopen" /\ m_v4l2Ctx = "null"
  /\ cameraRetries' = IF cameraRetries < MaxCameraRetries THEN cameraRetries + 1 ELSE cameraRetries
  /\ CamGoto(IF cameraRetries' >= MaxCameraRetries THEN "ended" ELSE "top")
  /\ UNCHANGED <<flags, m_audioPaused, camera, stream, m_streamerMtx, captureFails, stableFrames,
                 audio, gui, visit, assistantListens, shared, wakeLost>>

monitorThreadFunc ==
  \/ LoopTop \/ WaitPredicate \/ WaitBegins \/ LookForFrame \/ PollEndsWithFrame \/ PollTimesOut
  \/ ConversionFails \/ SendFrame \/ CloseLost \/ Reconnects \/ ReconnectFails \/ BackoffEnds
  \/ CaptureFailed \/ CameraReopens \/ CameraStaysAway

-----------------------------------------------------------------------------
(* audioThreadFunc *)

AudioGoto(place) == audioThread' = place

(* A pause closes the microphone, else it is opened if it is not, and read;   *)
(* after an error and after an overrun there is nothing to send.             *)
AudioTop ==
  /\ audioThread = "top"
  /\ \/ ~m_audioRunning /\ AudioGoto("ended") /\ alsa' = FALSE
     \/ m_audioRunning /\ m_audioPaused /\ alsa' = FALSE /\ UNCHANGED audioThread
     \/ m_audioRunning /\ ~m_audioPaused /\ ~alsa /\ UNCHANGED audio
     \/ m_audioRunning /\ ~m_audioPaused /\ alsa' = TRUE /\ (AudioGoto("read") \/ AudioGoto("top"))
  /\ UNCHANGED <<flags, m_audioPaused, camera, stream, m_streamerMtx, camThread, counters, gui,
                 visit, assistantListens, shared, wakeLost>>

AudioLocks ==
  /\ audioThread = "read" /\ m_streamerMtx = {}
  /\ IF m_streamer = "connected" THEN m_streamerMtx' = {"audio"} /\ AudioGoto("sending")
                                 ELSE UNCHANGED m_streamerMtx /\ AudioGoto("top")
  /\ UNCHANGED <<flags, m_audioPaused, camera, stream, camThread, counters, alsa, gui, visit,
                 assistantListens, shared, wakeLost>>

(* rtsp_streamer_send_audio *)
AudioSent ==
  /\ audioThread = "sending"
  /\ m_streamerMtx' = {}
  /\ AudioGoto("top")
  /\ m_streamer' \in IF m_streamer = "null" THEN {"null"} ELSE {m_streamer, "broken"}
  /\ UNCHANGED <<flags, m_audioPaused, camera, m_streamingBaseTimeMs, startTime, connects,
                 camThread, counters, alsa, gui, visit, assistantListens, shared, wakeLost>>

audioThreadFunc == AudioTop \/ AudioLocks \/ AudioSent

-----------------------------------------------------------------------------
(* The GUI thread: startMonitor and stopMonitor. *)

(* The server's command, and every connection to it.  A monitor that runs is  *)
(* left alone; m_audioPaused keeps its value.                               *)
startMonitor ==
  /\ gui = "idle" /\ ~m_isMonitoring
  /\ IF m_v4l2Ctx = "null" THEN OpenCamera ELSE UNCHANGED camera
  /\ StreamerOpens
  /\ m_isMonitoring' = TRUE /\ m_monitorPaused' = FALSE
  /\ m_monitorRunning' = TRUE /\ camThread' = "top"
  /\ captureFails' = 0 /\ cameraRetries' = 0 /\ stableFrames' = 0
  /\ m_audioRunning' = TRUE /\ audioThread' = "top" /\ alsa' = FALSE
  /\ UNCHANGED <<m_audioPaused, m_streamerMtx, gui, visit, assistantListens, shared, wakeLost>>

(* Wakes the thread if it waits; it may be about to. *)
notify_all ==
  /\ camThread' = IF camThread = "waiting" THEN "paused" ELSE camThread
  /\ wakeLost' = (camThread = "armed")

(* Mutant: the audio thread is not told. *)
StopForgetsAudio ==
  /\ gui = "idle" /\ m_isMonitoring
  /\ m_monitorRunning' = FALSE /\ m_monitorPaused' = FALSE
  /\ notify_all
  /\ gui' = "joinMonitor"
  /\ UNCHANGED <<m_isMonitoring, m_audioRunning, m_audioPaused, camera, stream, m_streamerMtx,
                 counters, audio, visit, assistantListens, shared>>

stopMonitor ==
  /\ gui = "idle" /\ m_isMonitoring
  /\ m_monitorRunning' = FALSE /\ m_audioRunning' = FALSE /\ m_monitorPaused' = FALSE
  /\ notify_all
  /\ gui' = "joinMonitor"
  /\ UNCHANGED <<m_isMonitoring, m_audioPaused, camera, stream, m_streamerMtx, counters, audio,
                 visit, assistantListens, shared>>

MonitorJoined ==
  /\ gui = "joinMonitor" /\ camThread = "ended"
  /\ gui' = "joinAudio" /\ camThread' = "none"
  /\ UNCHANGED <<flags, m_audioPaused, camera, stream, m_streamerMtx, counters, audio, visit,
                 assistantListens, shared, wakeLost>>

AudioJoined ==
  /\ gui = "joinAudio" /\ audioThread = "ended"
  /\ gui' = "idle" /\ audioThread' = "none"
  /\ releaseCamera
  /\ m_streamer' = "null" /\ m_streamingBaseTimeMs' = 0 /\ startTime' = 0 /\ connects' = 0
  /\ m_isMonitoring' = FALSE /\ m_monitorPaused' = FALSE
  /\ UNCHANGED <<m_monitorRunning, m_audioRunning, m_audioPaused, m_streamerMtx, camThread,
                 counters, alsa, visit, assistantListens, shared, wakeLost>>

stopMonitorEnds == MonitorJoined \/ AudioJoined

-----------------------------------------------------------------------------
(* The GUI thread: guests of the camera.  The face dialog's event loop still  *)
(* delivers the server's commands.                                          *)

(* Whether the camera thread can touch the camera. *)
CamAtWork == camThread \notin {"none", "waiting", "ended"}

pauseMonitor == m_monitorPaused' = (m_monitorPaused \/ m_isMonitoring)

(* FacePayWidget's constructor.  The pause is not waited for. *)
FaceDialogOpens ==
  /\ gui = "idle" /\ guest = "none"
  /\ m_wasMonitoring' = m_isMonitoring
  /\ pauseMonitor
  /\ \/ /\ guest' = "dialog"
        /\ IF m_v4l2Ctx = "null" THEN OpenCamera ELSE UNCHANGED camera
     \/ /\ guest' = "dialog without camera" /\ m_v4l2Ctx = "null"
        /\ UNCHANGED camera
  /\ UNCHANGED <<m_isMonitoring, m_monitorRunning, m_audioRunning, m_audioPaused, stream,
                 m_streamerMtx, camThread, counters, audio, gui, assistantListens, shared, wakeLost>>

(* MemberRegister::on_btn_capture_face_clicked, up to captureFace. *)
RegisterCapture ==
  /\ gui = "idle" /\ guest = "none"
  /\ m_wasMonitoring' = m_isMonitoring
  /\ pauseMonitor
  /\ guest' = "register" /\ gui' = "polling"
  /\ shared' = (shared \/ CamAtWork)
  /\ IF m_v4l2Ctx = "null" THEN OpenCamera ELSE UNCHANGED camera
  /\ UNCHANGED <<m_isMonitoring, m_monitorRunning, m_audioRunning, m_audioPaused, stream,
                 m_streamerMtx, camThread, counters, audio, assistantListens, wakeLost>>

(* getCameraFrame, from the dialog's timer. *)
slotUpdateCameraFrame ==
  /\ gui = "idle" /\ guest = "dialog" /\ m_v4l2Ctx = "open"
  /\ gui' = "polling"
  /\ shared' = (shared \/ CamAtWork)
  /\ UNCHANGED <<flags, m_audioPaused, camera, stream, m_streamerMtx, camThread, counters, audio,
                 visit, assistantListens, wakeLost>>

GuestFrame ==
  /\ gui = "polling" /\ v4l2_capture_dequeue
  /\ gui' = "frame"
  /\ UNCHANGED <<flags, m_audioPaused, stream, m_streamerMtx, camThread, counters, audio, visit,
                 assistantListens, shared, wakeLost>>

resumeMonitor ==
  IF m_isMonitoring /\ m_monitorPaused
    THEN m_monitorPaused' = FALSE /\ notify_all
    ELSE UNCHANGED <<m_monitorPaused, camThread, wakeLost>>

(* The frame's buffer goes back, or poll() has timed out; the registration   *)
(* gives the camera back at once.                                           *)
GuestDone ==
  /\ \/ gui = "frame" /\ v4l2_capture_enqueue
     \/ gui = "polling" /\ UNCHANGED camera
  /\ gui' = "idle"
  /\ IF guest = "register"
       THEN /\ guest' = "none"
            /\ IF m_wasMonitoring THEN resumeMonitor
                                  ELSE UNCHANGED <<m_monitorPaused, camThread, wakeLost>>
       ELSE UNCHANGED <<guest, m_monitorPaused, camThread, wakeLost>>
  /\ UNCHANGED <<m_isMonitoring, m_monitorRunning, m_audioRunning, m_audioPaused, stream,
                 m_streamerMtx, counters, audio, m_wasMonitoring, assistantListens, shared>>

(* FacePayWidget's destructor. *)
FaceDialogCloses ==
  /\ gui = "idle" /\ guest \in {"dialog", "dialog without camera"}
  /\ guest' = "none"
  /\ IF m_wasMonitoring
       THEN resumeMonitor /\ UNCHANGED <<camera, shared>>
       ELSE /\ releaseCamera /\ shared' = (shared \/ CamAtWork)
            /\ UNCHANGED <<m_monitorPaused, camThread, wakeLost>>
  /\ UNCHANGED <<m_isMonitoring, m_monitorRunning, m_audioRunning, m_audioPaused, stream,
                 m_streamerMtx, counters, audio, gui, m_wasMonitoring, assistantListens>>

-----------------------------------------------------------------------------
(* The GUI thread: the voice assistant borrows the microphone. *)

(* startListening: isAudioStreaming() is false as soon as the flag is set, so *)
(* nothing is waited for; the recognizer may not be created.                *)
startListening ==
  /\ gui = "idle" /\ ~assistantListens
  /\ m_audioPaused' = (m_audioPaused \/ m_isMonitoring)
  /\ assistantListens' \in BOOLEAN
  /\ UNCHANGED <<flags, camera, stream, m_streamerMtx, camThread, counters, audio, gui, visit,
                 shared, wakeLost>>

stopListening ==
  /\ gui = "idle" /\ assistantListens
  /\ assistantListens' = FALSE
  /\ m_audioPaused' = (m_audioPaused /\ ~m_isMonitoring)
  /\ UNCHANGED <<flags, camera, stream, m_streamerMtx, camThread, counters, audio, gui, visit,
                 shared, wakeLost>>

GuiStep ==
  \/ startMonitor \/ stopMonitor \/ stopMonitorEnds
  \/ FaceDialogOpens \/ RegisterCapture \/ slotUpdateCameraFrame \/ GuestFrame \/ GuestDone
  \/ FaceDialogCloses \/ startListening \/ stopListening

MonitorNext == monitorThreadFunc \/ SpuriousWake \/ audioThreadFunc \/ GuiStep

MonitorSpec == MonitorInit /\ [][MonitorNext]_monitorVars

(* Threads are scheduled, sleeps, polls and connection attempts end.          *)
MonitorFairness ==
  /\ WF_monitorVars(monitorThreadFunc) /\ WF_monitorVars(audioThreadFunc)
  /\ WF_monitorVars(stopMonitorEnds)

MonitorFairSpec == MonitorSpec /\ MonitorFairness

-----------------------------------------------------------------------------
(* Properties. *)

(* While guests and the monitor do not meet at the camera, capture does not   *)
(* run dry and nothing of a closed camera is touched: every buffer is with    *)
(* the kernel or is the one frame somebody works on, through failed          *)
(* conversions, reconnections, restarts and pauses                           *)
(* (facemanager.cpp:987-991, 1096, 1153-1180, v4l2_capture.c:369-370).        *)
BuffersAccounted ==
  ~shared =>
    /\ m_v4l2Ctx = "open" => queued = Buffers \ {last_dequeued_index}
    /\ camThread \in {"polling", "frame"} => m_v4l2Ctx = "open"
    /\ "frame" \in {camThread, gui} <=> last_dequeued_index # None

(* Sound is never sent through a streamer that is being closed or is gone,    *)
(* although the camera thread replaces it and stopMonitor ends it             *)
(* (facemanager.cpp:1118-1137, 1238-1246, 1341).                             *)
StreamerNotClosedInUse == audioThread = "sending" => m_streamer # "null"

(* rtsp_streamer.c:19: a reconnection "reuses the baseline to keep PTS        *)
(* monotonic": all connections of a session have the time of the first one,   *)
(* failed attempts in between included.                                      *)
OneTimeBase == m_streamer # "null" => startTime = 1

(* Why these hold.  The threads exist while the session lasts and end before *)
(* it is taken apart.                                                       *)
SessionInv ==
  /\ ~m_isMonitoring => camThread = "none" /\ audioThread = "none"
  /\ gui \in {"joinMonitor", "joinAudio"} => m_isMonitoring
  /\ gui = "joinAudio" => camThread = "none"

(* The streamer's lock has one holder, which is where the lock is needed.     *)
LockInv ==
  /\ m_streamerMtx \in {{}, {"cam"}, {"audio"}}
  /\ camThread = "backoff" <=> "cam" \in m_streamerMtx
  /\ audioThread = "sending" <=> "audio" \in m_streamerMtx

(* The time base outlives the streamer it came from.                        *)
BaseInv ==
  /\ connects \in 0 .. 2
  /\ connects = 0 => m_streamer = "null" /\ m_streamingBaseTimeMs = 0
  /\ connects > 0 => m_streamingBaseTimeMs = 1

(* Guest and monitor are not both at a frame, and a frame keeps the camera.   *)
FrameInv ==
  ~shared =>
    /\ m_v4l2Ctx \in {"open", "null"} /\ queued \subseteq Buffers
    /\ m_v4l2Ctx = "null" => queued = {} /\ last_dequeued_index = None
    /\ last_dequeued_index \in Buffers \cup {None}
    /\ gui = "frame" => m_v4l2Ctx = "open"
    /\ ~(camThread \in {"polling", "frame"} /\ gui \in {"polling", "frame"})

StreamInv == SessionInv /\ LockInv /\ BaseInv /\ StreamerNotClosedInUse /\ OneTimeBase

CameraInv == SessionInv /\ FrameInv /\ BuffersAccounted

(* stopMonitor returns, whatever the two threads are doing, unless its notify *)
(* falls between the predicate and the wait of a paused thread                *)
(* (facemanager.cpp:948-952, 1319-1334).                                     *)
MonitorStops == gui = "joinMonitor" /\ ~wakeLost ~> gui = "idle"

(* What it waits for is on its way: nobody sets the flags again that the two   *)
(* threads look at, no pause keeps the camera's thread and no wait has it,    *)
(* whatever dialog or command came before (facemanager.cpp:948-952, 1319-1334). *)
ThreadsLeaving ==
  /\ gui = "joinMonitor" => ~m_monitorRunning /\ ~m_audioRunning /\ ~m_monitorPaused
  /\ gui = "joinMonitor" /\ ~wakeLost => camThread \notin {"none", "armed", "waiting"}
  /\ gui = "joinAudio" => ~m_audioRunning /\ audioThread # "none"

(* Why it holds: a session has both threads, until they are joined.          *)
LeavingInv ==
  /\ SessionInv /\ ThreadsLeaving
  /\ m_isMonitoring => (camThread = "none" => gui = "joinAudio") /\ audioThread # "none"

(* The same without the exception.  Violated: stopMonitor notifies without    *)
(* the mutex of the wait.                                                   *)
MonitorAlwaysStops == gui = "joinMonitor" ~> gui = "idle"

(* facepaywidget.cpp:41: "pause it so this dialog owns the camera".  Violated *)
(* by a frame that is under way, and by a monitor that is started meanwhile.  *)
GuestOwnsCamera == ~shared

(* voice_assist.cpp:143: "Pause streaming audio so it releases the ALSA      *)
(* device before we take the mic".  Violated: the flag is not an answer.     *)
MicrophoneReleased == assistantListens => ~alsa

(* voice_assist.cpp:178: "Resume the streaming audio track".  Violated: a     *)
(* session that ends while the assistant listens, or a recognizer that cannot *)
(* be created, leaves the flag set for good.                                *)
AudioResumed == m_isMonitoring /\ ~assistantListens => ~m_audioPaused

(* facemanager.cpp:1101-1137 gives a lost connection three attempts.          *)
(* Violated: after a failed one there is no streamer, and without a streamer  *)
(* no attempt; the thread restarts the camera for ever.                      *)
LostStreamRetried == camThread = "backoff" ~> camThread = "reconnect" \/ ~m_monitorRunning

=============================================================================
