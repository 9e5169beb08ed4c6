----------------------------- MODULE MediaProofs -----------------------------
(***************************************************************************)
(* Theorems about the monitor's threads, the camera they open, the streamer *)
(* they feed, the parser and the face recognition that look at the pictures *)
(* and the voice session that borrows the microphone, for any number of     *)
(* buffers, any limits on failures and retries, any delay of the encoders,  *)
(* any boxes the detector puts out, any interval between two recognitions,  *)
(* any packets of units and any texts that are said.                        *)
(***************************************************************************)
EXTENDS Monitor, Camera, Streamer, FaceRecognition, Voice, H264Parser, SetInduction,
        SequenceTheorems, FiniteSetTheorems, TLAPS

-----------------------------------------------------------------------------
(* The monitor. *)

(* Streamer, lock and time base are kept by every step of the three threads. *)
LEMMA StreamStep == StreamInv /\ [MonitorNext]_monitorVars => StreamInv'
<1> SUFFICES ASSUME StreamInv, [MonitorNext]_monitorVars
             PROVE  StreamInv'
  OBVIOUS
<1> USE DEF StreamInv, SessionInv, LockInv, BaseInv, StreamerNotClosedInUse, OneTimeBase, CamGoto, AudioGoto, flags, camera, stream, counters, audio, visit,
            notify_all, resumeMonitor, pauseMonitor, OpenCamera, releaseCamera, stopStreaming, StreamerOpens
<1>1. CASE LoopTop
  BY <1>1 DEF LoopTop
<1>2. CASE WaitPredicate
  BY <1>2 DEF WaitPredicate
<1>3. CASE WaitBegins
  BY <1>3 DEF WaitBegins
<1>4. CASE SpuriousWake
  BY <1>4 DEF SpuriousWake
<1>5. CASE LookForFrame
  BY <1>5 DEF LookForFrame
<1>6. CASE PollEndsWithFrame
  BY <1>6 DEF PollEndsWithFrame
<1>7. CASE PollTimesOut
  BY <1>7 DEF PollTimesOut
<1>8. CASE ConversionFails
  BY <1>8 DEF ConversionFails
<1>9. CASE SendFrame
  BY <1>9 DEF SendFrame
<1>10. CASE CloseLost
  BY <1>10 DEF CloseLost
<1>11. CASE Reconnects
  BY <1>11 DEF Reconnects
<1>12. CASE ReconnectFails
  BY <1>12 DEF ReconnectFails
<1>13. CASE BackoffEnds
  BY <1>13 DEF BackoffEnds
<1>14. CASE CaptureFailed
  BY <1>14 DEF CaptureFailed
<1>15. CASE CameraReopens
  BY <1>15 DEF CameraReopens
<1>16. CASE CameraStaysAway
  BY <1>16 DEF CameraStaysAway
<1>17. CASE AudioTop
  BY <1>17 DEF AudioTop
<1>18. CASE AudioLocks
  BY <1>18 DEF AudioLocks
<1>19. CASE AudioSent
  BY <1>19 DEF AudioSent
<1>20. CASE startMonitor
  BY <1>20 DEF startMonitor
<1>21. CASE stopMonitor
  BY <1>21 DEF stopMonitor
<1>22. CASE MonitorJoined
  BY <1>22 DEF MonitorJoined
<1>23. CASE AudioJoined
  BY <1>23 DEF AudioJoined
<1>24. CASE FaceDialogOpens
  BY <1>24 DEF FaceDialogOpens
<1>25. CASE RegisterCapture
  BY <1>25 DEF RegisterCapture
<1>26. CASE slotUpdateCameraFrame
  BY <1>26 DEF slotUpdateCameraFrame
<1>27. CASE GuestFrame
  BY <1>27 DEF GuestFrame
<1>28. CASE GuestDone
  BY <1>28 DEF GuestDone
<1>29. CASE FaceDialogCloses
  BY <1>29 DEF FaceDialogCloses
<1>30. CASE startListening
  BY <1>30 DEF startListening
<1>31. CASE stopListening
  BY <1>31 DEF stopListening
<1>32. CASE UNCHANGED monitorVars
  BY <1>32 DEF monitorVars
<1> QED
  BY <1>1, <1>2, <1>3, <1>4, <1>5, <1>6, <1>7, <1>8, <1>9, <1>10, <1>11, <1>12, <1>13, <1>14, <1>15, <1>16, <1>17, <1>18, <1>19, <1>20, <1>21, <1>22, <1>23, <1>24, <1>25, <1>26, <1>27, <1>28, <1>29, <1>30, <1>31, <1>32
     DEF MonitorNext, monitorThreadFunc, audioThreadFunc, GuiStep, stopMonitorEnds

(* last_dequeued_index says whether there is a frame. *)
LEMMA NoneIsNoBuffer == None \notin Buffers
BY MonitorAssumption DEF None

(* So are the buffers, until a guest and the monitor meet. *)
LEMMA CameraStep == CameraInv /\ [MonitorNext]_monitorVars => CameraInv'
<1> SUFFICES ASSUME CameraInv, [MonitorNext]_monitorVars
             PROVE  CameraInv'
  OBVIOUS
<1> USE DEF CameraInv, SessionInv, FrameInv, BuffersAccounted, CamAtWork, v4l2_capture_dequeue, v4l2_capture_enqueue, CamGoto, AudioGoto, flags, camera, stream, counters, audio, visit,
            notify_all, resumeMonitor, pauseMonitor, OpenCamera, releaseCamera, stopStreaming, StreamerOpens
<1>1. CASE LoopTop
  BY <1>1 DEF LoopTop
<1>2. CASE WaitPredicate
  BY <1>2 DEF WaitPredicate
<1>3. CASE WaitBegins
  BY <1>3 DEF WaitBegins
<1>4. CASE SpuriousWake
  BY <1>4 DEF SpuriousWake
<1>5. CASE LookForFrame
  BY <1>5 DEF LookForFrame
<1>6. CASE PollEndsWithFrame
  BY <1>6, NoneIsNoBuffer DEF PollEndsWithFrame
<1>7. CASE PollTimesOut
  BY <1>7 DEF PollTimesOut
<1>8. CASE ConversionFails
  BY <1>8, NoneIsNoBuffer DEF ConversionFails
<1>9. CASE SendFrame
  BY <1>9, NoneIsNoBuffer DEF SendFrame
<1>10. CASE CloseLost
  BY <1>10 DEF CloseLost
<1>11. CASE Reconnects
  BY <1>11 DEF Reconnects
<1>12. CASE ReconnectFails
  BY <1>12 DEF ReconnectFails
<1>13. CASE BackoffEnds
  BY <1>13 DEF BackoffEnds
<1>14. CASE CaptureFailed
  BY <1>14 DEF CaptureFailed
<1>15. CASE CameraReopens
  BY <1>15, NoneIsNoBuffer DEF CameraReopens
<1>16. CASE CameraStaysAway
  BY <1>16 DEF CameraStaysAway
<1>17. CASE AudioTop
  BY <1>17 DEF AudioTop
<1>18. CASE AudioLocks
  BY <1>18 DEF AudioLocks
<1>19. CASE AudioSent
  BY <1>19 DEF AudioSent
<1>20. CASE startMonitor
  BY <1>20, NoneIsNoBuffer DEF startMonitor
<1>21. CASE stopMonitor
  BY <1>21 DEF stopMonitor
<1>22. CASE MonitorJoined
  BY <1>22 DEF MonitorJoined
<1>23. CASE AudioJoined
  BY <1>23 DEF AudioJoined
<1>24. CASE FaceDialogOpens
  BY <1>24, NoneIsNoBuffer DEF FaceDialogOpens
<1>25. CASE RegisterCapture
  BY <1>25, NoneIsNoBuffer DEF RegisterCapture
<1>26. CASE slotUpdateCameraFrame
  BY <1>26 DEF slotUpdateCameraFrame
<1>27. CASE GuestFrame
  BY <1>27, NoneIsNoBuffer DEF GuestFrame
<1>28. CASE GuestDone
  BY <1>28, NoneIsNoBuffer DEF GuestDone
<1>29. CASE FaceDialogCloses
  BY <1>29 DEF FaceDialogCloses
<1>30. CASE startListening
  BY <1>30 DEF startListening
<1>31. CASE stopListening
  BY <1>31 DEF stopListening
<1>32. CASE UNCHANGED monitorVars
  BY <1>32 DEF monitorVars
<1> QED
  BY <1>1, <1>2, <1>3, <1>4, <1>5, <1>6, <1>7, <1>8, <1>9, <1>10, <1>11, <1>12, <1>13, <1>14, <1>15, <1>16, <1>17, <1>18, <1>19, <1>20, <1>21, <1>22, <1>23, <1>24, <1>25, <1>26, <1>27, <1>28, <1>29, <1>30, <1>31, <1>32
     DEF MonitorNext, monitorThreadFunc, audioThreadFunc, GuiStep, stopMonitorEnds

(* Sound is never sent through a streamer that is being closed or is gone,    *)
(* whatever the camera thread and stopMonitor do (facemanager.cpp:1118-1137, *)
(* 1238-1246, 1341).                                                        *)
THEOREM StreamerKept == MonitorSpec => []StreamerNotClosedInUse
<1>1. MonitorInit => StreamInv
  BY DEF MonitorInit, StreamInv, SessionInv, LockInv, BaseInv, StreamerNotClosedInUse,
         OneTimeBase
<1>2. StreamInv => StreamerNotClosedInUse
  BY DEF StreamInv
<1> QED BY <1>1, <1>2, StreamStep, PTL DEF MonitorSpec

(* All connections of a session have the time of the first one, however often *)
(* and wherever it is lost (rtsp_streamer.c:19, facemanager.cpp:1101-1137).  *)
THEOREM TimeBaseKept == MonitorSpec => []OneTimeBase
<1>1. MonitorInit => StreamInv
  BY DEF MonitorInit, StreamInv, SessionInv, LockInv, BaseInv, StreamerNotClosedInUse,
         OneTimeBase
<1>2. StreamInv => OneTimeBase
  BY DEF StreamInv
<1> QED BY <1>1, <1>2, StreamStep, PTL DEF MonitorSpec

(* However many buffers there are: while guests and the monitor do not meet,  *)
(* every buffer is with the kernel or is the one frame somebody works on     *)
(* (facemanager.cpp:987-991, 1096, 1153-1180, v4l2_capture.c:369-370).        *)
THEOREM BuffersKept == MonitorSpec => []BuffersAccounted
<1>1. MonitorInit => CameraInv
  BY DEF MonitorInit, CameraInv, SessionInv, FrameInv, BuffersAccounted
<1>2. CameraInv => BuffersAccounted
  BY DEF CameraInv
<1> QED BY <1>1, <1>2, CameraStep, PTL DEF MonitorSpec

(* Who waits for the threads waits for threads that are leaving: only the GUI   *)
(* thread sets the flags, and it is the one that waits.                      *)
LEMMA LeavingStep == LeavingInv /\ [MonitorNext]_monitorVars => LeavingInv'
<1> SUFFICES ASSUME LeavingInv, [MonitorNext]_monitorVars
             PROVE  LeavingInv'
  OBVIOUS
<1> USE DEF LeavingInv, SessionInv, ThreadsLeaving, flags, visit, audio
<1>1. CASE monitorThreadFunc
  <2>1. UNCHANGED <<flags, audio, gui, wakeLost>>
    BY <1>1 DEF monitorThreadFunc, LoopTop, WaitPredicate, WaitBegins, LookForFrame,
       PollEndsWithFrame, PollTimesOut, ConversionFails, SendFrame, CloseLost, Reconnects,
       ReconnectFails, BackoffEnds, CaptureFailed, CameraReopens, CameraStaysAway
  <2>2. camThread # "none" /\ camThread' # "none"
    BY <1>1 DEF CamGoto, monitorThreadFunc, LoopTop, WaitPredicate, WaitBegins, LookForFrame,
       PollEndsWithFrame, PollTimesOut, ConversionFails, SendFrame, CloseLost, Reconnects,
       ReconnectFails, BackoffEnds, CaptureFailed, CameraReopens, CameraStaysAway
  <2>3. camThread' = "armed" => m_monitorPaused
    BY <1>1 DEF CamGoto, monitorThreadFunc, LoopTop, WaitPredicate, WaitBegins, LookForFrame,
       PollEndsWithFrame, PollTimesOut, ConversionFails, SendFrame, CloseLost, Reconnects,
       ReconnectFails, BackoffEnds, CaptureFailed, CameraReopens, CameraStaysAway
  <2>4. camThread' = "waiting" => camThread = "armed"
    BY <1>1 DEF CamGoto, monitorThreadFunc, LoopTop, WaitPredicate, WaitBegins, LookForFrame,
       PollEndsWithFrame, PollTimesOut, ConversionFails, SendFrame, CloseLost, Reconnects,
       ReconnectFails, BackoffEnds, CaptureFailed, CameraReopens, CameraStaysAway
  <2> QED BY <2>1, <2>2, <2>3, <2>4
<1>2. CASE SpuriousWake
  BY <1>2 DEF SpuriousWake, CamGoto
<1>3. CASE audioThreadFunc
  BY <1>3 DEF audioThreadFunc, AudioTop, AudioLocks, AudioSent, AudioGoto
<1>4. CASE startMonitor
  BY <1>4 DEF startMonitor
<1>5. CASE stopMonitor
  BY <1>5 DEF stopMonitor, notify_all
<1>6. CASE stopMonitorEnds
  BY <1>6 DEF stopMonitorEnds, MonitorJoined, AudioJoined
<1>7. CASE FaceDialogOpens \/ RegisterCapture
  <2>1. /\ gui = "idle" /\ gui' \in {"idle", "polling"}
        /\ UNCHANGED <<m_isMonitoring, camThread, audioThread>>
    BY <1>7 DEF FaceDialogOpens, RegisterCapture
  <2> QED BY <2>1
<1>8. CASE slotUpdateCameraFrame \/ GuestFrame
  BY <1>8 DEF slotUpdateCameraFrame, GuestFrame
<1>9. CASE GuestDone \/ FaceDialogCloses
  <2>1. /\ gui \notin {"joinMonitor", "joinAudio"} /\ gui' = "idle"
        /\ UNCHANGED <<m_isMonitoring, audioThread>>
    BY <1>9 DEF GuestDone, FaceDialogCloses
  <2>2. camThread' = "none" <=> camThread = "none"
    BY <1>9 DEF GuestDone, FaceDialogCloses, resumeMonitor, notify_all
  <2> QED BY <2>1, <2>2
<1>10. CASE startListening \/ stopListening
  BY <1>10 DEF startListening, stopListening
<1>11. CASE UNCHANGED monitorVars
  BY <1>11 DEF monitorVars
<1> QED BY <1>1, <1>2, <1>3, <1>4, <1>5, <1>6, <1>7, <1>8, <1>9, <1>10, <1>11
  DEF MonitorNext, GuiStep

(* stopMonitor waits for threads that are on their way to their end, whatever  *)
(* they were in the middle of and whoever had paused them, unless its notify    *)
(* fell just before the wait (facemanager.cpp:948-952, 1319-1334): what         *)
(* MonitorStops rests on.                                                    *)
THEOREM ThreadsAreLeaving == MonitorSpec => []ThreadsLeaving
<1>1. MonitorInit => LeavingInv
  BY DEF MonitorInit, LeavingInv, SessionInv, ThreadsLeaving
<1>2. LeavingInv => ThreadsLeaving
  BY DEF LeavingInv
<1> QED BY <1>1, <1>2, LeavingStep, PTL DEF MonitorSpec

-----------------------------------------------------------------------------
(* The camera. *)

(* No buffer is exported twice, so that the close leaves no descriptor. *)
LEMMA CloseReleases ==
  ASSUME OpeningInv, v4l2_capture_close
  PROVE  /\ held' = {} /\ mapped' = 0 /\ last_index' = 0
         /\ dma_fds' \in [BufferIds -> {0, 1}] /\ \A b \in BufferIds : dma_fds'[b] = 0
<1>1. \A b \in BufferIds : dma_fds[b] \in {0, 1}
  BY DEF OpeningInv
<1>2. \A b \in BufferIds : (IF dma_fds[b] > 0 THEN dma_fds[b] - 1 ELSE 0) = 0
  BY <1>1
<1> QED BY <1>2 DEF v4l2_capture_close

(* Every step of an opening keeps what it has taken so far.                 *)
LEMMA CameraSteps ==
  OpeningInv /\ DescriptorsReleased /\ [CameraNext]_cameraVars
    => (OpeningInv /\ DescriptorsReleased)'
<1> SUFFICES ASSUME OpeningInv, DescriptorsReleased, [CameraNext]_cameraVars
             PROVE  OpeningInv' /\ DescriptorsReleased'
  OBVIOUS
<1> USE CameraAssumption DEF OpeningInv, DescriptorsReleased
<1>1. CASE initCamera
  BY <1>1 DEF initCamera
<1>2. CASE StepSucceeds
  BY <1>2 DEF StepSucceeds, MipiNext, UsbNext
<1>3. CASE MplaneFormat
  BY <1>3 DEF MplaneFormat
<1>4. ASSUME NEW f \in Formats, TryFormat(f)
      PROVE  OpeningInv' /\ DescriptorsReleased'
  BY <1>4 DEF TryFormat
<1>5. CASE MapBuffer
  BY <1>5 DEF MapBuffer, BufferIds
<1>6. CASE MipiFails
  <2>1. /\ held' = {} /\ mapped' = 0 /\ last_index' = 0
        /\ dma_fds' \in [BufferIds -> {0, 1}] /\ \A b \in BufferIds : dma_fds'[b] = 0
    BY <1>6, CloseReleases DEF MipiFails
  <2>2. ~is_mplane' /\ is_mplane' \in BOOLEAN /\ step' = "find"
    BY <1>6 DEF MipiFails
  <2> QED BY <2>1, <2>2
<1>7. CASE UsbFails
  BY <1>7, CloseReleases DEF UsbFails
<1>8. CASE DequeueFrame
  BY <1>8 DEF DequeueFrame, BufferIds
<1>9. CASE v4l2_capture_get_fd
  BY <1>9 DEF v4l2_capture_get_fd, NotExportedYet, BufferIds
<1>10. CASE CloseCamera
  <2>1. /\ held' = {} /\ mapped' = 0 /\ last_index' = 0
        /\ dma_fds' \in [BufferIds -> {0, 1}] /\ \A b \in BufferIds : dma_fds'[b] = 0
    BY <1>10, CloseReleases DEF CloseCamera
  <2>2. ~is_mplane' /\ is_mplane' \in BOOLEAN /\ step' = "closed"
    BY <1>10 DEF CloseCamera
  <2> QED BY <2>1, <2>2
<1>11. CASE UNCHANGED cameraVars
  BY <1>11 DEF cameraVars
<1> QED
  BY <1>1, <1>2, <1>3, <1>4, <1>5, <1>6, <1>7, <1>8, <1>9, <1>10, <1>11 DEF CameraNext

(* Whatever step of an open fails, on either path and for any number of        *)
(* buffers, nothing outlives a closed camera, and a camera that streams is    *)
(* set to the format its frames are read by (v4l2_capture.c:343-346, 463-517, *)
(* rkisp_camera.c:172-268).                                                  *)
THEOREM CameraReleased == CameraSpec => []DescriptorsReleased
<1>1. CameraInit => OpeningInv /\ DescriptorsReleased
  <2>1. CameraInit => OpeningInv
    <3> SUFFICES ASSUME CameraInit
                 PROVE  OpeningInv
      OBVIOUS
    <3>1. dma_fds \in [BufferIds -> {0, 1}]
      BY DEF CameraInit
    <3>2. ~is_mplane /\ is_mplane \in BOOLEAN /\ step = "closed"
      BY DEF CameraInit
    <3>3. last_index \in 0 .. BufferCount /\ mapped = 0
      BY CameraAssumption DEF CameraInit
    <3> QED BY <3>1, <3>2, <3>3 DEF OpeningInv
  <2>2. CameraInit => DescriptorsReleased
    BY DEF CameraInit, DescriptorsReleased
  <2> QED BY <2>1, <2>2
<1> QED BY <1>1, CameraSteps, PTL DEF CameraSpec

-----------------------------------------------------------------------------
(* The streamer. *)

(* Sequences of times, and the order of their elements.                      *)
Rising(s) == \A i, j \in DOMAIN s : i < j => s[i] < s[j]
AllBefore(s, t) == \A i \in DOMAIN s : s[i] < t
AllAfter(s, t) == \A i \in DOMAIN s : t < s[i]

(* A sequence of times has times for elements.                              *)
LEMMA Times ==
  ASSUME NEW S \in SUBSET Int, NEW s \in Seq(S)
  PROVE  /\ Len(s) \in Nat /\ DOMAIN s = 1 .. Len(s)
         /\ \A i \in DOMAIN s : s[i] \in S /\ s[i] \in Int
<1>1. Len(s) \in Nat /\ DOMAIN s = 1 .. Len(s)
  BY LenProperties
<1>2. \A i \in 1 .. Len(s) : s[i] \in S
  BY ElementOfSeq
<1> QED BY <1>1, <1>2

(* What is added behind is later than everything before ...                 *)
LEMMA TimeAdded ==
  ASSUME NEW S \in SUBSET Int, NEW s \in Seq(S), NEW t \in S, Rising(s), AllBefore(s, t)
  PROVE  /\ Append(s, t) \in Seq(S) /\ Append(s, t) # <<>> /\ Rising(Append(s, t))
         /\ \A i \in DOMAIN Append(s, t) :
              Append(s, t)[i] = t \/ \E k \in DOMAIN s : Append(s, t)[i] = s[k]
<1>1. PICK all : all = Append(s, t)
  OBVIOUS
<1>2. /\ all \in Seq(S) /\ Len(all) = Len(s) + 1
      /\ \A i \in 1 .. Len(s) : all[i] = s[i]
      /\ all[Len(s) + 1] = t
  BY <1>1, AppendProperties
<1>3. /\ Len(s) \in Nat /\ DOMAIN s = 1 .. Len(s) /\ DOMAIN all = 1 .. Len(s) + 1
  BY <1>2, Times
<1>4. all # <<>>
  BY <1>2, <1>3, EmptySeq
<1>5. Rising(all)
  BY <1>2, <1>3 DEF Rising, AllBefore
<1>6. \A i \in DOMAIN all : all[i] = t \/ \E k \in DOMAIN s : all[i] = s[k]
  BY <1>2, <1>3
<1> QED BY <1>1, <1>2, <1>4, <1>5, <1>6

(* ... and what is taken from the front earlier than everything behind.     *)
LEMMA TimeTaken ==
  ASSUME NEW S \in SUBSET Int, NEW s \in Seq(S), s # <<>>, Rising(s)
  PROVE  /\ Tail(s) \in Seq(S) /\ Head(s) \in S /\ Rising(Tail(s)) /\ AllAfter(Tail(s), Head(s))
         /\ \A i \in DOMAIN Tail(s) : \E k \in DOMAIN s : Tail(s)[i] = s[k]
         /\ \E k \in DOMAIN s : Head(s) = s[k]
<1>1. PICK t : t = Tail(s)
  OBVIOUS
<1>2. /\ t \in Seq(S) /\ Len(t) = Len(s) - 1
      /\ \A i \in 1 .. Len(t) : t[i] = s[i + 1]
      /\ Head(s) = s[1]
  BY <1>1, HeadTailProperties
<1>3. Len(s) \in Nat /\ Len(s) # 0 /\ DOMAIN s = 1 .. Len(s) /\ DOMAIN t = 1 .. Len(s) - 1
  BY <1>2, Times, EmptySeq
<1>4. 1 \in DOMAIN s /\ \A i \in DOMAIN t : i + 1 \in DOMAIN s /\ 1 < i + 1 /\ t[i] = s[i + 1]
  BY <1>2, <1>3
<1>5. Head(s) \in S
  BY <1>2, <1>4, Times
<1>6. Rising(t) /\ AllAfter(t, Head(s))
  BY <1>2, <1>3, <1>4 DEF Rising, AllAfter
<1> QED BY <1>1, <1>2, <1>4, <1>5, <1>6

(* TimesInOrder in these words.                                              *)
InOrder(frames, packet, passed, start, now, busy) ==
  /\ Rising(passed) /\ \A i \in DOMAIN passed : passed[i] <= now
  /\ Rising(frames) /\ AllAfter(frames, start)
  /\ \A i \in DOMAIN frames : frames[i] <= now /\ AllBefore(passed, frames[i])
  /\ busy => packet <= now /\ AllAfter(frames, packet) /\ AllBefore(passed, packet)

(* The order of times, as a statement about its six values.                 *)
LEMMA OrderedTimes ==
  TimesInOrder <=> InOrder(delayed["video"], out_pkt["video"], muxed, start_time, clock,
                           sender["video"] # "idle")
BY DEF TimesInOrder, InOrder, Rising, AllAfter, AllBefore

(* The same after a step.                                                   *)
LEMMA OrderedTimesAfter ==
  TimesInOrder' <=> InOrder(delayed'["video"], out_pkt'["video"], muxed', start_time', clock',
                            sender'["video"] # "idle")
BY DEF TimesInOrder, InOrder, Rising, AllAfter, AllBefore

(* Time goes on.                                                             *)
LEMMA ClockTicks ==
  ASSUME NEW frames \in Seq(1 .. Ticks), NEW packet \in 0 .. Ticks,
         NEW passed \in Seq(0 .. Ticks),
         NEW start \in 0 .. Ticks, NEW now \in 0 .. Ticks, NEW busy,
         InOrder(frames, packet, passed, start, now, busy)
  PROVE  InOrder(frames, packet, passed, start, now + 1, busy)
<1>1. /\ \A i \in DOMAIN frames : frames[i] \in Int
      /\ \A i \in DOMAIN passed : passed[i] \in Int
  BY Times, StreamerAssumption
<1> QED BY <1>1, StreamerAssumption DEF InOrder

(* The encoder keeps a frame ...                                             *)
LEMMA FrameKept ==
  ASSUME NEW frames \in Seq(1 .. Ticks), NEW packet \in 0 .. Ticks,
         NEW passed \in Seq(0 .. Ticks),
         NEW start \in 0 .. Ticks, NEW now \in 0 .. Ticks, now + 1 <= Ticks,
         InOrder(frames, packet, passed, start, now, FALSE), start <= now
  PROVE  /\ Append(frames, now + 1) \in Seq(1 .. Ticks) /\ Append(frames, now + 1) # <<>>
         /\ InOrder(Append(frames, now + 1), packet, passed, start, now + 1, FALSE)
<1>1. /\ \A i \in DOMAIN frames : frames[i] \in Int
      /\ \A i \in DOMAIN passed : passed[i] \in Int
  BY Times, StreamerAssumption
<1>2. PICK t \in 1 .. Ticks : t = now + 1
  BY StreamerAssumption
<1>3. AllBefore(frames, t) /\ AllBefore(passed, t) /\ start < t
  BY <1>1, <1>2, StreamerAssumption DEF InOrder, AllBefore
<1>4. PICK S \in SUBSET Int : S = 1 .. Ticks
  BY StreamerAssumption
<1>5. PICK all : all = Append(frames, t)
  OBVIOUS
<1>6. /\ all \in Seq(S) /\ all # <<>> /\ Rising(all)
      /\ \A i \in DOMAIN all : all[i] = t \/ \E k \in DOMAIN frames : all[i] = frames[k]
  BY <1>2, <1>3, <1>4, <1>5, TimeAdded DEF InOrder
<1>7. AllAfter(all, start)
  BY <1>3, <1>6 DEF InOrder, AllAfter
<1>8. \A i \in DOMAIN all : all[i] <= t /\ AllBefore(passed, all[i])
  <2> SUFFICES ASSUME NEW i \in DOMAIN all
               PROVE  all[i] <= t /\ AllBefore(passed, all[i])
    OBVIOUS
  <2>1. CASE all[i] = t
    BY <1>2, <1>3, <2>1, StreamerAssumption
  <2>2. CASE \E k \in DOMAIN frames : all[i] = frames[k]
    <3>1. PICK k \in DOMAIN frames : all[i] = frames[k]
      BY <2>2
    <3>2. frames[k] <= now /\ AllBefore(passed, frames[k]) /\ frames[k] \in Int
      BY <1>1 DEF InOrder
    <3> QED BY <1>2, <3>1, <3>2, StreamerAssumption
  <2> QED BY <1>6, <2>1, <2>2
<1>9. Rising(passed) /\ \A i \in DOMAIN passed : passed[i] <= t
  BY <1>1, <1>2, StreamerAssumption DEF InOrder
<1>10. InOrder(all, packet, passed, start, t, FALSE)
  BY <1>6, <1>7, <1>8, <1>9 DEF InOrder
<1> QED BY <1>2, <1>4, <1>5, <1>6, <1>10

(* ... and gives out the oldest.                                             *)
LEMMA PacketGiven ==
  ASSUME NEW all \in Seq(1 .. Ticks), all # <<>>, NEW packet, NEW passed,
         NEW start, NEW now, InOrder(all, packet, passed, start, now, FALSE)
  PROVE  /\ Tail(all) \in Seq(1 .. Ticks) /\ Head(all) \in 1 .. Ticks
         /\ InOrder(Tail(all), Head(all), passed, start, now, TRUE)
<1>1. PICK S \in SUBSET Int : S = 1 .. Ticks
  BY StreamerAssumption
<1>2. PICK t, h : t = Tail(all) /\ h = Head(all)
  OBVIOUS
<1>3. /\ t \in Seq(S) /\ h \in S /\ Rising(t) /\ AllAfter(t, h)
      /\ \A i \in DOMAIN t : \E k \in DOMAIN all : t[i] = all[k]
      /\ \E k \in DOMAIN all : h = all[k]
  BY <1>1, <1>2, TimeTaken DEF InOrder
<1>4. InOrder(t, h, passed, start, now, TRUE)
  <2>1. AllAfter(t, start)
    BY <1>3 DEF InOrder, AllAfter
  <2>2. \A i \in DOMAIN t : t[i] <= now /\ AllBefore(passed, t[i])
    BY <1>3 DEF InOrder
  <2>3. h <= now /\ AllBefore(passed, h)
    BY <1>3 DEF InOrder
  <2> QED BY <1>3, <2>1, <2>2, <2>3 DEF InOrder
<1> QED BY <1>1, <1>2, <1>3, <1>4

(* The muxer takes the packet.                                               *)
LEMMA PacketMuxed ==
  ASSUME NEW frames \in Seq(1 .. Ticks), NEW packet \in 0 .. Ticks,
         NEW passed \in Seq(0 .. Ticks),
         NEW start, NEW now, InOrder(frames, packet, passed, start, now, TRUE), NEW next
  PROVE  /\ Append(passed, packet) \in Seq(0 .. Ticks)
         /\ InOrder(frames, next, Append(passed, packet), start, now, FALSE)
<1>1. PICK S \in SUBSET Int : S = 0 .. Ticks
  BY StreamerAssumption
<1>2. PICK all : all = Append(passed, packet)
  OBVIOUS
<1>3. /\ all \in Seq(S) /\ Rising(all)
      /\ \A i \in DOMAIN all : all[i] = packet \/ \E k \in DOMAIN passed : all[i] = passed[k]
  BY <1>1, <1>2, TimeAdded DEF InOrder
<1>4. \A i \in DOMAIN all : all[i] <= now
  BY <1>3 DEF InOrder
<1>5. \A i \in DOMAIN frames : AllBefore(all, frames[i])
  BY <1>3 DEF InOrder, AllBefore, AllAfter
<1>6. InOrder(frames, next, all, start, now, FALSE)
  BY <1>3, <1>4, <1>5 DEF InOrder
<1> QED BY <1>1, <1>2, <1>3, <1>6

(* The parts of the invariant, before and after a step.                      *)
LockedOK ==
  /\ \A m \in Media : sender[m] = "write" <=> m \in write_mutex
  /\ \A m, n \in write_mutex : m = n
  /\ \A m \in Media : sender[m] # "idle" => phase = "open"
  /\ phase = "open" => headerWritten
  /\ start_time <= clock
  /\ phase # "open" => delayed["video"] = <<>>

(* The streamer's invariant in three parts.                                 *)
LEMMA MuxerParts == MuxerInv <=> StreamerTypeOK /\ LockedOK /\ TimesInOrder
BY DEF MuxerInv, LockedOK

(* The same after a step.                                                   *)
LEMMA MuxerPartsAfter == MuxerInv' <=> StreamerTypeOK' /\ LockedOK' /\ TimesInOrder'
BY DEF MuxerInv, LockedOK

(* The types of what the video's path holds.                                *)
LEMMA StreamerTypes ==
  ASSUME StreamerTypeOK
  PROVE  /\ delayed["video"] \in Seq(1 .. Ticks) /\ delayed["audio"] \in Seq(1 .. Ticks)
         /\ out_pkt["video"] \in 0 .. Ticks /\ muxed \in Seq(0 .. Ticks)
         /\ start_time \in 0 .. Ticks /\ clock \in 0 .. Ticks
         /\ "video" \in Media /\ "audio" \in Media
BY DEF StreamerTypeOK, Media

(* A frame into an encoder, and perhaps an older one out of it.             *)
LEMMA EncodeKeeps ==
  ASSUME MuxerInv, NEW m \in Media, Encode(m)
  PROVE  MuxerInv'
<1>1. StreamerTypeOK /\ LockedOK /\ TimesInOrder
  BY MuxerParts
<1>2. PICK frames : frames = delayed[m]
  OBVIOUS
<1>3. /\ clock' = clock + 1 /\ clock + 1 \in 1 .. Ticks /\ clock + 1 <= Ticks
      /\ clock \in 0 .. Ticks /\ frames \in Seq(1 .. Ticks)
      /\ sender[m] = "idle" /\ phase = "open"
      /\ UNCHANGED <<connection, start_time, write_mutex, muxed, streamerHistory>>
  BY <1>1, <1>2, StreamerAssumption DEF Encode, StreamerTypeOK
<1>4. PICK all : all = Append(frames, clock + 1)
  OBVIOUS
<1>5. \/ delayed' = [delayed EXCEPT ![m] = all] /\ UNCHANGED <<sender, out_pkt>>
      \/ /\ delayed' = [delayed EXCEPT ![m] = Tail(all)]
         /\ sender' = [sender EXCEPT ![m] = "packet"]
         /\ out_pkt' = [out_pkt EXCEPT ![m] = Head(all)]
  BY <1>2, <1>3, <1>4 DEF Encode, PacketTime
<1>6. /\ all \in Seq(1 .. Ticks) /\ Tail(all) \in Seq(1 .. Ticks) /\ Head(all) \in 1 .. Ticks
  <2>1. PICK S : S = 1 .. Ticks
    OBVIOUS
  <2>2. all \in Seq(S) /\ all # <<>>
    BY <1>3, <1>4, <2>1, AppendProperties
  <2>3. Tail(all) \in Seq(S) /\ Head(all) \in S
    BY <2>2, HeadTailProperties
  <2> QED BY <2>1, <2>2, <2>3
<1>7. StreamerTypeOK'
  <2>1. delayed' \in [Media -> Seq(1 .. Ticks)]
    BY <1>1, <1>5, <1>6 DEF StreamerTypeOK
  <2>2. sender' \in [Media -> {"idle", "packet", "write"}]
    BY <1>1, <1>5 DEF StreamerTypeOK
  <2>3. Head(all) \in 0 .. Ticks
    BY <1>6, StreamerAssumption
  <2>4. out_pkt' \in [Media -> 0 .. Ticks]
    BY <1>1, <1>5, <2>3 DEF StreamerTypeOK
  <2>5. clock' \in 0 .. Ticks
    BY <1>3, StreamerAssumption
  <2> QED BY <1>1, <1>3, <2>1, <2>2, <2>4, <2>5 DEF StreamerTypeOK, connection, streamerHistory
<1>8. LockedOK'
  <2>1. \A n \in Media : sender'[n] = "write" <=> sender[n] = "write"
    BY <1>1, <1>3, <1>5 DEF StreamerTypeOK
  <2>2. start_time' <= clock'
    BY <1>1, <1>3, StreamerAssumption DEF LockedOK, StreamerTypeOK
  <2> QED BY <1>1, <1>3, <2>1, <2>2 DEF LockedOK, connection
<1>9. TimesInOrder'
  <2>1. InOrder(delayed["video"], out_pkt["video"], muxed, start_time, clock,
                sender["video"] # "idle")
    BY <1>1, OrderedTimes
  <2>2. CASE m = "audio"
    <3>1. /\ delayed'["video"] = delayed["video"] /\ out_pkt'["video"] = out_pkt["video"]
          /\ sender'["video"] = sender["video"]
      BY <1>1, <1>5, <2>2 DEF StreamerTypeOK, Media
    <3>2. InOrder(delayed["video"], out_pkt["video"], muxed, start_time, clock + 1,
                  sender["video"] # "idle")
      BY <1>1, <2>1, StreamerTypes, ClockTicks
    <3> QED BY <1>3, <3>1, <3>2, OrderedTimesAfter
  <2>3. CASE m = "video"
    <3>1. InOrder(frames, out_pkt["video"], muxed, start_time, clock, FALSE)
      BY <1>2, <2>1, <2>3 DEF InOrder
    <3>2. start_time <= clock
      BY <1>1 DEF LockedOK
    <3>3. /\ all # <<>>
          /\ InOrder(all, out_pkt["video"], muxed, start_time, clock + 1, FALSE)
      BY <1>1, <1>3, <1>4, <3>1, <3>2, StreamerTypes, FrameKept
    <3>4. CASE delayed' = [delayed EXCEPT ![m] = all] /\ UNCHANGED <<sender, out_pkt>>
      <4>1. delayed'["video"] = all
        BY <1>1, <2>3, <3>4 DEF StreamerTypeOK
      <4>2. sender'["video"] # "idle" <=> FALSE
        BY <1>3, <2>3, <3>4
      <4>3. InOrder(delayed'["video"], out_pkt'["video"], muxed', start_time', clock',
                    sender'["video"] # "idle")
        BY <1>3, <3>3, <3>4, <4>1, <4>2 DEF InOrder
      <4> QED BY <4>3, OrderedTimesAfter
    <3>5. CASE /\ delayed' = [delayed EXCEPT ![m] = Tail(all)]
               /\ sender' = [sender EXCEPT ![m] = "packet"]
               /\ out_pkt' = [out_pkt EXCEPT ![m] = Head(all)]
      <4>1. InOrder(Tail(all), Head(all), muxed, start_time, clock + 1, TRUE)
        BY <1>6, <3>3, PacketGiven
      <4>2. /\ delayed'["video"] = Tail(all) /\ out_pkt'["video"] = Head(all)
            /\ sender'["video"] = "packet"
        BY <1>1, <2>3, <3>5 DEF StreamerTypeOK
      <4>3. InOrder(delayed'["video"], out_pkt'["video"], muxed', start_time', clock',
                    sender'["video"] # "idle")
        BY <1>3, <4>1, <4>2 DEF InOrder
      <4> QED BY <4>3, OrderedTimesAfter
    <3> QED BY <1>5, <3>4, <3>5
  <2> QED BY <2>2, <2>3 DEF Media
<1> QED BY <1>7, <1>8, <1>9, MuxerPartsAfter

(* A packet into the muxer.                                                 *)
LEMMA WriteEndsKeeps ==
  ASSUME MuxerInv, NEW m \in Media, WriteEnds(m)
  PROVE  MuxerInv'
<1>1. StreamerTypeOK /\ LockedOK /\ TimesInOrder
  BY MuxerParts
<1>2. /\ sender[m] = "write" /\ sender' = [sender EXCEPT ![m] = "idle"]
      /\ out_pkt' = [out_pkt EXCEPT ![m] = 0] /\ write_mutex' = write_mutex \ {m}
      /\ UNCHANGED <<phase, encoder, headerWritten, clock, start_time, delayed, streamerHistory>>
      /\ connected' \in BOOLEAN
      /\ muxed' = muxed \/ (m = "video" /\ muxed' = Append(muxed, out_pkt[m]))
  BY <1>1 DEF WriteEnds, StreamerTypeOK
<1>3. InOrder(delayed["video"], out_pkt["video"], muxed, start_time, clock,
              sender["video"] # "idle")
  BY <1>1, OrderedTimes
<1>4. /\ muxed' \in Seq(0 .. Ticks)
      /\ InOrder(delayed["video"], out_pkt'["video"], muxed', start_time, clock,
                 sender'["video"] # "idle")
  <2>1. CASE m = "audio"
    <3>1. /\ out_pkt'["video"] = out_pkt["video"] /\ sender'["video"] = sender["video"]
          /\ muxed' = muxed
      BY <1>1, <1>2, <2>1 DEF StreamerTypeOK, Media
    <3> QED BY <1>1, <1>3, <3>1, StreamerTypes
  <2>2. CASE m = "video"
    <3>1. sender'["video"] = "idle"
      BY <1>1, <1>2, <2>2 DEF StreamerTypeOK
    <3>2. InOrder(delayed["video"], out_pkt["video"], muxed, start_time, clock, TRUE)
      BY <1>2, <1>3, <2>2 DEF InOrder
    <3>3. CASE muxed' = muxed
      BY <1>1, <3>1, <3>2, <3>3, StreamerTypes DEF InOrder
    <3>4. CASE muxed' = Append(muxed, out_pkt[m])
      <4>1. PICK next : next = out_pkt'["video"]
        OBVIOUS
      <4>2. /\ muxed' \in Seq(0 .. Ticks)
            /\ InOrder(delayed["video"], next, muxed', start_time, clock, FALSE)
        BY <1>1, <2>2, <3>2, <3>4, StreamerTypes, PacketMuxed
      <4> QED BY <3>1, <4>1, <4>2 DEF InOrder
    <3> QED BY <1>2, <3>3, <3>4
  <2> QED BY <2>1, <2>2 DEF Media
<1>5. StreamerTypeOK'
  <2>1. sender' \in [Media -> {"idle", "packet", "write"}]
    BY <1>1, <1>2 DEF StreamerTypeOK
  <2>2. out_pkt' \in [Media -> 0 .. Ticks]
    BY <1>1, <1>2, StreamerAssumption DEF StreamerTypeOK
  <2> QED BY <1>1, <1>2, <1>4, <2>1, <2>2 DEF StreamerTypeOK, streamerHistory
<1>6. LockedOK'
  BY <1>1, <1>2 DEF LockedOK, StreamerTypeOK
<1>7. TimesInOrder'
  BY <1>2, <1>4, OrderedTimesAfter
<1> QED BY <1>5, <1>6, <1>7, MuxerPartsAfter

(* The other steps do not touch the times, or do so without a frame kept.    *)
LEMMA StreamKeeps ==
  ASSUME MuxerInv, rtsp_streamer_open \/ FlushVideo \/ FlushAudio \/ StreamerFreed
  PROVE  MuxerInv'
<1>1. StreamerTypeOK /\ LockedOK /\ TimesInOrder
  BY MuxerParts
<1>2. InOrder(delayed["video"], out_pkt["video"], muxed, start_time, clock,
              sender["video"] # "idle")
  BY <1>1, OrderedTimes
<1>3. <<>> \in Seq(1 .. Ticks)
  OBVIOUS
<1>4. CASE rtsp_streamer_open
  <2>1. delayed["video"] = <<>> /\ sender["video"] = "idle"
    BY <1>1, <1>4, StreamerTypes DEF rtsp_streamer_open, LockedOK
  <2>2. StreamerTypeOK'
    BY <1>1, <1>4
       DEF rtsp_streamer_open, StreamerTypeOK, connection, streamerHistory, video_encoder_open,
           audio_encoder_open
  <2>3. LockedOK'
    BY <1>1, <1>4, <2>1, StreamerAssumption
       DEF rtsp_streamer_open, LockedOK, connection, StreamerTypeOK
  <2>4. InOrder(delayed["video"], out_pkt["video"], muxed, clock, clock,
                sender["video"] # "idle")
    BY <1>2, <2>1 DEF InOrder, AllAfter
  <2>5. TimesInOrder'
    BY <1>4, <2>4, OrderedTimesAfter DEF rtsp_streamer_open
  <2> QED BY <2>2, <2>3, <2>5, MuxerPartsAfter
<1>5. CASE FlushVideo
  <2>1. StreamerTypeOK'
    BY <1>1, <1>3, <1>5, StreamerTypes DEF FlushVideo, StreamerTypeOK
  <2>2. delayed'["video"] = <<>> /\ sender["video"] = "idle"
    BY <1>1, <1>5, StreamerTypes DEF FlushVideo, StreamerTypeOK
  <2>3. LockedOK'
    BY <1>1, <1>5, <2>2 DEF FlushVideo, LockedOK
  <2>4. InOrder(<<>>, out_pkt["video"], muxed, start_time, clock, sender["video"] # "idle")
    BY <1>2, <2>2 DEF InOrder, AllAfter, Rising
  <2>5. TimesInOrder'
    BY <1>5, <2>2, <2>4, OrderedTimesAfter DEF FlushVideo
  <2> QED BY <2>1, <2>3, <2>5, MuxerPartsAfter
<1>6. CASE FlushAudio
  <2>1. StreamerTypeOK'
    BY <1>1, <1>3, <1>6, StreamerTypes DEF FlushAudio, StreamerTypeOK
  <2>2. delayed'["video"] = delayed["video"]
    BY <1>1, <1>6, StreamerTypes DEF FlushAudio, StreamerTypeOK
  <2>3. LockedOK'
    BY <1>1, <1>6, <2>2 DEF FlushAudio, LockedOK
  <2>4. TimesInOrder'
    BY <1>2, <1>6, <2>2, OrderedTimesAfter DEF FlushAudio
  <2> QED BY <2>1, <2>3, <2>4, MuxerPartsAfter
<1>7. CASE StreamerFreed
  <2>1. StreamerTypeOK'
    BY <1>1, <1>3, <1>7 DEF StreamerFreed, StreamerTypeOK
  <2>2. LockedOK'
    BY <1>1, <1>7 DEF StreamerFreed, LockedOK
  <2>3. TimesInOrder'
    BY <1>2, <1>7, OrderedTimesAfter DEF StreamerFreed
  <2> QED BY <2>1, <2>2, <2>3, MuxerPartsAfter
<1> QED BY <1>4, <1>5, <1>6, <1>7

(* Every step of the streamer keeps its invariant.                          *)
LEMMA MuxerStep == MuxerInv /\ [StreamerNext]_streamerVars => MuxerInv'
<1> SUFFICES ASSUME MuxerInv, [StreamerNext]_streamerVars
             PROVE  MuxerInv'
  OBVIOUS
<1>1. StreamerTypeOK /\ LockedOK /\ TimesInOrder
  BY MuxerParts
<1>2. InOrder(delayed["video"], out_pkt["video"], muxed, start_time, clock,
              sender["video"] # "idle")
  BY <1>1, OrderedTimes
<1>3. ASSUME NEW m \in Media, EncodeFails(m)
      PROVE  MuxerInv'
  <2>1. StreamerTypeOK'
    BY <1>1, <1>3, StreamerAssumption
       DEF EncodeFails, StreamerTypeOK, connection, streamerHistory
  <2>2. LockedOK'
    BY <1>1, <1>3, StreamerAssumption DEF EncodeFails, LockedOK, connection, StreamerTypeOK
  <2>3. InOrder(delayed["video"], out_pkt["video"], muxed, start_time, clock + 1,
                sender["video"] # "idle")
    BY <1>1, <1>2, StreamerTypes, ClockTicks
  <2>4. TimesInOrder'
    BY <1>3, <2>3, OrderedTimesAfter DEF EncodeFails
  <2> QED BY <2>1, <2>2, <2>4, MuxerPartsAfter
<1>4. ASSUME NEW m \in Media, WriteBegins(m)
      PROVE  MuxerInv'
  <2>1. StreamerTypeOK' /\ (sender'["video"] # "idle" <=> sender["video"] # "idle")
    BY <1>1, <1>4, StreamerTypes DEF WriteBegins, StreamerTypeOK, connection, streamerHistory
  <2>2. LockedOK'
    BY <1>1, <1>4 DEF WriteBegins, LockedOK, connection, StreamerTypeOK
  <2>3. InOrder(delayed'["video"], out_pkt'["video"], muxed', start_time', clock',
                sender'["video"] # "idle")
    BY <1>2, <1>4, <2>1 DEF WriteBegins, InOrder
  <2> QED BY <2>1, <2>2, <2>3, OrderedTimesAfter, MuxerPartsAfter
<1>5. CASE UNCHANGED streamerVars
  BY <1>5 DEF MuxerInv, StreamerTypeOK, TimesInOrder, streamerVars, connection,
              streamerHistory
<1> QED BY <1>3, <1>4, <1>5, EncodeKeeps, WriteEndsKeeps, StreamKeeps DEF StreamerNext

(* However long the encoders keep their frames and however often a write      *)
(* fails and the stream is opened again: one thread at a time is in the       *)
(* muxer, after its header, and it gets the packets in the order of time     *)
(* (rtsp_streamer.c:120-165, 254-263, video_encoder.c:151-235).               *)
THEOREM MuxerServed == StreamerSpec => []MuxerServedInOrder
<1>1. StreamerInit => MuxerInv
  <2> SUFFICES ASSUME StreamerInit
               PROVE  MuxerInv
    OBVIOUS
  <2>1. StreamerTypeOK
    <3>1. 0 \in 0 .. Ticks
      BY StreamerAssumption
    <3>2. <<>> \in Seq(1 .. Ticks) /\ <<>> \in Seq(0 .. Ticks)
      OBVIOUS
    <3> QED BY <3>1, <3>2 DEF StreamerInit, StreamerTypeOK
  <2>2. delayed["video"] = <<>> /\ sender["video"] = "idle" /\ muxed = <<>>
    BY DEF StreamerInit, Media
  <2>3. LockedOK
    BY <2>2 DEF StreamerInit, LockedOK
  <2>4. TimesInOrder
    BY <2>2 DEF TimesInOrder
  <2> QED BY <2>1, <2>3, <2>4, MuxerParts
<1>2. MuxerInv => MuxerServedInOrder
  BY DEF MuxerInv, TimesInOrder, MuxerServedInOrder
<1> QED BY <1>1, <1>2, MuxerStep, PTL DEF StreamerSpec

-----------------------------------------------------------------------------
(* Face recognition. *)

Boxes == [x1 : Int, y1 : Int, x2 : Int, y2 : Int, score : Int]
Rects == [x1 : Int, y1 : Int, x2 : Int, y2 : Int]

(* Overlapping, for boxes and for rectangles, with or without a score.       *)
IsRect(b) == {b.x1, b.y1, b.x2, b.y2} \subseteq Int

(* Two boxes intersect in the same area, whichever is named first.          *)
LEMMA IntersectionType ==
  ASSUME NEW a, NEW b, IsRect(a), IsRect(b)
  PROVE  Area(a) \in Int /\ Intersection(a, b) \in Int /\ Intersection(a, b) = Intersection(b, a)
<1>1. /\ a.x1 \in Int /\ a.y1 \in Int /\ a.x2 \in Int /\ a.y2 \in Int
      /\ b.x1 \in Int /\ b.y1 \in Int /\ b.x2 \in Int /\ b.y2 \in Int
  BY DEF IsRect
<1>2. Area(a) \in Int
  BY <1>1 DEF Area
<1>3. /\ Lesser(a.x2, b.x2) = Lesser(b.x2, a.x2) /\ Greater(a.x1, b.x1) = Greater(b.x1, a.x1)
      /\ Lesser(a.y2, b.y2) = Lesser(b.y2, a.y2) /\ Greater(a.y1, b.y1) = Greater(b.y1, a.y1)
  BY <1>1 DEF Lesser, Greater
<1>4. PICK w \in Int, h \in Int : /\ w = Lesser(a.x2, b.x2) - Greater(a.x1, b.x1)
                                  /\ h = Lesser(a.y2, b.y2) - Greater(a.y1, b.y1)
  BY <1>1 DEF Lesser, Greater
<1>5. Intersection(a, b) = IF w <= 0 \/ h <= 0 THEN 0 ELSE w * h
  BY <1>4 DEF Intersection
<1>6. Intersection(b, a) = IF w <= 0 \/ h <= 0 THEN 0 ELSE w * h
  BY <1>3, <1>4 DEF Intersection
<1>7. w * h \in Int
  OBVIOUS
<1> QED BY <1>2, <1>5, <1>6, <1>7

(* Two boxes overlap each other or neither.                                 *)
LEMMA OverlapSymmetric ==
  ASSUME NEW a, NEW b, IsRect(a), IsRect(b)
  PROVE  Overlap(a, b) <=> Overlap(b, a)
<1>1. PICK p \in Int, q \in Int, s \in Int :
        /\ p = Area(a) /\ q = Area(b) /\ s = Intersection(a, b) /\ s = Intersection(b, a)
  <2>1. Area(a) \in Int /\ Intersection(a, b) \in Int /\ Intersection(a, b) = Intersection(b, a)
    BY IntersectionType
  <2>2. Area(b) \in Int
    BY IntersectionType
  <2> QED BY <2>1, <2>2
<1>2. Overlap(a, b) <=> 10 * s > 3 * (p + q - s)
  BY <1>1 DEF Overlap
<1>3. Overlap(b, a) <=> 10 * s > 3 * (q + p - s)
  BY <1>1 DEF Overlap
<1> QED BY <1>2, <1>3

(* A box overlaps the place it takes.                                       *)
LEMMA OverlapsItself ==
  ASSUME NEW a, IsRect(a), a.x2 - a.x1 > 10, a.y2 - a.y1 > 10
  PROVE  Overlap(a, a)
<1>1. a.x1 \in Int /\ a.y1 \in Int /\ a.x2 \in Int /\ a.y2 \in Int
  BY DEF IsRect
<1>2. PICK w \in Int, h \in Int : w = a.x2 - a.x1 /\ h = a.y2 - a.y1 /\ w > 10 /\ h > 10
  BY <1>1
<1>3. PICK s \in Int : s = w * h
  OBVIOUS
<1>4. s > 0
  <2>1. \A x \in Int, y \in Int : x > 10 /\ y > 10 => x * y > 0
    OBVIOUS
  <2> QED BY <1>2, <1>3, <2>1
<1>5. Area(a) = s
  BY <1>2, <1>3 DEF Area
<1>6. Intersection(a, a) = s
  <2>1. Lesser(a.x2, a.x2) = a.x2 /\ Greater(a.x1, a.x1) = a.x1
    BY <1>1 DEF Lesser, Greater
  <2>2. Lesser(a.y2, a.y2) = a.y2 /\ Greater(a.y1, a.y1) = a.y1
    BY <1>1 DEF Lesser, Greater
  <2>3. ~ (w <= 0 \/ h <= 0)
    BY <1>2
  <2>4. Intersection(a, a) = IF w <= 0 \/ h <= 0 THEN 0 ELSE w * h
    BY <1>2, <2>1, <2>2 DEF Intersection
  <2> QED BY <1>3, <2>3, <2>4
<1>7. 10 * s > 3 * (s + s - s)
  BY <1>4
<1> QED BY <1>5, <1>6, <1>7 DEF Overlap

-----------------------------------------------------------------------------
(* The candidates of a frame are finitely many boxes.                        *)
LEMMA CandidatesAre ==
  ASSUME NEW anchors \in SUBSET Anchors
  PROVE  /\ IsFiniteSet(Candidates(anchors))
         /\ \A b \in Candidates(anchors) :
              b \in Boxes /\ b.x2 - b.x1 > 10 /\ b.y2 - b.y1 > 10
<1>1. anchors \subseteq Boxes /\ IsFiniteSet(anchors) /\ ImageWidth \in Nat /\ ImageHeight \in Nat
  BY FaceAssumption, FS_Subset DEF FaceAssumption, Boxes
<1>2. PICK T : T = {Clipped(a) : a \in anchors}
  OBVIOUS
<1>3. T \subseteq Boxes
  <2>1. ASSUME NEW a \in anchors
        PROVE  Clipped(a) \in Boxes
    BY <1>1 DEF Clipped, Boxes, Greater, Lesser
  <2> QED BY <1>2, <2>1
<1>4. IsFiniteSet(T)
  <2>1. PICK f : f = [a \in anchors |-> Clipped(a)]
    OBVIOUS
  <2>2. f \in Surjection(anchors, T)
    BY <1>2, <2>1 DEF Surjection
  <2> QED BY <1>1, <2>2, FS_Surjection
<1>5. Candidates(anchors) \subseteq T
  BY <1>2 DEF Candidates
<1>6. IsFiniteSet(Candidates(anchors))
  BY <1>4, <1>5, FS_Subset
<1> QED BY <1>3, <1>5, <1>6 DEF Candidates

(* A box's rectangle is one.                                               *)
LEMMA BoxIsRect ==
  ASSUME NEW b \in Boxes
  PROVE  IsRect(b) /\ Rect(b) \in Rects /\ IsRect(Rect(b))
BY DEF Boxes, IsRect, Rect, Rects

(* The rounds of the suppression, one after the other.                       *)
LEMMA SuppressionRounds ==
  ASSUME NEW order, Len(order) \in Nat
  PROVE  \E kept :
           /\ decodeUltraFaceOutputs(order) = kept[Len(order)]
           /\ kept[0] = <<>>
           /\ \A n \in 1 .. Len(order) : kept[n] = KeepOrNot(kept[n - 1], order[n])
<1> DEFINE Rec(f, k) ==
      f = [n \in 0 .. k |-> IF n = 0 THEN <<>> ELSE KeepOrNot(f[n - 1], order[n])]
           S == {k \in Nat : \E f : Rec(f, k)}
<1>1. 0 \in S
  <2>1. PICK f : f = [n \in 0 .. 0 |-> <<>>]
    OBVIOUS
  <2>2. Rec(f, 0)
    BY <2>1
  <2> QED BY <2>2
<1>2. ASSUME NEW k \in Nat, k \in S
      PROVE  k + 1 \in S
  <2>1. PICK f : Rec(f, k)
    BY <1>2
  <2>2. PICK g : g = [n \in 0 .. (k + 1) |-> IF n = k + 1 THEN KeepOrNot(f[k], order[k + 1])
                                                          ELSE f[n]]
    OBVIOUS
  <2>3. ASSUME NEW n \in 0 .. (k + 1)
        PROVE  g[n] = IF n = 0 THEN <<>> ELSE KeepOrNot(g[n - 1], order[n])
    <3>1. CASE n = k + 1
      <4>1. g[n] = KeepOrNot(f[k], order[k + 1]) /\ g[n - 1] = f[k] /\ n # 0
        BY <2>2, <3>1
      <4> QED BY <3>1, <4>1
    <3>2. CASE n = 0
      BY <2>1, <2>2, <3>2
    <3>3. CASE n \in 1 .. k
      <4>1. g[n] = f[n] /\ g[n - 1] = f[n - 1] /\ n # 0
        BY <2>2, <3>3
      <4>2. f[n] = KeepOrNot(f[n - 1], order[n])
        BY <2>1, <3>3
      <4> QED BY <4>1, <4>2
    <3> QED BY <3>1, <3>2, <3>3
  <2>4. Rec(g, k + 1)
    BY <2>2, <2>3
  <2> HIDE DEF Rec
  <2>5. \E h : Rec(h, k + 1)
    BY <2>4
  <2> QED BY <2>5
<1>3. \E f : Rec(f, Len(order))
  <2> HIDE DEF S
  <2>1. Nat \subseteq S
    BY <1>1, <1>2, Induction
  <2>2. Len(order) \in S
    BY <2>1
  <2> QED BY <2>2 DEF S
<1>4. PICK kept : kept = CHOOSE f : Rec(f, Len(order))
  OBVIOUS
<1>5. Rec(kept, Len(order))
  BY <1>3, <1>4
<1>6. decodeUltraFaceOutputs(order) = kept[Len(order)]
  BY <1>4 DEF decodeUltraFaceOutputs
<1>7. /\ kept[0] = <<>>
      /\ \A n \in 1 .. Len(order) : kept[n] = KeepOrNot(kept[n - 1], order[n])
  <2>1. PICK g : g = [n \in 0 .. Len(order) |->
                        IF n = 0 THEN <<>> ELSE KeepOrNot(kept[n - 1], order[n])]
    OBVIOUS
  <2>2. kept = g
    BY <1>5, <2>1
  <2>3. g[0] = <<>>
    BY <2>1
  <2>4. ASSUME NEW n \in 1 .. Len(order)
        PROVE  g[n] = KeepOrNot(kept[n - 1], order[n])
    BY <2>1
  <2> QED BY <2>2, <2>3, <2>4
<1> QED BY <1>6, <1>7

(* What is kept of the first n boxes.                                        *)
Represents(f, b) == f = b \/ (f.score >= b.score /\ Overlap(f, b))

KeptOf(order, n, kept) ==
  /\ kept \in Seq(Boxes)
  /\ \A k \in 1 .. Len(kept) : \E i \in 1 .. n : kept[k] = order[i]
  /\ \A j, k \in 1 .. Len(kept) : j # k => ~Overlap(kept[j], kept[k])
  /\ \A i \in 1 .. n : \E k \in 1 .. Len(kept) : Represents(kept[k], order[i])

(* One more box is looked at.                                               *)
LEMMA KeepsOne ==
  ASSUME NEW m \in Nat, NEW order \in [1 .. m -> Boxes],
         \A i, j \in 1 .. m : i < j => order[i].score >= order[j].score,
         NEW n \in 1 .. m, NEW kept, KeptOf(order, n - 1, kept)
  PROVE  KeptOf(order, n, KeepOrNot(kept, order[n]))
<1>1. kept \in Seq(Boxes) /\ DOMAIN kept = 1 .. Len(kept) /\ Len(kept) \in Nat
  BY LenProperties DEF KeptOf
<1>2. PICK l \in Nat : l = Len(kept)
  BY <1>1
<1>3. PICK box \in Boxes : box = order[n]
  OBVIOUS
<1>4. /\ \A k \in 1 .. l : \E i \in 1 .. n - 1 : kept[k] = order[i]
      /\ \A j, k \in 1 .. l : j # k => ~Overlap(kept[j], kept[k])
      /\ \A i \in 1 .. n - 1 : \E k \in 1 .. l : Represents(kept[k], order[i])
  BY <1>2 DEF KeptOf
<1>5. \A i \in 1 .. n : i # n => i \in 1 .. n - 1
  OBVIOUS
<1>6. CASE Suppressed(kept, box)
  <2>1. KeepOrNot(kept, box) = kept
    BY <1>6 DEF KeepOrNot
  <2>2. PICK k \in 1 .. l : Overlap(kept[k], box)
    BY <1>1, <1>2, <1>6 DEF Suppressed
  <2>3. kept[k].score >= box.score
    <3>1. PICK i \in 1 .. n - 1 : kept[k] = order[i]
      BY <1>4
    <3>2. i \in 1 .. m /\ n \in 1 .. m /\ i < n
      OBVIOUS
    <3> QED BY <1>3, <3>1, <3>2
  <2>4. Represents(kept[k], order[n])
    BY <1>3, <2>2, <2>3 DEF Represents
  <2>5. \A i \in 1 .. n : \E j \in 1 .. l : Represents(kept[j], order[i])
    BY <1>4, <1>5, <2>4
  <2>6. \A j \in 1 .. l : \E i \in 1 .. n : kept[j] = order[i]
    <3>1. \A i \in 1 .. n - 1 : i \in 1 .. n
      OBVIOUS
    <3> QED BY <1>4, <3>1
  <2>7. KeptOf(order, n, kept)
    BY <1>1, <1>2, <1>4, <2>5, <2>6 DEF KeptOf
  <2> QED BY <1>3, <2>1, <2>7
<1>7. CASE ~Suppressed(kept, box)
  <2>1. PICK more : more = Append(kept, box)
    OBVIOUS
  <2>2. /\ more \in Seq(Boxes) /\ Len(more) = l + 1 /\ more[l + 1] = box
        /\ \A i \in 1 .. l : more[i] = kept[i]
    <3>1. PICK S, s : S = Boxes /\ s = kept
      OBVIOUS
    <3>2. s \in Seq(S) /\ box \in S
      BY <1>1, <3>1
    <3>3. /\ Append(s, box) \in Seq(S) /\ Len(Append(s, box)) = Len(s) + 1
          /\ Append(s, box)[Len(s) + 1] = box
          /\ \A i \in 1 .. Len(s) : Append(s, box)[i] = s[i]
      BY <3>2, AppendProperties
    <3> QED BY <1>2, <2>1, <3>1, <3>3
  <2>3. \A i \in 1 .. l : ~Overlap(kept[i], box)
    BY <1>1, <1>2, <1>7 DEF Suppressed
  <2>4. \A i \in 1 .. l : ~Overlap(box, kept[i])
    <3>1. ASSUME NEW i \in 1 .. l
          PROVE  ~Overlap(box, kept[i])
      <4>1. kept[i] \in Boxes
        BY <1>1, <1>2, ElementOfSeq
      <4>2. IsRect(kept[i]) /\ IsRect(box)
        BY <4>1, BoxIsRect
      <4> QED BY <2>3, <4>2, OverlapSymmetric
    <3> QED BY <3>1
  <2>5. \A i \in 1 .. l + 1 : i # l + 1 => i \in 1 .. l
    OBVIOUS
  <2>6. \A j, k \in 1 .. l + 1 : j # k => ~Overlap(more[j], more[k])
    BY <1>4, <2>2, <2>3, <2>4, <2>5
  <2>7. \A k \in 1 .. l + 1 : \E i \in 1 .. n : more[k] = order[i]
    <3>1. n \in 1 .. n /\ \A i \in 1 .. n - 1 : i \in 1 .. n
      OBVIOUS
    <3> QED BY <1>3, <1>4, <2>2, <2>5, <3>1
  <2>8. \A i \in 1 .. n : \E k \in 1 .. l + 1 : Represents(more[k], order[i])
    <3>1. l + 1 \in 1 .. l + 1 /\ \A k \in 1 .. l : k \in 1 .. l + 1
      OBVIOUS
    <3>2. Represents(more[l + 1], order[n])
      BY <1>3, <2>2 DEF Represents
    <3>3. ASSUME NEW i \in 1 .. n - 1
          PROVE  \E k \in 1 .. l + 1 : Represents(more[k], order[i])
      <4>1. PICK k \in 1 .. l : Represents(kept[k], order[i])
        BY <1>4
      <4>2. more[k] = kept[k] /\ k \in 1 .. l + 1
        BY <2>2, <3>1
      <4> QED BY <4>1, <4>2
    <3> QED BY <1>5, <3>1, <3>2, <3>3
  <2>9. KeptOf(order, n, more)
    BY <2>2, <2>6, <2>7, <2>8 DEF KeptOf
  <2>10. KeepOrNot(kept, box) = more
    BY <1>7, <2>1 DEF KeepOrNot
  <2> QED BY <1>3, <2>9, <2>10
<1> QED BY <1>3, <1>6, <1>7

(* The suppression keeps, of all boxes, one for each face.                   *)
LEMMA KeepsAll ==
  ASSUME NEW m \in Nat, NEW order \in [1 .. m -> Boxes],
         \A i, j \in 1 .. m : i < j => order[i].score >= order[j].score
  PROVE  KeptOf(order, m, decodeUltraFaceOutputs(order))
<1>1. Len(order) = m
  <2>1. order \in Seq(Boxes) /\ DOMAIN order = 1 .. m
    BY SeqDef
  <2>2. DOMAIN order = 1 .. Len(order) /\ Len(order) \in Nat
    BY <2>1, LenProperties
  <2> QED BY <2>1, <2>2
<1>2. PICK kept : /\ decodeUltraFaceOutputs(order) = kept[m]
                  /\ kept[0] = <<>>
                  /\ \A n \in 1 .. m : kept[n] = KeepOrNot(kept[n - 1], order[n])
  BY <1>1, SuppressionRounds
<1> DEFINE S == {n \in Nat : n <= m => KeptOf(order, n, kept[n])}
<1>3. 0 \in S
  <2>1. <<>> \in Seq(Boxes) /\ Len(<<>>) = 0
    BY EmptySeq
  <2>2. KeptOf(order, 0, <<>>)
    BY <2>1 DEF KeptOf
  <2> QED BY <1>2, <2>2
<1>4. ASSUME NEW n \in Nat, n \in S
      PROVE  n + 1 \in S
  <2>1. ASSUME n + 1 <= m
        PROVE  KeptOf(order, n + 1, kept[n + 1])
    <3>1. PICK k \in 1 .. m : k = n + 1
      BY <2>1
    <3>2. k - 1 = n /\ n <= m
      BY <3>1
    <3>3. KeptOf(order, k - 1, kept[k - 1])
      BY <1>4, <3>2
    <3>4. KeptOf(order, k, KeepOrNot(kept[k - 1], order[k]))
      BY <3>3, KeepsOne
    <3>5. kept[k] = KeepOrNot(kept[k - 1], order[k])
      BY <1>2
    <3> QED BY <3>1, <3>4, <3>5
  <2> QED BY <2>1
<1>5. Nat \subseteq S
  <2> HIDE DEF S
  <2> QED BY <1>3, <1>4, Induction
<1>6. KeptOf(order, m, kept[m])
  BY <1>5
<1> QED BY <1>2, <1>6

(* What detectFace makes of a frame.                                        *)
LEMMA OneForEachFace ==
  ASSUME FaceNext
  PROVE  /\ OnePerFace'
         /\ faces' # <<>> => faces'[1] \in Candidates(frame')
<1>1. PICK anchors \in SUBSET Anchors, p \in Persons : extractFaceFeature(anchors, p)
  BY DEF FaceNext
<1>2. PICK order \in ByScore(Candidates(anchors)) :
        frame' = anchors /\ faces' = decodeUltraFaceOutputs(order)
  BY <1>1 DEF extractFaceFeature
<1>3. PICK found : found = Candidates(anchors)
  OBVIOUS
<1>4. IsFiniteSet(found) /\ found \subseteq Boxes
  BY <1>3, CandidatesAre
<1>5. PICK m \in Nat : m = Cardinality(found)
  BY <1>4, FS_CardinalityType
<1>6. /\ order \in [1 .. m -> found]
      /\ \A b \in found : \E i \in 1 .. m : order[i] = b
      /\ \A i, j \in 1 .. m : i < j => order[i].score >= order[j].score
  BY <1>2, <1>3, <1>5 DEF ByScore
<1>7. order \in [1 .. m -> Boxes]
  BY <1>4, <1>6
<1>8. KeptOf(order, m, faces')
  BY <1>2, <1>6, <1>7, KeepsAll
<1>9. PICK kept \in Seq(Boxes) : kept = faces'
  BY <1>8 DEF KeptOf
<1>10. PICK l \in Nat : l = Len(kept) /\ DOMAIN kept = 1 .. l
  BY <1>9, LenProperties
<1>11. /\ \A k \in 1 .. l : \E i \in 1 .. m : kept[k] = order[i]
       /\ \A j, k \in 1 .. l : j # k => ~Overlap(kept[j], kept[k])
       /\ \A i \in 1 .. m : \E k \in 1 .. l : Represents(kept[k], order[i])
  BY <1>8, <1>9, <1>10 DEF KeptOf
<1>12. \A c \in found : \E i \in 1 .. l : Represents(kept[i], c)
  BY <1>6, <1>11
<1>13. /\ \A i, j \in DOMAIN faces' : i # j => ~Overlap(faces'[i], faces'[j])
       /\ \A c \in Candidates(frame') : \E i \in DOMAIN faces' : Represents(faces'[i], c)
  BY <1>2, <1>3, <1>9, <1>10, <1>11, <1>12
<1>14. OnePerFace'
  BY <1>13 DEF OnePerFace, Represents
<1>15. ASSUME faces' # <<>>
       PROVE  faces'[1] \in Candidates(frame')
  <2>1. l # 0
    BY <1>9, <1>10, <1>15, EmptySeq
  <2>2. 1 \in 1 .. l
    BY <2>1
  <2>3. kept[1] \in found
    BY <1>6, <1>11, <2>2
  <2> QED BY <1>2, <1>3, <1>9, <2>3
<1> QED BY <1>14, <1>15

(* The calls that are remembered: the last is this one, and each before has  *)
(* moved back by one.                                                       *)
Remembers(S, before, after, call) ==
  /\ after \in Seq(S) /\ Len(after) \in 1 .. REID_INTERVAL /\ after[Len(after)] = call
  /\ \A c \in 1 .. REID_INTERVAL - 1 :
       c - 1 < Len(before) => /\ c < Len(after)
                              /\ after[Len(after) - c] = before[Len(before) - (c - 1)]

(* The list that RememberCall keeps is such a list.                         *)
LEMMA CallsRemembered ==
  ASSUME NEW S, NEW before \in Seq(S), NEW call \in S, Len(before) <= REID_INTERVAL
  PROVE  LET calls == Append(before, call)
         IN  Remembers(S, before, IF Len(calls) > REID_INTERVAL THEN Tail(calls) ELSE calls, call)
<1>1. PICK R \in Nat : R = REID_INTERVAL /\ R > 0
  BY FaceAssumption DEF FaceAssumption
<1>2. PICK calls : calls = Append(before, call)
  OBVIOUS
<1>3. PICK l \in Nat : l = Len(before) /\ l <= R
  BY <1>1, LenProperties
<1>4. /\ calls \in Seq(S) /\ Len(calls) = l + 1 /\ calls[l + 1] = call
      /\ \A i \in 1 .. l : calls[i] = before[i]
  BY <1>2, <1>3, AppendProperties
<1>5. CASE l < R
  <2>1. ~ (Len(calls) > R)
    BY <1>4, <1>5
  <2>2. Remembers(S, before, calls, call)
    <3>1. l + 1 \in 1 .. R
      BY <1>5
    <3>2. ASSUME NEW c \in 1 .. R - 1, c - 1 < l
          PROVE  c < l + 1 /\ calls[l + 1 - c] = before[l - (c - 1)]
      <4>1. l + 1 - c \in 1 .. l /\ l + 1 - c = l - (c - 1)
        BY <3>2
      <4> QED BY <1>4, <3>2, <4>1
    <3> QED BY <1>1, <1>3, <1>4, <3>1, <3>2 DEF Remembers
  <2> QED BY <1>1, <1>2, <2>1, <2>2
<1>6. CASE l = R
  <2>1. Len(calls) > R
    BY <1>4, <1>6
  <2>2. PICK rest : rest = Tail(calls)
    OBVIOUS
  <2>3. /\ rest \in Seq(S) /\ Len(rest) = l
        /\ \A i \in 1 .. l : rest[i] = calls[i + 1]
    <3>1. calls # <<>>
      BY <1>4, EmptySeq
    <3>2. /\ Tail(calls) \in Seq(S) /\ Len(Tail(calls)) = Len(calls) - 1
          /\ \A i \in 1 .. Len(Tail(calls)) : Tail(calls)[i] = calls[i + 1]
      BY <1>4, <3>1, HeadTailProperties
    <3> QED BY <1>4, <2>2, <3>2
  <2>4. Remembers(S, before, rest, call)
    <3>1. l \in 1 .. R /\ rest[l] = call
      BY <1>1, <1>4, <1>6, <2>3
    <3>2. ASSUME NEW c \in 1 .. R - 1, c - 1 < l
          PROVE  c < l /\ rest[l - c] = before[l - (c - 1)]
      <4>1. c < l /\ l - c \in 1 .. l /\ (l - c) + 1 = l - (c - 1) /\ (l - c) + 1 \in 1 .. l
        BY <1>6, <3>2
      <4>2. rest[l - c] = calls[(l - c) + 1]
        BY <2>3, <4>1
      <4>3. calls[(l - c) + 1] = before[(l - c) + 1]
        BY <1>4, <4>1
      <4> QED BY <4>1, <4>2, <4>3
    <3> QED BY <1>1, <1>3, <2>3, <3>1, <3>2 DEF Remembers
  <2> QED BY <1>1, <1>2, <2>1, <2>2, <2>4
<1>7. l < R \/ l = R
  BY <1>3
<1> QED BY <1>5, <1>6, <1>7

Calls == [rect : Rects, person : Persons]

(* A step that looks at a face keeps what is known of the cached feature.    *)
LEMMA CacheKept ==
  ASSUME CacheInv, FeatureRecent, FaceNext
  PROVE  CacheInv' /\ FeatureRecent'
<1>1. PICK anchors \in SUBSET Anchors, p \in Persons : extractFaceFeature(anchors, p)
  BY DEF FaceNext
<1>2. CASE faces' = <<>>
  <2>1. UNCHANGED <<m_lastFaceRect, m_lastFaceValid, m_lastFeature, m_framesSinceReid, seen, sent>>
    BY <1>1, <1>2 DEF extractFaceFeature
  <2> QED BY <2>1 DEF CacheInv, FeatureRecent, NotExpired
<1>3. CASE faces' # <<>>
  <2>1. PICK face \in Boxes : face = faces'[1] /\ face.x2 - face.x1 > 10 /\ face.y2 - face.y1 > 10
    <3>1. faces'[1] \in Candidates(frame')
      BY <1>3, OneForEachFace
    <3>2. frame' \in SUBSET Anchors
      BY <1>1 DEF extractFaceFeature
    <3> QED BY <3>1, <3>2, CandidatesAre
  <2>2. PICK R \in Nat, m \in Nat, calls \in Nat :
          /\ R = REID_INTERVAL /\ R > 0 /\ m = m_framesSinceReid /\ m <= R
          /\ calls = Lesser(m + 1, R) /\ calls <= R /\ (calls < R => calls = m + 1)
    <3>1. /\ REID_INTERVAL \in Nat \ {0} /\ m_framesSinceReid \in 0 .. REID_INTERVAL
      BY FaceAssumption DEF FaceAssumption, CacheInv
    <3>2. PICK R \in Nat, m \in Nat :
            R = REID_INTERVAL /\ R > 0 /\ m = m_framesSinceReid /\ m <= R
      BY <3>1
    <3>3. PICK calls \in Nat : calls = Lesser(m + 1, R)
      BY <3>2 DEF Lesser
    <3>4. calls <= R /\ (calls < R => calls = m + 1)
      BY <3>2, <3>3 DEF Lesser
    <3> QED BY <3>2, <3>3, <3>4
  <2>3. PICK rect \in Rects : rect = Rect(face) /\ IsRect(rect) /\ IsRect(face)
    BY BoxIsRect
  <2>4. PICK call \in Calls : call = [rect |-> rect, person |-> p]
    BY DEF Calls
  <2>5. PICK s : s = seen /\ s \in Seq(Calls) /\ Len(s) <= REID_INTERVAL
    BY DEF CacheInv, Calls, Rects
  <2>6. PICK t : t = seen' /\ Remembers(Calls, s, t, call)
    <3>1. RememberCall(face, p)
      BY <1>1, <1>3, <2>1 DEF extractFaceFeature
    <3>2. seen' = LET all == Append(s, call)
                  IN  IF Len(all) > REID_INTERVAL THEN Tail(all) ELSE all
      BY <2>3, <2>4, <2>5, <3>1 DEF RememberCall
    <3>3. Remembers(Calls, s, seen', call)
      BY <2>5, <3>2, CallsRemembered
    <3> QED BY <3>3
  <2>7. PICK n \in 1 .. R : n = Len(t) /\ t \in Seq(Calls) /\ t[n] = call /\ DOMAIN t = 1 .. n
    BY <2>2, <2>6, LenProperties DEF Remembers
  <2>8. PICK old : old = [rect |-> m_lastFaceRect, person |-> m_lastFeature]
    OBVIOUS
  <2>9. ASSUME m_lastFaceValid, calls < R
        PROVE  calls < n /\ t[n - calls] = old
    <3>1. calls = m + 1 /\ m < R
      BY <2>2, <2>9
    <3>2. m < Len(s) /\ s[Len(s) - m] = old
      BY <2>2, <2>5, <2>8, <2>9, <3>1 DEF CacheInv, NotExpired
    <3>3. calls \in 1 .. R - 1 /\ calls - 1 = m
      BY <2>9, <3>1
    <3>4. /\ calls < Len(t)
          /\ t[Len(t) - calls] = s[Len(s) - (calls - 1)]
      BY <2>2, <2>6, <3>2, <3>3 DEF Remembers
    <3> QED BY <2>7, <3>2, <3>3, <3>4
  <2>10. /\ seen' \in Seq([rect : [x1 : Int, y1 : Int, x2 : Int, y2 : Int], person : Persons])
         /\ Len(seen') <= REID_INTERVAL
    BY <2>2, <2>6, <2>7 DEF Calls, Rects
  <2>11. CASE /\ FeatureCached(face, calls)
              /\ sent' = [feature |-> m_lastFeature, person |-> p]
              /\ m_framesSinceReid' = calls
              /\ UNCHANGED <<m_lastFaceRect, m_lastFaceValid, m_lastFeature>>
    <3>1. m_lastFaceValid /\ Overlap(face, m_lastFaceRect) /\ calls < R
      BY <2>2, <2>11 DEF FeatureCached, NotExpired
    <3>2. calls < n /\ t[n - calls] = old
      BY <2>9, <3>1
    <3>3. PICK i \in 1 .. n : i = n - calls
      BY <3>2
    <3>4. t[i] = old /\ t[i] \in Calls
      BY <2>7, <3>2, <3>3, ElementOfSeq
    <3>5. old.rect = m_lastFaceRect /\ old.person = m_lastFeature /\ old.rect \in Rects
      BY <2>8, <3>4 DEF Calls
    <3>6. Overlap(old.rect, call.rect)
      <4>1. IsRect(old.rect)
        BY <3>5 DEF Rects, IsRect
      <4>2. Overlap(old.rect, face)
        BY <2>3, <3>1, <3>5, <4>1, OverlapSymmetric
      <4>3. Overlap(old.rect, rect)
        BY <2>3, <4>2 DEF Overlap, Area, Intersection, Rect
      <4> QED BY <2>4, <4>3
    <3>7. FeatureRecent'
      <4>1. sent'.feature = m_lastFeature
        BY <2>11
      <4> QED BY <2>6, <2>7, <3>3, <3>4, <3>5, <3>6, <4>1 DEF FeatureRecent
    <3>8. CacheInv'
      <4>1. m_framesSinceReid' \in 0 .. REID_INTERVAL
        BY <2>2, <2>11
      <4>2. m_framesSinceReid' < Len(seen') /\ seen'[Len(seen') - m_framesSinceReid'] =
              [rect |-> m_lastFaceRect', person |-> m_lastFeature']
        BY <2>6, <2>7, <2>8, <2>11, <3>2
      <4> QED BY <2>10, <4>1, <4>2 DEF CacheInv
    <3> QED BY <3>7, <3>8
  <2>12. CASE /\ m_lastFaceRect' = Rect(face) /\ m_lastFaceValid' = TRUE
              /\ m_lastFeature' = p /\ m_framesSinceReid' = 0
              /\ sent' = [feature |-> p, person |-> p]
    <3>1. Overlap(rect, rect)
      <4>1. rect.x2 - rect.x1 > 10 /\ rect.y2 - rect.y1 > 10
        BY <2>1, <2>3 DEF Rect
      <4> QED BY <2>3, <4>1, OverlapsItself
    <3>2. t[n].rect = rect /\ t[n].person = p /\ n \in DOMAIN t
      BY <2>4, <2>7
    <3>3. FeatureRecent'
      <4>1. sent'.feature = p
        BY <2>12
      <4> QED BY <2>6, <2>7, <3>1, <3>2, <4>1 DEF FeatureRecent
    <3>4. CacheInv'
      <4>1. m_framesSinceReid' \in 0 .. REID_INTERVAL
        BY <2>2, <2>12
      <4>2. m_framesSinceReid' < Len(seen') /\ seen'[Len(seen') - m_framesSinceReid'] =
              [rect |-> m_lastFaceRect', person |-> m_lastFeature']
        BY <2>3, <2>4, <2>6, <2>7, <2>12
      <4> QED BY <2>10, <4>1, <4>2 DEF CacheInv
    <3> QED BY <3>3, <3>4
  <2>13. CASE /\ m_framesSinceReid' = calls
              /\ sent' = [feature |-> NoPerson, person |-> p]
              /\ UNCHANGED <<m_lastFaceRect, m_lastFaceValid, m_lastFeature>>
    <3>1. FeatureRecent'
      BY <2>13 DEF FeatureRecent
    <3>2. CacheInv'
      <4>1. m_framesSinceReid' \in 0 .. REID_INTERVAL
        BY <2>2, <2>13
      <4>2. m_lastFaceValid' /\ NotExpired(m_framesSinceReid)' =>
              /\ m_framesSinceReid' < Len(seen')
              /\ seen'[Len(seen') - m_framesSinceReid'] =
                   [rect |-> m_lastFaceRect', person |-> m_lastFeature']
        BY <2>2, <2>6, <2>7, <2>8, <2>9, <2>13 DEF NotExpired
      <4> QED BY <2>10, <4>1, <4>2 DEF CacheInv
    <3> QED BY <3>1, <3>2
  <2> QED BY <1>1, <1>3, <2>1, <2>2, <2>11, <2>12, <2>13 DEF extractFaceFeature
<1> QED BY <1>2, <1>3

(* A face is reported once, and a feature that is given out is of somebody   *)
(* who was at that place in the last REID_INTERVAL calls                     *)
(* (facemanager.cpp:543-593, 708-763).                                       *)
THEOREM FacesOnce == FaceSpec => []FacesOnceFeaturesRecent
<1>1. FaceInit => FaceInv
  <2>1. SUFFICES ASSUME FaceInit
                 PROVE  FaceInv
    OBVIOUS
  <2>2. Candidates(frame) = {}
    BY <2>1 DEF FaceInit, Candidates
  <2>3. OnePerFace
    <3>1. DOMAIN faces = {}
      BY <2>1, EmptySeq DEF FaceInit
    <3> QED BY <2>2, <3>1 DEF OnePerFace
  <2>4. FeatureRecent
    BY <2>1 DEF FaceInit, FeatureRecent
  <2>5. CacheInv
    <3>1. seen \in Seq(Calls) /\ Len(seen) = 0
      BY <2>1, EmptySeq DEF FaceInit
    <3>2. REID_INTERVAL \in Nat
      BY FaceAssumption DEF FaceAssumption
    <3> QED BY <2>1, <3>1, <3>2 DEF FaceInit, CacheInv, Calls, Rects
  <2> QED BY <2>3, <2>4, <2>5 DEF FaceInv, FacesOnceFeaturesRecent
<1>2. FaceInv /\ [FaceNext]_faceVars => FaceInv'
  <2>1. ASSUME FaceInv, FaceNext
        PROVE  FaceInv'
    <3>1. OnePerFace'
      BY <2>1, OneForEachFace
    <3>2. CacheInv' /\ FeatureRecent'
      BY <2>1, CacheKept DEF FaceInv, FacesOnceFeaturesRecent
    <3> QED BY <3>1, <3>2 DEF FaceInv, FacesOnceFeaturesRecent
  <2>2. ASSUME FaceInv, UNCHANGED faceVars
        PROVE  FaceInv'
    BY <2>2 DEF faceVars, FaceInv, FacesOnceFeaturesRecent, OnePerFace, FeatureRecent, CacheInv,
                NotExpired
  <2> QED BY <2>1, <2>2
<1>3. FaceInv => FacesOnceFeaturesRecent
  BY DEF FaceInv
<1> QED BY <1>1, <1>2, <1>3, PTL DEF FaceSpec

-----------------------------------------------------------------------------
(* The voice session. *)

(* A word of a keyword that a text contains occurs in the text. *)
LEMMA ContainedOccurs ==
  ASSUME NEW text \in Seq(STRING), NEW word, Len(word) \in Nat, ContainsText(text, word),
         NEW k \in 1 .. Len(word)
  PROVE  word[k] \in ToSet(text)
<1>1. PICK i \in 0 .. Len(text) - Len(word) : SubSeq(text, i + 1, i + Len(word)) = word
  BY DEF ContainsText
<1>2. i + k \in 1 .. Len(text) /\ word[k] = text[i + k]
  <2>1. PICK n \in Nat, m \in Nat : n = Len(text) /\ m = Len(word)
    BY LenProperties
  <2>2. SubSeq(text, i + 1, i + m)[k] = text[i + 1 + k - 1]
    BY <2>1, SubSeqProperties
  <2>3. i \in Int /\ k \in Int /\ i >= 0 /\ i <= n - m /\ 1 <= k /\ k <= m
    BY <1>1, <2>1
  <2>4. i + 1 + k - 1 = i + k /\ i + k \in 1 .. n
    BY <2>1, <2>3
  <2> QED BY <1>1, <2>1, <2>2, <2>4
<1> QED BY <1>2, LenProperties DEF ToSet

(* A keyword of one word is contained where the word occurs. *)
LEMMA OccursContained ==
  ASSUME NEW text \in Seq(STRING), NEW w \in ToSet(text)
  PROVE  ContainsText(text, <<w>>)
<1>1. PICK i \in 1 .. Len(text) : text[i] = w
  BY LenProperties DEF ToSet
<1>2. SubSeq(text, i, i) = <<w>>
  <2>1. i \in Int /\ Len(text) \in Nat /\ 1 <= i /\ i <= Len(text) /\ i \in Nat
    BY <1>1, LenProperties
  <2>2. text[i] \in STRING
    BY <1>1, LenProperties, ElementOfSeq
  <2>3. \A j \in i .. i : text[j] \in STRING
    BY <2>1, <2>2
  <2>4. /\ SubSeq(text, i, i) \in Seq(STRING)
        /\ Len(SubSeq(text, i, i)) = 1
        /\ SubSeq(text, i, i)[1] = text[i]
    <3>1. SubSeq(text, i, i) \in Seq(STRING) /\ Len(SubSeq(text, i, i)) = i - i + 1
      BY <2>1, <2>3, SubSeqProperties
    <3> QED BY <2>1, <2>3, <3>1, SubSeqProperties
  <2>5. PICK s : s = SubSeq(text, i, i)
    OBVIOUS
  <2>6. s \in Seq(STRING) /\ <<w>> \in Seq(STRING) /\ Len(s) = Len(<<w>>)
        /\ \A j \in 1 .. Len(s) : s[j] = <<w>>[j]
    BY <1>1, <2>2, <2>4, <2>5
  <2>7. s = <<w>>
    BY <2>6, SeqEqual
  <2> QED BY <2>5, <2>7
<1>3. Len(<<w>>) = 1 /\ i - 1 \in 0 .. Len(text) - 1 /\ i - 1 + 1 = i
  BY <1>1, LenProperties
<1> QED BY <1>2, <1>3 DEF ContainsText

(* The rules of the table: the digits, then numerals that begin with one,   *)
(* then the units.                                                          *)
LEMMA TableOfNumbers ==
  /\ DOMAIN m_numberMap = 1 .. 19
  /\ \A i \in 1 .. 19 : m_numberMap[i].unit <=> i > 17
  /\ \A n \in 1 .. 10 : m_numberMap[n].target = n /\ m_numberMap[n].patterns = {<<w>> : w \in Digits[n]}
<1>1. DOMAIN m_numberMap = 1 .. 19
  BY DEF m_numberMap
<1>2. \A i \in 1 .. 19 : m_numberMap[i].unit <=> i > 17
  <2>1. \A i \in 1 .. 10 : ~ m_numberMap[i].unit
    BY DEF m_numberMap, Numeral
  <2>2. \A i \in 11 .. 17 : ~ m_numberMap[i].unit
    BY DEF m_numberMap, Numeral
  <2>3. m_numberMap[18].unit /\ m_numberMap[19].unit
    BY DEF m_numberMap, OneOf
  <2> QED BY <2>1, <2>2, <2>3
<1>3. \A n \in 1 .. 10 : m_numberMap[n].target = n
  BY DEF m_numberMap, Numeral
<1>4. \A n \in 1 .. 10 : m_numberMap[n].patterns = {<<w>> : w \in Digits[n]}
  BY DEF m_numberMap, Numeral, Digits
<1> QED BY <1>1, <1>2, <1>3, <1>4

(* Every numeral above ten begins with one of the digits' words.            *)
LEMMA CompoundNumerals ==
  ASSUME NEW i \in 11 .. 17, NEW word \in m_numberMap[i].patterns
  PROVE  Len(word) = 2 /\ \E n \in 1 .. 10 : word[1] \in Digits[n]
<1>1. word \in {<<v, w>> : v \in {"er", "san", "wu", "yi", "liang"}, w \in {"shi", "bai", "qian"}}
  <2>1. i \in {11, 12, 13, 14, 15, 16, 17}
    OBVIOUS
  <2>2. m_numberMap[11].patterns = {<<"er", "shi">>} /\ m_numberMap[12].patterns = {<<"san", "shi">>}
    BY DEF m_numberMap, Numeral
  <2>3. m_numberMap[13].patterns = {<<"wu", "shi">>} /\ m_numberMap[14].patterns = {<<"yi", "bai">>}
    BY DEF m_numberMap, Numeral
  <2>4. m_numberMap[15].patterns = {<<"liang", "bai">>} /\ m_numberMap[16].patterns = {<<"wu", "bai">>}
    BY DEF m_numberMap, Numeral
  <2>5. m_numberMap[17].patterns = {<<"yi", "qian">>}
    BY DEF m_numberMap, Numeral
  <2>6. word \in {<<"er", "shi">>, <<"san", "shi">>, <<"wu", "shi">>, <<"yi", "bai">>,
                  <<"liang", "bai">>, <<"wu", "bai">>, <<"yi", "qian">>}
    BY <2>1, <2>2, <2>3, <2>4, <2>5
  <2> QED BY <2>6
<1>2. PICK v \in {"er", "san", "wu", "yi", "liang"}, w \in {"shi", "bai", "qian"} : word = <<v, w>>
  BY <1>1
<1>4. Len(word) = 2 /\ word[1] = v
  BY <1>2
<1>5. "er" \in Digits[2] /\ "liang" \in Digits[2] /\ "san" \in Digits[3] /\ "wu" \in Digits[5]
      /\ "yi" \in Digits[1]
  BY DEF Digits
<1> QED BY <1>2, <1>4, <1>5

(* The rules a text meets below ten are those of the digits it spells, and  *)
(* it meets one above ten only if it spells a digit.                        *)
LEMMA HitsSpelled ==
  ASSUME NEW text \in Seq(STRING)
  PROVE  /\ \A n \in 1 .. 10 : n \in Hits(m_numberMap, text) <=> n \in InWords(text)
         /\ \A i \in Hits(m_numberMap, text) \cap NumeralRules :
              i \in 1 .. 17 /\ InWords(text) # {}
<1>1. ASSUME NEW n \in 1 .. 10
      PROVE  n \in Hits(m_numberMap, text) <=> n \in InWords(text)
  <2>1. n \in Hits(m_numberMap, text) <=> \E w \in Digits[n] : ContainsText(text, <<w>>)
    <3>1. n \in Hits(m_numberMap, text) <=>
            \E word \in m_numberMap[n].patterns : ContainsText(text, word)
      <4>1. n \in DOMAIN m_numberMap
        BY TableOfNumbers
      <4> QED BY <4>1 DEF Hits, ContainsAny
    <3>2. m_numberMap[n].patterns = {<<w>> : w \in Digits[n]}
      BY TableOfNumbers
    <3> QED BY <3>1, <3>2
  <2>2. n \in InWords(text) <=> \E w \in Digits[n] : w \in ToSet(text)
    BY DEF InWords
  <2>3. ASSUME NEW w, ContainsText(text, <<w>>)
        PROVE  w \in ToSet(text)
    <3>1. Len(<<w>>) = 1 /\ <<w>>[1] = w
      OBVIOUS
    <3>2. <<w>>[1] \in ToSet(text)
      BY <2>3, <3>1, ContainedOccurs
    <3> QED BY <3>1, <3>2
  <2> QED BY <2>1, <2>2, <2>3, OccursContained
<1>2. ASSUME NEW i \in Hits(m_numberMap, text) \cap NumeralRules
      PROVE  i \in 1 .. 17 /\ InWords(text) # {}
  <2>1. i \in 1 .. 17
    BY TableOfNumbers DEF NumeralRules
  <2>2. CASE i \in 1 .. 10
    BY <1>1, <1>2, <2>2
  <2>3. CASE i \in 11 .. 17
    <3>1. PICK word \in m_numberMap[i].patterns : ContainsText(text, word)
      BY <1>2 DEF Hits, ContainsAny
    <3>2. Len(word) = 2
      BY <2>3, CompoundNumerals
    <3>3. PICK n \in 1 .. 10 : word[1] \in Digits[n]
      BY <2>3, CompoundNumerals
    <3>4. word[1] \in ToSet(text)
      BY <3>1, <3>2, ContainedOccurs
    <3> QED BY <2>1, <3>3, <3>4 DEF InWords
  <2> QED BY <2>1, <2>2, <2>3
<1> QED BY <1>1, <1>2

(* What the table finds: a digit that is spelled, or nothing.               *)
LEMMA NumeralsSpelled ==
  ASSUME NEW text \in Seq(STRING)
  PROVE  IF InWords(text) = {} THEN Numerals(text) = 0 ELSE Numerals(text) \in InWords(text)
<1> DEFINE rules == Hits(m_numberMap, text) \cap NumeralRules
<1>1. CASE InWords(text) = {}
  <2>1. rules = {}
    BY <1>1, HitsSpelled
  <2> QED BY <1>1, <2>1 DEF Numerals, FirstOf
<1>2. CASE InWords(text) # {}
  <2>1. PICK n \in 1 .. 10 : n \in InWords(text)
    BY <1>2 DEF InWords
  <2>2. n \in rules
    BY <2>1, HitsSpelled, TableOfNumbers DEF NumeralRules
  <2>3. rules \in SUBSET Nat
    BY HitsSpelled
  <2>4. \E m \in rules : \A k \in rules : m <= k
    BY <2>2, <2>3, Smallest
  <2>5. PICK i : i = CHOOSE m \in rules : \A k \in rules : m <= k
    OBVIOUS
  <2>6. i \in rules /\ \A k \in rules : i <= k
    BY <2>4, <2>5
  <2>7. i \in 1 .. 17 /\ i <= n
    BY <2>2, <2>6, HitsSpelled
  <2>8. i \in 1 .. 10
    BY <2>7
  <2>9. i \in InWords(text)
    BY <2>6, <2>8, HitsSpelled
  <2>10. Numerals(text) = m_numberMap[i].target
    BY <2>2, <2>5 DEF Numerals, FirstOf
  <2> QED BY <1>2, <2>8, <2>9, <2>10, TableOfNumbers
<1> QED BY <1>1, <1>2

(* What the regular expression finds: one of the numbers before a unit, 0    *)
(* where there is none.                                                     *)
LEMMA ArabicCounted ==
  ASSUME NEW text \in Seq(STRING)
  PROVE  /\ InDigits(text) \subseteq Nat
         /\ IF InDigits(text) = {} THEN ArabicBefore(Units, text) = 0
            ELSE ArabicBefore(Units, text) \in InDigits(text)
<1> DEFINE at == NumbersBefore(Units, text)
<1>1. \A d \in DOMAIN Arabic : Arabic[d] \in Nat
  BY DEF Arabic
<1>2. InDigits(text) \subseteq Nat
  BY <1>1 DEF InDigits, NumbersBefore
<1>3. CASE at = {}
  BY <1>2, <1>3 DEF InDigits, ArabicBefore
<1>4. CASE at # {}
  <2>1. at \in SUBSET Nat
    BY DEF NumbersBefore
  <2>2. \E m \in at : \A k \in at : m <= k
    BY <1>4, <2>1, Smallest
  <2>3. PICK i : i = CHOOSE m \in at : \A k \in at : m <= k
    OBVIOUS
  <2>4. i \in at
    BY <2>2, <2>3
  <2>5. ArabicBefore(Units, text) = Arabic[text[i]]
    BY <1>4, <2>3 DEF ArabicBefore
  <2>6. Arabic[text[i]] \in InDigits(text)
    BY <2>4 DEF InDigits
  <2> QED BY <1>2, <2>5, <2>6
<1> QED BY <1>3, <1>4

(* So the quantity is the number in digits, the one that is spelled, or one. *)
LEMMA QuantityNamed ==
  ASSUME NEW text \in Seq(STRING)
  PROVE  /\ InDigits(text) # {} /\ 0 \notin InDigits(text) => extractQuantity(text) \in InDigits(text)
         /\ InDigits(text) \subseteq {0} =>
              extractQuantity(text) \in (IF InWords(text) = {} THEN {1} ELSE InWords(text))
<1>1. InWords(text) \subseteq 1 .. 10
  BY DEF InWords
<1>2. CASE InDigits(text) # {} /\ 0 \notin InDigits(text)
  <2>1. PICK v \in Nat : v = ArabicBefore(Units, text) /\ v \in InDigits(text) /\ v > 0
    BY <1>2, ArabicCounted
  <2>2. extractQuantity(text) = v
    BY <2>1 DEF extractQuantity, matchNumber
  <2> QED BY <1>2, <2>1, <2>2
<1>3. CASE InDigits(text) \subseteq {0}
  <2>1. ArabicBefore(Units, text) = 0
    BY <1>3, ArabicCounted
  <2>2. matchNumber(text) = Numerals(text)
    BY <2>1 DEF matchNumber
  <2>3. CASE InWords(text) = {}
    BY <1>3, <2>2, <2>3, NumeralsSpelled DEF extractQuantity
  <2>4. CASE InWords(text) # {}
    <3>1. PICK v \in 1 .. 10 : v = Numerals(text) /\ v \in InWords(text)
      BY <1>1, <2>4, NumeralsSpelled
    <3> QED BY <1>3, <2>2, <2>4, <3>1 DEF extractQuantity
  <2> QED BY <2>3, <2>4
<1> QED BY <1>2, <1>3

(* What begins an utterance is a text.                                      *)
LEMMA TextsBegin ==
  ASSUME NEW u \in Utterances, NEW n \in Nat, n <= Len(u)
  PROVE  SubSeq(u, 1, n) \in Texts \cup {<<>>}
<1>1. SubSeq(u, 1, n) \in Prefixes(u)
  <2>1. Len(u) \in Nat
    BY VoiceAssumption, LenProperties
  <2> QED BY <2>1 DEF Prefixes
<1> QED BY <1>1 DEF Texts

(* A whole utterance is one.                                                *)
LEMMA UtterancesAreTexts ==
  ASSUME NEW u \in Utterances
  PROVE  u \in Texts \cup {<<>>}
<1>1. u \in Seq(STRING) /\ Len(u) \in Nat
  BY VoiceAssumption, LenProperties
<1>2. SubSeq(u, 1, Len(u)) = u
  BY <1>1, SubSeqFull
<1>3. SubSeq(u, 1, Len(u)) \in Texts \cup {<<>>}
  BY <1>1, TextsBegin
<1> QED BY <1>2, <1>3

(* Texts are sequences of words.                                            *)
LEMMA TextsAreSequences == Texts \subseteq Seq(STRING) \ {<<>>}
<1>1. ASSUME NEW u \in Utterances, NEW n \in 0 .. Len(u)
      PROVE  SubSeq(u, 1, n) \in Seq(STRING)
  <2>1. u \in Seq(STRING) /\ Len(u) \in Nat
    BY VoiceAssumption, LenProperties
  <2>2. \A i \in 1 .. n : u[i] \in STRING
    BY <2>1, LenProperties, ElementOfSeq
  <2> QED BY <2>1, <2>2, SubSeqProperties
<1> QED BY <1>1 DEF Texts, Prefixes

(* The quantity of a purchase is what the parser extracts.                  *)
LEMMA BuyExtracts ==
  ASSUME NEW text \in Texts, processCommand[text].category = "buy"
  PROVE  processCommand[text].amount = extractQuantity(text)
<1> DEFINE category == FirstMatch(m_intentTable, text, "unknown")
           goods == resolveGoodsName(text)
<1>1. /\ processCommand[text].category =
           (IF category = "buy" /\ goods = "" THEN "buy_failed" ELSE category)
      /\ processCommand[text].amount =
           CASE category = "buy" -> extractQuantity(text)
             [] category = "recharge" -> extractAmount(text)
             [] OTHER -> 0
  <2> HIDE DEF category, goods
  <2>1. processCommand[text] =
          [category |-> IF category = "buy" /\ goods = "" THEN "buy_failed" ELSE category,
           amount |-> CASE category = "buy" -> extractQuantity(text)
                        [] category = "recharge" -> extractAmount(text)
                        [] OTHER -> 0]
    BY DEF processCommand, category, goods
  <2>2. PICK c, a : /\ c = IF category = "buy" /\ goods = "" THEN "buy_failed" ELSE category
                    /\ a = CASE category = "buy" -> extractQuantity(text)
                              [] category = "recharge" -> extractAmount(text)
                              [] OTHER -> 0
    OBVIOUS
  <2>3. processCommand[text] = [category |-> c, amount |-> a]
    BY <2>1, <2>2
  <2>4. processCommand[text].category = c /\ processCommand[text].amount = a
    BY <2>3
  <2> QED BY <2>2, <2>4
<1> HIDE DEF category, goods
<1>2. category = "buy"
  BY <1>1
<1> QED BY <1>1, <1>2

(* What an execution leaves behind is as it was said.                       *)
LEMMA ExecutedAsSaid ==
  ASSUME NEW text, NEW shots, text \in Texts \cup {<<>>}, Execute(text, shots)
  PROVE  /\ QuantityAsSaid'
         /\ \E t \in Texts :
              command' = [text |-> t, category |-> processCommand[t].category,
                          amount |-> processCommand[t].amount]
<1>1. /\ text \in Texts
      /\ command' = [text |-> text, category |-> processCommand[text].category,
                     amount |-> processCommand[text].amount]
  BY DEF Execute
<1>2. /\ command'.text = text /\ command'.category = processCommand[text].category
      /\ command'.amount = processCommand[text].amount
  BY <1>1
<1>3. QuantityAsSaid'
  <2>1. CASE processCommand[text].category = "buy"
    <3>1. command'.amount = extractQuantity(text) /\ text \in Seq(STRING)
      BY <1>1, <1>2, <2>1, BuyExtracts, TextsAreSequences
    <3> QED BY <1>2, <3>1, QuantityNamed DEF QuantityAsSaid
  <2>2. CASE processCommand[text].category # "buy"
    BY <1>2, <2>2 DEF QuantityAsSaid
  <2> QED BY <2>1, <2>2
<1> QED BY <1>1, <1>3

(* The invariant holds when the window opens ...                            *)
LEMMA VoiceStarts == VoiceInit => VoiceInv
<1> SUFFICES ASSUME VoiceInit PROVE VoiceInv
  OBVIOUS
<1>1. command.category # "buy"
  BY DEF VoiceInit, NoCommand
<1>2. <<>> \in Seq(STRING)
  BY EmptySeq
<1> QED BY <1>1, <1>2 DEF VoiceInit, VoiceInv, QuantityAsSaid, ListeningIsTimed

(* ... and a step that executes nothing keeps the last command's part of it. *)
LEMMA CommandKept ==
  ASSUME VoiceInv, UNCHANGED command
  PROVE  /\ QuantityAsSaid'
         /\ command' = NoCommand \/ \E text \in Texts :
              command' = [text |-> text, category |-> processCommand[text].category,
                          amount |-> processCommand[text].amount]
  BY DEF VoiceInv, QuantityAsSaid

(* Every step keeps it.                                                     *)
LEMMA VoiceStepKeeps == VoiceInv /\ [VoiceNext]_voiceVars => VoiceInv'
<1> SUFFICES ASSUME VoiceInv, [VoiceNext]_voiceVars PROVE VoiceInv'
  OBVIOUS
<1> USE DEF ListeningIsTimed
<1>a. <<>> \in Seq(STRING)
  BY EmptySeq
<1>1. CASE PartialResult
  <2>1. PICK u \in Utterances : \E n \in Len(speaking) + 1 .. Len(u) - 1 :
          IsPrefix(speaking, u) /\ speaking' = SubSeq(u, 1, n) /\ lineEdit_voice' = speaking'
    BY <1>1 DEF PartialResult
  <2>2. PICK n \in Len(speaking) + 1 .. Len(u) - 1 : speaking' = SubSeq(u, 1, n) /\ lineEdit_voice' = speaking'
    BY <2>1
  <2>3. Len(speaking) \in Nat /\ Len(u) \in Nat
    BY VoiceAssumption, LenProperties DEF VoiceInv
  <2>4. n \in Nat /\ n <= Len(u)
    BY <2>2, <2>3
  <2>5. lineEdit_voice' \in Texts \cup {<<>>}
    BY <2>2, <2>4, TextsBegin
  <2>6. speaking' \in Seq(STRING)
    BY <2>2, <2>5, <1>a, TextsAreSequences
  <2> QED BY <1>1, <2>5, <2>6, CommandKept DEF PartialResult, VoiceInv, effects
<1>2. CASE FinalResult
  <2>1. PICK u \in Utterances : lineEdit_voice' = u
    BY <1>2 DEF FinalResult
  <2>2. lineEdit_voice' \in Texts \cup {<<>>}
    BY <2>1, UtterancesAreTexts
  <2> QED BY <1>a, <1>2, <2>2, CommandKept DEF FinalResult, VoiceInv, effects
<1>3. CASE beginVoiceSession
  BY <1>3, CommandKept DEF beginVoiceSession, startVoiceListening, VoiceInv, effects
<1>4. CASE endVoiceSession
  BY <1>a, <1>4, CommandKept
  DEF endVoiceSession, SessionCloses, stopVoiceListening, VoiceInv, effects
<1>5. CASE abortVoiceSession
  BY <1>a, <1>5, CommandKept DEF abortVoiceSession, SessionCloses, stopVoiceListening, VoiceInv
<1>6. ASSUME NEW text \in Texts \cup {<<>>}, NEW shots, Execute(text, shots)
      PROVE  VoiceInv'
  <2>1. m_voiceActive /\ text \in Texts
    BY <1>6 DEF Execute
  <2>2. \/ SessionCloses(shots)
        \/ /\ lineEdit_voice' \in {text, <<>>} /\ m_voiceIdleTimer' = TRUE
           /\ UNCHANGED <<m_voiceActive, m_listening, speaking>>
    BY <1>6 DEF Execute
  <2>3. /\ m_voiceActive' \in BOOLEAN /\ m_voiceIdleTimer' = m_voiceActive'
        /\ m_listening' \in BOOLEAN /\ ListeningIsTimed' /\ speaking' \in Seq(STRING)
        /\ lineEdit_voice' \in Texts \cup {<<>>}
    BY <1>a, <2>1, <2>2 DEF VoiceInv, SessionCloses, stopVoiceListening
  <2> QED BY <1>6, <2>3, ExecutedAsSaid DEF VoiceInv
<1>7. CASE SendShot
  <2>1. CASE Execute(lineEdit_voice, sendShots - 1)
    BY <1>6, <2>1 DEF VoiceInv
  <2>2. CASE UNCHANGED <<voiceSession, lineEdit_voice, boxes, effects, sessions>>
    BY <2>2, CommandKept DEF VoiceInv, voiceSession, effects
  <2> QED BY <1>7, <2>1, <2>2 DEF SendShot
<1>8. CASE SendByHand
  <2>1. CASE Execute(lineEdit_voice, sendShots)
    BY <1>6, <2>1 DEF VoiceInv
  <2>2. ASSUME NEW u \in Utterances, Execute(u, sendShots)
        PROVE  VoiceInv'
    BY <1>6, <2>2, UtterancesAreTexts
  <2> QED BY <1>8, <2>1, <2>2 DEF SendByHand
<1>9. CASE HelpClosed
  BY <1>9, CommandKept DEF HelpClosed, VoiceInv, voiceSession, effects
<1>10. CASE SimulateOpens
  BY <1>10, CommandKept DEF SimulateOpens, VoiceInv, voiceSession, effects
<1>11. CASE SimulateClosed
  <2>1. lineEdit_voice' \in Texts \cup {<<>>}
    BY <1>11, UtterancesAreTexts DEF SimulateClosed, VoiceInv
  <2> QED BY <1>11, <2>1, CommandKept DEF SimulateClosed, VoiceInv, voiceSession, effects
<1>12. CASE UNCHANGED voiceVars
  BY <1>12, CommandKept DEF voiceVars, VoiceInv
<1> QED
  BY <1>1, <1>2, <1>3, <1>4, <1>5, <1>7, <1>8, <1>9, <1>10, <1>11, <1>12 DEF VoiceNext

(* The invariant of the voice session.                                      *)
THEOREM VoiceInvariant == VoiceSpec => []VoiceInv
BY VoiceStarts, VoiceStepKeeps, PTL DEF VoiceSpec

(* Whatever is said, typed or entered: a purchase is of the number named in *)
(* digits before a unit, else of one that is spelled, else of one piece.    *)
THEOREM QuantityHolds == VoiceSpec => []QuantityAsSaid
<1>1. VoiceInv => QuantityAsSaid
  BY DEF VoiceInv
<1> QED BY <1>1, VoiceInvariant, PTL

(* The microphone is held only in a session whose idle timer runs: the       *)
(* safety half of MicrophoneGivenBack.                                      *)
THEOREM ListeningTimed == VoiceSpec => []ListeningIsTimed
<1>1. VoiceInv => ListeningIsTimed
  BY DEF VoiceInv
<1> QED BY <1>1, VoiceInvariant, PTL

-----------------------------------------------------------------------------
(* The parser finds the units that were laid out. *)

(* The bytes of a start code.                                               *)
LEMMA StartCodes ==
  /\ DOMAIN StartCode = {"short", "long"}
  /\ StartCode["short"] = <<0, 0, 1>> /\ StartCode["long"] = <<0, 0, 0, 1>>
BY DEF StartCode

(* The kinds of units.                                                      *)
LEMMA Kinds ==
  DOMAIN Unit = {"sps", "high", "field", "pps", "sei", "aud", "IDR", "I", "P", "lateP", "B", "damaged"}
BY DEF Unit

(* The bytes from o on are those of s.                                      *)
Holds(data, o, s) == o + Len(s) <= Len(data) /\ \A j \in 1 .. Len(s) : data[o + j] = s[j]

(* A start code in the data is found where it stands.                       *)
LEMMA CodeFound ==
  ASSUME NEW data \in Seq(0 .. 255), NEW o \in Nat, NEW c \in DOMAIN StartCode,
         Holds(data, o, StartCode[c])
  PROVE  StartCodeAt(data, o + 1) = Len(StartCode[c]) /\ Len(StartCode[c]) \in {3, 4}
<1>1. PICK n \in Nat : n = Len(data)
  BY LenProperties
<1>2. CASE c = "short"
  <2>1. PICK s : s = StartCode[c]
    OBVIOUS
  <2>2. Len(s) = 3 /\ s[1] = 0 /\ s[2] = 0 /\ s[3] = 1
    BY <1>2, <2>1, StartCodes
  <2>3. o + 3 <= n /\ data[o + 1] = 0 /\ data[o + 2] = 0 /\ data[o + 3] = 1
    BY <1>1, <2>1, <2>2 DEF Holds
  <2>4. data[o + 1 + 1] = 0 /\ data[o + 1 + 2] = 1 /\ o + 1 + 2 <= n
    BY <2>3
  <2> QED BY <1>1, <2>1, <2>2, <2>3, <2>4 DEF StartCodeAt
<1>3. CASE c = "long"
  <2>1. PICK s : s = StartCode[c]
    OBVIOUS
  <2>2. Len(s) = 4 /\ s[1] = 0 /\ s[2] = 0 /\ s[3] = 0 /\ s[4] = 1
    BY <1>3, <2>1, StartCodes
  <2>3. o + 4 <= n /\ data[o + 1] = 0 /\ data[o + 2] = 0 /\ data[o + 3] = 0 /\ data[o + 4] = 1
    BY <1>1, <2>1, <2>2 DEF Holds
  <2>4. /\ data[o + 1 + 1] = 0 /\ data[o + 1 + 2] = 0 /\ data[o + 1 + 3] = 1
        /\ o + 1 + 2 <= n /\ o + 1 + 3 <= n
    BY <2>3
  <2> QED BY <1>1, <2>1, <2>2, <2>3, <2>4 DEF StartCodeAt
<1> QED BY <1>2, <1>3, StartCodes

(* Within a legible unit no start code is found, whatever comes behind it.   *)
LEMMA NoneWithin ==
  ASSUME NEW data \in Seq(0 .. 255), NEW o \in Nat, NEW unit \in Seq(0 .. 255), Holds(data, o, unit),
         unit # <<>>, unit[Len(unit)] # 0, \A j \in DOMAIN unit : StartCodeAt(unit, j) = 0,
         NEW i \in 1 .. Len(unit)
  PROVE  StartCodeAt(data, o + i) = 0
<1>1. PICK n \in Nat, u \in Nat : n = Len(data) /\ u = Len(unit)
  BY LenProperties
<1>2. /\ o + u <= n /\ \A j \in 1 .. u : data[o + j] = unit[j]
      /\ unit[u] # 0 /\ i \in 1 .. u
  BY <1>1 DEF Holds
<1>3. StartCodeAt(unit, i) = 0
  BY <1>1, <1>2, LenProperties
<1>4. CASE i + 3 <= u
  <2>1. /\ data[o + i] = unit[i] /\ data[o + i + 1] = unit[i + 1]
        /\ data[o + i + 2] = unit[i + 2] /\ data[o + i + 3] = unit[i + 3]
    <3>1. i + 1 \in 1 .. u /\ i + 2 \in 1 .. u /\ i + 3 \in 1 .. u
      BY <1>2, <1>4
    <3>2. data[o + (i + 1)] = unit[i + 1] /\ data[o + (i + 2)] = unit[i + 2] /\ data[o + (i + 3)] = unit[i + 3]
      BY <1>2, <3>1
    <3>3. o + (i + 1) = o + i + 1 /\ o + (i + 2) = o + i + 2 /\ o + (i + 3) = o + i + 3
      BY <1>2
    <3> QED BY <1>2, <3>2, <3>3
  <2>2. i + 2 <= u /\ o + i + 2 <= n /\ o + i + 3 <= n
    BY <1>2, <1>4
  <2> QED BY <1>1, <1>3, <1>4, <2>1, <2>2 DEF StartCodeAt
<1>5. CASE i + 2 = u
  <2>1. /\ data[o + i] = unit[i] /\ data[o + i + 1] = unit[i + 1] /\ data[o + i + 2] = unit[i + 2]
    <3>1. i + 1 \in 1 .. u /\ i + 2 \in 1 .. u
      BY <1>2, <1>5
    <3>2. data[o + (i + 1)] = unit[i + 1] /\ data[o + (i + 2)] = unit[i + 2]
      BY <1>2, <3>1
    <3>3. o + (i + 1) = o + i + 1 /\ o + (i + 2) = o + i + 2
      BY <1>2
    <3> QED BY <1>2, <3>2, <3>3
  <2>2. i + 2 <= u /\ ~ (i + 3 <= u) /\ unit[i + 2] # 0
    BY <1>2, <1>5
  <2> QED BY <1>1, <1>3, <2>1, <2>2 DEF StartCodeAt
<1>6. CASE i + 1 = u
  <2>1. data[o + i + 1] # 0
    <3>1. o + i + 1 = o + u
      BY <1>2, <1>6
    <3> QED BY <1>1, <1>2, <3>1
  <2> QED BY <2>1 DEF StartCodeAt
<1>7. CASE i = u
  BY <1>2, <1>7 DEF StartCodeAt
<1> QED BY <1>1, <1>4, <1>5, <1>6, <1>7

(* The search ends at the first start code, or behind the data.             *)
LEMMA FirstFound ==
  ASSUME NEW data \in Seq(0 .. 255), NEW from \in Nat \ {0}, NEW m \in Nat, from <= m, m <= Len(data) + 1,
         \A i \in from .. m - 1 : StartCodeAt(data, i) = 0,
         m = Len(data) + 1 \/ StartCodeAt(data, m) > 0
  PROVE  find_start_code(data, from) = m
<1>1. PICK n \in Nat : n = Len(data)
  BY LenProperties
<1> DEFINE codes == {i \in from .. n : StartCodeAt(data, i) > 0} \cup {n + 1}
<1>2. m \in codes
  BY <1>1
<1>3. \A i \in codes : m <= i
  <2>1. ASSUME NEW i \in from .. n, StartCodeAt(data, i) > 0, i < m
        PROVE  FALSE
    <3>1. i \in from .. m - 1
      BY <2>1
    <3> QED BY <2>1, <3>1
  <2> QED BY <1>1, <2>1
<1>4. find_start_code(data, from) = Min(codes)
  BY <1>1 DEF find_start_code
<1>5. \A k \in codes : (\A i \in codes : k <= i) => k = m
  BY <1>2, <1>3, <1>1
<1> HIDE DEF codes
<1>6. Min(codes) = m
  BY <1>2, <1>3, <1>5 DEF Min
<1> QED BY <1>4, <1>6

(* What UnitsLegible says of one unit.                                      *)
Legible(unit) ==
  /\ unit \in Seq(0 .. 255) /\ unit # <<>> /\ unit[Len(unit)] # 0
  /\ \A j \in DOMAIN unit : StartCodeAt(unit, j) = 0

(* Every unit is legible and is told apart by its bits.                     *)
LEMMA UnitKnown ==
  ASSUME UnitsLegible, NEW k \in DOMAIN Unit
  PROVE  /\ Legible(Unit[k])
         /\ k = "damaged" => Unit[k][1] >= 128
         /\ k # "damaged" => Unit[k][1] < 128 /\ Counter(Unit[k]) = CountedAs[k]
         /\ k \in DOMAIN Sizes =>
              PictureSize(BitsOf(Tail(Unit[k]))) = [width |-> Sizes[k][1], height |-> Sizes[k][2]]
BY DEF UnitsLegible, Legible

(* What a packet is.                                                        *)
LEMMA PacketIs ==
  ASSUME NEW p \in Packets
  PROVE  /\ Len(p) \in Nat \ {0} /\ DOMAIN p = 1 .. Len(p)
         /\ \A i \in 1 .. Len(p) : p[i][1] \in DOMAIN Unit /\ p[i][2] \in DOMAIN StartCode
<1>1. PICK n \in 1 .. PacketUnits : p \in [1 .. n -> (DOMAIN Unit) \X (DOMAIN StartCode)]
  BY DEF Packets
<1>2. n \in Nat \ {0}
  BY ParserAssumption
<1>3. p \in Seq((DOMAIN Unit) \X (DOMAIN StartCode)) /\ Len(p) = n /\ DOMAIN p = 1 .. n
  BY <1>1, <1>2
<1>4. \A i \in 1 .. n : p[i][1] \in DOMAIN Unit /\ p[i][2] \in DOMAIN StartCode
  <2>1. ASSUME NEW i \in 1 .. n
        PROVE  p[i] \in (DOMAIN Unit) \X (DOMAIN StartCode)
    BY <1>1
  <2> QED BY <2>1
<1> QED BY <1>2, <1>3, <1>4

(* The bytes after each unit of a packet.                                   *)
Piece(p, i, before) == before \o StartCode[p[i][2]] \o Unit[p[i][1]]

Laid(p, B) ==
  /\ B \in [0 .. Len(p) -> Seq(0 .. 255)] /\ B[0] = <<>>
  /\ \A i \in 1 .. Len(p) : B[i] = Piece(p, i, B[i - 1])

(* A start code is a sequence of bytes.                                     *)
LEMMA CodeBytes ==
  ASSUME NEW c \in DOMAIN StartCode
  PROVE  StartCode[c] \in Seq(0 .. 255) /\ Len(StartCode[c]) \in {3, 4}
<1>1. CASE c = "short"
  <2>1. <<0, 0, 1>> \in Seq(0 .. 255) /\ Len(<<0, 0, 1>>) = 3
    OBVIOUS
  <2> QED BY <1>1, <2>1, StartCodes
<1>2. CASE c = "long"
  <2>1. <<0, 0, 0, 1>> \in Seq(0 .. 255) /\ Len(<<0, 0, 0, 1>>) = 4
    OBVIOUS
  <2> QED BY <1>2, <2>1, StartCodes
<1> QED BY <1>1, <1>2, StartCodes

(* AnnexB is laid out unit by unit.                                         *)
LEMMA PacketLaid ==
  ASSUME UnitsLegible, NEW p \in Packets
  PROVE  \E B : Laid(p, B) /\ AnnexB[p] = B[Len(p)]
<1>1. PICK n \in Nat : n = Len(p)
  BY PacketIs
<1> DEFINE S == Seq(0 .. 255)
           Rec(f) == f = [i \in 0 .. n |-> IF i = 0 THEN <<>> ELSE Piece(p, i, f[i - 1])]
<1>2. PICK F : F = [q \in (1 .. n) \X S |-> Piece(p, q[1], q[2])]
  OBVIOUS
<1>3. ASSUME NEW i \in 1 .. n
      PROVE  StartCode[p[i][2]] \in S /\ Unit[p[i][1]] \in S
  <2>1. p[i][1] \in DOMAIN Unit /\ p[i][2] \in DOMAIN StartCode
    BY <1>1, PacketIs
  <2> QED BY <2>1, CodeBytes, UnitKnown DEF Legible
<1>4. ASSUME NEW i \in 1 .. n, NEW y \in S
      PROVE  F[<<i, y>>] = Piece(p, i, y) /\ F[<<i, y>>] \in S
  <2>1. F[<<i, y>>] = Piece(p, i, y)
    BY <1>2
  <2>2. y \o StartCode[p[i][2]] \in S
    BY <1>3, ConcatProperties
  <2>3. y \o StartCode[p[i][2]] \o Unit[p[i][1]] \in S
    <3>1. PICK a \in S, b \in S : a = y \o StartCode[p[i][2]] /\ b = Unit[p[i][1]]
      BY <1>3, <2>2
    <3>2. a \o b \in S
      BY ConcatProperties
    <3> QED BY <3>1, <3>2
  <2> QED BY <2>1, <2>3 DEF Piece
<1>5. <<>> \in S
  OBVIOUS
<1>6. PICK g \in [0 .. n -> S] : g[0] = <<>> /\ \A i \in 1 .. n : g[i] = F[<<i, g[i - 1]>>]
  <2>1. StepsWithin(F, S, n)
    BY <1>4 DEF StepsWithin
  <2>2. \E f : Iterated(f, F, <<>>, n, S)
    BY <1>5, <2>1, Iterates
  <2> QED BY <2>2 DEF Iterated
<1>7. \A i \in 1 .. n : g[i] = Piece(p, i, g[i - 1])
  <2>1. ASSUME NEW i \in 1 .. n
        PROVE  g[i - 1] \in S
    <3>1. i - 1 \in 0 .. n
      BY <1>1
    <3> QED BY <1>6, <3>1
  <2> QED BY <1>4, <1>6, <2>1
<1>8. Rec(g)
  <2>1. \A i \in 0 .. n : g[i] = IF i = 0 THEN <<>> ELSE Piece(p, i, g[i - 1])
    BY <1>6, <1>7
  <2> QED BY <1>6, <2>1
<1>9. PICK B : B = CHOOSE f : Rec(f)
  OBVIOUS
<1>10. Rec(B)
  <2> HIDE DEF Rec
  <2> QED BY <1>8, <1>9
<1>11. AnnexB[p] = B[n]
  BY <1>1, <1>9 DEF AnnexB, BytesUpTo, Piece
<1>12. /\ DOMAIN B = 0 .. n /\ B[0] = <<>>
       /\ \A i \in 1 .. n : B[i] = Piece(p, i, B[i - 1])
  <2>1. PICK h : h = [i \in 0 .. n |-> IF i = 0 THEN <<>> ELSE Piece(p, i, B[i - 1])]
    OBVIOUS
  <2>2. B = h
    BY <1>10, <2>1
  <2>3. /\ DOMAIN h = 0 .. n /\ h[0] = <<>>
        /\ \A i \in 1 .. n : h[i] = Piece(p, i, B[i - 1])
    BY <2>1
  <2> QED BY <2>2, <2>3
<1>13. \A i \in 0 .. n : B[i] = g[i]
  <2> DEFINE T == {k \in Nat : k <= n => B[k] = g[k]}
  <2>1. 0 \in T
    BY <1>6, <1>12
  <2>2. ASSUME NEW k \in Nat, k \in T
        PROVE  k + 1 \in T
    <3>1. CASE k + 1 <= n
      <4>1. k + 1 \in 1 .. n /\ (k + 1) - 1 = k /\ B[k] = g[k]
        BY <2>2, <3>1
      <4> QED BY <1>7, <1>12, <4>1
    <3> QED BY <3>1
  <2>3. Nat \subseteq T
    <3> HIDE DEF T
    <3> QED BY <2>1, <2>2, Induction
  <2> QED BY <2>3
<1>14. B = g
  <2>1. DOMAIN B = DOMAIN g
    BY <1>6, <1>12
  <2> QED BY <1>6, <1>10, <1>13
<1> QED BY <1>1, <1>6, <1>11, <1>12, <1>14 DEF Laid

(* What three sequences in a row hold.                                      *)
LEMMA RowHolds ==
  ASSUME NEW a \in Seq(0 .. 255), NEW b \in Seq(0 .. 255), NEW c \in Seq(0 .. 255)
  PROVE  /\ a \o b \o c \in Seq(0 .. 255) /\ Len(a \o b \o c) = Len(a) + Len(b) + Len(c)
         /\ Holds(a \o b \o c, 0, a) /\ Holds(a \o b \o c, Len(a), b)
         /\ Holds(a \o b \o c, Len(a) + Len(b), c)
<1>1. PICK x \in Nat, y \in Nat, z \in Nat : x = Len(a) /\ y = Len(b) /\ z = Len(c)
  BY LenProperties
<1>2. PICK ab \in Seq(0 .. 255) : ab = a \o b
  BY ConcatProperties
<1>3. Len(ab) = x + y /\ \A j \in 1 .. x + y : ab[j] = IF j <= x THEN a[j] ELSE b[j - x]
  BY <1>1, <1>2, ConcatProperties
<1>4. PICK d \in Seq(0 .. 255) : d = ab \o c
  BY ConcatProperties
<1>5. Len(d) = x + y + z /\ \A j \in 1 .. x + y + z : d[j] = IF j <= x + y THEN ab[j] ELSE c[j - (x + y)]
  BY <1>1, <1>3, <1>4, ConcatProperties
<1>6. \A j \in 1 .. x : d[0 + j] = a[j]
  <2>1. ASSUME NEW j \in 1 .. x
        PROVE  d[j] = a[j]
    <3>1. j \in 1 .. x + y + z /\ j \in 1 .. x + y /\ j <= x + y /\ j <= x
      OBVIOUS
    <3> QED BY <1>3, <1>5, <3>1
  <2>2. \A j \in 1 .. x : 0 + j = j
    OBVIOUS
  <2> QED BY <2>1, <2>2
<1>7. \A j \in 1 .. y : d[x + j] = b[j]
  <2>1. ASSUME NEW j \in 1 .. y
        PROVE  d[x + j] = b[j]
    <3>1. x + j \in 1 .. x + y + z /\ x + j \in 1 .. x + y /\ x + j <= x + y /\ ~ (x + j <= x) /\ (x + j) - x = j
      OBVIOUS
    <3> QED BY <1>3, <1>5, <3>1
  <2> QED BY <2>1
<1>8. \A j \in 1 .. z : d[x + y + j] = c[j]
  <2>1. ASSUME NEW j \in 1 .. z
        PROVE  d[x + y + j] = c[j]
    <3>1. x + y + j \in 1 .. x + y + z /\ ~ (x + y + j <= x + y) /\ (x + y + j) - (x + y) = j
      OBVIOUS
    <3> QED BY <1>5, <3>1
  <2> QED BY <2>1
<1>9. Holds(d, 0, a) /\ Holds(d, x, b) /\ Holds(d, x + y, c)
  BY <1>1, <1>5, <1>6, <1>7, <1>8 DEF Holds
<1> QED BY <1>1, <1>2, <1>4, <1>5, <1>9

(* What is held by a beginning of the data is held by the data.             *)
LEMMA HoldsThrough ==
  ASSUME NEW data \in Seq(0 .. 255), NEW d \in Seq(0 .. 255), NEW s \in Seq(0 .. 255), NEW o \in Nat,
         Holds(data, 0, d), Holds(d, o, s)
  PROVE  Holds(data, o, s)
<1>1. PICK n \in Nat, m \in Nat, l \in Nat : n = Len(data) /\ m = Len(d) /\ l = Len(s)
  BY LenProperties
<1>2. /\ m <= n /\ \A j \in 1 .. m : data[0 + j] = d[j]
      /\ o + l <= m /\ \A j \in 1 .. l : d[o + j] = s[j]
  BY <1>1 DEF Holds
<1>3. ASSUME NEW j \in 1 .. l
      PROVE  data[o + j] = s[j]
  <2>1. o + j \in 1 .. m /\ 0 + (o + j) = o + j
    BY <1>2
  <2>2. data[0 + (o + j)] = d[o + j]
    BY <1>2, <2>1
  <2> QED BY <1>2, <2>1, <2>2
<1> QED BY <1>1, <1>2, <1>3 DEF Holds

(* The bytes before a unit, its start code and the unit, in the whole.      *)
LEMMA UnitPlaced ==
  ASSUME UnitsLegible, NEW p \in Packets, NEW B, Laid(p, B), NEW i \in 1 .. Len(p)
  PROVE  /\ B[Len(p)] \in Seq(0 .. 255)
         /\ Len(B[i]) = Len(B[i - 1]) + Len(StartCode[p[i][2]]) + Len(Unit[p[i][1]])
         /\ Len(B[i - 1]) \in Nat /\ Len(B[i]) \in Nat /\ Len(B[i]) <= Len(B[Len(p)])
         /\ Holds(B[Len(p)], Len(B[i - 1]), StartCode[p[i][2]])
         /\ Holds(B[Len(p)], Len(B[i - 1]) + Len(StartCode[p[i][2]]), Unit[p[i][1]])
<1>1. PICK n \in Nat \ {0} : n = Len(p)
  BY PacketIs
<1>2. \A j \in 0 .. n : B[j] \in Seq(0 .. 255)
  BY <1>1 DEF Laid
<1>3. ASSUME NEW j \in 1 .. n
      PROVE  /\ B[j - 1] \in Seq(0 .. 255) /\ B[j] \in Seq(0 .. 255)
             /\ Len(B[j]) = Len(B[j - 1]) + Len(StartCode[p[j][2]]) + Len(Unit[p[j][1]])
             /\ Holds(B[j], 0, B[j - 1]) /\ Holds(B[j], Len(B[j - 1]), StartCode[p[j][2]])
             /\ Holds(B[j], Len(B[j - 1]) + Len(StartCode[p[j][2]]), Unit[p[j][1]])
             /\ StartCode[p[j][2]] \in Seq(0 .. 255) /\ Unit[p[j][1]] \in Seq(0 .. 255)
  <2>1. j - 1 \in 0 .. n /\ j \in 0 .. n
    OBVIOUS
  <2>2. p[j][1] \in DOMAIN Unit /\ p[j][2] \in DOMAIN StartCode
    BY <1>1, PacketIs
  <2>3. PICK a \in Seq(0 .. 255), b \in Seq(0 .. 255), c \in Seq(0 .. 255) :
          a = B[j - 1] /\ b = StartCode[p[j][2]] /\ c = Unit[p[j][1]]
    BY <1>2, <2>1, <2>2, CodeBytes, UnitKnown DEF Legible
  <2>4. B[j] = a \o b \o c
    BY <1>1, <2>3 DEF Laid, Piece
  <2>5. /\ B[j] \in Seq(0 .. 255) /\ Len(B[j]) = Len(a) + Len(b) + Len(c)
        /\ Holds(B[j], 0, a) /\ Holds(B[j], Len(a), b) /\ Holds(B[j], Len(a) + Len(b), c)
    BY <2>4, RowHolds
  <2> QED BY <2>3, <2>5
<1> DEFINE T == {k \in Nat : k <= n => \A j \in 0 .. k : Holds(B[k], 0, B[j])}
<1>4. 0 \in T
  <2>1. B[0] \in Seq(0 .. 255)
    BY <1>2
  <2>2. Holds(B[0], 0, B[0])
    <3>1. PICK l \in Nat : l = Len(B[0])
      BY <2>1, LenProperties
    <3>2. \A j \in 1 .. l : 0 + j = j
      OBVIOUS
    <3> QED BY <3>1, <3>2 DEF Holds
  <2> QED BY <2>2
<1>5. ASSUME NEW k \in Nat, k \in T
      PROVE  k + 1 \in T
  <2>1. SUFFICES ASSUME k + 1 <= n, NEW j \in 0 .. k + 1
                 PROVE  Holds(B[k + 1], 0, B[j])
    OBVIOUS
  <2>2. PICK m \in 1 .. n : m = k + 1 /\ m - 1 = k
    BY <2>1
  <2>3. B[m] \in Seq(0 .. 255) /\ B[m - 1] \in Seq(0 .. 255) /\ Holds(B[m], 0, B[m - 1])
    BY <1>3
  <2>4. CASE j = k + 1
    <3>1. PICK l \in Nat : l = Len(B[m])
      BY <2>3, LenProperties
    <3>2. \A q \in 1 .. l : 0 + q = q
      OBVIOUS
    <3> QED BY <2>2, <2>4, <3>1, <3>2 DEF Holds
  <2>5. CASE j \in 0 .. k
    <3>1. Holds(B[k], 0, B[j]) /\ B[j] \in Seq(0 .. 255)
      BY <1>2, <1>5, <2>1, <2>5
    <3>2. Holds(B[m], 0, B[j])
      BY <2>2, <2>3, <3>1, HoldsThrough
    <3> QED BY <2>2, <3>2
  <2> QED BY <2>4, <2>5
<1>6. Nat \subseteq T
  <2> HIDE DEF T
  <2> QED BY <1>4, <1>5, Induction
<1>7. Holds(B[n], 0, B[i])
  BY <1>1, <1>6
<1>8. B[n] \in Seq(0 .. 255) /\ B[i] \in Seq(0 .. 255)
  BY <1>1, <1>2
<1>9. PICK l \in Nat, c \in Nat : l = Len(B[i - 1]) /\ c = Len(StartCode[p[i][2]])
  BY <1>1, <1>3, LenProperties
<1>10. Len(B[i]) <= Len(B[n]) /\ Len(B[i]) \in Nat
  <2>1. 0 + Len(B[i]) <= Len(B[n])
    BY <1>7 DEF Holds
  <2>2. Len(B[i]) \in Nat /\ Len(B[n]) \in Nat
    BY <1>8, LenProperties
  <2> QED BY <2>1, <2>2
<1>11. Holds(B[n], l, StartCode[p[i][2]]) /\ Holds(B[n], l + c, Unit[p[i][1]])
  <2>1. /\ Holds(B[i], l, StartCode[p[i][2]]) /\ Holds(B[i], l + c, Unit[p[i][1]])
        /\ StartCode[p[i][2]] \in Seq(0 .. 255) /\ Unit[p[i][1]] \in Seq(0 .. 255)
    BY <1>1, <1>3, <1>9
  <2>2. l + c \in Nat
    OBVIOUS
  <2> QED BY <1>7, <1>8, <2>1, <2>2, HoldsThrough
<1> QED BY <1>1, <1>3, <1>8, <1>9, <1>10, <1>11

(* A piece of the data that is held is cut out of it.                       *)
HoldsLong(data, o, s, l) == l = Len(s) /\ Holds(data, o, s)

LEMMA HeldCut ==
  ASSUME NEW data \in Seq(0 .. 255), NEW o \in Nat, NEW s \in Seq(0 .. 255), NEW l \in Nat,
         HoldsLong(data, o, s, l)
  PROVE  SubSeq(data, o + 1, o + l) = s
<1>1. PICK n \in Nat : n = Len(data)
  BY LenProperties
<1>2. o + l <= n /\ l = Len(s) /\ \A j \in 1 .. l : data[o + j] = s[j]
  BY <1>1 DEF HoldsLong, Holds
<1>3. PICK a \in Int, b \in Int : a = o + 1 /\ b = o + l
  OBVIOUS
<1>4. PICK t : t = SubSeq(data, a, b)
  OBVIOUS
<1>5. \A j \in a .. b : data[j] \in 0 .. 255
  <2>1. \A j \in a .. b : j \in 1 .. n
    BY <1>2, <1>3
  <2> QED BY <1>1, <2>1, ElementOfSeq
<1>6. /\ SubSeq(data, a, b) \in Seq(0 .. 255)
      /\ Len(SubSeq(data, a, b)) = IF a <= b THEN b - a + 1 ELSE 0
      /\ \A j \in 1 .. b - a + 1 : SubSeq(data, a, b)[j] = data[a + j - 1]
  BY <1>5, SubSeqProperties
<1>7. b - a + 1 = l /\ (a <= b <=> l > 0) /\ \A j \in 1 .. l : a + j - 1 = o + j
  BY <1>3
<1>8. t \in Seq(0 .. 255) /\ Len(t) = l /\ \A j \in 1 .. l : t[j] = data[o + j]
  <2>1. t \in Seq(0 .. 255) /\ Len(t) = IF a <= b THEN l ELSE 0
    BY <1>4, <1>6, <1>7
  <2>2. \A j \in 1 .. l : t[j] = data[a + j - 1]
    BY <1>4, <1>6, <1>7
  <2>3. (IF a <= b THEN l ELSE 0) = l
    BY <1>7
  <2> QED BY <1>7, <2>1, <2>2, <2>3
<1>9. \A j \in 1 .. l : t[j] = s[j]
  BY <1>2, <1>8
<1>10. t = s
  BY <1>2, <1>8, <1>9, SeqEqual
<1> QED BY <1>3, <1>4, <1>10

(* What is kept of a packet: every unit but the damaged ones.               *)
AfterUnit(p, i, nalus) ==
  IF p[i][1] = "damaged" THEN nalus ELSE Append(nalus, Unit[p[i][1]])

(* Where a unit stands in the data: its code from o, its bytes from b to e. *)
Stands(data, unit, o, b, c, e, u, N) ==
  /\ u = Len(unit) /\ N = Len(data) /\ b = o + c /\ e = b + u /\ e <= N
  /\ Holds(data, b, unit) /\ StartCodeAt(data, o + 1) = c
  /\ e = N \/ StartCodeAt(data, e + 1) > 0

(* The state of the loop with so many bytes behind it.                      *)
Behind(at, nalus) == [offset |-> at + 1, nalus |-> nalus]

WithUnit(unit, nalus) == IF unit[1] >= 128 THEN nalus ELSE Append(nalus, unit)

(* A round that starts at a unit's start code cuts out the unit.            *)
LEMMA RoundCuts ==
  ASSUME NEW data \in Seq(0 .. 255), NEW unit \in Seq(0 .. 255), Legible(unit), NEW nalus,
         NEW o \in Nat, NEW b \in Nat, NEW c \in {3, 4}, NEW e \in Nat, NEW N \in Nat,
         NEW u \in Nat, Stands(data, unit, o, b, c, e, u, N)
  PROVE  FeedRound(data, Behind(o, nalus)) = Behind(e, WithUnit(unit, nalus))
<1>1. u # 0
  BY EmptySeq DEF Legible, Stands
<1>2. u > 0 /\ o < N /\ b < e /\ b = o + c /\ e = b + u /\ e <= N
  BY <1>1 DEF Stands
<1>3. find_start_code(data, o + 1) = o + 1
  <2>1. PICK m \in Nat \ {0} : m = o + 1
    OBVIOUS
  <2>2. m <= N + 1 /\ \A q \in m .. m - 1 : StartCodeAt(data, q) = 0
    BY <1>2, <2>1
  <2>3. StartCodeAt(data, m) > 0 /\ N = Len(data)
    BY <2>1 DEF Stands
  <2> QED BY <2>1, <2>2, <2>3, FirstFound
<1>4. find_start_code(data, b + 1) = e + 1
  <2>1. ASSUME NEW q \in b + 1 .. e
        PROVE  StartCodeAt(data, q) = 0
    <3>1. PICK j \in 1 .. u : q = b + j
      <4>1. q - b \in 1 .. u /\ q = b + (q - b)
        BY <1>2
      <4> QED BY <4>1
    <3>2. /\ unit # <<>> /\ unit[Len(unit)] # 0
          /\ \A i \in DOMAIN unit : StartCodeAt(unit, i) = 0
      BY DEF Legible
    <3>3. j \in 1 .. Len(unit) /\ Holds(data, b, unit)
      BY DEF Stands
    <3>4. StartCodeAt(data, b + j) = 0
      BY <3>2, <3>3, NoneWithin
    <3> QED BY <3>1, <3>4
  <2>2. PICK f \in Nat, m \in Nat : f = b + 1 /\ m = e + 1
    OBVIOUS
  <2>3. f # 0 /\ f <= m /\ m <= N + 1 /\ m - 1 = e
    BY <1>2, <2>2
  <2>4. \A q \in f .. m - 1 : StartCodeAt(data, q) = 0
    BY <2>1, <2>2, <2>3
  <2>5. N = Len(data) /\ (m = N + 1 \/ StartCodeAt(data, m) > 0)
    BY <2>2 DEF Stands
  <2> QED BY <2>2, <2>3, <2>5, <2>4, FirstFound
<1>5. SubSeq(data, b + 1, b + u) = unit
  <2>1. HoldsLong(data, b, unit, u)
    BY DEF Stands, HoldsLong
  <2> QED BY <2>1, HeldCut
<1>6. PICK st : st = Behind(o, nalus)
  OBVIOUS
<1>7. st.offset = o + 1 /\ st.nalus = nalus
  BY <1>6 DEF Behind
<1>8. o + 1 + c = b + 1 /\ e + 1 - 1 = b + u /\ ~ (o + 1 > N)
  BY <1>2
<1>9. PICK code, begin, next, nalu :
        /\ code = find_start_code(data, st.offset) /\ begin = code + StartCodeAt(data, code)
        /\ next = find_start_code(data, begin) /\ nalu = SubSeq(data, begin, next - 1)
  OBVIOUS
<1>10. FeedRound(data, st)
       = IF code > Len(data) THEN st
         ELSE IF nalu = <<>> THEN [st EXCEPT !.offset = begin]
         ELSE [offset |-> next,
               nalus |-> IF nalu[1] >= 128 THEN st.nalus ELSE Append(st.nalus, nalu)]
  BY <1>9 DEF FeedRound
<1>11. code = o + 1 /\ StartCodeAt(data, o + 1) = c /\ N = Len(data)
  BY <1>3, <1>7, <1>9 DEF Stands
<1>12. begin = b + 1
  BY <1>8, <1>9, <1>11
<1>13. next = e + 1
  BY <1>4, <1>9, <1>12
<1>14. nalu = unit
  <2>1. next - 1 = b + u
    BY <1>8, <1>13
  <2> QED BY <1>5, <1>9, <1>12, <2>1
<1>15. ~ (code > Len(data)) /\ nalu # <<>>
  BY <1>8, <1>11, <1>14 DEF Legible
<1> QED BY <1>6, <1>7, <1>10, <1>13, <1>14, <1>15 DEF Behind, WithUnit

(* A round of the loop cuts out the next unit and stops behind it.          *)
LEMMA UnitCut ==
  ASSUME UnitsLegible, NEW p \in Packets, NEW B, Laid(p, B), NEW i \in 1 .. Len(p), NEW nalus
  PROVE  FeedRound(B[Len(p)], Behind(Len(B[i - 1]), nalus)) = Behind(Len(B[i]), AfterUnit(p, i, nalus))
<1>1. PICK n \in Nat \ {0} : n = Len(p)
  BY PacketIs
<1>2. p[i][1] \in DOMAIN Unit /\ p[i][2] \in DOMAIN StartCode
  BY <1>1, PacketIs
<1>3. PICK data \in Seq(0 .. 255), unit \in Seq(0 .. 255) :
        data = B[Len(p)] /\ unit = Unit[p[i][1]] /\ Legible(unit)
  BY <1>2, UnitPlaced, UnitKnown DEF Legible
<1>4. PICK c \in {3, 4} : c = Len(StartCode[p[i][2]])
  BY <1>2, CodeBytes
<1>5. PICK o \in Nat, e \in Nat, N \in Nat :
        o = Len(B[i - 1]) /\ e = Len(B[i]) /\ N = Len(data)
  BY LenProperties, UnitPlaced
<1>6. PICK b \in Nat : b = o + c
  OBVIOUS
<1>7. PICK u \in Nat : u = Len(unit)
  BY LenProperties
<1>8. e = b + u /\ e <= N /\ Holds(data, b, unit)
  BY <1>3, <1>4, <1>5, <1>6, <1>7, UnitPlaced
<1>9. StartCodeAt(data, o + 1) = c
  <2>1. Holds(data, o, StartCode[p[i][2]])
    BY <1>3, <1>5, UnitPlaced
  <2> QED BY <1>2, <1>4, <2>1, CodeFound
<1>10. e = N \/ StartCodeAt(data, e + 1) > 0
  <2>1. CASE i = n
    BY <1>1, <1>3, <1>5, <2>1
  <2>2. CASE i < n
    <3>1. PICK k \in 1 .. Len(p) : k = i + 1 /\ k - 1 = i
      BY <1>1, <2>2
    <3>2. p[k][2] \in DOMAIN StartCode
      BY <1>1, PacketIs
    <3>3. Holds(data, e, StartCode[p[k][2]])
      BY <1>3, <1>5, <3>1, UnitPlaced
    <3>4. StartCodeAt(data, e + 1) \in {3, 4}
      BY <3>2, <3>3, CodeFound
    <3> QED BY <3>4
  <2> QED BY <1>1, <2>1, <2>2
<1>11. unit[1] >= 128 <=> p[i][1] = "damaged"
  <2>1. PICK b1 \in 0 .. 255 : b1 = unit[1]
    <3>1. unit # <<>>
      BY <1>3 DEF Legible
    <3>2. 1 \in 1 .. Len(unit)
      BY <3>1, EmptySeq, LenProperties
    <3> QED BY <3>2, ElementOfSeq
  <2>2. /\ p[i][1] = "damaged" => b1 >= 128
        /\ p[i][1] # "damaged" => b1 < 128
    BY <1>2, <1>3, <2>1, UnitKnown
  <2>3. ~ (b1 >= 128 /\ b1 < 128)
    OBVIOUS
  <2>4. b1 >= 128 <=> p[i][1] = "damaged"
    BY <2>2, <2>3
  <2> QED BY <2>1, <2>4
<1>12. FeedRound(data, Behind(o, nalus)) = Behind(e, WithUnit(unit, nalus))
  <2>1. Stands(data, unit, o, b, c, e, u, N)
    BY <1>5, <1>6, <1>8, <1>9, <1>10, <1>7 DEF Stands
  <2>2. Legible(unit)
    BY <1>3
  <2> QED BY <2>1, <2>2, RoundCuts
<1>13. AfterUnit(p, i, nalus) = WithUnit(unit, nalus)
  BY <1>3, <1>11 DEF AfterUnit, WithUnit
<1> QED BY <1>3, <1>5, <1>12, <1>13

(* Behind the data a round changes nothing.                                 *)
LEMMA RoundBehind ==
  ASSUME NEW data \in Seq(0 .. 255), NEW st, st.offset = Len(data) + 1
  PROVE  FeedRound(data, st) = st
<1>1. PICK n \in Nat : n = Len(data)
  BY LenProperties
<1>2. find_start_code(data, n + 1) = n + 1
  <2>1. n + 1 \in Nat \ {0} /\ n + 1 <= n + 1 /\ \A q \in n + 1 .. (n + 1) - 1 : StartCodeAt(data, q) = 0
    OBVIOUS
  <2> QED BY <1>1, <2>1, FirstFound
<1>3. n + 1 > n
  OBVIOUS
<1> QED BY <1>1, <1>2, <1>3 DEF FeedRound

(* The units kept after each unit of a packet.                              *)
Kept(p, K) ==
  /\ DOMAIN K = 0 .. Len(p) /\ K[0] = <<>>
  /\ \A i \in 1 .. Len(p) : K[i] = AfterUnit(p, i, K[i - 1])

(* The loop of h264_parser_feed finds the units that were laid out.         *)
LEMMA UnitsFound ==
  ASSUME UnitsLegible, NEW p \in Packets, NEW K, Kept(p, K)
  PROVE  Nalus(AnnexB[p]) = K[Len(p)]
<1>1. PICK B : Laid(p, B) /\ AnnexB[p] = B[Len(p)]
  BY PacketLaid
<1>2. PICK n \in Nat \ {0} : n = Len(p)
  BY PacketIs
<1>3. PICK data \in Seq(0 .. 255) : data = AnnexB[p] /\ data = B[n]
  BY <1>1, <1>2 DEF Laid
<1>4. PICK N \in Nat : N = Len(data)
  BY LenProperties
<1>5. PICK L : L = [i \in 0 .. n |-> Len(B[i])]
  OBVIOUS
<1>6. L[0] = 0 /\ L[n] = N /\ \A i \in 0 .. n : L[i] \in Nat /\ L[i] = Len(B[i])
  <2>1. \A i \in 0 .. n : B[i] \in Seq(0 .. 255)
    BY <1>1, <1>2 DEF Laid
  <2>2. \A i \in 0 .. n : Len(B[i]) \in Nat
    BY <2>1, LenProperties
  <2>3. B[0] = <<>> /\ Len(<<>>) = 0
    BY <1>1 DEF Laid
  <2> QED BY <1>3, <1>4, <1>5, <2>2, <2>3
<1>7. \A i \in 1 .. n : L[i] > L[i - 1]
  <2>1. ASSUME NEW i \in 1 .. n
        PROVE  L[i] > L[i - 1]
    <3>1. i \in 1 .. Len(p) /\ i - 1 \in 0 .. n /\ i \in 0 .. n
      BY <1>2
    <3>2. PICK a \in Nat, b \in Nat, c \in Nat, u \in Nat :
            a = L[i - 1] /\ b = L[i] /\ c = Len(StartCode[p[i][2]]) /\ u = Len(Unit[p[i][1]])
      <4>1. Unit[p[i][1]] \in Seq(0 .. 255)
        BY <3>1, PacketIs, UnitKnown DEF Legible
      <4>2. Len(Unit[p[i][1]]) \in Nat
        BY <4>1, LenProperties
      <4>3. Len(StartCode[p[i][2]]) \in Nat
        BY <3>1, PacketIs, CodeBytes
      <4> QED BY <1>6, <3>1, <4>2, <4>3
    <3>3. c \in {3, 4}
      BY <3>1, <3>2, PacketIs, CodeBytes
    <3>4. Len(B[i]) = Len(B[i - 1]) + Len(StartCode[p[i][2]]) + Len(Unit[p[i][1]])
      BY <1>1, <3>1, UnitPlaced
    <3>5. b = a + c + u
      BY <1>6, <3>1, <3>2, <3>4
    <3>6. b > a
      BY <3>3, <3>5
    <3> QED BY <3>2, <3>6
  <2> QED BY <2>1
<1>8. n <= N
  <2> DEFINE T == {k \in Nat : k <= n => k <= L[k]}
  <2>1. 0 \in T
    BY <1>6
  <2>2. ASSUME NEW k \in Nat, k \in T
        PROVE  k + 1 \in T
    <3>1. CASE k + 1 <= n
      <4>1. k + 1 \in 1 .. n /\ (k + 1) - 1 = k /\ k \in 0 .. n /\ k + 1 \in 0 .. n /\ k <= L[k]
        BY <2>2, <3>1
      <4>2. PICK a \in Nat, b \in Nat : a = L[k] /\ b = L[k + 1]
        BY <1>6, <4>1
      <4>3. b > a
        BY <1>7, <4>1, <4>2
      <4> QED BY <4>1, <4>2, <4>3
    <3> QED BY <3>1
  <2>3. Nat \subseteq T
    <3> HIDE DEF T
    <3> QED BY <2>1, <2>2, Induction
  <2> QED BY <1>6, <2>3
<1> DEFINE At(i) == Behind(L[i], K[i])
           Rec(f) == f = [j \in 0 .. N |-> IF j = 0 THEN [offset |-> 1, nalus |-> <<>>]
                                           ELSE FeedRound(data, f[j - 1])]
<1>9. PICK R : R = [j \in 0 .. N |-> IF j <= n THEN At(j) ELSE At(n)]
  OBVIOUS
<1>10. ASSUME NEW j \in 0 .. N
       PROVE  R[j] = IF j = 0 THEN [offset |-> 1, nalus |-> <<>>] ELSE FeedRound(data, R[j - 1])
  <2>1. CASE j = 0
    <3>1. R[0] = At(0)
      BY <1>9
    <3>2. At(0) = [offset |-> 1, nalus |-> <<>>]
      <4>1. L[0] + 1 = 1 /\ K[0] = <<>>
        BY <1>6 DEF Kept
      <4> QED BY <4>1 DEF Behind
    <3> QED BY <2>1, <3>1, <3>2
  <2>2. CASE j \in 1 .. n
    <3>1. R[j] = At(j) /\ R[j - 1] = At(j - 1) /\ j # 0
      BY <1>9, <2>2
    <3>2. FeedRound(B[Len(p)], Behind(Len(B[j - 1]), K[j - 1]))
          = Behind(Len(B[j]), AfterUnit(p, j, K[j - 1]))
      BY <1>1, <1>2, <2>2, UnitCut
    <3>3. L[j - 1] = Len(B[j - 1]) /\ L[j] = Len(B[j]) /\ K[j] = AfterUnit(p, j, K[j - 1])
      BY <1>2, <1>6, <2>2 DEF Kept
    <3> QED BY <1>2, <1>3, <3>1, <3>2, <3>3
  <2>3. CASE j > n
    <3>1. R[j] = At(n) /\ R[j - 1] = At(n) /\ j # 0
      BY <1>9, <2>3
    <3>2. PICK st : st = At(n)
      OBVIOUS
    <3>3. st.offset = Len(data) + 1
      BY <1>4, <1>6, <3>2 DEF Behind
    <3>4. FeedRound(data, st) = st
      BY <3>3, RoundBehind
    <3> QED BY <3>1, <3>2, <3>4
  <2> QED BY <2>1, <2>2, <2>3
<1>11. Rec(R)
  BY <1>9, <1>10
<1>12. PICK f : f = CHOOSE g : Rec(g)
  OBVIOUS
<1>13. Rec(f)
  <2> HIDE DEF Rec
  <2> QED BY <1>11, <1>12
<1>14. Nalus(data) = f[N].nalus
  BY <1>4, <1>12 DEF Nalus
<1>15. f[N] = R[N]
  <2> DEFINE T == {k \in Nat : k <= N => f[k] = R[k]}
  <2>1. 0 \in T
    BY <1>10, <1>13
  <2>2. ASSUME NEW k \in Nat, k \in T
        PROVE  k + 1 \in T
    <3>1. CASE k + 1 <= N
      <4>1. PICK j \in 0 .. N : j = k + 1 /\ j # 0 /\ j - 1 = k
        BY <3>1
      <4>2. f[k] = R[k]
        BY <2>2, <3>1
      <4>3. f[j] = FeedRound(data, f[j - 1])
        BY <1>13, <4>1
      <4>4. R[j] = FeedRound(data, R[j - 1])
        BY <1>10, <4>1
      <4> QED BY <4>1, <4>2, <4>3, <4>4
    <3> QED BY <3>1
  <2>3. Nat \subseteq T
    <3> HIDE DEF T
    <3> QED BY <2>1, <2>2, Induction
  <2> QED BY <2>3
<1>16. R[N] = At(n)
  BY <1>8, <1>9
<1>17. f[N].nalus = K[n]
  BY <1>15, <1>16 DEF Behind
<1> QED BY <1>2, <1>3, <1>14, <1>17

-----------------------------------------------------------------------------
(* What is counted. *)

(* A loop over a sequence of units runs once for each of them.              *)
ParseRun(ctx, read, f) ==
  /\ ParseAll(ctx, read) = f[Len(read)] /\ f[0] = ctx
  /\ \A i \in 1 .. Len(read) : f[i] = ParseNalu(f[i - 1], read[i])

(* Such a run exists.                                                       *)
LEMMA ParseRuns ==
  ASSUME NEW ctx, NEW read, Len(read) \in Nat
  PROVE  \E f : ParseRun(ctx, read, f)
<1> DEFINE Rec(f, k) == f = [i \in 0 .. k |-> IF i = 0 THEN ctx ELSE ParseNalu(f[i - 1], read[i])]
           T == {k \in Nat : \E f : Rec(f, k)}
<1>1. 0 \in T
  <2>1. PICK f : f = [i \in 0 .. 0 |-> ctx]
    OBVIOUS
  <2>2. Rec(f, 0)
    BY <2>1
  <2> QED BY <2>2
<1>2. ASSUME NEW k \in Nat, k \in T
      PROVE  k + 1 \in T
  <2>1. PICK f : Rec(f, k)
    BY <1>2
  <2>2. PICK g : g = [i \in 0 .. (k + 1) |-> IF i = k + 1 THEN ParseNalu(f[k], read[k + 1]) ELSE f[i]]
    OBVIOUS
  <2>3. ASSUME NEW i \in 0 .. (k + 1)
        PROVE  g[i] = IF i = 0 THEN ctx ELSE ParseNalu(g[i - 1], read[i])
    <3>1. CASE i = k + 1
      <4>1. g[i] = ParseNalu(f[k], read[i]) /\ g[i - 1] = f[k] /\ i # 0
        BY <2>2, <3>1
      <4> QED BY <4>1
    <3>2. CASE i = 0
      BY <2>1, <2>2, <3>2
    <3>3. CASE i \in 1 .. k
      <4>1. g[i] = f[i] /\ g[i - 1] = f[i - 1] /\ i # 0
        BY <2>2, <3>3
      <4>2. f[i] = ParseNalu(f[i - 1], read[i])
        BY <2>1, <3>3
      <4> QED BY <4>1, <4>2
    <3> QED BY <3>1, <3>2, <3>3
  <2>4. Rec(g, k + 1)
    BY <2>2, <2>3
  <2> HIDE DEF Rec
  <2>5. \E h : Rec(h, k + 1)
    BY <2>4
  <2> QED BY <2>5
<1>3. PICK n \in Nat : n = Len(read)
  OBVIOUS
<1>4. \E f : Rec(f, n)
  <2> HIDE DEF T
  <2>1. Nat \subseteq T
    BY <1>1, <1>2, Induction
  <2>2. n \in T
    BY <2>1
  <2> QED BY <2>2 DEF T
<1>5. PICK f : f = CHOOSE g : Rec(g, n)
  OBVIOUS
<1>6. Rec(f, n)
  <2> HIDE DEF Rec
  <2> QED BY <1>4, <1>5
<1>7. ParseAll(ctx, read) = f[n]
  BY <1>3, <1>5 DEF ParseAll
<1>8. f[0] = ctx /\ \A i \in 1 .. n : f[i] = ParseNalu(f[i - 1], read[i])
  <2>1. PICK g : g = [i \in 0 .. n |-> IF i = 0 THEN ctx ELSE ParseNalu(f[i - 1], read[i])]
    OBVIOUS
  <2>2. g[0] = ctx /\ \A i \in 1 .. n : g[i] = ParseNalu(f[i - 1], read[i])
    BY <2>1
  <2> QED BY <1>6, <2>1, <2>2
<1>9. ParseRun(ctx, read, f)
  BY <1>3, <1>7, <1>8 DEF ParseRun
<1> QED BY <1>9

(* One more unit is one more round.                                         *)
LEMMA ParseOneMore ==
  ASSUME NEW ctx, NEW S, NEW read \in Seq(S), NEW unit \in S
  PROVE  /\ ParseAll(ctx, <<>>) = ctx
         /\ ParseAll(ctx, Append(read, unit)) = ParseNalu(ParseAll(ctx, read), unit)
<1>1. ParseAll(ctx, <<>>) = ctx
  <2>1. Len(<<>>) = 0
    OBVIOUS
  <2>2. PICK f : ParseAll(ctx, <<>>) = f[Len(<<>>)] /\ f[0] = ctx
    BY <2>1, ParseRuns DEF ParseRun
  <2> QED BY <2>1, <2>2
<1>2. PICK more \in Seq(S) : more = Append(read, unit)
  BY AppendProperties
<1>3. PICK n \in Nat : n = Len(read)
  BY LenProperties
<1>4. Len(more) = n + 1 /\ more[n + 1] = unit /\ \A i \in 1 .. n : more[i] = read[i]
  BY <1>2, <1>3, AppendProperties
<1>5. PICK f : /\ ParseAll(ctx, read) = f[n] /\ f[0] = ctx
               /\ \A i \in 1 .. n : f[i] = ParseNalu(f[i - 1], read[i])
  <2>1. \E f : ParseRun(ctx, read, f)
    BY <1>3, ParseRuns
  <2> QED BY <1>3, <2>1 DEF ParseRun
<1>6. PICK g : /\ ParseAll(ctx, more) = g[n + 1] /\ g[0] = ctx
               /\ \A i \in 1 .. n + 1 : g[i] = ParseNalu(g[i - 1], more[i])
  <2>1. Len(more) \in Nat
    BY <1>4
  <2>2. \E g : ParseRun(ctx, more, g)
    BY <2>1, ParseRuns
  <2> QED BY <1>4, <2>2 DEF ParseRun
<1>7. g[n] = f[n]
  <2> DEFINE T == {k \in Nat : k <= n => g[k] = f[k]}
  <2>1. 0 \in T
    BY <1>5, <1>6
  <2>2. ASSUME NEW k \in Nat, k \in T
        PROVE  k + 1 \in T
    <3>1. CASE k + 1 <= n
      <4>1. PICK i \in 1 .. n : i = k + 1 /\ i - 1 = k
        BY <3>1
      <4>2. g[k] = f[k]
        BY <2>2, <3>1
      <4>3. i \in 1 .. n + 1
        OBVIOUS
      <4>4. g[i] = ParseNalu(g[k], more[i]) /\ f[i] = ParseNalu(f[k], read[i])
        BY <1>5, <1>6, <4>1, <4>3
      <4>5. more[i] = read[i]
        BY <1>4
      <4> QED BY <4>1, <4>2, <4>4, <4>5
    <3> QED BY <3>1
  <2>3. Nat \subseteq T
    <3> HIDE DEF T
    <3> QED BY <2>1, <2>2, Induction
  <2> QED BY <2>3
<1>8. g[n + 1] = ParseNalu(g[n], more[n + 1])
  <2>1. n + 1 \in 1 .. n + 1 /\ (n + 1) - 1 = n
    OBVIOUS
  <2> QED BY <1>6, <2>1
<1> QED BY <1>1, <1>2, <1>4, <1>5, <1>6, <1>7, <1>8

(* The kinds that each counter counts.                                      *)
CountKinds ==
  [sps_count |-> DOMAIN Sizes, pps_count |-> {"pps"}, idr_count |-> {"IDR"}, i_count |-> {"I"},
   p_count |-> {"P", "lateP"}, b_count |-> {"B"}, sei_count |-> {"sei"}]

Counters == {"sps_count", "pps_count", "idr_count", "i_count", "p_count", "b_count", "sei_count"}

Fields ==
  Counters \cup {"total_nalus", "none", "min_gop_size", "max_gop_size", "width", "height"}

(* A counter counts a unit exactly if the unit is of its kinds.             *)
LEMMA KindsCounted ==
  ASSUME NEW k \in DOMAIN Unit \ {"damaged"}
  PROVE  /\ CountedAs[k] \in Counters \cup {"none"}
         /\ \A x \in Counters : CountedAs[k] = x <=> k \in CountKinds[x]
         /\ CountedAs[k] = "sps_count" <=> k \in DOMAIN Sizes
<1>1. DOMAIN Sizes = {"sps", "high", "field"}
  BY DEF Sizes
<1>2. /\ CountKinds["sps_count"] = {"sps", "high", "field"} /\ CountKinds["pps_count"] = {"pps"}
      /\ CountKinds["idr_count"] = {"IDR"} /\ CountKinds["i_count"] = {"I"}
      /\ CountKinds["p_count"] = {"P", "lateP"} /\ CountKinds["b_count"] = {"B"}
      /\ CountKinds["sei_count"] = {"sei"}
  BY <1>1 DEF CountKinds
<1>3. k \in {"sps", "high", "field", "pps", "sei", "aud", "IDR", "I", "P", "lateP", "B"}
  BY Kinds
<1>4. CASE k \in {"sps", "high", "field"}
  <2>1. CountedAs[k] = "sps_count"
    BY <1>4 DEF CountedAs
  <2> QED BY <1>1, <1>2, <1>4, <2>1 DEF Counters
<1>5. CASE k \in {"P", "lateP"}
  <2>1. CountedAs[k] = "p_count"
    BY <1>5 DEF CountedAs
  <2> QED BY <1>1, <1>2, <1>5, <2>1 DEF Counters
<1>6. CASE k = "pps"
  <2>1. CountedAs[k] = "pps_count"
    BY <1>6 DEF CountedAs
  <2> QED BY <1>1, <1>2, <1>6, <2>1 DEF Counters
<1>7. CASE k = "sei"
  <2>1. CountedAs[k] = "sei_count"
    BY <1>7 DEF CountedAs
  <2> QED BY <1>1, <1>2, <1>7, <2>1 DEF Counters
<1>8. CASE k = "aud"
  <2>1. CountedAs[k] = "none"
    BY <1>8 DEF CountedAs
  <2> QED BY <1>1, <1>2, <1>8, <2>1 DEF Counters
<1>9. CASE k = "IDR"
  <2>1. CountedAs[k] = "idr_count"
    BY <1>9 DEF CountedAs
  <2> QED BY <1>1, <1>2, <1>9, <2>1 DEF Counters
<1>10. CASE k = "I"
  <2>1. CountedAs[k] = "i_count"
    BY <1>10 DEF CountedAs
  <2> QED BY <1>1, <1>2, <1>10, <2>1 DEF Counters
<1>11. CASE k = "B"
  <2>1. CountedAs[k] = "b_count"
    BY <1>11 DEF CountedAs
  <2> QED BY <1>1, <1>2, <1>11, <2>1 DEF Counters
<1> QED BY <1>3, <1>4, <1>5, <1>6, <1>7, <1>8, <1>9, <1>10, <1>11

(* One unit more is one more of its kinds and of no other.                  *)
LEMMA FedOneMore ==
  ASSUME NEW fed \in Seq(DOMAIN Unit), NEW k \in DOMAIN Unit, NEW kinds
  PROVE  /\ Fed(fed, kinds) \in Nat
         /\ Fed(Append(fed, k), kinds) = Fed(fed, kinds) + (IF k \in kinds THEN 1 ELSE 0)
<1>1. PICK n \in Nat : n = Len(fed) /\ DOMAIN fed = 1 .. n
  BY LenProperties
<1>2. PICK more : more = Append(fed, k)
  OBVIOUS
<1>3. DOMAIN more = 1 .. n + 1 /\ more[n + 1] = k /\ \A i \in 1 .. n : more[i] = fed[i]
  <2>1. /\ Append(fed, k) \in Seq(DOMAIN Unit) /\ Len(Append(fed, k)) = Len(fed) + 1
        /\ \A i \in 1 .. Len(fed) : Append(fed, k)[i] = fed[i]
        /\ Append(fed, k)[Len(fed) + 1] = k
    BY AppendProperties
  <2>2. DOMAIN more = 1 .. Len(more)
    BY <1>2, <2>1, LenProperties
  <2> QED BY <1>1, <1>2, <2>1, <2>2
<1>4. PICK old : old = {i \in DOMAIN fed : fed[i] \in kinds}
  OBVIOUS
<1>5. IsFiniteSet(old) /\ n + 1 \notin old
  <2>1. PICK all : all = 1 .. n
    OBVIOUS
  <2>2. IsFiniteSet(all)
    BY <2>1, FS_Interval
  <2>3. old \subseteq all /\ n + 1 \notin all
    BY <1>1, <1>4, <2>1
  <2>4. IsFiniteSet(old)
    BY <2>2, <2>3, FS_Subset
  <2> QED BY <2>3, <2>4
<1>6. PICK c \in Nat : c = Cardinality(old)
  BY <1>5, FS_CardinalityType
<1>7. Fed(fed, kinds) = c
  BY <1>4, <1>6 DEF Fed
<1>8. CASE k \in kinds
  <2>1. {i \in DOMAIN more : more[i] \in kinds} = old \cup {n + 1}
    BY <1>1, <1>3, <1>4, <1>8
  <2>2. Cardinality(old \cup {n + 1}) = Cardinality(old) + 1
    BY <1>5, FS_AddElement
  <2>3. Fed(more, kinds) = c + 1
    BY <1>6, <2>1, <2>2 DEF Fed
  <2> QED BY <1>2, <1>8, <1>7, <2>3
<1>9. CASE k \notin kinds
  <2>1. {i \in DOMAIN more : more[i] \in kinds} = old
    BY <1>1, <1>3, <1>4, <1>9
  <2>2. Fed(more, kinds) = c
    BY <1>6, <2>1 DEF Fed
  <2>3. (IF k \in kinds THEN 1 ELSE 0) = 0 /\ c + 0 = c
    BY <1>9
  <2> QED BY <1>2, <1>7, <2>2, <2>3
<1> QED BY <1>8, <1>9

(* Where the last parameter set stands after one unit more.                 *)
LEMMA LastSpsMoves ==
  ASSUME NEW fed \in Seq(DOMAIN Unit), NEW k \in DOMAIN Unit
  PROVE  LastSps(Append(fed, k)) = IF k \in DOMAIN Sizes THEN Len(fed) + 1 ELSE LastSps(fed)
<1>1. PICK n \in Nat : n = Len(fed) /\ DOMAIN fed = 1 .. n
  BY LenProperties
<1>2. PICK more : more = Append(fed, k)
  OBVIOUS
<1>3. DOMAIN more = 1 .. n + 1 /\ more[n + 1] = k /\ \A i \in 1 .. n : more[i] = fed[i]
  <2>1. /\ Append(fed, k) \in Seq(DOMAIN Unit) /\ Len(Append(fed, k)) = Len(fed) + 1
        /\ \A i \in 1 .. Len(fed) : Append(fed, k)[i] = fed[i]
        /\ Append(fed, k)[Len(fed) + 1] = k
    BY AppendProperties
  <2>2. DOMAIN more = 1 .. Len(more)
    BY <1>2, <2>1, LenProperties
  <2> QED BY <1>1, <1>2, <2>1, <2>2
<1>4. PICK new : new = {i \in DOMAIN more : more[i] \in DOMAIN Sizes}
  OBVIOUS
<1>5. CASE k \in DOMAIN Sizes
  <2>1. n + 1 \in new /\ \A i \in new : n + 1 >= i
    BY <1>3, <1>4, <1>5
  <2>2. \A m \in new : (\A i \in new : m >= i) => m = n + 1
    <3>1. \A m \in new : m \in 1 .. n + 1
      BY <1>3, <1>4
    <3> QED BY <2>1, <3>1
  <2>3. Max(new) = n + 1
    BY <2>1, <2>2 DEF Max
  <2> QED BY <1>1, <1>2, <1>4, <1>5, <2>3 DEF LastSps
<1>6. CASE k \notin DOMAIN Sizes
  <2>1. new = {i \in DOMAIN fed : fed[i] \in DOMAIN Sizes}
    BY <1>1, <1>3, <1>4, <1>6
  <2> QED BY <1>2, <1>4, <1>6, <2>1 DEF LastSps
<1> QED BY <1>5, <1>6

-----------------------------------------------------------------------------
(* The parser's state. *)

Contexts == [stats : [Fields -> Int], sps_valid : BOOLEAN, since : Int]

(* The parser's state knows the units fed.                                  *)
Knows(ctx, fed) ==
  /\ ctx \in Contexts /\ fed \in Seq(DOMAIN Unit) /\ Understood(ctx.stats, ctx.sps_valid, fed)
  /\ ctx.sps_valid => LastSps(fed) \in DOMAIN fed

(* What the parser reads out of a unit.                                     *)
ReadOf(k) == UnitRead(Unit[k], Counter(Unit[k]))

(* A legible unit is read for what it is.                                   *)
LEMMA ReadIs ==
  ASSUME UnitsLegible, NEW k \in DOMAIN Unit \ {"damaged"}
  PROVE  /\ ReadOf(k).counter = CountedAs[k] /\ ReadOf(k).isSlice \in BOOLEAN
         /\ k \in DOMAIN Sizes =>
              ReadOf(k).size = [width |-> Sizes[k][1], height |-> Sizes[k][2]]
<1>1. Counter(Unit[k]) = CountedAs[k]
  BY UnitKnown
<1>2. k \in DOMAIN Sizes =>
        CountedAs[k] = "sps_count"
        /\ PictureSize(BitsOf(Tail(Unit[k]))) = [width |-> Sizes[k][1], height |-> Sizes[k][2]]
  BY UnitKnown, KindsCounted
<1> QED BY <1>1, <1>2 DEF ReadOf, UnitRead

(* What one unit does to the counters.                                      *)
LEMMA CountsOne ==
  ASSUME NEW ctx \in Contexts, NEW read, read.counter \in Counters \cup {"none"},
         read.isSlice \in BOOLEAN,
         read.counter = "sps_count" => read.size.width \in Int /\ read.size.height \in Int
  PROVE  LET after == ParseNalu(ctx, read) IN
         /\ after \in Contexts
         /\ \A x \in Counters : after.stats[x] = ctx.stats[x] + (IF x = read.counter THEN 1 ELSE 0)
         /\ after.stats.total_nalus = ctx.stats.total_nalus + 1
         /\ after.sps_valid = (ctx.sps_valid \/ read.counter = "sps_count")
         /\ after.stats.width = IF read.counter = "sps_count" THEN read.size.width ELSE ctx.stats.width
         /\ after.stats.height = IF read.counter = "sps_count" THEN read.size.height ELSE ctx.stats.height
<1>1. PICK s, c, v, since, after :
        /\ s = ctx.stats /\ c = read.counter /\ v = ctx.sps_valid /\ since = ctx.since
        /\ after = ParseNalu(ctx, read)
  OBVIOUS
<1>2. /\ s \in [Fields -> Int] /\ c \in Counters \cup {"none"} /\ v \in BOOLEAN /\ since \in Int
      /\ ctx = [stats |-> s, sps_valid |-> v, since |-> since]
  BY <1>1 DEF Contexts
<1>3. PICK counted : counted = [s EXCEPT !.total_nalus = @ + 1, ![c] = @ + 1]
  OBVIOUS
<1>4. c \in Fields /\ "total_nalus" \in Fields /\ c # "total_nalus" /\ Counters \subseteq Fields
      /\ "total_nalus" \notin Counters /\ c # "width" /\ c # "height"
  BY <1>2 DEF Fields, Counters
<1>5. counted \in [Fields -> Int]
  BY <1>2, <1>3, <1>4
<1>6. /\ counted.total_nalus = s.total_nalus + 1
      /\ \A x \in Counters : counted[x] = s[x] + (IF x = c THEN 1 ELSE 0)
      /\ counted.width = s.width /\ counted.height = s.height
  <2>1. counted.total_nalus = s.total_nalus + 1
    BY <1>2, <1>3, <1>4
  <2>2. ASSUME NEW x \in Counters
        PROVE  counted[x] = s[x] + (IF x = c THEN 1 ELSE 0)
    BY <1>2, <1>3, <1>4
  <2>3. counted.width = s.width /\ counted.height = s.height
    <3>1. "width" \in Fields /\ "height" \in Fields
      BY DEF Fields
    <3> QED BY <1>2, <1>3, <1>4, <3>1
  <2> QED BY <2>1, <2>2, <2>3
<1>7. CASE c = "sps_count"
  <2>1. PICK w \in Int, h \in Int : w = read.size.width /\ h = read.size.height
    BY <1>1, <1>7
  <2>2. PICK t : t = [counted EXCEPT !.width = w, !.height = h]
    OBVIOUS
  <2>3. /\ t \in [Fields -> Int] /\ t.width = w /\ t.height = h /\ t.total_nalus = counted.total_nalus
        /\ \A x \in Counters : t[x] = counted[x]
    BY <1>5, <2>1, <2>2 DEF Fields, Counters
  <2>4. after = [ctx EXCEPT !.sps_valid = TRUE, !.stats = t]
    BY <1>1, <1>3, <1>7, <2>1, <2>2 DEF ParseNalu
  <2>5. after = [stats |-> t, sps_valid |-> TRUE, since |-> since]
    BY <1>2, <2>4
  <2>6. after \in Contexts /\ after.stats = t /\ after.sps_valid = TRUE
    BY <1>2, <2>3, <2>5 DEF Contexts
  <2> QED BY <1>1, <1>6, <1>7, <2>1, <2>3, <2>6
<1>8. CASE c = "idr_count" /\ since > 0
  <2>1. PICK t : t = [counted EXCEPT
                       !.max_gop_size = IF since > @ THEN since ELSE @,
                       !.min_gop_size = IF @ = 0 \/ since < @ THEN since ELSE @]
    OBVIOUS
  <2>2. /\ t \in [Fields -> Int] /\ t.width = counted.width /\ t.height = counted.height
        /\ t.total_nalus = counted.total_nalus /\ \A x \in Counters : t[x] = counted[x]
    BY <1>2, <1>5, <2>1 DEF Fields, Counters
  <2>3. after = [ctx EXCEPT !.since = 0, !.stats = t]
    BY <1>1, <1>3, <1>8, <2>1 DEF ParseNalu
  <2>4. after = [stats |-> t, sps_valid |-> v, since |-> 0]
    BY <1>2, <2>3
  <2>5. after \in Contexts /\ after.stats = t /\ after.sps_valid = v
    BY <1>2, <2>2, <2>4 DEF Contexts
  <2> QED BY <1>1, <1>2, <1>6, <1>8, <2>2, <2>5
<1>9. CASE ~ (c = "sps_count") /\ ~ (c = "idr_count" /\ since > 0)
  <2>1. PICK later : later = IF read.isSlice THEN since + 1 ELSE since
    OBVIOUS
  <2>2. after = [ctx EXCEPT !.stats = counted, !.since = IF read.isSlice THEN @ + 1 ELSE @]
    BY <1>1, <1>3, <1>9 DEF ParseNalu
  <2>3. after = [stats |-> counted, sps_valid |-> v, since |-> later]
    BY <1>2, <2>1, <2>2
  <2>4. after \in Contexts /\ after.stats = counted /\ after.sps_valid = v
    BY <1>2, <1>5, <2>1, <2>3 DEF Contexts
  <2> QED BY <1>1, <1>2, <1>6, <1>9, <2>4
<1> QED BY <1>7, <1>8, <1>9

(* Understood, counter by counter.                                          *)
LEMMA UnderstoodIs ==
  ASSUME NEW counted, NEW valid, NEW fed
  PROVE  Understood(counted, valid, fed)
         <=> /\ counted.total_nalus = Len(fed) - Fed(fed, {"damaged"})
             /\ \A x \in Counters : counted[x] = Fed(fed, CountKinds[x])
             /\ valid <=> Fed(fed, DOMAIN Sizes) > 0
             /\ valid => <<counted.width, counted.height>> = Sizes[fed[LastSps(fed)]]
<1>1. /\ CountKinds["sps_count"] = DOMAIN Sizes /\ CountKinds["pps_count"] = {"pps"}
      /\ CountKinds["idr_count"] = {"IDR"} /\ CountKinds["i_count"] = {"I"}
      /\ CountKinds["p_count"] = {"P", "lateP"} /\ CountKinds["b_count"] = {"B"}
      /\ CountKinds["sei_count"] = {"sei"}
  BY DEF CountKinds
<1>2. (\A x \in Counters : counted[x] = Fed(fed, CountKinds[x]))
      <=> /\ counted.sps_count = Fed(fed, DOMAIN Sizes) /\ counted.pps_count = Fed(fed, {"pps"})
          /\ counted.idr_count = Fed(fed, {"IDR"}) /\ counted.i_count = Fed(fed, {"I"})
          /\ counted.p_count = Fed(fed, {"P", "lateP"}) /\ counted.b_count = Fed(fed, {"B"})
          /\ counted.sei_count = Fed(fed, {"sei"})
  BY <1>1 DEF Counters
<1> QED BY <1>2 DEF Understood

(* The sizes are pairs of numbers.                                          *)
LEMMA SizesKnown ==
  ASSUME NEW k \in DOMAIN Sizes
  PROVE  Sizes[k][1] \in Int /\ Sizes[k][2] \in Int /\ Sizes[k] = <<Sizes[k][1], Sizes[k][2]>>
<1>1. k \in {"sps", "high", "field"}
  BY DEF Sizes
<1>2. Sizes["sps"] = <<640, 480>> /\ Sizes["high"] = <<1920, 1080>> /\ Sizes["field"] = <<720, 576>>
  BY DEF Sizes
<1> QED BY <1>1, <1>2

(* One unit more that is not damaged.                                       *)
LEMMA KnowsOneMore ==
  ASSUME UnitsLegible, NEW ctx, NEW fed, Knows(ctx, fed), NEW k \in DOMAIN Unit \ {"damaged"}
  PROVE  Knows(ParseNalu(ctx, ReadOf(k)), Append(fed, k))
<1>1. /\ ctx \in Contexts /\ fed \in Seq(DOMAIN Unit)
      /\ ctx.stats.total_nalus = Len(fed) - Fed(fed, {"damaged"})
      /\ \A x \in Counters : ctx.stats[x] = Fed(fed, CountKinds[x])
      /\ ctx.sps_valid <=> Fed(fed, DOMAIN Sizes) > 0
      /\ ctx.sps_valid =>
           /\ <<ctx.stats.width, ctx.stats.height>> = Sizes[fed[LastSps(fed)]]
           /\ LastSps(fed) \in DOMAIN fed
  BY UnderstoodIs DEF Knows
<1>2. PICK after, more, read, n :
        /\ after = ParseNalu(ctx, ReadOf(k)) /\ more = Append(fed, k) /\ read = ReadOf(k) /\ n = Len(fed)
  OBVIOUS
<1>3. /\ read.counter = CountedAs[k] /\ read.isSlice \in BOOLEAN
      /\ k \in DOMAIN Sizes => read.size = [width |-> Sizes[k][1], height |-> Sizes[k][2]]
  BY <1>2, ReadIs
<1>4. /\ CountedAs[k] \in Counters \cup {"none"}
      /\ \A x \in Counters : CountedAs[k] = x <=> k \in CountKinds[x]
      /\ CountedAs[k] = "sps_count" <=> k \in DOMAIN Sizes
  BY KindsCounted
<1>5. /\ after \in Contexts
      /\ \A x \in Counters : after.stats[x] = ctx.stats[x] + (IF x = read.counter THEN 1 ELSE 0)
      /\ after.stats.total_nalus = ctx.stats.total_nalus + 1
      /\ after.sps_valid = (ctx.sps_valid \/ read.counter = "sps_count")
      /\ after.stats.width = IF read.counter = "sps_count" THEN read.size.width ELSE ctx.stats.width
      /\ after.stats.height = IF read.counter = "sps_count" THEN read.size.height ELSE ctx.stats.height
  <2>1. read.counter \in Counters \cup {"none"}
    BY <1>3, <1>4
  <2>2. read.counter = "sps_count" => read.size.width \in Int /\ read.size.height \in Int
    BY <1>3, <1>4, SizesKnown
  <2>3. ctx \in Contexts /\ read.isSlice \in BOOLEAN
    BY <1>1, <1>3
  <2> QED BY <1>2, <2>1, <2>2, <2>3, CountsOne
<1>6. /\ more \in Seq(DOMAIN Unit) /\ n \in Nat /\ Len(more) = n + 1 /\ more[n + 1] = k
      /\ \A i \in 1 .. n : more[i] = fed[i]
      /\ DOMAIN more = 1 .. n + 1 /\ DOMAIN fed = 1 .. n
  <2>1. /\ Append(fed, k) \in Seq(DOMAIN Unit) /\ Len(Append(fed, k)) = Len(fed) + 1
        /\ \A i \in 1 .. Len(fed) : Append(fed, k)[i] = fed[i]
        /\ Append(fed, k)[Len(fed) + 1] = k
    BY <1>1, AppendProperties
  <2>2. DOMAIN more = 1 .. Len(more) /\ DOMAIN fed = 1 .. Len(fed) /\ Len(fed) \in Nat
    BY <1>1, <1>2, <2>1, LenProperties
  <2> QED BY <1>2, <2>1, <2>2
<1>7. \A kinds : /\ Fed(fed, kinds) \in Nat
                 /\ Fed(more, kinds) = Fed(fed, kinds) + (IF k \in kinds THEN 1 ELSE 0)
  BY <1>1, <1>2, FedOneMore
<1>8. after.stats.total_nalus = Len(more) - Fed(more, {"damaged"})
  <2>1. PICK d \in Nat : d = Fed(fed, {"damaged"})
    BY <1>7
  <2>2. Fed(more, {"damaged"}) = d
    <3>1. Fed(more, {"damaged"}) = d + 0
      BY <1>7, <2>1
    <3> QED BY <3>1
  <2>3. after.stats.total_nalus = (n - d) + 1
    BY <1>1, <1>2, <1>5, <2>1
  <2>4. (n - d) + 1 = (n + 1) - d
    BY <1>6
  <2> QED BY <1>6, <2>2, <2>3, <2>4
<1>9. \A x \in Counters : after.stats[x] = Fed(more, CountKinds[x])
  <2>1. ASSUME NEW x \in Counters
        PROVE  after.stats[x] = Fed(more, CountKinds[x])
    <3>1. PICK one : one = IF k \in CountKinds[x] THEN 1 ELSE 0
      OBVIOUS
    <3>2. after.stats[x] = ctx.stats[x] + one
      BY <1>3, <1>4, <1>5, <3>1
    <3>3. Fed(more, CountKinds[x]) = Fed(fed, CountKinds[x]) + one
      BY <1>7, <3>1
    <3> QED BY <1>1, <3>2, <3>3
  <2> QED BY <2>1
<1>10. after.sps_valid <=> Fed(more, DOMAIN Sizes) > 0
  <2>1. PICK d \in Nat : d = Fed(fed, DOMAIN Sizes)
    BY <1>7
  <2>2. Fed(more, DOMAIN Sizes) = d + (IF k \in DOMAIN Sizes THEN 1 ELSE 0)
    BY <1>7, <2>1
  <2>3. CASE k \in DOMAIN Sizes
    <3>1. after.sps_valid = TRUE
      BY <1>3, <1>4, <1>5, <2>3
    <3>2. Fed(more, DOMAIN Sizes) = d + 1 /\ d + 1 > 0
      BY <2>2, <2>3
    <3> QED BY <3>1, <3>2
  <2>4. CASE k \notin DOMAIN Sizes
    <3>1. after.sps_valid = (ctx.sps_valid \/ FALSE)
      BY <1>3, <1>4, <1>5, <2>4
    <3>2. Fed(more, DOMAIN Sizes) = d
      BY <2>2, <2>4
    <3> QED BY <1>1, <2>1, <3>1, <3>2
  <2> QED BY <2>3, <2>4
<1>11. LastSps(more) = IF k \in DOMAIN Sizes THEN n + 1 ELSE LastSps(fed)
  BY <1>1, <1>2, LastSpsMoves
<1>12. ASSUME after.sps_valid
       PROVE  /\ <<after.stats.width, after.stats.height>> = Sizes[more[LastSps(more)]]
              /\ LastSps(more) \in DOMAIN more
  <2>1. CASE k \in DOMAIN Sizes
    <3>1. LastSps(more) = n + 1 /\ more[LastSps(more)] = k
      BY <1>6, <1>11, <2>1
    <3>2. after.stats.width = Sizes[k][1] /\ after.stats.height = Sizes[k][2]
      BY <1>3, <1>4, <1>5, <2>1
    <3> QED BY <1>6, <2>1, <3>1, <3>2, SizesKnown
  <2>2. CASE k \notin DOMAIN Sizes
    <3>1. ctx.sps_valid
      BY <1>3, <1>4, <1>5, <1>12, <2>2
    <3>2. LastSps(more) = LastSps(fed) /\ LastSps(fed) \in 1 .. n
      BY <1>1, <1>6, <1>11, <2>2, <3>1
    <3>3. more[LastSps(more)] = fed[LastSps(fed)]
      BY <1>6, <3>2
    <3>4. after.stats.width = ctx.stats.width /\ after.stats.height = ctx.stats.height
      BY <1>3, <1>4, <1>5, <2>2
    <3>5. LastSps(more) \in 1 .. n + 1
      BY <1>6, <3>2
    <3> QED BY <1>1, <1>6, <3>1, <3>3, <3>4, <3>5
  <2> QED BY <2>1, <2>2
<1>13. Understood(after.stats, after.sps_valid, more)
  BY <1>8, <1>9, <1>10, <1>12, UnderstoodIs
<1> QED BY <1>2, <1>5, <1>6, <1>12, <1>13 DEF Knows

(* A damaged unit changes nothing that is counted.                          *)
LEMMA KnowsDamaged ==
  ASSUME NEW ctx, NEW fed, Knows(ctx, fed)
  PROVE  Knows(ctx, Append(fed, "damaged"))
<1>1. /\ ctx \in Contexts /\ fed \in Seq(DOMAIN Unit)
      /\ ctx.stats.total_nalus = Len(fed) - Fed(fed, {"damaged"})
      /\ \A x \in Counters : ctx.stats[x] = Fed(fed, CountKinds[x])
      /\ ctx.sps_valid <=> Fed(fed, DOMAIN Sizes) > 0
      /\ ctx.sps_valid =>
           /\ <<ctx.stats.width, ctx.stats.height>> = Sizes[fed[LastSps(fed)]]
           /\ LastSps(fed) \in DOMAIN fed
  BY UnderstoodIs DEF Knows
<1>2. PICK k \in DOMAIN Unit : k = "damaged"
  BY Kinds
<1>3. PICK more, n : more = Append(fed, k) /\ n = Len(fed)
  OBVIOUS
<1>4. /\ more \in Seq(DOMAIN Unit) /\ n \in Nat /\ Len(more) = n + 1
      /\ \A i \in 1 .. n : more[i] = fed[i]
      /\ DOMAIN more = 1 .. n + 1 /\ DOMAIN fed = 1 .. n
  <2>1. /\ Append(fed, k) \in Seq(DOMAIN Unit) /\ Len(Append(fed, k)) = Len(fed) + 1
        /\ \A i \in 1 .. Len(fed) : Append(fed, k)[i] = fed[i]
    BY <1>1, AppendProperties
  <2>2. DOMAIN more = 1 .. Len(more) /\ DOMAIN fed = 1 .. Len(fed) /\ Len(fed) \in Nat
    BY <1>1, <1>3, <2>1, LenProperties
  <2> QED BY <1>3, <2>1, <2>2
<1>5. \A kinds : /\ Fed(fed, kinds) \in Nat
                 /\ Fed(more, kinds) = Fed(fed, kinds) + (IF k \in kinds THEN 1 ELSE 0)
  BY <1>1, <1>3, FedOneMore
<1>6. k \notin DOMAIN Sizes /\ \A x \in Counters : k \notin CountKinds[x]
  <2>1. DOMAIN Sizes = {"sps", "high", "field"}
    BY DEF Sizes
  <2>2. /\ CountKinds["sps_count"] = {"sps", "high", "field"} /\ CountKinds["pps_count"] = {"pps"}
        /\ CountKinds["idr_count"] = {"IDR"} /\ CountKinds["i_count"] = {"I"}
        /\ CountKinds["p_count"] = {"P", "lateP"} /\ CountKinds["b_count"] = {"B"}
        /\ CountKinds["sei_count"] = {"sei"}
    BY <2>1 DEF CountKinds
  <2> QED BY <1>2, <2>1, <2>2 DEF Counters
<1>7. \A kinds : k \notin kinds => Fed(more, kinds) = Fed(fed, kinds)
  <2>1. ASSUME NEW kinds, k \notin kinds
        PROVE  Fed(more, kinds) = Fed(fed, kinds)
    <3>1. PICK d \in Nat : d = Fed(fed, kinds)
      BY <1>5
    <3>2. Fed(more, kinds) = d + 0
      BY <1>5, <2>1, <3>1
    <3> QED BY <3>1, <3>2
  <2> QED BY <2>1
<1>8. ctx.stats.total_nalus = Len(more) - Fed(more, {"damaged"})
  <2>1. PICK d \in Nat : d = Fed(fed, {"damaged"})
    BY <1>5
  <2>2. Fed(more, {"damaged"}) = d + 1
    BY <1>2, <1>5, <2>1
  <2>3. ctx.stats.total_nalus = n - d
    BY <1>1, <1>3, <2>1
  <2>4. n - d = (n + 1) - (d + 1)
    BY <1>4
  <2> QED BY <1>4, <2>2, <2>3, <2>4
<1>9. LastSps(more) = LastSps(fed)
  BY <1>1, <1>3, <1>6, LastSpsMoves
<1>10. /\ \A x \in Counters : ctx.stats[x] = Fed(more, CountKinds[x])
       /\ ctx.sps_valid <=> Fed(more, DOMAIN Sizes) > 0
  BY <1>1, <1>6, <1>7
<1>11. ASSUME ctx.sps_valid
       PROVE  /\ <<ctx.stats.width, ctx.stats.height>> = Sizes[more[LastSps(more)]]
              /\ LastSps(more) \in DOMAIN more
  <2>1. LastSps(fed) \in 1 .. n
    BY <1>1, <1>4, <1>11
  <2>2. LastSps(fed) \in 1 .. n + 1
    BY <1>4, <2>1
  <2> QED BY <1>1, <1>4, <1>9, <1>11, <2>1, <2>2
<1>12. Understood(ctx.stats, ctx.sps_valid, more)
  BY <1>8, <1>10, <1>11, UnderstoodIs
<1> QED BY <1>1, <1>2, <1>3, <1>4, <1>11, <1>12 DEF Knows

-----------------------------------------------------------------------------
(* A packet. *)

(* The bytes of the units that are kept, and what is read out of them.      *)
Whole == {Unit[k] : k \in DOMAIN Unit \ {"damaged"}}

Reads == {ReadOf(k) : k \in DOMAIN Unit \ {"damaged"}}

(* The units are read one by one.                                           *)
LEMMA ReadsMore ==
  ASSUME NEW nalus \in Seq(Whole), NEW k \in DOMAIN Unit \ {"damaged"}
  PROVE  /\ UnitsRead(<<>>) = <<>> /\ UnitsRead(nalus) \in Seq(Reads) /\ ReadOf(k) \in Reads
         /\ UnitsRead(Append(nalus, Unit[k])) = Append(UnitsRead(nalus), ReadOf(k))
<1>1. UnitsRead(<<>>) = <<>>
  BY DEF UnitsRead
<1>2. PICK n \in Nat : n = Len(nalus) /\ DOMAIN nalus = 1 .. n
  BY LenProperties
<1>3. \A i \in 1 .. n : UnitRead(nalus[i], Counter(nalus[i])) \in Reads
  <2>1. ASSUME NEW i \in 1 .. n
        PROVE  UnitRead(nalus[i], Counter(nalus[i])) \in Reads
    <3>1. nalus[i] \in Whole
      BY <1>2, ElementOfSeq
    <3>2. PICK j \in DOMAIN Unit \ {"damaged"} : nalus[i] = Unit[j]
      BY <3>1 DEF Whole
    <3> QED BY <3>2 DEF Reads, ReadOf
  <2> QED BY <2>1
<1>4. PICK read : read = UnitsRead(nalus)
  OBVIOUS
<1>5. read = [i \in 1 .. n |-> UnitRead(nalus[i], Counter(nalus[i]))]
  BY <1>2, <1>4 DEF UnitsRead
<1>6. read \in Seq(Reads) /\ Len(read) = n
  <2>1. read \in [1 .. n -> Reads]
    BY <1>3, <1>5
  <2> QED BY <1>2, <2>1
<1>7. ReadOf(k) \in Reads /\ Unit[k] \in Whole
  BY DEF Reads, Whole
<1>8. PICK more : more = Append(nalus, Unit[k])
  OBVIOUS
<1>9. DOMAIN more = 1 .. n + 1 /\ more[n + 1] = Unit[k] /\ \A i \in 1 .. n : more[i] = nalus[i]
  <2>1. /\ Append(nalus, Unit[k]) \in Seq(Whole) /\ Len(Append(nalus, Unit[k])) = Len(nalus) + 1
        /\ \A i \in 1 .. Len(nalus) : Append(nalus, Unit[k])[i] = nalus[i]
        /\ Append(nalus, Unit[k])[Len(nalus) + 1] = Unit[k]
    BY <1>7, AppendProperties
  <2>2. DOMAIN more = 1 .. Len(more)
    BY <1>8, <2>1, LenProperties
  <2> QED BY <1>2, <1>8, <2>1, <2>2
<1>10. PICK all : all = UnitsRead(more)
  OBVIOUS
<1>11. all = [i \in 1 .. n + 1 |-> UnitRead(more[i], Counter(more[i]))]
  BY <1>9, <1>10 DEF UnitsRead
<1>12. all[n + 1] = ReadOf(k) /\ \A i \in 1 .. n : all[i] = read[i]
  <2>1. n + 1 \in 1 .. n + 1 /\ \A i \in 1 .. n : i \in 1 .. n + 1
    BY <1>2
  <2> QED BY <1>5, <1>9, <1>11, <2>1 DEF ReadOf
<1>13. PICK longer \in Seq(Reads) : longer = Append(read, ReadOf(k))
  BY <1>6, <1>7, AppendProperties
<1>14. Len(longer) = n + 1 /\ longer[n + 1] = ReadOf(k) /\ \A i \in 1 .. n : longer[i] = read[i]
  BY <1>6, <1>7, <1>13, AppendProperties
<1>15. all \in Seq(Reads) /\ Len(all) = n + 1
  <2>1. \A i \in 1 .. n + 1 : all[i] \in Reads
    <3>1. ASSUME NEW i \in 1 .. n + 1
          PROVE  all[i] \in Reads
      <4>1. CASE i = n + 1
        BY <1>7, <1>12, <4>1
      <4>2. CASE i \in 1 .. n
        BY <1>3, <1>5, <1>12, <4>2
      <4> QED BY <4>1, <4>2
    <3> QED BY <3>1
  <2>2. all \in [1 .. n + 1 -> Reads] /\ n + 1 \in Nat
    BY <1>11, <2>1
  <2> QED BY <2>2
<1>16. all = longer
  <2>1. \A i \in 1 .. n + 1 : all[i] = longer[i]
    BY <1>12, <1>14
  <2> QED BY <1>13, <1>14, <1>15, <2>1, SeqEqual
<1> QED BY <1>1, <1>4, <1>6, <1>7, <1>8, <1>10, <1>13, <1>16

(* The kinds of a packet's first units behind those fed before.             *)
FedTo(fed, p, i) == fed \o [j \in 1 .. i |-> p[j][1]]

(* They grow unit by unit.                                                  *)
LEMMA FedGrows ==
  ASSUME NEW fed \in Seq(DOMAIN Unit), NEW p \in Packets, NEW i \in 1 .. Len(p)
  PROVE  /\ FedTo(fed, p, 0) = fed /\ FedTo(fed, p, i - 1) \in Seq(DOMAIN Unit)
         /\ FedTo(fed, p, i) = Append(FedTo(fed, p, i - 1), p[i][1])
<1>1. PICK n \in Nat \ {0} : n = Len(p)
  BY PacketIs
<1>2. \A j \in 1 .. n : p[j][1] \in DOMAIN Unit
  BY <1>1, PacketIs
<1>3. FedTo(fed, p, 0) = fed
  <2>1. [j \in 1 .. 0 |-> p[j][1]] = <<>>
    OBVIOUS
  <2> QED BY <2>1, ConcatEmptySeq DEF FedTo
<1>4. PICK m \in Nat : m = i - 1 /\ i = m + 1
  BY <1>1
<1>5. PICK a, b, x : a = [j \in 1 .. m |-> p[j][1]] /\ b = [j \in 1 .. m + 1 |-> p[j][1]] /\ x = p[i][1]
  OBVIOUS
<1>6. /\ a \in Seq(DOMAIN Unit) /\ b \in Seq(DOMAIN Unit) /\ x \in DOMAIN Unit
      /\ Len(a) = m /\ Len(b) = m + 1 /\ b[m + 1] = x /\ \A j \in 1 .. m : b[j] = a[j]
  <2>1. (\A j \in 1 .. m : j \in 1 .. n) /\ (\A j \in 1 .. m + 1 : j \in 1 .. n)
    BY <1>1, <1>4
  <2>2. a \in [1 .. m -> DOMAIN Unit] /\ b \in [1 .. m + 1 -> DOMAIN Unit] /\ m + 1 \in Nat
    <3>1. \A j \in 1 .. m : p[j][1] \in DOMAIN Unit
      BY <1>2, <2>1
    <3>2. \A j \in 1 .. m + 1 : p[j][1] \in DOMAIN Unit
      BY <1>2, <2>1
    <3>3. a \in [1 .. m -> DOMAIN Unit]
      BY <1>5, <3>1
    <3>4. b \in [1 .. m + 1 -> DOMAIN Unit]
      BY <1>5, <3>2
    <3> QED BY <3>3, <3>4
  <2>3. b[m + 1] = x /\ \A j \in 1 .. m : b[j] = a[j]
    <3>1. m + 1 \in 1 .. m + 1 /\ \A j \in 1 .. m : j \in 1 .. m + 1
      OBVIOUS
    <3>2. b[m + 1] = p[m + 1][1]
      BY <1>5, <3>1
    <3>3. \A j \in 1 .. m : b[j] = p[j][1] /\ a[j] = p[j][1]
      BY <1>5, <3>1
    <3> QED BY <1>4, <1>5, <3>2, <3>3
  <2>4. x \in DOMAIN Unit
    BY <1>1, <1>2, <1>5
  <2> QED BY <2>2, <2>3, <2>4
<1>7. PICK l \in Nat : l = Len(fed)
  BY LenProperties
<1>8. PICK fa \in Seq(DOMAIN Unit), fb \in Seq(DOMAIN Unit) : fa = fed \o a /\ fb = fed \o b
  BY <1>6, ConcatProperties
<1>9. /\ Len(fa) = l + m /\ \A j \in 1 .. l + m : fa[j] = IF j <= l THEN fed[j] ELSE a[j - l]
      /\ Len(fb) = l + (m + 1)
      /\ \A j \in 1 .. l + (m + 1) : fb[j] = IF j <= l THEN fed[j] ELSE b[j - l]
  <2>1. /\ Len(fed \o a) = Len(fed) + Len(a)
        /\ \A j \in 1 .. Len(fed) + Len(a) : (fed \o a)[j] = IF j <= Len(fed) THEN fed[j] ELSE a[j - Len(fed)]
    BY <1>6, ConcatProperties
  <2>2. /\ Len(fed \o b) = Len(fed) + Len(b)
        /\ \A j \in 1 .. Len(fed) + Len(b) : (fed \o b)[j] = IF j <= Len(fed) THEN fed[j] ELSE b[j - Len(fed)]
    BY <1>6, ConcatProperties
  <2>3. Len(fed) = l /\ Len(a) = m /\ Len(b) = m + 1
    BY <1>6, <1>7
  <2> QED BY <1>8, <2>1, <2>2, <2>3
<1>10. PICK fc \in Seq(DOMAIN Unit) : fc = Append(fa, x)
  BY <1>6, AppendProperties
<1>11. Len(fc) = (l + m) + 1 /\ fc[(l + m) + 1] = x /\ \A j \in 1 .. l + m : fc[j] = fa[j]
  BY <1>6, <1>9, <1>10, AppendProperties
<1>12. fb = fc
  <2>1. PICK N \in Nat : N = l + (m + 1) /\ N = (l + m) + 1 /\ N - l = m + 1 /\ ~ (N <= l)
    OBVIOUS
  <2>2. ASSUME NEW j \in 1 .. N
        PROVE  fb[j] = fc[j]
    <3>1. CASE j = N
      <4>1. fb[N] = b[m + 1]
        BY <1>9, <2>1, <3>1
      <4> QED BY <1>6, <1>11, <2>1, <3>1, <4>1
    <3>2. CASE j \in 1 .. l + m
      <4>1. CASE j <= l
        <5>1. fb[j] = fed[j] /\ fa[j] = fed[j]
          BY <1>9, <2>1, <3>2, <4>1
        <5> QED BY <1>11, <3>2, <5>1
      <4>2. CASE ~ (j <= l)
        <5>1. fb[j] = b[j - l] /\ fa[j] = a[j - l]
          BY <1>9, <2>1, <3>2, <4>2
        <5>2. j - l \in 1 .. m
          BY <3>2, <4>2
        <5> QED BY <1>6, <1>11, <3>2, <5>1, <5>2
      <4> QED BY <4>1, <4>2
    <3> QED BY <2>1, <3>1, <3>2
  <2> QED BY <1>9, <1>11, <2>1, <2>2, SeqEqual
<1> QED BY <1>3, <1>4, <1>5, <1>8, <1>10, <1>12 DEF FedTo

(* After a packet the parser's state knows its units too.                   *)
LEMMA KnowsPacket ==
  ASSUME UnitsLegible, NEW ctx, NEW fed, Knows(ctx, fed), NEW p \in Packets
  PROVE  Knows(ParseAll(ctx, UnitsOf[p]), fed \o [i \in DOMAIN p |-> p[i][1]])
<1>1. PICK n \in Nat \ {0} : n = Len(p) /\ DOMAIN p = 1 .. n
  BY PacketIs
<1>2. \A i \in 1 .. n : p[i][1] \in DOMAIN Unit
  BY <1>1, PacketIs
<1>3. PICK K : K \in [0 .. n -> Seq(Whole)] /\ Kept(p, K)
  <2>1. PICK S, F : S = Seq(Whole) /\ F = [q \in (1 .. n) \X S |-> AfterUnit(p, q[1], q[2])]
    OBVIOUS
  <2>2. \A i \in 1 .. n, y \in S : F[<<i, y>>] = AfterUnit(p, i, y) /\ F[<<i, y>>] \in S
    <3>1. ASSUME NEW i \in 1 .. n, NEW y \in S
          PROVE  F[<<i, y>>] = AfterUnit(p, i, y) /\ AfterUnit(p, i, y) \in S
      <4>1. F[<<i, y>>] = AfterUnit(p, i, y)
        BY <2>1
      <4>2. CASE p[i][1] = "damaged"
        BY <4>1, <4>2 DEF AfterUnit
      <4>3. CASE p[i][1] # "damaged"
        <5>1. Unit[p[i][1]] \in Whole
          BY <1>2, <4>3 DEF Whole
        <5>2. Append(y, Unit[p[i][1]]) \in S
          BY <2>1, <5>1, AppendProperties
        <5> QED BY <4>1, <4>3, <5>2 DEF AfterUnit
      <4> QED BY <4>2, <4>3
    <3> QED BY <3>1
  <2>3. StepsWithin(F, S, n) /\ <<>> \in S
    <3>1. <<>> \in Seq(Whole)
      OBVIOUS
    <3> QED BY <2>1, <2>2, <3>1 DEF StepsWithin
  <2>4. \E f : Iterated(f, F, <<>>, n, S)
    BY <2>3, Iterates
  <2>5. PICK K : K \in [0 .. n -> S] /\ K[0] = <<>> /\ \A i \in 1 .. n : K[i] = F[<<i, K[i - 1]>>]
    BY <2>4 DEF Iterated
  <2>6. \A i \in 1 .. n : K[i] = AfterUnit(p, i, K[i - 1])
    <3>1. ASSUME NEW i \in 1 .. n
          PROVE  K[i - 1] \in S
      <4>1. i - 1 \in 0 .. n
        OBVIOUS
      <4> QED BY <2>5, <4>1
    <3> QED BY <2>2, <2>5, <3>1
  <2>7. Kept(p, K)
    BY <1>1, <2>5, <2>6 DEF Kept
  <2> QED BY <2>1, <2>5, <2>7
<1>4. UnitsOf[p] = UnitsRead(K[n])
  <2>1. Nalus(AnnexB[p]) = K[n]
    BY <1>1, <1>3, UnitsFound
  <2> QED BY <2>1 DEF UnitsOf
<1>5. fed \in Seq(DOMAIN Unit)
  BY DEF Knows
<1> DEFINE T == {i \in Nat : i <= n => Knows(ParseAll(ctx, UnitsRead(K[i])), FedTo(fed, p, i))}
<1>6. 0 \in T
  <2>1. 1 \in 1 .. Len(p)
    BY <1>1
  <2>2. FedTo(fed, p, 0) = fed
    BY <1>5, <2>1, FedGrows
  <2>3. K[0] = <<>> /\ UnitsRead(<<>>) = <<>>
    BY <1>3 DEF Kept, UnitsRead
  <2>4. PICK r, S : r \in S /\ r = ctx
    <3>1. ctx \in {ctx}
      OBVIOUS
    <3> QED BY <3>1
  <2>5. <<>> \in Seq(S)
    OBVIOUS
  <2>6. ParseAll(ctx, <<>>) = ctx
    BY <2>4, <2>5, ParseOneMore
  <2> QED BY <2>2, <2>3, <2>6
<1>7. ASSUME NEW m \in Nat, m \in T
      PROVE  m + 1 \in T
  <2>1. SUFFICES ASSUME m + 1 <= n
                 PROVE  Knows(ParseAll(ctx, UnitsRead(K[m + 1])), FedTo(fed, p, m + 1))
    OBVIOUS
  <2>2. PICK i \in 1 .. n : i = m + 1 /\ i - 1 = m
    BY <2>1
  <2>3. PICK old, oldFed, k :
          /\ old = ParseAll(ctx, UnitsRead(K[m])) /\ oldFed = FedTo(fed, p, m) /\ k = p[i][1]
          /\ Knows(old, oldFed)
    BY <1>7, <2>1
  <2>4. FedTo(fed, p, i) = Append(oldFed, k)
    BY <1>1, <1>5, <2>2, <2>3, FedGrows
  <2>5. K[i] = AfterUnit(p, i, K[m]) /\ K[m] \in Seq(Whole) /\ k \in DOMAIN Unit
    <3>1. m \in 0 .. n
      BY <2>1
    <3> QED BY <1>1, <1>2, <1>3, <2>2, <2>3, <3>1 DEF Kept
  <2>6. CASE k = "damaged"
    <3>1. K[i] = K[m]
      BY <2>3, <2>5, <2>6 DEF AfterUnit
    <3>2. Knows(old, Append(oldFed, "damaged"))
      BY <2>3, KnowsDamaged
    <3> QED BY <2>2, <2>3, <2>4, <2>6, <3>1, <3>2
  <2>7. CASE k # "damaged"
    <3>1. K[i] = Append(K[m], Unit[k])
      BY <2>3, <2>5, <2>7 DEF AfterUnit
    <3>2. PICK read \in Seq(Reads) : read = UnitsRead(K[m])
      BY <2>5, <2>7, ReadsMore
    <3>3. UnitsRead(K[i]) = Append(read, ReadOf(k)) /\ ReadOf(k) \in Reads
      BY <2>5, <2>7, <3>1, <3>2, ReadsMore
    <3>4. ParseAll(ctx, Append(read, ReadOf(k))) = ParseNalu(ParseAll(ctx, read), ReadOf(k))
      BY <3>3, ParseOneMore
    <3>5. Knows(ParseNalu(old, ReadOf(k)), Append(oldFed, k))
      BY <2>3, <2>5, <2>7, KnowsOneMore
    <3> QED BY <2>2, <2>3, <2>4, <3>2, <3>3, <3>4, <3>5
  <2> QED BY <2>6, <2>7
<1>8. Nat \subseteq T
  <2> HIDE DEF T
  <2> QED BY <1>6, <1>7, Induction
<1>9. Knows(ParseAll(ctx, UnitsRead(K[n])), FedTo(fed, p, n))
  BY <1>8
<1>10. FedTo(fed, p, n) = fed \o [i \in DOMAIN p |-> p[i][1]]
  BY <1>1 DEF FedTo
<1> QED BY <1>4, <1>9, <1>10

-----------------------------------------------------------------------------
(* The parser. *)

(* The parser's variables as the state that ParseNalu takes.                *)
ParserState == [stats |-> stats, sps_valid |-> sps_valid, since |-> frames_since_idr]

(* At first nothing has been fed.                                           *)
LEMMA NothingFed == ParserInit => Knows(ParserState, units)
<1> SUFFICES ASSUME ParserInit
             PROVE  Knows(ParserState, units)
  OBVIOUS
<1>1. /\ NoStats \in [Fields -> Int] /\ NoStats.total_nalus = 0
      /\ \A x \in Counters : NoStats[x] = 0
  BY DEF NoStats, Fields, Counters
<1>2. ParserState = [stats |-> NoStats, sps_valid |-> FALSE, since |-> 0] /\ units = <<>>
  BY DEF ParserInit, ParserState
<1>3. ParserState \in Contexts /\ ParserState.stats = NoStats /\ ParserState.sps_valid = FALSE
  BY <1>1, <1>2 DEF Contexts
<1>4. \A kinds : Fed(<<>>, kinds) = 0
  <2>1. ASSUME NEW kinds
        PROVE  Fed(<<>>, kinds) = 0
    <3>1. {i \in DOMAIN <<>> : <<>>[i] \in kinds} = {}
      OBVIOUS
    <3> QED BY <3>1, FS_EmptySet DEF Fed
  <2> QED BY <2>1
<1>5. <<>> \in Seq(DOMAIN Unit) /\ Len(<<>>) = 0
  OBVIOUS
<1>6. Understood(NoStats, FALSE, <<>>)
  <2>1. NoStats.total_nalus = Len(<<>>) - Fed(<<>>, {"damaged"})
    BY <1>1, <1>4, <1>5
  <2>2. \A x \in Counters : NoStats[x] = Fed(<<>>, CountKinds[x])
    BY <1>1, <1>4
  <2>3. ~ (Fed(<<>>, DOMAIN Sizes) > 0)
    BY <1>4
  <2> QED BY <2>1, <2>2, <2>3, UnderstoodIs
<1> QED BY <1>2, <1>3, <1>5, <1>6 DEF Knows

(* Every packet adds its units to what the parser knows.                    *)
LEMMA ParserStep ==
  ASSUME UnitsLegible
  PROVE  Knows(ParserState, units) /\ [ParserNext]_parserVars => Knows(ParserState, units)'
<1> SUFFICES ASSUME Knows(ParserState, units), [ParserNext]_parserVars
             PROVE  Knows(ParserState', units')
  BY DEF Knows, Understood, Fed, LastSps, Contexts
<1>1. CASE ParserNext
  <2>1. PICK p \in Packets : h264_parser_feed(p)
    BY <1>1 DEF ParserNext
  <2>2. PICK ctx : ctx = ParseAll(ParserState, UnitsOf[p])
    OBVIOUS
  <2>3. /\ stats' = ctx.stats /\ sps_valid' = ctx.sps_valid /\ frames_since_idr' = ctx.since
        /\ units' = units \o [i \in DOMAIN p |-> p[i][1]]
    BY <2>1, <2>2 DEF h264_parser_feed, ParserState
  <2>4. Knows(ctx, units')
    BY <2>2, <2>3, KnowsPacket
  <2>5. ctx = [stats |-> ctx.stats, sps_valid |-> ctx.sps_valid, since |-> ctx.since]
    BY <2>4 DEF Knows, Contexts
  <2>6. ParserState' = ctx
    BY <2>3, <2>5 DEF ParserState
  <2> QED BY <2>4, <2>6
<1>2. CASE UNCHANGED parserVars
  <2>1. ParserState' = ParserState /\ units' = units
    BY <1>2 DEF parserVars, ParserState
  <2> QED BY <2>1
<1> QED BY <1>1, <1>2

(* However many packets of however many units are fed, the counters know    *)
(* every unit and the size of the last parameter set (h264_parser.c:287-434), *)
(* given that the twelve units are legible one by one.                      *)
THEOREM StreamAlwaysUnderstood ==
  ASSUME UnitsLegible
  PROVE  ParserSpec => []StreamUnderstood
<1>1. Knows(ParserState, units) => StreamUnderstood
  BY DEF Knows, ParserState, StreamUnderstood
<1>2. Knows(ParserState, units) /\ [ParserNext]_parserVars => Knows(ParserState, units)'
  BY ParserStep
<1> QED BY <1>1, <1>2, NothingFed, PTL DEF ParserSpec

=============================================================================
