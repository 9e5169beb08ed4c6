------------------------------ MODULE Streamer ------------------------------
(***************************************************************************)
(* The RTSP streamer with its two encoders (core/rtsp_streamer.c,           *)
(* core/video_encoder.c, core/audio_encoder.c): it is opened, fed by the    *)
(* camera and the microphone thread, and closed when a write has failed or  *)
(* the monitor stops; module Monitor has the threads around it.             *)
(*                                                                         *)
(* A packet is the tick of the clock its frame was captured at.  An encoder *)
(* keeps a few frames back before it gives the first packet out.  A frame   *)
(* is handed over as a DMA-BUF or by address, as the encoder needs it.      *)
(***************************************************************************)
EXTENDS Integers, Sequences

CONSTANTS
  Ticks,         (* how often the clock is read                            *)
  EncoderDelay   (* the frames an encoder keeps back, at most              *)

ASSUME StreamerAssumption == Ticks \in Nat /\ EncoderDelay \in Nat

Media == {"video", "audio"}

VARIABLES
  phase,         (* "none", "open", or in rtsp_streamer_close "flush" with  *)
                 (* the video done and "trailer" with the audio done       *)
  connected,
  encoder,       (* of each medium: "none", "software" or "hardware"       *)
  clock,         (* CLOCK_MONOTONIC                                        *)
  start_time,
  delayed,       (* what each encoder keeps                                *)
  sender,        (* where each sending thread is: "idle", "packet" with an  *)
                 (* encoded packet, or "write" inside the muxer            *)
  out_pkt,       (* the packet it has, 0 without one                       *)
  write_mutex,   (* its holder, in a set                                   *)
  headerWritten,
  muxed,         (* history: the video packets the muxer got               *)
  lateWrite,     (* history: the muxer was used after its trailer          *)
  drained        (* history: what was delayed in a stream that was closed   *)
                 (* while connected                                        *)

streamerVars == <<phase, connected, encoder, clock, start_time, delayed, sender, out_pkt,
                  write_mutex, headerWritten, muxed, lateWrite, drained>>

connection == <<phase, connected, encoder, headerWritten>>
streamerHistory == <<lateWrite, drained>>

StreamerTypeOK ==
  /\ phase \in {"none", "open", "flush", "trailer"}
  /\ {connected, headerWritten, lateWrite} \subseteq BOOLEAN
  /\ encoder \in [Media -> {"none", "software", "hardware"}]
  /\ clock \in 0 .. Ticks /\ start_time \in 0 .. Ticks
  /\ delayed \in [Media -> Seq(1 .. Ticks)]
  /\ sender \in [Media -> {"idle", "packet", "write"}] /\ out_pkt \in [Media -> 0 .. Ticks]
  /\ write_mutex \subseteq Media
  /\ muxed \in Seq(0 .. Ticks) /\ drained \in Seq(1 .. Ticks)

StreamerInit ==
  /\ phase = "none" /\ connected = FALSE /\ headerWritten = FALSE
  /\ encoder = [m \in Media |-> "none"]
  /\ clock = 0 /\ start_time = 0
  /\ delayed = [m \in Media |-> <<>>]
  /\ sender = [m \in Media |-> "idle"] /\ out_pkt = [m \in Media |-> 0] /\ write_mutex = {}
  /\ muxed = <<>> /\ lateWrite = FALSE /\ drained = <<>>

-----------------------------------------------------------------------------
(* video_encoder_open: the software encoder stands in only if the hardware    *)
(* one is not built in; one that is there and does not open leaves none.     *)
video_encoder_open == {"hardware", "software", "none"}

audio_encoder_open == {"software", "none"}

(* rtsp_streamer_open: an encoder may be missing; a handshake that fails      *)
(* closes it all again.                                                     *)
rtsp_streamer_open ==
  /\ phase = "none"
  /\ start_time' = clock
  /\ \/ /\ phase' = "open" /\ connected' = TRUE /\ headerWritten' = TRUE
        /\ \E v \in video_encoder_open, a \in audio_encoder_open :
             encoder' = [m \in Media |-> IF m = "video" THEN v ELSE a]
     \/ UNCHANGED connection
  /\ UNCHANGED <<clock, delayed, sender, out_pkt, write_mutex, muxed, streamerHistory>>

(* rtsp_streamer_send_nv12, _nv12_ptr and _audio up to the packet: the time   *)
(* is taken first, and the encoder keeps it with the frame.                  *)
EncodeFails(m) ==
  /\ sender[m] = "idle" /\ phase = "open" /\ connected
  /\ clock < Ticks /\ clock' = clock + 1
  /\ UNCHANGED <<connection, start_time, delayed, sender, out_pkt, write_mutex, muxed,
                 streamerHistory>>

PacketTime(m, frames) == Head(frames)

Encode(m) ==
  /\ sender[m] = "idle" /\ phase = "open" /\ connected /\ encoder[m] # "none"
  /\ clock < Ticks /\ clock' = clock + 1
  /\ LET frames == Append(delayed[m], clock') IN
     \/ /\ Len(frames) <= EncoderDelay
        /\ delayed' = [delayed EXCEPT ![m] = frames]
        /\ UNCHANGED <<sender, out_pkt>>
     \/ /\ delayed' = [delayed EXCEPT ![m] = Tail(frames)]
        /\ sender' = [sender EXCEPT ![m] = "packet"]
        /\ out_pkt' = [out_pkt EXCEPT ![m] = PacketTime(m, frames)]
  /\ UNCHANGED <<connection, start_time, write_mutex, muxed, streamerHistory>>

(* Mutant: the writes are not serialised. *)
WriteUnlocked(m) ==
  /\ sender[m] = "packet"
  /\ sender' = [sender EXCEPT ![m] = "write"]
  /\ UNCHANGED write_mutex
  /\ UNCHANGED <<connection, clock, start_time, delayed, out_pkt, muxed, streamerHistory>>

WriteBegins(m) ==
  /\ sender[m] = "packet" /\ write_mutex = {}
  /\ sender' = [sender EXCEPT ![m] = "write"]
  /\ write_mutex' = {m}
  /\ UNCHANGED <<connection, clock, start_time, delayed, out_pkt, muxed, streamerHistory>>

(* av_interleaved_write_frame returns; an error marks the streamer. *)
WriteEnds(m) ==
  /\ sender[m] = "write"
  /\ sender' = [sender EXCEPT ![m] = "idle"] /\ out_pkt' = [out_pkt EXCEPT ![m] = 0]
  /\ write_mutex' = write_mutex \ {m}
  /\ \/ UNCHANGED connected
        /\ muxed' = IF m = "video" THEN Append(muxed, out_pkt[m]) ELSE muxed
     \/ connected' = FALSE /\ UNCHANGED muxed
  /\ UNCHANGED <<phase, encoder, headerWritten, clock, start_time, delayed, streamerHistory>>

-----------------------------------------------------------------------------
(* rtsp_streamer_close, with no sender inside (StreamerNotClosedInUse of      *)
(* module Monitor).  The flush receives every packet into the same ctx->pkt,  *)
(* and the receive that finds no more blanks it: the muxer gets as many       *)
(* blanks as there were packets.                                            *)
FlushVideo ==
  /\ phase = "open" /\ \A m \in Media : sender[m] = "idle"
  /\ phase' = "flush"
  /\ delayed' = [delayed EXCEPT !["video"] = <<>>]
  /\ drained' = IF connected THEN delayed["video"] ELSE <<>>
  /\ UNCHANGED <<connected, encoder, headerWritten, clock, start_time, sender, out_pkt,
                 write_mutex, muxed, lateWrite>>

(* The trailer, if connected; the audio is flushed after it, or without it.   *)
FlushAudio ==
  /\ phase = "flush"
  /\ phase' = "trailer"
  /\ lateWrite' = (lateWrite \/ (connected /\ delayed["audio"] # <<>>))
  /\ delayed' = [delayed EXCEPT !["audio"] = <<>>]
  /\ UNCHANGED <<connected, encoder, headerWritten, clock, start_time, sender, out_pkt,
                 write_mutex, muxed, drained>>

StreamerFreed ==
  /\ phase = "trailer"
  /\ phase' = "none" /\ connected' = FALSE /\ headerWritten' = FALSE
  /\ encoder' = [m \in Media |-> "none"]
  /\ drained' = <<>>
  /\ UNCHANGED <<clock, start_time, delayed, sender, out_pkt, write_mutex, muxed, lateWrite>>

StreamerNext ==
  \/ rtsp_streamer_open \/ FlushVideo \/ FlushAudio \/ StreamerFreed
  \/ \E m \in Media : EncodeFails(m) \/ Encode(m) \/ WriteBegins(m) \/ WriteEnds(m)

StreamerSpec == StreamerInit /\ [][StreamerNext]_streamerVars

-----------------------------------------------------------------------------
(* Properties. *)

(* One thread at a time is in the muxer, which is not thread-safe, only after *)
(* its header, and over all reconnections it gets the video packets in the    *)
(* order of their capture times, which lie behind the start of the stream;  *)
(* what an encoder keeps is younger than what it has given out                *)
(* (rtsp_streamer.c:120-165, 254-263, video_encoder.c:151-235).              *)
MuxerServedInOrder ==
  /\ \A m, n \in Media : sender[m] = "write" /\ sender[n] = "write" => m = n /\ headerWritten
  /\ \A i, j \in DOMAIN muxed : i < j => muxed[i] < muxed[j]
  /\ \A k \in DOMAIN delayed["video"] :
       /\ delayed["video"][k] > start_time
       /\ \A i \in DOMAIN muxed : muxed[i] < delayed["video"][k]

(* Why: the clock, the encoder's queue, the packet on its way and what was    *)
(* muxed are in this order in time, over all streams.                       *)
TimesInOrder ==
  LET frames == delayed["video"]  packet == out_pkt["video"] IN
  /\ \A i, j \in DOMAIN muxed : i < j => muxed[i] < muxed[j]
  /\ \A i \in DOMAIN muxed : muxed[i] <= clock
  /\ \A i, j \in DOMAIN frames : i < j => frames[i] < frames[j]
  /\ \A i \in DOMAIN frames :
       /\ start_time < frames[i] /\ frames[i] <= clock
       /\ \A j \in DOMAIN muxed : muxed[j] < frames[i]
  /\ sender["video"] # "idle" =>
       /\ packet <= clock
       /\ \A i \in DOMAIN frames : packet < frames[i]
       /\ \A i \in DOMAIN muxed : muxed[i] < packet

MuxerInv ==
  /\ StreamerTypeOK
  /\ \A m \in Media : sender[m] = "write" <=> m \in write_mutex
  /\ \A m, n \in write_mutex : m = n
  /\ \A m \in Media : sender[m] # "idle" => phase = "open"
  /\ phase = "open" => headerWritten
  /\ start_time <= clock
  /\ phase # "open" => delayed["video"] = <<>>
  /\ TimesInOrder

(* video_encoder.c:237, "drain remaining buffered frames".  Violated: they     *)
(* become blanks.                                                           *)
DelayedFramesSent ==
  \A i \in DOMAIN drained : \E j \in DOMAIN muxed : muxed[j] = drained[i]

(* The trailer ends the stream (rtsp_streamer.c:283, 286-300).  Violated: the  *)
(* audio that was kept is flushed after it.                                 *)
NothingAfterTrailer == ~lateWrite

=============================================================================
