----------------------------- MODULE FrameStream ----------------------------
(***************************************************************************)
(* How NetworkManager::slotReadyRead (client/core/networkmanager.cpp) cuts *)
(* the byte stream of a connection into encrypted frames: a header that    *)
(* holds the length of the body, then the body.  TCP hands the bytes over  *)
(* in pieces of any size; a connection may end within a frame.  Connection  *)
(* composes these actions with those of NetworkManager.                     *)
(*                                                                         *)
(* A unit <<f, k>> is the k-th unit of frame f; the header is HeaderLen    *)
(* units.  The authenticated decryption (common/crypto.c) accepts exactly  *)
(* the whole body of one frame.  A header read in the middle of a frame    *)
(* gives any length at all.                                                *)
(***************************************************************************)
EXTENDS Integers, Sequences

CONSTANTS
  HeaderLen,   (* units of a header: 4 bytes in the code                   *)
  MaxBuf,      (* MAX_BUF_SIZE, in units                                   *)
  Sizes,       (* lengths of the bodies the server sends                   *)
  MaxFrames    (* bound: frames on one connection                          *)

VARIABLES
  connected,   (* m_isConnected; Connection says when it changes           *)
  sent,        (* lengths of the frames the server sent on this connection *)
  wire,        (* units sent and not yet received                          *)
  m_recvBuf,   (* units received and not yet cut into frames               *)
  received     (* frames handed to signalReceiveData on this connection    *)

Unit == (1 .. MaxFrames) \X Nat

TypeOK ==
  /\ connected \in BOOLEAN
  /\ sent \in Seq(Sizes) /\ Len(sent) <= MaxFrames
  /\ wire \in Seq(Unit) /\ m_recvBuf \in Seq(Unit)
  /\ Len(m_recvBuf) < HeaderLen + MaxBuf
  /\ received \in Seq(1 .. MaxFrames)

Init ==
  /\ connected = FALSE
  /\ sent = <<>> /\ wire = <<>> /\ m_recvBuf = <<>> /\ received = <<>>

-----------------------------------------------------------------------------

Units(f, len) == [k \in 1 .. (HeaderLen + len) |-> <<f, k>>]

(* The length in the header at the front of buf. *)
EncLen(buf, garbage) ==
  IF SubSeq(buf, 1, HeaderLen) = Units(buf[1][1], 0)
    THEN sent[buf[1][1]] ELSE garbage

Invalid(len) == len <= 0 \/ len > MaxBuf

(* The mid(4, encLen) that is decrypted is the body of one frame. *)
Decrypts(buf, len) ==
  LET f == buf[1][1] IN
  f <= Len(sent) /\ len = sent[f] /\ SubSeq(buf, 1, HeaderLen + len) = Units(f, len)

Behind(buf, n) == SubSeq(buf, n + 1, Len(buf))

(* Mutant: a frame that was handed on is not removed from the buffer at     *)
(* once; the next piece finds it again.                                     *)
CutKeepsFrame(st, garbage) ==
  IF Len(st.buf) < HeaderLen THEN st
  ELSE LET len == EncLen(st.buf, garbage) IN
    IF Invalid(len) THEN [st EXCEPT !.buf = <<>>]
    ELSE IF Len(st.buf) < HeaderLen + len THEN st
    ELSE [buf |-> IF st.got = <<>> THEN st.buf ELSE Behind(st.buf, HeaderLen + len),
          got |-> IF Decrypts(st.buf, len) THEN Append(st.got, st.buf[1][1])
                                           ELSE st.got]

(* One round of the while loop. *)
CutFrame(st, garbage) ==
  IF Len(st.buf) < HeaderLen THEN st
  ELSE LET len == EncLen(st.buf, garbage) IN
    IF Invalid(len) THEN [st EXCEPT !.buf = <<>>]
    ELSE IF Len(st.buf) < HeaderLen + len THEN st
    ELSE [buf |-> Behind(st.buf, HeaderLen + len),
          got |-> IF Decrypts(st.buf, len) THEN Append(st.got, st.buf[1][1])
                                           ELSE st.got]

(* The loop: a round that changes nothing is its end. *)
CutFrames(buf, garbage) ==
  LET rounds[n \in 0 .. Len(buf)] ==
        IF n = 0 THEN [buf |-> buf, got |-> <<>>] ELSE CutFrame(rounds[n - 1], garbage)
  IN  rounds[Len(buf)]

slotReadyRead ==
  /\ connected
  /\ \E n \in 1 .. Len(wire) : \E garbage \in 0 .. (MaxBuf + 1) :
       LET st == CutFrames(m_recvBuf \o SubSeq(wire, 1, n), garbage) IN
       /\ m_recvBuf' = st.buf
       /\ received' = received \o st.got
       /\ wire' = Behind(wire, n)
  /\ UNCHANGED <<connected, sent>>

(* slotConnected and slotDisconnected clear the buffer. *)
ClearedBuffer == <<>>

slotConnected ==
  /\ ~ connected
  /\ connected' = TRUE
  /\ sent' = <<>> /\ wire' = <<>> /\ received' = <<>>
  /\ m_recvBuf' = ClearedBuffer

slotDisconnected ==
  /\ connected
  /\ connected' = FALSE
  /\ wire' = <<>>
  /\ m_recvBuf' = ClearedBuffer
  /\ UNCHANGED <<sent, received>>

(* External: the server sends a frame. *)
ServerSends(len) ==
  /\ connected /\ Len(sent) < MaxFrames
  /\ sent' = Append(sent, len)
  /\ wire' = wire \o Units(Len(sent) + 1, len)
  /\ UNCHANGED <<connected, m_recvBuf, received>>

-----------------------------------------------------------------------------
(* Properties. *)

(* However the bytes are cut and whatever lengths the headers hold, a frame *)
(* is handed on at most once and after all frames sent before it that are   *)
(* handed on (networkmanager.cpp:202-218).                                  *)
InOrderOnce ==
  \A i, j \in DOMAIN received : i < j => received[i] < received[j]

(* While every frame has a legal length, the frames handed on are exactly   *)
(* those that have arrived completely: none is lost, delayed or invented,   *)
(* also after a connection that ended within a frame                        *)
(* (networkmanager.cpp:143, 161, 184-204).                                  *)
Arrived(f) == \A i \in DOMAIN wire : wire[i][1] # f

AllLegal == \A f \in DOMAIN sent : ~ Invalid(sent[f])

CompleteFrames ==
  connected /\ AllLegal =>
    /\ received = [i \in DOMAIN received |-> i]
    /\ {f \in DOMAIN sent : Arrived(f)} = DOMAIN received

(* Why: the units that are left, received or not, are the end of what was    *)
(* sent; ...                                                                *)
UnitAfter(u) ==
  IF u[2] < HeaderLen + sent[u[1]] THEN <<u[1], u[2] + 1>> ELSE <<u[1] + 1, 1>>

EndOfStream(units) ==
  /\ units \in Seq(Nat \X Nat)
  /\ \A i \in 1 .. Len(units) :
       /\ units[i][1] \in 1 .. Len(sent)
       /\ units[i][2] \in 1 .. (HeaderLen + sent[units[i][1]])
       /\ i > 1 => units[i] = UnitAfter(units[i - 1])
  /\ units # <<>> => units[Len(units)] = <<Len(sent), HeaderLen + sent[Len(sent)]>>

(* ... a frame whose first unit is left was not handed on, nor was a later   *)
(* one; ...                                                                 *)
InOrder(units, got) ==
  /\ got \in Seq(1 .. Len(sent))
  /\ \A i, j \in 1 .. Len(got) : i < j => got[i] < got[j]
  /\ \A i \in 1 .. Len(units), j \in 1 .. Len(got) :
       units[i][2] = 1 => got[j] < units[i][1]

(* ... with legal lengths, all frames before the first unit left were handed *)
(* on and the buffer holds less than a frame.                               *)
InStep(units, got) ==
  /\ got = [i \in 1 .. Len(got) |-> i]
  /\ IF units = <<>> THEN Len(got) = Len(sent) ELSE units[1] = <<Len(got) + 1, 1>>

Incomplete(buf) == Len(buf) < HeaderLen \/ Len(buf) < HeaderLen + sent[buf[1][1]]

StreamInv ==
  /\ sent \in Seq(Nat) /\ m_recvBuf \in Seq(Nat \X Nat) /\ wire \in Seq(Nat \X Nat)
  /\ EndOfStream(m_recvBuf \o wire)
  /\ InOrder(m_recvBuf \o wire, received)
  /\ connected /\ AllLegal => InStep(m_recvBuf \o wire, received) /\ Incomplete(m_recvBuf)

=============================================================================
