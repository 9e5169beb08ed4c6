----------------------------- MODULE Connection -----------------------------
(***************************************************************************)
(* The connection and the bytes on it: NetworkManager decides when there   *)
(* is a connection, FrameStream what arrives on it.  Both share the flag   *)
(* m_isConnected; slotConnected and slotDisconnected act on both.          *)
(***************************************************************************)
EXTENDS NetworkManager, Sequences

CONSTANTS HeaderLen, MaxBuf, Sizes, MaxFrames   (* of FrameStream *)

ASSUME ConnectionAssumption ==
  /\ HeaderLen \in Nat \ {0} /\ MaxBuf \in Nat \ {0}
  /\ Sizes \subseteq Nat /\ MaxFrames \in Nat

VARIABLES sent, wire, m_recvBuf, received   (* of FrameStream *)

Stream == INSTANCE FrameStream WITH connected <- m_isConnected

connectionVars == <<vars, sent, wire, m_recvBuf, received>>

ConnectionTypeOK == TypeOK /\ Stream!TypeOK

ConnectionInit == Init /\ Stream!Init

(* What a step of the connection does to the stream.  A socket that is      *)
(* being closed delivers nothing more.                                      *)
StreamFollows ==
  \/ Stream!slotConnected
  \/ Stream!slotDisconnected
  \/ m_isConnected' = m_isConnected /\ UNCHANGED <<sent, wire, m_recvBuf, received>>

Linked(step) == step /\ StreamFollows

(* Bytes arrive, or the server sends: nothing else changes. *)
Traffic ==
  /\ UNCHANGED vars
  /\ Stream!slotReadyRead \/ \E len \in Sizes : Stream!ServerSends(len)

ConnectionNext == Linked(Next) \/ Traffic

ConnectionSpec == ConnectionInit /\ [][ConnectionNext]_connectionVars

(* The fairness of NetworkManager; nothing is assumed about the bytes. *)
FairConnectionSpec ==
  /\ ConnectionSpec
  /\ WF_connectionVars(Linked(ConnectAtStart))
  /\ WF_connectionVars(Linked(slotReconnect))
  /\ WF_connectionVars(Linked(ConnectionLost))
  /\ WF_connectionVars(Linked(ClosingEnds))

-----------------------------------------------------------------------------
(* Properties. *)

(* Through every way in which a connection ends and a new one begins, frames *)
(* are handed on at most once and in the order of the server, nothing of an   *)
(* earlier connection gets into a later one, and what arrived completely was  *)
(* handed on (networkmanager.cpp:136-165, 184-218).                         *)
FramesWholeInOrder == Stream!InOrderOnce /\ Stream!CompleteFrames

=============================================================================
