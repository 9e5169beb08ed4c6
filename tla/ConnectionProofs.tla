-------------------------- MODULE ConnectionProofs --------------------------
(***************************************************************************)
(* Proofs about NetworkManager and Connection.  The first part: NetworkInv *)
(* is an inductive invariant of NetworkManager for every limit on the      *)
(* reconnection attempts and every number of clicks and failures; its      *)
(* three safety properties follow.  The second part: Stream!StreamInv is   *)
(* one of Connection for every length of header, buffer and frame, and     *)
(* gives FramesWholeInOrder.  The loop that cuts the frames is a recursive *)
(* function; what its rounds keep is proved with SetInduction.             *)
(***************************************************************************)
EXTENDS Connection, SetInduction, SequenceTheorems, TLAPS

(* The initial states satisfy the invariant. *)
LEMMA InitNetworkInv == Init => NetworkInv
  BY NetworkAssumption
  DEF Init, NetworkInv, TypeOK, FlagFollowsSocket, NeverIdleOffline,
      m_isConnected, m_reconnectTimer, m_heartbeatTimer

(* A successful connection satisfies the invariant whatever was before. *)
LEMMA SucceedsNetworkInv ==
  ASSUME NetworkInv, ConnectSucceeds,
         message' \in {"none", "retrying"}, server' \in {"up", "down"},
         lastClick' \in {"none", "connect", "disconnect"},
         flips' \in 0 .. MaxFlips, clicks' \in 0 .. MaxClicks
  PROVE  NetworkInv'
  BY NetworkAssumption
  DEF NetworkInv, TypeOK, FlagFollowsSocket, NeverIdleOffline, ConnectSucceeds,
      slotConnected, m_isConnected, m_reconnectTimer, m_heartbeatTimer

(* A failed attempt, counted by the caller or not, satisfies the invariant. *)
LEMMA FailsNetworkInv ==
  ASSUME NetworkInv, NEW count \in {m_reconnectCount, m_reconnectCount + 1},
         count <= MaxReconnect, ConnectFails(count),
         button = "connect" \/ ~ m_isConnected,
         attempts' \in Nat, attempts' <= count,
         message' \in {"none", "retrying"}, server' \in {"up", "down"},
         lastClick' \in {"none", "connect", "disconnect"},
         flips' \in 0 .. MaxFlips, clicks' \in 0 .. MaxClicks,
         m_reconnectTimer \/ count = m_reconnectCount
  PROVE  NetworkInv'
<1> USE NetworkAssumption DEF m_isConnected, m_reconnectTimer, m_heartbeatTimer
<1>1. /\ ~ m_isConnected /\ ~ m_heartbeatTimer
      /\ socket' = "unconnected" /\ button' = button
      /\ count \in Nat /\ m_reconnectCount \in Nat
  BY DEF NetworkInv, TypeOK, FlagFollowsSocket, ConnectFails
<1>2. CASE ~ m_reconnectTimer /\ count < MaxReconnect
  <2>1. m_reconnectCount' = count + 1 /\ active' = active \cup {"reconnect"}
    BY <1>1, <1>2 DEF ConnectFails, slotError
  <2>2. ~ m_isConnected' /\ ~ m_heartbeatTimer' /\ m_reconnectTimer'
    BY <1>1, <2>1
  <2>3. TypeOK'
    BY <1>1, <1>2, <2>1 DEF NetworkInv, TypeOK
  <2>4. attempts' <= m_reconnectCount'
    BY <1>1, <2>1
  <2> QED
    BY <1>1, <2>2, <2>3, <2>4 DEF NetworkInv, FlagFollowsSocket, NeverIdleOffline
<1>3. CASE ~ (~ m_reconnectTimer /\ count < MaxReconnect)
  <2>1. m_reconnectCount' = count /\ active' = active
    BY <1>1, <1>3 DEF ConnectFails, slotError
  <2> QED
    BY <1>1, <1>3, <2>1 DEF NetworkInv, TypeOK, FlagFollowsSocket, NeverIdleOffline
<1> QED
  BY <1>2, <1>3

(* Every step of the timer, the socket, the user or the server keeps it. *)
LEMMA NetworkInvStep == NetworkInv /\ [Next]_vars => NetworkInv'
<1> SUFFICES ASSUME NetworkInv, [Next]_vars PROVE NetworkInv'
  OBVIOUS
<1> USE NetworkAssumption DEF NetworkInv, TypeOK, FlagFollowsSocket, NeverIdleOffline,
      m_isConnected, m_reconnectTimer, m_heartbeatTimer
<1>1. CASE ConnectAtStart
  <2>1. CASE ConnectSucceeds
    BY <1>1, <2>1, SucceedsNetworkInv DEF ConnectAtStart
  <2>2. CASE ConnectFails(m_reconnectCount) /\ UNCHANGED attempts
    BY <1>1, <2>2, FailsNetworkInv DEF ConnectAtStart
  <2> QED
    BY <1>1, <2>1, <2>2 DEF ConnectAtStart
<1>2. CASE slotReconnect
  <2>1. CASE m_reconnectCount >= MaxReconnect
    <3>1. active' = {} /\ m_reconnectTimer
      BY <1>2, <2>1 DEF slotReconnect, GiveUp
    <3> QED
      BY <1>2, <2>1, <3>1 DEF slotReconnect, GiveUp
  <2>2. CASE ~ (m_reconnectCount >= MaxReconnect) /\ ConnectSucceeds
    BY <1>2, <2>2, SucceedsNetworkInv DEF slotReconnect
  <2>3. CASE /\ ~ (m_reconnectCount >= MaxReconnect)
             /\ ConnectFails(m_reconnectCount + 1)
             /\ attempts' = attempts + 1
    BY <1>2, <2>3, FailsNetworkInv DEF slotReconnect
  <2> QED
    BY <1>2, <2>1, <2>2, <2>3 DEF slotReconnect, Attempt
<1>3. CASE ConnectionLost
  BY <1>3 DEF ConnectionLost, slotDisconnected
<1>4. CASE ClickConnect
  <2>1. CASE ConnectSucceeds /\ message' = "none"
    BY <1>4, <2>1, SucceedsNetworkInv DEF ClickConnect
  <2>2. CASE /\ ConnectFails(m_reconnectCount) /\ UNCHANGED attempts
             /\ message' = "retrying"
    BY <1>4, <2>2, FailsNetworkInv DEF ClickConnect
  <2> QED
    BY <1>4, <2>1, <2>2 DEF ClickConnect
<1>5. CASE ClickDisconnect
  <2>1. CASE /\ socket = "connected" /\ socket' = "unconnected"
             /\ slotDisconnected(active \ {"reconnect", "heartbeat"})
    <3>1. CASE m_reconnectCount < MaxReconnect
      <4>1. active' = {"reconnect"} /\ m_reconnectCount' = m_reconnectCount + 1
        BY <2>1, <3>1 DEF slotDisconnected
      <4> QED
        BY <1>5, <2>1, <3>1, <4>1 DEF ClickDisconnect, slotDisconnected
    <3>2. CASE ~ (m_reconnectCount < MaxReconnect)
      <4>1. active' = {} /\ m_reconnectCount' = m_reconnectCount
        BY <2>1, <3>2 DEF slotDisconnected
      <4> QED
        BY <1>5, <2>1, <3>2, <4>1 DEF ClickDisconnect, slotDisconnected
    <3> QED
      BY <3>1, <3>2
  <2>2. CASE /\ socket' = "closing" /\ active' = {}
             /\ UNCHANGED <<m_reconnectCount, button>>
    BY <1>5, <2>2 DEF ClickDisconnect
  <2> QED
    BY <1>5, <2>1, <2>2 DEF ClickDisconnect
<1>6. CASE ClosingEnds
  BY <1>6 DEF ClosingEnds, slotDisconnected
<1>7. CASE MessageExpires
  BY <1>7 DEF MessageExpires
<1>8. CASE ServerFlips
  BY <1>8 DEF ServerFlips
<1>9. CASE UNCHANGED vars
  BY <1>9 DEF vars
<1> QED
  BY <1>1, <1>2, <1>3, <1>4, <1>5, <1>6, <1>7, <1>8, <1>9 DEF Next

(* The strengthened invariant holds in every reachable state. *)
THEOREM NetworkInvariant == Spec => []NetworkInv
  BY InitNetworkInv, NetworkInvStep, PTL DEF Spec

(* isConnected() and the heartbeat timer follow the socket through every    *)
(* slot and click (networkmanager.cpp:73-93, 136-177).                      *)
THEOREM FlagCorrect == Spec => []FlagFollowsSocket
<1>1. NetworkInv => FlagFollowsSocket
  BY DEF NetworkInv
<1> QED
  BY <1>1, NetworkInvariant, PTL

(* The client never gives up silently: offline with attempts left, its      *)
(* timer runs unless the user has disconnected it.                          *)
THEOREM NeverIdle == Spec => []NeverIdleOffline
<1>1. NetworkInv => NeverIdleOffline
  BY DEF NetworkInv
<1> QED
  BY <1>1, NetworkInvariant, PTL

(* At most MAX_RECONNECT_COUNT attempts in a row, for every such limit. *)
THEOREM AttemptsAreBounded == Spec => []AttemptsBounded
<1>1. NetworkInv => AttemptsBounded
  BY NetworkAssumption DEF NetworkInv, TypeOK, AttemptsBounded
<1> QED
  BY <1>1, NetworkInvariant, PTL

-----------------------------------------------------------------------------
(* A round of the loop, and what it starts from.                            *)
Round(st, garbage) == Stream!CutFrame(st, garbage)
Start(buf) == [buf |-> buf, got |-> <<>>]

(* The rounds of the loop, one after the other.                             *)
LEMMA Rounds ==
  ASSUME NEW buf \in Seq(Nat \X Nat), NEW garbage
  PROVE  \E rounds :
           /\ Stream!CutFrames(buf, garbage) = rounds[Len(buf)]
           /\ rounds[0] = Start(buf)
           /\ \A n \in 1 .. Len(buf) : rounds[n] = Round(rounds[n - 1], garbage)
<1> DEFINE Rec(f, k) ==
      f = [n \in 0 .. k |-> IF n = 0 THEN Start(buf) ELSE Round(f[n - 1], garbage)]
           S == {k \in Nat : \E f : Rec(f, k)}
<1>1. 0 \in S
  <2>1. PICK f : f = [n \in 0 .. 0 |-> Start(buf)]
    OBVIOUS
  <2>2. Rec(f, 0)
    BY <2>1
  <2> QED BY <2>2
<1>2. ASSUME NEW k \in Nat, k \in S
      PROVE  k + 1 \in S
  <2>1. PICK f : Rec(f, k)
    BY <1>2
  <2>2. PICK g : g = [n \in 0 .. (k + 1) |-> IF n = k + 1 THEN Round(f[k], garbage) ELSE f[n]]
    OBVIOUS
  <2>3. ASSUME NEW n \in 0 .. (k + 1)
        PROVE  g[n] = IF n = 0 THEN Start(buf) ELSE Round(g[n - 1], garbage)
    <3>1. CASE n = k + 1
      <4>1. g[n] = Round(f[k], garbage) /\ g[n - 1] = f[k] /\ n # 0
        BY <2>2, <3>1
      <4> QED BY <4>1
    <3>2. CASE n = 0
      BY <2>1, <2>2, <3>2
    <3>3. CASE n \in 1 .. k
      <4>1. g[n] = f[n] /\ g[n - 1] = f[n - 1] /\ n # 0
        BY <2>2, <3>3
      <4>2. f[n] = Round(f[n - 1], garbage)
        BY <2>1, <3>3
      <4> QED BY <4>1, <4>2
    <3> QED BY <3>1, <3>2, <3>3
  <2>4. Rec(g, k + 1)
    BY <2>2, <2>3
  <2> HIDE DEF Rec
  <2>5. \E h : Rec(h, k + 1)
    BY <2>4
  <2> QED BY <2>5
<1>3. Len(buf) \in Nat
  BY LenProperties
<1>4. \E f : Rec(f, Len(buf))
  <2> HIDE DEF S
  <2>1. Nat \subseteq S
    BY <1>1, <1>2, Induction
  <2>2. Len(buf) \in S
    BY <1>3, <2>1
  <2> QED BY <2>2 DEF S
<1>5. PICK rounds : rounds = CHOOSE f : Rec(f, Len(buf))
  OBVIOUS
<1>6. Rec(rounds, Len(buf))
  BY <1>4, <1>5
<1>7. Stream!CutFrames(buf, garbage) = rounds[Len(buf)]
  BY <1>5 DEF Stream!CutFrames, Round, Start
<1>8. /\ rounds[0] = Start(buf)
      /\ \A n \in 1 .. Len(buf) : rounds[n] = Round(rounds[n - 1], garbage)
  <2>1. PICK g : g = [n \in 0 .. Len(buf) |->
                        IF n = 0 THEN Start(buf) ELSE Round(rounds[n - 1], garbage)]
    OBVIOUS
  <2>2. rounds = g
    BY <1>6, <2>1
  <2>3. g[0] = Start(buf)
    BY <1>3, <2>1
  <2>4. ASSUME NEW n \in 1 .. Len(buf)
        PROVE  g[n] = Round(rounds[n - 1], garbage)
    BY <1>3, <2>1
  <2> QED BY <2>2, <2>3, <2>4
<1> QED BY <1>7, <1>8

(* What is behind the first units of a sequence, and what concatenating it  *)
(* with more gives.                                                         *)
LEMMA BehindProperties ==
  ASSUME NEW S, NEW s \in Seq(S), NEW n \in 0 .. Len(s)
  PROVE  /\ Stream!Behind(s, n) \in Seq(S) /\ Len(Stream!Behind(s, n)) = Len(s) - n
         /\ \A i \in 1 .. (Len(s) - n) : Stream!Behind(s, n)[i] = s[n + i]
<1>1. Len(s) \in Nat /\ \A i \in 1 .. Len(s) : s[i] \in S
  BY LenProperties, ElementOfSeq
<1>2. PICK a \in Int, b \in Int : a = n + 1 /\ b = Len(s)
  BY <1>1
<1>3. \A i \in a .. b : s[i] \in S
  BY <1>1, <1>2
<1>4. /\ SubSeq(s, a, b) \in Seq(S)
      /\ Len(SubSeq(s, a, b)) = IF a <= b THEN b - a + 1 ELSE 0
      /\ \A i \in 1 .. b - a + 1 : SubSeq(s, a, b)[i] = s[a + i - 1]
  BY <1>3, SubSeqProperties
<1>5. PICK t : t = SubSeq(s, a, b)
  OBVIOUS
<1>6. t \in Seq(S) /\ Len(t) = Len(s) - n
  BY <1>1, <1>2, <1>4, <1>5
<1>7. ASSUME NEW i \in 1 .. (Len(s) - n)
      PROVE  t[i] = s[n + i]
  <2>1. i \in 1 .. b - a + 1 /\ a + i - 1 = n + i
    BY <1>1, <1>2
  <2> QED BY <1>4, <1>5, <2>1
<1> QED BY <1>2, <1>5, <1>6, <1>7 DEF Stream!Behind

(* The first units of a sequence.                                           *)
LEMMA FrontProperties ==
  ASSUME NEW S, NEW s \in Seq(S), NEW n \in 0 .. Len(s)
  PROVE  /\ SubSeq(s, 1, n) \in Seq(S) /\ Len(SubSeq(s, 1, n)) = n
         /\ \A i \in 1 .. n : SubSeq(s, 1, n)[i] = s[i]
<1>1. Len(s) \in Nat /\ \A i \in 1 .. Len(s) : s[i] \in S
  BY LenProperties, ElementOfSeq
<1>2. PICK a \in Int, b \in Int : a = 1 /\ b = n
  BY <1>1
<1>3. \A i \in a .. b : s[i] \in S
  BY <1>1, <1>2
<1>4. /\ SubSeq(s, a, b) \in Seq(S)
      /\ Len(SubSeq(s, a, b)) = IF a <= b THEN b - a + 1 ELSE 0
      /\ \A i \in 1 .. b - a + 1 : SubSeq(s, a, b)[i] = s[a + i - 1]
  BY <1>3, SubSeqProperties
<1>5. PICK t : t = SubSeq(s, a, b)
  OBVIOUS
<1>6. t \in Seq(S) /\ Len(t) = n
  BY <1>1, <1>2, <1>4, <1>5
<1>7. ASSUME NEW i \in 1 .. n
      PROVE  t[i] = s[i]
  <2>1. i \in 1 .. b - a + 1 /\ a + i - 1 = i
    BY <1>1, <1>2
  <2> QED BY <1>4, <1>5, <2>1
<1> QED BY <1>2, <1>5, <1>6, <1>7

(* Taking units away commutes with what follows.                            *)
LEMMA BehindOfConcat ==
  ASSUME NEW S, NEW s \in Seq(S), NEW t \in Seq(S), NEW n \in 0 .. Len(s)
  PROVE  /\ n \in 0 .. Len(s \o t)
         /\ Stream!Behind(s, n) \o t = Stream!Behind(s \o t, n)
<1>1. Len(s) \in Nat /\ Len(t) \in Nat
  BY LenProperties
<1>2. PICK b : b = Stream!Behind(s, n)
  OBVIOUS
<1>3. b \in Seq(S) /\ Len(b) = Len(s) - n /\ \A i \in 1 .. (Len(s) - n) : b[i] = s[n + i]
  BY <1>2, BehindProperties
<1>4. PICK st : st = s \o t
  OBVIOUS
<1>5. /\ st \in Seq(S) /\ Len(st) = Len(s) + Len(t)
      /\ \A i \in 1 .. Len(s) + Len(t) : st[i] = IF i <= Len(s) THEN s[i] ELSE t[i - Len(s)]
  BY <1>4, ConcatProperties
<1>6. n \in 0 .. Len(st)
  BY <1>1, <1>5
<1>7. PICK x : x = b \o t
  OBVIOUS
<1>8. /\ x \in Seq(S) /\ Len(x) = Len(b) + Len(t)
      /\ \A i \in 1 .. Len(b) + Len(t) : x[i] = IF i <= Len(b) THEN b[i] ELSE t[i - Len(b)]
  BY <1>3, <1>7, ConcatProperties
<1>9. PICK y : y = Stream!Behind(st, n)
  OBVIOUS
<1>10. y \in Seq(S) /\ Len(y) = Len(st) - n /\ \A i \in 1 .. (Len(st) - n) : y[i] = st[n + i]
  BY <1>5, <1>6, <1>9, BehindProperties
<1>11. Len(x) = Len(y)
  BY <1>1, <1>3, <1>5, <1>8, <1>10
<1>12. ASSUME NEW i \in 1 .. Len(x)
       PROVE  x[i] = y[i]
  <2>1. i \in 1 .. (Len(st) - n) /\ n + i \in 1 .. Len(s) + Len(t) /\ i \in 1 .. Len(b) + Len(t)
    BY <1>1, <1>3, <1>5, <1>8
  <2>2. y[i] = st[n + i]
    BY <1>10, <2>1
  <2>3. CASE i <= Len(b)
    <3>1. x[i] = b[i] /\ b[i] = s[n + i]
      BY <1>1, <1>3, <1>8, <2>1, <2>3
    <3>2. n + i <= Len(s)
      BY <1>1, <1>3, <2>3
    <3> QED BY <1>5, <2>1, <2>2, <3>1, <3>2
  <2>4. CASE ~ (i <= Len(b))
    <3>1. x[i] = t[i - Len(b)]
      BY <1>8, <2>1, <2>4
    <3>2. ~ (n + i <= Len(s)) /\ n + i - Len(s) = i - Len(b)
      BY <1>1, <1>3, <2>1, <2>4
    <3>3. st[n + i] = t[n + i - Len(s)]
      BY <1>5, <2>1, <3>2
    <3> QED BY <2>2, <3>1, <3>2, <3>3
  <2> QED BY <2>3, <2>4
<1>13. x = y
  BY <1>8, <1>10, <1>11, <1>12, SeqEqual
<1> QED BY <1>2, <1>4, <1>6, <1>7, <1>9, <1>13

(* Appending to the second of two sequences appends to both.                *)
LEMMA AppendOfConcat ==
  ASSUME NEW S, NEW s \in Seq(S), NEW t \in Seq(S), NEW e \in S
  PROVE  s \o Append(t, e) = Append(s \o t, e)
<1>1. PICK u : u = Append(t, e)
  OBVIOUS
<1>2. /\ u \in Seq(S) /\ Len(u) = Len(t) + 1 /\ u[Len(t) + 1] = e
      /\ \A i \in 1 .. Len(t) : u[i] = t[i]
  BY <1>1, AppendProperties
<1>3. PICK x : x = s \o u
  OBVIOUS
<1>4. /\ x \in Seq(S) /\ Len(x) = Len(s) + Len(u)
      /\ \A i \in 1 .. Len(s) + Len(u) : x[i] = IF i <= Len(s) THEN s[i] ELSE u[i - Len(s)]
  <2>1. \A a \in Seq(S), b \in Seq(S) :
          /\ a \o b \in Seq(S) /\ Len(a \o b) = Len(a) + Len(b)
          /\ \A i \in 1 .. Len(a) + Len(b) : (a \o b)[i] = IF i <= Len(a) THEN a[i] ELSE b[i - Len(a)]
    BY ConcatProperties
  <2> QED BY <1>2, <1>3, <2>1
<1>5. PICK v : v = s \o t
  OBVIOUS
<1>6. /\ v \in Seq(S) /\ Len(v) = Len(s) + Len(t)
      /\ \A i \in 1 .. Len(s) + Len(t) : v[i] = IF i <= Len(s) THEN s[i] ELSE t[i - Len(s)]
  BY <1>5, ConcatProperties
<1>7. PICK y : y = Append(v, e)
  OBVIOUS
<1>8. /\ y \in Seq(S) /\ Len(y) = Len(v) + 1 /\ y[Len(v) + 1] = e
      /\ \A i \in 1 .. Len(v) : y[i] = v[i]
  BY <1>6, <1>7, AppendProperties
<1>9. PICK a \in Nat, b \in Nat : a = Len(s) /\ b = Len(t)
  BY LenProperties
<1>10. Len(x) = a + b + 1 /\ Len(y) = a + b + 1 /\ Len(v) = a + b /\ Len(u) = b + 1
  BY <1>2, <1>4, <1>6, <1>8, <1>9
<1>11. ASSUME NEW i \in 1 .. a + b + 1
       PROVE  x[i] = y[i]
  <2>1. CASE i = a + b + 1
    <3>1. i - a = b + 1 /\ ~ (i <= a)
      BY <2>1
    <3>2. x[i] = u[b + 1]
      BY <1>4, <1>9, <1>10, <2>1, <3>1
    <3> QED BY <1>2, <1>8, <1>9, <1>10, <2>1, <3>2
  <2>2. CASE i \in 1 .. a
    <3>1. x[i] = s[i] /\ v[i] = s[i] /\ y[i] = v[i]
      BY <1>4, <1>6, <1>8, <1>9, <1>10, <2>2
    <3> QED BY <3>1
  <2>3. CASE i \in a + 1 .. a + b
    <3>1. i - a \in 1 .. b /\ ~ (i <= a)
      BY <2>3
    <3>2. x[i] = u[i - a] /\ v[i] = t[i - a] /\ y[i] = v[i]
      BY <1>4, <1>6, <1>8, <1>9, <1>10, <2>3, <3>1
    <3> QED BY <1>2, <1>9, <3>1, <3>2
  <2> QED BY <2>1, <2>2, <2>3
<1>12. x = y
  BY <1>4, <1>8, <1>10, <1>11, SeqEqual
<1> QED BY <1>1, <1>3, <1>5, <1>7, <1>12

(* The first n units of t moved to the end of s.                            *)
Moved(S, s, t, n) ==
  /\ s \o SubSeq(t, 1, n) \in Seq(S)
  /\ Stream!Behind(t, n) \in Seq(S)
  /\ (s \o SubSeq(t, 1, n)) \o Stream!Behind(t, n) = s \o t

(* Moving units from one sequence to the other keeps the whole.             *)
LEMMA MovedUnits ==
  ASSUME NEW S, NEW s \in Seq(S), NEW t \in Seq(S), NEW n \in 0 .. Len(t)
  PROVE  Moved(S, s, t, n)
<1>1. SubSeq(t, 1, n) \in Seq(S) /\ Stream!Behind(t, n) \in Seq(S)
  BY FrontProperties, BehindProperties
<1>2. SubSeq(t, 1, n) \o Stream!Behind(t, n) = t
  <2>1. Len(t) \in Nat
    BY LenProperties
  <2>2. PICK m, k, z : m = 1 /\ k = n /\ z = Len(t)
    OBVIOUS
  <2>3. m \in 1 .. Len(t) + 1 /\ k \in m - 1 .. Len(t) /\ z \in k .. Len(t)
    BY <2>1, <2>2
  <2>4. SubSeq(t, m, k) \o SubSeq(t, k + 1, z) = SubSeq(t, m, z)
    BY <2>3, ConcatAdjacentSubSeq
  <2>5. SubSeq(t, 1, Len(t)) = t
    BY SubSeqFull
  <2> QED BY <2>2, <2>4, <2>5 DEF Stream!Behind
<1>3. s \o SubSeq(t, 1, n) \in Seq(S)
  BY <1>1, ConcatProperties
<1>4. (s \o SubSeq(t, 1, n)) \o Stream!Behind(t, n)
        = s \o (SubSeq(t, 1, n) \o Stream!Behind(t, n))
  <2>1. PICK front \in Seq(S), rest \in Seq(S) :
          front = SubSeq(t, 1, n) /\ rest = Stream!Behind(t, n)
    BY <1>1
  <2>2. (s \o front) \o rest = s \o (front \o rest)
    BY ConcatAssociative
  <2> QED BY <2>1, <2>2
<1> QED BY <1>1, <1>2, <1>3, <1>4 DEF Moved

-----------------------------------------------------------------------------

(* What the end of the stream is, with its length and the lengths of its    *)
(* frames as numbers.                                                       *)
Facts(units, n, m) ==
  /\ n = Len(units) /\ DOMAIN units = 1 .. n /\ (units # <<>> <=> n # 0)
  /\ m = Len(sent) /\ DOMAIN sent = 1 .. m
  /\ \A i \in 1 .. n :
       /\ units[i][1] \in 1 .. m /\ units[i][2] \in 1 .. (HeaderLen + sent[units[i][1]])
       /\ units[i] = <<units[i][1], units[i][2]>>
       /\ i > 1 => units[i] = Stream!UnitAfter(units[i - 1])
  /\ n # 0 => units[n] = <<m, HeaderLen + sent[m]>>

(* The end of the stream has these lengths.                                 *)
LEMMA EndFacts ==
  ASSUME NEW units, Stream!EndOfStream(units), sent \in Seq(Nat)
  PROVE  units \in Seq(Nat \X Nat) /\ \E n \in Nat, m \in Nat : Facts(units, n, m)
<1>1. units \in Seq(Nat \X Nat)
  BY DEF Stream!EndOfStream
<1>2. PICK n \in Nat, m \in Nat :
        n = Len(units) /\ DOMAIN units = 1 .. n /\ m = Len(sent) /\ DOMAIN sent = 1 .. m
  BY <1>1, LenProperties
<1>3. units # <<>> <=> n # 0
  BY <1>1, <1>2, EmptySeq
<1>4. \A i \in 1 .. n : units[i] = <<units[i][1], units[i][2]>>
  <2>1. \A i \in 1 .. n : units[i] \in Nat \X Nat
    BY <1>1, <1>2, ElementOfSeq
  <2> QED BY <2>1
<1>5. \A i \in 1 .. n :
        /\ units[i][1] \in 1 .. m /\ units[i][2] \in 1 .. (HeaderLen + sent[units[i][1]])
        /\ i > 1 => units[i] = Stream!UnitAfter(units[i - 1])
  BY <1>2 DEF Stream!EndOfStream
<1>6. n # 0 => units[n] = <<m, HeaderLen + sent[m]>>
  BY <1>2, <1>3 DEF Stream!EndOfStream
<1>7. Facts(units, n, m)
  BY <1>2, <1>3, <1>4, <1>5, <1>6 DEF Facts
<1> QED BY <1>1, <1>7

(* Less of the end of the stream is also the end of the stream, in which    *)
(* the frames follow each other.                                            *)
LEMMA EndKept ==
  ASSUME NEW units, Stream!EndOfStream(units), sent \in Seq(Nat), NEW k \in 0 .. Len(units)
  PROVE  Stream!EndOfStream(Stream!Behind(units, k))
<1>1. units \in Seq(Nat \X Nat)
  BY EndFacts
<1>2. PICK n \in Nat, m \in Nat : Facts(units, n, m)
  BY EndFacts
<1>3. PICK b, bl : b = Stream!Behind(units, k) /\ bl = n - k
  OBVIOUS
<1>4. /\ b \in Seq(Nat \X Nat) /\ Len(b) = bl /\ \A i \in 1 .. bl : b[i] = units[k + i]
  <2>1. PICK S : S = Nat \X Nat
    OBVIOUS
  <2>2. units \in Seq(S)
    BY <1>1, <2>1
  <2>3. /\ Stream!Behind(units, k) \in Seq(S) /\ Len(Stream!Behind(units, k)) = Len(units) - k
        /\ \A i \in 1 .. (Len(units) - k) : Stream!Behind(units, k)[i] = units[k + i]
    BY <2>2, BehindProperties
  <2>4. Len(units) - k = bl
    BY <1>2, <1>3 DEF Facts
  <2> QED BY <1>3, <2>1, <2>3, <2>4
<1>5. k \in 0 .. n /\ bl \in Nat
  BY <1>2, <1>3 DEF Facts
<1>6. ASSUME NEW i \in 1 .. bl
      PROVE  /\ b[i][1] \in 1 .. m /\ b[i][2] \in 1 .. (HeaderLen + sent[b[i][1]])
             /\ i > 1 => b[i] = Stream!UnitAfter(b[i - 1])
  <2>1. b[i] = units[k + i] /\ k + i \in 1 .. n
    BY <1>3, <1>4, <1>5
  <2>2. ASSUME i > 1
        PROVE  b[i] = Stream!UnitAfter(b[i - 1])
    <3>1. i - 1 \in 1 .. bl /\ k + (i - 1) = k + i - 1 /\ k + i > 1
      BY <1>5, <2>2
    <3>2. b[i - 1] = units[k + i - 1]
      BY <1>4, <3>1
    <3>3. units[k + i] = Stream!UnitAfter(units[k + i - 1])
      BY <1>2, <2>1, <3>1 DEF Facts
    <3> QED BY <2>1, <3>2, <3>3
  <2>3. b[i][1] \in 1 .. m /\ b[i][2] \in 1 .. (HeaderLen + sent[b[i][1]])
    BY <1>2, <2>1 DEF Facts
  <2> QED BY <2>2, <2>3
<1>7. ASSUME b # <<>>
      PROVE  b[bl] = <<m, HeaderLen + sent[m]>>
  <2>1. bl # 0
    BY <1>4, <1>7, EmptySeq
  <2>2. bl \in 1 .. bl /\ k + bl = n /\ n # 0
    BY <1>3, <1>5, <2>1
  <2>3. b[bl] = units[n]
    BY <1>4, <2>2
  <2> QED BY <1>2, <2>2, <2>3 DEF Facts
<1>8. m = Len(sent)
  BY <1>2 DEF Facts
<1>9. Stream!EndOfStream(b)
  BY <1>4, <1>6, <1>7, <1>8 DEF Stream!EndOfStream
<1> QED BY <1>3, <1>9

(* The units left are in the order of their frames.                         *)
LEMMA FramesRise ==
  ASSUME NEW units, NEW n \in Nat, NEW m \in Nat, Facts(units, n, m)
  PROVE  \A i, j \in 1 .. n : i <= j => units[i][1] <= units[j][1]
<1>1. ASSUME NEW i \in 1 .. n, i > 1
      PROVE  units[i - 1][1] <= units[i][1]
  <2>1. units[i] = Stream!UnitAfter(units[i - 1]) /\ i - 1 \in 1 .. n
    BY <1>1 DEF Facts
  <2>2. units[i][1] = units[i - 1][1] \/ units[i][1] = units[i - 1][1] + 1
    BY <2>1 DEF Stream!UnitAfter
  <2>3. units[i - 1][1] \in Nat
    BY <2>1 DEF Facts
  <2> QED BY <2>2, <2>3
<1> DEFINE S == {d \in Nat : \A i \in 1 .. n :
                   i + d \in 1 .. n => units[i][1] <= units[i + d][1]}
<1>2. \A i \in 1 .. n : units[i][1] \in Nat
  BY DEF Facts
<1>3. 0 \in S
  <2>1. \A i \in 1 .. n : i + 0 = i /\ units[i][1] <= units[i][1]
    BY <1>2
  <2> QED BY <2>1
<1>4. ASSUME NEW d \in Nat, d \in S
      PROVE  d + 1 \in S
  <2>1. ASSUME NEW i \in 1 .. n, i + (d + 1) \in 1 .. n
        PROVE  units[i][1] <= units[i + (d + 1)][1]
    <3>1. PICK j : j = i + (d + 1)
      OBVIOUS
    <3>2. j \in 1 .. n /\ i + d \in 1 .. n /\ j > 1 /\ j - 1 = i + d
      BY <2>1, <3>1
    <3>3. units[i][1] <= units[i + d][1] /\ units[i + d][1] <= units[j][1]
      BY <1>1, <1>4, <3>2
    <3>4. units[i][1] \in Nat /\ units[i + d][1] \in Nat /\ units[j][1] \in Nat
      BY <1>2, <3>2
    <3> QED BY <3>1, <3>3, <3>4
  <2> QED BY <2>1
<1>5. Nat \subseteq S
  <2> HIDE DEF S
  <2> QED BY <1>3, <1>4, Induction
<1>6. ASSUME NEW i \in 1 .. n, NEW j \in 1 .. n, i <= j
      PROVE  units[i][1] <= units[j][1]
  <2>1. PICK d \in Nat : i + d = j
    <3>1. j - i \in Nat /\ i + (j - i) = j
      BY <1>6
    <3> QED BY <3>1
  <2>2. d \in S
    BY <1>5, <2>1
  <2> QED BY <2>1, <2>2
<1> QED BY <1>6

(* The first units are those of frame f, and then the next one begins.      *)
Whole(units, n, m, f, len) ==
  /\ len = HeaderLen + sent[f]
  /\ \A i \in 1 .. len : units[i] = <<f, i>>
  /\ n = len => f = m
  /\ n # len => units[len + 1] = <<f + 1, 1>>

(* A frame whose first unit comes first is there whole, before the next one. *)
LEMMA FirstFrame ==
  ASSUME NEW units, NEW n \in Nat, NEW m \in Nat, Facts(units, n, m), sent \in Seq(Nat),
         NEW f, n # 0, units[1] = <<f, 1>>
  PROVE  f \in 1 .. m /\ sent[f] \in Nat
         /\ \E len \in 1 .. n : Whole(units, n, m, f, len)
<1>1. HeaderLen \in Nat \ {0}
  BY ConnectionAssumption DEF ConnectionAssumption
<1>2. f \in 1 .. m /\ sent[f] \in Nat
  <2>1. 1 \in 1 .. n /\ units[1][1] = f
    OBVIOUS
  <2>2. f \in 1 .. m
    BY <2>1 DEF Facts
  <2> QED BY <2>2, ElementOfSeq DEF Facts
<1>3. PICK len \in Nat \ {0} : len = HeaderLen + sent[f]
  BY <1>1, <1>2
<1> DEFINE S == {d \in Nat : d + 1 <= len /\ d + 1 <= n => units[d + 1] = <<f, d + 1>>}
<1>4. 0 \in S
  OBVIOUS
<1>5. ASSUME NEW d \in Nat, d \in S
      PROVE  d + 1 \in S
  <2>1. ASSUME d + 1 + 1 <= len, d + 1 + 1 <= n
        PROVE  units[d + 1 + 1] = <<f, d + 1 + 1>>
    <3>1. PICK k : k = d + 1 + 1
      OBVIOUS
    <3>2. units[k - 1] = <<f, k - 1>>
      BY <1>5, <2>1, <3>1
    <3>3. k \in 1 .. n /\ k > 1 /\ k - 1 < len
      BY <2>1, <3>1
    <3>4. units[k] = Stream!UnitAfter(units[k - 1])
      BY <3>3 DEF Facts
    <3>5. units[k] = <<f, k - 1 + 1>>
      BY <1>3, <3>2, <3>3, <3>4 DEF Stream!UnitAfter
    <3> QED BY <3>1, <3>5
  <2> QED BY <2>1
<1>6. Nat \subseteq S
  <2> HIDE DEF S
  <2> QED BY <1>4, <1>5, Induction
<1>7. ASSUME NEW i \in 1 .. len, i <= n
      PROVE  units[i] = <<f, i>>
  <2>1. PICK d \in Nat : d + 1 = i
    <3>1. i - 1 \in Nat /\ i - 1 + 1 = i
      OBVIOUS
    <3> QED BY <3>1
  <2>2. d \in S
    BY <1>6, <2>1
  <2> QED BY <1>7, <2>1, <2>2
<1>8. units[n] = <<m, HeaderLen + sent[m]>>
  BY DEF Facts
<1>9. len <= n
  <2> SUFFICES ASSUME ~ (len <= n)
               PROVE  FALSE
    OBVIOUS
  <2>1. n \in 1 .. len
    OBVIOUS
  <2>2. units[n] = <<f, n>>
    BY <1>7, <2>1
  <2>3. f = m /\ n = HeaderLen + sent[m]
    BY <1>8, <2>2
  <2> QED BY <1>3, <2>3
<1>10. len \in 1 .. n /\ units[len] = <<f, len>>
  BY <1>7, <1>9
<1>11. n = len => f = m
  BY <1>8, <1>10
<1>12. ASSUME n # len
       PROVE  units[len + 1] = <<f + 1, 1>>
  <2>1. PICK k : k = len + 1
    OBVIOUS
  <2>2. k \in 1 .. n /\ k > 1 /\ k - 1 = len
    BY <1>9, <1>12, <2>1
  <2>3. units[k] = Stream!UnitAfter(units[k - 1])
    BY <2>2 DEF Facts
  <2>4. ~ (len < HeaderLen + sent[f])
    BY <1>3
  <2> QED BY <1>10, <2>1, <2>2, <2>3, <2>4 DEF Stream!UnitAfter
<1>13. \A i \in 1 .. len : units[i] = <<f, i>>
  BY <1>7, <1>9
<1>14. Whole(units, n, m, f, len)
  BY <1>3, <1>11, <1>12, <1>13 DEF Whole
<1> QED BY <1>2, <1>10, <1>14

(* Less of what is left keeps the order of the frames handed on.            *)
LEMMA OrderKept ==
  ASSUME NEW units, Stream!EndOfStream(units), sent \in Seq(Nat), NEW k \in 0 .. Len(units),
         NEW got, Stream!InOrder(units, got)
  PROVE  Stream!InOrder(Stream!Behind(units, k), got)
<1>1. units \in Seq(Nat \X Nat)
  BY EndFacts
<1>2. PICK n \in Nat : n = Len(units)
  BY <1>1, LenProperties
<1>3. PICK b : b = Stream!Behind(units, k)
  OBVIOUS
<1>4. Len(b) = n - k /\ \A i \in 1 .. (n - k) : b[i] = units[k + i]
  <2>1. PICK S : S = Nat \X Nat
    OBVIOUS
  <2>2. units \in Seq(S)
    BY <1>1, <2>1
  <2>3. /\ Len(Stream!Behind(units, k)) = Len(units) - k
        /\ \A i \in 1 .. (Len(units) - k) : Stream!Behind(units, k)[i] = units[k + i]
    BY <2>2, BehindProperties
  <2> QED BY <1>2, <1>3, <2>3
<1>5. ASSUME NEW i \in 1 .. Len(b), NEW j \in 1 .. Len(got), b[i][2] = 1
      PROVE  got[j] < b[i][1]
  <2>1. b[i] = units[k + i] /\ k + i \in 1 .. n
    BY <1>2, <1>4
  <2> QED BY <1>2, <1>5, <2>1 DEF Stream!InOrder
<1> QED BY <1>3, <1>5 DEF Stream!InOrder

(* A frame that is handed on is the first of those left and later than those *)
(* handed on before; when it is taken away, the next frame is the first.    *)
LEMMA FrameTaken ==
  ASSUME NEW units, Stream!EndOfStream(units), sent \in Seq(Nat),
         NEW got, Stream!InOrder(units, got),
         NEW f, units # <<>>, units[1] = <<f, 1>>
  PROVE  /\ HeaderLen + sent[f] \in 0 .. Len(units)
         /\ LET rest == Stream!Behind(units, HeaderLen + sent[f]) IN
              /\ Stream!InOrder(rest, Append(got, f))
              /\ Stream!InStep(units, got) => Stream!InStep(rest, Append(got, f))
<1>1. units \in Seq(Nat \X Nat)
  BY EndFacts
<1>2. PICK n \in Nat, m \in Nat : Facts(units, n, m)
  BY EndFacts
<1>3. n # 0 /\ n = Len(units) /\ m = Len(sent)
  BY <1>2 DEF Facts
<1>4. f \in 1 .. m /\ sent[f] \in Nat
  BY <1>2, <1>3, FirstFrame
<1>5. PICK len \in 1 .. n : Whole(units, n, m, f, len)
  BY <1>2, <1>3, FirstFrame
<1>6. PICK b : b = Stream!Behind(units, len)
  OBVIOUS
<1>7. PICK bl \in Nat : bl = n - len
  OBVIOUS
<1>8. b \in Seq(Nat \X Nat) /\ Len(b) = bl /\ \A i \in 1 .. bl : b[i] = units[len + i]
  <2>1. PICK S : S = Nat \X Nat
    OBVIOUS
  <2>2. units \in Seq(S) /\ len \in 0 .. Len(units)
    BY <1>1, <1>3, <2>1
  <2>3. /\ Stream!Behind(units, len) \in Seq(S)
        /\ Len(Stream!Behind(units, len)) = Len(units) - len
        /\ \A i \in 1 .. (Len(units) - len) : Stream!Behind(units, len)[i] = units[len + i]
    BY <2>2, BehindProperties
  <2> QED BY <1>3, <1>6, <1>7, <2>1, <2>3
<1>9. PICK g \in Nat : g = Len(got)
  BY LenProperties DEF Stream!InOrder
<1>10. PICK more : more = Append(got, f)
  OBVIOUS
<1>11. /\ more \in Seq(1 .. m) /\ Len(more) = g + 1 /\ more[g + 1] = f
       /\ \A i \in 1 .. g : more[i] = got[i]
  <2>1. PICK S : S = 1 .. m
    OBVIOUS
  <2>2. got \in Seq(S) /\ f \in S
    BY <1>3, <1>4, <2>1 DEF Stream!InOrder
  <2>3. /\ Append(got, f) \in Seq(S) /\ Len(Append(got, f)) = Len(got) + 1
        /\ Append(got, f)[Len(got) + 1] = f
        /\ \A i \in 1 .. Len(got) : Append(got, f)[i] = got[i]
    BY <2>2, AppendProperties
  <2> QED BY <1>9, <1>10, <2>1, <2>3
<1>12. \A j \in 1 .. g : got[j] \in 1 .. m
  BY <1>3, <1>9, ElementOfSeq DEF Stream!InOrder
<1>13. \A j \in 1 .. g : got[j] < f
  <2>1. 1 \in 1 .. Len(units) /\ units[1][2] = 1 /\ units[1][1] = f
    BY <1>3
  <2> QED BY <1>9, <2>1 DEF Stream!InOrder
<1>14. \A i, j \in 1 .. g + 1 : i < j => more[i] < more[j]
  <2> SUFFICES ASSUME NEW i \in 1 .. g + 1, NEW j \in 1 .. g + 1, i < j
               PROVE  more[i] < more[j]
    OBVIOUS
  <2>1. i \in 1 .. g
    OBVIOUS
  <2>2. CASE j = g + 1
    BY <1>11, <1>13, <2>1, <2>2
  <2>3. CASE j \in 1 .. g
    BY <1>9, <1>11, <2>1, <2>3 DEF Stream!InOrder
  <2> QED BY <2>2, <2>3
<1>15. ASSUME NEW i \in 1 .. bl
       PROVE  f + 1 <= b[i][1]
  <2>1. n # len /\ len + 1 \in 1 .. n /\ len + i \in 1 .. n /\ len + 1 <= len + i
    BY <1>7
  <2>2. units[len + 1][1] = f + 1
    BY <1>5, <2>1 DEF Whole
  <2>3. units[len + 1][1] <= units[len + i][1]
    BY <1>2, <2>1, FramesRise
  <2> QED BY <1>8, <2>2, <2>3
<1>16. ASSUME NEW i \in 1 .. bl, NEW j \in 1 .. g + 1
       PROVE  more[j] < b[i][1]
  <2>1. f + 1 <= b[i][1] /\ b[i][1] \in Nat
    <3>1. b[i] = units[len + i] /\ len + i \in 1 .. n
      BY <1>7, <1>8
    <3> QED BY <1>2, <1>15, <3>1 DEF Facts
  <2>2. more[j] <= f /\ more[j] \in Nat
    <3>1. CASE j = g + 1
      BY <1>4, <1>11, <3>1
    <3>2. CASE j \in 1 .. g
      <4>1. more[j] = got[j]
        BY <1>11, <3>2
      <4>2. got[j] \in 1 .. m /\ got[j] < f
        BY <1>12, <1>13, <3>2
      <4>3. PICK x \in 1 .. m : x = got[j]
        BY <4>2
      <4>4. x <= f /\ x \in Nat
        BY <1>4, <4>2, <4>3
      <4> QED BY <4>1, <4>3, <4>4
    <3> QED BY <3>1, <3>2
  <2> QED BY <1>4, <2>1, <2>2
<1>17. Stream!InOrder(b, more)
  BY <1>3, <1>8, <1>11, <1>14, <1>16 DEF Stream!InOrder
<1>18. ASSUME Stream!InStep(units, got)
       PROVE  Stream!InStep(b, more)
  <2>1. got = [i \in 1 .. g |-> i] /\ units[1] = <<g + 1, 1>>
    BY <1>9, <1>18 DEF Stream!InStep
  <2>2. f = g + 1
    BY <2>1
  <2>3. more = [i \in 1 .. g + 1 |-> i]
    <3>1. ASSUME NEW i \in 1 .. g + 1
          PROVE  more[i] = i
      <4>1. CASE i = g + 1
        BY <1>11, <2>2, <4>1
      <4>2. CASE i \in 1 .. g
        BY <1>11, <2>1, <4>2
      <4> QED BY <4>1, <4>2
    <3>2. more = [i \in 1 .. g + 1 |-> more[i]]
      BY <1>11, LenProperties
    <3> QED BY <3>1, <3>2
  <2>4. CASE b = <<>>
    <3>1. bl = 0
      BY <1>8, <2>4, EmptySeq
    <3>2. f = m
      BY <1>5, <1>7, <3>1 DEF Whole
    <3> QED BY <1>3, <1>11, <2>2, <2>3, <2>4, <3>2 DEF Stream!InStep
  <2>5. CASE b # <<>>
    <3>1. bl # 0
      BY <1>8, <2>5, EmptySeq
    <3>2. b[1] = units[len + 1] /\ n # len
      BY <1>7, <1>8, <3>1
    <3>3. b[1] = <<g + 1 + 1, 1>>
      BY <1>5, <2>2, <3>2 DEF Whole
    <3> QED BY <1>11, <2>3, <2>5, <3>3 DEF Stream!InStep
  <2> QED BY <2>4, <2>5
<1>19. HeaderLen + sent[f] \in 0 .. Len(units)
  BY <1>3, <1>5 DEF Whole
<1> QED BY <1>5, <1>6, <1>10, <1>17, <1>18, <1>19 DEF Whole

-----------------------------------------------------------------------------

(* What a round of the loop has before it and leaves behind: the frames cut *)
(* so far come after those handed on before, and what is left of the buffer *)
(* comes before the units still on the wire.                                *)
Cut(before, rest, st) ==
  /\ st \in [buf : Seq(Nat \X Nat), got : Seq(Nat)]
  /\ Stream!EndOfStream(st.buf \o rest)
  /\ Stream!InOrder(st.buf \o rest, before \o st.got)
  /\ Stream!AllLegal => Stream!InStep(st.buf \o rest, before \o st.got)

(* The same for numbers.                                                    *)
LEMMA AppendToBoth ==
  \A x \in Seq(Nat), y \in Seq(Nat), e \in Nat : x \o Append(y, e) = Append(x \o y, e)
BY AppendOfConcat

(* Taking the first k units away, as anything but a frame.                  *)
LEMMA CutAway ==
  ASSUME sent \in Seq(Nat), NEW before \in Seq(Nat), NEW rest \in Seq(Nat \X Nat),
         NEW st, Cut(before, rest, st), ~ Stream!AllLegal,
         NEW k \in 0 .. Len(st.buf),
         NEW next, next = [buf |-> Stream!Behind(st.buf, k), got |-> st.got]
  PROVE  Cut(before, rest, next)
<1>1. PICK S : S = Nat \X Nat
  OBVIOUS
<1>2. st.buf \in Seq(S) /\ rest \in Seq(S)
  BY <1>1 DEF Cut
<1>3. next.buf \in Seq(Nat \X Nat)
  <2>1. next.buf = Stream!Behind(st.buf, k)
    OBVIOUS
  <2> QED BY <1>1, <1>2, <2>1, BehindProperties
<1>4. PICK units : units = st.buf \o rest
  OBVIOUS
<1>5. k \in 0 .. Len(units) /\ next.buf \o rest = Stream!Behind(units, k)
  <2>1. PICK s : s = st.buf
    OBVIOUS
  <2>2. s \in Seq(S) /\ k \in 0 .. Len(s)
    BY <1>2, <2>1
  <2>3. k \in 0 .. Len(s \o rest) /\ Stream!Behind(s, k) \o rest = Stream!Behind(s \o rest, k)
    <3>1. \A x \in Seq(S), y \in Seq(S) : \A n \in 0 .. Len(x) :
            n \in 0 .. Len(x \o y) /\ Stream!Behind(x, n) \o y = Stream!Behind(x \o y, n)
      BY BehindOfConcat
    <3> QED BY <1>2, <2>2, <3>1
  <2> QED BY <1>4, <2>1, <2>3
<1>6. Stream!EndOfStream(units) /\ Stream!InOrder(units, before \o st.got)
  BY <1>4 DEF Cut
<1>7. /\ Stream!EndOfStream(Stream!Behind(units, k))
      /\ Stream!InOrder(Stream!Behind(units, k), before \o st.got)
  BY <1>5, <1>6, EndKept, OrderKept
<1>8. st.got \in Seq(Nat)
  BY DEF Cut
<1>9. next.buf = Stream!Behind(st.buf, k) /\ next.got = st.got
  OBVIOUS
<1>10. next \in [buf : Seq(Nat \X Nat), got : Seq(Nat)]
  BY <1>3, <1>8, <1>9
<1> QED BY <1>5, <1>7, <1>9, <1>10 DEF Cut

(* Handing a frame on.                                                      *)
LEMMA CutFrame ==
  ASSUME sent \in Seq(Nat), NEW before \in Seq(Nat), NEW rest \in Seq(Nat \X Nat),
         NEW st, Cut(before, rest, st), NEW f \in Nat,
         st.buf # <<>>, st.buf[1] = <<f, 1>>, HeaderLen + sent[f] \in 0 .. Len(st.buf),
         NEW next, next = [buf |-> Stream!Behind(st.buf, HeaderLen + sent[f]),
                           got |-> Append(st.got, f)]
  PROVE  Cut(before, rest, next)
<1>1. PICK S : S = Nat \X Nat
  OBVIOUS
<1>2. st.buf \in Seq(S) /\ rest \in Seq(S)
  BY <1>1 DEF Cut
<1>3. PICK k : k = HeaderLen + sent[f]
  OBVIOUS
<1>4. k \in 0 .. Len(st.buf)
  BY <1>3
<1>5. next.buf \in Seq(Nat \X Nat)
  <2>1. next.buf = Stream!Behind(st.buf, k)
    BY <1>3
  <2> QED BY <1>1, <1>2, <1>4, <2>1, BehindProperties
<1>6. PICK units : units = st.buf \o rest
  OBVIOUS
<1>7. k \in 0 .. Len(units) /\ next.buf \o rest = Stream!Behind(units, k)
  <2>1. PICK s : s = st.buf
    OBVIOUS
  <2>2. s \in Seq(S) /\ k \in 0 .. Len(s)
    BY <1>2, <1>4, <2>1
  <2>3. k \in 0 .. Len(s \o rest) /\ Stream!Behind(s, k) \o rest = Stream!Behind(s \o rest, k)
    <3>1. \A x \in Seq(S), y \in Seq(S) : \A n \in 0 .. Len(x) :
            n \in 0 .. Len(x \o y) /\ Stream!Behind(x, n) \o y = Stream!Behind(x \o y, n)
      BY BehindOfConcat
    <3> QED BY <1>2, <2>2, <3>1
  <2> QED BY <1>3, <1>6, <2>1, <2>3
<1>8. units # <<>> /\ units[1] = <<f, 1>>
  <2>1. Len(st.buf) \in Nat \ {0} /\ Len(rest) \in Nat
    BY <1>2, EmptySeq, LenProperties
  <2>2. /\ units \in Seq(S) /\ Len(units) = Len(st.buf) + Len(rest)
        /\ \A i \in 1 .. Len(st.buf) + Len(rest) :
             units[i] = IF i <= Len(st.buf) THEN st.buf[i] ELSE rest[i - Len(st.buf)]
    BY <1>2, <1>6, ConcatProperties
  <2>3. PICK a \in Nat \ {0}, b \in Nat : a = Len(st.buf) /\ b = Len(rest)
    BY <2>1
  <2>4. 1 \in 1 .. a + b /\ 1 <= a /\ a + b # 0
    OBVIOUS
  <2>5. units[1] = st.buf[1] /\ Len(units) # 0
    BY <2>2, <2>3, <2>4
  <2> QED BY <2>2, <2>5, EmptySeq
<1>9. PICK got : got = before \o st.got
  OBVIOUS
<1>10. Stream!EndOfStream(units) /\ Stream!InOrder(units, got)
  BY <1>6, <1>9 DEF Cut
<1>11. before \o next.got = Append(got, f)
  <2>1. st.got \in Seq(Nat)
    BY DEF Cut
  <2>2. PICK g : g = st.got
    OBVIOUS
  <2>3. g \in Seq(Nat) /\ next.got = Append(g, f)
    BY <2>1, <2>2
  <2>4. before \o Append(g, f) = Append(before \o g, f)
    BY <2>3, AppendToBoth
  <2> QED BY <1>9, <2>2, <2>3, <2>4
<1>12. /\ Stream!InOrder(Stream!Behind(units, k), Append(got, f))
       /\ Stream!InStep(units, got) => Stream!InStep(Stream!Behind(units, k), Append(got, f))
  BY <1>3, <1>8, <1>10, FrameTaken
<1>13. Stream!EndOfStream(Stream!Behind(units, k))
  BY <1>7, <1>10, EndKept
<1>14. Stream!AllLegal => Stream!InStep(units, got)
  BY <1>6, <1>9 DEF Cut
<1>15. next.got \in Seq(Nat)
  <2>1. st.got \in Seq(Nat) /\ next.got = Append(st.got, f)
    BY DEF Cut
  <2> QED BY <2>1, AppendProperties
<1>16. next \in [buf : Seq(Nat \X Nat), got : Seq(Nat)]
  BY <1>5, <1>15
<1> QED BY <1>7, <1>11, <1>12, <1>13, <1>14, <1>16 DEF Cut

(* The front of two sequences is the first of them.                         *)
LEMMA ConcatFront ==
  ASSUME NEW S, NEW s \in Seq(S), NEW t \in Seq(S)
  PROVE  /\ s \o t \in Seq(S) /\ Len(s \o t) = Len(s) + Len(t)
         /\ \A i \in 1 .. Len(s) : (s \o t)[i] = s[i]
<1>1. PICK u : u = s \o t
  OBVIOUS
<1>2. /\ u \in Seq(S) /\ Len(u) = Len(s) + Len(t)
      /\ \A i \in 1 .. Len(s) + Len(t) : u[i] = IF i <= Len(s) THEN s[i] ELSE t[i - Len(s)]
  BY <1>1, ConcatProperties
<1>3. PICK a \in Nat, b \in Nat : a = Len(s) /\ b = Len(t)
  BY LenProperties
<1>4. ASSUME NEW i \in 1 .. a
      PROVE  u[i] = s[i]
  <2>1. i \in 1 .. a + b /\ i <= a
    OBVIOUS
  <2> QED BY <1>2, <1>3, <2>1
<1> QED BY <1>1, <1>2, <1>3, <1>4

(* A frame whose first unit is in front of the buffer is there as far as the *)
(* buffer goes.                                                             *)
LEMMA FrontOfFrame ==
  ASSUME sent \in Seq(Nat), NEW buf \in Seq(Nat \X Nat), NEW rest \in Seq(Nat \X Nat),
         Stream!EndOfStream(buf \o rest), NEW f, buf # <<>>, buf[1] = <<f, 1>>
  PROVE  /\ f \in 1 .. Len(sent) /\ sent[f] \in Nat
         /\ \A c \in 0 .. sent[f] :
              HeaderLen + c <= Len(buf) => SubSeq(buf, 1, HeaderLen + c) = Stream!Units(f, c)
<1>1. PICK units : units = buf \o rest
  OBVIOUS
<1>2. PICK b \in Nat \ {0} : b = Len(buf)
  BY EmptySeq, LenProperties
<1>3. Len(units) \in Nat \ {0} /\ \A i \in 1 .. b : units[i] = buf[i]
  <2>1. PICK S : S = Nat \X Nat
    OBVIOUS
  <2>2. buf \in Seq(S) /\ rest \in Seq(S)
    BY <2>1
  <2>3. Len(buf \o rest) = Len(buf) + Len(rest) /\ \A i \in 1 .. Len(buf) : (buf \o rest)[i] = buf[i]
    BY <2>2, ConcatFront
  <2>4. PICK r \in Nat : r = Len(rest)
    BY LenProperties
  <2> QED BY <1>1, <1>2, <2>3, <2>4
<1>4. Stream!EndOfStream(units)
  BY <1>1
<1>5. PICK n \in Nat, m \in Nat : Facts(units, n, m)
  BY <1>4, EndFacts
<1>6. n # 0 /\ n = Len(units) /\ m = Len(sent) /\ units[1] = <<f, 1>>
  <2>1. n = Len(units) /\ m = Len(sent)
    BY <1>5 DEF Facts
  <2>2. 1 \in 1 .. b
    BY <1>2
  <2>3. units[1] = <<f, 1>>
    BY <1>3, <2>2
  <2>4. n # 0
    BY <1>3, <2>1
  <2> QED BY <2>1, <2>3, <2>4
<1>7. f \in 1 .. m /\ sent[f] \in Nat
  BY <1>5, <1>6, FirstFrame
<1>8. PICK len \in 1 .. n : Whole(units, n, m, f, len)
  BY <1>5, <1>6, FirstFrame
<1>9. HeaderLen \in Nat \ {0}
  BY ConnectionAssumption DEF ConnectionAssumption
<1>10. ASSUME NEW c \in 0 .. sent[f], HeaderLen + c <= b
       PROVE  SubSeq(buf, 1, HeaderLen + c) = Stream!Units(f, c)
  <2>1. PICK k \in 1 .. b : k = HeaderLen + c
    BY <1>2, <1>7, <1>9, <1>10
  <2>2. PICK s : s = SubSeq(buf, 1, k)
    OBVIOUS
  <2>3. /\ s \in Seq(Nat \X Nat) /\ Len(s) = k /\ \A i \in 1 .. k : s[i] = buf[i]
    <3>1. PICK S : S = Nat \X Nat
      OBVIOUS
    <3>2. buf \in Seq(S) /\ k \in 0 .. Len(buf)
      BY <1>2, <3>1
    <3>3. /\ SubSeq(buf, 1, k) \in Seq(S) /\ Len(SubSeq(buf, 1, k)) = k
          /\ \A i \in 1 .. k : SubSeq(buf, 1, k)[i] = buf[i]
      BY <3>2, FrontProperties
    <3> QED BY <2>2, <3>1, <3>3
  <2>4. ASSUME NEW i \in 1 .. k
        PROVE  s[i] = <<f, i>>
    <3>1. i \in 1 .. b /\ i \in 1 .. len
      <4>1. PICK z \in Nat, h \in Nat : z = sent[f] /\ h = HeaderLen
        BY <1>7, <1>9
      <4>2. len = h + z
        BY <1>8, <4>1 DEF Whole
      <4>3. PICK d \in 0 .. z : d = c
        BY <4>1
      <4>4. k = h + d
        BY <2>1, <4>1, <4>3
      <4>5. len = k - d + z
        BY <4>2, <4>4
      <4>6. PICK y \in Nat : y = len
        OBVIOUS
      <4>7. k <= y
        BY <4>5, <4>6
      <4>8. i \in 1 .. b /\ i \in 1 .. y
        BY <4>7
      <4> QED BY <4>6, <4>8
    <3>2. units[i] = <<f, i>>
      BY <1>8, <3>1 DEF Whole
    <3> QED BY <1>3, <2>3, <3>1, <3>2
  <2>5. s = [i \in 1 .. k |-> s[i]]
    BY <2>3, LenProperties
  <2>6. s = [i \in 1 .. k |-> <<f, i>>]
    BY <2>4, <2>5
  <2> QED BY <2>1, <2>2, <2>6 DEF Stream!Units
<1> QED BY <1>2, <1>6, <1>7, <1>10

(* A body is decrypted only when all of its frame is in front of the buffer. *)
LEMMA DecryptsFrame ==
  ASSUME sent \in Seq(Nat), NEW buf \in Seq(Nat \X Nat), buf # <<>>, NEW len,
         Stream!Decrypts(buf, len), buf[1][1] \in 1 .. Len(sent), HeaderLen + len <= Len(buf)
  PROVE  \E f \in Nat : buf[1] = <<f, 1>> /\ buf[1][1] = f /\ len = sent[f] /\ len \in Nat
<1>1. PICK f \in 1 .. Len(sent) : f = buf[1][1]
  OBVIOUS
<1>2. len = sent[f] /\ SubSeq(buf, 1, HeaderLen + len) = Stream!Units(f, len)
  BY <1>1 DEF Stream!Decrypts
<1>3. Len(sent) \in Nat /\ f \in Nat /\ sent[f] \in Nat
  <2>1. Len(sent) \in Nat
    BY LenProperties
  <2>2. f \in Nat
    BY <2>1
  <2> QED BY <2>1, <2>2, ElementOfSeq
<1>4. HeaderLen \in Nat \ {0}
  BY ConnectionAssumption DEF ConnectionAssumption
<1>5. PICK k \in Nat \ {0} : k = HeaderLen + len
  BY <1>2, <1>3, <1>4
<1>6. SubSeq(buf, 1, k)[1] = buf[1]
  <2>1. PICK S : S = Nat \X Nat
    OBVIOUS
  <2>2. PICK b \in Nat : b = Len(buf)
    BY LenProperties
  <2>3. buf \in Seq(S) /\ k \in 0 .. Len(buf) /\ 1 \in 1 .. k
    BY <1>5, <2>1, <2>2
  <2>4. \A i \in 1 .. k : SubSeq(buf, 1, k)[i] = buf[i]
    BY <2>3, FrontProperties
  <2> QED BY <2>3, <2>4
<1>7. SubSeq(buf, 1, k) = [i \in 1 .. k |-> <<f, i>>]
  BY <1>2, <1>5 DEF Stream!Units
<1>8. buf[1] = <<f, 1>>
  <2>1. PICK s : s = SubSeq(buf, 1, k)
    OBVIOUS
  <2>2. s[1] = <<f, 1>>
    <3>1. 1 \in 1 .. k
      BY <1>5
    <3>2. s = [i \in 1 .. k |-> <<f, i>>]
      BY <1>7, <2>1
    <3> QED BY <3>1, <3>2, Zenon
  <2> QED BY <1>6, <2>1, <2>2
<1> QED BY <1>1, <1>2, <1>3, <1>8

(* A round keeps all this; with legal lengths it cuts a frame off or ends the *)
(* loop.                                                                    *)
LEMMA RoundCuts ==
  ASSUME sent \in Seq(Nat), NEW before \in Seq(Nat), NEW rest \in Seq(Nat \X Nat),
         NEW garbage \in 0 .. (MaxBuf + 1), NEW st, Cut(before, rest, st)
  PROVE  /\ Cut(before, rest, Round(st, garbage))
         /\ Stream!AllLegal => \/ Round(st, garbage) = st /\ Stream!Incomplete(st.buf)
                               \/ /\ ~ Stream!Incomplete(st.buf)
                                  /\ Len(Round(st, garbage).buf) < Len(st.buf)
<1>1. PICK buf \in Seq(Nat \X Nat) : buf = st.buf
  BY DEF Cut
<1>2. PICK b \in Nat : b = Len(buf)
  BY LenProperties
<1>3. HeaderLen \in Nat \ {0}
  BY ConnectionAssumption DEF ConnectionAssumption
<1>4. PICK next : next = Round(st, garbage)
  OBVIOUS
<1>5. CASE b < HeaderLen
  <2>1. next = st /\ Stream!Incomplete(st.buf)
    BY <1>1, <1>2, <1>4, <1>5 DEF Round, Stream!CutFrame, Stream!Incomplete
  <2> QED BY <1>4, <2>1
<1>6. CASE ~ (b < HeaderLen)
  <2>1. buf # <<>> /\ b # 0
    BY <1>2, <1>3, <1>6, EmptySeq
  <2>2. PICK len : len = Stream!EncLen(buf, garbage)
    OBVIOUS
  <2>3. PICK units : units = buf \o rest
    OBVIOUS
  <2>4. Stream!EndOfStream(units)
    BY <1>1, <2>3 DEF Cut
  <2>5. units[1] = buf[1] /\ units # <<>>
    <3>1. PICK S : S = Nat \X Nat
      OBVIOUS
    <3>2. buf \in Seq(S) /\ rest \in Seq(S)
      BY <3>1
    <3>3. /\ buf \o rest \in Seq(S) /\ Len(buf \o rest) = Len(buf) + Len(rest)
          /\ \A i \in 1 .. Len(buf) : (buf \o rest)[i] = buf[i]
      BY <3>2, ConcatFront
    <3>4. PICK r \in Nat : r = Len(rest)
      BY LenProperties
    <3>5. Len(units) # 0 /\ 1 \in 1 .. b /\ units \in Seq(S)
      BY <1>2, <2>1, <2>3, <3>3, <3>4
    <3> QED BY <1>2, <2>3, <3>3, <3>5, EmptySeq
  <2>6. PICK f \in 1 .. Len(sent) : f = buf[1][1]
    <3>1. PICK n \in Nat, m \in Nat : Facts(units, n, m)
      BY <2>4, EndFacts
    <3>2. 1 \in 1 .. n /\ m = Len(sent)
      BY <2>5, <3>1 DEF Facts
    <3>3. units[1][1] \in 1 .. m
      BY <3>1, <3>2 DEF Facts
    <3> QED BY <2>5, <3>2, <3>3
  <2>7. sent[f] \in Nat
    BY ElementOfSeq
  <2>8. len \in Nat
    <3>1. len = sent[f] \/ len = garbage
      BY <2>2, <2>6 DEF Stream!EncLen
    <3>2. garbage \in Nat
      BY ConnectionAssumption DEF ConnectionAssumption
    <3> QED BY <2>7, <3>1, <3>2
  (* With legal lengths, a frame begins in front of the buffer, and the       *)
  (* length found is its own.                                               *)
  <2>9. ASSUME Stream!AllLegal
        PROVE  /\ len = sent[f] /\ ~ Stream!Invalid(len)
               /\ HeaderLen + len <= b => Stream!Decrypts(buf, len)
    <3>1. Stream!InStep(units, before \o st.got)
      BY <1>1, <2>3, <2>9 DEF Cut
    <3>2. buf[1] = <<f, 1>>
      BY <2>5, <2>6, <3>1 DEF Stream!InStep
    <3>3. Stream!EndOfStream(buf \o rest)
      BY <2>3, <2>4
    <3>4. \A c \in 0 .. sent[f] :
            HeaderLen + c <= Len(buf) => SubSeq(buf, 1, HeaderLen + c) = Stream!Units(f, c)
      BY <2>1, <3>2, <3>3, FrontOfFrame
    <3>5. SubSeq(buf, 1, HeaderLen) = Stream!Units(f, 0)
      <4>1. PICK c \in 0 .. sent[f] : c = 0
        BY <2>7
      <4>2. HeaderLen + c = HeaderLen /\ HeaderLen + c <= Len(buf)
        BY <1>2, <1>3, <1>6, <4>1
      <4>3. SubSeq(buf, 1, HeaderLen + c) = Stream!Units(f, c)
        BY <3>4, <4>2
      <4> QED BY <4>1, <4>2, <4>3
    <3>6. len = sent[f]
      BY <2>2, <2>6, <3>5 DEF Stream!EncLen
    <3>7. ~ Stream!Invalid(len)
      <4>1. DOMAIN sent = 1 .. Len(sent)
        BY LenProperties
      <4> QED BY <2>9, <3>6, <4>1 DEF Stream!AllLegal
    <3>8. ASSUME HeaderLen + len <= b
          PROVE  Stream!Decrypts(buf, len)
      <4>1. PICK c \in 0 .. sent[f] : c = len
        BY <2>7, <3>6
      <4>2. SubSeq(buf, 1, HeaderLen + c) = Stream!Units(f, c)
        BY <1>2, <3>4, <3>8, <4>1
      <4>3. f <= Len(sent)
        <5>1. Len(sent) \in Nat
          BY LenProperties
        <5> QED BY <5>1
      <4> QED BY <2>6, <3>6, <4>1, <4>2, <4>3 DEF Stream!Decrypts
    <3> QED BY <3>6, <3>7, <3>8
  <2>10. CASE Stream!Invalid(len)
    <3>1. ~ Stream!AllLegal
      BY <2>9, <2>10
    <3>2. next = [st EXCEPT !.buf = <<>>]
      BY <1>1, <1>2, <1>4, <1>6, <2>2, <2>10 DEF Round, Stream!CutFrame
    <3>3. Stream!Behind(buf, b) = <<>>
      <4>1. PICK S : S = Nat \X Nat
        OBVIOUS
      <4>2. buf \in Seq(S) /\ b \in 0 .. Len(buf)
        BY <1>2, <4>1
      <4>3. Stream!Behind(buf, b) \in Seq(S) /\ Len(Stream!Behind(buf, b)) = Len(buf) - b
        BY <4>2, BehindProperties
      <4> QED BY <1>2, <4>3, EmptySeq
    <3>4. next = [buf |-> Stream!Behind(st.buf, b), got |-> st.got]
      BY <1>1, <3>2, <3>3 DEF Cut
    <3>5. b \in 0 .. Len(st.buf)
      BY <1>1, <1>2
    <3>6. Cut(before, rest, next)
      BY <3>1, <3>4, <3>5, CutAway
    <3> QED BY <1>4, <3>1, <3>6
  <2>11. CASE ~ Stream!Invalid(len) /\ b < HeaderLen + len
    <3>1. next = st
      BY <1>1, <1>2, <1>4, <1>6, <2>2, <2>11 DEF Round, Stream!CutFrame
    <3>2. Stream!AllLegal => Stream!Incomplete(st.buf)
      BY <1>1, <1>2, <2>6, <2>9, <2>11 DEF Stream!Incomplete
    <3> QED BY <1>4, <3>1, <3>2
  <2>12. CASE ~ Stream!Invalid(len) /\ ~ (b < HeaderLen + len)
    <3>1. HeaderLen + len \in 1 .. b
      BY <1>2, <1>3, <2>8, <2>12
    <3>2. next = [buf |-> Stream!Behind(buf, HeaderLen + len),
                  got |-> IF Stream!Decrypts(buf, len) THEN Append(st.got, buf[1][1])
                                                        ELSE st.got]
      BY <1>1, <1>2, <1>4, <1>6, <2>2, <2>12 DEF Round, Stream!CutFrame
    <3>3. Len(next.buf) < Len(st.buf)
      <4>1. PICK S : S = Nat \X Nat
        OBVIOUS
      <4>2. PICK k \in 1 .. b : k = HeaderLen + len
        BY <3>1
      <4>3. buf \in Seq(S) /\ k \in 0 .. Len(buf)
        BY <1>2, <4>1
      <4>4. Len(Stream!Behind(buf, k)) = Len(buf) - k
        BY <4>3, BehindProperties
      <4>5. next.buf = Stream!Behind(buf, k)
        BY <3>2, <4>2
      <4> QED BY <1>1, <1>2, <4>4, <4>5
    <3>4. CASE Stream!Decrypts(buf, len)
      <4>1. PICK g \in Nat : buf[1] = <<g, 1>> /\ buf[1][1] = g /\ len = sent[g]
        <5>1. buf[1][1] \in 1 .. Len(sent) /\ HeaderLen + len <= Len(buf)
          BY <1>2, <2>6, <3>1
        <5>2. \E g \in Nat : buf[1] = <<g, 1>> /\ buf[1][1] = g /\ len = sent[g] /\ len \in Nat
          BY <2>1, <3>4, <5>1, DecryptsFrame
        <5> QED BY <5>2
      <4>2. next = [buf |-> Stream!Behind(st.buf, HeaderLen + sent[g]), got |-> Append(st.got, g)]
        BY <1>1, <3>2, <3>4, <4>1
      <4>3. st.buf # <<>> /\ st.buf[1] = <<g, 1>> /\ HeaderLen + sent[g] \in 0 .. Len(st.buf)
        BY <1>1, <1>2, <2>1, <3>1, <4>1
      <4>4. Cut(before, rest, next)
        BY <4>2, <4>3, CutFrame
      <4>5. Stream!AllLegal => ~ Stream!Incomplete(st.buf)
        <5>1. ASSUME Stream!AllLegal
              PROVE  ~ Stream!Incomplete(buf)
          <6>1. len = sent[buf[1][1]]
            BY <2>6, <2>9, <5>1
          <6> QED BY <1>2, <1>6, <2>12, <6>1 DEF Stream!Incomplete
        <5> QED BY <1>1, <5>1
      <4> QED BY <1>4, <3>3, <4>4, <4>5
    <3>5. CASE ~ Stream!Decrypts(buf, len)
      <4>1. ~ Stream!AllLegal
        BY <2>9, <3>1, <3>5
      <4>2. PICK k \in 0 .. Len(st.buf) : k = HeaderLen + len
        BY <1>1, <1>2, <3>1
      <4>3. next = [buf |-> Stream!Behind(st.buf, k), got |-> st.got]
        BY <1>1, <3>2, <3>5, <4>2
      <4>4. Cut(before, rest, next)
        BY <4>1, <4>3, CutAway
      <4> QED BY <1>4, <4>1, <4>4
    <3> QED BY <3>4, <3>5
  <2> QED BY <2>10, <2>11, <2>12
<1> QED BY <1>5, <1>6

(* The loop keeps it too; with legal lengths it goes on until the buffer    *)
(* holds less than a frame.                                                 *)
LEMMA LoopCuts ==
  ASSUME sent \in Seq(Nat), NEW before \in Seq(Nat), NEW rest \in Seq(Nat \X Nat),
         NEW garbage \in 0 .. (MaxBuf + 1), NEW buf \in Seq(Nat \X Nat),
         Cut(before, rest, Start(buf))
  PROVE  /\ Cut(before, rest, Stream!CutFrames(buf, garbage))
         /\ Stream!AllLegal => Stream!Incomplete(Stream!CutFrames(buf, garbage).buf)
<1>1. PICK rounds : /\ Stream!CutFrames(buf, garbage) = rounds[Len(buf)]
                    /\ rounds[0] = Start(buf)
                    /\ \A n \in 1 .. Len(buf) : rounds[n] = Round(rounds[n - 1], garbage)
  BY Rounds
<1>2. PICK b \in Nat : b = Len(buf)
  BY LenProperties
<1> DEFINE Done(k) ==
      /\ Cut(before, rest, rounds[k])
      /\ Stream!AllLegal => \/ Stream!Incomplete(rounds[k].buf)
                            \/ Len(rounds[k].buf) <= b - k
           S == {k \in Nat : k <= b => Done(k)}
<1>3. \A k \in 0 .. b : Cut(before, rest, rounds[k]) => Len(rounds[k].buf) \in Nat
  BY LenProperties DEF Cut
<1>4. 0 \in S
  <2>1. Done(0)
    <3>1. rounds[0].buf = buf
      BY <1>1 DEF Start
    <3>2. Len(rounds[0].buf) <= b - 0
      BY <1>2, <3>1
    <3> QED BY <1>1, <3>2
  <2> QED BY <2>1
<1>5. ASSUME NEW k \in Nat, k \in S
      PROVE  k + 1 \in S
  <2>1. ASSUME k + 1 <= b
        PROVE  Done(k + 1)
    <3>1. Done(k)
      BY <1>2, <1>5, <2>1
    <3>2. PICK st, next : st = rounds[k] /\ next = rounds[k + 1]
      OBVIOUS
    <3>3. next = Round(st, garbage)
      <4>1. k + 1 \in 1 .. Len(buf) /\ k + 1 - 1 = k
        BY <1>2, <2>1
      <4> QED BY <1>1, <3>2, <4>1
    <3>4. Cut(before, rest, st)
      BY <3>1, <3>2
    <3>5. /\ Cut(before, rest, next)
          /\ Stream!AllLegal => \/ next = st /\ Stream!Incomplete(st.buf)
                                \/ /\ ~ Stream!Incomplete(st.buf)
                                   /\ Len(next.buf) < Len(st.buf)
      BY <3>3, <3>4, RoundCuts
    <3>6. ASSUME Stream!AllLegal, ~ Stream!Incomplete(next.buf)
          PROVE  Len(next.buf) <= b - (k + 1)
      <4>1. Len(next.buf) < Len(st.buf) /\ Len(st.buf) <= b - k
        BY <3>1, <3>2, <3>5, <3>6
      <4>2. PICK x \in Nat, y \in Nat : x = Len(next.buf) /\ y = Len(st.buf)
        <5>1. next.buf \in Seq(Nat \X Nat) /\ st.buf \in Seq(Nat \X Nat)
          BY <3>4, <3>5 DEF Cut
        <5> QED BY <5>1, LenProperties
      <4> QED BY <4>1, <4>2
    <3> QED BY <3>2, <3>5, <3>6
  <2> QED BY <2>1
<1>6. Nat \subseteq S
  <2> HIDE DEF S
  <2> QED BY <1>4, <1>5, Induction
<1>7. Done(b)
  BY <1>6
<1>8. ASSUME Stream!AllLegal
      PROVE  Stream!Incomplete(rounds[b].buf)
  <2>1. CASE Len(rounds[b].buf) <= b - b
    <3>1. rounds[b].buf \in Seq(Nat \X Nat)
      BY <1>7 DEF Cut
    <3>2. Len(rounds[b].buf) < HeaderLen
      <4>1. PICK x \in Nat : x = Len(rounds[b].buf)
        BY <3>1, LenProperties
      <4> QED BY <2>1, <4>1, ConnectionAssumption DEF ConnectionAssumption
    <3> QED BY <3>2 DEF Stream!Incomplete
  <2> QED BY <1>7, <1>8, <2>1
<1> QED BY <1>1, <1>2, <1>7, <1>8

(* The two properties before the loop, from those of the stream.            *)
LEMMA Uncut ==
  ASSUME NEW before \in Seq(Nat), NEW buf \in Seq(Nat \X Nat), NEW rest,
         Stream!EndOfStream(buf \o rest), Stream!InOrder(buf \o rest, before),
         Stream!AllLegal => Stream!InStep(buf \o rest, before)
  PROVE  Cut(before, rest, Start(buf))
<1>1. PICK st : st = Start(buf)
  OBVIOUS
<1>2. st \in [buf : Seq(Nat \X Nat), got : Seq(Nat)] /\ st.buf = buf /\ st.got = <<>>
  BY <1>1, EmptySeq DEF Start
<1>3. before \o <<>> = before
  BY ConcatEmptySeq
<1> QED BY <1>1, <1>2, <1>3 DEF Cut

-----------------------------------------------------------------------------
(* The bytes that arrive keep the invariant.                                *)
LEMMA ReadyReadKeeps == Stream!StreamInv /\ Stream!slotReadyRead => Stream!StreamInv'
<1> SUFFICES ASSUME Stream!StreamInv, Stream!slotReadyRead
             PROVE  Stream!StreamInv'
  OBVIOUS
<1>1. sent \in Seq(Nat) /\ m_recvBuf \in Seq(Nat \X Nat) /\ wire \in Seq(Nat \X Nat)
  BY DEF Stream!StreamInv
<1>2. m_isConnected /\ m_isConnected' = m_isConnected /\ sent' = sent
  BY DEF Stream!slotReadyRead
<1>3. PICK n \in 1 .. Len(wire), garbage \in 0 .. (MaxBuf + 1) :
        LET st == Stream!CutFrames(m_recvBuf \o SubSeq(wire, 1, n), garbage) IN
          /\ m_recvBuf' = st.buf
          /\ received' = received \o st.got
          /\ wire' = Stream!Behind(wire, n)
  BY DEF Stream!slotReadyRead
<1>4. PICK buf, rest, st :
        /\ buf = m_recvBuf \o SubSeq(wire, 1, n) /\ rest = Stream!Behind(wire, n)
        /\ st = Stream!CutFrames(buf, garbage)
  OBVIOUS
<1>5. m_recvBuf' = st.buf /\ received' = received \o st.got /\ wire' = rest
  BY <1>3, <1>4
<1>6. buf \in Seq(Nat \X Nat) /\ rest \in Seq(Nat \X Nat) /\ buf \o rest = m_recvBuf \o wire
  <2>1. PICK S, r, w : S = Nat \X Nat /\ r = m_recvBuf /\ w = wire
    OBVIOUS
  <2>2. r \in Seq(S) /\ w \in Seq(S) /\ n \in 0 .. Len(w)
    <3>1. PICK l \in Nat : l = Len(wire)
      BY <1>1, LenProperties
    <3> QED BY <1>1, <2>1, <3>1
  <2>3. /\ r \o SubSeq(w, 1, n) \in Seq(S) /\ Stream!Behind(w, n) \in Seq(S)
        /\ (r \o SubSeq(w, 1, n)) \o Stream!Behind(w, n) = r \o w
    <3>1. Moved(S, r, w, n)
      BY <2>2, MovedUnits
    <3> QED BY <3>1 DEF Moved
  <2> QED BY <1>4, <2>1, <2>3
<1>7. PICK before : before = received
  OBVIOUS
<1>8. before \in Seq(Nat)
  <2>1. received \in Seq(1 .. Len(sent))
    BY DEF Stream!StreamInv, Stream!InOrder
  <2>2. PICK m \in Nat : m = Len(sent)
    BY <1>1, LenProperties
  <2>3. before \in Seq(1 .. m)
    BY <1>7, <2>1, <2>2
  <2>4. \A i \in 1 .. Len(before) : before[i] \in Nat
    <3>1. ASSUME NEW i \in 1 .. Len(before)
          PROVE  before[i] \in Nat
      <4>1. before[i] \in 1 .. m
        BY <2>3, ElementOfSeq
      <4> QED BY <4>1
    <3> QED BY <3>1
  <2>5. before = [i \in 1 .. Len(before) |-> before[i]] /\ Len(before) \in Nat
    BY <2>3, LenProperties
  <2>6. [i \in 1 .. Len(before) |-> before[i]] \in Seq(Nat)
    BY <2>4, <2>5, IsASeq
  <2> QED BY <2>5, <2>6
<1>9. /\ Stream!EndOfStream(buf \o rest) /\ Stream!InOrder(buf \o rest, before)
      /\ Stream!AllLegal => Stream!InStep(buf \o rest, before)
  BY <1>2, <1>6, <1>7 DEF Stream!StreamInv
<1>10. Cut(before, rest, Start(buf))
  BY <1>6, <1>8, <1>9, Uncut
<1>11. Cut(before, rest, st) /\ (Stream!AllLegal => Stream!Incomplete(st.buf))
  BY <1>1, <1>4, <1>6, <1>8, <1>10, LoopCuts
<1>12. PICK b, got, units : b = st.buf /\ got = received \o st.got /\ units = b \o rest
  OBVIOUS
<1>13. /\ b \in Seq(Nat \X Nat) /\ Stream!EndOfStream(units) /\ Stream!InOrder(units, got)
       /\ Stream!AllLegal => Stream!InStep(units, got) /\ Stream!Incomplete(b)
  BY <1>7, <1>11, <1>12 DEF Cut
<1>14. m_recvBuf' = b /\ received' = got /\ wire' = rest
  BY <1>5, <1>12
<1>15. Stream!EndOfStream(m_recvBuf \o wire)'
  BY <1>2, <1>12, <1>13, <1>14 DEF Stream!EndOfStream, Stream!UnitAfter
<1>16. Stream!InOrder(m_recvBuf \o wire, received)'
  BY <1>2, <1>12, <1>13, <1>14 DEF Stream!InOrder
<1>17. ASSUME Stream!AllLegal'
       PROVE  Stream!InStep(m_recvBuf \o wire, received)' /\ Stream!Incomplete(m_recvBuf)'
  <2>1. Stream!AllLegal
    BY <1>2, <1>17 DEF Stream!AllLegal, Stream!Invalid
  <2>2. Stream!InStep(units, got) /\ Stream!Incomplete(b)
    BY <1>13, <2>1
  <2> QED BY <1>2, <1>12, <1>14, <2>2 DEF Stream!InStep, Stream!Incomplete
<1> QED BY <1>1, <1>2, <1>6, <1>13, <1>14, <1>15, <1>16, <1>17 DEF Stream!StreamInv

(* With nothing left, any rising frames are in order.                       *)
LEMMA NothingLeft ==
  ASSUME NEW got, got \in Seq(1 .. Len(sent)),
         \A i, j \in 1 .. Len(got) : i < j => got[i] < got[j]
  PROVE  /\ <<>> \o <<>> = <<>>
         /\ Stream!EndOfStream(<<>>) /\ Stream!InOrder(<<>>, got) /\ Stream!Incomplete(<<>>)
<1>1. <<>> \in Seq(Nat \X Nat) /\ Len(<<>>) = 0
  BY EmptySeq
<1>2. Stream!EndOfStream(<<>>)
  BY <1>1 DEF Stream!EndOfStream
<1>3. Stream!InOrder(<<>>, got)
  BY <1>1 DEF Stream!InOrder
<1>4. Stream!Incomplete(<<>>)
  BY <1>1, ConnectionAssumption DEF Stream!Incomplete, ConnectionAssumption
<1>5. <<>> \o <<>> = <<>>
  BY <1>1, ConcatEmptySeq
<1> QED BY <1>2, <1>3, <1>4, <1>5

(* A new connection.                                                        *)
LEMMA ConnectedEmpty ==
  sent = <<>> /\ wire = <<>> /\ m_recvBuf = <<>> /\ received = <<>> => Stream!StreamInv
<1> SUFFICES ASSUME sent = <<>>, wire = <<>>, m_recvBuf = <<>>, received = <<>>
             PROVE  Stream!StreamInv
  OBVIOUS
<1>1. <<>> \in Seq(1 .. Len(sent)) /\ Len(<<>>) = 0 /\ <<>> \in Seq(Nat) /\ <<>> \in Seq(Nat \X Nat)
  BY EmptySeq
<1>2. PICK got : got = <<>>
  OBVIOUS
<1>3. /\ got \in Seq(1 .. Len(sent))
      /\ \A i, j \in 1 .. Len(got) : i < j => got[i] < got[j]
  BY <1>1, <1>2
<1>4. /\ <<>> \o <<>> = <<>>
      /\ Stream!EndOfStream(<<>>) /\ Stream!InOrder(<<>>, got) /\ Stream!Incomplete(<<>>)
  BY <1>3, NothingLeft
<1>5. Stream!InStep(<<>>, got)
  <2>1. Len(got) = 0 /\ Len(sent) = 0
    BY <1>1, <1>2
  <2>2. got = [i \in 1 .. Len(got) |-> got[i]]
    BY <1>3, LenProperties
  <2>3. 1 .. Len(got) = {}
    BY <2>1
  <2>4. got = [i \in 1 .. Len(got) |-> i]
    BY <2>2, <2>3
  <2> QED BY <2>1, <2>4 DEF Stream!InStep
<1> QED BY <1>1, <1>2, <1>4, <1>5 DEF Stream!StreamInv

(* The end of a connection takes away what is left.                         *)
LEMMA DisconnectedKeeps == Stream!StreamInv /\ Stream!slotDisconnected => Stream!StreamInv'
<1> SUFFICES ASSUME Stream!StreamInv, Stream!slotDisconnected
             PROVE  Stream!StreamInv'
  OBVIOUS
<1>1. /\ m_isConnected' = FALSE /\ wire' = <<>> /\ m_recvBuf' = <<>>
      /\ sent' = sent /\ received' = received
  BY DEF Stream!slotDisconnected, Stream!ClearedBuffer
<1>2. sent \in Seq(Nat) /\ received \in Seq(1 .. Len(sent))
      /\ \A i, j \in 1 .. Len(received) : i < j => received[i] < received[j]
  BY DEF Stream!StreamInv, Stream!InOrder
<1>3. PICK got : got = received
  OBVIOUS
<1>4. /\ <<>> \o <<>> = <<>> /\ <<>> \in Seq(Nat \X Nat)
      /\ Stream!EndOfStream(<<>>) /\ Stream!InOrder(<<>>, got)
  BY <1>2, <1>3, NothingLeft, EmptySeq
<1>5. Stream!EndOfStream(m_recvBuf \o wire)'
  BY <1>1, <1>4 DEF Stream!EndOfStream, Stream!UnitAfter
<1>6. Stream!InOrder(m_recvBuf \o wire, received)'
  BY <1>1, <1>3, <1>4 DEF Stream!InOrder
<1> QED BY <1>1, <1>2, <1>4, <1>5, <1>6 DEF Stream!StreamInv

(* A frame sent comes after all others.                                     *)
LEMMA SendsKeeps ==
  ASSUME NEW len \in Sizes
  PROVE  Stream!StreamInv /\ Stream!ServerSends(len) => Stream!StreamInv'
<1> SUFFICES ASSUME Stream!StreamInv, Stream!ServerSends(len)
             PROVE  Stream!StreamInv'
  OBVIOUS
<1>1. sent \in Seq(Nat) /\ m_recvBuf \in Seq(Nat \X Nat) /\ wire \in Seq(Nat \X Nat)
  BY DEF Stream!StreamInv
<1>2. len \in Nat /\ HeaderLen \in Nat \ {0}
  BY ConnectionAssumption DEF ConnectionAssumption
<1>3. PICK units : units = m_recvBuf \o wire
  OBVIOUS
<1>4. /\ Stream!EndOfStream(units) /\ Stream!InOrder(units, received)
      /\ m_isConnected /\ Stream!AllLegal =>
           Stream!InStep(units, received) /\ Stream!Incomplete(m_recvBuf)
  BY <1>3 DEF Stream!StreamInv
<1>5. PICK n \in Nat, m \in Nat : Facts(units, n, m)
  BY <1>1, <1>4, EndFacts
<1>6. /\ units \in Seq(Nat \X Nat) /\ n = Len(units) /\ m = Len(sent)
      /\ units # <<>> <=> n # 0
  BY <1>1, <1>4, <1>5, EndFacts DEF Facts
<1>7. PICK l \in Nat \ {0} : l = HeaderLen + len
  BY <1>2
<1>8. PICK frame : frame = Stream!Units(m + 1, len)
  OBVIOUS
<1>9. /\ frame \in Seq(Nat \X Nat) /\ Len(frame) = l
      /\ \A j \in 1 .. l : frame[j] = <<m + 1, j>>
  <2>1. frame = [k \in 1 .. l |-> <<m + 1, k>>]
    BY <1>7, <1>8 DEF Stream!Units
  <2>2. \A k \in 1 .. l : <<m + 1, k>> \in Nat \X Nat
    OBVIOUS
  <2>3. frame \in Seq(Nat \X Nat) /\ DOMAIN frame = 1 .. l
    BY <2>1, <2>2, IsASeq
  <2>4. Len(frame) = l
    <3>1. DOMAIN frame = 1 .. Len(frame) /\ Len(frame) \in Nat
      BY <2>3, LenProperties
    <3> QED BY <2>3, <3>1
  <2> QED BY <2>1, <2>3, <2>4
<1>10. /\ m_isConnected' = m_isConnected /\ sent' = Append(sent, len)
       /\ wire' = wire \o frame /\ m_recvBuf' = m_recvBuf /\ received' = received
  BY <1>6, <1>8 DEF Stream!ServerSends
<1>11. /\ sent' \in Seq(Nat) /\ Len(sent') = m + 1 /\ sent'[m + 1] = len
       /\ \A f \in 1 .. m : sent'[f] = sent[f]
  <2>1. PICK s : s = sent
    OBVIOUS
  <2>2. s \in Seq(Nat)
    BY <1>1, <2>1
  <2>3. /\ Append(s, len) \in Seq(Nat) /\ Len(Append(s, len)) = Len(s) + 1
        /\ Append(s, len)[Len(s) + 1] = len
        /\ \A i \in 1 .. Len(s) : Append(s, len)[i] = s[i]
    BY <1>2, <2>2, AppendProperties
  <2> QED BY <1>6, <1>10, <2>1, <2>3
<1>12. PICK more : more = units \o frame
  OBVIOUS
<1>13. /\ more \in Seq(Nat \X Nat) /\ Len(more) = n + l
       /\ \A i \in 1 .. n : more[i] = units[i]
       /\ \A j \in 1 .. l : more[n + j] = <<m + 1, j>>
  <2>1. PICK S : S = Nat \X Nat
    OBVIOUS
  <2>2. units \in Seq(S) /\ frame \in Seq(S)
    BY <1>6, <1>9, <2>1
  <2>3. \A x \in Seq(S), y \in Seq(S) :
          /\ x \o y \in Seq(S) /\ Len(x \o y) = Len(x) + Len(y)
          /\ \A i \in 1 .. Len(x) + Len(y) :
               (x \o y)[i] = IF i <= Len(x) THEN x[i] ELSE y[i - Len(x)]
    BY ConcatProperties
  <2>4. /\ more \in Seq(S) /\ Len(more) = n + l
        /\ \A i \in 1 .. n + l : more[i] = IF i <= n THEN units[i] ELSE frame[i - n]
    BY <1>6, <1>9, <1>12, <2>2, <2>3
  <2>5. ASSUME NEW j \in 1 .. l
        PROVE  more[n + j] = <<m + 1, j>>
    <3>1. n + j \in 1 .. n + l /\ ~ (n + j <= n) /\ n + j - n = j
      OBVIOUS
    <3>2. more[n + j] = frame[j]
      BY <2>4, <3>1
    <3> QED BY <1>9, <3>2
  <2>6. ASSUME NEW i \in 1 .. n
        PROVE  more[i] = units[i]
    <3>1. i \in 1 .. n + l /\ i <= n
      OBVIOUS
    <3> QED BY <2>4, <3>1
  <2> QED BY <2>1, <2>4, <2>5, <2>6
<1>14. (m_recvBuf \o wire)' = more
  <2>1. PICK S, r, w : S = Nat \X Nat /\ r = m_recvBuf /\ w = wire
    OBVIOUS
  <2>2. r \in Seq(S) /\ w \in Seq(S) /\ frame \in Seq(S)
    BY <1>1, <1>9, <2>1
  <2>3. \A x \in Seq(S), y \in Seq(S), z \in Seq(S) : (x \o y) \o z = x \o (y \o z)
    BY ConcatAssociative
  <2>4. (r \o w) \o frame = r \o (w \o frame)
    BY <2>2, <2>3
  <2>5. more = (r \o w) \o frame
    BY <1>3, <1>12, <2>1
  <2>6. m_recvBuf' = r /\ wire' = w \o frame
    BY <1>10, <2>1
  <2> QED BY <2>4, <2>5, <2>6
<1>15. ASSUME NEW i \in 1 .. n + l
       PROVE  /\ more[i][1] \in 1 .. (m + 1)
              /\ more[i][2] \in 1 .. (HeaderLen + sent'[more[i][1]])
              /\ i > 1 => more[i] = Stream!UnitAfter(more[i - 1])'
  <2>1. CASE i \in 1 .. n
    <3>1. more[i] = units[i] /\ units[i][1] \in 1 .. m
      BY <1>5, <1>13, <2>1 DEF Facts
    <3>2. units[i][2] \in 1 .. (HeaderLen + sent[units[i][1]])
      BY <1>5, <2>1 DEF Facts
    <3>3. sent'[units[i][1]] = sent[units[i][1]]
      BY <1>11, <3>1
    <3>4. ASSUME i > 1
          PROVE  more[i] = Stream!UnitAfter(more[i - 1])'
      <4>1. i - 1 \in 1 .. n
        BY <2>1, <3>4
      <4>2. more[i - 1] = units[i - 1] /\ units[i - 1][1] \in 1 .. m
        BY <1>5, <1>13, <4>1 DEF Facts
      <4>3. sent'[units[i - 1][1]] = sent[units[i - 1][1]]
        BY <1>11, <4>2
      <4>4. units[i] = Stream!UnitAfter(units[i - 1])
        BY <1>5, <2>1, <3>4 DEF Facts
      <4>5. PICK u : u = units[i - 1]
        OBVIOUS
      <4>6. Stream!UnitAfter(u)' = Stream!UnitAfter(u)
        BY <4>3, <4>5 DEF Stream!UnitAfter
      <4> QED BY <3>1, <4>2, <4>4, <4>5, <4>6
    <3>5. units[i][1] \in 1 .. (m + 1)
      BY <3>1
    <3> QED BY <3>1, <3>2, <3>3, <3>4, <3>5
  <2>2. CASE i \in (n + 1) .. (n + l)
    <3>1. PICK j \in 1 .. l : i = n + j
      <4>1. i - n \in 1 .. l /\ i = n + (i - n)
        BY <2>2
      <4> QED BY <4>1
    <3>2. more[i] = <<m + 1, j>>
      BY <1>13, <3>1
    <3>3. more[i][1] \in 1 .. (m + 1) /\ more[i][2] \in 1 .. (HeaderLen + sent'[more[i][1]])
      BY <1>7, <1>11, <3>2
    <3>4. ASSUME i > 1
          PROVE  more[i] = Stream!UnitAfter(more[i - 1])'
      <4>1. CASE j = 1
        <5>1. n # 0 /\ i - 1 = n /\ n \in 1 .. n
          BY <3>1, <3>4, <4>1
        <5>2. more[n] = units[n] /\ units[n] = <<m, HeaderLen + sent[m]>> /\ m \in 1 .. m
          <6>1. units[n][1] \in 1 .. m
            BY <1>5, <5>1 DEF Facts
          <6>2. more[n] = units[n] /\ units[n] = <<m, HeaderLen + sent[m]>>
            BY <1>5, <1>13, <5>1 DEF Facts
          <6> QED BY <6>1, <6>2
        <5>3. sent'[m] = sent[m] /\ sent[m] \in Nat
          BY <1>1, <1>6, <1>11, <5>2, ElementOfSeq
        <5>4. PICK u : u = more[n]
          OBVIOUS
        <5>5. u = <<m, HeaderLen + sent'[m]>>
          BY <5>2, <5>3, <5>4
        <5>6. ~ (HeaderLen + sent'[m] < HeaderLen + sent'[m])
          BY <1>2, <5>3
        <5>7. Stream!UnitAfter(u)' = <<m + 1, 1>>
          BY <5>5, <5>6 DEF Stream!UnitAfter
        <5> QED BY <3>2, <4>1, <5>1, <5>4, <5>7
      <4>2. CASE j # 1
        <5>1. j - 1 \in 1 .. l /\ i - 1 = n + (j - 1) /\ j - 1 < l
          BY <3>1, <4>2
        <5>2. PICK u : u = more[i - 1]
          OBVIOUS
        <5>3. u = <<m + 1, j - 1>>
          BY <1>13, <5>1, <5>2
        <5>4. Stream!UnitAfter(u)' = <<m + 1, j - 1 + 1>>
          BY <1>7, <1>11, <5>1, <5>3 DEF Stream!UnitAfter
        <5> QED BY <3>2, <5>2, <5>4
      <4> QED BY <4>1, <4>2
    <3> QED BY <3>3, <3>4
  <2> QED BY <2>1, <2>2
<1>16. more[n + l] = <<m + 1, HeaderLen + sent'[m + 1]>>
  <2>1. l \in 1 .. l
    OBVIOUS
  <2>2. more[n + l] = <<m + 1, l>>
    BY <1>13, <2>1
  <2> QED BY <1>7, <1>11, <2>2
<1>17. Stream!EndOfStream(m_recvBuf \o wire)'
  <2>1. \A i \in 1 .. Len(more) :
          /\ more[i][1] \in 1 .. Len(sent')
          /\ more[i][2] \in 1 .. (HeaderLen + sent'[more[i][1]])
          /\ i > 1 => more[i] = Stream!UnitAfter(more[i - 1])'
    BY <1>11, <1>13, <1>15
  <2>2. more[Len(more)] = <<Len(sent'), HeaderLen + sent'[Len(sent')]>>
    BY <1>11, <1>13, <1>16
  <2> QED BY <1>13, <1>14, <2>1, <2>2 DEF Stream!EndOfStream
<1>18. PICK got : got = received
  OBVIOUS
<1>19. got \in Seq(1 .. m) /\ \A i, j \in 1 .. Len(got) : i < j => got[i] < got[j]
  BY <1>4, <1>6, <1>18 DEF Stream!InOrder
<1>20. \A j \in 1 .. Len(got) : got[j] \in 1 .. m
  BY <1>19, ElementOfSeq
<1>21. Stream!InOrder(m_recvBuf \o wire, received)'
  <2>1. got \in Seq(1 .. (m + 1))
    <3>1. PICK M : M = 1 .. (m + 1)
      OBVIOUS
    <3>2. \A j \in 1 .. Len(got) : got[j] \in M
      BY <1>20, <3>1
    <3>3. got = [i \in 1 .. Len(got) |-> got[i]] /\ Len(got) \in Nat
      BY <1>19, LenProperties
    <3>4. [i \in 1 .. Len(got) |-> got[i]] \in Seq(M)
      BY <3>2, <3>3, IsASeq
    <3> QED BY <3>1, <3>3, <3>4
  <2>2. ASSUME NEW i \in 1 .. n + l, NEW j \in 1 .. Len(got), more[i][2] = 1
        PROVE  got[j] < more[i][1]
    <3>1. CASE i \in 1 .. n
      BY <1>4, <1>6, <1>13, <1>18, <2>2, <3>1 DEF Stream!InOrder
    <3>2. CASE i \in (n + 1) .. (n + l)
      <4>1. PICK k \in 1 .. l : i = n + k
        <5>1. i - n \in 1 .. l /\ i = n + (i - n)
          BY <3>2
        <5> QED BY <5>1
      <4>2. more[i][1] = m + 1
        BY <1>13, <4>1
      <4>3. PICK x \in 1 .. m : x = got[j]
        BY <1>20
      <4> QED BY <4>2, <4>3
    <3> QED BY <3>1, <3>2
  <2> QED BY <1>10, <1>11, <1>13, <1>14, <1>18, <1>19, <2>1, <2>2 DEF Stream!InOrder
<1>22. ASSUME m_isConnected', Stream!AllLegal'
       PROVE  Stream!InStep(m_recvBuf \o wire, received)' /\ Stream!Incomplete(m_recvBuf)'
  <2>1. Stream!AllLegal
    <3>1. DOMAIN sent = 1 .. m /\ DOMAIN (sent') = 1 .. (m + 1)
      BY <1>1, <1>6, <1>11, LenProperties
    <3>2. ASSUME NEW f \in 1 .. m
          PROVE  ~ Stream!Invalid(sent[f])
      <4>1. f \in 1 .. (m + 1) /\ sent'[f] = sent[f]
        BY <1>11
      <4> QED BY <1>22, <3>1, <4>1 DEF Stream!AllLegal, Stream!Invalid
    <3> QED BY <3>1, <3>2 DEF Stream!AllLegal
  <2>2. Stream!InStep(units, got) /\ Stream!Incomplete(m_recvBuf)
    BY <1>4, <1>10, <1>18, <1>22, <2>1
  <2>3. /\ got = [i \in 1 .. Len(got) |-> i]
        /\ more[1] = <<Len(got) + 1, 1>>
    <3>1. CASE n = 0
      <4>1. Len(got) = m
        BY <1>6, <2>2, <3>1 DEF Stream!InStep
      <4>2. 1 \in 1 .. l /\ n + 1 = 1
        BY <3>1
      <4>3. more[1] = <<m + 1, 1>>
        BY <1>13, <4>2
      <4> QED BY <2>2, <4>1, <4>3 DEF Stream!InStep
    <3>2. CASE n # 0
      <4>1. 1 \in 1 .. n
        BY <3>2
      <4> QED BY <1>6, <1>13, <2>2, <3>2, <4>1 DEF Stream!InStep
    <3> QED BY <3>1, <3>2
  <2>4. more # <<>>
    BY <1>13, EmptySeq
  <2>5. Stream!InStep(m_recvBuf \o wire, received)'
    BY <1>10, <1>14, <1>18, <2>3, <2>4 DEF Stream!InStep
  <2>6. Stream!Incomplete(m_recvBuf)'
    <3>1. CASE Len(m_recvBuf) < HeaderLen
      BY <1>10, <3>1 DEF Stream!Incomplete
    <3>2. CASE ~ (Len(m_recvBuf) < HeaderLen)
      <4>1. PICK b, r : b \in Nat /\ b = Len(m_recvBuf) /\ r = m_recvBuf
        BY <1>1, LenProperties
      <4>2. 1 \in 1 .. b
        BY <1>2, <3>2, <4>1
      <4>3. units[1] = r[1] /\ n # 0
        <5>1. PICK S, w : S = Nat \X Nat /\ w = wire
          OBVIOUS
        <5>2. r \in Seq(S) /\ w \in Seq(S) /\ units = r \o w
          BY <1>1, <1>3, <4>1, <5>1
        <5>3. \A x \in Seq(S), y \in Seq(S) :
                Len(x \o y) = Len(x) + Len(y) /\ \A i \in 1 .. Len(x) : (x \o y)[i] = x[i]
          BY ConcatFront
        <5>4. PICK k \in Nat : k = Len(w)
          BY <5>2, LenProperties
        <5> QED BY <1>6, <4>1, <4>2, <5>2, <5>3, <5>4
      <4>4. units[1][1] \in 1 .. m
        <5>1. 1 \in 1 .. n
          BY <4>3
        <5> QED BY <1>5, <5>1 DEF Facts
      <4>5. sent'[r[1][1]] = sent[r[1][1]]
        BY <1>11, <4>3, <4>4
      <4> QED BY <1>10, <2>2, <4>1, <4>5 DEF Stream!Incomplete
    <3> QED BY <3>1, <3>2
  <2> QED BY <2>5, <2>6
<1> QED BY <1>1, <1>10, <1>11, <1>17, <1>21, <1>22, <1>9, <1>13, <1>14 DEF Stream!StreamInv

-----------------------------------------------------------------------------
(* With legal lengths, the frames handed on are those of which no unit is   *)
(* left on the wire: the units left begin with the frame after them, of     *)
(* which the buffer does not hold all, and go through all later ones.       *)
LEMMA AllArrived == Stream!StreamInv => Stream!CompleteFrames
<1> SUFFICES ASSUME Stream!StreamInv, m_isConnected, Stream!AllLegal
             PROVE  /\ received = [i \in DOMAIN received |-> i]
                    /\ {f \in DOMAIN sent : Stream!Arrived(f)} = DOMAIN received
  BY DEF Stream!CompleteFrames
<1>1. sent \in Seq(Nat) /\ m_recvBuf \in Seq(Nat \X Nat) /\ wire \in Seq(Nat \X Nat)
  BY DEF Stream!StreamInv
<1>2. PICK units : units = m_recvBuf \o wire
  OBVIOUS
<1>3. /\ Stream!EndOfStream(units) /\ Stream!InOrder(units, received)
      /\ Stream!InStep(units, received) /\ Stream!Incomplete(m_recvBuf)
  BY <1>2 DEF Stream!StreamInv
<1>4. PICK n \in Nat, m \in Nat : Facts(units, n, m)
  BY <1>1, <1>3, EndFacts
<1>5. n = Len(units) /\ m = Len(sent) /\ DOMAIN sent = 1 .. m /\ (units # <<>> <=> n # 0)
  BY <1>4 DEF Facts
<1>6. PICK g \in Nat : g = Len(received)
  BY <1>3, LenProperties DEF Stream!InOrder
<1>7. received = [i \in 1 .. g |-> i]
  BY <1>3, <1>6 DEF Stream!InStep
<1>8. PICK b \in Nat, w \in Nat : b = Len(m_recvBuf) /\ w = Len(wire)
  BY <1>1, LenProperties
<1>9. n = b + w /\ DOMAIN wire = 1 .. w /\ \A j \in 1 .. w : wire[j] = units[b + j]
  <2>1. PICK S, x, y : S = Nat \X Nat /\ x = m_recvBuf /\ y = wire
    OBVIOUS
  <2>2. x \in Seq(S) /\ y \in Seq(S)
    BY <1>1, <2>1
  <2>3. \A p \in Seq(S), q \in Seq(S) :
          /\ Len(p \o q) = Len(p) + Len(q)
          /\ \A i \in 1 .. Len(p) + Len(q) :
               (p \o q)[i] = IF i <= Len(p) THEN p[i] ELSE q[i - Len(p)]
    BY ConcatProperties
  <2>4. /\ n = b + w
        /\ \A i \in 1 .. b + w : units[i] = IF i <= b THEN x[i] ELSE y[i - b]
    BY <1>2, <1>5, <1>8, <2>1, <2>2, <2>3
  <2>5. ASSUME NEW j \in 1 .. w
        PROVE  y[j] = units[b + j]
    <3>1. b + j \in 1 .. b + w /\ ~ (b + j <= b) /\ b + j - b = j
      OBVIOUS
    <3> QED BY <2>4, <3>1
  <2>6. DOMAIN y = 1 .. w
    BY <1>8, <2>1, <2>2, LenProperties
  <2> QED BY <2>1, <2>4, <2>5, <2>6
<1>10. g <= m
  <2>1. CASE n = 0
    BY <1>3, <1>5, <1>6, <2>1 DEF Stream!InStep
  <2>2. CASE n # 0
    <3>1. units[1] = <<g + 1, 1>> /\ 1 \in 1 .. n
      BY <1>3, <1>5, <1>6, <2>2 DEF Stream!InStep
    <3>2. units[1][1] \in 1 .. m
      BY <1>4, <3>1 DEF Facts
    <3> QED BY <3>1, <3>2
  <2> QED BY <2>1, <2>2
<1>11. ASSUME NEW f \in 1 .. m, f <= g
       PROVE  Stream!Arrived(f)
  <2>1. SUFFICES ASSUME NEW j \in 1 .. w
                 PROVE  wire[j][1] # f
    BY <1>9 DEF Stream!Arrived
  <2>2. b + j \in 1 .. n /\ 1 \in 1 .. n /\ 1 <= b + j /\ n # 0
    BY <1>9
  <2>3. units[1] = <<g + 1, 1>>
    BY <1>3, <1>5, <1>6, <2>2 DEF Stream!InStep
  <2>4. units[1][1] <= units[b + j][1]
    BY <1>4, <2>2, FramesRise
  <2>5. PICK x \in Nat : x = units[b + j][1]
    <3>1. units[b + j][1] \in 1 .. m
      BY <1>4, <2>2 DEF Facts
    <3> QED BY <3>1
  <2>6. x # f
    BY <1>11, <2>3, <2>4, <2>5
  <2> QED BY <1>9, <2>5, <2>6
<1>12. ASSUME NEW f \in 1 .. m, ~ (f <= g)
       PROVE  ~ Stream!Arrived(f)
  <2>1. n # 0
    <3>1. ASSUME n = 0
          PROVE  FALSE
      <4>1. g = m
        BY <1>3, <1>5, <1>6, <3>1 DEF Stream!InStep
      <4> QED BY <1>12, <4>1
    <3> QED BY <3>1
  <2>2. units[1] = <<g + 1, 1>>
    BY <1>3, <1>5, <1>6, <2>1 DEF Stream!InStep
  <2>3. PICK len \in 1 .. n : Whole(units, n, m, g + 1, len)
    BY <1>1, <1>4, <2>1, <2>2, FirstFrame
  <2>4. len = HeaderLen + sent[g + 1] /\ \A i \in 1 .. len : units[i] = <<g + 1, i>>
    BY <2>3 DEF Whole
  (* The first unit on the wire is one of the frame after those handed on. *)
  <2>5. b < len
    <3>1. HeaderLen \in Nat \ {0} /\ sent[g + 1] \in Nat
      <4>1. g + 1 \in 1 .. m
        BY <1>12
      <4>2. PICK h \in 1 .. m : h = g + 1
        BY <4>1
      <4>3. sent[h] \in Nat
        BY <1>1, <1>5, ElementOfSeq
      <4> QED BY <4>2, <4>3, ConnectionAssumption DEF ConnectionAssumption
    <3>2. CASE b < HeaderLen
      BY <2>4, <3>1, <3>2
    <3>3. CASE ~ (b < HeaderLen)
      <4>1. m_recvBuf[1] = units[1]
        <5>1. 1 \in 1 .. b
          BY <3>1, <3>3
        <5>2. PICK S, x, y : S = Nat \X Nat /\ x = m_recvBuf /\ y = wire
          OBVIOUS
        <5>3. x \in Seq(S) /\ y \in Seq(S)
          BY <1>1, <5>2
        <5>4. \A p \in Seq(S), q \in Seq(S) : \A i \in 1 .. Len(p) : (p \o q)[i] = p[i]
          BY ConcatFront
        <5> QED BY <1>2, <1>8, <5>1, <5>2, <5>3, <5>4
      <4>2. b < HeaderLen + sent[g + 1]
        BY <1>3, <1>8, <2>2, <3>3, <4>1 DEF Stream!Incomplete
      <4> QED BY <2>4, <4>2
    <3> QED BY <3>2, <3>3
  <2>6. b + 1 \in 1 .. n /\ units[b + 1][1] = g + 1
    <3>1. b + 1 \in 1 .. len
      BY <2>5
    <3>2. units[b + 1] = <<g + 1, b + 1>>
      BY <2>4, <3>1
    <3> QED BY <3>1, <3>2
  (* The least later unit of a frame that is not before f is one of f itself. *)
  <2> DEFINE S == {i \in Nat : i \in b + 1 .. n /\ f <= units[i][1]}
  <2>7. PICK i \in S : \A k \in S : i <= k
    <3>1. units[n] = <<m, HeaderLen + sent[m]>>
      BY <1>4, <2>1 DEF Facts
    <3>2. n \in b + 1 .. n
      BY <2>6
    <3>3. n \in S
      BY <3>1, <3>2
    <3>4. S \in SUBSET Nat
      OBVIOUS
    <3> HIDE DEF S
    <3> QED BY <3>3, <3>4, Smallest
  <2>8. i \in 1 .. n /\ i \in b + 1 .. n /\ f <= units[i][1] /\ units[i][1] \in 1 .. m
    <3>1. i \in b + 1 .. n /\ f <= units[i][1]
      OBVIOUS
    <3>2. i \in 1 .. n
      BY <3>1
    <3>3. units[i][1] \in 1 .. m
      BY <1>4, <3>2 DEF Facts
    <3> QED BY <3>1, <3>2, <3>3
  <2>9. units[i][1] = f
    <3>1. CASE i = b + 1
      <4>1. f = g + 1
        BY <1>12, <2>6, <2>8, <3>1
      <4> QED BY <2>6, <3>1, <4>1
    <3>2. CASE i # b + 1
      <4>1. i - 1 \in b + 1 .. n /\ i - 1 \in 1 .. n /\ i > 1
        BY <2>8, <3>2
      <4>2. ~ (f <= units[i - 1][1])
        <5>1. i - 1 \notin S
          <6>1. ~ (i <= i - 1)
            BY <2>8
          <6> HIDE DEF S
          <6> QED BY <2>7, <6>1
        <5> QED BY <4>1, <5>1
      <4>3. PICK x \in Nat : x = units[i - 1][1]
        <5>1. units[i - 1][1] \in 1 .. m
          BY <1>4, <4>1 DEF Facts
        <5> QED BY <5>1
      <4>4. units[i] = Stream!UnitAfter(units[i - 1])
        BY <1>4, <2>8, <4>1 DEF Facts
      <4>5. units[i][1] = x \/ units[i][1] = x + 1
        BY <4>3, <4>4 DEF Stream!UnitAfter
      <4>6. PICK y \in Nat : y = units[i][1]
        BY <2>8
      <4>7. f <= y /\ ~ (f <= x) /\ (y = x \/ y = x + 1)
        BY <2>8, <4>2, <4>3, <4>5, <4>6
      <4> QED BY <4>6, <4>7
    <3> QED BY <3>1, <3>2
  <2>10. PICK j \in 1 .. w : i = b + j
    <3>1. i - b \in 1 .. w /\ i = b + (i - b)
      BY <1>9, <2>8
    <3> QED BY <3>1
  <2>11. wire[j][1] = f
    BY <1>9, <2>9, <2>10
  <2> QED BY <1>9, <2>10, <2>11 DEF Stream!Arrived
<1>13. {f \in DOMAIN sent : Stream!Arrived(f)} = 1 .. g
  <2>1. \A f \in 1 .. m : Stream!Arrived(f) <=> f <= g
    BY <1>11, <1>12
  <2>2. \A f \in 1 .. g : f \in 1 .. m /\ f <= g
    BY <1>10
  <2>3. \A f \in 1 .. m : f <= g => f \in 1 .. g
    OBVIOUS
  <2> QED BY <1>5, <2>1, <2>2, <2>3
<1>14. DOMAIN received = 1 .. g
  BY <1>7
<1> QED BY <1>7, <1>13, <1>14

(* Rising numbers do not repeat.                                            *)
LEMMA OnceInOrder == Stream!StreamInv => Stream!InOrderOnce
<1> SUFFICES ASSUME Stream!StreamInv
             PROVE  Stream!InOrderOnce
  OBVIOUS
<1>1. received \in Seq(1 .. Len(sent))
  BY DEF Stream!StreamInv, Stream!InOrder
<1>2. DOMAIN received = 1 .. Len(received)
  BY <1>1, LenProperties
<1> QED BY <1>2 DEF Stream!StreamInv, Stream!InOrder, Stream!InOrderOnce

(* However a connection begins, ends and cuts its bytes, frames are handed on *)
(* whole, once and in the order of the server (networkmanager.cpp:136-165,  *)
(* 184-218).                                                                *)
THEOREM FramesInOrder == ConnectionSpec => []FramesWholeInOrder
<1>1. ConnectionInit => Stream!StreamInv
  BY ConnectedEmpty DEF ConnectionInit, Stream!Init
<1>2. Stream!StreamInv /\ [ConnectionNext]_connectionVars => Stream!StreamInv'
  <2> SUFFICES ASSUME Stream!StreamInv, [ConnectionNext]_connectionVars
               PROVE  Stream!StreamInv'
    OBVIOUS
  <2>1. ASSUME m_isConnected' = m_isConnected, UNCHANGED <<sent, wire, m_recvBuf, received>>
        PROVE  Stream!StreamInv'
    BY <2>1 DEF Stream!StreamInv, Stream!EndOfStream, Stream!UnitAfter, Stream!InOrder,
                Stream!AllLegal, Stream!Invalid, Stream!InStep, Stream!Incomplete
  <2>2. CASE UNCHANGED connectionVars
    <3>1. m_isConnected' = m_isConnected /\ UNCHANGED <<sent, wire, m_recvBuf, received>>
      BY <2>2 DEF connectionVars, vars, m_isConnected
    <3> QED BY <2>1, <3>1
  <2>3. CASE Linked(Next)
    <3>1. CASE Stream!slotConnected
      <4>1. (sent = <<>> /\ wire = <<>> /\ m_recvBuf = <<>> /\ received = <<>>)'
        BY <3>1 DEF Stream!slotConnected, Stream!ClearedBuffer
      <4> QED BY <4>1, ConnectedEmpty, PTL
    <3>2. CASE Stream!slotDisconnected
      BY <3>2, DisconnectedKeeps
    <3> QED BY <2>1, <2>3, <3>1, <3>2 DEF Linked, StreamFollows
  <2>4. CASE Traffic
    BY <2>4, ReadyReadKeeps, SendsKeeps DEF Traffic
  <2> QED BY <2>2, <2>3, <2>4 DEF ConnectionNext
<1>3. Stream!StreamInv => FramesWholeInOrder
  BY AllArrived, OnceInOrder DEF FramesWholeInOrder
<1> QED BY <1>1, <1>2, <1>3, PTL DEF ConnectionSpec

(* The bytes do not disturb the connection: what is proved of the network    *)
(* manager holds with its stream beside it (networkmanager.cpp:73-93,       *)
(* 136-218).                                                                *)
THEOREM ConnectionIsNetwork == ConnectionSpec => Spec
<1>1. ConnectionInit => Init
  BY DEF ConnectionInit
<1>2. [ConnectionNext]_connectionVars => [Next]_vars
  BY DEF ConnectionNext, Linked, Traffic, connectionVars
<1> QED BY <1>1, <1>2, PTL DEF ConnectionSpec, Spec

=============================================================================
