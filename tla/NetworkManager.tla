--------------------------- MODULE NetworkManager ---------------------------
(***************************************************************************)
(* The connection of the client to its server: NetworkManager              *)
(* (client/core/networkmanager.cpp) with the two buttons of MainWindow     *)
(* that drive it (client/ui/mainwindow.cpp:596-634).  One thread runs it   *)
(* all, so every slot is one step, with the slots it calls synchronously.  *)
(***************************************************************************)
EXTENDS Integers

CONSTANTS
  MaxReconnect,  (* MAX_RECONNECT_COUNT                                    *)
  MaxFlips,      (* bound: times the server goes away or comes back        *)
  MaxClicks      (* bound: clicks on the buttons                           *)

ASSUME NetworkAssumption ==
  MaxReconnect \in Nat \ {0} /\ MaxFlips \in Nat /\ MaxClicks \in Nat

VARIABLES
  socket,       (* "none", "unconnected", "connected", "closing": closed   *)
                (* with unsent bytes, disconnected is still to come         *)
  active,       (* what is on: "connected" (m_isConnected), "reconnect"    *)
                (* (m_reconnectTimer), "heartbeat" (m_heartbeatTimer)       *)
  m_reconnectCount,
  button,       (* which of btn_connect and btn_disconnect is enabled      *)
  message,      (* "retrying" while the status bar promises a retry; every *)
                (* other slot shows a message of its own                    *)
  server,       (* external: "up" while it accepts and keeps connections   *)
  flips, clicks,
  attempts,     (* history: attempts of the timer since a connection       *)
  lastClick     (* history: what the user asked for last                   *)

vars == <<socket, active, m_reconnectCount, button, message, server, flips,
          clicks, attempts, lastClick>>

m_isConnected    == "connected" \in active
m_reconnectTimer == "reconnect" \in active
m_heartbeatTimer == "heartbeat" \in active

TypeOK ==
  /\ socket \in {"none", "unconnected", "connected", "closing"}
  /\ active \subseteq {"connected", "reconnect", "heartbeat"}
  /\ m_reconnectCount \in 0 .. MaxReconnect
  /\ button \in {"connect", "disconnect"}
  /\ message \in {"none", "retrying"}
  /\ server \in {"up", "down"}
  /\ flips \in 0 .. MaxFlips /\ clicks \in 0 .. MaxClicks
  /\ attempts \in Nat
  /\ lastClick \in {"none", "connect", "disconnect"}

Init ==
  /\ socket = "none"
  /\ active = {}
  /\ m_reconnectCount = 0
  /\ button = "connect"
  /\ message = "none"
  /\ server \in {"up", "down"}
  /\ flips = 0 /\ clicks = 0
  /\ attempts = 0 /\ lastClick = "none"

-----------------------------------------------------------------------------
(* The slots of the socket's signals.  count is what the caller has made of *)
(* m_reconnectCount, on what it has left active.                            *)

slotConnected ==
  /\ active' = {"connected", "heartbeat"}
  /\ m_reconnectCount' = 0
  /\ button' = "disconnect"
  /\ attempts' = 0

(* Mutant: the heartbeat timer is not stopped. *)
DisconnectedKeepsHeartbeat(on) ==
  LET again == m_isConnected /\ m_reconnectCount < MaxReconnect IN
  /\ active' = (on \ {"connected"}) \cup (IF again THEN {"reconnect"} ELSE {})
  /\ m_reconnectCount' = m_reconnectCount + (IF again THEN 1 ELSE 0)
  /\ button' = "connect"

slotDisconnected(on) ==
  LET again == m_isConnected /\ m_reconnectCount < MaxReconnect IN
  /\ active' = (on \ {"connected", "heartbeat"})
                 \cup (IF again THEN {"reconnect"} ELSE {})
  /\ m_reconnectCount' = m_reconnectCount + (IF again THEN 1 ELSE 0)
  /\ button' = "connect"

(* Mutant: an error only reports. *)
ErrorOnlyReports(count) == m_reconnectCount' = count /\ UNCHANGED active

slotError(count) ==
  IF ~ m_isConnected /\ ~ m_reconnectTimer /\ count < MaxReconnect
    THEN m_reconnectCount' = count + 1 /\ active' = active \cup {"reconnect"}
    ELSE m_reconnectCount' = count /\ UNCHANGED active

(* connectToServer: the old socket goes without a signal; waitForConnected  *)
(* delivers connected or error before it returns.                           *)
ConnectSucceeds ==
  /\ server = "up"
  /\ socket' = "connected"
  /\ slotConnected

ConnectFails(count) ==
  /\ server = "down"
  /\ socket' = "unconnected"
  /\ slotError(count)
  /\ UNCHANGED button

-----------------------------------------------------------------------------

(* MainWindow::initSystem *)
ConnectAtStart ==
  /\ socket = "none"
  /\ \/ ConnectSucceeds
     \/ ConnectFails(m_reconnectCount) /\ UNCHANGED attempts
  /\ message' = "none"
  /\ UNCHANGED <<server, flips, clicks, lastClick>>

(* The attempt of slotReconnect, counted as the count-th. *)
Attempt(count) ==
  \/ ConnectSucceeds
  \/ ConnectFails(count) /\ attempts' = attempts + 1

GiveUp ==
  /\ active' = active \ {"reconnect"}
  /\ UNCHANGED <<socket, m_reconnectCount, button, attempts>>

(* Mutant: the last attempt is not made. *)
ReconnectStopsEarly ==
  /\ m_reconnectTimer /\ ~ m_isConnected
  /\ IF m_reconnectCount + 1 >= MaxReconnect
       THEN GiveUp ELSE Attempt(m_reconnectCount + 1)
  /\ message' = "none"
  /\ UNCHANGED <<server, flips, clicks, lastClick>>

slotReconnect ==
  /\ m_reconnectTimer /\ ~ m_isConnected
  /\ IF m_reconnectCount >= MaxReconnect
       THEN GiveUp ELSE Attempt(m_reconnectCount + 1)
  /\ message' = "none"
  /\ UNCHANGED <<server, flips, clicks, lastClick>>

(* The peer closes or resets the connection: error, then disconnected.      *)
ConnectionLost ==
  /\ socket = "connected" /\ server = "down"
  /\ socket' = "unconnected"
  /\ slotDisconnected(active)
  /\ message' = "none"
  /\ UNCHANGED <<server, flips, clicks, attempts, lastClick>>

(* on_btn_connect_clicked: mainwindow.cpp:627 promises a retry.             *)
ClickConnect ==
  /\ socket # "none" /\ button = "connect"
  /\ clicks < MaxClicks /\ clicks' = clicks + 1
  /\ lastClick' = "connect"
  /\ \/ ConnectSucceeds /\ message' = "none"
     \/ ConnectFails(m_reconnectCount) /\ UNCHANGED attempts /\ message' = "retrying"
  /\ UNCHANGED <<server, flips>>

(* on_btn_disconnect_clicked: disconnectFromServer stops both timers, then  *)
(* closes the socket.  With nothing left to send close() runs               *)
(* slotDisconnected at once; otherwise that comes later, and finds          *)
(* m_isConnected cleared.                                                   *)
ClickDisconnect ==
  /\ button = "disconnect"
  /\ clicks < MaxClicks /\ clicks' = clicks + 1
  /\ lastClick' = "disconnect"
  /\ \/ /\ socket = "connected" /\ socket' = "unconnected"
        /\ slotDisconnected(active \ {"reconnect", "heartbeat"})
     \/ /\ socket' = "closing"
        /\ active' = {}
        /\ UNCHANGED <<m_reconnectCount, button>>
  /\ message' = "none"
  /\ UNCHANGED <<server, flips, attempts>>

ClosingEnds ==
  /\ socket = "closing"
  /\ socket' = "unconnected"
  /\ slotDisconnected(active)
  /\ message' = "none"
  /\ UNCHANGED <<server, flips, clicks, attempts, lastClick>>

(* The message is shown for five seconds. *)
MessageExpires ==
  /\ message # "none" /\ message' = "none"
  /\ UNCHANGED <<socket, active, m_reconnectCount, button, server, flips, clicks,
                 attempts, lastClick>>

ServerFlips ==
  /\ flips < MaxFlips /\ flips' = flips + 1
  /\ server' = IF server = "up" THEN "down" ELSE "up"
  /\ UNCHANGED <<socket, active, m_reconnectCount, button, message, clicks, attempts,
                 lastClick>>

Next ==
  \/ ConnectAtStart \/ slotReconnect \/ ConnectionLost \/ ClickConnect
  \/ ClickDisconnect \/ ClosingEnds \/ MessageExpires \/ ServerFlips

Spec == Init /\ [][Next]_vars

(* Timers fire and the socket's signals are delivered; users and the server *)
(* do what they like.                                                       *)
FairSpec ==
  /\ Spec
  /\ WF_vars(ConnectAtStart) /\ WF_vars(slotReconnect)
  /\ WF_vars(ConnectionLost) /\ WF_vars(ClosingEnds)

-----------------------------------------------------------------------------
(* Properties. *)

(* The flag other components ask follows the socket, and heartbeats are     *)
(* sent exactly while it is set, through every path that ends or replaces a *)
(* connection (networkmanager.cpp:73-93, 136-177).                          *)
FlagFollowsSocket ==
  /\ m_isConnected <=> socket = "connected"
  /\ m_heartbeatTimer <=> m_isConnected

(* The client is never offline with attempts left and no timer running,     *)
(* unless its user has disconnected it (networkmanager.cpp:166, 230).       *)
NeverIdleOffline ==
  socket = "unconnected" /\ lastClick # "disconnect" /\ m_reconnectCount < MaxReconnect =>
    m_reconnectTimer

(* The timer makes at most MAX_RECONNECT_COUNT attempts in a row            *)
(* (networkmanager.cpp:244-252), whatever errors and clicks come between.   *)
AttemptsBounded == attempts <= MaxReconnect

(* The inductive invariant behind the three: btn_connect is enabled only    *)
(* offline, a socket is closing only after a click, and every attempt of    *)
(* the timer was counted.                                                   *)
NetworkInv ==
  /\ TypeOK /\ FlagFollowsSocket /\ NeverIdleOffline
  /\ button = "connect" => ~ m_isConnected
  /\ socket = "closing" => lastClick = "disconnect" /\ button = "disconnect"
  /\ m_reconnectTimer => socket = "unconnected"
  /\ attempts <= m_reconnectCount

(* A client whose timer runs and that has an attempt left connects when the *)
(* server stays up, unless its user disconnects it: the last attempt is not *)
(* lost (networkmanager.cpp:240-266).                                       *)
ReconnectsWhenServerIsUp ==
  m_reconnectTimer /\ m_reconnectCount < MaxReconnect
    ~> m_isConnected \/ lastClick = "disconnect" \/ server = "down"

(* mainwindow.cpp:627: "连接服务端失败，正在重试..." (connecting failed,        *)
(* retrying): while the message is shown the timer runs.                    *)
RetryMessageTrue ==
  message = "retrying" => m_reconnectTimer \/ m_isConnected

=============================================================================
