------------------------------- MODULE Sensors -------------------------------
(***************************************************************************)
(* The sensor thread and the LED of the client: HardwareThread::run polls   *)
(* light sensor and card reader and signals the GUI thread, which lights    *)
(* the face only while a face is looked for (core/hardwarethread.cpp,       *)
(* core/hardwareservice.cpp).  The LED is a channel of a PWM chip that is   *)
(* exported to the program (core/hardware_api.c) and keeps its state when   *)
(* the program crashes.                                                    *)
(*                                                                         *)
(* Both open calls of the thread may fail; the reads on a descriptor of -1  *)
(* then fail too, and the thread goes on without that sensor.               *)
(***************************************************************************)
EXTENDS Integers, Sequences

CONSTANTS MaxSignals,   (* bound: signals that wait in the GUI's queue *)
          MaxCrashes    (* bound: crashes of the program               *)

ASSUME SensorsAssumption == MaxSignals \in Nat \ {0} /\ MaxCrashes \in Nat

VARIABLES
  client,        (* "off", "up", "shutdown" (in stopThread), "down"         *)
  m_isRunning,
  hwThread,      (* "none", "started", "light", "card", "asleep", "finished" *)
  sensors,       (* those of "light" and "card" that could be opened        *)
  signals,       (* the queued signals                                      *)
  m_ledFd,       (* "open" or "none"                                        *)
  m_faceRecognitionActive,
  exported,      (* whether the PWM channel is exported                     *)
  light,         (* its "enable"                                            *)
  crashes,
  stoppedEarly   (* history: the shutdown came before run() had begun       *)

sensorVars == <<client, m_isRunning, hwThread, sensors, signals, m_ledFd,
                m_faceRecognitionActive, exported, light, crashes, stoppedEarly>>

SensorsTypeOK ==
  /\ client \in {"off", "up", "shutdown", "down"}
  /\ hwThread \in {"none", "started", "light", "card", "asleep", "finished"}
  /\ sensors \subseteq {"light", "card"}
  /\ signals \in Seq({"light", "card"}) /\ Len(signals) <= MaxSignals
  /\ m_ledFd \in {"open", "none"} /\ light \in {"off", "on"}
  /\ {m_isRunning, m_faceRecognitionActive, exported, stoppedEarly} \subseteq BOOLEAN
  /\ crashes \in 0 .. MaxCrashes

SensorsInit ==
  /\ client = "off" /\ m_isRunning = FALSE /\ hwThread = "none" /\ sensors = {}
  /\ signals = <<>> /\ m_ledFd = "none" /\ m_faceRecognitionActive = FALSE
  /\ exported = FALSE /\ light = "off" /\ crashes = 0
  /\ stoppedEarly = FALSE

-----------------------------------------------------------------------------
(* HardwareService::init *)

(* led_open: writing to "export" fails for a channel that is exported; else   *)
(* the channel is disabled first.                                           *)
led_open ==
  IF exported
    THEN m_ledFd' = "none" /\ UNCHANGED <<exported, light>>
    ELSE m_ledFd' = "open" /\ exported' = TRUE /\ light' = "off"

init ==
  /\ client = "off"
  /\ client' = "up"
  /\ led_open
  /\ hwThread' = "started" /\ m_isRunning' = FALSE
  /\ m_faceRecognitionActive' = FALSE
  /\ stoppedEarly' = FALSE
  /\ UNCHANGED <<sensors, signals, crashes>>

-----------------------------------------------------------------------------
(* HardwareThread::run *)

RunBegins ==
  /\ hwThread = "started"
  /\ m_isRunning' = TRUE
  /\ sensors' \in SUBSET {"light", "card"}
  /\ hwThread' = "light"
  /\ UNCHANGED <<client, signals, m_ledFd, m_faceRecognitionActive, exported, light, crashes,
                 stoppedEarly>>

Emit(signal) == Len(signals) < MaxSignals /\ signals' = Append(signals, signal)

(* The loop's condition, and the light sensor. *)
ReadLight ==
  /\ hwThread = "light" /\ m_isRunning
  /\ hwThread' = "card"
  /\ \/ "light" \in sensors /\ Emit("light")
     \/ UNCHANGED signals
  /\ UNCHANGED <<client, m_isRunning, sensors, m_ledFd, m_faceRecognitionActive, exported,
                 light, crashes, stoppedEarly>>

ReadCard ==
  /\ hwThread = "card"
  /\ hwThread' = "asleep"
  /\ \/ "card" \in sensors /\ Emit("card")
     \/ UNCHANGED signals
  /\ UNCHANGED <<client, m_isRunning, sensors, m_ledFd, m_faceRecognitionActive, exported,
                 light, crashes, stoppedEarly>>

(* 100 ms, and a second more after a card. *)
ThreadWakes ==
  /\ hwThread = "asleep"
  /\ hwThread' = "light"
  /\ UNCHANGED <<client, m_isRunning, sensors, signals, m_ledFd, m_faceRecognitionActive,
                 exported, light, crashes, stoppedEarly>>

RunEnds ==
  /\ hwThread = "light" /\ ~m_isRunning
  /\ hwThread' = "finished" /\ sensors' = {}
  /\ UNCHANGED <<client, m_isRunning, signals, m_ledFd, m_faceRecognitionActive, exported,
                 light, crashes, stoppedEarly>>

run == RunBegins \/ ReadLight \/ ReadCard \/ ThreadWakes \/ RunEnds

-----------------------------------------------------------------------------
(* The GUI thread. *)

(* Every range of lux has a brightness above zero. *)
LightForFace == IF m_faceRecognitionActive THEN "on" ELSE "off"

onLightValue ==
  /\ client = "up" /\ signals # <<>> /\ Head(signals) = "light"
  /\ signals' = Tail(signals)
  /\ light' = IF m_ledFd = "open" THEN LightForFace ELSE light
  /\ UNCHANGED <<client, m_isRunning, hwThread, sensors, m_ledFd, m_faceRecognitionActive,
                 exported, crashes, stoppedEarly>>

(* The card's number goes on to the widgets. *)
onCardUID ==
  /\ client = "up" /\ signals # <<>> /\ Head(signals) = "card"
  /\ signals' = Tail(signals)
  /\ UNCHANGED <<client, m_isRunning, hwThread, sensors, m_ledFd, m_faceRecognitionActive,
                 exported, light, crashes, stoppedEarly>>

(* Called around a face recognition. *)
setFaceLight(on) ==
  /\ client = "up"
  /\ m_faceRecognitionActive' = on
  /\ light' = IF ~on /\ m_ledFd = "open" THEN "off" ELSE light
  /\ UNCHANGED <<client, m_isRunning, hwThread, sensors, signals, m_ledFd, exported,
                 crashes, stoppedEarly>>

(* Mutant: the flag of the loop is forgotten. *)
StopThreadOnlyQuits ==
  /\ client = "up"
  /\ client' = "shutdown"
  /\ stoppedEarly' = (hwThread = "started")
  /\ UNCHANGED <<m_isRunning, hwThread, sensors, signals, m_ledFd, m_faceRecognitionActive,
                 exported, light, crashes>>

(* shutdown(): stopThread clears the flag; quit() does nothing to a thread    *)
(* without an event loop.                                                   *)
stopThread ==
  /\ client = "up"
  /\ client' = "shutdown"
  /\ stoppedEarly' = (hwThread = "started")
  /\ m_isRunning' = FALSE
  /\ UNCHANGED <<hwThread, sensors, signals, m_ledFd, m_faceRecognitionActive, exported,
                 light, crashes>>

(* wait() returns; led_close disables and unexports the channel.  The program *)
(* ends and may be started again.                                           *)
ShutdownEnds ==
  /\ client = "shutdown" /\ hwThread = "finished"
  /\ client' = "off" /\ hwThread' = "none" /\ signals' = <<>>
  /\ m_ledFd' = "none"
  /\ light' = IF m_ledFd = "open" THEN "off" ELSE light
  /\ exported' = (exported /\ m_ledFd # "open")
  /\ m_faceRecognitionActive' = FALSE
  /\ UNCHANGED <<m_isRunning, sensors, crashes, stoppedEarly>>

(* Only what is in the kernel stays. *)
ClientCrashes ==
  /\ client # "off" /\ crashes < MaxCrashes
  /\ crashes' = crashes + 1
  /\ client' = "off" /\ m_isRunning' = FALSE /\ hwThread' = "none" /\ sensors' = {}
  /\ signals' = <<>> /\ m_ledFd' = "none" /\ m_faceRecognitionActive' = FALSE
  /\ UNCHANGED <<exported, light, stoppedEarly>>

SensorsNext ==
  \/ init \/ run \/ onLightValue \/ onCardUID \/ stopThread \/ ShutdownEnds \/ ClientCrashes
  \/ \E on \in BOOLEAN : setFaceLight(on)

SensorsSpec == SensorsInit /\ [][SensorsNext]_sensorVars

(* Threads are scheduled and the shutdown goes on when the thread has ended.  *)
SensorsFairness == WF_sensorVars(run) /\ WF_sensorVars(ShutdownEnds)

SensorsFairSpec == SensorsSpec /\ SensorsFairness

-----------------------------------------------------------------------------
(* Properties. *)

(* The light that dazzles is on only while a face is looked for, whatever     *)
(* light values are still queued, and never after the program has ended;      *)
(* only a crash may leave it on (hardwareservice.cpp:47-51, 97-127,           *)
(* hardware_api.c:253-265).                                                 *)
LightOnlyForFace == light = "on" => m_faceRecognitionActive \/ crashes > 0

(* Why it holds: a program starts without looking for a face, and before a    *)
(* crash the light goes on by the descriptor that can switch it off.         *)
LightInHand ==
  /\ client = "off" => ~m_faceRecognitionActive
  /\ crashes = 0 /\ light = "on" => m_faceRecognitionActive /\ m_ledFd = "open"

(* A shutdown waits for a thread that is on its way to its end: the flag is    *)
(* down, nobody sets it again, and the thread is inside of the loop that looks *)
(* at it (hardwarethread.cpp:10-15, 18-24).                                  *)
ThreadLeaving ==
  client = "shutdown" /\ ~stoppedEarly =>
    ~m_isRunning /\ hwThread \in {"light", "card", "asleep", "finished"}

(* The shutdown returns, once the thread has begun to run: the thread sees    *)
(* the flag within one round (hardwarethread.cpp:10-15, 27).                 *)
ShutdownReturns == client = "shutdown" /\ ~stoppedEarly ~> client = "off"

(* The same for a thread that is still being started.  Violated: run() sets   *)
(* the flag that stopThread has cleared (hardwarethread.cpp:12, 19).         *)
ShutdownAlwaysReturns == client = "shutdown" ~> client = "off"

(* hardware_api.c:29: "May already be exported; not a fatal error".           *)
(* Violated after a crash: it is the write that fails then, not the open.     *)
ExportedIsNotFatal == client = "up" => m_ledFd = "open"

=============================================================================
