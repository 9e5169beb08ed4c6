------------------------------ MODULE Watchdogs ------------------------------
(***************************************************************************)
(* The two watchdogs of the client.  The software one (core/watchdog.c,    *)
(* services/crashhandler.cpp) is fed by a timer of the GUI thread and ends  *)
(* the process when the GUI hangs; the board's (core/hw_watchdog.c) is fed *)
(* by a thread of its own and resets the board.  Both are stopped by the    *)
(* GUI thread when the main window is destroyed, and the board's is         *)
(* disabled before the process ends by a crash or a hang.                   *)
(*                                                                         *)
(* Time is counted: Tick is five seconds scaled down, and the program's     *)
(* sixty, thirty and five seconds keep their order.  A step of a thread    *)
(* that is due is made before time goes on: the scheduler is not late.      *)
(***************************************************************************)
EXTENDS Integers

CONSTANTS
  HwTimeout,    (* hw->interval: 60 s; the feeding thread sleeps half of it *)
  SoftTimeout,  (* wd->timeout_sec: 30 s                                   *)
  FeedInterval, (* wd->feed_interval: 5 s, of the timer and of the thread  *)
  ShutdownTime  (* at most this long HardwareService::shutdown() takes      *)

ASSUME WatchdogsAssumption ==
  /\ {HwTimeout, SoftTimeout, FeedInterval} \subseteq Nat \ {0}
  /\ ShutdownTime \in Nat
  /\ HwTimeout \div 2 > 0

VARIABLES
  process,      (* "up", "exited", or how it ended: "hang", "crash"          *)
  hung,         (* whether the GUI thread hangs                             *)
  gui,          (* where the GUI thread is in its way out                   *)
  guiWait,      (* ticks it still waits there                               *)
  hwRunning,    (* hw->running                                              *)
  hwFd,         (* hw->fd: "open" or "closed"                               *)
  feeder,       (* the feeding thread: "test", "write", "sleep", "ended"    *)
  feederWait,
  age,          (* ticks since wd->last_feed                                *)
  feedTimer,    (* ticks until m_feedTimer fires                            *)
  checker,      (* watchdog_thread: "sleep", "expired", or "ended"          *)
  checkerWait,
  emergency,    (* the thread that runs hw_watchdog_emergency_disable       *)
  armed,        (* the board's countdown is running                         *)
  countdown,
  released,     (* the driver has seen a 'V' and nothing after it           *)
  reset,        (* history: the board was reset                             *)
  raced         (* history: a feed came after the 'V'                       *)

guiVars == <<hung, gui, guiWait>>
feederVars == <<feeder, feederWait>>
softVars == <<age, feedTimer, checker, checkerWait>>
boardVars == <<armed, countdown, released, reset, raced>>
watchdogVars == <<process, guiVars, hwRunning, hwFd, feederVars, softVars, emergency,
                  boardVars>>

WatchdogsTypeOK ==
  /\ process \in {"up", "exited", "hang", "crash"} /\ hung \in BOOLEAN
  /\ gui \in {"loop", "shutdown", "V", "close", "join", "end"}
  /\ guiWait \in 0 .. ShutdownTime
  /\ hwFd \in {"open", "closed"} /\ hwRunning \in BOOLEAN
  /\ feeder \in {"test", "write", "sleep", "ended"} /\ feederWait \in 0 .. HwTimeout
  /\ age \in 0 .. SoftTimeout + 2 * FeedInterval
  /\ feedTimer \in 0 .. FeedInterval /\ checkerWait \in 0 .. FeedInterval
  /\ checker \in {"sleep", "expired"}
  /\ emergency \in {"none", "V", "close"}
  /\ countdown \in 0 .. HwTimeout
  /\ armed \in BOOLEAN /\ released \in BOOLEAN
  /\ reset \in BOOLEAN /\ raced \in BOOLEAN

(* MainWindow::initSystem: watchdog_start, hw_watchdog_create, which arms the *)
(* board, and hw_watchdog_start, which feeds it once.                        *)
WatchdogsInit ==
  /\ process = "up" /\ hung = FALSE /\ gui = "loop" /\ guiWait = 0
  /\ hwRunning = TRUE /\ hwFd = "open"
  /\ feeder = "test" /\ feederWait = 0
  /\ age = 0 /\ feedTimer = FeedInterval /\ checker = "sleep" /\ checkerWait = FeedInterval
  /\ emergency = "none"
  /\ armed = TRUE /\ countdown = HwTimeout /\ released = FALSE
  /\ reset = FALSE /\ raced = FALSE

-----------------------------------------------------------------------------
(* /dev/watchdog: a write feeds and forgets an earlier 'V'; closing the last *)
(* descriptor disarms it only after a 'V'.  A closed descriptor fails.       *)

Feed ==
  IF hwFd = "open"
    THEN /\ countdown' = HwTimeout /\ released' = FALSE
         /\ raced' = (raced \/ released)
         /\ UNCHANGED <<armed, reset>>
    ELSE UNCHANGED boardVars

WriteV ==
  IF hwFd = "open"
    THEN countdown' = HwTimeout /\ released' = TRUE /\ UNCHANGED <<armed, reset, raced>>
    ELSE UNCHANGED boardVars

Close ==
  /\ armed' = (armed /\ ~(released /\ hwFd = "open"))
  /\ hwFd' = "closed"
  /\ UNCHANGED <<countdown, released, reset, raced>>

(* The process ends: the kernel closes what is open. *)
Exit(how) == process' = how /\ Close

-----------------------------------------------------------------------------
(* hw_watchdog_thread *)

FeederTests ==
  /\ process = "up" /\ feeder = "test"
  /\ feeder' = IF hwRunning THEN "write" ELSE "ended"
  /\ UNCHANGED <<process, guiVars, hwRunning, hwFd, feederWait, softVars, emergency,
                 boardVars>>

FeederSleeps == HwTimeout \div 2

FeederWrites ==
  /\ process = "up" /\ feeder = "write"
  /\ Feed
  /\ feeder' = "sleep" /\ feederWait' = FeederSleeps
  /\ UNCHANGED <<process, guiVars, hwRunning, hwFd, softVars, emergency>>

FeederWakes ==
  /\ process = "up" /\ feeder = "sleep" /\ feederWait = 0
  /\ feeder' = "test"
  /\ UNCHANGED <<process, guiVars, hwRunning, hwFd, feederWait, softVars, emergency,
                 boardVars>>

-----------------------------------------------------------------------------
(* The GUI thread's timer and the software watchdog. *)

GuiHangs ==
  /\ process = "up" /\ gui = "loop" /\ ~hung
  /\ hung' = TRUE
  /\ UNCHANGED <<process, gui, guiWait, hwRunning, hwFd, feederVars, softVars, emergency,
                 boardVars>>

slotFeedWatchdog ==
  /\ process = "up" /\ gui = "loop" /\ ~hung /\ feedTimer = 0
  /\ age' = 0 /\ feedTimer' = FeedInterval
  /\ UNCHANGED <<process, guiVars, hwRunning, hwFd, feederVars, checker, checkerWait,
                 emergency, boardVars>>

(* Mutant: the thread looks at the time only now and then and only for an    *)
(* age it may never see.                                                    *)
ExpiredExactly == age = SoftTimeout + 2 * FeedInterval + 1

Expired == age > SoftTimeout

CheckerWakes ==
  /\ process = "up" /\ checker = "sleep" /\ checkerWait = 0
  /\ Expired \/ gui # "end"
  /\ IF Expired
       THEN checker' = "expired" /\ UNCHANGED checkerWait
       ELSE checkerWait' = FeedInterval /\ UNCHANGED checker
  /\ UNCHANGED <<process, guiVars, hwRunning, hwFd, feederVars, age, feedTimer, emergency,
                 boardVars>>

(* logger_flush, and the first store of hw_watchdog_emergency_disable, which *)
(* is skipped if the descriptor is closed; a crash comes to the same.        *)
EmergencyStarts ==
  /\ process = "up" /\ emergency = "none"
  /\ hwRunning' = (hwRunning /\ hwFd = "closed")
  /\ emergency' = IF hwFd = "open" THEN "V" ELSE "close"

TimeoutExit ==
  /\ checker = "expired"
  /\ EmergencyStarts
  /\ UNCHANGED <<process, guiVars, hwFd, feederVars, softVars, boardVars>>

crash_handler ==
  /\ checker # "expired"
  /\ EmergencyStarts
  /\ UNCHANGED <<process, guiVars, hwFd, feederVars, softVars, boardVars>>

(* Mutant: the board's watchdog is closed and not disabled. *)
EmergencyOnlyCloses ==
  /\ process = "up" /\ emergency = "V"
  /\ emergency' = "close"
  /\ UNCHANGED <<process, guiVars, hwRunning, hwFd, feederVars, softVars, boardVars>>

EmergencyWritesV ==
  /\ process = "up" /\ emergency = "V"
  /\ WriteV
  /\ emergency' = "close"
  /\ UNCHANGED <<process, guiVars, hwRunning, hwFd, feederVars, softVars>>

EmergencyExits ==
  /\ process = "up" /\ emergency = "close"
  /\ Exit(IF checker = "expired" THEN "hang" ELSE "crash")
  /\ UNCHANGED <<guiVars, hwRunning, feederVars, softVars, emergency>>

-----------------------------------------------------------------------------
(* MainWindow::~MainWindow, after the event loop: HardwareService::shutdown,  *)
(* then hw_watchdog_destroy; the crash handler, a child, is destroyed last.  *)

QuitLoop ==
  /\ process = "up" /\ gui = "loop" /\ ~hung
  /\ gui' = "shutdown" /\ guiWait' \in 0 .. ShutdownTime
  /\ UNCHANGED <<process, hung, hwRunning, hwFd, feederVars, softVars, emergency,
                 boardVars>>

StopClearsRunning ==
  /\ process = "up" /\ gui = "shutdown" /\ guiWait = 0
  /\ hwRunning' = FALSE
  /\ gui' = "V"
  /\ UNCHANGED <<process, hung, guiWait, hwFd, feederVars, softVars, emergency, boardVars>>

StopWritesV ==
  /\ process = "up" /\ gui = "V"
  /\ WriteV
  /\ gui' = "close"
  /\ UNCHANGED <<process, hung, guiWait, hwRunning, hwFd, feederVars, softVars, emergency>>

StopCloses ==
  /\ process = "up" /\ gui = "close"
  /\ Close
  /\ gui' = "join"
  /\ UNCHANGED <<process, hung, guiWait, hwRunning, feederVars, softVars, emergency>>

(* pthread_join returns when the feeding thread has slept its sleep out.     *)
StopJoins ==
  /\ process = "up" /\ gui = "join" /\ feeder = "ended"
  /\ gui' = "end"
  /\ UNCHANGED <<process, hung, guiWait, hwRunning, hwFd, feederVars, softVars, emergency,
                 boardVars>>

(* ~CrashHandler joins the software watchdog's thread, which looks at the     *)
(* time once more before it sees that it is to stop; main() returns.         *)
MainReturns ==
  /\ process = "up" /\ gui = "end"
  /\ checker = "sleep" /\ checkerWait = 0 /\ ~Expired /\ emergency = "none"
  /\ Exit("exited")
  /\ UNCHANGED <<guiVars, hwRunning, feederVars, softVars, emergency>>

-----------------------------------------------------------------------------

Due ==
  \/ FeederTests \/ FeederWrites \/ FeederWakes
  \/ slotFeedWatchdog \/ CheckerWakes \/ TimeoutExit \/ EmergencyWritesV
  \/ EmergencyExits
  \/ StopClearsRunning \/ StopWritesV \/ StopCloses \/ StopJoins \/ MainReturns

Countdown(n) == IF n > 0 THEN n - 1 ELSE n

SomethingIsDue ==
  /\ process = "up"
  /\ \/ feeder \in {"test", "write"} \/ (feeder = "sleep" /\ feederWait = 0)
     \/ gui = "loop" /\ ~hung /\ feedTimer = 0
     \/ checker = "expired" \/ checkerWait = 0 \/ emergency # "none"
     \/ gui = "shutdown" /\ guiWait = 0
     \/ gui \in {"V", "close"}
     \/ gui = "join" /\ feeder = "ended"

(* A process that has ended is not modelled any further than its board.      *)
Tick ==
  /\ ~SomethingIsDue
  /\ process = "up" \/ (armed /\ ~reset)
  /\ feederWait' = Countdown(feederWait) /\ guiWait' = Countdown(guiWait)
  /\ feedTimer' = Countdown(feedTimer) /\ checkerWait' = Countdown(checkerWait)
  /\ age' = IF process = "up" THEN age + 1 ELSE age
  /\ countdown' = IF armed THEN Countdown(countdown) ELSE countdown
  /\ reset' = (reset \/ (armed /\ countdown = 0))
  /\ UNCHANGED <<process, hung, gui, hwRunning, hwFd, feeder, checker, emergency, armed,
                 released, raced>>

WatchdogsNext == Due \/ GuiHangs \/ crash_handler \/ QuitLoop \/ Tick

WatchdogsSpec == WatchdogsInit /\ [][WatchdogsNext]_watchdogVars

-----------------------------------------------------------------------------
(* Properties. *)

(* The board is reset neither under a program that runs nor after one that    *)
(* stopped, crashed or was ended for hanging, except when the feeding thread  *)
(* wrote once more between the 'V' and the close (hw_watchdog.c:15-19, 68-74, *)
(* 97-100).  A reset is right when the program cannot run at all.            *)
ResetOnlyAfterRace == reset => raced

(* A GUI thread that hangs is noticed within the timeout and one interval:    *)
(* last_feed never gets older while nobody reacts (watchdog.c:155-168).      *)
HangNoticed ==
  process = "up" => age <= SoftTimeout + FeedInterval

(* The two are inductive together with this.  The software watchdog's thread  *)
(* looks again before the age passes the bound, as it sleeps no longer than  *)
(* is left, and time stands still once it has found the timeout.            *)
HangInv ==
  process = "up" =>
    /\ age <= SoftTimeout + FeedInterval
    /\ checker = "sleep" => age + checkerWait <= SoftTimeout + FeedInterval

(* The board's countdown is ahead of the feeding thread's sleep as long as    *)
(* that thread lives; it ends only when somebody is about to write the 'V'   *)
(* and close; and what closes has seen the 'V' written, or the race.         *)
BoardInv ==
  /\ feederWait <= FeederSleeps
  /\ hwFd = "open" /\ feeder \in {"test", "write"} => countdown >= HwTimeout - FeederSleeps
  /\ hwFd = "open" /\ feeder = "sleep" => countdown >= HwTimeout - FeederSleeps + feederWait
  /\ feeder = "ended" => ~hwRunning
  /\ hwFd = "open" /\ ~hwRunning => gui \in {"V", "close"} \/ emergency # "none"
  /\ hwFd = "open" /\ (gui = "close" \/ emergency = "close") => released \/ raced
  /\ gui \in {"join", "end"} \/ process # "up" => hwFd = "closed"
  /\ hwFd = "closed" /\ armed => raced
  /\ reset => raced

(* hw_watchdog.c:63: "Normal stop: write "V" (notify kernel of clean exit)". *)
(* Violated by the race.                                                    *)
CleanStopDisarms == process = "exited" => ~armed

(* The way out is not taken for a hang.  Violated: the GUI thread does not    *)
(* feed any more and the join waits for up to half of the board's interval,  *)
(* as long as the software watchdog does (hw_watchdog.c:19, 76,              *)
(* mainwindow.cpp:246-247, 296, 302).                                       *)
CleanExitIsNoHang == gui # "loop" => checker # "expired"

=============================================================================
