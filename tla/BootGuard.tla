----------------------------- MODULE BootGuard ------------------------------
(***************************************************************************)
(* What guards the client against a version that keeps crashing:           *)
(*   - crash_handler appends a line to crash_history (watchdog.c);         *)
(*   - at the next start main.cpp rolls the program back when three        *)
(*     crashes followed the boot mark of an update (ota.c);                *)
(*   - then the startup fuse refuses to run after five crashes in 300 s    *)
(*     (watchdog_check_startup_safety, mainwindow.cpp:286-294);            *)
(*   - systemd restarts the process after 10 s, five times in 300 s.       *)
(* Time is counted in seconds.  Instead of a clock the model keeps ages,   *)
(* the time since each crash and each start, capped once they no longer    *)
(* matter.                                                                 *)
(***************************************************************************)
EXTENDS Integers, Sequences, FiniteSets

CONSTANTS
  Versions,         (* versions of the program                               *)
  CrashUptimes,   (* CrashUptimes[b]: uptimes at which b may crash         *)
  Hanging,        (* versions whose main thread hangs soon after its start *)
  FirstBuild,     (* the version installed at first                        *)
  NoBackup,       (* no backup_last.tar.gz in a directory                  *)
  HistoryLines,   (* lines of crash_history in the 4095 bytes that are read *)
  MaxUpdates,     (* bound: updates installed                              *)
  MaxManual       (* bound: starts by an operator after the service stopped *)

FailThreshold == 3      (* OTA_BOOT_FAIL_THRESHOLD   *)
StableSec     == 60     (* OTA_BOOT_STABLE_SEC       *)
CrashWindow   == 300    (* WATCHDOG_CRASH_WINDOW_SEC *)
MaxCrashCount == 5      (* WATCHDOG_MAX_CRASH_COUNT  *)
HangSec       == 35     (* WATCHDOG_TIMEOUT_SEC, looked at every 5 s *)
RestartSec    == 10     (* retail-client.service     *)
StartBurst    == 5      (* StartLimitBurst           *)
StartWindow   == 300    (* StartLimitInterval        *)

ASSUME BootGuardAssumption ==
  /\ FirstBuild \in Versions /\ NoBackup \notin Versions
  /\ CrashUptimes \in [Versions -> SUBSET Nat] /\ Hanging \subseteq Versions
  /\ HistoryLines \in Nat /\ MaxUpdates \in Nat /\ MaxManual \in Nat

(* OtaUpdater works in applicationDirPath, phase 1 of main.cpp in its parent. *)
AppDir  == "/opt/retail/app"
RootDir == "/opt/retail"

VARIABLES
  state,     (* "up", "down": to be restarted, "dialog": the fuse's message *)
             (* box, "stopped": systemd does not restart it                *)
  running,   (* the program the current process was started from           *)
  stable,    (* the 60 s timer of this process has fired                   *)
  app,       (* the installed program                                      *)
  backup,    (* backup[d]: the program kept in d/ota_backup                *)
  mark,      (* the boot mark file exists                                  *)
  history,   (* crash_history: age of each crash, and whether it is newer  *)
             (* than the boot mark                                         *)
  limit,     (* systemd's counter: age of the first start it counts        *)
  updates, manual,
  recent     (* history: true ages of the latest crashes, newest first     *)

guardVars == <<state, running, stable, app, backup, mark, history, limit, updates,
          manual, recent>>

Age == 0 .. (CrashWindow + 1)

GuardTypeOK ==
  /\ state \in {"up", "down", "dialog", "stopped"}
  /\ stable \in BOOLEAN /\ mark \in BOOLEAN
  /\ running \in Versions /\ app \in Versions
  /\ backup \in [{AppDir, RootDir} -> Versions \cup {NoBackup}]
  /\ history \in Seq([age : Age, afterMark : BOOLEAN])
  /\ Len(history) <= HistoryLines
  /\ limit \in [since : Age, num : 1 .. StartBurst]
  /\ updates \in 0 .. MaxUpdates
  /\ manual \in 0 .. MaxManual
  /\ recent \in Seq(Age)

GuardInit ==
  /\ state = "up" /\ stable = FALSE
  /\ app = FirstBuild /\ running = FirstBuild
  /\ backup = [d \in {AppDir, RootDir} |-> NoBackup]
  /\ mark = FALSE
  /\ history = <<>> /\ limit = [since |-> 0, num |-> 1]
  /\ updates = 0 /\ manual = 0
  /\ recent = <<>>

-----------------------------------------------------------------------------

Older(age, d) == IF age + d > CrashWindow THEN CrashWindow + 1 ELSE age + d

Aged(hist, d) == [i \in DOMAIN hist |-> [hist[i] EXCEPT !.age = Older(@, d)]]

(* d seconds pass before the step ends. *)
TimePasses(d) ==
  /\ history' = Aged(history, d)
  /\ recent' = [i \in DOMAIN recent |-> Older(recent[i], d)]

(* A line written behind the part of the file that is read is never seen. *)
WriteLine(hist) ==
  IF Len(hist) >= HistoryLines THEN hist
  ELSE Append(hist, [age |-> 0, afterMark |-> TRUE])

(* watchdog_count_crashes_since(mark): lines newer than the mark. *)
CrashesSinceMark(hist) ==
  Cardinality({i \in DOMAIN hist : hist[i].afterMark})

CrashesWithin(ages, window) ==
  Cardinality({i \in DOMAIN ages : ages[i] < window})

LineAges(hist) == [i \in DOMAIN hist |-> hist[i].age]

(* Mutant: the fuse lets one crash more pass. *)
FuseTripsLate(hist) == CrashesWithin(LineAges(hist), CrashWindow) > MaxCrashCount

(* watchdog_check_startup_safety: lines newer than now - 300 s. *)
FuseTrips(hist) == CrashesWithin(LineAges(hist), CrashWindow) >= MaxCrashCount

(* ota_rollback in dir gives 0: the backup must be in dir, and the swap     *)
(* moves dir to dir/ota_rollback_old, which mv refuses - a directory cannot *)
(* be moved into itself.                                                    *)
CanMoveInto(dir, target) == target # dir
RollbackSucceeds(dir) ==
  /\ backup[dir] # NoBackup
  /\ CanMoveInto(dir, dir)

-----------------------------------------------------------------------------

Uptime == IF stable THEN StableSec ELSE 0

(* A process that always crashes or hangs before its 60 s timer. *)
Broken(b) == b \in Hanging \/ (CrashUptimes[b] # {} /\ \A u \in CrashUptimes[b] : u < StableSec)

(* The program crashes u seconds after its start: the handler writes its    *)
(* line and ends the process.                                               *)
Crash(u) ==
  LET d == u - Uptime IN
  /\ state = "up"
  /\ u \in CrashUptimes[running]
  /\ stable <=> u >= StableSec
  /\ history' = WriteLine(Aged(history, d))
  /\ recent' = SubSeq(<<0>> \o [i \in DOMAIN recent |-> Older(recent[i], d)],
                      1, IF Len(recent) < 6 THEN Len(recent) + 1 ELSE 6)
  /\ limit' = [limit EXCEPT !.since = Older(@, d)]
  /\ state' = "down" /\ stable' = FALSE
  /\ UNCHANGED <<running, app, backup, mark, updates, manual>>

(* A main thread that hangs is ended by the watchdog thread, with _exit(1): *)
(* no line is written.                                                      *)
Hang ==
  /\ state = "up" /\ running \in Hanging
  /\ TimePasses(HangSec)
  /\ limit' = [limit EXCEPT !.since = Older(@, HangSec)]
  /\ state' = "down" /\ stable' = FALSE
  /\ UNCHANGED <<running, app, backup, mark, updates, manual>>

(* Phase 2 of main.cpp: 60 s after its start the process takes itself for   *)
(* stable and removes the boot mark.                                        *)
Stable ==
  /\ state = "up" /\ ~ stable /\ ~ Broken(running)
  /\ stable' = TRUE
  /\ mark' = FALSE
  /\ TimePasses(StableSec)
  /\ limit' = [limit EXCEPT !.since = Older(@, StableSec)]
  /\ UNCHANGED <<state, running, app, backup, updates, manual>>

(* An update: back up the program, put the new one in its place, set the    *)
(* boot mark.  The OTA updater works before the fuse is asked, so also      *)
(* while the fuse's message box is open.                                    *)
Update(b) ==
  /\ state \in {"up", "dialog"} /\ app = running /\ b # app
  /\ updates < MaxUpdates /\ updates' = updates + 1
  /\ backup' = [backup EXCEPT ![AppDir] = app]
  /\ app' = b
  /\ mark' = TRUE
  /\ history' = [i \in DOMAIN history |-> [history[i] EXCEPT !.afterMark = FALSE]]
  /\ UNCHANGED <<state, running, stable, limit, manual, recent>>

(* Two seconds after an update the process quits; its 60 s timer, or a      *)
(* crash, may come first.                                                   *)
QuitAfterUpdate ==
  /\ state = "up" /\ running # app
  /\ state' = "down" /\ stable' = FALSE
  /\ UNCHANGED <<running, app, backup, mark, history, limit, updates, manual,
                 recent>>

(* What a started process does before its event loop runs: the rollback     *)
(* check of main.cpp, then the fuse of MainWindow::initSystem.              *)
Boot ==
  IF mark /\ CrashesSinceMark(history') >= FailThreshold /\ RollbackSucceeds(RootDir)
    THEN /\ app' = backup[RootDir]
         /\ mark' = FALSE
         /\ state' = "down"
         /\ UNCHANGED running
    ELSE /\ state' = IF FuseTrips(history') THEN "dialog" ELSE "up"
         /\ running' = app
         /\ UNCHANGED <<app, mark>>

(* systemd (external): StartBurst starts within StartWindow of the first.   *)
StartLimitHit(l) == l.since <= StartWindow /\ l.num >= StartBurst

Counted(l) ==
  IF l.since > StartWindow THEN [since |-> 0, num |-> 1]
  ELSE [l EXCEPT !.num = @ + 1]

(* RestartSec after the process ended systemd starts it, or gives up. *)
Restart ==
  LET l == [limit EXCEPT !.since = Older(@, RestartSec)] IN
  /\ state = "down"
  /\ TimePasses(RestartSec)
  /\ IF StartLimitHit(l)
       THEN /\ state' = "stopped"
            /\ limit' = l
            /\ UNCHANGED <<running, app, mark>>
       ELSE /\ limit' = Counted(l)
            /\ Boot
  /\ UNCHANGED <<stable, backup, updates, manual>>

(* Somebody acknowledges the fuse's message box; exit status 42 is not      *)
(* restarted.                                                               *)
DismissDialog ==
  /\ state = "dialog"
  /\ state' = "stopped"
  /\ UNCHANGED <<running, stable, app, backup, mark, history, limit, updates,
                 manual, recent>>

(* An operator resets systemd's counter and starts the service, wait        *)
(* seconds after it stopped.                                                *)
ManualStart(wait) ==
  /\ state = "stopped" /\ manual < MaxManual
  /\ manual' = manual + 1
  /\ TimePasses(wait)
  /\ limit' = [since |-> 0, num |-> 1]
  /\ Boot
  /\ UNCHANGED <<stable, backup, updates>>

-----------------------------------------------------------------------------

Waits == {5, CrashWindow}
Fail == Hang \/ \E u \in CrashUptimes[running] : Crash(u)

GuardNext ==
  \/ Hang \/ Stable \/ QuitAfterUpdate \/ Restart \/ DismissDialog
  \/ \E u \in CrashUptimes[running] : Crash(u)
  \/ \E b \in Versions : Update(b)
  \/ \E w \in Waits : ManualStart(w)

GuardSpec == GuardInit /\ [][GuardNext]_guardVars

(* A broken program fails again and again, systemd restarts it, a process   *)
(* whose update is installed quits; nobody has to press a button or start   *)
(* the service.                                                             *)
FairGuardSpec ==
  GuardSpec /\ WF_guardVars(Fail) /\ WF_guardVars(Restart) /\ WF_guardVars(QuitAfterUpdate)

-----------------------------------------------------------------------------
(* Properties. *)

(* Fuse and restart delay together bound the crash rate: never more than    *)
(* five crashes in 300 s (watchdog.c:297), whoever restarts the program and *)
(* however soon.                                                            *)
CrashRateBounded == CrashesWithin(recent, CrashWindow) <= MaxCrashCount

(* The latest crashes are the last lines of crash_history. *)
HistoryHoldsRecent ==
  /\ Len(recent) <= Len(history)
  /\ \A i \in 1 .. Len(recent) : recent[i] = history[Len(history) + 1 - i].age

(* Why CrashRateBounded holds as long as the file is short enough to be read *)
(* to its end: the fuse counts every crash, and a program that runs has been *)
(* let through with at most four.                                           *)
GuardInv ==
  /\ GuardTypeOK
  /\ Len(history) < HistoryLines =>
       /\ HistoryHoldsRecent
       /\ CrashesWithin(LineAges(history), CrashWindow)
            <= (IF state = "up" THEN MaxCrashCount - 1 ELSE MaxCrashCount)

(* A version that cannot run for 60 s does not loop for ever: the fuse      *)
(* (watchdog.c:297) or systemd's start limit ends it, whether its crashes   *)
(* are quick or slow or it hangs instead.                                   *)
CrashLoopEnds ==
  Broken(app) ~> (state \in {"dialog", "stopped"} \/ ~ Broken(app))

(* watchdog.c:283: "window start; older crashes ignored".  A start that is  *)
(* let through has seen fewer than five crashes in the last 300 s, however  *)
(* many older ones there are.                                               *)
OldCrashesIgnored ==
  [][state # "up" /\ state' = "up" =>
       CrashesWithin(recent', CrashWindow) < MaxCrashCount]_guardVars

(* ota.h:18: after three crashes of an updated program the next start rolls *)
(* it back instead of running it again.                                     *)
RollbackRestoresProgram ==
  [][state = "down" /\ state' = "up" =>
       ~ (mark /\ CrashesSinceMark(history) >= FailThreshold)]_guardVars

(* main.cpp:61: "confirm upgrade after boot stable".  The boot mark of an   *)
(* update is removed only by a process that runs the updated program.       *)
OnlyStableBootClearsMark ==
  [][mark /\ ~ mark' => running = app]_guardVars

=============================================================================
