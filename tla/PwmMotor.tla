------------------------------ MODULE PwmMotor ------------------------------
(***************************************************************************)
(* The stepper motor's other driver (driver/motor_drv_pwm.c): the PWM unit *)
(* makes the steps and a timer ends the run.  write() and ioctl(STOP) work *)
(* under dev->lock; release(), the timer's callback and read() do not, and  *)
(* every thread that has the device open shares one PWM and one timer.      *)
(* A call is cut where another thread or the callback may come in between;  *)
(* ioctl(STOP) does what write(0) does.  Speed, direction and position are  *)
(* left out: nothing below depends on them.                                *)
(***************************************************************************)
EXTENDS Integers

CONSTANTS Openers,   (* threads that open the device *)
          Runs       (* the steps they ask for       *)

ASSUME PwmMotorAssumption == Runs \subseteq Int /\ 0 \in Runs

VARIABLES
  pwmLock,        (* dev->lock: its holder, in a set                       *)
  file, asked,    (* where a thread is with its file, and its argument     *)
  running,        (* dev->running, what read() returns                     *)
  pwm,            (* whether the PWM unit gives pulses                     *)
  enabled,        (* the enable pin; open() sets it and release() clears it *)
  doneTimer,      (* whether dev->timer is enqueued                        *)
  done_cb         (* where stepper_done_cb is: "none", "disabled"          *)

pwmVars == <<pwmLock, file, asked, running, pwm, enabled, doneTimer, done_cb>>

PwmMotorTypeOK ==
  /\ pwmLock \subseteq Openers
  /\ file \in [Openers -> {"closed", "open", "write", "cancel", "start", "run", "timer",
                           "release", "releaseOff", "releaseIdle", "disable"}]
  /\ asked \in [Openers -> Runs \cup {0}]
  /\ {running, enabled} \subseteq BOOLEAN
  /\ pwm \in {"off", "on"} /\ doneTimer \in {"off", "enqueued"}
  /\ done_cb \in {"none", "disabled"}

(* stepper_pwm_probe *)
PwmMotorInit ==
  /\ pwmLock = {} /\ file = [t \in Openers |-> "closed"]
  /\ asked = [t \in Openers |-> 0]
  /\ running = FALSE /\ pwm = "off" /\ enabled = FALSE
  /\ doneTimer = "off" /\ done_cb = "none"

At(t, from, to) == file[t] = from /\ file' = [file EXCEPT ![t] = to]

stepper_open(t) ==
  /\ At(t, "closed", "open")
  /\ enabled' = TRUE
  /\ UNCHANGED <<pwmLock, asked, running, pwm, doneTimer, done_cb>>

-----------------------------------------------------------------------------
(* stepper_write and STEPPER_IOC_STOP *)

CallWrite(t, n) ==
  /\ At(t, "open", "write")
  /\ asked' = [asked EXCEPT ![t] = n]
  /\ UNCHANGED <<pwmLock, running, pwm, enabled, doneTimer, done_cb>>

LockAndTest(t) ==
  /\ pwmLock = {} /\ pwmLock' = {t}
  /\ At(t, "write", IF running THEN "cancel" ELSE "start")
  /\ UNCHANGED <<asked, running, pwm, enabled, doneTimer, done_cb>>

(* hrtimer_cancel waits for the callback. *)
CancelRun(t) ==
  /\ At(t, "cancel", "start") /\ done_cb = "none"
  /\ doneTimer' = "off" /\ pwm' = "off" /\ running' = FALSE
  /\ UNCHANGED <<pwmLock, asked, enabled, done_cb>>

WriteZero(t) ==
  /\ At(t, "start", "open") /\ asked[t] = 0
  /\ pwmLock' = {}
  /\ UNCHANGED <<asked, running, pwm, enabled, doneTimer, done_cb>>

(* stepper_start: the PWM, then running, then the timer. *)
StartPwm(t) ==
  /\ At(t, "start", "run") /\ asked[t] # 0
  /\ pwm' = "on"
  /\ UNCHANGED <<pwmLock, asked, running, enabled, doneTimer, done_cb>>

SetRunning(t) ==
  /\ At(t, "run", "timer")
  /\ running' = TRUE
  /\ UNCHANGED <<pwmLock, asked, pwm, enabled, doneTimer, done_cb>>

StartTimer(t) ==
  /\ At(t, "timer", "open")
  /\ doneTimer' = "enqueued"
  /\ pwmLock' = {}
  /\ UNCHANGED <<asked, running, pwm, enabled, done_cb>>

-----------------------------------------------------------------------------
(* stepper_release, without the lock *)

CallRelease(t) ==
  /\ At(t, "open", IF running THEN "release" ELSE "disable")
  /\ UNCHANGED <<pwmLock, asked, running, pwm, enabled, doneTimer, done_cb>>

ReleaseCancels(t) ==
  /\ At(t, "release", "releaseOff") /\ done_cb = "none"
  /\ doneTimer' = "off"
  /\ UNCHANGED <<pwmLock, asked, running, pwm, enabled, done_cb>>

(* Mutant: the pulses are left to the timer, which has been cancelled. *)
ReleaseKeepsPwm(t) ==
  /\ At(t, "releaseOff", "releaseIdle")
  /\ UNCHANGED <<pwmLock, asked, running, pwm, enabled, doneTimer, done_cb>>

ReleaseOff(t) ==
  /\ At(t, "releaseOff", "releaseIdle")
  /\ pwm' = "off"
  /\ UNCHANGED <<pwmLock, asked, running, enabled, doneTimer, done_cb>>

ReleaseIdle(t) ==
  /\ At(t, "releaseIdle", "disable")
  /\ running' = FALSE
  /\ UNCHANGED <<pwmLock, asked, pwm, enabled, doneTimer, done_cb>>

(* The enable pin is cleared, whoever else has the device open. *)
ReleaseDisables(t) ==
  /\ At(t, "disable", "closed")
  /\ enabled' = FALSE
  /\ UNCHANGED <<pwmLock, asked, running, pwm, doneTimer, done_cb>>

-----------------------------------------------------------------------------
(* stepper_done_cb *)

DoneDisables ==
  /\ doneTimer = "enqueued" /\ done_cb = "none"
  /\ doneTimer' = "off" /\ pwm' = "off" /\ done_cb' = "disabled"
  /\ UNCHANGED <<pwmLock, file, asked, running, enabled>>

DoneIdles ==
  /\ done_cb = "disabled"
  /\ running' = FALSE /\ done_cb' = "none"
  /\ UNCHANGED <<pwmLock, file, asked, pwm, enabled, doneTimer>>

OpenerStep(t) ==
  \/ LockAndTest(t) \/ CancelRun(t) \/ WriteZero(t)
  \/ StartPwm(t) \/ SetRunning(t) \/ StartTimer(t)
  \/ ReleaseCancels(t) \/ ReleaseOff(t) \/ ReleaseIdle(t) \/ ReleaseDisables(t)

PwmMotorNext ==
  \/ DoneDisables \/ DoneIdles
  \/ \E t \in Openers :
       \/ stepper_open(t) \/ CallRelease(t) \/ OpenerStep(t)
       \/ \E n \in Runs : CallWrite(t, n)

PwmMotorSpec == PwmMotorInit /\ [][PwmMotorNext]_pwmVars

-----------------------------------------------------------------------------
(* Properties. *)

(* The motor never turns for good: while there are pulses, the timer that     *)
(* ends them is running, or a thread in the middle of a call is about to       *)
(* start it or to end the pulses itself, although release() cancels the timer  *)
(* of a run another thread may just have started (motor_drv_pwm.c:76-83,      *)
(* 109-113, 137-141).                                                        *)
PulsesEnd ==
  pwm = "on" =>
    \/ doneTimer = "enqueued"
    \/ \E t \in Openers : file[t] \in {"cancel", "run", "timer", "releaseOff"}

(* read() and STOP go by dev->running.  Violated: release() clears it for a   *)
(* run that another thread has started meanwhile, and STOP then does nothing   *)
(* (motor_drv_pwm.c:109-112, 237-245).                                       *)
RunningIsTrue ==
  pwm = "on" /\ (\A t \in Openers : file[t] \in {"open", "closed"}) => running

(* A thread that has the device open finds the motor enabled.  Violated: the  *)
(* release of another disables it (motor_drv_pwm.c:99-100, 115-116).          *)
EnabledWhileOpen == (\E t \in Openers : file[t] = "open") => enabled

=============================================================================
