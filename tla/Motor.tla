------------------------------- MODULE Motor --------------------------------
(***************************************************************************)
(* The stepper motor's driver (driver/motor_drv.c): write(steps) and       *)
(* ioctl(STOP) under dev->lock, the hrtimer callback that makes one step   *)
(* and takes no lock, and the work that powers the coils off after a run.  *)
(* The callback may run on one processor while a call runs on another.     *)
(*                                                                         *)
(* A call is cut where the callback or the work can come in between.       *)
(* ioctl(STOP) does what write(0) does.  Direction, mode, interval and     *)
(* position are left out: nothing below depends on them.                   *)
(***************************************************************************)
EXTENDS Integers

CONSTANTS
  Threads,    (* the threads that call the driver *)
  Requests,   (* the steps they ask for           *)
  MaxSteps    (* MOTOR_MAX_STEPS                  *)

ASSUME MotorAssumption == Requests \subseteq Int /\ MaxSteps \in Nat \ {0}

VARIABLES
  lock,          (* dev->lock: its holder, in a set        *)
  pc, steps,     (* where a thread is, and its argument    *)
  status,        (* dev->status, what read() returns       *)
  target_steps, current_step,
  timer,         (* whether dev->timer is enqueued         *)
  callback,      (* where motor_step_cb is when it has     *)
                 (* made the last step of a run            *)
  stop_work,     (* whether dev->stop_work is pending      *)
  coils          (* "on" while any of the four is powered  *)

driverVars == <<lock, pc, steps, status, target_steps, current_step, timer,
                callback, stop_work, coils>>

MotorTypeOK ==
  /\ lock \subseteq Threads
  /\ pc \in [Threads -> {"out", "called", "cancel", "start"}]
  /\ steps \in [Threads -> Requests \cup {0}]
  /\ status \in {"idle", "running"}
  /\ target_steps \in 0 .. MaxSteps /\ current_step \in 0 .. target_steps
  /\ timer \in {"off", "enqueued"} /\ stop_work \in {"none", "pending"}
  /\ callback \in {"none", "done", "idled"}
  /\ coils \in {"on", "off"}

(* motor_probe *)
MotorInit ==
  /\ lock = {}
  /\ pc = [t \in Threads |-> "out"] /\ steps = [t \in Threads |-> 0]
  /\ status = "idle" /\ target_steps = 0 /\ current_step = 0
  /\ timer = "off" /\ callback = "none" /\ stop_work = "none"
  /\ coils = "off"

-----------------------------------------------------------------------------
(* motor_write and MOTOR_IOC_STOP *)

Call(t, n) ==
  /\ pc[t] = "out"
  /\ pc' = [pc EXCEPT ![t] = "called"]
  /\ steps' = [steps EXCEPT ![t] = n]
  /\ UNCHANGED <<lock, status, target_steps, current_step, timer, callback,
                 stop_work, coils>>

(* mutex_lock, and the look at dev->status. *)
EnterWrite(t) ==
  /\ pc[t] = "called" /\ lock = {}
  /\ lock' = {t}
  /\ pc' = [pc EXCEPT ![t] = IF status = "running" THEN "cancel" ELSE "start"]
  /\ UNCHANGED <<steps, status, target_steps, current_step, timer, callback,
                 stop_work, coils>>

(* Mutant: the coils of a cancelled run stay powered. *)
CancelKeepsCoils(t) ==
  /\ pc[t] = "cancel" /\ callback = "none"
  /\ timer' = "off"
  /\ stop_work' = "none"
  /\ status' = "idle"
  /\ pc' = [pc EXCEPT ![t] = "start"]
  /\ UNCHANGED <<lock, steps, target_steps, current_step, callback, coils>>

(* hrtimer_cancel waits until no callback runs, cancel_work_sync removes     *)
(* the pending work; then motor_release.                                    *)
Cancel(t) ==
  /\ pc[t] = "cancel" /\ callback = "none"
  /\ timer' = "off"
  /\ stop_work' = "none"
  /\ coils' = "off"
  /\ status' = "idle"
  /\ pc' = [pc EXCEPT ![t] = "start"]
  /\ UNCHANGED <<lock, steps, target_steps, current_step, callback>>

Magnitude(n) == IF n < 0 THEN -n ELSE n

Clamped(n) == IF Magnitude(n) > MaxSteps THEN MaxSteps ELSE Magnitude(n)

(* Nothing to start: write(0) and ioctl(STOP) return. *)
ReturnStopped(t) ==
  /\ pc[t] = "start" /\ steps[t] = 0
  /\ pc' = [pc EXCEPT ![t] = "out"]
  /\ lock' = {}
  /\ UNCHANGED <<steps, status, target_steps, current_step, timer, callback,
                 stop_work, coils>>

StartRun(t) ==
  /\ pc[t] = "start" /\ steps[t] # 0
  /\ target_steps' = Clamped(steps[t])
  /\ current_step' = 0
  /\ coils' = "on"
  /\ status' = "running"
  /\ timer' = "enqueued"
  /\ pc' = [pc EXCEPT ![t] = "out"]
  /\ lock' = {}
  /\ UNCHANGED <<steps, callback, stop_work>>

WriteStep(t) == EnterWrite(t) \/ Cancel(t) \/ ReturnStopped(t) \/ StartRun(t)

-----------------------------------------------------------------------------
(* motor_step_cb and motor_stop_work_fn *)

(* Mutant: one step too many. *)
LastStepLate(made) == made > target_steps

LastStep(made) == made >= target_steps

(* A callback of the timer never runs beside another. *)
TimerFires ==
  /\ timer = "enqueued" /\ callback = "none"
  /\ coils' = "on"
  /\ current_step' = current_step + 1
  /\ LET last == LastStep(current_step') IN
     /\ timer' = IF last THEN "off" ELSE "enqueued"
     /\ callback' = IF last THEN "done" ELSE "none"
  /\ UNCHANGED <<lock, pc, steps, status, target_steps, stop_work>>

CallbackIdles ==
  /\ callback = "done"
  /\ status' = "idle"
  /\ callback' = "idled"
  /\ UNCHANGED <<lock, pc, steps, target_steps, current_step, timer, stop_work, coils>>

CallbackSchedules ==
  /\ callback = "idled"
  /\ stop_work' = "pending"
  /\ callback' = "none"
  /\ UNCHANGED <<lock, pc, steps, status, target_steps, current_step, timer, coils>>

motor_stop_work_fn ==
  /\ stop_work = "pending"
  /\ stop_work' = "none"
  /\ coils' = "off"
  /\ UNCHANGED <<lock, pc, steps, status, target_steps, current_step, timer, callback>>

Interrupts == TimerFires \/ CallbackIdles \/ CallbackSchedules \/ motor_stop_work_fn

MotorNext ==
  \/ Interrupts
  \/ \E t \in Threads : WriteStep(t) \/ \E n \in Requests : Call(t, n)

MotorSpec == MotorInit /\ [][MotorNext]_driverVars

-----------------------------------------------------------------------------
(* Properties. *)

(* The status that read() returns, on which a caller decides that the motor  *)
(* has stopped, is true: it is "running" exactly while a step is still to    *)
(* come or the callback of the last one has not said so, although the        *)
(* callback writes it without the lock (motor_drv.c:127-128, 177-182, 215).  *)
StatusIsTrue == status = "running" <=> timer = "enqueued" \/ callback = "done"

(* The inductive invariant behind it: the lock's holder is the one thread    *)
(* inside a call, and nothing starts a run while it is about to.             *)
MotorInv ==
  /\ MotorTypeOK /\ StatusIsTrue
  /\ \A t \in Threads : pc[t] \in {"cancel", "start"} => lock = {t}
  /\ \A t \in Threads : pc[t] = "start" => status = "idle"
  /\ callback = "done" => timer = "off"
  /\ timer = "enqueued" => current_step < target_steps

(* A motor that stands still with its coils powered is about to have them     *)
(* powered off: the callback of its last step is about to schedule the work,  *)
(* or the work is pending and nobody has cancelled it without doing what it   *)
(* would have done (motor_drv.c:128, 139-143, 177-182).                      *)
CoilsAccounted ==
  status = "idle" /\ coils = "on" => callback = "idled" \/ stop_work = "pending"

(* motor_drv.c:84: "power off after stop".  Violated: the work of one run     *)
(* may power the coils off in the next (motor_drv.c:127-129, 177).           *)
PowerOffAfterStop == [][motor_stop_work_fn => status = "idle"]_driverVars

=============================================================================
