--------------------------- MODULE DriverLifecycle ---------------------------
(***************************************************************************)
(* probe() and remove() of the seven drivers (driver/*.c).  probe() takes   *)
(* one resource after another and, when one fails, gives back what it has;  *)
(* remove() gives all back, while the driver's own timer and work may still *)
(* be going on: rc522's poll timer queues its work and re-arms, the step    *)
(* motor's last step queues the work that powers it off, the PWM motor's   *)
(* timer ends a run.  Memory and the pins that the device core frees by     *)
(* itself (devm) are left out.  A driver with a file open is not removed.   *)
(***************************************************************************)
EXTENDS Integers, Sequences

CONSTANT DriverTested   (* the drivers to look at *)

ASSUME DriverLifecycleAssumption ==
  DriverTested \subseteq {"rc522", "bh1750", "led", "led_pwm", "motor", "motor_pwm", "dma_spi"}

VARIABLES
  driver,      (* the driver that is probed and removed                     *)
  phase,       (* "probe", "failed", "unwind", "up", "remove", "removed"    *)
  taken,       (* how many resources probe() has taken                      *)
  held,        (* the resources it has                                     *)
  releasing,   (* what it is still to give back or to stop                  *)
  devTimer,    (* whether its timer is enqueued                             *)
  devWork,     (* "none", "pending", "running"                              *)
  output       (* whether LED, coils or PWM are on                          *)

lifeVars == <<driver, phase, taken, held, releasing, devTimer, devWork, output>>

(* What probe() takes, in its order. *)
Acquires(d) ==
  CASE d = "rc522"   -> <<"region", "cdev", "class", "node", "irq">>
    [] d = "dma_spi" -> <<"txChan", "rxChan", "txBuf", "rxBuf", "region", "cdev", "class", "node">>
    [] OTHER         -> <<"region", "cdev", "class", "node">>

(* Mutant: a label too high in the chain of gotos. *)
NodeUnwindTooShort(resource) ==
  CASE resource = "region" -> <<>>
    [] resource = "cdev"   -> <<"region">>
    [] resource = "class"  -> <<"cdev", "region">>
    [] resource = "node"   -> <<"cdev", "region">>
    [] resource = "irq"    -> <<"node", "class", "cdev", "region">>

(* What the error path gives back when a resource cannot be had. *)
NodeUnwind(resource) ==
  CASE resource = "region" -> <<>>
    [] resource = "cdev"   -> <<"region">>
    [] resource = "class"  -> <<"cdev", "region">>
    [] resource = "node"   -> <<"class", "cdev", "region">>
    [] resource = "irq"    -> <<"node", "class", "cdev", "region">>

DmaUnwind(resource) ==
  CASE resource = "txChan" -> <<>>
    [] resource = "rxChan" -> <<"txChan">>
    [] resource = "txBuf"  -> <<"rxChan", "txChan">>
    [] resource = "rxBuf"  -> <<"txBuf", "rxChan", "txChan">>
    [] OTHER -> NodeUnwind(resource) \o <<"rxBuf", "txBuf", "rxChan", "txChan">>

Unwind(d, resource) == IF d = "dma_spi" THEN DmaUnwind(resource) ELSE NodeUnwind(resource)

(* What remove() does, in its order. *)
Removes(d) ==
  CASE d = "rc522"     -> <<"irq", "timer", "work", "node", "class", "cdev", "region">>
    [] d = "motor"     -> <<"timer", "work", "output", "node", "class", "cdev", "region">>
    [] d = "motor_pwm" -> <<"timer", "output", "node", "class", "cdev", "region">>
    [] d = "dma_spi"   -> <<"node", "class", "cdev", "region", "rxBuf", "txBuf", "rxChan", "txChan">>
    [] d = "bh1750"    -> <<"node", "class", "cdev", "region">>
    [] OTHER           -> <<"output", "node", "class", "cdev", "region">>

Items == {"region", "cdev", "class", "node", "irq", "txChan", "rxChan", "txBuf", "rxBuf",
          "timer", "work", "output"}

LifecycleTypeOK ==
  /\ driver \in DriverTested /\ taken \in Nat /\ releasing \in Seq(Items)
  /\ phase \in {"probe", "unwind", "failed", "up", "remove", "removed"}
  /\ devTimer \in {"off", "enqueued"} /\ devWork \in {"none", "pending", "running"}
  /\ output \in {"off", "on"}

LifecycleInit ==
  /\ driver \in DriverTested
  /\ phase = "probe" /\ taken = 0 /\ held = {} /\ releasing = <<>>
  /\ devTimer = "off" /\ devWork = "none" /\ output = "off"

-----------------------------------------------------------------------------
(* probe() *)

Wanted == Acquires(driver)[taken + 1]

(* rc522's last act is to start its poll timer. *)
Acquire ==
  /\ phase = "probe"
  /\ taken' = taken + 1 /\ held' = held \cup {Wanted}
  /\ IF taken' = Len(Acquires(driver))
       THEN phase' = "up" /\ devTimer' = (IF driver = "rc522" THEN "enqueued" ELSE "off")
       ELSE UNCHANGED <<phase, devTimer>>
  /\ UNCHANGED <<driver, releasing, devWork, output>>

(* The LED drivers do not look at what device_create has returned. *)
AcquireFails ==
  /\ phase = "probe"
  /\ ~(driver \in {"led", "led_pwm"} /\ Wanted = "node")
  /\ phase' = "unwind" /\ releasing' = Unwind(driver, Wanted)
  /\ UNCHANGED <<driver, taken, held, devTimer, devWork, output>>

(* One step of the error path or of remove().  del_timer_sync, hrtimer_cancel *)
(* and cancel_work_sync wait for what is running.                            *)
Release ==
  /\ phase \in {"unwind", "remove"} /\ releasing # <<>>
  /\ Head(releasing) = "work" => devWork # "running"
  /\ releasing' = Tail(releasing)
  /\ held' = held \ {Head(releasing)}
  /\ devTimer' = IF Head(releasing) = "timer" THEN "off" ELSE devTimer
  /\ devWork' = IF Head(releasing) = "work" THEN "none" ELSE devWork
  /\ output' = IF Head(releasing) = "output" THEN "off" ELSE output
  /\ UNCHANGED <<driver, phase, taken>>

ReleaseEnds ==
  /\ phase \in {"unwind", "remove"} /\ releasing = <<>>
  /\ phase' = IF phase = "unwind" THEN "failed" ELSE "removed"
  /\ UNCHANGED <<driver, taken, held, releasing, devTimer, devWork, output>>

Remove ==
  /\ phase = "up"
  /\ phase' = "remove" /\ releasing' = Removes(driver)
  /\ UNCHANGED <<driver, taken, held, devTimer, devWork, output>>

-----------------------------------------------------------------------------
(* The driver at work. *)

(* A caller starts a run, or turns the LED on, by write(). *)
CallerSwitchesOn ==
  /\ phase = "up" /\ driver \in {"motor", "motor_pwm", "led", "led_pwm"}
  /\ output' = "on"
  /\ devTimer' = IF driver \in {"motor", "motor_pwm"} THEN "enqueued" ELSE devTimer
  /\ UNCHANGED <<driver, phase, taken, held, releasing, devWork>>

(* brightness_store needs no open file: it is possible as long as the node   *)
(* is there.                                                                *)
BrightnessStored ==
  /\ driver \in {"led", "led_pwm"} /\ phase \in {"up", "remove"}
  /\ "node" \in held
  /\ output' \in {"on", "off"}
  /\ UNCHANGED <<driver, phase, taken, held, releasing, devTimer, devWork>>

DevTimerFires ==
  /\ devTimer = "enqueued"
  /\ devTimer' = IF driver = "rc522" THEN "enqueued" ELSE "off"
  /\ devWork' = IF driver \in {"rc522", "motor"} /\ devWork = "none" THEN "pending"
                ELSE devWork
  /\ output' = IF driver = "motor_pwm" THEN "off" ELSE output
  /\ UNCHANGED <<driver, phase, taken, held, releasing>>

DevWorkRuns ==
  /\ devWork # "none"
  /\ devWork' = IF devWork = "pending" THEN "running" ELSE "none"
  /\ output' = IF driver = "motor" /\ devWork = "running" THEN "off" ELSE output
  /\ UNCHANGED <<driver, phase, taken, held, releasing, devTimer>>

LifecycleNext ==
  \/ Acquire \/ AcquireFails \/ Release \/ ReleaseEnds \/ Remove
  \/ CallerSwitchesOn \/ BrightnessStored \/ DevTimerFires \/ DevWorkRuns

LifecycleSpec == LifecycleInit /\ [][LifecycleNext]_lifeVars

-----------------------------------------------------------------------------
(* Properties. *)

(* A driver that is not loaded, because a step of probe() failed or because   *)
(* it was removed, holds nothing; no timer or work of it is left to run in    *)
(* freed memory, and no motor stays powered, whatever was going on when       *)
(* remove() began (rc522_drv.c:615-704, motor_drv.c:454-504, ...).           *)
UnloadedIsClean ==
  phase \in {"failed", "removed"} =>
    /\ held = {} /\ devTimer = "off" /\ devWork = "none"
    /\ driver \in {"motor", "motor_pwm"} => output = "off"

(* What is still to give back or to stop. *)
Listed(list, x) == \E i \in DOMAIN list : list[i] = x

Pending(x) == Listed(releasing, x)

TimerBeforeWork(list) ==
  \A i, j \in DOMAIN list : list[i] = "timer" /\ list[j] = "work" => i < j

(* The inductive invariant behind it: what the driver still has, and what may *)
(* still run, is on the list of what is to be given back or stopped; and the *)
(* work of a timer is stopped after the timer that queues it.               *)
LifecycleInv ==
  /\ phase = "probe" =>
       /\ taken < Len(Acquires(driver))
       /\ \A r \in held : \E i \in 1 .. taken : r = Acquires(driver)[i]
  /\ phase = "up" =>
       \A r \in held : Listed(Acquires(driver), r)
  /\ phase \in {"probe", "unwind"} =>
       devTimer = "off" /\ devWork = "none" /\ output = "off"
  /\ phase \in {"unwind", "remove"} => \A r \in held : Pending(r)
  /\ phase = "remove" =>
       /\ devTimer # "off" => Pending("timer")
       /\ devWork # "none" \/ (driver \in {"rc522", "motor"} /\ Pending("timer")) =>
            Pending("work")
       /\ driver \in {"motor", "motor_pwm"} /\ output = "on" => Pending("output")
       /\ TimerBeforeWork(releasing)
  /\ devTimer # "off" => driver \in {"rc522", "motor", "motor_pwm"}
  /\ devWork # "none" => driver \in {"rc522", "motor"}
  /\ UnloadedIsClean

(* led_drv.c:151-155: the light is off after remove().  Violated: sysfs may  *)
(* turn it on again before the node is gone.                                *)
LightOffAfterRemove == phase = "removed" => output = "off"

=============================================================================
