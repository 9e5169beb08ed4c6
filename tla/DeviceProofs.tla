---------------------------- MODULE DeviceProofs ----------------------------
(***************************************************************************)
(* Theorems about the hardware service and the drivers, part by part: the   *)
(* motor and the workers on top of it, the two watchdogs, the PWM motor, the light *)
(* sensor, how the drivers are probed and removed, the DMA SPI transfers,   *)
(* the card reader's detection, and the sensor thread with the face light.  *)
(***************************************************************************)
EXTENDS Dispensing, Watchdogs, DriverLifecycle, PwmMotor, LightSensor,
        DmaSpi, CardReader, Sensors, TLAPS

-----------------------------------------------------------------------------
(* The motor's driver (Motor), for every set of threads, every request and   *)
(* every limit on the steps of a run.                                        *)

(* What a run is started with is within the driver's limit, also for a       *)
(* negative request (motor_drv.c:189-197).                                   *)
LEMMA ClampedRange ==
  ASSUME NEW n \in Requests \cup {0}, n # 0
  PROVE  Clamped(n) \in 1 .. MaxSteps
BY MotorAssumption DEF Clamped, Magnitude

(* The driver is probed into a state that satisfies the invariant.           *)
LEMMA InitInv == MotorInit => MotorInv
BY MotorAssumption DEF MotorInit, MotorInv, MotorTypeOK, StatusIsTrue

(* Every step of a call, of the callback and of the work keeps it.           *)
LEMMA StepInv == MotorInv /\ [MotorNext]_driverVars => MotorInv'
<1> SUFFICES ASSUME MotorInv, [MotorNext]_driverVars PROVE MotorInv'
  OBVIOUS
<1> USE DEF MotorInv, MotorTypeOK, StatusIsTrue
<1>1. ASSUME NEW t \in Threads, NEW n \in Requests, Call(t, n) PROVE MotorInv'
  BY <1>1 DEF Call
<1>2. ASSUME NEW t \in Threads, EnterWrite(t) PROVE MotorInv'
  <2>1. MotorTypeOK'
    BY <1>2 DEF EnterWrite
  <2>2. StatusIsTrue' /\ (callback = "done" => timer = "off")'
          /\ (timer = "enqueued" => current_step < target_steps)'
    BY <1>2 DEF EnterWrite
  <2>3. \A u \in Threads : pc[u] \notin {"cancel", "start"}
    BY <1>2 DEF EnterWrite
  <2>4. ASSUME NEW u \in Threads, pc'[u] \in {"cancel", "start"} PROVE u = t
    BY <1>2, <2>3, <2>4 DEF EnterWrite
  <2>5. pc'[t] = "start" => status' = "idle"
    BY <1>2 DEF EnterWrite
  <2>6. lock' = {t}
    BY <1>2 DEF EnterWrite
  <2> QED BY <2>1, <2>2, <2>4, <2>5, <2>6
<1>3. ASSUME NEW t \in Threads, Cancel(t) PROVE MotorInv'
  BY <1>3 DEF Cancel
<1>4. ASSUME NEW t \in Threads, ReturnStopped(t) PROVE MotorInv'
  <2>1. \A u \in Threads : pc[u] \in {"cancel", "start"} => u = t
    BY <1>4 DEF ReturnStopped
  <2> QED BY <1>4, <2>1 DEF ReturnStopped
<1>5. ASSUME NEW t \in Threads, StartRun(t) PROVE MotorInv'
  <2>1. \A u \in Threads : pc[u] \in {"cancel", "start"} => u = t
    BY <1>5 DEF StartRun
  <2>2. \A u \in Threads : pc'[u] \notin {"cancel", "start"}
    BY <1>5, <2>1 DEF StartRun
  <2>3. target_steps' \in 1 .. MaxSteps
    BY <1>5, ClampedRange DEF StartRun
  <2>4. callback # "done"
    BY <1>5 DEF StartRun
  <2>5. MotorTypeOK'
    BY <1>5, <2>3, MotorAssumption DEF StartRun
  <2>6. StatusIsTrue' /\ (callback = "done" => timer = "off")'
          /\ (timer = "enqueued" => current_step < target_steps)'
    BY <1>5, <2>3, <2>4, MotorAssumption DEF StartRun
  <2> QED BY <2>2, <2>5, <2>6
<1>6. ASSUME TimerFires PROVE MotorInv'
  <2>1. status = "running" /\ current_step < target_steps
    BY <1>6 DEF TimerFires
  <2>2. \A u \in Threads : pc[u] # "start"
    BY <2>1
  <2> QED BY <1>6, <2>1, <2>2, MotorAssumption DEF TimerFires, LastStep
<1>7. ASSUME CallbackIdles PROVE MotorInv'
  BY <1>7 DEF CallbackIdles
<1>8. ASSUME CallbackSchedules PROVE MotorInv'
  BY <1>8 DEF CallbackSchedules
<1>9. ASSUME motor_stop_work_fn PROVE MotorInv'
  BY <1>9 DEF motor_stop_work_fn
<1>10. CASE UNCHANGED driverVars
  BY <1>10 DEF driverVars
<1> QED
  BY <1>1, <1>2, <1>3, <1>4, <1>5, <1>6, <1>7, <1>8, <1>9, <1>10
     DEF MotorNext, WriteStep, Interrupts

(* The inductive invariant of the driver holds in every reachable state.     *)
THEOREM MotorInvariant == MotorSpec => []MotorInv
BY InitInv, StepInv, PTL DEF MotorSpec

(* What read() returns is true in every state (motor_drv.c:215).             *)
THEOREM StatusTrue == MotorSpec => []StatusIsTrue
<1>1. MotorInv => StatusIsTrue
  BY DEF MotorInv
<1> QED BY <1>1, MotorInvariant, PTL

(* No step leaves powered coils behind that nobody is going to power off: a    *)
(* cancelled run takes the work and the callback with it, an ended one hands   *)
(* the coils from the callback to the work.                                  *)
LEMMA CoilsStep ==
  MotorInv /\ CoilsAccounted /\ [MotorNext]_driverVars => CoilsAccounted'
<1> SUFFICES ASSUME MotorInv, CoilsAccounted, [MotorNext]_driverVars
             PROVE  CoilsAccounted'
  OBVIOUS
<1> USE DEF CoilsAccounted
<1>1. ASSUME NEW t \in Threads, WriteStep(t) PROVE CoilsAccounted'
  BY <1>1 DEF WriteStep, EnterWrite, Cancel, ReturnStopped, StartRun
<1>2. ASSUME NEW t \in Threads, NEW n \in Requests, Call(t, n) PROVE CoilsAccounted'
  BY <1>2 DEF Call
<1>3. CASE TimerFires
  BY <1>3 DEF TimerFires, MotorInv, StatusIsTrue
<1>4. CASE CallbackIdles \/ CallbackSchedules \/ motor_stop_work_fn
  BY <1>4 DEF CallbackIdles, CallbackSchedules, motor_stop_work_fn
<1>5. CASE UNCHANGED driverVars
  BY <1>5 DEF driverVars
<1> QED BY <1>1, <1>2, <1>3, <1>4, <1>5 DEF MotorNext, Interrupts

(* A motor that stands still never keeps its coils powered with nothing on the *)
(* way that powers them off, for any number of callers and runs of any length  *)
(* (motor_drv.c:126-129, 139-143): what CoilsReleased rests on.              *)
THEOREM CoilsAreAccounted == MotorSpec => []CoilsAccounted
<1>1. MotorInit => CoilsAccounted
  BY DEF MotorInit, CoilsAccounted
<1> QED BY <1>1, CoilsStep, MotorInvariant, PTL DEF MotorSpec

-----------------------------------------------------------------------------
(* The motor and the workers that hand out carts (Dispensing), for every set  *)
(* of workers and every length of a cart.                                   *)

ServiceTypes ==
  /\ motorFd \in {"open", "closing", "closed"}
  /\ at \in [Workers -> {"idle", "turn", "write", "sleep", "poll", "done"}]
  /\ items \in [Workers -> 0 .. MaxItems] /\ wanted \in [Workers -> 0 .. MaxItems]
  /\ turned \in [Workers -> Nat]
  /\ disturbed \subseteq Workers

DispensingKept == ServiceTypes /\ DispensingInv

(* The service starts with the driver probed and nobody served.              *)
LEMMA DispensingInit == Init => DispensingKept
<1> SUFFICES ASSUME Init PROVE DispensingKept
  OBVIOUS
<1>1. MotorInv
  BY InitInv DEF Init
<1>2. ServiceTypes
  BY DispensingAssumption DEF Init, ServiceTypes
<1>3. CallsInv /\ AloneInv /\ OwnerInv
  BY DispensingAssumption DEF Init, MotorInit, CallsInv, AloneInv, OwnerInv
<1>4. CountInv
  BY DispensingAssumption DEF Init, MotorInit, CountInv, Counted, ToCome
<1> QED BY <1>1, <1>2, <1>3, <1>4 DEF DispensingKept, DispensingInv

(* Every step of the service is a step of the driver or leaves it alone.     *)
LEMMA ServiceDrives == [Next]_vars => [MotorNext]_driverVars
<1> SUFFICES ASSUME [Next]_vars PROVE [MotorNext]_driverVars
  OBVIOUS
<1>a. Workers \subseteq Threads /\ Closer \in Threads /\ ItemSteps \in Requests /\ 0 \in Requests
  BY DispensingAssumption
<1>1. CASE DriverInterrupt
  BY <1>1 DEF DriverInterrupt, MotorNext
<1>2. ASSUME NEW t \in Threads, DriverCall(t) PROVE [MotorNext]_driverVars
  BY <1>2 DEF DriverCall, MotorNext
<1>3. ASSUME NEW w \in Workers, TurnForItem(w) PROVE [MotorNext]_driverVars
  BY <1>a, <1>3 DEF TurnForItem, MotorNext
<1>4. CASE ShutdownStops
  BY <1>a, <1>4 DEF ShutdownStops, MotorNext
<1>5. ASSUME NEW w \in Workers, CartEnds(w) \/ SleepEnds(w) \/ PollEnds(w)
      PROVE  [MotorNext]_driverVars
  BY <1>5 DEF CartEnds, SleepEnds, PollEnds
<1>6. ASSUME NEW w \in Workers, NEW n \in 1 .. MaxItems, rotateMotorForCart(w, n)
      PROVE  [MotorNext]_driverVars
  BY <1>6 DEF rotateMotorForCart
<1>7. CASE ShutdownCloses \/ UNCHANGED vars
  BY <1>7 DEF ShutdownCloses, vars
<1> QED BY <1>a, <1>1, <1>2, <1>3, <1>4, <1>5, <1>6, <1>7 DEF Next, WorkerStep

(* So the driver's invariant holds beneath the service.                      *)
LEMMA StepsOfDriver == MotorInv /\ [Next]_vars => MotorInv'
BY ServiceDrives, StepInv

(* A cart that is alone finds the motor at rest, or in its own run.          *)
LEMMA AloneWithMotor ==
  ASSUME DispensingKept, NEW w \in Workers \ disturbed, at[w] \notin {"idle", "done"}
  PROVE  /\ motorFd = "open"
         /\ status = "running" => runOf = {w} /\ at[w] \in {"sleep", "poll"}
<1>1. motorFd = "open" /\ \A u \in Workers \ {w} : at[u] \in {"idle", "done"}
  BY DEF DispensingKept, DispensingInv, AloneInv
<1>2. ASSUME status = "running" PROVE runOf = {w} /\ at[w] \in {"sleep", "poll"}
  <2>1. PICK u \in Workers :
          /\ runOf = {u}
          /\ at[u] \in {"sleep", "poll"} \/ (u \in disturbed /\ motorFd # "open")
    BY <1>2 DEF DispensingKept, DispensingInv, OwnerInv
  <2>2. u = w
    BY <1>1, <2>1
  <2> QED BY <1>1, <2>1, <2>2
<1> QED BY <1>1, <1>2

(* A run that ends is counted for the cart that waits for it, if that is not  *)
(* disturbed, and for no other that is not.                                 *)
LEMMA EndIsCounted ==
  ASSUME DispensingKept, callback = "done", NEW w \in Workers \ disturbed
  PROVE  /\ status = "running"
         /\ at[w] \in {"sleep", "poll"} =>
              runOf = {w} /\ current_step = ItemSteps /\ ToCome(w) = 1
         /\ at[w] \notin {"sleep", "poll"} => runOf # {w}
<1>1. status = "running"
  BY DEF DispensingKept, DispensingInv, MotorInv, StatusIsTrue
<1>2. PICK u \in Workers :
        /\ runOf = {u}
        /\ at[u] \in {"sleep", "poll"} \/ (u \in disturbed /\ motorFd # "open")
  BY <1>1 DEF DispensingKept, DispensingInv, OwnerInv
<1>3. ASSUME at[w] \in {"sleep", "poll"}
      PROVE  runOf = {w} /\ current_step = ItemSteps /\ ToCome(w) = 1
  BY <1>1, <1>3, AloneWithMotor DEF DispensingKept, DispensingInv, CountInv, Counted, ToCome
<1>4. ASSUME at[w] \notin {"sleep", "poll"} PROVE runOf # {w}
  BY <1>2, <1>4
<1> QED BY <1>1, <1>3, <1>4

(* The timer, the callback and the work.                                     *)
LEMMA InterruptKept == DispensingKept /\ DriverInterrupt => DispensingKept'
<1> SUFFICES ASSUME DispensingKept, DriverInterrupt PROVE DispensingKept'
  OBVIOUS
<1>0. MotorInv'
  BY StepsOfDriver DEF DispensingKept, DispensingInv, Next
<1>1. UNCHANGED <<motorFd, at, items, runOf, wanted, disturbed>>
      /\ UNCHANGED <<lock, pc, steps, target_steps>>
  BY DEF DriverInterrupt, Interrupts, TimerFires, CallbackIdles, CallbackSchedules,
         motor_stop_work_fn
<1>2. CallsInv' /\ AloneInv'
  BY <1>1 DEF DispensingKept, DispensingInv, CallsInv, AloneInv
<1>3. status' = "running" => status = "running"
  BY DEF DriverInterrupt, Interrupts, TimerFires, CallbackIdles, CallbackSchedules,
         motor_stop_work_fn
<1>4. OwnerInv'
  BY <1>1, <1>3 DEF DispensingKept, DispensingInv, OwnerInv
<1>5. ServiceTypes'
  BY <1>1 DEF DispensingKept, ServiceTypes, DriverInterrupt
<1>6. callback' = "done" => current_step' = target_steps'
  BY DEF DispensingKept, DispensingInv, CountInv, Counted, MotorInv, MotorTypeOK, DriverInterrupt,
         Interrupts, TimerFires, CallbackIdles, CallbackSchedules, motor_stop_work_fn, LastStep
<1>7. ASSUME NEW w \in Workers \ disturbed
      PROVE  /\ turned'[w] + items'[w] + ToCome(w)' = wanted'[w]
             /\ at'[w] = "idle" => turned'[w] = 0
             /\ at'[w] \in {"sleep", "poll"} /\ status' = "running" =>
                  target_steps' = ItemSteps
  <2>1. /\ turned[w] + items[w] + ToCome(w) = wanted[w]
        /\ turned[w] \in Nat /\ items[w] \in Nat /\ wanted[w] \in Nat
    BY DEF DispensingKept, DispensingInv, CountInv, Counted, ServiceTypes
  <2>2. at'[w] \in {"sleep", "poll"} /\ status' = "running" => target_steps' = ItemSteps
    BY <1>1, <1>3 DEF DispensingKept, DispensingInv, CountInv, Counted
  <2>3. turned'[w] = IF status = "running" /\ status' = "idle" /\ runOf = {w}
                          /\ current_step = ItemSteps
                       THEN turned[w] + 1 ELSE turned[w]
    BY DEF DriverInterrupt
  <2>4. at[w] = "idle" => turned[w] = 0
    BY DEF DispensingKept, DispensingInv, CountInv, Counted
  <2>5. CASE CallbackIdles
    <3>1. callback = "done" /\ status' = "idle"
      BY <2>5 DEF CallbackIdles
    <3>2. CASE at[w] \in {"sleep", "poll"}
      <4>1. turned'[w] = turned[w] + 1 /\ ToCome(w) = 1
        BY <2>3, <3>1, <3>2, EndIsCounted
      <4>2. ToCome(w)' = 0
        BY <1>1, <3>1, <3>2 DEF ToCome
      <4> QED BY <1>1, <2>1, <2>2, <2>4, <3>2, <4>1, <4>2
    <3>3. CASE at[w] \notin {"sleep", "poll"}
      <4>1. turned'[w] = turned[w]
        BY <2>3, <3>1, <3>3, EndIsCounted
      <4>2. ToCome(w)' = ToCome(w)
        BY <1>1, <3>3 DEF ToCome
      <4> QED BY <1>1, <2>1, <2>2, <2>4, <3>3, <4>1, <4>2
    <3> QED BY <3>2, <3>3
  <2>6. CASE TimerFires \/ CallbackSchedules \/ motor_stop_work_fn
    <3>1. status' = status
      BY <2>6 DEF TimerFires, CallbackSchedules, motor_stop_work_fn
    <3>2. turned'[w] = turned[w] /\ ToCome(w)' = ToCome(w)
      BY <1>1, <2>3, <3>1 DEF ToCome
    <3> QED BY <1>1, <2>1, <2>2, <2>4, <3>2
  <2> QED BY <2>5, <2>6 DEF DriverInterrupt, Interrupts
<1>8. CountInv'
  BY <1>1, <1>6, <1>7 DEF DispensingKept, DispensingInv, CountInv, Counted
<1> QED BY <1>0, <1>2, <1>4, <1>5, <1>8 DEF DispensingKept, DispensingInv

(* A cart is paid for: if it finds another being handed out, both are         *)
(* disturbed.                                                               *)
LEMMA PaidKept ==
  ASSUME DispensingKept, NEW w \in Workers, NEW n \in 1 .. MaxItems, rotateMotorForCart(w, n)
  PROVE  DispensingKept'
<1>0. MotorInv'
  BY StepsOfDriver DEF DispensingKept, DispensingInv, Next
<1>1. /\ UNCHANGED driverVars /\ UNCHANGED <<motorFd, runOf, turned>> /\ motorFd = "open"
      /\ at[w] = "idle" /\ at' = [at EXCEPT ![w] = "turn"]
      /\ items' = [items EXCEPT ![w] = n] /\ wanted' = [wanted EXCEPT ![w] = n]
      /\ disturbed' = IF Busy = {} THEN disturbed ELSE disturbed \cup Busy \cup {w}
  BY DEF rotateMotorForCart, Goto
<1>2. ServiceTypes /\ MaxItems \in Nat
  BY DispensingAssumption DEF DispensingKept
<1>3. /\ \A u \in Workers \ {w} : at'[u] = at[u] /\ items'[u] = items[u] /\ wanted'[u] = wanted[u]
      /\ at'[w] = "turn" /\ items'[w] = n /\ wanted'[w] = n
  BY <1>1, <1>2 DEF ServiceTypes
<1>4. ServiceTypes'
  BY <1>1, <1>2 DEF ServiceTypes, Busy
<1>5. CallsInv'
  BY <1>1, <1>3 DEF DispensingKept, DispensingInv, CallsInv, driverVars
<1>6. AloneInv'
  <2>1. ASSUME NEW u \in Workers \ disturbed', at'[u] \notin {"idle", "done"}
        PROVE  motorFd' = "open" /\ \A v \in Workers \ {u} : at'[v] \in {"idle", "done"}
    <3>1. CASE Busy = {}
      BY <1>1, <1>3, <2>1, <3>1 DEF Busy
    <3>2. CASE Busy # {}
      <4>1. u \notin Busy /\ u # w
        BY <1>1, <2>1, <3>2
      <4>2. at[u] \in {"idle", "done"}
        BY <4>1 DEF Busy
      <4> QED BY <1>3, <2>1, <4>1, <4>2
    <3> QED BY <3>1, <3>2
  <2> QED BY <2>1 DEF AloneInv
<1>7. OwnerInv'
  BY <1>1, <1>3 DEF DispensingKept, DispensingInv, OwnerInv, driverVars
<1>8. CountInv'
  <2>1. \A u \in Workers : at'[u] = "idle" => u \notin disturbed'
    BY <1>1, <1>3 DEF DispensingKept, DispensingInv, CountInv, Counted, Busy
  <2>2. ASSUME NEW u \in Workers \ disturbed'
        PROVE  Counted(u)'
    <3>1. u \notin disturbed
      BY <1>1, <2>2
    <3>2. CASE u # w
      BY <1>1, <1>3, <3>1, <3>2 DEF DispensingKept, DispensingInv, CountInv, Counted, ToCome, driverVars
    <3>3. CASE u = w
      <4>1. turned[w] + items[w] + ToCome(w) = wanted[w] /\ ToCome(w) = 0 /\ items[w] = 0
        BY <1>1, <3>1, <3>3 DEF DispensingKept, DispensingInv, CountInv, Counted, ToCome
      <4>2. turned[w] = 0
        BY <1>1, <3>1, <3>3 DEF DispensingKept, DispensingInv, CountInv, Counted
      <4>3. ToCome(w)' = 0
        BY <1>3 DEF ToCome
      <4> QED BY <1>1, <1>2, <1>3, <3>3, <4>2, <4>3 DEF Counted
    <3> QED BY <3>2, <3>3
  <2>3. callback' = "done" => current_step' = target_steps'
    BY <1>1 DEF DispensingKept, DispensingInv, CountInv, driverVars
  <2> QED BY <2>1, <2>2, <2>3 DEF CountInv, Counted
<1> QED BY <1>0, <1>4, <1>5, <1>6, <1>7, <1>8 DEF DispensingKept, DispensingInv

(* A step of a worker that is busy leaves everybody who is alone alone.       *)
LEMMA MoveAlone ==
  ASSUME DispensingKept, NEW w \in Workers, at[w] \notin {"idle", "done"},
         \A u \in Workers \ {w} : at'[u] = at[u], UNCHANGED <<motorFd, disturbed>>
  PROVE  AloneInv'
BY DEF DispensingKept, DispensingInv, AloneInv

(* Nor does it change the count of any other cart that is not disturbed.      *)
LEMMA OthersCounted ==
  ASSUME DispensingKept, NEW w \in Workers, at[w] \notin {"idle", "done"},
         NEW u \in Workers \ disturbed, u # w,
         at'[u] = at[u], items'[u] = items[u], UNCHANGED <<turned, wanted>>
  PROVE  Counted(u)'
<1>1. at[u] \in {"idle", "done"}
  BY DEF DispensingKept, DispensingInv, AloneInv
<1>2. Counted(u)
  BY DEF DispensingKept, DispensingInv, CountInv
<1> QED BY <1>1, <1>2 DEF Counted, ToCome

(* The next item: a run is asked for, unless the descriptor is closed, which  *)
(* only a disturbed cart finds.                                             *)
LEMMA TurnKept ==
  ASSUME DispensingKept, NEW w \in Workers, TurnForItem(w)
  PROVE  DispensingKept'
<1>0. MotorInv'
  BY StepsOfDriver DEF DispensingKept, DispensingInv, Next, WorkerStep
<1>1. /\ at[w] = "turn" /\ items[w] > 0 /\ items' = [items EXCEPT ![w] = @ - 1]
      /\ UNCHANGED <<motorFd, runOf, turned, wanted, disturbed>>
      /\ UNCHANGED <<lock, status, target_steps, current_step, timer, callback>>
  BY DEF TurnForItem, Call, driverVars
<1>2. ServiceTypes /\ MaxItems \in Nat /\ w \in Threads /\ w # Closer
      /\ pc \in [Threads -> {"out", "called", "cancel", "start"}]
      /\ steps \in [Threads -> Requests \cup {0}]
  BY DispensingAssumption DEF DispensingKept, DispensingInv, MotorInv, MotorTypeOK
<1>3. CASE motorFd = "closed"
  <2>1. at' = [at EXCEPT ![w] = "poll"] /\ UNCHANGED driverVars
    BY <1>3 DEF TurnForItem, Goto
  <2>2. \A u \in Workers \ {w} : at'[u] = at[u] /\ items'[u] = items[u]
    BY <1>1, <1>2, <2>1 DEF ServiceTypes
  <2>3. at'[w] = "poll" /\ items'[w] = items[w] - 1 /\ w \in disturbed
    BY <1>1, <1>2, <1>3, <2>1, AloneWithMotor DEF ServiceTypes
  <2>4. ServiceTypes'
    BY <1>1, <1>2, <2>1 DEF ServiceTypes
  <2>5. CallsInv'
    BY <1>1, <2>1, <2>2, <2>3 DEF driverVars, DispensingKept, DispensingInv, CallsInv
  <2>6. OwnerInv'
    BY <1>1, <2>1, <2>2, <2>3 DEF driverVars, DispensingKept, DispensingInv, OwnerInv
  <2>7. AloneInv'
    BY <1>1, <2>2, MoveAlone
  <2>8. CountInv'
    BY <1>1, <2>2, <2>3, OthersCounted DEF DispensingKept, DispensingInv, CountInv
  <2> QED BY <1>0, <2>4, <2>5, <2>6, <2>7, <2>8 DEF DispensingKept, DispensingInv
<1>4. CASE motorFd # "closed"
  <2>1. at' = [at EXCEPT ![w] = "write"] /\ pc[w] = "out" /\ pc' = [pc EXCEPT ![w] = "called"]
        /\ steps' = [steps EXCEPT ![w] = ItemSteps]
    BY <1>4 DEF TurnForItem, Goto, Call
  <2>2. /\ \A u \in Workers \ {w} : at'[u] = at[u] /\ items'[u] = items[u]
        /\ \A t \in Threads \ {w} : pc'[t] = pc[t] /\ steps'[t] = steps[t]
    BY <1>1, <1>2, <2>1 DEF ServiceTypes
  <2>3. /\ at'[w] = "write" /\ items'[w] = items[w] - 1
        /\ pc'[w] = "called" /\ steps'[w] = ItemSteps
    BY <1>1, <1>2, <2>1 DEF ServiceTypes
  <2>4. ServiceTypes'
    BY <1>1, <1>2, <2>1 DEF ServiceTypes
  <2>5. CallsInv'
    <3>1. Closer \in Threads \ {w} /\ Workers \subseteq Threads
      BY DispensingAssumption, <1>2
    <3> QED BY <1>1, <2>2, <2>3, <3>1 DEF DispensingKept, DispensingInv, CallsInv
  <2>6. OwnerInv'
    BY <1>1, <2>2, <2>3 DEF DispensingKept, DispensingInv, OwnerInv
  <2>7. AloneInv'
    BY <1>1, <2>2, MoveAlone
  <2>8. w \notin disturbed => Counted(w)'
    <3>1. w \notin disturbed => Counted(w)
      BY DEF DispensingKept, DispensingInv, CountInv
    <3>2. turned[w] \in Nat /\ items[w] \in Nat /\ wanted[w] \in Nat
      BY <1>2 DEF ServiceTypes
    <3> QED BY <1>1, <2>3, <3>1, <3>2 DEF Counted, ToCome
  <2>9. CountInv'
    BY <1>1, <2>2, <2>3, <2>8, OthersCounted DEF DispensingKept, DispensingInv, CountInv
  <2> QED BY <1>0, <2>4, <2>5, <2>6, <2>7, <2>9 DEF DispensingKept, DispensingInv
<1> QED BY <1>3, <1>4

(* The end of the cart, of the sleep and of the poll.                         *)
LEMMA WaitKept ==
  ASSUME DispensingKept, NEW w \in Workers, CartEnds(w) \/ SleepEnds(w) \/ PollEnds(w)
  PROVE  DispensingKept'
<1>0. MotorInv'
  BY StepsOfDriver DEF DispensingKept, DispensingInv, Next, WorkerStep
<1> DEFINE place == IF at[w] = "turn" THEN "done" ELSE IF at[w] = "sleep" THEN "poll" ELSE "turn"
<1>1. /\ at[w] \in {"turn", "sleep", "poll"} /\ at' = [at EXCEPT ![w] = place]
      /\ UNCHANGED <<motorFd, items, runOf, turned, wanted, disturbed>>
      /\ UNCHANGED <<lock, pc, steps, status, target_steps, current_step, timer, callback>>
  BY DEF CartEnds, SleepEnds, PollEnds, Goto, driverVars
<1>2. at[w] = "turn" => items[w] = 0
  BY DEF CartEnds, SleepEnds, PollEnds
<1>3. at[w] = "poll" => PollIsOver(w)
  BY DEF CartEnds, SleepEnds, PollEnds
<1>4. ServiceTypes
  BY DEF DispensingKept
<1>5. /\ \A u \in Workers \ {w} : at'[u] = at[u]
      /\ at'[w] = place
  BY <1>1, <1>4 DEF ServiceTypes
<1>6. ServiceTypes'
  BY <1>1, <1>4 DEF ServiceTypes
<1>7. CallsInv'
  BY <1>1, <1>5 DEF DispensingKept, DispensingInv, CallsInv
<1>8. OwnerInv'
  <2>1. ASSUME NEW u \in Workers, status = "running", runOf = {u},
               at[u] \in {"sleep", "poll"} \/ (u \in disturbed /\ motorFd # "open")
        PROVE  at'[u] \in {"sleep", "poll"} \/ (u \in disturbed /\ motorFd # "open")
    <3>1. CASE u # w \/ (u \in disturbed /\ motorFd # "open") \/ at[w] # "poll"
      BY <1>1, <1>5, <2>1, <3>1
    <3>2. CASE u = w /\ at[w] = "poll"
      <4>1. motorFd = "closed"
        BY <1>3, <2>1, <3>2 DEF PollIsOver
      <4>2. w \in disturbed
        BY <3>2, <4>1, AloneWithMotor
      <4> QED BY <3>2, <4>1, <4>2
    <3> QED BY <3>1, <3>2
  <2> QED BY <1>1, <2>1 DEF DispensingKept, DispensingInv, OwnerInv
<1>9. AloneInv'
  BY <1>1, <1>5, MoveAlone
<1>10. ASSUME w \notin disturbed PROVE Counted(w)'
  <2>1. Counted(w)
    BY <1>10 DEF DispensingKept, DispensingInv, CountInv
  <2>2. at[w] = "poll" => status # "running"
    BY <1>3, <1>10, AloneWithMotor DEF PollIsOver
  <2> QED BY <1>1, <1>2, <1>5, <2>1, <2>2 DEF Counted, ToCome
<1>11. CountInv'
  BY <1>1, <1>5, <1>10, OthersCounted DEF DispensingKept, DispensingInv, CountInv
<1> QED BY <1>0, <1>6, <1>7, <1>8, <1>9, <1>11 DEF DispensingKept, DispensingInv

(* A step of a call of a thread: of a worker that writes, or of the thread    *)
(* that shuts down, which only stops the motor.                             *)
LEMMA CallKept ==
  ASSUME DispensingKept, NEW t \in Threads, DriverCall(t)
  PROVE  DispensingKept'
<1>a. Threads = Workers \cup {Closer} /\ Closer \notin Workers
      /\ ItemSteps \in 1 .. MaxSteps /\ MaxSteps \in Nat /\ ItemSteps \in Requests
  BY DispensingAssumption, MotorAssumption
<1>0. MotorInv'
  <2>1. [Next]_vars
    BY <1>a DEF Next, WorkerStep
  <2> QED BY <2>1, StepsOfDriver DEF DispensingKept, DispensingInv
<1>1. ServiceTypes /\ MotorInv /\ CallsInv /\ OwnerInv /\ CountInv
  BY DEF DispensingKept, DispensingInv
<1>2. /\ pc \in [Threads -> {"out", "called", "cancel", "start"}]
      /\ status \in {"idle", "running"}
      /\ pc[t] = "start" => status = "idle" /\ callback # "done"
  BY <1>1 DEF MotorInv, MotorTypeOK, StatusIsTrue
<1>3. /\ pc[t] # "out" /\ UNCHANGED <<motorFd, items, turned, wanted, disturbed, steps, callback>>
      /\ \A u \in Threads \ {t} : pc'[u] = pc[u]
  BY <1>2 DEF DriverCall, WriteStep, EnterWrite, Cancel, ReturnStopped, StartRun
<1>4. \A u \in Workers \ disturbed : u # t => at[u] \in {"idle", "done"}
  BY <1>a, <1>1, <1>3 DEF DispensingKept, DispensingInv, AloneInv, CallsInv
<1>5. CASE StartRun(t)
  <2>1. t \in Workers
    BY <1>a, <1>1, <1>5 DEF StartRun, CallsInv
  <2>2. at[t] = "write" /\ steps[t] = ItemSteps
    BY <1>1, <1>3, <2>1 DEF CallsInv
  <2>3. Clamped(ItemSteps) = ItemSteps
    BY <1>a DEF Clamped, Magnitude
  <2>4. /\ status' = "running" /\ pc'[t] = "out"
        /\ target_steps' = ItemSteps /\ callback' # "done"
    BY <1>2, <1>3, <1>5, <2>2, <2>3 DEF StartRun
  <2>5. runOf' = {t} /\ at' = [at EXCEPT ![t] = "sleep"]
    BY <2>1, <2>4 DEF DriverCall, Goto
  <2>6. at'[t] = "sleep" /\ \A u \in Workers \ {t} : at'[u] = at[u]
    BY <1>1, <2>1, <2>5 DEF ServiceTypes
  <2>7. ServiceTypes'
    BY <1>1, <1>3, <2>5 DEF ServiceTypes
  <2>8. CallsInv'
    BY <1>a, <1>1, <1>3, <2>1, <2>4, <2>6 DEF CallsInv
  <2>9. OwnerInv'
    BY <2>1, <2>5, <2>6 DEF OwnerInv
  <2>10. AloneInv'
    BY <1>3, <2>1, <2>2, <2>6, MoveAlone
  <2>11. t \notin disturbed => Counted(t)'
    <3>1. t \notin disturbed => Counted(t)
      BY <1>1, <2>1 DEF CountInv
    <3> QED BY <1>3, <2>2, <2>4, <2>6, <3>1 DEF Counted, ToCome
  <2>12. CountInv'
    BY <1>1, <1>3, <2>1, <2>2, <2>4, <2>6, <2>11, OthersCounted DEF CountInv
  <2> QED BY <1>0, <2>7, <2>8, <2>9, <2>10, <2>12 DEF DispensingKept, DispensingInv
<1>6. CASE EnterWrite(t) \/ Cancel(t)
  <2>1. /\ pc'[t] \in {"cancel", "start"} /\ target_steps' = target_steps
        /\ status' = status \/ status' = "idle"
        /\ current_step' = current_step
    BY <1>2, <1>6 DEF EnterWrite, Cancel
  <2>2. UNCHANGED <<at, runOf>>
    BY <2>1 DEF DriverCall
  <2>3. ServiceTypes'
    BY <1>1, <1>3, <2>2 DEF ServiceTypes
  <2>4. CallsInv'
    BY <1>a, <1>1, <1>3, <2>1, <2>2 DEF CallsInv
  <2>5. OwnerInv' /\ AloneInv'
    BY <1>1, <1>3, <2>1, <2>2 DEF OwnerInv, AloneInv, DispensingKept, DispensingInv
  <2>6. ASSUME NEW u \in Workers \ disturbed PROVE Counted(u)'
    <3>1. Counted(u)
      BY <1>1 DEF CountInv
    <3>2. at[u] \in {"idle", "done", "write"}
      BY <1>1, <1>3, <1>4 DEF CallsInv
    <3> QED BY <1>3, <2>1, <2>2, <3>1, <3>2 DEF Counted, ToCome
  <2>7. CountInv'
    BY <1>1, <1>3, <2>1, <2>2, <2>6 DEF CountInv
  <2> QED BY <1>0, <2>3, <2>4, <2>5, <2>7 DEF DispensingKept, DispensingInv
<1>7. CASE ReturnStopped(t)
  <2>1. t = Closer
    BY <1>a, <1>1, <1>3, <1>7 DEF ReturnStopped, CallsInv
  <2>2. motorFd # "open"
    BY <1>1, <1>3, <2>1 DEF CallsInv
  <2>3. UNCHANGED <<status, target_steps, current_step>> /\ status = "idle"
    BY <1>2, <1>7 DEF ReturnStopped
  <2>4. UNCHANGED <<at, runOf>>
    BY <1>a, <2>1, <2>3 DEF DriverCall
  <2>5. ServiceTypes'
    BY <1>1, <1>3, <2>4 DEF ServiceTypes
  <2>6. CallsInv'
    BY <1>a, <1>1, <1>3, <2>1, <2>2, <2>4 DEF CallsInv
  <2>7. OwnerInv' /\ AloneInv'
    BY <1>1, <1>3, <2>3, <2>4 DEF OwnerInv, AloneInv, DispensingKept, DispensingInv
  <2>8. CountInv'
    BY <1>1, <1>3, <2>3, <2>4 DEF CountInv, Counted, ToCome
  <2> QED BY <1>0, <2>5, <2>6, <2>7, <2>8 DEF DispensingKept, DispensingInv
<1> QED BY <1>5, <1>6, <1>7 DEF DriverCall, WriteStep

(* The program shuts down: every cart that is being handed out is disturbed.  *)
LEMMA ShutdownKept == DispensingKept /\ (ShutdownStops \/ ShutdownCloses) => DispensingKept'
<1> SUFFICES ASSUME DispensingKept, ShutdownStops \/ ShutdownCloses PROVE DispensingKept'
  OBVIOUS
<1>a. Threads = Workers \cup {Closer} /\ Closer \notin Workers
  BY DispensingAssumption
<1>0. MotorInv'
  BY StepsOfDriver DEF DispensingKept, DispensingInv, Next
<1>1. ServiceTypes /\ MotorInv /\ CallsInv /\ AloneInv /\ OwnerInv /\ CountInv
  BY DEF DispensingKept, DispensingInv
<1>2. /\ UNCHANGED <<at, items, runOf, turned, wanted, status, target_steps, current_step, callback>>
      /\ motorFd' \in {"closing", "closed"} /\ disturbed \subseteq disturbed'
      /\ disturbed' \subseteq disturbed \cup Busy
      /\ \A u \in Workers : pc'[u] = pc[u] /\ steps'[u] = steps[u]
      /\ steps'[Closer] = 0
  <2>1. CASE ShutdownStops
    BY <1>a, <1>1, <2>1 DEF ShutdownStops, Call, MotorInv, MotorTypeOK
  <2>2. CASE ShutdownCloses
    BY <1>1, <2>2 DEF ShutdownCloses, driverVars, CallsInv
  <2> QED BY <2>1, <2>2
<1>3. \A u \in Workers \ disturbed' : at[u] \in {"idle", "done"}
  <2>1. CASE ShutdownStops
    BY <2>1 DEF ShutdownStops, Busy
  <2>2. CASE ShutdownCloses
    BY <1>1, <2>2 DEF ShutdownCloses, AloneInv
  <2> QED BY <2>1, <2>2
<1>4. ServiceTypes'
  BY <1>1, <1>2 DEF ServiceTypes, Busy
<1>5. CallsInv'
  BY <1>1, <1>2 DEF CallsInv
<1>6. AloneInv'
  BY <1>2, <1>3 DEF AloneInv
<1>7. OwnerInv'
  BY <1>1, <1>2 DEF OwnerInv
<1>8. CountInv'
  <2>1. \A u \in Workers : at'[u] = "idle" => u \notin disturbed'
    BY <1>1, <1>2 DEF CountInv, Busy
  <2>2. ASSUME NEW u \in Workers \ disturbed' PROVE Counted(u)'
    BY <1>1, <1>2, <2>2 DEF CountInv, Counted, ToCome
  <2> QED BY <1>1, <1>2, <2>1, <2>2 DEF CountInv
<1> QED BY <1>0, <1>4, <1>5, <1>6, <1>7, <1>8 DEF DispensingKept, DispensingInv

(* Every step keeps it. *)
LEMMA DispensingStep == DispensingKept /\ [Next]_vars => DispensingKept'
<1> SUFFICES ASSUME DispensingKept, [Next]_vars PROVE DispensingKept'
  OBVIOUS
<1>1. Workers \subseteq Threads /\ Closer \in Threads
  BY DispensingAssumption
<1>2. CASE UNCHANGED vars
  <2>1. MotorInv'
    BY StepsOfDriver DEF DispensingKept, DispensingInv
  <2> QED BY <1>2, <2>1 DEF vars, driverVars, serviceVars, DispensingKept, DispensingInv,
             ServiceTypes, CallsInv, AloneInv, OwnerInv, CountInv, Counted, ToCome
<1> QED BY <1>1, <1>2, InterruptKept, PaidKept, TurnKept, WaitKept, CallKept, ShutdownKept
        DEF Next, WorkerStep

(* In every reachable state a cart that was handed out undisturbed got a full  *)
(* turn for every item (hardwareservice.cpp:80-94, motor_drv.c:126-129).       *)
THEOREM UndisturbedServed == Spec => []UndisturbedCartServed
<1>1. DispensingKept => UndisturbedCartServed
  <2> SUFFICES ASSUME DispensingKept, NEW w \in Workers, at[w] = "done", w \notin disturbed
               PROVE  turned[w] = wanted[w]
    BY DEF UndisturbedCartServed
  <2>1. Counted(w) /\ turned[w] \in Nat
    BY DEF DispensingKept, DispensingInv, CountInv, ServiceTypes
  <2> QED BY <2>1 DEF Counted, ToCome
<1> QED BY DispensingInit, DispensingStep, <1>1, PTL DEF Spec

(* The driver's status is true also under the service (motor_drv.c:215).      *)
THEOREM ServiceStatusTrue == Spec => []MotorInv
<1>1. DispensingKept => MotorInv
  BY DEF DispensingKept, DispensingInv
<1> QED BY DispensingInit, DispensingStep, <1>1, PTL DEF Spec

(* The hardware service implements the driver's specification: whatever its   *)
(* workers and its shutdown do, the driver is used as its specification        *)
(* allows, so that what is proved of the driver holds beneath them            *)
(* (hardwareservice.cpp:68-98, hardware_api.c).                              *)
THEOREM ServiceImplementsDriver == Spec => MotorSpec
<1>1. Init => MotorInit
  BY DEF Init
<1> QED BY <1>1, ServiceDrives, PTL DEF Spec, MotorSpec

(* After a cart's last item, or a shutdown in the middle of one, coils that    *)
(* are powered have the work on its way that powers them off                  *)
(* (hardwareservice.cpp:80-98, motor_drv.c:128, 139-143).                     *)
THEOREM ServiceCoils == Spec => []CoilsAccounted
BY ServiceImplementsDriver, CoilsAreAccounted

-----------------------------------------------------------------------------
(* The two watchdogs (Watchdogs), for every timeout and every interval.      *)

BoardKept == WatchdogsTypeOK /\ BoardInv
HangKept == WatchdogsTypeOK /\ HangInv

(* The feeding thread sleeps for a part of the board's timeout.              *)
LEMMA FeederSleepsLess ==
  FeederSleeps \in Nat /\ FeederSleeps < HwTimeout /\ HwTimeout \in Nat
BY WatchdogsAssumption DEF FeederSleeps

(* MainWindow::initSystem starts both.                                       *)
LEMMA WatchdogsInitInv == WatchdogsInit => BoardKept /\ HangKept
<1> SUFFICES ASSUME WatchdogsInit PROVE BoardKept /\ HangKept
  OBVIOUS
<1>1. WatchdogsTypeOK
  <2>1. /\ armed \in BOOLEAN /\ released \in BOOLEAN /\ reset \in BOOLEAN
        /\ raced \in BOOLEAN /\ hung \in BOOLEAN /\ hwRunning \in BOOLEAN
    BY Zenon DEF WatchdogsInit
  <2>2. /\ HwTimeout \in Nat /\ SoftTimeout \in Nat
        /\ FeedInterval \in Nat /\ ShutdownTime \in Nat
    BY WatchdogsAssumption
  <2> QED BY <2>1, <2>2 DEF WatchdogsInit, WatchdogsTypeOK
<1>2. BoardInv /\ HangInv
  BY WatchdogsAssumption, FeederSleepsLess DEF WatchdogsInit, BoardInv, HangInv
<1> QED BY <1>1, <1>2 DEF BoardKept, HangKept

(* A count of ticks stays in its range when it goes on.                      *)
LEMMA CountdownRange ==
  ASSUME NEW limit \in Nat, NEW n \in 0 .. limit
  PROVE  /\ Countdown(n) \in 0 .. limit
         /\ n > 0 => Countdown(n) = n - 1
         /\ Countdown(n) <= n
BY DEF Countdown

(* Time goes on only when no thread has anything to do.                      *)
LEMMA NothingDue ==
  ASSUME WatchdogsTypeOK, ~SomethingIsDue, process = "up"
  PROVE  /\ feeder \in {"sleep", "ended"}
         /\ feeder = "sleep" => feederWait > 0
         /\ checker = "sleep" /\ checkerWait > 0
         /\ emergency = "none" /\ gui \notin {"V", "close"}
BY WatchdogsAssumption DEF WatchdogsTypeOK, SomethingIsDue

(* The age passes no bound while time goes on: the software watchdog's thread *)
(* sleeps less than is left.                                                *)
LEMMA TickHang ==
  ASSUME HangKept, Tick
  PROVE  HangInv' /\ age' \in 0 .. SoftTimeout + 2 * FeedInterval
<1>0. SoftTimeout \in Nat /\ FeedInterval \in Nat
  BY WatchdogsAssumption
<1>1. age \in 0 .. SoftTimeout + 2 * FeedInterval /\ checkerWait \in 0 .. FeedInterval
  BY DEF HangKept, WatchdogsTypeOK
<1>2. CASE process # "up"
  BY <1>1, <1>2 DEF Tick, HangInv
<1>3. CASE process = "up"
  <2>1. checker = "sleep" /\ checkerWait > 0
    BY <1>3, NothingDue DEF Tick, HangKept
  <2>2. age + checkerWait <= SoftTimeout + FeedInterval
    BY <1>3, <2>1 DEF HangKept, HangInv
  <2>3. age' = age + 1 /\ checkerWait' = checkerWait - 1
    BY <1>3, <2>1 DEF Tick, Countdown
  <2> QED BY <1>0, <1>1, <2>1, <2>2, <2>3 DEF HangInv
<1> QED BY <1>2, <1>3

(* The types of the board's watchdog after a write or a close.               *)
LEMMA BoardTypes ==
  ASSUME WatchdogsTypeOK, Feed \/ WriteV \/ Close
  PROVE  /\ countdown' \in 0 .. HwTimeout /\ armed' \in BOOLEAN /\ released' \in BOOLEAN
         /\ reset' \in BOOLEAN /\ raced' \in BOOLEAN
<1>1. HwTimeout \in Nat
  BY WatchdogsAssumption
<1>2. countdown' \in 0 .. HwTimeout
  BY <1>1 DEF WatchdogsTypeOK, Feed, WriteV, Close, boardVars
<1>3. /\ armed' \in BOOLEAN /\ released' \in BOOLEAN
      /\ reset' \in BOOLEAN /\ raced' \in BOOLEAN
  <2>1. /\ armed \in BOOLEAN /\ released \in BOOLEAN
        /\ reset \in BOOLEAN /\ raced \in BOOLEAN
    BY DEF WatchdogsTypeOK
  <2>2. CASE Feed
    BY <2>1, <2>2, Zenon DEF Feed, boardVars
  <2>3. CASE WriteV
    BY <2>1, <2>3, Zenon DEF WriteV, boardVars
  <2>4. CASE Close
    BY <2>1, <2>4, Zenon DEF Close
  <2> QED BY <2>2, <2>3, <2>4
<1> QED BY <1>2, <1>3

(* The types are kept by every step; of the age, while HangInv holds.        *)
LEMMA WatchdogTypes ==
  HangKept /\ [WatchdogsNext]_watchdogVars => WatchdogsTypeOK'
<1> SUFFICES ASSUME HangKept, [WatchdogsNext]_watchdogVars PROVE WatchdogsTypeOK'
  OBVIOUS
<1>0. WatchdogsTypeOK
  BY DEF HangKept
<1>a. HwTimeout \in Nat /\ SoftTimeout \in Nat /\ FeedInterval \in Nat /\ ShutdownTime \in Nat
  BY WatchdogsAssumption
<1> USE DEF WatchdogsTypeOK, guiVars, feederVars, softVars
<1>1. CASE FeederTests \/ FeederWakes
  BY <1>0, <1>1 DEF FeederTests, FeederWakes, boardVars
<1>2. CASE FeederWrites
  BY <1>0, <1>2, BoardTypes, FeederSleepsLess DEF FeederWrites
<1>3. CASE GuiHangs
  BY <1>0, <1>3 DEF GuiHangs, boardVars
<1>4. CASE slotFeedWatchdog
  BY <1>0, <1>4, <1>a DEF slotFeedWatchdog, boardVars
<1>5. CASE CheckerWakes
  BY <1>0, <1>5, <1>a DEF CheckerWakes, boardVars
<1>6. CASE TimeoutExit \/ crash_handler
  BY <1>0, <1>6 DEF TimeoutExit, crash_handler, EmergencyStarts, boardVars
<1>7. CASE EmergencyWritesV
  BY <1>0, <1>7, BoardTypes DEF EmergencyWritesV
<1>8. CASE EmergencyExits
  BY <1>0, <1>8, BoardTypes DEF EmergencyExits, Exit, Close
<1>9. CASE QuitLoop
  BY <1>0, <1>9 DEF QuitLoop, boardVars
<1>10. CASE StopClearsRunning
  BY <1>0, <1>10 DEF StopClearsRunning, boardVars
<1>11. CASE StopWritesV
  BY <1>0, <1>11, BoardTypes DEF StopWritesV
<1>12. CASE StopCloses
  BY <1>0, <1>12, BoardTypes DEF StopCloses, Close
<1>13. CASE StopJoins
  BY <1>0, <1>13 DEF StopJoins, boardVars
<1>14. CASE MainReturns
  BY <1>0, <1>14, BoardTypes DEF MainReturns, Exit, Close
<1>15. CASE Tick
  <2>1. age' \in 0 .. SoftTimeout + 2 * FeedInterval
    BY <1>15, TickHang
  <2>2. /\ feederWait' \in 0 .. HwTimeout /\ guiWait' \in 0 .. ShutdownTime
        /\ feedTimer' \in 0 .. FeedInterval /\ checkerWait' \in 0 .. FeedInterval
        /\ countdown' \in 0 .. HwTimeout
    BY <1>0, <1>a, <1>15, CountdownRange DEF Tick
  <2>3. reset' \in BOOLEAN
    BY <1>15, Zenon DEF Tick
  <2> QED BY <1>0, <1>15, <2>1, <2>2, <2>3 DEF Tick
<1>16. CASE UNCHANGED watchdogVars
  BY <1>0, <1>16 DEF watchdogVars, boardVars
<1> QED
  BY <1>1, <1>2, <1>3, <1>4, <1>5, <1>6, <1>7, <1>8, <1>9, <1>10, <1>11, <1>12, <1>13,
     <1>14, <1>15, <1>16 DEF WatchdogsNext, Due

(* The age's bound is kept by every step.                                    *)
LEMMA HangStep == HangKept /\ [WatchdogsNext]_watchdogVars => HangKept'
<1> SUFFICES ASSUME HangKept, [WatchdogsNext]_watchdogVars PROVE HangInv'
  BY WatchdogTypes DEF HangKept
<1>0. WatchdogsTypeOK /\ WatchdogsTypeOK' /\ HangInv
  BY WatchdogTypes DEF HangKept
<1>a. /\ SoftTimeout \in Nat /\ FeedInterval \in Nat
      /\ age \in Nat /\ checkerWait \in 0 .. FeedInterval
  BY <1>0, WatchdogsAssumption DEF WatchdogsTypeOK
<1>1. CASE slotFeedWatchdog
  BY <1>0, <1>1, <1>a DEF slotFeedWatchdog, HangInv
<1>2. CASE CheckerWakes
  BY <1>0, <1>2, <1>a DEF CheckerWakes, Expired, HangInv
<1>3. CASE EmergencyExits \/ MainReturns
  BY <1>3 DEF EmergencyExits, MainReturns, Exit, HangInv
<1>4. CASE Tick
  BY <1>4, TickHang
<1>5. CASE FeederTests \/ FeederWrites \/ FeederWakes \/ GuiHangs \/ TimeoutExit
             \/ crash_handler \/ EmergencyWritesV \/ QuitLoop \/ StopClearsRunning
             \/ StopWritesV \/ StopCloses \/ StopJoins \/ UNCHANGED watchdogVars
  <2>1. UNCHANGED <<process, softVars>>
    BY <1>5 DEF FeederTests, FeederWrites, FeederWakes, GuiHangs, TimeoutExit, crash_handler,
                EmergencyWritesV, QuitLoop, StopClearsRunning, StopWritesV, StopCloses,
                StopJoins, watchdogVars
  <2> QED BY <1>0, <2>1 DEF softVars, HangInv
<1> QED BY <1>1, <1>2, <1>3, <1>4, <1>5 DEF WatchdogsNext, Due

(* In every reachable state of a program that runs, the last feed is no older *)
(* than the timeout and one interval (watchdog.c:155-168).                   *)
THEOREM HangIsNoticed == WatchdogsSpec => []HangNoticed
<1>1. HangKept => HangNoticed
  BY DEF HangKept, HangInv, HangNoticed
<1>2. WatchdogsInit => HangKept
  BY WatchdogsInitInv
<1> QED BY <1>1, <1>2, HangStep, PTL DEF WatchdogsSpec

(* While the program runs and the descriptor is open, time goes on only under *)
(* a feeding thread that sleeps; so the countdown does not reach its end.    *)
LEMMA TickBoard == BoardKept /\ Tick => BoardInv'
<1> SUFFICES ASSUME BoardKept, Tick PROVE BoardInv'
  OBVIOUS
<1>0. WatchdogsTypeOK /\ BoardInv
  BY DEF BoardKept
<1>1. /\ hwRunning' = hwRunning /\ hwFd' = hwFd /\ gui' = gui /\ emergency' = emergency
      /\ process' = process /\ feeder' = feeder /\ released' = released /\ raced' = raced
      /\ armed' = armed
  BY DEF Tick
<1>2. feederWait \in 0 .. HwTimeout /\ countdown \in 0 .. HwTimeout
  BY <1>0 DEF WatchdogsTypeOK
<1>3. feederWait' \in 0 .. HwTimeout /\ feederWait' <= FeederSleeps
  BY <1>0, <1>2, FeederSleepsLess DEF Tick, Countdown, BoardInv
<1>4. hwFd = "open" => feeder = "sleep" /\ feederWait > 0
  BY <1>0, NothingDue DEF Tick, BoardInv
<1>5. hwFd = "open" => countdown >= HwTimeout - FeederSleeps + feederWait
  BY <1>0, <1>4 DEF BoardInv
<1>6. hwFd = "open" =>
        /\ countdown' >= HwTimeout - FeederSleeps + feederWait' /\ countdown # 0
  BY <1>2, <1>4, <1>5, FeederSleepsLess DEF Tick, Countdown
<1>7. reset' => raced'
  <2>1. reset' => reset \/ (armed /\ countdown = 0)
    BY Zenon DEF Tick
  <2>2. reset => raced
    BY <1>0, Zenon DEF BoardInv
  <2>3. hwFd # "open" /\ armed => raced
    BY <1>0 DEF BoardInv, WatchdogsTypeOK
  <2> QED BY <1>1, <1>6, <2>1, <2>2, <2>3
<1> QED BY <1>0, <1>1, <1>3, <1>4, <1>6, <1>7 DEF BoardInv

(* A write to a descriptor that is open starts the countdown again; a 'V' is  *)
(* forgotten only by the race.                                              *)
LEMMA WriteBoard ==
  ASSUME WatchdogsTypeOK, Feed \/ WriteV
  PROVE  /\ hwFd = "open" => countdown' = HwTimeout
         /\ hwFd # "open" => countdown' = countdown
         /\ armed' = armed /\ reset' = reset
         /\ released \/ raced => released' \/ raced'
         /\ raced => raced'
         /\ WriteV /\ hwFd = "open" => released'
BY Zenon DEF Feed, WriteV, boardVars

(* Every step keeps the invariant of the board's watchdog.                   *)
LEMMA BoardStep == BoardKept /\ [WatchdogsNext]_watchdogVars => BoardInv'
<1> SUFFICES ASSUME BoardKept, [WatchdogsNext]_watchdogVars PROVE BoardInv'
  OBVIOUS
<1>0. WatchdogsTypeOK /\ BoardInv
  BY DEF BoardKept
<1>a. feederWait \in 0 .. HwTimeout /\ countdown \in 0 .. HwTimeout
  BY <1>0 DEF WatchdogsTypeOK
<1> USE DEF BoardInv, guiVars, feederVars, softVars
<1>1. CASE FeederTests
  BY <1>0, <1>1 DEF FeederTests, boardVars
<1>2. CASE FeederWrites
  BY <1>0, <1>a, <1>2, WriteBoard, FeederSleepsLess DEF FeederWrites
<1>3. CASE FeederWakes
  BY <1>0, <1>a, <1>3, FeederSleepsLess DEF FeederWakes, boardVars
<1>4. CASE GuiHangs \/ slotFeedWatchdog \/ CheckerWakes
  BY <1>0, <1>4 DEF GuiHangs, slotFeedWatchdog, CheckerWakes, boardVars
<1>5. CASE TimeoutExit \/ crash_handler
  BY <1>0, <1>5 DEF TimeoutExit, crash_handler, EmergencyStarts, boardVars, WatchdogsTypeOK
<1>6. CASE EmergencyWritesV
  BY <1>0, <1>a, <1>6, WriteBoard, FeederSleepsLess DEF EmergencyWritesV
<1>7. CASE EmergencyExits
  BY <1>0, <1>7 DEF EmergencyExits, Exit, Close, WatchdogsTypeOK
<1>8. CASE QuitLoop \/ StopClearsRunning
  BY <1>0, <1>8 DEF QuitLoop, StopClearsRunning, boardVars
<1>9. CASE StopWritesV
  BY <1>0, <1>a, <1>9, WriteBoard, FeederSleepsLess DEF StopWritesV
<1>10. CASE StopCloses
  BY <1>0, <1>10 DEF StopCloses, Close, WatchdogsTypeOK
<1>11. CASE StopJoins
  BY <1>0, <1>11 DEF StopJoins, boardVars
<1>12. CASE MainReturns
  BY <1>0, <1>12 DEF MainReturns, Exit, Close, WatchdogsTypeOK
<1>13. CASE Tick
  BY <1>13, TickBoard
<1>14. CASE UNCHANGED watchdogVars
  BY <1>0, <1>14 DEF watchdogVars, boardVars
<1> QED
  BY <1>1, <1>2, <1>3, <1>4, <1>5, <1>6, <1>7, <1>8, <1>9, <1>10, <1>11, <1>12, <1>13,
     <1>14 DEF WatchdogsNext, Due

(* In every reachable state the board was reset only if a feed came between   *)
(* the 'V' and the close (hw_watchdog.c:15-19, 68-74, 97-100).                *)
THEOREM ResetIsTheRace == WatchdogsSpec => []ResetOnlyAfterRace
<1> DEFINE Kept == HangKept /\ BoardKept
<1>1. WatchdogsInit => Kept
  BY WatchdogsInitInv
<1>2. Kept /\ [WatchdogsNext]_watchdogVars => Kept'
  BY HangStep, BoardStep DEF HangKept, BoardKept
<1>3. Kept => ResetOnlyAfterRace
  BY DEF BoardKept, BoardInv, ResetOnlyAfterRace
<1> HIDE DEF Kept
<1> QED BY <1>1, <1>2, <1>3, PTL DEF WatchdogsSpec

-----------------------------------------------------------------------------
(* The PWM motor (PwmMotor), for every set of openers and every request.     *)

PwmInv == PwmMotorTypeOK /\ PulsesEnd

(* Where a thread can be while the pulses have an end although no timer runs. *)
EndsPulses == {"cancel", "run", "timer", "releaseOff"}

(* The driver is probed into a state that satisfies the invariant.           *)
LEMMA PwmInitInv == PwmMotorInit => PwmInv
BY PwmMotorAssumption DEF PwmMotorInit, PwmInv, PwmMotorTypeOK, PulsesEnd

(* Every step of a call, of release() and of the callback keeps the types.   *)
LEMMA PwmStepTypes == PwmMotorTypeOK /\ [PwmMotorNext]_pwmVars => PwmMotorTypeOK'
<1> SUFFICES ASSUME PwmMotorTypeOK, [PwmMotorNext]_pwmVars PROVE PwmMotorTypeOK'
  OBVIOUS
<1> USE DEF PwmMotorTypeOK, At
<1>1. CASE DoneDisables \/ DoneIdles
  BY <1>1 DEF DoneDisables, DoneIdles
<1>2. ASSUME NEW t \in Openers, stepper_open(t) \/ CallRelease(t) PROVE PwmMotorTypeOK'
  BY <1>2 DEF stepper_open, CallRelease
<1>3. ASSUME NEW t \in Openers, OpenerStep(t) PROVE PwmMotorTypeOK'
  <2>1. CASE LockAndTest(t) \/ CancelRun(t) \/ WriteZero(t)
    BY <2>1 DEF LockAndTest, CancelRun, WriteZero
  <2>2. CASE StartPwm(t) \/ SetRunning(t) \/ StartTimer(t)
    BY <2>2 DEF StartPwm, SetRunning, StartTimer
  <2>3. CASE ReleaseCancels(t) \/ ReleaseOff(t) \/ ReleaseIdle(t) \/ ReleaseDisables(t)
    BY <2>3 DEF ReleaseCancels, ReleaseOff, ReleaseIdle, ReleaseDisables
  <2> QED BY <1>3, <2>1, <2>2, <2>3 DEF OpenerStep
<1>4. ASSUME NEW t \in Openers, NEW n \in Runs, CallWrite(t, n) PROVE PwmMotorTypeOK'
  BY <1>4 DEF CallWrite
<1>5. CASE UNCHANGED pwmVars
  BY <1>5 DEF pwmVars
<1> QED BY <1>1, <1>2, <1>3, <1>4, <1>5 DEF PwmMotorNext

(* A step that neither turns the pulses on nor takes the timer away, of a     *)
(* thread that is not about to end them, leaves their end in sight.          *)
LEMMA EndStaysInSight ==
  ASSUME PwmInv, NEW t \in Openers,
         \A u \in Openers \ {t} : file'[u] = file[u],
         file[t] \in EndsPulses => file'[t] \in EndsPulses \/ doneTimer' = "enqueued",
         pwm' = pwm, doneTimer = "enqueued" => doneTimer' = "enqueued"
  PROVE  PulsesEnd'
BY DEF PwmInv, PulsesEnd, EndsPulses

(* Every step keeps the end of the pulses in sight.                          *)
LEMMA PwmStepPulses == PwmInv /\ [PwmMotorNext]_pwmVars => PulsesEnd'
<1> SUFFICES ASSUME PwmInv, [PwmMotorNext]_pwmVars PROVE PulsesEnd'
  OBVIOUS
<1>1. PwmMotorTypeOK /\ PwmMotorTypeOK'
  BY PwmStepTypes DEF PwmInv
<1>2. CASE DoneDisables
  BY <1>2 DEF DoneDisables, PulsesEnd
<1>3. CASE DoneIdles \/ UNCHANGED pwmVars
  BY <1>3 DEF DoneIdles, pwmVars, PwmInv, PulsesEnd
<1>4. ASSUME NEW t \in Openers,
             \/ stepper_open(t) \/ CallRelease(t) \/ LockAndTest(t) \/ WriteZero(t)
             \/ SetRunning(t) \/ StartTimer(t) \/ ReleaseIdle(t) \/ ReleaseDisables(t)
      PROVE  PulsesEnd'
  <2>1. /\ \A u \in Openers \ {t} : file'[u] = file[u]
        /\ pwm' = pwm /\ (doneTimer = "enqueued" => doneTimer' = "enqueued")
    BY <1>1, <1>4 DEF PwmMotorTypeOK, At, stepper_open, CallRelease, LockAndTest, WriteZero,
                      SetRunning, StartTimer, ReleaseIdle, ReleaseDisables
  <2>2. file[t] \in EndsPulses => file'[t] \in EndsPulses \/ doneTimer' = "enqueued"
    BY <1>1, <1>4 DEF PwmMotorTypeOK, At, EndsPulses, stepper_open, CallRelease, LockAndTest,
                      WriteZero, SetRunning, StartTimer, ReleaseIdle, ReleaseDisables
  <2> QED BY <2>1, <2>2, EndStaysInSight
<1>5. ASSUME NEW t \in Openers, CancelRun(t) \/ ReleaseOff(t) PROVE PulsesEnd'
  BY <1>5 DEF CancelRun, ReleaseOff, PulsesEnd
<1>6. ASSUME NEW t \in Openers, StartPwm(t) PROVE PulsesEnd'
  <2>1. file'[t] = "run"
    BY <1>1, <1>6 DEF PwmMotorTypeOK, At, StartPwm
  <2> QED BY <2>1 DEF PulsesEnd
<1>7. ASSUME NEW t \in Openers, ReleaseCancels(t) PROVE PulsesEnd'
  <2>1. file'[t] = "releaseOff"
    BY <1>1, <1>7 DEF PwmMotorTypeOK, At, ReleaseCancels
  <2> QED BY <2>1 DEF PulsesEnd
<1>8. ASSUME NEW t \in Openers, NEW n \in Runs, CallWrite(t, n) PROVE PulsesEnd'
  <2>1. /\ \A u \in Openers \ {t} : file'[u] = file[u]
        /\ pwm' = pwm /\ doneTimer' = doneTimer /\ file[t] \notin EndsPulses
    BY <1>1, <1>8 DEF PwmMotorTypeOK, At, CallWrite, EndsPulses
  <2> QED BY <2>1, EndStaysInSight
<1> QED BY <1>2, <1>3, <1>4, <1>5, <1>6, <1>7, <1>8 DEF PwmMotorNext, OpenerStep

(* In every reachable state pulses have a timer that ends them, or a thread   *)
(* in the middle of a call that does (motor_drv_pwm.c:76-83, 109-113).        *)
THEOREM PulsesAlwaysEnd == PwmMotorSpec => []PulsesEnd
<1>1. PwmInv /\ [PwmMotorNext]_pwmVars => PwmInv'
  BY PwmStepTypes, PwmStepPulses DEF PwmInv
<1>2. PwmInv => PulsesEnd
  BY DEF PwmInv
<1> QED BY PwmInitInv, <1>1, <1>2, PTL DEF PwmMotorSpec

-----------------------------------------------------------------------------
(* The light sensor (LightSensor), for every set of values callers ask for.  *)

LightInv == LightSensorTypeOK /\ ScaleIsTheChips

(* The two commands together carry the whole value (bh1750_drv.c:79-84).     *)
LEMMA PartsMakeValue ==
  ASSUME NEW value \in 0 .. 255
  PROVE  /\ High(value) * 32 + Low(value) = value
         /\ High(value) \in 0 .. 7 /\ Low(value) \in 0 .. 31
BY DEF High, Low

(* Whatever arrives of a new value, the chip's register keeps its eight bits; *)
(* it is the driver's value when both commands arrive.                      *)
LEMMA RegisterSent ==
  ASSUME NEW value \in 0 .. 255, NEW high \in BOOLEAN, NEW low \in BOOLEAN,
         chipMtreg \in 0 .. 255, bh1750_set_mtreg(value, high, low)
  PROVE  /\ mtreg' = value /\ chipMtreg' \in 0 .. 255
         /\ high /\ low => chipMtreg' = value
<1> DEFINE h == IF high THEN High(value) ELSE High(chipMtreg)
           l == IF low THEN Low(value) ELSE Low(chipMtreg)
<1>1. h \in 0 .. 7 /\ l \in 0 .. 31
  BY PartsMakeValue
<1>2. chipMtreg' = h * 32 + l /\ mtreg' = value
  BY DEF bh1750_set_mtreg
<1>3. high /\ low => h * 32 + l = value
  BY PartsMakeValue
<1> HIDE DEF h, l
<1> QED BY <1>1, <1>2, <1>3

(* The sensor is probed into a state that satisfies the invariant.           *)
LEMMA LightInitInv == LightSensorInit => LightInv
<1> SUFFICES ASSUME LightSensorInit PROVE LightInv
  OBVIOUS
<1>1. mtreg \in 0 .. 255 /\ chipMtreg = mtreg /\ resultOf = mtreg
  BY LightSensorAssumption DEF LightSensorInit
<1>2. current_mode \in Modes /\ chipMode \in Modes
  BY DEF LightSensorInit, Modes
<1>3. {cmdFailed, scaleFits} \subseteq BOOLEAN
  BY Zenon DEF LightSensorInit
<1> QED BY <1>1, <1>2, <1>3 DEF LightInv, LightSensorTypeOK, ScaleIsTheChips

(* A mode command keeps the types of what it sets.                          *)
LEMMA ModeTypes ==
  ASSUME LightSensorTypeOK, NEW mode \in Modes, NEW arrives \in BOOLEAN,
         chipMtreg' \in 0 .. 255, ModeCommand(mode, arrives)
  PROVE  chipMode' \in Modes /\ resultOf' \in 0 .. 255
BY DEF LightSensorTypeOK, ModeCommand

(* A call that sends a register, from the driver's value on.                 *)
LEMMA SentInv ==
  ASSUME LightInv, NEW value \in 0 .. 255,
         \E high, low, mode \in BOOLEAN :
           /\ bh1750_set_mtreg(value, high, low) /\ ModeCommand(current_mode, mode)
           /\ cmdFailed' = ~(high /\ low /\ mode),
         UNCHANGED <<current_mode, scaleFits>>
  PROVE  LightInv'
<1>1. PICK high, low, mode \in BOOLEAN :
        /\ bh1750_set_mtreg(value, high, low) /\ ModeCommand(current_mode, mode)
        /\ cmdFailed' = ~(high /\ low /\ mode)
  OBVIOUS
<1>2. LightSensorTypeOK
  BY DEF LightInv
<1>3. /\ mtreg' = value /\ chipMtreg' \in 0 .. 255
      /\ high /\ low => chipMtreg' = value
  BY <1>1, <1>2, RegisterSent DEF LightSensorTypeOK
<1>4. chipMode' \in Modes /\ resultOf' \in 0 .. 255
  BY <1>1, <1>2, <1>3, ModeTypes DEF LightSensorTypeOK
<1>5. cmdFailed' \in BOOLEAN /\ (~cmdFailed' => high /\ low)
  BY <1>1, Zenon
<1>6. LightSensorTypeOK'
  BY <1>2, <1>3, <1>4, <1>5 DEF LightSensorTypeOK
<1>7. ScaleIsTheChips'
  BY <1>3, <1>5 DEF ScaleIsTheChips
<1> QED BY <1>6, <1>7 DEF LightInv

(* Every call, and the chip's own measuring, keeps it.                       *)
LEMMA LightStepInv == LightInv /\ [LightSensorNext]_lightVars => LightInv'
<1> SUFFICES ASSUME LightInv, [LightSensorNext]_lightVars PROVE LightInv'
  OBVIOUS
<1>1. LightSensorTypeOK /\ ScaleIsTheChips
  BY DEF LightInv
<1>2. CASE bh1750_chr_open
  BY <1>1, <1>2, SentInv DEF bh1750_chr_open, LightSensorTypeOK
<1>3. ASSUME NEW value \in Registers, SetMtreg(value) PROVE LightInv'
  <2>1. value % 256 \in 0 .. 255
    BY <1>3 DEF SetMtreg
  <2> QED BY <1>3, <2>1, SentInv DEF SetMtreg
<1>4. CASE MeasurementEnds
  BY <1>1, <1>4 DEF MeasurementEnds, LightInv, LightSensorTypeOK, ScaleIsTheChips
<1>5. CASE ReadLux
  <2>1. chipMode' \in Modes /\ resultOf' \in 0 .. 255 /\ scaleFits' \in BOOLEAN
    BY <1>1, <1>5 DEF ReadLux, LightSensorTypeOK, Modes
  <2> QED BY <1>1, <1>5, <2>1 DEF ReadLux, LightInv, LightSensorTypeOK, ScaleIsTheChips
<1>6. ASSUME NEW mode \in Modes, SetMode(mode) PROVE LightInv'
  <2>1. PICK arrives \in BOOLEAN :
          /\ current_mode' = IF arrives THEN mode ELSE current_mode
          /\ UNCHANGED <<mtreg, chipMtreg, cmdFailed, scaleFits>>
          /\ ModeCommand(mode, arrives)
    BY <1>6 DEF SetMode
  <2>2. chipMode' \in Modes /\ resultOf' \in 0 .. 255
    BY <1>1, <2>1, ModeTypes DEF LightSensorTypeOK
  <2> QED BY <1>1, <2>1, <2>2 DEF LightInv, LightSensorTypeOK, ScaleIsTheChips
<1>7. CASE UNCHANGED lightVars
  BY <1>1, <1>7 DEF lightVars, LightInv, LightSensorTypeOK, ScaleIsTheChips
<1> QED BY <1>2, <1>3, <1>4, <1>5, <1>6, <1>7 DEF LightSensorNext

(* In every reachable state the driver scales with the chip's register, unless *)
(* a command of the last change was lost (bh1750_drv.c:79-84, 106, 258).      *)
THEOREM ScaleAlwaysTheChips == LightSensorSpec => []ScaleIsTheChips
<1>1. LightInv => ScaleIsTheChips
  BY DEF LightInv
<1> QED BY LightInitInv, LightStepInv, <1>1, PTL DEF LightSensorSpec

-----------------------------------------------------------------------------
(* The drivers' probe() and remove() (DriverLifecycle), for every choice of   *)
(* the seven drivers.                                                       *)

(* What stands in a list of up to eight.                                     *)
LEMMA InShortList ==
  ASSUME NEW a, NEW b, NEW c, NEW d
  PROVE  /\ Listed(<<a>>, a)
         /\ Listed(<<a, b>>, a) /\ Listed(<<a, b>>, b)
         /\ Listed(<<a, b, c>>, a) /\ Listed(<<a, b, c>>, b) /\ Listed(<<a, b, c>>, c)
         /\ Listed(<<a, b, c, d>>, a) /\ Listed(<<a, b, c, d>>, b)
         /\ Listed(<<a, b, c, d>>, c) /\ Listed(<<a, b, c, d>>, d)
BY DEF Listed

(* A list put behind another takes nothing from it and keeps its own.        *)
LEMMA ListedConcat ==
  ASSUME NEW S, NEW s \in Seq(S), NEW t \in Seq(S), NEW x, Listed(s, x) \/ Listed(t, x)
  PROVE  Listed(s \o t, x)
<1>1. CASE Listed(s, x)
  BY <1>1 DEF Listed
<1>2. CASE Listed(t, x)
  <2>1. PICK i \in DOMAIN t : t[i] = x
    BY <1>2 DEF Listed
  <2>2. Len(s) + i \in DOMAIN (s \o t) /\ (s \o t)[Len(s) + i] = x
    BY <2>1
  <2> QED BY <2>2 DEF Listed
<1> QED BY <1>1, <1>2

(* The chain of gotos gives back what stands before the failed step.         *)
LEMMA NodeUnwindCovers ==
  /\ NodeUnwind("region") \in Seq(Items)
  /\ NodeUnwind("cdev") \in Seq(Items) /\ Listed(NodeUnwind("cdev"), "region")
  /\ NodeUnwind("class") \in Seq(Items)
  /\ \A r \in {"region", "cdev"} : Listed(NodeUnwind("class"), r)
  /\ NodeUnwind("node") \in Seq(Items)
  /\ \A r \in {"region", "cdev", "class"} : Listed(NodeUnwind("node"), r)
  /\ NodeUnwind("irq") \in Seq(Items)
  /\ \A r \in {"region", "cdev", "class", "node"} : Listed(NodeUnwind("irq"), r)
<1>1. /\ NodeUnwind("region") = <<>> /\ NodeUnwind("cdev") = <<"region">>
      /\ NodeUnwind("class") = <<"cdev", "region">>
      /\ NodeUnwind("node") = <<"class", "cdev", "region">>
      /\ NodeUnwind("irq") = <<"node", "class", "cdev", "region">>
  BY DEF NodeUnwind
<1>2. /\ <<>> \in Seq(Items) /\ <<"region">> \in Seq(Items)
      /\ <<"cdev", "region">> \in Seq(Items) /\ <<"class", "cdev", "region">> \in Seq(Items)
      /\ <<"node", "class", "cdev", "region">> \in Seq(Items)
  BY DEF Items
<1>3. /\ Listed(<<"region">>, "region")
      /\ \A r \in {"region", "cdev"} : Listed(<<"cdev", "region">>, r)
      /\ \A r \in {"region", "cdev", "class"} : Listed(<<"class", "cdev", "region">>, r)
      /\ \A r \in {"region", "cdev", "class", "node"} :
            Listed(<<"node", "class", "cdev", "region">>, r)
  BY InShortList
<1> QED BY <1>1, <1>2, <1>3

(* So does dma_spi's, whose channels and buffers stand before the node.      *)
LEMMA DmaUnwindCovers ==
  /\ DmaUnwind("txChan") \in Seq(Items)
  /\ DmaUnwind("rxChan") \in Seq(Items) /\ Listed(DmaUnwind("rxChan"), "txChan")
  /\ DmaUnwind("txBuf") \in Seq(Items)
  /\ \A r \in {"txChan", "rxChan"} : Listed(DmaUnwind("txBuf"), r)
  /\ DmaUnwind("rxBuf") \in Seq(Items)
  /\ \A r \in {"txChan", "rxChan", "txBuf"} : Listed(DmaUnwind("rxBuf"), r)
  /\ \A q \in {"region", "cdev", "class", "node"} :
       /\ DmaUnwind(q) \in Seq(Items)
       /\ \A r \in {"txChan", "rxChan", "txBuf", "rxBuf"} : Listed(DmaUnwind(q), r)
       /\ \A r : Listed(NodeUnwind(q), r) => Listed(DmaUnwind(q), r)
<1>1. /\ DmaUnwind("txChan") = <<>> /\ DmaUnwind("rxChan") = <<"txChan">>
      /\ DmaUnwind("txBuf") = <<"rxChan", "txChan">>
      /\ DmaUnwind("rxBuf") = <<"txBuf", "rxChan", "txChan">>
  BY DEF DmaUnwind
<1>2. /\ <<>> \in Seq(Items) /\ <<"txChan">> \in Seq(Items)
      /\ <<"rxChan", "txChan">> \in Seq(Items) /\ <<"txBuf", "rxChan", "txChan">> \in Seq(Items)
  BY DEF Items
<1>3. /\ Listed(<<"txChan">>, "txChan")
      /\ \A r \in {"txChan", "rxChan"} : Listed(<<"rxChan", "txChan">>, r)
      /\ \A r \in {"txChan", "rxChan", "txBuf"} : Listed(<<"txBuf", "rxChan", "txChan">>, r)
  BY InShortList
<1>4. ASSUME NEW q \in {"region", "cdev", "class", "node"}
      PROVE  /\ DmaUnwind(q) \in Seq(Items)
             /\ \A r \in {"txChan", "rxChan", "txBuf", "rxBuf"} : Listed(DmaUnwind(q), r)
             /\ \A r : Listed(NodeUnwind(q), r) => Listed(DmaUnwind(q), r)
  <2>1. PICK rest : rest = <<"rxBuf", "txBuf", "rxChan", "txChan">>
    OBVIOUS
  <2>2. DmaUnwind(q) = NodeUnwind(q) \o rest
    BY <2>1 DEF DmaUnwind
  <2>3. rest \in Seq(Items)
    BY <2>1 DEF Items
  <2>4. \A r \in {"txChan", "rxChan", "txBuf", "rxBuf"} : Listed(rest, r)
    BY <2>1, InShortList
  <2>5. NodeUnwind(q) \in Seq(Items)
    BY NodeUnwindCovers
  <2> QED BY <2>2, <2>3, <2>4, <2>5, ListedConcat
<1> QED BY <1>1, <1>2, <1>3, <1>4

(* Whatever step of probe() fails, what was taken before it is on the list    *)
(* of its error path.                                                       *)
LEMMA UnwindCovers ==
  ASSUME NEW d, NEW k \in 1 .. Len(Acquires(d))
  PROVE  /\ Unwind(d, Acquires(d)[k]) \in Seq(Items)
         /\ \A i \in 1 .. (k - 1) : Listed(Unwind(d, Acquires(d)[k]), Acquires(d)[i])
<1>1. CASE d = "dma_spi"
  <2>1. /\ Len(Acquires(d)) = 8
        /\ Acquires(d)[1] = "txChan" /\ Acquires(d)[2] = "rxChan"
        /\ Acquires(d)[3] = "txBuf" /\ Acquires(d)[4] = "rxBuf"
        /\ Acquires(d)[5] = "region" /\ Acquires(d)[6] = "cdev"
        /\ Acquires(d)[7] = "class" /\ Acquires(d)[8] = "node"
    BY <1>1 DEF Acquires
  <2>2. Unwind(d, Acquires(d)[k]) = DmaUnwind(Acquires(d)[k])
    BY <1>1 DEF Unwind
  <2>3. k \in 1 .. 8
    BY <2>1
  <2>4. DmaUnwind(Acquires(d)[k]) \in Seq(Items)
    BY <2>1, <2>3, DmaUnwindCovers
  <2>5. ASSUME NEW i \in 1 .. (k - 1) PROVE Listed(DmaUnwind(Acquires(d)[k]), Acquires(d)[i])
    <3>1. CASE k \in 1 .. 4
      BY <2>1, <3>1, DmaUnwindCovers
    <3>2. CASE k \in 5 .. 8 /\ i \in 1 .. 4
      BY <2>1, <3>2, DmaUnwindCovers
    <3>3. CASE k \in 5 .. 8 /\ i \in 5 .. 8
      <4>1. Listed(NodeUnwind(Acquires(d)[k]), Acquires(d)[i])
        <5>1. CASE k = 6
          BY <2>1, <3>3, <5>1, NodeUnwindCovers
        <5>2. CASE k = 7
          BY <2>1, <3>3, <5>2, NodeUnwindCovers
        <5>3. CASE k = 8
          BY <2>1, <3>3, <5>3, NodeUnwindCovers
        <5> QED BY <3>3, <5>1, <5>2, <5>3
      <4>2. Acquires(d)[k] \in {"region", "cdev", "class", "node"}
        BY <2>1, <3>3
      <4> QED BY <4>1, <4>2, DmaUnwindCovers
    <3> QED BY <2>3, <3>1, <3>2, <3>3
  <2> QED BY <2>2, <2>4, <2>5
<1>2. CASE d # "dma_spi"
  <2>1. /\ (Len(Acquires(d)) = 4 \/ Len(Acquires(d)) = 5)
        /\ Acquires(d)[1] = "region" /\ Acquires(d)[2] = "cdev"
        /\ Acquires(d)[3] = "class" /\ Acquires(d)[4] = "node"
        /\ Len(Acquires(d)) = 5 => Acquires(d)[5] = "irq"
    BY <1>2 DEF Acquires
  <2>2. Unwind(d, Acquires(d)[k]) = NodeUnwind(Acquires(d)[k])
    BY <1>2 DEF Unwind
  <2>3. k \in 1 .. 5 /\ (k = 5 => Len(Acquires(d)) = 5)
    <3>1. PICK n : n = Len(Acquires(d))
      OBVIOUS
    <3>2. n = 4 \/ n = 5
      BY <2>1, <3>1
    <3>3. k \in 1 .. n
      BY <3>1
    <3> QED BY <3>1, <3>2, <3>3
  <2>4. /\ NodeUnwind(Acquires(d)[k]) \in Seq(Items)
        /\ \A i \in 1 .. (k - 1) : Listed(NodeUnwind(Acquires(d)[k]), Acquires(d)[i])
    <3>1. CASE k = 1
      BY <2>1, <3>1, NodeUnwindCovers
    <3>2. CASE k = 2
      BY <2>1, <3>2, NodeUnwindCovers
    <3>3. CASE k = 3
      BY <2>1, <3>3, NodeUnwindCovers
    <3>4. CASE k = 4
      BY <2>1, <3>4, NodeUnwindCovers
    <3>5. CASE k = 5
      BY <2>1, <2>3, <3>5, NodeUnwindCovers
    <3> QED BY <2>3, <3>1, <3>2, <3>3, <3>4, <3>5
  <2> QED BY <2>2, <2>4
<1> QED BY <1>1, <1>2

(* remove() gives back all that probe() takes, and stops what may run: the    *)
(* timer before the work it queues.                                         *)
LEMMA RemovesAll ==
  ASSUME NEW d
  PROVE  /\ Removes(d) \in Seq(Items)
         /\ \A x : Listed(Acquires(d), x) => Listed(Removes(d), x)
         /\ d \in {"rc522", "motor", "motor_pwm"} => Listed(Removes(d), "timer")
         /\ d \in {"rc522", "motor"} => Listed(Removes(d), "work")
         /\ d \in {"motor", "motor_pwm"} => Listed(Removes(d), "output")
         /\ TimerBeforeWork(Removes(d))
<1>1. \A x : Listed(Acquires(d), x) =>
        \/ x \in {"region", "cdev", "class", "node"}
        \/ d = "rc522" /\ x = "irq"
        \/ d = "dma_spi" /\ x \in {"txChan", "rxChan", "txBuf", "rxBuf"}
  BY DEF Acquires, Listed
<1>2. Removes(d) \in Seq(Items)
  <2>1. CASE d = "rc522"
    BY <2>1 DEF Removes, Items
  <2>2. CASE d = "motor"
    BY <2>2 DEF Removes, Items
  <2>3. CASE d = "motor_pwm"
    BY <2>3 DEF Removes, Items
  <2>4. CASE d = "dma_spi"
    BY <2>4 DEF Removes, Items
  <2>5. CASE d = "bh1750"
    BY <2>5 DEF Removes, Items
  <2>6. CASE d \notin {"rc522", "motor", "motor_pwm", "dma_spi", "bh1750"}
    <3>1. Removes(d) = <<"output", "node", "class", "cdev", "region">>
      BY <2>6, Zenon DEF Removes
    <3> QED BY <3>1 DEF Items
  <2> QED BY <2>1, <2>2, <2>3, <2>4, <2>5, <2>6
<1>3. TimerBeforeWork(Removes(d))
  BY DEF Removes, TimerBeforeWork
<1>4. CASE d = "rc522"
  <2>1. \A x \in {"irq", "timer", "work", "node", "class", "cdev", "region"} :
          Listed(Removes(d), x)
    BY <1>4 DEF Removes, Listed
  <2> QED BY <1>1, <1>2, <1>3, <1>4, <2>1
<1>5. CASE d = "motor"
  <2>1. \A x \in {"timer", "work", "output", "node", "class", "cdev", "region"} :
          Listed(Removes(d), x)
    BY <1>5 DEF Removes, Listed
  <2> QED BY <1>1, <1>2, <1>3, <1>5, <2>1
<1>6. CASE d = "motor_pwm"
  <2>1. \A x \in {"timer", "output", "node", "class", "cdev", "region"} :
          Listed(Removes(d), x)
    BY <1>6 DEF Removes, Listed
  <2> QED BY <1>1, <1>2, <1>3, <1>6, <2>1
<1>7. CASE d = "dma_spi"
  <2>1. \A x \in {"node", "class", "cdev", "region", "rxBuf", "txBuf", "rxChan", "txChan"} :
          Listed(Removes(d), x)
    BY <1>7 DEF Removes, Listed
  <2> QED BY <1>1, <1>2, <1>3, <1>7, <2>1
<1>8. CASE d \notin {"rc522", "motor", "motor_pwm", "dma_spi"}
  <2>1. \A x \in {"node", "class", "cdev", "region"} : Listed(Removes(d), x)
    BY <1>8 DEF Removes, Listed
  <2> QED BY <1>1, <1>2, <1>3, <1>8, <2>1
<1> QED BY <1>4, <1>5, <1>6, <1>7, <1>8

LifecycleKept == LifecycleTypeOK /\ LifecycleInv

(* A driver that is not probed yet has nothing.                              *)
LEMMA LifecycleInitInv == LifecycleInit => LifecycleKept
<1> SUFFICES ASSUME LifecycleInit PROVE LifecycleKept
  OBVIOUS
<1>1. LifecycleTypeOK
  BY DEF LifecycleInit, LifecycleTypeOK
<1>2. 0 < Len(Acquires(driver))
  BY DEF Acquires
<1>3. LifecycleInv
  BY <1>2 DEF LifecycleInit, LifecycleInv, UnloadedIsClean
<1> QED BY <1>1, <1>3 DEF LifecycleKept

(* What stays on a list when its head is done.                               *)
LEMMA TailLists ==
  ASSUME NEW list \in Seq(Items), list # <<>>
  PROVE  /\ Tail(list) \in Seq(Items)
         /\ \A x : Listed(list, x) /\ x # Head(list) => Listed(Tail(list), x)
         /\ TimerBeforeWork(list) =>
              /\ TimerBeforeWork(Tail(list))
              /\ Head(list) = "work" => ~Listed(Tail(list), "timer")
         /\ \A x : Listed(Tail(list), x) => Listed(list, x)
<1>1. Tail(list) \in Seq(Items) /\ Len(Tail(list)) = Len(list) - 1
  OBVIOUS
<1>2. \A i \in 1 .. Len(list) - 1 : Tail(list)[i] = list[i + 1]
  OBVIOUS
<1>3. ASSUME NEW x, Listed(list, x), x # Head(list) PROVE Listed(Tail(list), x)
  <2>1. PICK i \in DOMAIN list : list[i] = x
    BY <1>3 DEF Listed
  <2>2. i # 1
    BY <1>3, <2>1
  <2>3. i - 1 \in DOMAIN Tail(list) /\ Tail(list)[i - 1] = x
    BY <1>1, <1>2, <2>1, <2>2
  <2> QED BY <2>3 DEF Listed
<1>4. ASSUME TimerBeforeWork(list) PROVE TimerBeforeWork(Tail(list))
  BY <1>1, <1>2, <1>4 DEF TimerBeforeWork
<1>5. ASSUME NEW x, Listed(Tail(list), x) PROVE Listed(list, x)
  BY <1>1, <1>2, <1>5 DEF Listed
<1>6. ASSUME TimerBeforeWork(list), Head(list) = "work", Listed(Tail(list), "timer")
      PROVE  FALSE
  <2>1. PICK i \in DOMAIN Tail(list) : Tail(list)[i] = "timer"
    BY <1>6 DEF Listed
  <2>2. i + 1 \in DOMAIN list /\ list[i + 1] = "timer" /\ 1 \in DOMAIN list /\ list[1] = "work"
    BY <1>1, <1>2, <1>6, <2>1
  <2>3. i + 1 < 1 /\ i \in Nat
    BY <1>6, <2>1, <2>2 DEF TimerBeforeWork
  <2> QED BY <2>3
<1> QED BY <1>1, <1>3, <1>4, <1>5, <1>6

(* Taking the next resource; rc522's poll timer starts with the last.        *)
LEMMA AcquireInv == LifecycleKept /\ Acquire => LifecycleKept'
<1> SUFFICES ASSUME LifecycleKept, Acquire PROVE LifecycleKept'
  OBVIOUS
<1>1. LifecycleTypeOK /\ LifecycleInv
  BY DEF LifecycleKept
<1>2. /\ taken' = taken + 1 /\ taken \in Nat
      /\ held' = held \cup {Acquires(driver)[taken + 1]} /\ driver' = driver
      /\ \A r \in held : \E i \in 1 .. taken : r = Acquires(driver)[i]
  BY <1>1 DEF Acquire, Wanted, LifecycleTypeOK, LifecycleInv
<1>3. taken < Len(Acquires(driver))
  BY <1>1 DEF Acquire, LifecycleInv
<1>4. \A r \in held' : \E i \in 1 .. taken' : r = Acquires(driver)[i]
  BY <1>2
<1>5. devWork' = "none" /\ output' = "off" /\ devTimer = "off"
  BY <1>1 DEF Acquire, LifecycleInv
<1>6. LifecycleTypeOK'
  BY <1>1, <1>2, <1>5 DEF Acquire, LifecycleTypeOK
<1>7. CASE taken' = Len(Acquires(driver))
  <2>1. \A r \in held' : Listed(Acquires(driver), r)
    <3>1. DOMAIN Acquires(driver) = 1 .. Len(Acquires(driver))
      <4>1. CASE driver = "rc522"
        BY <4>1 DEF Acquires
      <4>2. CASE driver = "dma_spi"
        BY <4>2 DEF Acquires
      <4>3. CASE driver \notin {"rc522", "dma_spi"}
        <5>1. Acquires(driver) = <<"region", "cdev", "class", "node">>
          BY <4>3, Zenon DEF Acquires
        <5> QED BY <5>1
      <4> QED BY <4>1, <4>2, <4>3
    <3> QED BY <1>4, <1>7, <3>1 DEF Listed
  <2>2. phase' = "up" /\ devTimer' = (IF driver = "rc522" THEN "enqueued" ELSE "off")
    BY <1>7 DEF Acquire
  <2> QED BY <1>2, <1>5, <1>6, <2>1, <2>2 DEF LifecycleInv, LifecycleKept, UnloadedIsClean
<1>8. CASE taken' # Len(Acquires(driver))
  <2>1. phase' = "probe" /\ devTimer' = "off"
    BY <1>5, <1>8 DEF Acquire
  <2>2. taken' < Len(Acquires(driver))
    <3>1. Len(Acquires(driver)) \in Nat
      BY DEF Acquires
    <3> QED BY <1>2, <1>3, <1>8, <3>1
  <2> QED BY <1>2, <1>4, <1>5, <1>6, <2>1, <2>2
          DEF LifecycleInv, LifecycleKept, UnloadedIsClean
<1> QED BY <1>7, <1>8

(* A step of probe() that fails.                                             *)
LEMMA FailsInv == LifecycleKept /\ AcquireFails => LifecycleKept'
<1> SUFFICES ASSUME LifecycleKept, AcquireFails PROVE LifecycleKept'
  OBVIOUS
<1>1. LifecycleTypeOK /\ LifecycleInv
  BY DEF LifecycleKept
<1>2. /\ taken \in Nat /\ taken < Len(Acquires(driver))
      /\ \A r \in held : \E i \in 1 .. taken : r = Acquires(driver)[i]
      /\ devTimer = "off" /\ devWork = "none" /\ output = "off"
  BY <1>1 DEF AcquireFails, LifecycleTypeOK, LifecycleInv
<1>3. Len(Acquires(driver)) \in Nat
  BY DEF Acquires
<1>4. taken + 1 \in 1 .. Len(Acquires(driver)) /\ (taken + 1) - 1 = taken
  BY <1>2, <1>3
<1>5. /\ Unwind(driver, Wanted) \in Seq(Items)
      /\ \A i \in 1 .. taken : Listed(Unwind(driver, Wanted), Acquires(driver)[i])
  BY <1>4, UnwindCovers DEF Wanted
<1>6. LifecycleTypeOK'
  BY <1>1, <1>5 DEF AcquireFails, LifecycleTypeOK
<1>7. \A r \in held' : Pending(r)'
  BY <1>2, <1>5 DEF AcquireFails, Pending
<1> QED BY <1>1, <1>2, <1>6, <1>7
        DEF AcquireFails, LifecycleInv, LifecycleKept, UnloadedIsClean

(* remove() begins, whatever the driver is doing.                            *)
LEMMA RemoveInv == LifecycleKept /\ Remove => LifecycleKept'
<1> SUFFICES ASSUME LifecycleKept, Remove PROVE LifecycleKept'
  OBVIOUS
<1>1. LifecycleTypeOK /\ LifecycleInv
  BY DEF LifecycleKept
<1>2. /\ \A r \in held : Listed(Acquires(driver), r)
      /\ devTimer # "off" => driver \in {"rc522", "motor", "motor_pwm"}
      /\ devWork # "none" => driver \in {"rc522", "motor"}
  BY <1>1 DEF Remove, LifecycleInv
<1>3. LifecycleTypeOK'
  BY <1>1, RemovesAll DEF Remove, LifecycleTypeOK
<1>4. releasing' = Removes(driver) /\ phase' = "remove"
      /\ UNCHANGED <<driver, held, devTimer, devWork, output>>
  BY DEF Remove
<1>5. /\ \A r \in held' : Pending(r)'
      /\ devTimer' # "off" => Pending("timer")'
      /\ driver' \in {"rc522", "motor"} => Pending("work")'
      /\ driver' \in {"motor", "motor_pwm"} => Pending("output")'
      /\ TimerBeforeWork(releasing')
  BY <1>2, <1>4, RemovesAll DEF Pending
<1> QED BY <1>2, <1>3, <1>4, <1>5 DEF LifecycleInv, LifecycleKept, UnloadedIsClean

(* A step of the error path or of remove(); once the timer is stopped, and    *)
(* not before, the work is, so nothing queues it again.                      *)
LEMMA ReleaseInv == LifecycleKept /\ Release => LifecycleKept'
<1> SUFFICES ASSUME LifecycleKept, Release PROVE LifecycleKept'
  OBVIOUS
<1>1. LifecycleTypeOK /\ LifecycleInv
  BY DEF LifecycleKept
<1>2. releasing \in Seq(Items) /\ releasing # <<>> /\ releasing' = Tail(releasing)
  BY <1>1 DEF Release, LifecycleTypeOK
<1>3. LifecycleTypeOK'
  BY <1>1, <1>2, TailLists DEF Release, LifecycleTypeOK
<1>4. /\ \A x : Pending(x) /\ x # Head(releasing) => Pending(x)'
      /\ \A x : Pending(x)' => Pending(x)
  BY <1>2, TailLists DEF Pending
<1>5. \A r \in held' : Pending(r)'
  BY <1>1, <1>4 DEF Release, LifecycleInv
<1>6. /\ devTimer' = IF Head(releasing) = "timer" THEN "off" ELSE devTimer
      /\ devWork' = IF Head(releasing) = "work" THEN "none" ELSE devWork
      /\ output' = IF Head(releasing) = "output" THEN "off" ELSE output
      /\ phase' = phase /\ driver' = driver
  BY DEF Release
<1>7. CASE phase = "unwind"
  BY <1>1, <1>3, <1>5, <1>6, <1>7 DEF LifecycleInv, LifecycleKept, UnloadedIsClean
<1>8. CASE phase = "remove"
  <2>1. /\ TimerBeforeWork(releasing')
        /\ Head(releasing) = "work" => ~Pending("timer")'
    BY <1>1, <1>2, <1>8, TailLists DEF LifecycleInv, Pending
  <2>2. devTimer' # "off" => Pending("timer")'
    BY <1>1, <1>4, <1>6, <1>8 DEF LifecycleInv
  <2>3. devWork' # "none" \/ (driver' \in {"rc522", "motor"} /\ Pending("timer")') =>
          Pending("work")'
    BY <1>1, <1>4, <1>6, <1>8, <2>1 DEF LifecycleInv
  <2>4. driver' \in {"motor", "motor_pwm"} /\ output' = "on" => Pending("output")'
    BY <1>1, <1>4, <1>6, <1>8 DEF LifecycleInv
  <2>5. /\ devTimer' # "off" => driver' \in {"rc522", "motor", "motor_pwm"}
        /\ devWork' # "none" => driver' \in {"rc522", "motor"}
    BY <1>1, <1>6 DEF LifecycleInv
  <2> QED BY <1>3, <1>5, <1>6, <1>8, <2>1, <2>2, <2>3, <2>4, <2>5
          DEF LifecycleInv, LifecycleKept, UnloadedIsClean
<1> QED BY <1>7, <1>8 DEF Release

(* The end of the list.                                                      *)
LEMMA ReleaseEndsInv == LifecycleKept /\ ReleaseEnds => LifecycleKept'
<1> SUFFICES ASSUME LifecycleKept, ReleaseEnds PROVE LifecycleKept'
  OBVIOUS
<1>1. LifecycleTypeOK /\ LifecycleInv
  BY DEF LifecycleKept
<1>2. \A x : ~Pending(x)
  BY DEF ReleaseEnds, Pending, Listed
<1>3. LifecycleTypeOK'
  BY <1>1 DEF ReleaseEnds, LifecycleTypeOK
<1>4. held = {} /\ devTimer = "off" /\ devWork = "none"
  BY <1>1, <1>2 DEF ReleaseEnds, LifecycleInv
<1>5. driver \in {"motor", "motor_pwm"} => output = "off"
  BY <1>1, <1>2 DEF ReleaseEnds, LifecycleInv, LifecycleTypeOK
<1> QED BY <1>3, <1>4, <1>5 DEF ReleaseEnds, LifecycleInv, LifecycleKept, UnloadedIsClean

(* A caller, sysfs, the timer and the work, at whatever point of remove().     *)
LEMMA AtWorkInv ==
  /\ LifecycleKept
  /\ CallerSwitchesOn \/ BrightnessStored \/ DevTimerFires \/ DevWorkRuns \/ UNCHANGED lifeVars
  => LifecycleKept'
<1> SUFFICES ASSUME LifecycleKept,
                    \/ CallerSwitchesOn \/ BrightnessStored \/ DevTimerFires \/ DevWorkRuns
                    \/ UNCHANGED lifeVars
             PROVE LifecycleKept'
  OBVIOUS
<1>1. LifecycleTypeOK /\ LifecycleInv
  BY DEF LifecycleKept
<1>2. UNCHANGED <<driver, phase, taken, held, releasing>>
  BY DEF CallerSwitchesOn, BrightnessStored, DevTimerFires, DevWorkRuns, lifeVars
<1>3. LifecycleTypeOK'
  BY <1>1 DEF CallerSwitchesOn, BrightnessStored, DevTimerFires, DevWorkRuns, lifeVars,
              LifecycleTypeOK
<1>4. \A x : Pending(x)' <=> Pending(x)
  BY <1>2 DEF Pending
<1>5. LifecycleInv'
  <2> USE DEF LifecycleInv, UnloadedIsClean, LifecycleTypeOK
  <2>1. CASE CallerSwitchesOn
    BY <1>1, <1>2, <1>4, <2>1 DEF CallerSwitchesOn
  <2>2. CASE BrightnessStored
    BY <1>1, <1>2, <1>4, <2>2 DEF BrightnessStored
  <2>3. CASE DevTimerFires
    BY <1>1, <1>2, <1>4, <2>3 DEF DevTimerFires
  <2>4. CASE DevWorkRuns
    BY <1>1, <1>2, <1>4, <2>4 DEF DevWorkRuns
  <2>5. CASE UNCHANGED lifeVars
    BY <1>1, <1>2, <1>4, <2>5 DEF lifeVars
  <2> QED BY <2>1, <2>2, <2>3, <2>4, <2>5
<1> QED BY <1>3, <1>5 DEF LifecycleKept

(* In every reachable state a driver that is not loaded has nothing and        *)
(* nothing of it runs (rc522_drv.c:615-704, motor_drv.c:454-504).             *)
THEOREM UnloadedClean == LifecycleSpec => []UnloadedIsClean
<1>1. LifecycleKept /\ [LifecycleNext]_lifeVars => LifecycleKept'
  BY AcquireInv, FailsInv, RemoveInv, ReleaseInv, ReleaseEndsInv, AtWorkInv DEF LifecycleNext
<1>2. LifecycleKept => UnloadedIsClean
  BY DEF LifecycleKept, LifecycleInv
<1> QED BY LifecycleInitInv, <1>1, <1>2, PTL DEF LifecycleSpec

-----------------------------------------------------------------------------
(* The DMA SPI driver: a read() that succeeds is completed by its own         *)
(* descriptor.                                                               *)

DmaTyped ==
  /\ transfer \in {"none", "write", "read"}
  /\ rxQueue \in Seq({"own", "old"}) /\ rx_done \in {"none", "own", "old"}
  /\ spiFailed \in BOOLEAN

(* No transfer, no descriptor at the start.                                 *)
LEMMA RxInitially == DmaSpiInit => DmaTyped /\ RxInv
<1> SUFFICES ASSUME DmaSpiInit PROVE DmaTyped /\ RxInv
  OBVIOUS
<1>1. transfer = "none" /\ dmaAt = "out" /\ rxQueue = <<>> /\ rx_done = "none"
  BY DEF DmaSpiInit
<1>2. spiFailed \in BOOLEAN
  BY Zenon DEF DmaSpiInit
<1> QED BY <1>1, <1>2 DEF DmaTyped, RxInv, PlacesOf

(* What a queue with one descriptor of this transfer looks like.            *)
LEMMA OwnDescriptor ==
  /\ Head(<<"own">>) = "own" /\ Tail(<<"own">>) = <<>>
  /\ Append(<<>>, "own") = <<"own">> /\ <<"own">> # <<>>
  OBVIOUS

(* Every step of the DMA driver keeps what is known of its buffer.          *)
LEMMA RxStep == DmaTyped /\ RxInv /\ [DmaSpiNext]_dmaVars => DmaTyped' /\ RxInv'
<1> SUFFICES ASSUME DmaTyped, RxInv, [DmaSpiNext]_dmaVars
             PROVE  DmaTyped' /\ RxInv'
  OBVIOUS
<1> USE DEF DmaTyped, RxInv, PlacesOf
<1>1. CASE TransferBegins("write") \/ TransferBegins("read")
  <2>1. /\ transfer = "none" /\ transfer' \in {"write", "read"} /\ dmaAt' = "tx"
        /\ rxQueue' = AllOld(rxQueue) /\ spiFailed' = spiFailed
        /\ rx_done' \in {"none", "own", "old"}
    BY <1>1 DEF TransferBegins, AsOld
  <2>2. rxQueue' \in Seq({"own", "old"})
    BY <2>1 DEF AllOld
  <2>3. rxQueue = <<>> => rxQueue' = <<>>
    BY <2>1 DEF AllOld
  <2> QED BY <2>1, <2>2, <2>3
<1>2. CASE SubmitTx
  BY <1>2 DEF SubmitTx
<1>3. CASE SubmitRx
  <2>1. rxQueue' \in Seq({"own", "old"}) /\ rxQueue' # <<>>
    BY <1>3 DEF SubmitRx
  <2>2. rxQueue = <<>> => rxQueue' = <<"own">>
    BY <1>3, OwnDescriptor DEF SubmitRx
  <2>3. /\ dmaAt = "rx" /\ dmaAt' = "spi"
        /\ UNCHANGED <<transfer, rx_done, spiFailed>>
    BY <1>3 DEF SubmitRx
  <2>4. transfer = "read"
    BY <2>3
  <2> QED BY <2>1, <2>2, <2>3, <2>4
<1>4. CASE PrepFails
  BY <1>4 DEF PrepFails, Return
<1>5. CASE spi_sync
  BY <1>5 DEF spi_sync
<1>6. CASE SpiSyncFails
  <2>1. /\ transfer' = "none" /\ dmaAt' = "out" /\ dmaAt = "spi"
        /\ UNCHANGED <<rxQueue, rx_done>>
    BY <1>6 DEF SpiSyncFails, Return
  <2>2. spiFailed' \in BOOLEAN
    BY <1>6, Zenon DEF SpiSyncFails
  <2>3. ~ spiFailed' => ~ spiFailed /\ transfer # "read"
    BY <1>6, Zenon DEF SpiSyncFails
  <2> QED BY <2>1, <2>2, <2>3
<1>7. CASE dma_spi_tx_callback
  BY <1>7 DEF dma_spi_tx_callback
<1>8. CASE dma_spi_rx_callback
  <2>1. /\ rxQueue' \in Seq({"own", "old"}) /\ rx_done' \in {"none", "own", "old"}
    BY <1>8 DEF dma_spi_rx_callback
  <2>2. rxQueue = <<"own">> => rxQueue' = <<>> /\ rx_done' = "own"
    BY <1>8, OwnDescriptor DEF dma_spi_rx_callback
  <2>3. rxQueue # <<>> /\ UNCHANGED <<transfer, dmaAt, spiFailed>>
    BY <1>8 DEF dma_spi_rx_callback
  <2> QED BY <2>1, <2>2, <2>3
<1>9. CASE TransferEnds
  BY <1>9 DEF TransferEnds, WaitEnds, Return
<1>10. CASE WaitTimesOut
  BY <1>10 DEF WaitTimesOut, WaitEnds, Return
<1>11. CASE UNCHANGED dmaVars
  BY <1>11 DEF dmaVars
<1> QED BY <1>1, <1>2, <1>3, <1>4, <1>5, <1>6, <1>7, <1>8, <1>9, <1>10, <1>11
        DEF DmaSpiNext

(* A read() that succeeds was completed by its own descriptor, unless the     *)
(* spi_sync of some read had failed (dma_spi_drv.c:128-180).                 *)
THEOREM ReadsTheirOwn == DmaSpiSpec => ReadIsItsOwn
<1>1. DmaTyped /\ RxInv /\ [DmaSpiNext]_dmaVars
        => [TransferEnds /\ transfer = "read" /\ rx_done = "old" => spiFailed]_dmaVars
  <2> SUFFICES ASSUME DmaTyped, RxInv, TransferEnds, transfer = "read", rx_done = "old"
               PROVE  spiFailed
    OBVIOUS
  <2>1. dmaAt = "rx_wait"
    BY DEF RxInv, PlacesOf, TransferEnds, WaitEnds
  <2> QED BY <2>1 DEF RxInv
<1> QED BY RxInitially, RxStep, <1>1, PTL DEF DmaSpiSpec, ReadIsItsOwn

-----------------------------------------------------------------------------
(* The card reader: a UID that a detection puts down is that of a card which *)
(* answered during that detection.                                          *)

(* The three commands of a selection, one after the other.                  *)
LEMMA CommandLists ==
  /\ Head(Select) = "reqa" /\ Tail(Select) = <<"anticollision", "select">>
  /\ Head(<<"anticollision", "select">>) = "anticollision"
  /\ Tail(<<"anticollision", "select">>) = <<"select">>
  /\ Head(<<"select">>) = "select" /\ Tail(<<"select">>) = <<>>
  /\ <<"select">> # <<>> /\ <<"anticollision", "select">> # <<>> /\ Select # <<>>
  BY DEF Select

(* No card has been detected at the start.                                  *)
LEMMA DetectInitially == CardReaderInit => DetectInv
  BY DEF CardReaderInit, DetectInv

(* A job that begins has selected no card and read no answer.               *)
LEMMA JobBegins ==
  ASSUME NEW t, NEW operation \in {"detect"} \cup IoctlOps, Begin(t, operation)
  PROVE  DetectInv'
<1>1. fifo' = "empty" /\ job' = operation /\ operation # "selected"
  BY DEF Begin, Transmit, IoctlOps
<1>2. operation = "detect" => todo' = Select
  BY DEF Begin, CommandsOf
<1> QED BY <1>1, <1>2 DEF DetectInv

(* Every step of the card reader keeps what a detection knows.              *)
LEMMA DetectStep == DetectInv /\ [CardReaderNext]_rc522Vars => DetectInv'
<1> SUFFICES ASSUME DetectInv, [CardReaderNext]_rc522Vars
             PROVE  DetectInv'
  OBVIOUS
<1>1. ASSUME UNCHANGED <<job, todo, uid, fifo, answered>>
      PROVE  DetectInv'
  BY <1>1 DEF DetectInv
<1>2. CASE Answers
  <2>1. /\ UNCHANGED <<job, todo, uid>> /\ field # {}
        /\ fifo' = "uid" => answered' = answered \cup field
        /\ answered \subseteq answered'
    BY <1>2 DEF Answers
  <2> QED BY <2>1 DEF DetectInv
<1>3. CASE CommandSucceeds
  <2>0. /\ todo # <<>> /\ Accepted(Head(todo)) /\ todo' = Tail(todo) /\ answered' = answered
        /\ fifo' = fifo \/ fifo' = "empty"
    BY <1>3 DEF CommandSucceeds, Transmit, chipVars
  <2>1. CASE job = "detect" /\ todo = Select
    <3>1. todo' = <<"anticollision", "select">>
      BY <2>0, <2>1, CommandLists
    <3>2. job' = "detect"
      BY <1>3, <2>1, <3>1, CommandLists DEF CommandSucceeds
    <3> QED BY <2>0, <3>1, <3>2 DEF DetectInv
  <2>2. CASE job = "detect" /\ todo = <<"anticollision", "select">>
    <3>1. todo' = <<"select">>
      BY <2>0, <2>2, CommandLists
    <3>2. fifo = "uid"
      BY <2>0, <2>2, CommandLists DEF Accepted
    <3>3. uid' = CHOOSE c \in answered : TRUE
      BY <1>3, <2>2, <3>2, CommandLists DEF CommandSucceeds
    <3>4. uid' \in answered
      BY <3>2, <3>3 DEF DetectInv
    <3>5. job' = "detect"
      BY <1>3, <2>2, <3>1, CommandLists DEF CommandSucceeds
    <3> QED BY <2>0, <3>1, <3>4, <3>5 DEF DetectInv
  <2>3. CASE job = "detect" /\ todo = <<"select">> /\ uid \in answered
    <3>1. uid' = uid
      BY <1>3, <2>3, CommandLists DEF CommandSucceeds
    <3>2. job' = "selected"
      BY <1>3, <2>0, <2>3, CommandLists DEF CommandSucceeds
    <3> QED BY <2>0, <2>3, <3>1, <3>2 DEF DetectInv
  <2>4. CASE job = "selected"
    <3>1. job' = job
      BY <1>3, <2>4 DEF CommandSucceeds
    <3>2. CASE Head(todo) = "anticollision" /\ fifo = "uid"
      <4>1. uid' = CHOOSE c \in answered : TRUE
        BY <1>3, <3>2, Zenon DEF CommandSucceeds
      <4>2. uid' \in answered
        BY <3>2, <4>1 DEF DetectInv
      <4> QED BY <2>0, <2>4, <3>1, <4>2 DEF DetectInv
    <3>3. CASE ~ (Head(todo) = "anticollision" /\ fifo = "uid")
      <4>1. uid' = uid
        BY <1>3, <3>3, Zenon DEF CommandSucceeds
      <4> QED BY <2>0, <2>4, <3>1, <4>1 DEF DetectInv
    <3> QED BY <3>2, <3>3
  <2>5. CASE job \notin {"detect", "selected"}
    <3>1. job' = job
      BY <1>3, <2>5 DEF CommandSucceeds
    <3> QED BY <2>0, <2>5, <3>1 DEF DetectInv
  <2> QED BY <2>1, <2>2, <2>3, <2>4, <2>5 DEF DetectInv
<1>4. CASE CommandFails
  BY <1>4 DEF CommandFails, DetectInv, chipVars
<1>5. CASE DetectBegins
  BY <1>5, JobBegins DEF DetectBegins
<1>6. ASSUME NEW c \in Callers, NEW operation \in IoctlOps, rc522_ioctl(c, operation)
      PROVE  DetectInv'
  BY <1>6, JobBegins DEF rc522_ioctl
<1>7. ASSUME card_detect \/ \E c \in Callers : IoctlReturns(c)
      PROVE  DetectInv'
  <2>1. job' = "none" /\ UNCHANGED <<fifo, answered>>
    BY <1>7 DEF card_detect, IoctlReturns, chipVars
  <2> QED BY <2>1 DEF DetectInv
<1>8. CASE \/ rc522_irq_handler \/ rc522_poll_timer_callback \/ ReadOldPresent \/ WakeReaders
           \/ CardLeaves \/ \E c \in Cards : CardComes(c)
           \/ \E c \in Callers : ReadNonblocking(c) \/ ReadBlocks(c) \/ ReadReturns(c)
           \/ \E on \in BOOLEAN : rc522_antenna_on(on)
           \/ UNCHANGED rc522Vars
  <2>1. UNCHANGED <<job, todo, uid, fifo, answered>>
    BY <1>8 DEF rc522_irq_handler, rc522_poll_timer_callback, ReadOldPresent, WakeReaders,
      CardLeaves, CardComes, ReadNonblocking, ReadBlocks, ReadReturns, rc522_antenna_on,
      rc522Vars, chipVars
  <2> QED BY <1>1, <2>1
<1> QED BY <1>2, <1>3, <1>4, <1>5, <1>6, <1>7, <1>8
        DEF CardReaderNext, DriverSteps, CallerSteps

(* No card appears and no UID is written before a detection ends.           *)
LEMMA OnlyDetectionPutsDown ==
  ASSUME CardReaderNext, ~ card_detect
  PROVE  card_present' => card_present /\ last_uid' = last_uid
<1>1. ASSUME UNCHANGED detectVars
      PROVE  card_present' => card_present /\ last_uid' = last_uid
  BY <1>1 DEF detectVars
<1> QED BY <1>1 DEF CardReaderNext, DriverSteps, CallerSteps, Answers, rc522_irq_handler,
      CommandSucceeds, CommandFails, rc522_poll_timer_callback, ReadOldPresent, DetectBegins,
      WakeReaders, ReadNonblocking, ReadBlocks, ReadReturns, IoctlReturns, rc522_ioctl,
      CardLeaves, CardComes, rc522_antenna_on

(* The UID that logs a member in was answered by a card in the field during   *)
(* the detection that puts it down, however late interrupts of earlier        *)
(* commands end the waits of this one (rc522_drv.c:176-197, 313-328).        *)
THEOREM UidGenuine == CardReaderSpec => DetectedUidIsGenuine
<1>1. DetectInv /\ [CardReaderNext]_rc522Vars
        => [card_present' /\ (last_uid' # last_uid \/ ~card_present)
              => last_uid' \in answered]_rc522Vars
  <2> SUFFICES ASSUME DetectInv, CardReaderNext, card_present',
                      last_uid' # last_uid \/ ~card_present
               PROVE  last_uid' \in answered
    OBVIOUS
  <2>1. card_detect
    BY OnlyDetectionPutsDown
  <2>2. job = "selected"
    BY <2>1 DEF card_detect
  <2> QED BY <2>1, <2>2 DEF card_detect, DetectInv
<1> QED BY DetectInitially, DetectStep, <1>1, PTL DEF CardReaderSpec, DetectedUidIsGenuine

-----------------------------------------------------------------------------
(* The sensor thread and the face light (Sensors), for every bound on the      *)
(* queued signals and on the crashes.                                        *)

(* Shutting down is what tells the loop to end, and only a thread that has     *)
(* been started is waited for.                                               *)
ThreadInv ==
  /\ ThreadLeaving
  /\ client = "up" => hwThread \in {"started", "light", "card", "asleep", "finished"}

(* Nothing lights the face before the first start.                           *)
LEMMA SensorsInitInv == SensorsInit => LightInHand /\ ThreadInv
BY DEF SensorsInit, LightInHand, ThreadInv, ThreadLeaving

CrashesAreCounted == crashes \in Nat

(* Crashes are counted.                                                      *)
LEMMA CrashesCounted ==
  CrashesAreCounted /\ [SensorsNext]_sensorVars => CrashesAreCounted'
BY DEF CrashesAreCounted, SensorsNext, sensorVars, init, run, RunBegins, ReadLight, ReadCard, ThreadWakes, RunEnds,
   onLightValue, onCardUID, setFaceLight, stopThread, ShutdownEnds, ClientCrashes

(* Who switches the light on can switch it off, and does before he lets go of *)
(* the descriptor; queued light values only follow the flag.                 *)
LEMMA LightStep ==
  CrashesAreCounted /\ LightInHand /\ [SensorsNext]_sensorVars => LightInHand'
<1> SUFFICES ASSUME CrashesAreCounted, LightInHand, [SensorsNext]_sensorVars
             PROVE  LightInHand'
  OBVIOUS
<1> USE DEF CrashesAreCounted, LightInHand
<1>1. CASE init
  BY <1>1 DEF init, led_open
<1>2. CASE run
  BY <1>2 DEF run, RunBegins, ReadLight, ReadCard, ThreadWakes, RunEnds
<1>3. CASE onLightValue \/ onCardUID
  BY <1>3 DEF onLightValue, onCardUID, LightForFace
<1>4. CASE stopThread \/ ShutdownEnds \/ ClientCrashes
  BY <1>4 DEF stopThread, ShutdownEnds, ClientCrashes
<1>5. ASSUME NEW on \in BOOLEAN, setFaceLight(on) PROVE LightInHand'
  BY <1>5 DEF setFaceLight
<1>6. CASE UNCHANGED sensorVars
  BY <1>6 DEF sensorVars
<1> QED BY <1>1, <1>2, <1>3, <1>4, <1>5, <1>6 DEF SensorsNext

(* The flag of the loop stays down once the thread is inside of it: only a     *)
(* thread that was still being started sets it again.                        *)
LEMMA ThreadStep == ThreadInv /\ [SensorsNext]_sensorVars => ThreadInv'
<1> SUFFICES ASSUME ThreadInv, [SensorsNext]_sensorVars PROVE ThreadInv'
  OBVIOUS
<1> USE DEF ThreadInv, ThreadLeaving
<1>1. CASE init
  BY <1>1 DEF init
<1>2. CASE run
  BY <1>2 DEF run, RunBegins, ReadLight, ReadCard, ThreadWakes, RunEnds
<1>3. CASE onLightValue \/ onCardUID
  BY <1>3 DEF onLightValue, onCardUID
<1>4. CASE stopThread
  BY <1>4 DEF stopThread
<1>5. CASE ShutdownEnds \/ ClientCrashes
  BY <1>5 DEF ShutdownEnds, ClientCrashes
<1>6. ASSUME NEW on \in BOOLEAN, setFaceLight(on) PROVE ThreadInv'
  BY <1>6 DEF setFaceLight
<1>7. CASE UNCHANGED sensorVars
  BY <1>7 DEF sensorVars
<1> QED BY <1>1, <1>2, <1>3, <1>4, <1>5, <1>6, <1>7 DEF SensorsNext

(* However many light values are queued, and however often the program is      *)
(* stopped and started: before a crash the light is on only while a face is    *)
(* looked for (hardwareservice.cpp:47-51, 97-127, hardware_api.c:253-265).    *)
THEOREM LightOnlyForAFace == SensorsSpec => []LightOnlyForFace
<1>1. SensorsInit => CrashesAreCounted
  BY DEF SensorsInit, CrashesAreCounted
<1>2. CrashesAreCounted /\ LightInHand => LightOnlyForFace
  BY DEF CrashesAreCounted, LightInHand, LightOnlyForFace
<1> QED BY <1>1, <1>2, SensorsInitInv, LightStep, CrashesCounted, PTL DEF SensorsSpec

(* A shutdown that waits for the sensor thread waits for one that is leaving,  *)
(* unless it came before the thread had begun (hardwarethread.cpp:10-15,       *)
(* 18-24): what ShutdownReturns rests on.                                    *)
THEOREM ThreadIsLeaving == SensorsSpec => []ThreadLeaving
<1>1. ThreadInv => ThreadLeaving
  BY DEF ThreadInv
<1> QED BY <1>1, SensorsInitInv, ThreadStep, PTL DEF SensorsSpec
=============================================================================
