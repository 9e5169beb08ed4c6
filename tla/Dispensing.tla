----------------------------- MODULE Dispensing -----------------------------
(***************************************************************************)
(* How the hardware service hands out the goods of a cart                  *)
(* (client/core/hardwareservice.cpp:68-98): a worker of the thread pool    *)
(* turns the motor once for every item and polls until it stands still.    *)
(* Every paid cart gets a worker of its own; shutdown() stops the motor    *)
(* and closes the descriptor of which each worker has a copy.              *)
(*                                                                         *)
(* Time is not counted.  A run of steps_per_item lasts 1.2 s, the sleep     *)
(* after motor_step 2.3 s and the fifty polls another 5 s: a worker does   *)
(* not give up polling because of its own run.                             *)
(***************************************************************************)
EXTENDS Motor

CONSTANTS
  Workers,       (* workers, one for each cart                             *)
  Closer,        (* the GUI thread, which runs shutdown()                  *)
  ItemSteps,     (* steps_per_item: 1024 in the code                       *)
  MaxItems       (* bound: items in a cart                                 *)

ASSUME DispensingAssumption ==
  /\ Threads = Workers \cup {Closer} /\ Closer \notin Workers
  /\ ItemSteps \in Requests /\ ItemSteps \in 1 .. MaxSteps /\ 0 \in Requests /\ MaxItems \in Nat \ {0}

VARIABLES
  motorFd,     (* "open"; "closing" once motor_close has begun; "closed"   *)
  at,          (* where a worker is                                        *)
  items,       (* items of its cart that are still to turn for             *)
  runOf,       (* history: whose run the motor makes or has made last      *)
  turned,      (* history: items the motor has turned for completely       *)
  wanted,      (* history: items of the cart                               *)
  disturbed    (* history: carts served while another was, or at shutdown  *)

serviceVars == <<motorFd, at, items, runOf, turned, wanted, disturbed>>
vars == <<driverVars, serviceVars>>

TypeOK ==
  /\ MotorTypeOK
  /\ motorFd \in {"open", "closing", "closed"}
  /\ at \in [Workers -> {"idle", "turn", "write", "sleep", "poll", "done"}]
  /\ items \in [Workers -> 0 .. MaxItems] /\ wanted \in [Workers -> 0 .. MaxItems]
  /\ turned \in [Workers -> 0 .. MaxItems]
  /\ runOf \subseteq Threads
  /\ disturbed \subseteq Workers

Init ==
  /\ MotorInit
  /\ motorFd = "open"
  /\ at = [w \in Workers |-> "idle"]
  /\ items = [w \in Workers |-> 0] /\ wanted = [w \in Workers |-> 0]
  /\ turned = [w \in Workers |-> 0]
  /\ runOf = {} /\ disturbed = {}

-----------------------------------------------------------------------------

Busy == {w \in Workers : at[w] \notin {"idle", "done"}}

Goto(w, place) == at' = [at EXCEPT ![w] = place]

(* A cart is paid for.  What other carts are being handed out meanwhile is  *)
(* not looked at.                                                           *)
rotateMotorForCart(w, n) ==
  /\ at[w] = "idle" /\ motorFd = "open"
  /\ Goto(w, "turn")
  /\ items' = [items EXCEPT ![w] = n] /\ wanted' = [wanted EXCEPT ![w] = n]
  /\ disturbed' = IF Busy = {} THEN disturbed ELSE disturbed \cup Busy \cup {w}
  /\ UNCHANGED <<driverVars, motorFd, runOf, turned>>

(* motor_step on a closed descriptor fails, which the worker does not see.  *)
TurnForItem(w) ==
  /\ at[w] = "turn" /\ items[w] > 0
  /\ items' = [items EXCEPT ![w] = @ - 1]
  /\ IF motorFd = "closed"
       THEN Goto(w, "poll") /\ UNCHANGED driverVars
       ELSE Goto(w, "write") /\ Call(w, ItemSteps)
  /\ UNCHANGED <<motorFd, runOf, turned, wanted, disturbed>>

CartEnds(w) ==
  /\ at[w] = "turn" /\ items[w] = 0
  /\ Goto(w, "done")
  /\ UNCHANGED <<driverVars, motorFd, items, runOf, turned, wanted, disturbed>>

(* A step of a call; the last one brings the worker to its sleep. *)
DriverCall(t) ==
  /\ WriteStep(t)
  /\ IF status' = "running" /\ pc'[t] = "out" THEN runOf' = {t} ELSE UNCHANGED runOf
  /\ IF t \in Workers /\ pc'[t] = "out" THEN Goto(t, "sleep") ELSE UNCHANGED at
  /\ UNCHANGED <<motorFd, items, turned, wanted, disturbed>>

(* An item is turned for when its run ends with all of its steps made.      *)
DriverInterrupt ==
  /\ Interrupts
  /\ turned' = [w \in Workers |->
       IF status = "running" /\ status' = "idle" /\ runOf = {w}
            /\ current_step = ItemSteps
         THEN turned[w] + 1 ELSE turned[w]]
  /\ UNCHANGED <<motorFd, at, items, runOf, wanted, disturbed>>

SleepEnds(w) ==
  /\ at[w] = "sleep"
  /\ Goto(w, "poll")
  /\ UNCHANGED <<driverVars, motorFd, items, runOf, turned, wanted, disturbed>>

(* Mutant: the first read ends the poll, whatever it says. *)
PollOnce(w) == TRUE

(* read() says idle; or fifty reads have failed, or have said running on     *)
(* account of somebody else's runs.                                          *)
PollIsOver(w) ==
  \/ status = "idle"
  \/ motorFd = "closed" \/ runOf # {w}

PollEnds(w) ==
  /\ at[w] = "poll" /\ lock = {}
  /\ PollIsOver(w)
  /\ Goto(w, "turn")
  /\ UNCHANGED <<driverVars, motorFd, items, runOf, turned, wanted, disturbed>>

(* shutdown(): motor_close stops the motor, then closes the descriptor. *)
ShutdownStops ==
  /\ motorFd = "open"
  /\ motorFd' = "closing"
  /\ disturbed' = disturbed \cup Busy
  /\ Call(Closer, 0)
  /\ UNCHANGED <<at, items, runOf, turned, wanted>>

ShutdownCloses ==
  /\ motorFd = "closing" /\ pc[Closer] = "out"
  /\ motorFd' = "closed"
  /\ UNCHANGED <<driverVars, at, items, runOf, turned, wanted, disturbed>>

WorkerStep(w) ==
  \/ TurnForItem(w) \/ CartEnds(w) \/ SleepEnds(w) \/ PollEnds(w) \/ DriverCall(w)

Next ==
  \/ DriverInterrupt
  \/ \E w \in Workers : WorkerStep(w) \/ \E n \in 1 .. MaxItems : rotateMotorForCart(w, n)
  \/ DriverCall(Closer) \/ ShutdownStops \/ ShutdownCloses

Spec == Init /\ [][Next]_vars

(* Timers expire, queued work runs, threads are scheduled and dev->lock is   *)
(* fair; nobody has to buy anything or to shut the program down.            *)
DispensingFairness ==
  /\ WF_vars(DriverInterrupt)
  /\ \A w \in Workers : WF_vars(WorkerStep(w))
  /\ WF_vars(DriverCall(Closer)) /\ WF_vars(ShutdownCloses)

FairSpec == Spec /\ DispensingFairness

-----------------------------------------------------------------------------
(* Properties. *)

(* A cart handed out while no other is and while the program is not shut     *)
(* down gets a full turn for every item: no item starts before the one       *)
(* before it has stopped, whatever the callback, the stop work and the poll  *)
(* are doing (hardwareservice.cpp:80-94, motor_drv.c:126-129, 177-182).      *)
UndisturbedCartServed ==
  \A w \in Workers : at[w] = "done" /\ w \notin disturbed => turned[w] = wanted[w]

(* The inductive invariant behind it, with MotorInv.  A thread is inside the  *)
(* driver exactly while it writes; a cart that is not disturbed is alone     *)
(* with the motor; whoever waits for a run is the one whose run it is, so    *)
(* that an item is counted for the cart that asked for it.                   *)
CallsInv ==
  /\ \A w \in Workers : at[w] = "write" <=> pc[w] # "out"
  /\ \A w \in Workers : at[w] = "write" => steps[w] = ItemSteps
  /\ steps[Closer] = 0 /\ (motorFd = "open" => pc[Closer] = "out")

AloneInv ==
  \A w \in Workers \ disturbed : at[w] \notin {"idle", "done"} =>
    motorFd = "open" /\ \A u \in Workers \ {w} : at[u] \in {"idle", "done"}

OwnerInv ==
  status = "running" =>
    \E w \in Workers :
      /\ runOf = {w}
      /\ at[w] \in {"sleep", "poll"} \/ (w \in disturbed /\ motorFd # "open")

(* Whether a run of the cart's is still to be counted. *)
ToCome(w) ==
  IF at[w] = "write" \/ (at[w] \in {"sleep", "poll"} /\ status = "running") THEN 1 ELSE 0

Counted(w) ==
  /\ turned[w] + items[w] + ToCome(w) = wanted[w]
  /\ at[w] = "idle" => turned[w] = 0
  /\ at[w] \in {"idle", "done"} => items[w] = 0
  /\ at[w] \in {"sleep", "poll"} /\ status = "running" => target_steps = ItemSteps

CountInv ==
  /\ \A w \in Workers : at[w] = "idle" => w \notin disturbed
  /\ \A w \in Workers \ disturbed : Counted(w)
  /\ callback = "done" => current_step = target_steps

DispensingInv == MotorInv /\ CallsInv /\ AloneInv /\ OwnerInv /\ CountInv

(* The motor does not stay powered when it stands still: it comes to rest    *)
(* with its coils off however its runs were cut, overtaken or ended by the   *)
(* shutdown (motor_drv.c:84, 128, 139-143, 177-182).                         *)
CoilsReleased == status = "idle" ~> coils = "off" \/ status = "running"

(* hardwareservice.cpp:85: "Poll until motor stops"; :74 "1024 steps = 90    *)
(* deg (1/4 rev)": every item paid for gets its turn.  Violated when a       *)
(* second cart is paid for while the first is being handed out.              *)
EveryItemTurned ==
  \A w \in Workers : at[w] = "done" /\ motorFd = "open" => turned[w] = wanted[w]

=============================================================================
