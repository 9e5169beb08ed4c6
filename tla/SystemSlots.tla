---------------------------- MODULE SystemSlots -----------------------------
(***************************************************************************)
(* The system half of an update (src/client/core/ota.c, installSystemOta,  *)
(* main.cpp): swupdate writes the other A/B slot, five fw_setenv calls     *)
(* switch to it, and a timer 60 s after the start of the client confirms   *)
(* the upgrade with three more.  The client may be restarted without the   *)
(* machine being rebooted, and the machine may lose power between any two  *)
(* writes.  U-Boot, swupdate and a bad image are modelled from what the    *)
(* code and the comment at ota.h:22-29 say of them.                        *)
(***************************************************************************)
EXTENDS Integers, Sequences

CONSTANTS
  BootLimit,        (* OTA_SYSTEM_BOOTLIMIT                                 *)
  InstallsPerBoot,  (* bound: system installs between two machine boots     *)
  MaxInstalls,      (* bound: system installs in all                        *)
  MaxResets,        (* bound: resets of a machine that runs a good image    *)
  MaxFaults         (* bound: failing fw_setenv calls                       *)

ASSUME SystemSlotsAssumption ==
  /\ BootLimit \in Nat \ {0}
  /\ {InstallsPerBoot, MaxInstalls, MaxResets, MaxFaults} \subseteq Nat

Slots == {"_a", "_b"}

VARIABLES
  image,     (* image[s]: what slot s holds                                 *)
  env,       (* the U-Boot environment                                      *)
  bootedSlot, (* the slot the machine was booted from                       *)
  machine,   (* "boot": in U-Boot, "up": the system runs                    *)
  proc,      (* the client process runs                                     *)
  timer,     (* the 60 s confirm timer of the process is pending            *)
  task,      (* what the main thread is in the middle of                    *)
  todo,      (* fw_setenv calls still to make in it: <<name, value>>        *)
  procQuits, (* the process is about to quit after an update                *)
  installs,  (* system installs started: in all, since the machine booted   *)
  resets, faults,
  early      (* history: an upgrade was confirmed by the old system         *)

procVars == <<proc, timer, task, todo, procQuits>>
counters == <<installs, resets, faults>>
slotVars == <<image, env, bootedSlot, machine, procVars, counters, early>>

Env == [boot_slot : Slots, upgrade_available : {0, 1}, bootcount : Nat,
        bootlimit : Nat, ota_system_done : {0, 1}]

SlotsTypeOK ==
  /\ image \in [Slots -> {"good", "bad", "partial"}]
  /\ env \in Env
  /\ bootedSlot \in Slots
  /\ machine \in {"boot", "up"}
  /\ proc \in BOOLEAN /\ timer \in BOOLEAN /\ procQuits \in BOOLEAN
  /\ task # "none" => proc
  /\ task \in {"none", "swupdate", "upgrade", "confirm"}
  /\ Len(todo) <= 5
  /\ installs \in [all : 0 .. MaxInstalls, thisBoot : 0 .. InstallsPerBoot]
  /\ resets \in 0 .. MaxResets
  /\ faults \in 0 .. MaxFaults
  /\ early \in BOOLEAN

SlotsInit ==
  /\ image = [s \in Slots |-> "good"]
  /\ env = [boot_slot |-> "_a", upgrade_available |-> 0, bootcount |-> 0,
            bootlimit |-> BootLimit, ota_system_done |-> 1]
  /\ bootedSlot = "_a" /\ machine = "up"
  /\ proc = FALSE /\ timer = FALSE /\ task = "none" /\ todo = <<>>
  /\ procQuits = FALSE
  /\ installs = [all |-> 0, thisBoot |-> 0]
  /\ resets = 0 /\ faults = 0
  /\ early = FALSE

Other(s) == IF s = "_a" THEN "_b" ELSE "_a"

-----------------------------------------------------------------------------
(* Installing: ota_system_install, then ota_system_set_upgrade_env. *)

(* The slot to write is the other one than boot_slot, which names the slot  *)
(* of the next boot and not always the one that is bootedSlot.                 *)
InstallBegins ==
  /\ proc /\ task = "none"
  /\ installs.all < MaxInstalls /\ installs.thisBoot < InstallsPerBoot
  /\ installs' = [all |-> installs.all + 1, thisBoot |-> installs.thisBoot + 1]
  /\ image' = [image EXCEPT ![Other(env.boot_slot)] = "partial"]
  /\ task' = "swupdate"
  /\ UNCHANGED <<env, bootedSlot, machine, proc, timer, todo, procQuits, resets,
                 faults, early>>

(* Mutant: the slot is switched before the upgrade is marked as pending. *)
SlotFirstWrites(s) ==
  << <<"boot_slot", s>>, <<"upgrade_available", 1>>, <<"bootcount", 0>>,
     <<"bootlimit", BootLimit>>, <<"ota_system_done", 0>> >>

(* Mutant: the upgrade is not marked as pending, so U-Boot counts nothing. *)
UpgradeUnmarked(s) ==
  << <<"bootcount", 0>>, <<"bootlimit", BootLimit>>, <<"ota_system_done", 0>>,
     <<"boot_slot", s>> >>

UpgradeWrites(s) ==
  << <<"upgrade_available", 1>>, <<"bootcount", 0>>, <<"bootlimit", BootLimit>>,
     <<"ota_system_done", 0>>, <<"boot_slot", s>> >>

InstallEnds ==
  /\ task = "swupdate"
  /\ \/ \E img \in {"good", "bad"} :
          /\ image' = [image EXCEPT ![Other(env.boot_slot)] = img]
          /\ task' = "upgrade"
          /\ todo' = UpgradeWrites(Other(env.boot_slot))
     \/ task' = "none" /\ UNCHANGED <<image, todo>>
  /\ UNCHANGED <<env, bootedSlot, machine, proc, timer, procQuits, counters, early>>

(* Mutant: confirming leaves the upgrade pending. *)
ConfirmWritesNoFlag == << <<"ota_system_done", 1>>, <<"bootcount", 0>> >>

ConfirmWrites ==
  << <<"upgrade_available", 0>>, <<"ota_system_done", 1>>, <<"bootcount", 0>> >>

(* main.cpp phase 2: 60 s after the start, whatever is being run. *)
ConfirmTimer ==
  /\ proc /\ timer /\ task = "none"
  /\ timer' = FALSE
  /\ task' = "confirm"
  /\ todo' = ConfirmWrites
  /\ early' = (early \/ bootedSlot # env.boot_slot)
  /\ UNCHANGED <<image, env, bootedSlot, machine, proc, procQuits, counters>>

(* One fw_setenv of the task; a failing one ends the task.  A finished      *)
(* upgrade makes the client quit - the process, not the machine.            *)
SetEnv ==
  /\ todo # <<>>
  /\ env' = [env EXCEPT ![Head(todo)[1]] = Head(todo)[2]]
  /\ todo' = Tail(todo)
  /\ task' = IF todo' = <<>> THEN "none" ELSE task
  /\ procQuits' = (procQuits \/ (task = "upgrade" /\ todo' = <<>>))
  /\ UNCHANGED <<image, bootedSlot, machine, proc, timer, counters, early>>

SetEnvFails ==
  /\ todo # <<>>
  /\ faults < MaxFaults
  /\ faults' = faults + 1
  /\ todo' = <<>> /\ task' = "none"
  /\ UNCHANGED <<image, env, bootedSlot, machine, proc, timer, procQuits, installs,
                 resets, early>>

-----------------------------------------------------------------------------
(* The process and the machine. *)

ProcessStart ==
  /\ machine = "up" /\ image[bootedSlot] = "good" /\ ~ proc
  /\ proc' = TRUE /\ timer' = TRUE
  /\ UNCHANGED <<image, env, bootedSlot, machine, task, todo, procQuits, counters,
                 early>>

ProcessQuit ==
  /\ proc /\ procQuits /\ task = "none"
  /\ proc' = FALSE /\ timer' = FALSE /\ procQuits' = FALSE
  /\ UNCHANGED <<image, env, bootedSlot, machine, task, todo, counters, early>>

(* The user cuts the power, or a bad image panics. *)
Reset ==
  /\ machine = "up"
  /\ \/ image[bootedSlot] # "good" /\ UNCHANGED resets
     \/ image[bootedSlot] = "good" /\ resets < MaxResets /\ resets' = resets + 1
  /\ machine' = "boot"
  /\ proc' = FALSE /\ timer' = FALSE /\ task' = "none" /\ todo' = <<>>
  /\ procQuits' = FALSE
  /\ UNCHANGED <<image, env, bootedSlot, installs, faults, early>>

(* bootcount counts the boots of a pending upgrade; beyond bootlimit the    *)
(* slot is switched.                                                        *)
UBoot ==
  /\ machine = "boot"
  /\ LET count == IF env.upgrade_available = 1 THEN env.bootcount + 1
                                               ELSE env.bootcount
         over  == env.upgrade_available = 1 /\ count > env.bootlimit
         slot  == IF over THEN Other(env.boot_slot) ELSE env.boot_slot
         top   == IF count > BootLimit + 1 THEN BootLimit + 1 ELSE count
     IN  /\ env' = [env EXCEPT !.bootcount = top, !.boot_slot = slot]
         /\ bootedSlot' = slot
  /\ machine' = "up"
  /\ installs' = [installs EXCEPT !.thisBoot = 0]
  /\ UNCHANGED <<image, procVars, resets, faults, early>>

-----------------------------------------------------------------------------

Client == InstallEnds \/ ConfirmTimer \/ SetEnv \/ ProcessStart \/ ProcessQuit

SlotsNext ==
  InstallBegins \/ Client \/ SetEnvFails \/ Reset \/ UBoot

SlotsSpec == SlotsInit /\ [][SlotsNext]_slotVars

(* The client runs once it is started, systemd restarts it, U-Boot boots,   *)
(* and a bad image does not stay up; nobody has to cut the power.           *)
FairSlotsSpec ==
  /\ SlotsSpec
  /\ WF_slotVars(InstallEnds) /\ WF_slotVars(ConfirmTimer) /\ WF_slotVars(SetEnv)
  /\ WF_slotVars(ProcessStart) /\ WF_slotVars(ProcessQuit) /\ WF_slotVars(UBoot)
  /\ WF_slotVars(Reset /\ image[bootedSlot] # "good")

-----------------------------------------------------------------------------
(* Properties. *)

(* At every moment, also between two fw_setenv calls, a power cycle leads   *)
(* to a good system: boot_slot holds one, or an upgrade is pending and the  *)
(* slot U-Boot falls back to holds one.  It takes the early confirmation of *)
(* OldSystemNeverConfirms to lose that, or a second system install before   *)
(* the machine has been booted (InstallsPerBoot > 1).                       *)
NeverBricked ==
  early \/ image[env.boot_slot] = "good"
        \/ (env.upgrade_available = 1 /\ image[Other(env.boot_slot)] = "good")

(* The last n calls of a task. *)
LastOf(writes, n) == [i \in 1 .. n |-> writes[Len(writes) - n + i]]

(* The calls left to make are the last ones of the task's, at least one. *)
LeftOf(writes) == \E n \in 1 .. Len(writes) : todo = LastOf(writes, n)

(* Why NeverBricked holds when the machine is booted between two system      *)
(* installs: only then does the next system go to the slot that does not     *)
(* run, the running one stays the fallback until boot_slot, written last,    *)
(* names the new one, and by then the upgrade is marked as pending.          *)
SlotsInv ==
  /\ SlotsTypeOK
  /\ proc => machine = "up" /\ image[bootedSlot] = "good"
  /\ machine = "up" /\ env.boot_slot # bootedSlot => installs.thisBoot = InstallsPerBoot
  /\ task \in {"none", "swupdate"} => todo = <<>>
  /\ task \in {"swupdate", "upgrade"} =>
       env.boot_slot = bootedSlot /\ installs.thisBoot = InstallsPerBoot
  /\ task = "upgrade" =>
       /\ LeftOf(UpgradeWrites(Other(bootedSlot)))
       /\ Len(todo) < 5 => env.upgrade_available = 1
  /\ task = "confirm" =>
       LeftOf(ConfirmWrites) /\ (early \/ env.boot_slot = bootedSlot)
  /\ NeverBricked

(* A system that does not come up is on trial: the boots count against the    *)
(* slot it is in, and the slot U-Boot falls back to holds a good one.         *)
FallbackReady ==
  machine = "up" /\ image[bootedSlot] # "good" /\ ~ early =>
    /\ env.boot_slot = bootedSlot /\ env.upgrade_available = 1
    /\ image[Other(bootedSlot)] = "good"

(* A new system whose client runs has its confirmation still to come: the     *)
(* timer, or a task at whose end it is due or which writes it, whatever was   *)
(* started, quit or cut off before (unless a fw_setenv call failed).          *)
ConfirmationDue ==
  /\ proc /\ bootedSlot = env.boot_slot /\ env.upgrade_available = 1 /\ faults = 0
  => timer \/ task \in {"upgrade", "confirm"}

(* Why these hold: a slot that boot_slot does not name any more runs a good   *)
(* system, and a confirmation clears its mark with its first write.          *)
TrialInv ==
  /\ machine = "up" /\ env.boot_slot # bootedSlot => image[bootedSlot] = "good"
  /\ task = "confirm" /\ Len(todo) < 3 => env.upgrade_available = 0
  /\ ConfirmationDue

(* README.md:79, automatic rollback after three failed boots: a system that *)
(* does not come up is left again for one that does.                        *)
BadSystemAbandoned ==
  (image[bootedSlot] # "good" /\ ~ early) ~> image[bootedSlot] = "good"

(* A new system that boots and stays up is confirmed, so that later power   *)
(* cycles do not count against it (unless a fw_setenv call fails).          *)
HealthyUpgradeConfirmed ==
  (bootedSlot = env.boot_slot /\ image[bootedSlot] = "good"
     /\ env.upgrade_available = 1)
  ~> (env.upgrade_available = 0 \/ faults > 0 \/ image[bootedSlot] # "good"
        \/ bootedSlot # env.boot_slot)

(* ota.h:87: an upgrade is confirmed after the new system booted healthy -  *)
(* never by the system that installed it.                                   *)
OldSystemNeverConfirms == ~ early

(* ota.h:81: the image is written to the inactive slot. *)
RunningImageUntouched == [][image'[bootedSlot] = image[bootedSlot]]_slotVars

=============================================================================
