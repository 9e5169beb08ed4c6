---------------------------- MODULE UpdateProofs ----------------------------
(***************************************************************************)
(* Proofs about updates: the system's slots for every BootLimit and every   *)
(* number of installs, resets and failing calls, and the download for every *)
(* set of builds, of any numbers of chunks, and every number of pushes.     *)
(***************************************************************************)
EXTENDS OtaDownload, SystemSlots, BootGuard, SequenceTheorems, FiniteSetTheorems, TLAPS

-----------------------------------------------------------------------------
(* SystemSlots *)

(* The head of what is left of a list of calls, and what is left after it. *)
LEMMA LastOfStep ==
  ASSUME NEW S, NEW W \in Seq(S), NEW n \in 1 .. Len(W)
  PROVE  /\ LastOf(W, n) # <<>> /\ Len(LastOf(W, n)) = n
         /\ Head(LastOf(W, n)) = W[Len(W) - n + 1]
         /\ n = 1 => Tail(LastOf(W, n)) = <<>>
         /\ n > 1 => Tail(LastOf(W, n)) = LastOf(W, n - 1)
<1> DEFINE f == LastOf(W, n)
           g == LastOf(W, n - 1)
<1>1. Len(W) \in Nat /\ \A i \in 1 .. Len(W) : W[i] \in S
  BY ElementOfSeq, LenProperties
<1>2. f \in [1 .. n -> S] /\ g \in [1 .. n - 1 -> S]
  BY <1>1 DEF LastOf
<1>3. f \in Seq(S) /\ g \in Seq(S)
  BY <1>1, <1>2, SeqDef
<1>4. DOMAIN f = 1 .. n /\ DOMAIN g = 1 .. n - 1
  BY DEF LastOf
<1>5. Len(f) = n /\ Len(g) = n - 1
  BY <1>1, <1>3, <1>4, LenProperties
<1>6. f # <<>>
  BY <1>3, <1>5, EmptySeq
<1>7. /\ Head(f) = f[1] /\ Tail(f) \in Seq(S) /\ Len(Tail(f)) = n - 1
      /\ \A i \in 1 .. Len(Tail(f)) : Tail(f)[i] = f[i + 1]
  BY <1>3, <1>5, <1>6, HeadTailProperties
<1>8. f[1] = W[Len(W) - n + 1]
  BY <1>1 DEF LastOf
<1>9. ASSUME n = 1 PROVE Tail(f) = <<>>
  BY <1>7, <1>9, EmptySeq
<1>10. \A i \in 1 .. Len(g) : Tail(f)[i] = g[i]
  <2> SUFFICES ASSUME NEW i \in 1 .. n - 1
               PROVE  f[i + 1] = g[i]
    BY <1>5, <1>7
  <2> QED BY <1>1 DEF LastOf
<1>11. Tail(f) = g
  BY <1>3, <1>5, <1>7, <1>10, SeqEqual
<1> QED BY <1>5, <1>6, <1>7, <1>8, <1>9, <1>11

(* The last calls of a list, all of them, are the list.                     *)
LEMMA LastOfAll ==
  ASSUME NEW S, NEW W \in Seq(S)
  PROVE  LastOf(W, Len(W)) = W
<1>1. DOMAIN W = 1 .. Len(W) /\ Len(W) \in Nat
  BY LenProperties
<1>2. W = [i \in 1 .. Len(W) |-> W[i]]
  BY <1>1, SeqDef
<1>3. \A i \in 1 .. Len(W) : Len(W) - Len(W) + i = i
  BY <1>1
<1> QED BY <1>2, <1>3 DEF LastOf

(* Facts about the two lists of calls: how long they are, and what each call *)
(* writes.                                                                  *)
Calls == {"boot_slot", "upgrade_available", "bootcount", "bootlimit", "ota_system_done"}
           \X (Slots \cup Nat)

UpgradeCallsAre(W, s) ==
  /\ W \in Seq(Calls) /\ Len(W) = 5
  /\ W[1] = <<"upgrade_available", 1>> /\ W[2] = <<"bootcount", 0>>
  /\ W[3] = <<"bootlimit", BootLimit>> /\ W[4] = <<"ota_system_done", 0>>
  /\ W[5] = <<"boot_slot", s>>

ConfirmCallsAre(W) ==
  /\ W \in Seq(Calls) /\ Len(W) = 3
  /\ W[1] = <<"upgrade_available", 0>> /\ W[2] = <<"ota_system_done", 1>>
  /\ W[3] = <<"bootcount", 0>>

(* The five calls that switch to a slot.                                    *)
LEMMA UpgradeCalls ==
  ASSUME NEW s \in Slots
  PROVE  UpgradeCallsAre(UpgradeWrites(s), s)
  BY SystemSlotsAssumption DEF UpgradeCallsAre, UpgradeWrites, Calls

(* The calls that confirm it.                                               *)
LEMMA ConfirmCalls == ConfirmCallsAre(ConfirmWrites)
  BY DEF ConfirmCallsAre, ConfirmWrites, Calls

(* One call is made: what it is and what is left.                           *)
LEMMA CallMade ==
  ASSUME NEW W \in Seq(Calls), NEW n \in 1 .. Len(W), todo = LastOf(W, n),
         todo' = Tail(todo)
  PROVE  /\ Len(todo) = n /\ Head(todo) = W[Len(W) - n + 1]
         /\ n = 1 => todo' = <<>>
         /\ n > 1 => /\ todo' = LastOf(W, n - 1) /\ Len(todo') = n - 1 /\ todo' # <<>>
                     /\ n - 1 \in 1 .. Len(W)
<1>1. Len(W) \in Nat
  BY LenProperties
<1>2. n > 1 => n - 1 \in 1 .. Len(W)
  BY <1>1
<1> QED BY <1>2, LastOfStep

(* There are two slots.                                                     *)
LEMMA OtherSlot ==
  ASSUME NEW s \in Slots
  PROVE  Other(s) \in Slots /\ Other(s) # s /\ Other(Other(s)) = s
         /\ \A t \in Slots : t # s => t = Other(s)
  BY DEF Slots, Other

(* One good slot is set at the start.                                       *)
LEMMA SlotsInitInv == SlotsInit => SlotsInv
<1> SUFFICES ASSUME SlotsInit
             PROVE  SlotsInv
  OBVIOUS
<1>1. env \in Env /\ env.boot_slot = "_a"
  BY SystemSlotsAssumption DEF SlotsInit, Env, Slots
<1>2. image \in [Slots -> {"good", "bad", "partial"}] /\ image["_a"] = "good"
  BY DEF SlotsInit, Slots
<1>3. installs \in [all : 0 .. MaxInstalls, thisBoot : 0 .. InstallsPerBoot]
  BY SystemSlotsAssumption DEF SlotsInit
<1>4. SlotsTypeOK
  <2>1. Len(todo) <= 5 /\ resets \in 0 .. MaxResets /\ faults \in 0 .. MaxFaults
    BY SystemSlotsAssumption DEF SlotsInit
  <2>2. bootedSlot \in Slots
    BY DEF SlotsInit, Slots
  <2> QED BY <1>1, <1>2, <1>3, <2>1, <2>2 DEF SlotsInit, SlotsTypeOK
<1> QED BY <1>1, <1>2, <1>4 DEF SlotsInit, SlotsInv, NeverBricked

(* One fw_setenv of a task.                                                  *)
LEMMA SetEnvKeeps == InstallsPerBoot <= 1 /\ SlotsInv /\ SetEnv => SlotsInv'
<1> SUFFICES ASSUME SlotsInv, SetEnv
             PROVE  SlotsInv'
  OBVIOUS
<1>1. /\ SlotsTypeOK /\ NeverBricked /\ task \in {"upgrade", "confirm"} /\ proc
      /\ machine = "up" /\ image[bootedSlot] = "good"
      /\ UNCHANGED <<image, bootedSlot, machine, proc, timer, counters, early>>
      /\ todo' = Tail(todo)
  BY DEF SlotsInv, SetEnv, SlotsTypeOK
<1>2. bootedSlot \in Slots /\ env \in Env /\ env.boot_slot \in Slots /\ BootLimit \in Nat
  BY <1>1, SystemSlotsAssumption DEF SlotsTypeOK, Env
<1>3. ASSUME task = "upgrade", NEW W, W = UpgradeWrites(Other(bootedSlot)),
             UpgradeCallsAre(W, Other(bootedSlot)), NEW n \in 1 .. 5, todo = LastOf(W, n)
      PROVE  SlotsInv'
  <2>1. W \in Seq(Calls) /\ Len(W) = 5 /\ n \in 1 .. Len(W)
    BY <1>3 DEF UpgradeCallsAre
  <2>2. /\ Len(todo) = n /\ Head(todo) = W[Len(W) - n + 1]
        /\ n = 1 => todo' = <<>>
        /\ n > 1 => /\ todo' = LastOf(W, n - 1) /\ Len(todo') = n - 1 /\ todo' # <<>>
                    /\ n - 1 \in 1 .. Len(W)
    BY <1>1, <1>3, <2>1, CallMade
  <2>3. /\ env.boot_slot = bootedSlot /\ installs.thisBoot = InstallsPerBoot
        /\ n < 5 => env.upgrade_available = 1
    BY <1>3, <2>2 DEF SlotsInv
  <2>4. PICK i \in 1 .. 5 : i = 6 - n
    OBVIOUS
  <2>5. env' = [env EXCEPT ![W[i][1]] = W[i][2]]
    <3>1. Head(todo) = W[i]
      BY <2>1, <2>2, <2>4
    <3>2. PICK call : call = Head(todo)
      OBVIOUS
    <3>3. env' = [env EXCEPT ![call[1]] = call[2]]
      BY <3>2 DEF SetEnv
    <3> QED BY <3>1, <3>2, <3>3
  <2>6. /\ env' \in Env
        /\ env'.boot_slot = IF i = 5 THEN Other(bootedSlot) ELSE bootedSlot
        /\ env'.upgrade_available = 1
    <3>1. i # 1 => env.upgrade_available = 1
      BY <2>3, <2>4
    <3>2. CASE i = 1
      <4>1. W[i][1] = "upgrade_available" /\ W[i][2] = 1
        BY <1>3, <3>2 DEF UpgradeCallsAre
      <4>2. env' = [env EXCEPT !.upgrade_available = 1]
        BY <2>5, <4>1
      <4> QED BY <1>2, <2>3, <3>2, <4>1, <4>2 DEF Env
    <3>3. CASE i = 2
      <4>1. W[i][1] = "bootcount" /\ W[i][2] = 0
        BY <1>3, <3>3 DEF UpgradeCallsAre
      <4>2. env' = [env EXCEPT !.bootcount = 0]
        BY <2>5, <4>1
      <4> QED BY <1>2, <2>3, <3>1, <3>3, <4>1, <4>2 DEF Env
    <3>4. CASE i = 3
      <4>1. W[i][1] = "bootlimit" /\ W[i][2] \in Nat
        BY <1>2, <1>3, <3>4 DEF UpgradeCallsAre
      <4>2. env' = [env EXCEPT !.bootlimit = W[i][2]]
        BY <2>5, <4>1
      <4> QED BY <1>2, <2>3, <3>1, <3>4, <4>1, <4>2 DEF Env
    <3>5. CASE i = 4
      <4>1. W[i][1] = "ota_system_done" /\ W[i][2] = 0
        BY <1>3, <3>5 DEF UpgradeCallsAre
      <4>2. env' = [env EXCEPT !.ota_system_done = 0]
        BY <2>5, <4>1
      <4> QED BY <1>2, <2>3, <3>1, <3>5, <4>1, <4>2 DEF Env
    <3>6. CASE i = 5
      <4>1. W[i][1] = "boot_slot" /\ W[i][2] = Other(bootedSlot)
        BY <1>3, <3>6 DEF UpgradeCallsAre
      <4>2. env' = [env EXCEPT !.boot_slot = Other(bootedSlot)]
        BY <2>5, <4>1
      <4> QED BY <1>2, <2>3, <3>1, <3>6, <4>1, <4>2, OtherSlot DEF Env
    <3> QED BY <3>2, <3>3, <3>4, <3>5, <3>6
  <2>7. NeverBricked'
    BY <1>1, <1>2, <2>6, OtherSlot DEF NeverBricked
  <2>8. task' = IF n = 1 THEN "none" ELSE "upgrade"
    BY <1>3, <2>2 DEF SetEnv
  <2>9. Len(todo') <= 5 /\ procQuits' \in BOOLEAN
    BY <1>1, <2>2, EmptySeq DEF SetEnv, SlotsTypeOK
  <2>10. SlotsTypeOK'
    BY <1>1, <2>6, <2>8, <2>9 DEF SlotsTypeOK, counters
  <2>11. n > 1 => LeftOf(UpgradeWrites(Other(bootedSlot)))'
    <3>1. bootedSlot' = bootedSlot
      BY <1>1
    <3>2. UpgradeWrites(Other(bootedSlot))' = W
      BY <1>3, <3>1 DEF UpgradeWrites, Other
    <3> QED BY <2>2, <3>2 DEF LeftOf
  <2>12. i = 5 <=> n = 1
    BY <2>4
  <2> QED
    BY <1>1, <2>2, <2>3, <2>6, <2>7, <2>8, <2>10, <2>11, <2>12 DEF SlotsInv, counters
<1>4. ASSUME task = "confirm", NEW W, W = ConfirmWrites, ConfirmCallsAre(W),
             NEW n \in 1 .. 3, todo = LastOf(W, n)
      PROVE  SlotsInv'
  <2>1. W \in Seq(Calls) /\ Len(W) = 3 /\ n \in 1 .. Len(W)
    BY <1>4 DEF ConfirmCallsAre
  <2>2. /\ Len(todo) = n /\ Head(todo) = W[Len(W) - n + 1]
        /\ n = 1 => todo' = <<>>
        /\ n > 1 => /\ todo' = LastOf(W, n - 1) /\ Len(todo') = n - 1 /\ todo' # <<>>
                    /\ n - 1 \in 1 .. Len(W)
    BY <1>1, <1>4, <2>1, CallMade
  <2>3. early \/ env.boot_slot = bootedSlot
    BY <1>4 DEF SlotsInv
  <2>4. PICK i \in 1 .. 3 : i = 4 - n
    OBVIOUS
  <2>5. env' = [env EXCEPT ![W[i][1]] = W[i][2]]
    <3>1. Head(todo) = W[i]
      BY <2>1, <2>2, <2>4
    <3>2. PICK call : call = Head(todo)
      OBVIOUS
    <3>3. env' = [env EXCEPT ![call[1]] = call[2]]
      BY <3>2 DEF SetEnv
    <3> QED BY <3>1, <3>2, <3>3
  <2>6. env' \in Env /\ env'.boot_slot = env.boot_slot
    <3>1. CASE i = 1
      <4>1. W[i][1] = "upgrade_available" /\ W[i][2] = 0
        BY <1>4, <3>1 DEF ConfirmCallsAre
      <4>2. env' = [env EXCEPT !.upgrade_available = 0]
        BY <2>5, <4>1
      <4> QED BY <1>2, <4>1, <4>2 DEF Env
    <3>2. CASE i = 2
      <4>1. W[i][1] = "ota_system_done" /\ W[i][2] = 1
        BY <1>4, <3>2 DEF ConfirmCallsAre
      <4>2. env' = [env EXCEPT !.ota_system_done = 1]
        BY <2>5, <4>1
      <4> QED BY <1>2, <4>1, <4>2 DEF Env
    <3>3. CASE i = 3
      <4>1. W[i][1] = "bootcount" /\ W[i][2] = 0
        BY <1>4, <3>3 DEF ConfirmCallsAre
      <4>2. env' = [env EXCEPT !.bootcount = 0]
        BY <2>5, <4>1
      <4> QED BY <1>2, <4>1, <4>2 DEF Env
    <3> QED BY <3>1, <3>2, <3>3
  <2>7. NeverBricked'
    BY <1>1, <2>3, <2>6 DEF NeverBricked
  <2>8. task' = IF n = 1 THEN "none" ELSE "confirm"
    BY <1>4, <2>2 DEF SetEnv
  <2>9. Len(todo') <= 5 /\ procQuits' \in BOOLEAN
    BY <1>1, <2>2, EmptySeq DEF SetEnv, SlotsTypeOK
  <2>10. SlotsTypeOK'
    BY <1>1, <2>6, <2>8, <2>9 DEF SlotsTypeOK, counters
  <2>11. n > 1 => LeftOf(ConfirmWrites)'
    BY <1>4, <2>2 DEF LeftOf, ConfirmWrites
  <2>12. machine = "up" /\ env.boot_slot # bootedSlot => installs.thisBoot = InstallsPerBoot
    BY DEF SlotsInv
  <2> QED
    BY <1>1, <2>2, <2>3, <2>6, <2>7, <2>8, <2>10, <2>11, <2>12 DEF SlotsInv, counters
<1>5. CASE task = "upgrade"
  <2>1. PICK W : W = UpgradeWrites(Other(bootedSlot))
    OBVIOUS
  <2>2. UpgradeCallsAre(W, Other(bootedSlot)) /\ Len(W) = 5
    BY <1>2, <2>1, OtherSlot, UpgradeCalls DEF UpgradeCallsAre
  <2>3. PICK n \in 1 .. Len(W) : todo = LastOf(W, n)
    BY <1>5, <2>1 DEF SlotsInv, LeftOf
  <2> QED BY <1>3, <1>5, <2>1, <2>2, <2>3
<1>6. CASE task = "confirm"
  <2>1. PICK W : W = ConfirmWrites
    OBVIOUS
  <2>2. ConfirmCallsAre(W) /\ Len(W) = 3
    BY <2>1, ConfirmCalls DEF ConfirmCallsAre
  <2>3. PICK n \in 1 .. Len(W) : todo = LastOf(W, n)
    BY <1>6, <2>1 DEF SlotsInv, LeftOf
  <2> QED BY <1>4, <1>6, <2>1, <2>2, <2>3
<1> QED BY <1>1, <1>5, <1>6

(* Writing the other slot keeps the invariant.                              *)
LEMMA InstallKeeps ==
  InstallsPerBoot <= 1 /\ SlotsInv /\ (InstallBegins \/ InstallEnds) => SlotsInv'
<1> SUFFICES ASSUME InstallsPerBoot <= 1, SlotsInv, InstallBegins \/ InstallEnds
             PROVE  SlotsInv'
  OBVIOUS
<1>1. /\ SlotsTypeOK /\ proc /\ machine = "up" /\ image[bootedSlot] = "good" /\ todo = <<>>
      /\ bootedSlot \in Slots /\ InstallsPerBoot \in Nat
  BY SystemSlotsAssumption DEF SlotsInv, InstallBegins, InstallEnds, SlotsTypeOK
<1>2. env.boot_slot = bootedSlot
  <2>1. InstallBegins => installs.thisBoot # InstallsPerBoot
    BY <1>1 DEF InstallBegins, SlotsTypeOK
  <2> QED BY <1>1, <2>1 DEF SlotsInv, InstallEnds
<1>3. Other(bootedSlot) \in Slots /\ Other(bootedSlot) # bootedSlot
  BY <1>1, OtherSlot
<1>4. /\ image' \in [Slots -> {"good", "bad", "partial"}] /\ image'[bootedSlot] = "good"
      /\ UNCHANGED <<env, bootedSlot, machine, proc, timer, procQuits, resets, faults, early>>
  BY <1>1, <1>2, <1>3 DEF InstallBegins, InstallEnds, SlotsTypeOK, counters
<1>5. NeverBricked'
  BY <1>2, <1>4 DEF NeverBricked
<1>6. CASE InstallBegins
  <2>1. /\ installs'.thisBoot = InstallsPerBoot /\ task' = "swupdate" /\ todo' = <<>>
        /\ installs' \in [all : 0 .. MaxInstalls, thisBoot : 0 .. InstallsPerBoot]
    BY <1>1, <1>6, SystemSlotsAssumption DEF InstallBegins, SlotsTypeOK
  <2>2. SlotsTypeOK'
    BY <1>1, <1>4, <2>1 DEF SlotsTypeOK
  <2> QED BY <1>1, <1>2, <1>4, <1>5, <2>1, <2>2 DEF SlotsInv
<1>7. CASE InstallEnds
  <2>1. installs' = installs /\ installs.thisBoot = InstallsPerBoot
    BY <1>7 DEF InstallEnds, SlotsInv, counters
  <2>2. CASE task' = "none" /\ todo' = <<>>
    <3>1. SlotsTypeOK'
      BY <1>1, <1>4, <2>1, <2>2 DEF SlotsTypeOK
    <3> QED BY <1>1, <1>2, <1>4, <1>5, <2>1, <2>2, <3>1 DEF SlotsInv
  <2>3. CASE task' = "upgrade" /\ todo' = UpgradeWrites(Other(env.boot_slot))
    <3>1. PICK W : W = UpgradeWrites(Other(bootedSlot))
      OBVIOUS
    <3>2. W \in Seq(Calls) /\ Len(W) = 5
      BY <1>3, <3>1, UpgradeCalls DEF UpgradeCallsAre
    <3>3. todo' = LastOf(W, Len(W)) /\ 5 \in 1 .. Len(W)
      <4>1. LastOf(W, Len(W)) = W
        BY <3>2, LastOfAll
      <4> QED BY <1>2, <2>3, <3>1, <3>2, <4>1
    <3>4. UpgradeWrites(Other(bootedSlot))' = W
      BY <1>4, <3>1 DEF UpgradeWrites, Other
    <3>5. LeftOf(UpgradeWrites(Other(bootedSlot)))' /\ Len(todo') = 5
      BY <1>2, <2>3, <3>1, <3>2, <3>3, <3>4 DEF LeftOf
    <3>6. SlotsTypeOK'
      BY <1>1, <1>4, <2>1, <2>3, <3>5 DEF SlotsTypeOK
    <3> QED BY <1>1, <1>2, <1>4, <1>5, <2>1, <2>3, <3>5, <3>6 DEF SlotsInv
  <2> QED BY <1>1, <1>7, <2>2, <2>3 DEF InstallEnds
<1> QED BY <1>6, <1>7

(* So does the timer that confirms.                                         *)
LEMMA ConfirmTimerKeeps == SlotsInv /\ ConfirmTimer => SlotsInv'
<1> SUFFICES ASSUME SlotsInv, ConfirmTimer
             PROVE  SlotsInv'
  OBVIOUS
<1>1. /\ UNCHANGED <<image, env, bootedSlot, machine, proc, procQuits, counters>>
      /\ task' = "confirm" /\ timer' = FALSE /\ todo' = ConfirmWrites /\ proc
      /\ early' \in BOOLEAN
      /\ early => early'
      /\ early' \/ env.boot_slot = bootedSlot
  BY DEF ConfirmTimer, SlotsInv, SlotsTypeOK
<1>2. PICK W : W = ConfirmWrites
  OBVIOUS
<1>3. W \in Seq(Calls) /\ Len(W) = 3
  BY <1>2, ConfirmCalls DEF ConfirmCallsAre
<1>4. todo' = LastOf(W, Len(W)) /\ 3 \in 1 .. Len(W)
  <2>1. LastOf(W, Len(W)) = W
    BY <1>3, LastOfAll
  <2> QED BY <1>1, <1>2, <1>3, <2>1
<1>5. LeftOf(ConfirmWrites)' /\ Len(todo') = 3
  BY <1>1, <1>2, <1>3, <1>4 DEF LeftOf, ConfirmWrites
<1>6. NeverBricked'
  BY <1>1 DEF NeverBricked, SlotsInv
<1>7. SlotsTypeOK'
  <2>1. SlotsTypeOK
    BY DEF SlotsInv
  <2>2. Len(todo') <= 5
    BY <1>5
  <2> QED BY <1>1, <2>1, <2>2 DEF SlotsTypeOK, counters
<1> QED BY <1>1, <1>5, <1>6, <1>7 DEF SlotsInv, counters

(* U-Boot: whichever slot it takes, a slot that the environment leads to    *)
(* holds a good system afterwards if one did before.                        *)
LEMMA UBootKeeps == SlotsInv /\ UBoot => SlotsInv'
<1> SUFFICES ASSUME SlotsInv, UBoot
             PROVE  SlotsInv'
  OBVIOUS
<1>1. /\ SlotsTypeOK /\ NeverBricked /\ machine = "boot" /\ ~ proc /\ task = "none"
      /\ todo = <<>> /\ env \in Env /\ env.boot_slot \in Slots /\ BootLimit \in Nat
  BY SystemSlotsAssumption DEF SlotsInv, UBoot, SlotsTypeOK, Env
<1>2. PICK top \in Nat, slot \in Slots :
        /\ env' = [env EXCEPT !.bootcount = top, !.boot_slot = slot] /\ bootedSlot' = slot
        /\ \/ slot = env.boot_slot
           \/ env.upgrade_available = 1 /\ slot = Other(env.boot_slot)
  <2> DEFINE count == IF env.upgrade_available = 1 THEN env.bootcount + 1 ELSE env.bootcount
             over  == env.upgrade_available = 1 /\ count > env.bootlimit
             newSlot == IF over THEN Other(env.boot_slot) ELSE env.boot_slot
             newTop == IF count > BootLimit + 1 THEN BootLimit + 1 ELSE count
  <2>1. newSlot \in Slots
    BY <1>1, OtherSlot
  <2>2. newTop \in Nat
    BY <1>1 DEF Env
  <2>3. /\ env' = [env EXCEPT !.bootcount = newTop, !.boot_slot = newSlot]
        /\ bootedSlot' = newSlot
    BY DEF UBoot
  <2>4. \/ newSlot = env.boot_slot
        \/ env.upgrade_available = 1 /\ newSlot = Other(env.boot_slot)
    OBVIOUS
  <2> HIDE DEF newSlot, newTop
  <2> QED BY <2>1, <2>2, <2>3, <2>4
<1>3. /\ env' \in Env /\ env'.boot_slot = slot
      /\ env'.upgrade_available = env.upgrade_available
  BY <1>1, <1>2 DEF Env
<1>4. /\ UNCHANGED <<image, proc, timer, task, todo, procQuits, resets, faults, early>>
      /\ machine' = "up" /\ installs' = [installs EXCEPT !.thisBoot = 0]
  BY DEF UBoot, procVars
<1>5. NeverBricked'
  BY <1>1, <1>2, <1>3, <1>4, OtherSlot DEF NeverBricked
<1>6. installs' \in [all : 0 .. MaxInstalls, thisBoot : 0 .. InstallsPerBoot]
  BY <1>1, <1>4, SystemSlotsAssumption DEF SlotsTypeOK
<1>7. SlotsTypeOK'
  BY <1>1, <1>2, <1>3, <1>4, <1>6 DEF SlotsTypeOK
<1> QED BY <1>1, <1>2, <1>3, <1>4, <1>5, <1>7 DEF SlotsInv

(* Every step keeps it while a boot installs at most once.                  *)
LEMMA SlotsStep == InstallsPerBoot <= 1 /\ SlotsInv /\ [SlotsNext]_slotVars => SlotsInv'
<1> SUFFICES ASSUME InstallsPerBoot <= 1, SlotsInv, [SlotsNext]_slotVars
             PROVE  SlotsInv'
  OBVIOUS
<1>1. CASE SetEnvFails
  <2>1. /\ UNCHANGED <<image, env, bootedSlot, machine, proc, timer, procQuits, installs,
                       resets, early>>
        /\ todo' = <<>> /\ task' = "none" /\ faults' \in 0 .. MaxFaults
    BY <1>1, SystemSlotsAssumption DEF SetEnvFails, SlotsInv, SlotsTypeOK
  <2>2. SlotsTypeOK'
    <3>1. SlotsTypeOK /\ Len(todo') <= 5
      BY <2>1, EmptySeq DEF SlotsInv
    <3> QED BY <2>1, <3>1 DEF SlotsTypeOK
  <2> QED BY <2>1, <2>2 DEF SlotsInv, NeverBricked
<1>2. CASE ProcessStart \/ ProcessQuit
  <2>1. /\ UNCHANGED <<image, env, bootedSlot, machine, task, todo, counters, early>>
        /\ {proc', timer', procQuits'} \subseteq BOOLEAN
        /\ proc' => machine = "up" /\ image[bootedSlot] = "good"
        /\ task = "none"
    BY <1>2 DEF ProcessStart, ProcessQuit, SlotsInv, SlotsTypeOK
  <2>2. SlotsTypeOK'
    BY <2>1 DEF SlotsInv, SlotsTypeOK, counters
  <2> QED BY <2>1, <2>2 DEF SlotsInv, NeverBricked, counters
<1>3. CASE Reset
  <2>1. /\ UNCHANGED <<image, env, bootedSlot, installs, faults, early>>
        /\ proc' = FALSE /\ timer' = FALSE /\ procQuits' = FALSE /\ machine' = "boot"
        /\ todo' = <<>> /\ task' = "none" /\ resets' \in 0 .. MaxResets
    BY <1>3, SystemSlotsAssumption DEF Reset, SlotsInv, SlotsTypeOK
  <2>2. SlotsTypeOK'
    <3>1. SlotsTypeOK /\ Len(todo') <= 5
      BY <2>1, EmptySeq DEF SlotsInv
    <3> QED BY <2>1, <3>1 DEF SlotsTypeOK
  <2> QED BY <2>1, <2>2 DEF SlotsInv, NeverBricked
<1>4. CASE UNCHANGED slotVars
  <2>1. UNCHANGED <<image, env, bootedSlot, machine, proc, timer, task, todo, procQuits,
                    installs, resets, faults, early>>
    BY <1>4 DEF slotVars, procVars, counters
  <2> QED
    BY <2>1 DEF SlotsInv, SlotsTypeOK, NeverBricked, LeftOf, UpgradeWrites, ConfirmWrites,
                Other
<1> QED
  BY <1>1, <1>2, <1>3, <1>4, SetEnvKeeps, InstallKeeps, ConfirmTimerKeeps, UBootKeeps
  DEF SlotsNext, Client

(* When the machine is booted between two system installs, a power cycle at  *)
(* any moment leads to a good system - unless the old system has confirmed   *)
(* the upgrade (ota.c, ota_system_install and ota_system_set_upgrade_env,    *)
(* swupdate and fw_setenv; main.cpp's 60 s timer).                           *)
THEOREM NeverBrickedHolds ==
  ASSUME InstallsPerBoot <= 1
  PROVE  SlotsSpec => []NeverBricked
<1>1. SlotsInv => NeverBricked
  BY DEF SlotsInv
<1>2. SlotsInv /\ [SlotsNext]_slotVars => SlotsInv'
  BY SlotsStep
<1> QED BY <1>1, <1>2, SlotsInitInv, PTL DEF SlotsSpec

(* ... and swupdate never writes to the slot that runs (ota.h:81).  It does  *)
(* for a second install before the machine is booted.                       *)
THEOREM RunningImageKept ==
  ASSUME InstallsPerBoot <= 1
  PROVE  SlotsSpec => RunningImageUntouched
<1>1. SlotsInv /\ [SlotsNext]_slotVars => [image'[bootedSlot] = image[bootedSlot]]_slotVars
  <2> SUFFICES ASSUME SlotsInv, SlotsNext
               PROVE  image'[bootedSlot] = image[bootedSlot]
    OBVIOUS
  <2>1. CASE InstallBegins \/ InstallEnds
    <3>1. image \in [Slots -> {"good", "bad", "partial"}] /\ bootedSlot \in Slots
      BY DEF SlotsInv, SlotsTypeOK
    <3>2. env.boot_slot = bootedSlot
      BY <2>1, SystemSlotsAssumption DEF SlotsInv, InstallBegins, InstallEnds, SlotsTypeOK
    <3> QED BY <2>1, <3>1, <3>2, OtherSlot DEF InstallBegins, InstallEnds
  <2>2. CASE ~ (InstallBegins \/ InstallEnds)
    BY <2>2 DEF SlotsNext, Client, ConfirmTimer, SetEnv, ProcessStart, ProcessQuit,
                SetEnvFails, Reset, UBoot
  <2> QED BY <2>1, <2>2
<1>2. SlotsInv /\ [SlotsNext]_slotVars => SlotsInv'
  BY SlotsStep
<1> QED BY <1>1, <1>2, SlotsInitInv, PTL DEF SlotsSpec, RunningImageUntouched

(* The confirmation's first call clears the mark, the others leave it.        *)
LEMMA ConfirmCallMade ==
  ASSUME SlotsInv, SetEnv, task = "confirm",
         Len(todo) < 3 => env.upgrade_available = 0
  PROVE  env'.upgrade_available = 0
<1>1. todo' = Tail(todo) /\ env \in Env
  BY DEF SetEnv, SlotsInv, SlotsTypeOK
<1>2. PICK W : W = ConfirmWrites
  OBVIOUS
<1>3. ConfirmCallsAre(W) /\ W \in Seq(Calls) /\ Len(W) = 3
  BY <1>2, ConfirmCalls DEF ConfirmCallsAre
<1>4. PICK n \in 1 .. 3 : todo = LastOf(W, n)
  BY <1>2, <1>3 DEF SlotsInv, LeftOf
<1>5. PICK i \in 1 .. 3 : i = 4 - n
  OBVIOUS
<1>6. Len(todo) = n /\ Head(todo) = W[i]
  <2>1. n \in 1 .. Len(W)
    BY <1>3
  <2>2. Len(todo) = n /\ Head(todo) = W[Len(W) - n + 1]
    BY <1>1, <1>3, <1>4, <2>1, CallMade
  <2> QED BY <1>3, <1>5, <2>2
<1>7. env' = [env EXCEPT ![W[i][1]] = W[i][2]]
  <2>1. PICK call : call = Head(todo)
    OBVIOUS
  <2>2. env' = [env EXCEPT ![call[1]] = call[2]]
    BY <2>1 DEF SetEnv
  <2> QED BY <1>6, <2>1, <2>2
<1>8. CASE i = 1
  <2>1. W[i][1] = "upgrade_available" /\ W[i][2] = 0
    BY <1>3, <1>8 DEF ConfirmCallsAre
  <2>2. env' = [env EXCEPT !.upgrade_available = 0]
    BY <1>7, <2>1
  <2> QED BY <1>1, <2>2 DEF Env
<1>9. CASE i \in {2, 3}
  <2>1. PICK name, value : name = W[i][1] /\ value = W[i][2]
    OBVIOUS
  <2>2. name \in {"ota_system_done", "bootcount"}
    BY <1>3, <1>9, <2>1 DEF ConfirmCallsAre
  <2>3. env' = [env EXCEPT ![name] = value]
    BY <1>7, <2>1
  <2>4. env.upgrade_available = 0
    BY <1>5, <1>6, <1>9
  <2> QED BY <1>1, <2>2, <2>3, <2>4 DEF Env
<1> QED BY <1>8, <1>9

(* The upgrade's last call names the slot that does not run.                  *)
LEMMA UpgradeEnds ==
  ASSUME SlotsInv, SetEnv, task = "upgrade", todo' = <<>>
  PROVE  env'.boot_slot # bootedSlot
<1>1. todo' = Tail(todo) /\ env \in Env /\ bootedSlot \in Slots
  BY DEF SetEnv, SlotsInv, SlotsTypeOK
<1>2. PICK W : W = UpgradeWrites(Other(bootedSlot))
  OBVIOUS
<1>3. UpgradeCallsAre(W, Other(bootedSlot)) /\ W \in Seq(Calls) /\ Len(W) = 5
  BY <1>1, <1>2, OtherSlot, UpgradeCalls DEF UpgradeCallsAre
<1>4. PICK n \in 1 .. 5 : todo = LastOf(W, n)
  BY <1>2, <1>3 DEF SlotsInv, LeftOf
<1>5. n \in 1 .. Len(W)
  BY <1>3
<1>6. Head(todo) = W[5]
  <2>1. /\ Head(todo) = W[Len(W) - n + 1]
        /\ n > 1 => todo' # <<>>
    BY <1>1, <1>3, <1>4, <1>5, CallMade
  <2>2. n = 1
    BY <2>1
  <2> QED BY <1>3, <2>1, <2>2
<1>7. W[5][1] = "boot_slot" /\ W[5][2] = Other(bootedSlot)
  BY <1>3 DEF UpgradeCallsAre
<1>8. PICK call : call = Head(todo)
  OBVIOUS
<1>9. env' = [env EXCEPT ![call[1]] = call[2]]
  BY <1>8 DEF SetEnv
<1>10. env' = [env EXCEPT !.boot_slot = Other(bootedSlot)]
  BY <1>6, <1>7, <1>8, <1>9
<1> QED BY <1>1, <1>10, OtherSlot DEF Env

(* Nothing is on trial at the start.                                         *)
LEMMA TrialInitially == SlotsInit => TrialInv
BY DEF SlotsInit, TrialInv, ConfirmationDue

(* A step of the environment's switch or confirmation keeps a trial in order. *)
LEMMA SetEnvTrial == SlotsInv /\ TrialInv /\ SetEnv => TrialInv'
<1> SUFFICES ASSUME SlotsInv, TrialInv, SetEnv PROVE TrialInv'
  OBVIOUS
<1>1. /\ proc /\ image[bootedSlot] = "good" /\ task \in {"upgrade", "confirm"}
      /\ UNCHANGED <<image, bootedSlot, machine, proc, timer, counters, early>>
      /\ task' = IF todo' = <<>> THEN "none" ELSE task
  BY DEF SlotsInv, SlotsTypeOK, SetEnv
<1>2. CASE task = "confirm"
  <2>1. env'.upgrade_available = 0
    BY <1>2, ConfirmCallMade DEF TrialInv
  <2> QED BY <1>1, <2>1 DEF TrialInv, ConfirmationDue
<1>3. CASE task = "upgrade"
  <2>1. todo' # <<>> \/ env'.boot_slot # bootedSlot
    BY <1>3, UpgradeEnds
  <2> QED BY <1>1, <1>3, <2>1 DEF TrialInv, ConfirmationDue
<1> QED BY <1>1, <1>2, <1>3

(* So does every other step: a timer that is used up has made its task, a      *)
(* failed call is a fault, and whoever starts sets the timer.                *)
LEMMA TrialStep ==
  SlotsInv /\ SlotsInv' /\ TrialInv /\ [SlotsNext]_slotVars => TrialInv'
<1> SUFFICES ASSUME SlotsInv, SlotsInv', TrialInv, [SlotsNext]_slotVars PROVE TrialInv'
  OBVIOUS
<1> USE DEF TrialInv, ConfirmationDue
<1>a. faults \in Nat /\ (task # "none" => proc) /\ (proc => machine = "up")
      /\ (proc' => image'[bootedSlot'] = "good")
  BY SystemSlotsAssumption DEF SlotsInv, SlotsTypeOK
<1>1. CASE InstallBegins \/ InstallEnds
  BY <1>1, <1>a DEF InstallBegins, InstallEnds, counters
<1>2. CASE ConfirmTimer
  <2>1. Len(todo') = 3
    BY <1>2, ConfirmCalls DEF ConfirmTimer, ConfirmCallsAre
  <2> QED BY <1>2, <1>a, <2>1 DEF ConfirmTimer, counters
<1>3. CASE SetEnvFails
  BY <1>3, <1>a DEF SetEnvFails
<1>4. CASE ProcessStart
  BY <1>4, <1>a DEF ProcessStart, counters, SlotsInv
<1>5. CASE ProcessQuit
  BY <1>5, <1>a DEF ProcessQuit, counters
<1>6. CASE Reset
  BY <1>6 DEF Reset
<1>7. CASE UBoot
  <2>1. /\ ~proc' /\ task' # "confirm"
    BY <1>7, <1>a DEF UBoot, procVars
  <2>2. env'.boot_slot = bootedSlot'
    <3>1. env \in Env
      BY DEF SlotsInv, SlotsTypeOK
    <3>2. PICK top, slot :
            env' = [env EXCEPT !.bootcount = top, !.boot_slot = slot] /\ bootedSlot' = slot
      BY <1>7 DEF UBoot
    <3> QED BY <3>1, <3>2 DEF Env
  <2> QED BY <2>1, <2>2
<1>8. CASE UNCHANGED slotVars
  BY <1>8 DEF slotVars, procVars, counters
<1> QED BY <1>1, <1>2, <1>3, <1>4, <1>5, <1>6, <1>7, <1>8, SetEnvTrial DEF SlotsNext, Client

(* When the machine is booted between two system installs: a system that does  *)
(* not come up is on trial, with a good one to fall back to, through every     *)
(* power failure and every failing call - unless the old system has confirmed  *)
(* the upgrade (ota.c, ota_system_set_upgrade_env; README.md:79).  It is what  *)
(* BadSystemAbandoned rests on.                                              *)
THEOREM BadSystemOnTrial ==
  ASSUME InstallsPerBoot <= 1
  PROVE  SlotsSpec => []FallbackReady
<1>1. SlotsInv /\ TrialInv => FallbackReady
  BY DEF SlotsInv, TrialInv, NeverBricked, FallbackReady
<1>2. SlotsInv /\ [SlotsNext]_slotVars => SlotsInv'
  BY SlotsStep
<1> QED BY <1>1, <1>2, SlotsInitInv, TrialInitially, TrialStep, PTL DEF SlotsSpec

(* ... and a new system whose client runs still has its confirmation to come,  *)
(* whatever was started, quit or cut off in between (main.cpp:62-73): what     *)
(* HealthyUpgradeConfirmed rests on.                                         *)
THEOREM ConfirmationIsDue ==
  ASSUME InstallsPerBoot <= 1
  PROVE  SlotsSpec => []ConfirmationDue
<1>1. TrialInv => ConfirmationDue
  BY DEF TrialInv
<1>2. SlotsInv /\ [SlotsNext]_slotVars => SlotsInv'
  BY SlotsStep
<1> QED BY <1>1, <1>2, SlotsInitInv, TrialInitially, TrialStep, PTL DEF SlotsSpec

-----------------------------------------------------------------------------
(* OtaDownload *)

Msg == PushMsg \cup ChunkMsg

ChunkTotals(msgs) ==
  \A i \in DOMAIN msgs :
    msgs[i].kind = "ota_chunk" => \E b \in Builds : msgs[i].total = Chunks[b]

(* No archive is the program's file.                                        *)
LEMMA PathsAreNotApp ==
  /\ App \notin Paths
  /\ \A push \in Push : Path(push) \in Paths
  BY OtaDownloadAssumption DEF App, Paths, Path, Push, Types

(* A file that gets a chunk is a file.                                      *)
LEMMA ContentGrows ==
  /\ <<>> \in Content
  /\ \A c \in Content, d \in Builds \X Nat : Append(c, d) \in Content
<1>1. <<>> \in Content
  BY EmptySeq DEF Content
<1>2. ASSUME NEW c \in Content, NEW d \in Builds \X Nat PROVE Append(c, d) \in Content
  BY AppendProperties DEF Content
<1> QED BY <1>1, <1>2

(* Taking a message leaves messages.                                        *)
LEMMA MsgTaken ==
  ASSUME NEW msgs \in Seq(Msg), ChunkTotals(msgs), msgs # <<>>
  PROVE  /\ Tail(msgs) \in Seq(Msg) /\ ChunkTotals(Tail(msgs))
         /\ Head(msgs) \in Msg
         /\ Head(msgs).kind = "ota_chunk" =>
              \E b \in Builds : Head(msgs).total = Chunks[b]
<1>1. /\ Head(msgs) \in Msg /\ Tail(msgs) \in Seq(Msg) /\ Len(Tail(msgs)) = Len(msgs) - 1
      /\ \A i \in 1 .. Len(Tail(msgs)) : Tail(msgs)[i] = msgs[i + 1]
  BY HeadTailProperties
<1>2. Len(msgs) \in Nat \ {0} /\ DOMAIN msgs = 1 .. Len(msgs)
  BY EmptySeq, LenProperties
<1>3. DOMAIN Tail(msgs) = 1 .. Len(Tail(msgs))
  BY <1>1, LenProperties
<1>4. \A i \in 1 .. Len(Tail(msgs)) : i + 1 \in 1 .. Len(msgs)
  BY <1>1, <1>2
<1>5. ChunkTotals(Tail(msgs))
  BY <1>1, <1>2, <1>3, <1>4 DEF ChunkTotals
<1>6. Head(msgs) = msgs[1] /\ 1 \in DOMAIN msgs
  BY <1>2
<1> QED BY <1>1, <1>5, <1>6 DEF ChunkTotals

(* Sending one adds a message.                                              *)
LEMMA MsgSent ==
  ASSUME NEW msgs \in Seq(Msg), ChunkTotals(msgs), NEW m \in Msg,
         m.kind = "ota_chunk" => \E b \in Builds : m.total = Chunks[b]
  PROVE  Append(msgs, m) \in Seq(Msg) /\ ChunkTotals(Append(msgs, m))
<1>1. /\ Append(msgs, m) \in Seq(Msg) /\ Len(Append(msgs, m)) = Len(msgs) + 1
      /\ \A i \in 1 .. Len(msgs) : Append(msgs, m)[i] = msgs[i]
      /\ Append(msgs, m)[Len(msgs) + 1] = m
  BY AppendProperties
<1>2. Len(msgs) \in Nat /\ DOMAIN msgs = 1 .. Len(msgs)
  BY LenProperties
<1>3. DOMAIN Append(msgs, m) = 1 .. Len(msgs) + 1
  BY <1>1, LenProperties
<1> QED BY <1>1, <1>2, <1>3 DEF ChunkTotals

(* The type invariant in the form the steps use.                            *)
LEMMA TypeParts ==
  TypeOK <=>
    /\ inbox \in Seq(Msg)
    /\ streams \in Seq([build : Builds, next : Nat])
    /\ pushes \in 0 .. MaxPushes /\ losses \in 0 .. MaxLosses
    /\ downloading \in BOOLEAN
    /\ cur \in Push \cup {None}
    /\ expected \in Nat
    /\ downloading => \E b \in Builds : expected < Chunks[b]
    /\ handle \in Paths \cup {App, None}
    /\ DOMAIN files = Paths \cup {App}
    /\ \A f \in DOMAIN files : files[f] \in Content \cup {NoFile, OldApp}
    /\ manifest \in Push \cup {None}
    /\ timers \in Seq(Paths)
    /\ installing \in Paths \cup {None}
    /\ quitting \in BOOLEAN /\ alive \in BOOLEAN /\ overtaken \in BOOLEAN
  BY DEF TypeOK, Msg

(* No download at the start.                                                *)
LEMMA DownloadInit == Init => DownloadInv
<1> SUFFICES ASSUME Init
             PROVE  DownloadInv
  OBVIOUS
<1>1. /\ inbox \in Seq(Msg) /\ streams \in Seq([build : Builds, next : Nat])
      /\ timers \in Seq(Paths)
  BY EmptySeq DEF Init
<1>2. TypeOK
  <2>1. /\ DOMAIN files = Paths \cup {App}
        /\ \A f \in DOMAIN files : files[f] \in Content \cup {NoFile, OldApp}
    BY DEF Init
  <2>2. pushes \in 0 .. MaxPushes /\ losses \in 0 .. MaxLosses /\ expected \in Nat
    BY OtaDownloadAssumption DEF Init
  <2>3. quitting \in BOOLEAN /\ alive \in BOOLEAN /\ overtaken \in BOOLEAN
    BY DEF Init
  <2>4. ~ downloading /\ downloading \in BOOLEAN
    BY DEF Init
  <2>5. /\ cur \in Push \cup {None} /\ handle \in Paths \cup {App, None}
        /\ manifest \in Push \cup {None} /\ installing \in Paths \cup {None}
    BY DEF Init
  <2> QED BY <1>1, <2>1, <2>2, <2>3, <2>4, <2>5, TypeParts
<1>3. TransferInv
  BY DEF Init, TransferInv
<1> QED BY <1>2, <1>3 DEF Init, DownloadInv, PendingInv, UndisturbedInstallIsPush

(* The server and the link: nothing of the client changes but its inbox.    *)
LEMMA LinkKeeps ==
  DownloadInv /\ ((\E push \in Push : ServerPush(push)) \/ ServerChunk \/ LinkLost)
  => DownloadInv'
<1> SUFFICES ASSUME DownloadInv,
                    (\E push \in Push : ServerPush(push)) \/ ServerChunk \/ LinkLost
             PROVE  DownloadInv'
  OBVIOUS
<1>1. TypeOK /\ TransferInv /\ PendingInv /\ inbox \in Seq(Msg) /\ ChunkTotals(inbox)
      /\ streams \in Seq([build : Builds, next : Nat])
  BY TypeParts DEF DownloadInv, TransferInv, ChunkTotals
<1>2. UNCHANGED <<downloading, cur, expected, handle, files, manifest, timers, installing,
                  quitting, alive, overtaken, lastInstall>>
  BY DEF ServerPush, ServerChunk, LinkLost, dlVars
<1>3. inbox' \in Seq(Msg) /\ ChunkTotals(inbox')
  <2>1. ASSUME NEW push \in Push, ServerPush(push)
        PROVE  inbox' \in Seq(Msg) /\ ChunkTotals(inbox')
    <3>1. PICK m : m = [kind |-> "ota_push", push |-> push]
      OBVIOUS
    <3>2. m \in Msg /\ m.kind # "ota_chunk"
      BY <3>1 DEF Msg, PushMsg
    <3> QED BY <1>1, <2>1, <3>1, <3>2, MsgSent DEF ServerPush
  <2>2. CASE ServerChunk
    <3>1. PICK i \in DOMAIN streams :
            inbox' = Append(inbox, [kind |-> "ota_chunk", idx |-> streams[i].next,
                                    total |-> Chunks[streams[i].build],
                                    data |-> <<streams[i].build, streams[i].next>>])
      BY <2>2 DEF ServerChunk
    <3>2. streams[i] \in [build : Builds, next : Nat]
      BY <1>1, <3>1, LenProperties, ElementOfSeq
    <3>3. PICK b \in Builds, n \in Nat : b = streams[i].build /\ n = streams[i].next
      BY <3>2
    <3>4. PICK m : m = [kind |-> "ota_chunk", idx |-> n, total |-> Chunks[b],
                        data |-> <<b, n>>]
      OBVIOUS
    <3>5. m \in Msg /\ m.total = Chunks[b]
      BY <3>3, <3>4, OtaDownloadAssumption DEF Msg, ChunkMsg
    <3>6. inbox' = Append(inbox, m)
      BY <3>1, <3>3, <3>4
    <3> QED BY <1>1, <3>5, <3>6, MsgSent
  <2>3. CASE LinkLost
    BY <2>3, EmptySeq DEF LinkLost, ChunkTotals
  <2> QED BY <2>1, <2>2, <2>3
<1>4. streams' \in Seq([build : Builds, next : Nat])
  <2>1. CASE ServerChunk
    <3> DEFINE R == [build : Builds, next : Nat]
    <3>1. PICK i \in DOMAIN streams :
            streams' = IF streams[i].next + 1 < Chunks[streams[i].build]
                         THEN [streams EXCEPT ![i].next = @ + 1]
                         ELSE SubSeq(streams, 1, i - 1)
                                \o SubSeq(streams, i + 1, Len(streams))
      BY <2>1 DEF ServerChunk
    <3>2. /\ i \in 1 .. Len(streams) /\ Len(streams) \in Nat
          /\ \A j \in 1 .. Len(streams) : streams[j] \in R
      BY <1>1, <3>1, LenProperties, ElementOfSeq
    <3>3. CASE streams[i].next + 1 < Chunks[streams[i].build]
      <4>1. PICK r : r = [streams[i] EXCEPT !.next = @ + 1]
        OBVIOUS
      <4>2. r \in R
        BY <3>2, <4>1
      <4>3. streams' = [streams EXCEPT ![i] = r]
        BY <3>1, <3>3, <4>1
      <4> QED BY <1>1, <3>2, <4>2, <4>3, ExceptSeq
    <3>4. CASE ~ (streams[i].next + 1 < Chunks[streams[i].build])
      <4>1. SubSeq(streams, 1, i - 1) \in Seq(R)
        BY <3>2, SubSeqProperties
      <4>2. SubSeq(streams, i + 1, Len(streams)) \in Seq(R)
        BY <3>2, SubSeqProperties
      <4> QED BY <3>1, <3>4, <4>1, <4>2, ConcatProperties
    <3> QED BY <3>3, <3>4
  <2>2. CASE ~ ServerChunk
    BY <1>1, <2>2, EmptySeq DEF ServerPush, LinkLost
  <2> QED BY <2>1, <2>2
<1>5. pushes' \in 0 .. MaxPushes /\ losses' \in 0 .. MaxLosses
  <2>1. /\ pushes \in 0 .. MaxPushes /\ losses \in 0 .. MaxLosses
        /\ MaxPushes \in Nat /\ MaxLosses \in Nat
    BY <1>1, OtaDownloadAssumption DEF TypeOK
  <2>2. \/ pushes' = pushes /\ losses' = losses
        \/ pushes < MaxPushes /\ pushes' = pushes + 1 /\ losses' = losses
        \/ losses < MaxLosses /\ losses' = losses + 1 /\ pushes' = pushes
    BY DEF ServerPush, ServerChunk, LinkLost
  <2> QED BY <2>1, <2>2
<1>6. TypeOK'
  BY <1>1, <1>2, <1>3, <1>4, <1>5 DEF TypeOK, Msg
<1>7. TransferInv'
  BY <1>1, <1>2, <1>3 DEF TransferInv, ChunkTotals
<1> QED BY <1>2, <1>6, <1>7 DEF DownloadInv, PendingInv, UndisturbedInstallIsPush

(* A push keeps the download's invariant.                                   *)
LEMMA ReceivePushKeeps == DownloadInv /\ ReceivePush => DownloadInv'
<1> SUFFICES ASSUME DownloadInv, ReceivePush
             PROVE  DownloadInv'
  OBVIOUS
<1>1. /\ TypeOK /\ TransferInv /\ PendingInv /\ UndisturbedInstallIsPush
      /\ inbox \in Seq(Msg) /\ ChunkTotals(inbox) /\ installing = None
  BY TypeParts DEF DownloadInv, TransferInv, ChunkTotals, ReceivePush
<1>2. inbox' \in Seq(Msg) /\ ChunkTotals(inbox') /\ Head(inbox) \in Msg
  BY <1>1, MsgTaken DEF ReceivePush
<1>3. PICK push \in Push : push = Head(inbox).push
  BY <1>2 DEF ReceivePush, Msg, PushMsg, ChunkMsg
<1>4. /\ UNCHANGED <<pushes, losses, manifest, timers, installing, quitting, alive, lastInstall>>
      /\ cur' = push /\ expected' = 0 /\ overtaken' = TRUE
      /\ \/ /\ downloading' = TRUE /\ handle' = Path(push)
            /\ files' = [files EXCEPT ![Path(push)] = <<>>]
            /\ streams' = Append(streams, [build |-> push.build, next |-> 0])
         \/ /\ downloading' = FALSE /\ handle' = None
            /\ UNCHANGED <<files, streams>>
  BY <1>3 DEF ReceivePush, StartTcpDownload
<1>5. Path(push) \in Paths /\ Path(push) # App
  BY PathsAreNotApp
<1>6. streams' \in Seq([build : Builds, next : Nat])
  <2>1. PICK r \in [build : Builds, next : Nat] : r = [build |-> push.build, next |-> 0]
    BY DEF Push
  <2>2. streams' \in {streams, Append(streams, r)}
    BY <1>4, <2>1
  <2>3. PICK R : R = [build : Builds, next : Nat]
    OBVIOUS
  <2>4. streams \in Seq(R) /\ r \in R
    BY <1>1, <2>3 DEF TypeOK
  <2>5. Append(streams, r) \in Seq(R)
    BY <2>4, AppendProperties
  <2> QED BY <2>2, <2>3, <2>4, <2>5
<1>7. /\ DOMAIN files' = Paths \cup {App}
      /\ \A f \in DOMAIN files' : files'[f] \in Content \cup {NoFile, OldApp}
      /\ handle' \in Paths \cup {App, None}
      /\ handle' # None => files'[handle'] \in Content
  <2>1. /\ DOMAIN files = Paths \cup {App}
        /\ \A f \in DOMAIN files : files[f] \in Content \cup {NoFile, OldApp}
    BY <1>1 DEF TypeOK
  <2> QED BY <1>4, <1>5, <2>1, ContentGrows
<1>8. downloading' => \E b \in Builds : expected' < Chunks[b]
  BY <1>4, OtaDownloadAssumption
<1>9. TypeOK'
  BY <1>1, <1>2, <1>4, <1>6, <1>7, <1>8 DEF TypeOK, Msg
<1>10. TransferInv'
  BY <1>1, <1>2, <1>4, <1>7 DEF TransferInv, ChunkTotals
<1>11. PendingInv'
  BY <1>1, <1>4 DEF PendingInv
<1> QED BY <1>1, <1>4, <1>9, <1>10, <1>11 DEF DownloadInv, UndisturbedInstallIsPush

(* The file a chunk is written to.                                          *)
LEMMA WrittenFiles ==
  ASSUME TypeOK, TransferInv, NEW d \in Builds \X Nat
  PROVE  /\ DOMAIN Written(d) = DOMAIN files
         /\ \A f \in DOMAIN files : Written(d)[f] \in Content \cup {NoFile, OldApp}
         /\ handle # None => Written(d)[handle] \in Content
<1>1. CASE handle = None
  BY <1>1 DEF Written, TypeOK
<1>2. CASE handle # None
  <2>1. handle \in DOMAIN files /\ files[handle] \in Content
    BY <1>2 DEF TypeOK, TransferInv
  <2>2. Append(files[handle], d) \in Content
    BY <2>1, ContentGrows
  <2>3. Written(d) = [files EXCEPT ![handle] = Append(files[handle], d)]
    BY <1>2 DEF Written
  <2> QED BY <1>2, <2>1, <2>2, <2>3 DEF TypeOK
<1> QED BY <1>1, <1>2

(* What a chunk does: nothing, give up, go on, or finish.                   *)
LEMMA ReceiveChunkKeeps == DownloadInv /\ ReceiveChunk => DownloadInv'
<1> SUFFICES ASSUME DownloadInv, ReceiveChunk
             PROVE  DownloadInv'
  OBVIOUS
<1>1. /\ TypeOK /\ TransferInv /\ PendingInv /\ UndisturbedInstallIsPush
      /\ inbox \in Seq(Msg) /\ ChunkTotals(inbox) /\ installing = None
      /\ DOMAIN files = Paths \cup {App}
      /\ \A f \in DOMAIN files : files[f] \in Content \cup {NoFile, OldApp}
  BY TypeParts DEF DownloadInv, TransferInv, ChunkTotals, ReceiveChunk
<1>2. PICK msg : msg = Head(inbox)
  OBVIOUS
<1>3. /\ inbox' \in Seq(Msg) /\ ChunkTotals(inbox') /\ msg \in ChunkMsg
      /\ \E b \in Builds : msg.total = Chunks[b]
  BY <1>1, <1>2, MsgTaken DEF ReceiveChunk, Msg, PushMsg, ChunkMsg
<1>4. UNCHANGED <<streams, pushes, losses, installing, quitting, alive, lastInstall>>
  BY DEF ReceiveChunk
<1>5. PICK d \in Builds \X Nat : d = msg.data
  BY <1>3 DEF ChunkMsg
<1>6. CASE UNCHANGED <<dlVars, files, manifest, timers, overtaken>>
  <2>1. UNCHANGED <<downloading, cur, expected, handle, files, manifest, timers, overtaken>>
    BY <1>6 DEF dlVars
  <2>2. TypeOK'
    BY <1>1, <1>3, <1>4, <2>1 DEF TypeOK, Msg
  <2> QED
    BY <1>1, <1>3, <1>4, <2>1, <2>2
    DEF DownloadInv, TransferInv, PendingInv, UndisturbedInstallIsPush, ChunkTotals
<1>7. ASSUME downloading, NEW fs, fs \in {files, Written(d)}, AbortDownload(fs),
             expected' \in Nat
      PROVE  DownloadInv'
  <2>1. cur \in Push /\ Path(cur) \in Paths
    BY <1>1, <1>7, PathsAreNotApp DEF TransferInv
  <2>2. /\ DOMAIN fs = Paths \cup {App}
        /\ \A f \in DOMAIN fs : fs[f] \in Content \cup {NoFile, OldApp}
    BY <1>1, <1>7, WrittenFiles
  <2>3. /\ downloading' = FALSE /\ handle' = None
        /\ files' = [fs EXCEPT ![Path(cur)] = NoFile]
        /\ UNCHANGED <<cur, manifest, timers, overtaken>>
    BY <1>7 DEF AbortDownload
  <2>4. /\ DOMAIN files' = Paths \cup {App}
        /\ \A f \in DOMAIN files' : files'[f] \in Content \cup {NoFile, OldApp}
    BY <2>1, <2>2, <2>3
  <2>5. TypeOK'
    BY <1>1, <1>3, <1>4, <1>7, <2>3, <2>4 DEF TypeOK, Msg
  <2>6. TransferInv'
    BY <1>1, <1>3, <1>4, <2>3 DEF TransferInv, ChunkTotals
  <2>7. PendingInv'
    BY <1>1, <1>4, <1>7, <2>3 DEF PendingInv
  <2> QED BY <1>1, <1>4, <2>5, <2>6, <2>7 DEF DownloadInv, UndisturbedInstallIsPush
<1>8. ASSUME downloading, NEW fs, fs = Written(d), Accept(msg, fs)
      PROVE  DownloadInv'
  <2>1. expected' = msg.idx + 1 /\ msg.idx \in Nat
    BY <1>3, <1>8 DEF Accept, ChunkMsg
  <2>2. cur \in Push /\ Path(cur) \in Paths
    BY <1>1, <1>8, PathsAreNotApp DEF TransferInv
  <2>3. /\ DOMAIN fs = Paths \cup {App}
        /\ \A f \in DOMAIN fs : fs[f] \in Content \cup {NoFile, OldApp}
        /\ handle # None => fs[handle] \in Content
    BY <1>1, <1>8, WrittenFiles
  <2>4. CASE msg.idx + 1 < msg.total
    <3>1. files' = fs /\ UNCHANGED <<downloading, cur, handle, manifest, timers, overtaken>>
      BY <1>8, <2>4 DEF Accept
    <3>2. \E b \in Builds : expected' < Chunks[b]
      BY <1>3, <2>1, <2>4
    <3>3. TypeOK'
      BY <1>1, <1>3, <1>4, <2>1, <2>3, <3>1, <3>2 DEF TypeOK, Msg
    <3>4. TransferInv'
      BY <1>1, <1>3, <1>4, <2>3, <3>1 DEF TransferInv, ChunkTotals
    <3>5. PendingInv'
      BY <1>1, <1>4, <1>8, <3>1 DEF PendingInv
    <3> QED BY <1>1, <1>4, <3>3, <3>4, <3>5 DEF DownloadInv, UndisturbedInstallIsPush
  <2>5. CASE ~ (msg.idx + 1 < msg.total) /\ msg.idx + 1 = msg.total /\ Verified(fs)
    <3>1. /\ downloading' = FALSE /\ handle' = None /\ files' = fs /\ manifest' = cur
          /\ timers' = Append(timers, Path(cur)) /\ overtaken' = FALSE /\ cur' = cur
      BY <1>8, <2>5 DEF Accept
    <3>2. /\ timers' \in Seq(Paths) /\ timers' # <<>> /\ timers'[Len(timers')] = Path(cur)
      <4>1. timers \in Seq(Paths)
        BY <1>1 DEF TypeOK
      <4> QED BY <2>2, <3>1, <4>1, AppendProperties
    <3>3. TypeOK'
      <4>1. expected' \in Nat /\ ~ downloading' /\ manifest' \in Push
        BY <2>1, <2>2, <3>1
      <4> QED BY <1>1, <1>3, <1>4, <2>3, <3>1, <3>2, <4>1 DEF TypeOK, Msg
    <3>4. TransferInv'
      BY <1>1, <1>3, <1>4, <3>1 DEF TransferInv, ChunkTotals
    <3>5. files'[Path(manifest')] = Complete(manifest'.build)
      BY <2>5, <3>1 DEF Verified
    <3>6. PendingInv'
      BY <1>1, <1>4, <2>2, <3>1, <3>2, <3>5 DEF PendingInv
    <3> QED BY <1>1, <1>4, <3>3, <3>4, <3>6 DEF DownloadInv, UndisturbedInstallIsPush
  <2>6. CASE ~ (msg.idx + 1 < msg.total) /\ ~ (msg.idx + 1 = msg.total /\ Verified(fs))
    <3>1. AbortDownload(fs)
      BY <1>8, <2>6 DEF Accept
    <3> QED BY <1>7, <1>8, <2>1, <3>1
  <2> QED BY <2>4, <2>5, <2>6
<1>9. \/ UNCHANGED <<dlVars, files, manifest, timers, overtaken>>
      \/ downloading /\ AbortDownload(files) /\ expected' = expected
      \/ downloading /\ Accept(msg, Written(d))
  BY <1>2, <1>5 DEF ReceiveChunk
<1>10. expected \in Nat
  BY <1>1 DEF TypeOK
<1> QED BY <1>6, <1>7, <1>8, <1>9, <1>10

(* The timer's path and what becomes of the others.                         *)
LEMMA TimerTaken ==
  ASSUME NEW paths \in Seq(Paths), paths # <<>>
  PROVE  /\ Head(paths) \in Paths /\ Tail(paths) \in Seq(Paths)
         /\ Tail(paths) = <<>> => Head(paths) = paths[Len(paths)]
         /\ Tail(paths) # <<>> => Tail(paths)[Len(Tail(paths))] = paths[Len(paths)]
<1>1. PICK rest : rest = Tail(paths)
  OBVIOUS
<1>2. /\ Head(paths) \in Paths /\ rest \in Seq(Paths) /\ Len(rest) = Len(paths) - 1
      /\ \A i \in 1 .. Len(rest) : rest[i] = paths[i + 1]
  BY <1>1, HeadTailProperties
<1>3. Len(paths) \in Nat /\ Head(paths) = paths[1]
  BY LenProperties
<1>4. ASSUME rest = <<>>
      PROVE  Len(paths) = 1
  <2>1. Len(rest) = 0
    BY <1>4, EmptySeq
  <2> QED BY <1>2, <1>3, <2>1
<1>5. ASSUME rest # <<>>
      PROVE  rest[Len(rest)] = paths[Len(paths)]
  <2>1. Len(rest) \in Nat \ {0}
    BY <1>2, <1>5, EmptySeq
  <2>2. Len(rest) + 1 = Len(paths) /\ Len(rest) \in 1 .. Len(rest)
    BY <1>2, <1>3, <2>1
  <2> QED BY <1>2, <2>2
<1> QED BY <1>1, <1>2, <1>3, <1>4, <1>5

(* So does the install of a system.                                         *)
LEMMA InstallSystemKeeps == DownloadInv /\ InstallSystem => DownloadInv'
<1> SUFFICES ASSUME DownloadInv, InstallSystem
             PROVE  DownloadInv'
  OBVIOUS
<1>1. /\ TypeOK /\ TransferInv /\ PendingInv /\ UndisturbedInstallIsPush
      /\ timers \in Seq(Paths) /\ timers # <<>> /\ installing = None /\ cur.type = "system"
  BY TypeParts DEF DownloadInv, InstallSystem, Route
<1>2. UNCHANGED <<inbox, streams, pushes, losses, downloading, cur, expected, handle, files,
                  manifest, installing, alive, overtaken>>
  BY DEF InstallSystem, netVars, dlVars
<1>3. timers' = Tail(timers)
  BY DEF InstallSystem
<1>4. /\ Head(timers) \in Paths /\ timers' \in Seq(Paths)
      /\ timers' = <<>> => Head(timers) = Path(manifest)
      /\ timers' # <<>> => timers'[Len(timers')] = Path(manifest)
      /\ manifest \in Push
  BY <1>1, <1>3, TimerTaken DEF PendingInv
<1>5. quitting' \in BOOLEAN
  BY <1>1 DEF InstallSystem, TypeOK
<1>6. TypeOK'
  BY <1>1, <1>2, <1>4, <1>5 DEF TypeOK
<1>7. TransferInv' /\ PendingInv'
  BY <1>1, <1>2, <1>4 DEF TransferInv, PendingInv
<1>8. UndisturbedInstallIsPush'
  <2>1. CASE lastInstall' = lastInstall
    BY <1>1, <2>1 DEF UndisturbedInstallIsPush
  <2>2. CASE files[Head(timers)] # NoFile
             /\ Record(files[Head(timers)], "system", Tail(timers))
    <3> SUFFICES ASSUME ~ lastInstall'.disturbed
                 PROVE  /\ lastInstall'.content = Complete(lastInstall'.manifest.build)
                        /\ lastInstall'.type = lastInstall'.manifest.type
      BY DEF UndisturbedInstallIsPush
    <3>1. ~ overtaken /\ Tail(timers) = <<>>
      BY <2>2 DEF Record
    <3>2. cur = manifest /\ files[Path(manifest)] \in {Complete(manifest.build), NoFile}
      BY <1>1, <3>1 DEF PendingInv
    <3>3. Head(timers) = Path(manifest)
      BY <1>3, <1>4, <3>1
    <3> QED BY <1>1, <2>2, <3>2, <3>3 DEF Record
  <2> QED BY <2>1, <2>2 DEF InstallSystem
<1> QED BY <1>6, <1>7, <1>8 DEF DownloadInv

(* So does the removal of the program,                                      *)
LEMMA InstallAppRemoveKeeps == DownloadInv /\ InstallAppRemove => DownloadInv'
<1> SUFFICES ASSUME DownloadInv, InstallAppRemove
             PROVE  DownloadInv'
  OBVIOUS
<1>1. /\ TypeOK /\ TransferInv /\ PendingInv /\ UndisturbedInstallIsPush
      /\ timers \in Seq(Paths) /\ timers # <<>> /\ cur.type = "app"
  BY TypeParts DEF DownloadInv, InstallAppRemove, Route
<1>2. /\ UNCHANGED <<inbox, streams, pushes, losses, downloading, cur, expected, manifest,
                     quitting, alive, overtaken, lastInstall>>
      /\ timers' = Tail(timers) /\ installing' = Head(timers)
      /\ files' = [files EXCEPT ![App] = NoFile]
      /\ handle' = IF handle = App THEN None ELSE handle
  BY DEF InstallAppRemove, netVars
<1>3. /\ Head(timers) \in Paths /\ timers' \in Seq(Paths)
      /\ timers' = <<>> => Head(timers) = Path(manifest)
      /\ timers' # <<>> => timers'[Len(timers')] = Path(manifest)
      /\ manifest \in Push
  BY <1>1, <1>2, TimerTaken DEF PendingInv
<1>4. /\ DOMAIN files' = Paths \cup {App}
      /\ \A f \in Paths : files'[f] = files[f]
      /\ files'[App] = NoFile
  BY <1>1, <1>2, PathsAreNotApp DEF TypeOK
<1>5. TypeOK'
  BY <1>1, <1>2, <1>3, <1>4 DEF TypeOK
<1>6. TransferInv'
  <2>1. handle' # None => handle' # App /\ handle' = handle /\ handle \in Paths
    BY <1>1, <1>2 DEF TypeOK
  <2>2. handle' # None => files'[handle'] \in Content
    BY <1>1, <1>4, <2>1 DEF TransferInv
  <2>3. handle' \in Paths \cup {None}
    BY <2>1
  <2> QED BY <1>1, <1>2, <2>2, <2>3 DEF TransferInv
<1>7. PendingInv'
  <2>1. Path(manifest) \in Paths
    BY <1>3, PathsAreNotApp
  <2> QED BY <1>1, <1>2, <1>3, <1>4, <2>1 DEF PendingInv
<1> QED BY <1>1, <1>2, <1>5, <1>6, <1>7 DEF DownloadInv, UndisturbedInstallIsPush

(* and the new program taking its place,                                    *)
LEMMA InstallAppRenameKeeps == DownloadInv /\ InstallAppRename => DownloadInv'
<1> SUFFICES ASSUME DownloadInv, InstallAppRename
             PROVE  DownloadInv'
  OBVIOUS
<1>1. /\ TypeOK /\ TransferInv /\ PendingInv /\ UndisturbedInstallIsPush
      /\ installing # None /\ installing \in Paths
  BY DEF DownloadInv, InstallAppRename, TypeOK
<1>2. /\ UNCHANGED <<inbox, streams, pushes, losses, downloading, cur, expected, manifest,
                     timers, alive, overtaken>>
      /\ installing' = None
  BY DEF InstallAppRename, netVars
<1>3. PendingInv'
  <2>1. ASSUME timers # <<>>, ~ overtaken
        PROVE  files'[Path(manifest)] \in {Complete(manifest.build), NoFile}
    <3>1. /\ files[Path(manifest)] \in {Complete(manifest.build), NoFile}
          /\ Path(manifest) \in Paths /\ App \notin Paths /\ Paths \subseteq DOMAIN files
      BY <1>1, <2>1, PathsAreNotApp DEF PendingInv, TypeOK
    <3>2. \/ files' = files
          \/ files' = [files EXCEPT ![App] = files[installing], ![installing] = NoFile]
      BY DEF InstallAppRename
    <3> QED BY <1>1, <3>1, <3>2
  <2> QED BY <1>1, <1>2, <2>1 DEF PendingInv
<1>4. CASE files[installing] = NoFile
  <2>1. UNCHANGED <<files, handle, lastInstall, quitting>>
    BY <1>4 DEF InstallAppRename
  <2> QED
    BY <1>1, <1>2, <1>3, <2>1
    DEF DownloadInv, TypeOK, TransferInv, UndisturbedInstallIsPush
<1>5. CASE files[installing] # NoFile
  <2>1. /\ files' = [files EXCEPT ![App] = files[installing], ![installing] = NoFile]
        /\ handle' = IF handle = installing THEN App ELSE handle
        /\ Record(files[installing], "app", timers)
        /\ quitting' = TRUE
    BY <1>5 DEF InstallAppRename
  <2>2. /\ App \notin Paths /\ App \in DOMAIN files /\ installing \in DOMAIN files
        /\ App # installing /\ DOMAIN files = Paths \cup {App}
    BY <1>1, PathsAreNotApp DEF TypeOK
  <2>3. /\ DOMAIN files' = Paths \cup {App}
        /\ files'[App] = files[installing] /\ files'[installing] = NoFile
        /\ \A f \in Paths \ {installing} : files'[f] = files[f]
    BY <1>1, <2>1, <2>2
  <2>4. \A f \in DOMAIN files' : files'[f] \in Content \cup {NoFile, OldApp}
    BY <1>1, <2>2, <2>3 DEF TypeOK
  <2>5. TypeOK'
    BY <1>1, <1>2, <2>1, <2>3, <2>4 DEF TypeOK
  <2>6. ASSUME handle' # None PROVE files'[handle'] \in Content
    <3>1. handle \in Paths \cup {None}
      BY <1>1 DEF TransferInv
    <3>2. CASE handle = installing
      BY <1>1, <2>1, <2>3, <3>2 DEF TransferInv
    <3>3. CASE handle # installing
      <4>1. handle' = handle /\ handle \in Paths \ {installing} /\ handle # None
        BY <2>1, <2>6, <3>1, <3>3
      <4> QED BY <1>1, <2>3, <4>1 DEF TransferInv
    <3> QED BY <3>2, <3>3
  <2>7. TransferInv'
    BY <1>1, <1>2, <2>6 DEF TransferInv
  <2>8. UndisturbedInstallIsPush'
    <3> SUFFICES ASSUME ~ lastInstall'.disturbed
                 PROVE  /\ lastInstall'.content = Complete(lastInstall'.manifest.build)
                        /\ lastInstall'.type = lastInstall'.manifest.type
      BY DEF UndisturbedInstallIsPush
    <3>1. ~ overtaken /\ timers = <<>>
      BY <2>1 DEF Record
    <3>2. /\ cur = manifest /\ files[Path(manifest)] \in {Complete(manifest.build), NoFile}
          /\ installing = Path(manifest) /\ cur.type = "app"
      BY <1>1, <3>1 DEF PendingInv
    <3> QED BY <1>5, <2>1, <3>2 DEF Record
  <2> QED BY <1>3, <2>5, <2>7, <2>8 DEF DownloadInv
<1> QED BY <1>4, <1>5

(* and the end and start of the process.                                    *)
LEMMA ProcessKeeps == DownloadInv /\ (Stop \/ Start) => DownloadInv'
<1> SUFFICES ASSUME DownloadInv, Stop \/ Start
             PROVE  DownloadInv'
  OBVIOUS
<1>1. TypeOK /\ TransferInv /\ PendingInv /\ UndisturbedInstallIsPush
  BY DEF DownloadInv
<1>2. CASE Stop
  <2>1. /\ alive' = FALSE /\ inbox' = <<>> /\ streams' = <<>>
        /\ downloading' = FALSE /\ cur' = None /\ expected' = 0 /\ handle' = None
        /\ manifest' = None /\ timers' = <<>> /\ installing' = None
        /\ quitting' = FALSE /\ overtaken' = FALSE
        /\ UNCHANGED <<pushes, files, lastInstall>>
    BY <1>2 DEF Stop
  <2>2. losses' \in 0 .. MaxLosses
    <3>1. losses \in 0 .. MaxLosses /\ MaxLosses \in Nat
      BY <1>1, OtaDownloadAssumption DEF TypeOK
    <3>2. \/ losses' = losses
          \/ losses < MaxLosses /\ losses' = losses + 1
      BY <1>2 DEF Stop
    <3> QED BY <3>1, <3>2
  <2>3. /\ <<>> \in Seq(PushMsg \cup ChunkMsg) /\ <<>> \in Seq(Paths)
        /\ <<>> \in Seq([build : Builds, next : Nat])
    BY EmptySeq
  <2>4. /\ DOMAIN files' = Paths \cup {App}
        /\ \A f \in DOMAIN files' : files'[f] \in Content \cup {NoFile, OldApp}
        /\ pushes' \in 0 .. MaxPushes
    BY <1>1, <2>1 DEF TypeOK
  <2>5. expected' \in Nat /\ ~ downloading'
    BY <2>1
  <2>6. TypeOK'
    BY <2>1, <2>2, <2>3, <2>4, <2>5 DEF TypeOK
  <2> QED
    BY <1>1, <2>1, <2>6 DEF DownloadInv, TransferInv, PendingInv, UndisturbedInstallIsPush
<1>3. CASE Start
  <2>1. /\ UNCHANGED <<inbox, streams, pushes, losses, downloading, cur, expected, handle,
                       files, manifest, timers, installing, quitting, overtaken, lastInstall>>
        /\ alive' = TRUE
    BY <1>3 DEF Start, netVars, dlVars
  <2>2. TypeOK'
    BY <1>1, <2>1 DEF TypeOK
  <2> QED
    BY <1>1, <2>1, <2>2 DEF DownloadInv, TransferInv, PendingInv, UndisturbedInstallIsPush
<1> QED BY <1>2, <1>3

(* Every step of the download keeps it.                                     *)
LEMMA DownloadStep == DownloadInv /\ [Next]_vars => DownloadInv'
<1> SUFFICES ASSUME DownloadInv, [Next]_vars
             PROVE  DownloadInv'
  OBVIOUS
<1>1. CASE UNCHANGED vars
  <2>1. UNCHANGED <<inbox, streams, pushes, losses, downloading, cur, expected, handle, files,
                    manifest, timers, installing, quitting, alive, overtaken, lastInstall>>
    BY <1>1 DEF vars, netVars, dlVars
  <2> QED
    BY <2>1 DEF DownloadInv, TypeOK, TransferInv, PendingInv, UndisturbedInstallIsPush
<1> QED
  BY <1>1, LinkKeeps, ReceivePushKeeps, ReceiveChunkKeeps, InstallSystemKeeps,
     InstallAppRemoveKeeps, InstallAppRenameKeeps, ProcessKeeps DEF Next, ClientStep

(* Whatever the server publishes, however many pushes it sends, and whichever *)
(* links break and processes stop: an install that no later push disturbed   *)
(* puts the pushed build in place, in the way its type asks for              *)
(* (otaupdater.cpp, slotReceiveChunk and slotInstallTcpDownload).            *)
THEOREM UndisturbedInstall == Spec => []UndisturbedInstallIsPush
<1>1. DownloadInv => UndisturbedInstallIsPush
  BY DEF DownloadInv
<1> QED BY <1>1, DownloadInit, DownloadStep, PTL DEF Spec

(* Some message on its way is the last of a request.                         *)
LastComes(msgs) == \E i \in DOMAIN msgs : LastChunk(msgs[i])

(* Taking another message than the last chunk leaves it on its way.          *)
LEMMA LastStays ==
  ASSUME NEW msgs \in Seq(Msg), msgs # <<>>, LastComes(msgs), ~LastChunk(Head(msgs))
  PROVE  LastComes(Tail(msgs))
<1>1. /\ Head(msgs) = msgs[1] /\ Tail(msgs) \in Seq(Msg)
      /\ Len(Tail(msgs)) = Len(msgs) - 1
      /\ \A i \in 1 .. Len(Tail(msgs)) : Tail(msgs)[i] = msgs[i + 1]
  BY HeadTailProperties
<1>2. Len(msgs) \in Nat /\ DOMAIN msgs = 1 .. Len(msgs)
  BY LenProperties
<1>3. DOMAIN Tail(msgs) = 1 .. Len(msgs) - 1
  BY <1>1, LenProperties
<1>4. PICK i \in 1 .. Len(msgs) : LastChunk(msgs[i])
  BY <1>2 DEF LastComes
<1>5. i # 1
  BY <1>1, <1>4
<1>6. PICK j \in 1 .. Len(msgs) - 1 : j + 1 = i
  BY <1>2, <1>4, <1>5
<1>7. Tail(msgs)[j] = msgs[i]
  BY <1>1, <1>6
<1> QED BY <1>3, <1>4, <1>6, <1>7 DEF LastComes

(* What is on its way is not overtaken, and the last chunk is sent behind it. *)
LEMMA LastSent ==
  ASSUME NEW msgs \in Seq(Msg), NEW m \in Msg, LastComes(msgs) \/ LastChunk(m)
  PROVE  LastComes(Append(msgs, m))
<1>1. /\ Append(msgs, m) \in Seq(Msg) /\ Len(Append(msgs, m)) = Len(msgs) + 1
      /\ \A i \in 1 .. Len(msgs) : Append(msgs, m)[i] = msgs[i]
      /\ Append(msgs, m)[Len(msgs) + 1] = m
  BY AppendProperties
<1>2. Len(msgs) \in Nat /\ DOMAIN msgs = 1 .. Len(msgs)
  BY LenProperties
<1>3. DOMAIN Append(msgs, m) = 1 .. Len(msgs) + 1
  BY <1>1, LenProperties
<1>4. ASSUME LastComes(msgs) PROVE LastComes(Append(msgs, m))
  <2>1. PICK i \in 1 .. Len(msgs) : LastChunk(msgs[i])
    BY <1>2, <1>4 DEF LastComes
  <2>2. i \in DOMAIN Append(msgs, m) /\ Append(msgs, m)[i] = msgs[i]
    BY <1>1, <1>2, <1>3
  <2> QED BY <2>1, <2>2 DEF LastComes
<1>5. ASSUME LastChunk(m) PROVE LastComes(Append(msgs, m))
  <2>1. Len(msgs) + 1 \in DOMAIN Append(msgs, m)
    BY <1>2, <1>3
  <2> QED BY <1>1, <1>5, <2>1 DEF LastComes
<1> QED BY <1>4, <1>5

(* The server answers a request up to the last chunk of its build: then that   *)
(* is on its way, and before the request is still open.                      *)
LEMMA ServerAnswers ==
  ASSUME TypeOK, RequestInv, ServerChunk
  PROVE  RequestInv' /\ (streams' # <<>> \/ LastComes(inbox'))
<1>1. PICK R : R = Unanswered
  OBVIOUS
<1>2. streams \in Seq(R) /\ inbox \in Seq(Msg)
  BY <1>1, TypeParts DEF RequestInv
<1>3. PICK i \in DOMAIN streams :
        /\ inbox' = Append(inbox, [kind |-> "ota_chunk", idx |-> streams[i].next,
                                   total |-> Chunks[streams[i].build],
                                   data |-> <<streams[i].build, streams[i].next>>])
        /\ streams' = IF streams[i].next + 1 < Chunks[streams[i].build]
                        THEN [streams EXCEPT ![i].next = @ + 1]
                        ELSE SubSeq(streams, 1, i - 1) \o SubSeq(streams, i + 1, Len(streams))
  BY DEF ServerChunk
<1>4. /\ i \in 1 .. Len(streams) /\ Len(streams) \in Nat
      /\ \A j \in 1 .. Len(streams) : streams[j] \in R
  BY <1>2, <1>3, LenProperties, ElementOfSeq
<1>5. PICK b \in Builds, n \in Nat :
        /\ streams[i] = [build |-> b, next |-> n] /\ n < Chunks[b]
        /\ b = streams[i].build /\ n = streams[i].next
  BY <1>1, <1>4 DEF Unanswered
<1>6. Chunks[b] \in Nat
  BY OtaDownloadAssumption
<1>7. CASE n + 1 < Chunks[b]
  <2>1. PICK r : r = [build |-> b, next |-> n + 1]
    OBVIOUS
  <2>2. r \in R
    BY <1>1, <1>7, <2>1 DEF Unanswered
  <2>3. [streams[i] EXCEPT !.next = @ + 1] = r
    BY <1>5, <2>1
  <2>4. streams' = [streams EXCEPT ![i] = r]
    BY <1>3, <1>5, <1>7, <2>3
  <2>5. streams' \in Seq(R)
    BY <1>2, <1>4, <2>2, <2>4, ExceptSeq
  <2>6. streams' # <<>>
    BY <1>4, <2>4
  <2> QED BY <1>1, <2>5, <2>6 DEF RequestInv, Unanswered
<1>8. CASE ~ (n + 1 < Chunks[b])
  <2>1. /\ SubSeq(streams, 1, i - 1) \in Seq(R)
        /\ SubSeq(streams, i + 1, Len(streams)) \in Seq(R)
    BY <1>4, SubSeqProperties
  <2>2. streams' = SubSeq(streams, 1, i - 1) \o SubSeq(streams, i + 1, Len(streams))
    BY <1>3, <1>5, <1>8
  <2>3. streams' \in Seq(R)
    BY <2>1, <2>2, ConcatProperties
  <2>4. PICK m : m = [kind |-> "ota_chunk", idx |-> n, total |-> Chunks[b], data |-> <<b, n>>]
    OBVIOUS
  <2>5. m \in Msg /\ inbox' = Append(inbox, m)
    BY <1>3, <1>5, <1>6, <2>4 DEF Msg, ChunkMsg
  <2>6. LastChunk(m)
    BY <1>5, <1>6, <1>8, <2>4 DEF LastChunk
  <2>7. LastComes(inbox')
    BY <1>2, <2>5, <2>6, LastSent
  <2> QED BY <1>1, <2>3, <2>7 DEF RequestInv, Unanswered
<1> QED BY <1>7, <1>8

(* A push opens a request with its first chunk still to come.                *)
LEMMA PushAnswered ==
  ASSUME TypeOK, RequestInv, ReceivePush
  PROVE  RequestInv' /\ (downloading' => streams' # <<>>)
<1>1. inbox \in Seq(Msg) /\ inbox # <<>> /\ Head(inbox).kind = "ota_push"
  BY TypeParts DEF ReceivePush
<1>2. Head(inbox) \in Msg
  BY <1>1, HeadTailProperties
<1>3. PICK push \in Push : push = Head(inbox).push
  BY <1>1, <1>2 DEF Msg, PushMsg, ChunkMsg
<1>4. PICK R : R = Unanswered
  OBVIOUS
<1>5. PICK r : r = [build |-> push.build, next |-> 0]
  OBVIOUS
<1>6. r \in R
  BY <1>4, <1>5, OtaDownloadAssumption DEF Unanswered, Push
<1>7. streams \in Seq(R)
  BY <1>4 DEF RequestInv
<1>8. \/ streams' = Append(streams, r)
      \/ downloading' = FALSE /\ streams' = streams
  BY <1>3, <1>5 DEF ReceivePush, StartTcpDownload
<1>9. Append(streams, r) \in Seq(R) /\ Len(Append(streams, r)) = Len(streams) + 1
      /\ Len(streams) \in Nat
  BY <1>6, <1>7, AppendProperties, LenProperties
<1>10. Append(streams, r) # <<>>
  BY <1>9, EmptySeq
<1> QED BY <1>4, <1>7, <1>8, <1>9, <1>10 DEF RequestInv, Unanswered

(* A chunk that a download outlives is not the last of a request.            *)
LEMMA ChunkAnswered ==
  ASSUME TypeOK, ReceiveChunk, downloading'
  PROVE  /\ downloading /\ losses' = losses /\ streams' = streams
         /\ LastComes(inbox) => LastComes(inbox')
<1>1. inbox \in Seq(Msg) /\ inbox # <<>> /\ inbox' = Tail(inbox)
      /\ losses' = losses /\ streams' = streams
  BY TypeParts DEF ReceiveChunk
<1>2. PICK msg : msg = Head(inbox)
  OBVIOUS
<1>3. /\ msg \in Msg /\ msg.kind = "ota_chunk"
      /\ downloading /\ Accept(msg, Written(msg.data))
  BY <1>1, <1>2, HeadTailProperties DEF ReceiveChunk, AbortDownload, dlVars
<1>4. msg.idx \in Nat /\ msg.total \in Nat
  BY <1>3 DEF Msg, ChunkMsg, PushMsg
<1>5. msg.idx + 1 < msg.total
  BY <1>3 DEF Accept, AbortDownload
<1>6. ~LastChunk(msg)
  BY <1>4, <1>5 DEF LastChunk
<1> QED BY <1>1, <1>2, <1>3, <1>6, LastStays

AnsweredInv == RequestInv /\ DownloadAnswered

(* No download at the start.                                                *)
LEMMA AnsweredInitially == Init => AnsweredInv
BY EmptySeq DEF Init, AnsweredInv, RequestInv, DownloadAnswered, Unanswered

(* A download that goes on after a step still has its answer to come.        *)
LEMMA AnsweredStep == DownloadInv /\ AnsweredInv /\ [Next]_vars => AnsweredInv'
<1> SUFFICES ASSUME DownloadInv, AnsweredInv, [Next]_vars PROVE AnsweredInv'
  OBVIOUS
<1>1. /\ TypeOK /\ RequestInv /\ inbox \in Seq(Msg) /\ losses \in Nat
      /\ downloading /\ losses = 0 => streams # <<>> \/ LastComes(inbox)
  BY TypeParts, OtaDownloadAssumption DEF DownloadInv, AnsweredInv, DownloadAnswered, LastComes
<1>2. ASSUME RequestInv', downloading' /\ losses' = 0 => streams' # <<>> \/ LastComes(inbox')
      PROVE  AnsweredInv'
  BY <1>2 DEF AnsweredInv, DownloadAnswered, LastComes
<1>3. ASSUME NEW push \in Push, ServerPush(push) PROVE AnsweredInv'
  <2>1. PICK m : m = [kind |-> "ota_push", push |-> push]
    OBVIOUS
  <2>2. m \in Msg /\ inbox' = Append(inbox, m)
    BY <1>3, <2>1 DEF ServerPush, Msg, PushMsg
  <2>3. LastComes(inbox) => LastComes(inbox')
    BY <1>1, <2>2, LastSent
  <2>4. streams' = streams /\ downloading' = downloading /\ losses' = losses
    BY <1>3 DEF ServerPush, dlVars
  <2> QED BY <1>1, <1>2, <2>3, <2>4 DEF RequestInv, Unanswered
<1>4. CASE ServerChunk
  BY <1>1, <1>2, <1>4, ServerAnswers
<1>5. CASE LinkLost
  <2>1. losses' # 0 /\ streams' = <<>>
    BY <1>1, <1>5 DEF LinkLost
  <2> QED BY <1>2, <2>1, EmptySeq DEF RequestInv, Unanswered
<1>6. CASE ReceivePush
  BY <1>1, <1>2, <1>6, PushAnswered
<1>7. CASE ReceiveChunk
  <2>1. streams' = streams
    BY <1>7 DEF ReceiveChunk
  <2> QED BY <1>1, <1>2, <1>7, <2>1, ChunkAnswered DEF RequestInv, Unanswered
<1>8. CASE Stop
  <2>1. downloading' = FALSE /\ streams' = <<>>
    BY <1>8 DEF Stop
  <2> QED BY <1>2, <2>1, EmptySeq DEF RequestInv, Unanswered
<1>9. CASE InstallSystem \/ InstallAppRemove \/ InstallAppRename \/ Start \/ UNCHANGED vars
  <2>1. UNCHANGED <<inbox, streams, losses, downloading>>
    BY <1>9 DEF InstallSystem, InstallAppRemove, InstallAppRename, Start, vars, netVars, dlVars
  <2> QED BY <1>1, <1>2, <2>1 DEF RequestInv, Unanswered, LastComes
<1> QED
  BY <1>3, <1>4, <1>5, <1>6, <1>7, <1>8, <1>9 DEF Next, ClientStep

(* While the link has not been lost a download never waits for nothing,        *)
(* although chunks carry no version and may belong to any request: what         *)
(* DownloadEnds rests on (otaupdater.cpp, slotStartTcpDownload,                *)
(* slotReceiveChunk).                                                        *)
THEOREM DownloadIsAnswered == Spec => []DownloadAnswered
<1>1. AnsweredInv => DownloadAnswered
  BY DEF AnsweredInv
<1> QED BY <1>1, DownloadInit, DownloadStep, AnsweredInitially, AnsweredStep, PTL DEF Spec

-----------------------------------------------------------------------------
(* BootGuard *)

Line == [age : Age, afterMark : BOOLEAN]

(* The constants of the code.                                               *)
LEMMA GuardNumbers ==
  /\ CrashWindow = 300 /\ MaxCrashCount = 5 /\ StableSec = 60 /\ RestartSec = 10
  /\ HangSec = 35 /\ StartBurst = 5 /\ Age = 0 .. 301
  BY DEF CrashWindow, MaxCrashCount, StableSec, RestartSec, HangSec, StartBurst, Age

(* A line of the history has an age.                                        *)
LEMMA LineAge ==
  ASSUME NEW r \in Line
  PROVE  r.age \in Age /\ r.age \in Int
  BY GuardNumbers DEF Line

(* Ages grow and stay ages.                                                 *)
LEMMA OlderAge ==
  ASSUME NEW age \in Age, NEW d \in Nat
  PROVE  Older(age, d) \in Age /\ Older(age, d) >= age
  BY DEF Older, Age, CrashWindow

(* The history grows older line by line.                                    *)
LEMMA AgedLines ==
  ASSUME NEW h \in Seq(Line), NEW d \in Nat
  PROVE  /\ Aged(h, d) \in Seq(Line) /\ Len(Aged(h, d)) = Len(h)
         /\ \A i \in 1 .. Len(h) : Aged(h, d)[i].age = Older(h[i].age, d)
<1>1. /\ Len(h) \in Nat /\ DOMAIN h = 1 .. Len(h)
      /\ \A i \in 1 .. Len(h) : h[i] \in Line
  BY LenProperties, ElementOfSeq
<1>2. ASSUME NEW i \in 1 .. Len(h)
      PROVE  Aged(h, d)[i] \in Line /\ Aged(h, d)[i].age = Older(h[i].age, d)
  <2>1. PICK r \in Line : r = h[i]
    BY <1>1
  <2>2. Aged(h, d)[i] = [r EXCEPT !.age = Older(r.age, d)]
    BY <1>1, <2>1 DEF Aged
  <2>3. Older(r.age, d) \in Age
    BY OlderAge DEF Line
  <2> QED BY <2>1, <2>2, <2>3 DEF Line
<1>3. Aged(h, d) \in [1 .. Len(h) -> Line]
  BY <1>1, <1>2 DEF Aged
<1>4. Aged(h, d) \in Seq(Line)
  BY <1>1, <1>3, SeqDef
<1>5. Len(Aged(h, d)) = Len(h)
  BY <1>1, <1>3, <1>4, LenProperties
<1> QED BY <1>2, <1>4, <1>5

(* The lines the fuse counts.                                               *)
Young(h) == {i \in 1 .. Len(h) : h[i].age < CrashWindow}

(* The fuse counts the young lines of the history.                          *)
LEMMA FuseCounts ==
  ASSUME NEW h \in Seq(Line)
  PROVE  /\ CrashesWithin(LineAges(h), CrashWindow) = Cardinality(Young(h))
         /\ IsFiniteSet(Young(h)) /\ Cardinality(Young(h)) \in Nat
<1>1. Len(h) \in Nat /\ DOMAIN h = 1 .. Len(h)
  BY LenProperties
<1>2. DOMAIN LineAges(h) = 1 .. Len(h) /\ \A i \in 1 .. Len(h) : LineAges(h)[i] = h[i].age
  BY <1>1 DEF LineAges
<1>3. {i \in DOMAIN LineAges(h) : LineAges(h)[i] < CrashWindow} = Young(h)
  BY <1>2 DEF Young
<1>4. IsFiniteSet(1 .. Len(h)) /\ Young(h) \in SUBSET (1 .. Len(h))
  BY <1>1, FS_Interval DEF Young
<1>5. IsFiniteSet(Young(h))
  BY <1>4, FS_Subset
<1> QED BY <1>3, <1>5, FS_CardinalityType DEF CrashesWithin

(* Time only takes lines out of the fuse's sight ...                        *)
LEMMA AgingForgets ==
  ASSUME NEW g \in Seq(Line), NEW h \in Seq(Line), Len(g) = Len(h),
         \A i \in 1 .. Len(h) : g[i].age >= h[i].age
  PROVE  Cardinality(Young(g)) <= Cardinality(Young(h))
<1>1. Young(g) \subseteq Young(h)
  <2> SUFFICES ASSUME NEW i \in 1 .. Len(h), g[i].age < CrashWindow
               PROVE  h[i].age < CrashWindow
    BY DEF Young
  <2>1. g[i] \in Line /\ h[i] \in Line
    BY ElementOfSeq
  <2>2. g[i].age \in Int /\ h[i].age \in Int /\ g[i].age >= h[i].age
    BY <2>1, LineAge
  <2> QED BY <2>2, GuardNumbers
<1> QED BY <1>1, FuseCounts, FS_Subset

(* ... and a crash adds one.                                                *)
LEMMA CrashAddsOne ==
  ASSUME NEW h \in Seq(Line), NEW r \in Line
  PROVE  Cardinality(Young(Append(h, r))) <= Cardinality(Young(h)) + 1
<1>1. PICK g \in Seq(Line) : g = Append(h, r)
  BY AppendProperties
<1>2. /\ Len(h) \in Nat /\ Len(g) = Len(h) + 1
      /\ \A i \in 1 .. Len(h) : g[i] = h[i]
  BY <1>1, LenProperties, AppendProperties
<1>3. Young(g) \subseteq Young(h) \cup {Len(h) + 1}
  BY <1>2 DEF Young
<1>4. PICK T : T = Young(h) \cup {Len(h) + 1}
  OBVIOUS
<1>5. IsFiniteSet(T) /\ Cardinality(T) <= Cardinality(Young(h)) + 1
  <2>1. IsFiniteSet(Young(h)) /\ Cardinality(Young(h)) \in Nat
    BY FuseCounts
  <2>2. PICK new, Y : new = Len(h) + 1 /\ Y = Young(h)
    OBVIOUS
  <2>3. IsFiniteSet(Y) /\ Cardinality(Y) \in Nat
    BY <2>1, <2>2
  <2>4. /\ IsFiniteSet(Y \cup {new})
        /\ Cardinality(Y \cup {new})
             = IF new \in Y THEN Cardinality(Y) ELSE Cardinality(Y) + 1
    BY <2>3, FS_AddElement, Zenon
  <2> QED BY <1>4, <2>2, <2>3, <2>4
<1>6. Cardinality(Young(g)) <= Cardinality(T)
  BY <1>3, <1>4, <1>5, FS_Subset
<1>7. Cardinality(Young(g)) \in Nat /\ Cardinality(T) \in Nat /\ Cardinality(Young(h)) \in Nat
  BY <1>5, FuseCounts, FS_CardinalityType
<1> QED BY <1>1, <1>5, <1>6, <1>7

(* What the fuse counts bounds the true number of recent crashes.           *)
LEMMA RecentAreCounted ==
  ASSUME history \in Seq(Line), recent \in Seq(Age), HistoryHoldsRecent
  PROVE  CrashesWithin(recent, CrashWindow) <= CrashesWithin(LineAges(history), CrashWindow)
<1> DEFINE n == Len(history)
           S == {i \in DOMAIN recent : recent[i] < CrashWindow}
           f == [i \in S |-> n + 1 - i]
<1>1. /\ n \in Nat /\ Len(recent) \in Nat /\ DOMAIN recent = 1 .. Len(recent)
      /\ Len(recent) <= n
      /\ \A i \in 1 .. Len(recent) : recent[i] = history[n + 1 - i].age
  BY LenProperties DEF HistoryHoldsRecent
<1>2. S \subseteq Nat
  BY <1>1
<1>3. f \in [S -> Young(history)]
  BY <1>1 DEF Young
<1>4. \A i \in S, j \in S : f[i] = f[j] => i = j
  BY <1>1, <1>2
<1>5. f \in Injection(S, Young(history))
  BY <1>3, <1>4 DEF Injection, IsInjective
<1> HIDE DEF f, S
<1>6. Cardinality(S) <= Cardinality(Young(history))
  BY <1>5, FuseCounts, FS_Injection
<1> QED BY <1>6, FuseCounts DEF S, CrashesWithin

(* Time that passes between two crashes.                                    *)
TimeGoesOn ==
  \E d \in Nat : /\ history' = Aged(history, d)
                /\ recent' = [i \in DOMAIN recent |-> Older(recent[i], d)]

(* The recent crashes grow older one by one.                                *)
LEMMA AgedRecent ==
  ASSUME NEW r \in Seq(Age), NEW d \in Nat
  PROVE  LET t == [i \in DOMAIN r |-> Older(r[i], d)] IN
         /\ t \in Seq(Age) /\ Len(t) = Len(r)
         /\ \A i \in 1 .. Len(r) : t[i] = Older(r[i], d)
<1> DEFINE t == [i \in DOMAIN r |-> Older(r[i], d)]
<1>1. Len(r) \in Nat /\ DOMAIN r = 1 .. Len(r)
  BY LenProperties
<1>2. \A i \in 1 .. Len(r) : r[i] \in Age
  BY ElementOfSeq
<1>3. t \in [1 .. Len(r) -> Age]
  BY <1>1, <1>2, OlderAge
<1>4. t \in Seq(Age)
  BY <1>1, <1>3, SeqDef
<1>5. Len(t) = Len(r)
  BY <1>1, <1>3, <1>4, LenProperties
<1> QED BY <1>1, <1>4, <1>5

(* GuardInv without the type of the rest.                                   *)
FuseInv ==
  Len(history) < HistoryLines =>
    /\ HistoryHoldsRecent
    /\ CrashesWithin(LineAges(history), CrashWindow)
         <= (IF state = "up" THEN MaxCrashCount - 1 ELSE MaxCrashCount)

(* ... takes nothing from the file and lets the fuse see no more than before. *)
LEMMA TimeKeeps ==
  ASSUME history \in Seq(Line), recent \in Seq(Age), TimeGoesOn
  PROVE  /\ history' \in Seq(Line) /\ recent' \in Seq(Age) /\ Len(history') = Len(history)
         /\ HistoryHoldsRecent => HistoryHoldsRecent'
         /\ CrashesWithin(LineAges(history'), CrashWindow)
              <= CrashesWithin(LineAges(history), CrashWindow)
<1>1. PICK d \in Nat : /\ history' = Aged(history, d)
                      /\ recent' = [i \in DOMAIN recent |-> Older(recent[i], d)]
  BY DEF TimeGoesOn
<1>2. /\ history' \in Seq(Line) /\ Len(history') = Len(history)
      /\ \A i \in 1 .. Len(history) : history'[i].age = Older(history[i].age, d)
  BY <1>1, AgedLines
<1>3. /\ recent' \in Seq(Age) /\ Len(recent') = Len(recent)
      /\ \A i \in 1 .. Len(recent) : recent'[i] = Older(recent[i], d)
  BY <1>1, AgedRecent
<1>4. \A i \in 1 .. Len(history) : history'[i].age >= history[i].age
  <2> SUFFICES ASSUME NEW i \in 1 .. Len(history)
               PROVE  history'[i].age >= history[i].age
    OBVIOUS
  <2>1. history[i].age \in Age
    BY ElementOfSeq, LineAge
  <2> QED BY <1>2, <2>1, OlderAge
<1>5. Cardinality(Young(history')) <= Cardinality(Young(history))
  BY <1>2, <1>4, AgingForgets
<1>6. ASSUME HistoryHoldsRecent
      PROVE  HistoryHoldsRecent'
  <2>1. Len(history) \in Nat /\ Len(recent) \in Nat
    BY LenProperties
  <2>2. \A i \in 1 .. Len(recent) :
          /\ Len(history) + 1 - i \in 1 .. Len(history)
          /\ recent[i] = history[Len(history) + 1 - i].age
    BY <1>6, <2>1 DEF HistoryHoldsRecent
  <2> QED BY <1>2, <1>3, <1>6, <2>2 DEF HistoryHoldsRecent
<1>7. /\ CrashesWithin(LineAges(history), CrashWindow) = Cardinality(Young(history))
      /\ CrashesWithin(LineAges(history'), CrashWindow) = Cardinality(Young(history'))
  BY <1>2, FuseCounts
<1> QED BY <1>2, <1>3, <1>5, <1>6, <1>7

(* A step that adds no crash, and starts the program only past the fuse.    *)
LEMMA QuietSteps ==
  ASSUME GuardTypeOK, FuseInv, TimeGoesOn,
         state' = "up" => state = "up" \/ ~ FuseTrips(history')
  PROVE  history' \in Seq(Line) /\ recent' \in Seq(Age) /\ FuseInv'
<1>1. history \in Seq(Line) /\ recent \in Seq(Age)
  BY DEF GuardTypeOK, Line
<1>2. /\ history' \in Seq(Line) /\ recent' \in Seq(Age) /\ Len(history') = Len(history)
      /\ HistoryHoldsRecent => HistoryHoldsRecent'
      /\ CrashesWithin(LineAges(history'), CrashWindow)
           <= CrashesWithin(LineAges(history), CrashWindow)
  BY <1>1, TimeKeeps
<1>3. /\ CrashesWithin(LineAges(history), CrashWindow) \in Nat
      /\ CrashesWithin(LineAges(history'), CrashWindow) \in Nat
  BY <1>1, <1>2, FuseCounts
<1>4. FuseInv'
  <2> SUFFICES ASSUME Len(history') < HistoryLines
               PROVE  /\ HistoryHoldsRecent'
                      /\ CrashesWithin(LineAges(history'), CrashWindow)
                           <= (IF state' = "up" THEN MaxCrashCount - 1 ELSE MaxCrashCount)
    BY DEF FuseInv
  <2>1. /\ HistoryHoldsRecent
        /\ CrashesWithin(LineAges(history), CrashWindow)
             <= (IF state = "up" THEN MaxCrashCount - 1 ELSE MaxCrashCount)
    BY <1>2 DEF FuseInv
  <2>2. state' = "up" /\ state # "up" =>
          CrashesWithin(LineAges(history'), CrashWindow) < MaxCrashCount
    BY <1>3, GuardNumbers DEF FuseTrips
  <2> QED BY <1>2, <1>3, <2>1, <2>2, GuardNumbers
<1> QED BY <1>2, <1>4

(* One more crash: its line is the newest one, and every other line is aged *)
(* like the crash it stands for.                                            *)
LEMMA CrashKeeps ==
  ASSUME GuardTypeOK, FuseInv, NEW u \in CrashUptimes[running], Crash(u)
  PROVE  /\ history' \in Seq(Line) /\ Len(history') <= HistoryLines
         /\ recent' \in Seq(Age) /\ FuseInv'
<1>1. /\ history \in Seq(Line) /\ recent \in Seq(Age) /\ Len(history) <= HistoryLines
      /\ HistoryLines \in Nat /\ running \in Versions /\ stable \in BOOLEAN
  BY BootGuardAssumption DEF GuardTypeOK, Line
<1>2. PICK d \in Nat : d = u - Uptime
  <2>1. u \in Nat
    BY <1>1, BootGuardAssumption
  <2>2. stable => u >= 60
    BY GuardNumbers DEF Crash
  <2>3. CASE stable
    BY <2>1, <2>2, <2>3, GuardNumbers DEF Uptime
  <2>4. CASE ~ stable
    BY <2>1, <2>4 DEF Uptime
  <2> QED BY <2>3, <2>4
<1>3. PICK h, r : h = Aged(history, d) /\ r = [age |-> 0, afterMark |-> TRUE]
  OBVIOUS
<1>4. PICK t : t = [i \in DOMAIN recent |-> Older(recent[i], d)]
  OBVIOUS
<1>5. /\ state = "up" /\ state' = "down" /\ history' = WriteLine(h)
      /\ recent' = SubSeq(<<0>> \o t, 1, IF Len(recent) < 6 THEN Len(recent) + 1 ELSE 6)
  BY <1>2, <1>3, <1>4 DEF Crash
<1>6. /\ h \in Seq(Line) /\ Len(h) = Len(history) /\ Len(h) \in Nat /\ r \in Line /\ r.age = 0
      /\ \A i \in 1 .. Len(h) : h[i].age = Older(history[i].age, d)
  BY <1>1, <1>3, AgedLines, LenProperties, GuardNumbers DEF Line
<1>7. /\ t \in Seq(Age) /\ Len(t) = Len(recent) /\ Len(recent) \in Nat
      /\ \A i \in 1 .. Len(recent) : t[i] = Older(recent[i], d)
  BY <1>1, <1>4, AgedRecent, LenProperties
<1>8. PICK m \in Nat : m = IF Len(recent) < 6 THEN Len(recent) + 1 ELSE 6
  BY <1>7
<1>9. /\ <<0>> \o t \in Seq(Age) /\ Len(<<0>> \o t) = Len(recent) + 1
      /\ (<<0>> \o t)[1] = 0
      /\ \A i \in 2 .. Len(recent) + 1 : (<<0>> \o t)[i] = Older(recent[i - 1], d)
  <2>1. <<0>> \in Seq(Age) /\ Len(<<0>>) = 1 /\ <<0>>[1] = 0
    BY GuardNumbers
  <2>2. PICK z : z = <<0>>
    OBVIOUS
  <2>3. /\ z \o t \in Seq(Age) /\ Len(z \o t) = 1 + Len(t)
        /\ \A i \in 1 .. 1 + Len(t) : (z \o t)[i] = IF i <= 1 THEN z[i] ELSE t[i - 1]
    BY <1>7, <2>1, <2>2, ConcatProperties
  <2> QED BY <1>7, <2>1, <2>2, <2>3
<1>10. /\ recent' \in Seq(Age) /\ Len(recent') = m /\ m <= Len(recent) + 1
       /\ \A i \in 1 .. m : recent'[i] = (<<0>> \o t)[i]
  <2>1. PICK z : z = <<0>> \o t
    OBVIOUS
  <2>2. m \in 1 .. Len(z) /\ z \in Seq(Age) /\ recent' = SubSeq(z, 1, m)
    BY <1>5, <1>7, <1>8, <1>9, <2>1
  <2>3. \A i \in 1 .. m : z[i] \in Age
    BY <2>2, ElementOfSeq
  <2>4. /\ SubSeq(z, 1, m) \in Seq(Age)
        /\ Len(SubSeq(z, 1, m)) = IF 1 <= m THEN m - 1 + 1 ELSE 0
        /\ \A i \in 1 .. m - 1 + 1 : SubSeq(z, 1, m)[i] = z[1 + i - 1]
    BY <2>3, SubSeqProperties
  <2> QED BY <1>7, <1>8, <2>1, <2>2, <2>4
<1>11. CASE Len(h) >= HistoryLines
  <2>1. history' = h
    BY <1>5, <1>11 DEF WriteLine
  <2> QED BY <1>1, <1>6, <1>10, <1>11, <2>1 DEF FuseInv
<1>12. CASE Len(h) < HistoryLines
  <2>1. history' = Append(h, r)
    <3>1. ~ (Len(h) >= HistoryLines)
      BY <1>1, <1>6, <1>12
    <3>2. WriteLine(h) = Append(h, [age |-> 0, afterMark |-> TRUE])
      BY <3>1 DEF WriteLine
    <3> QED BY <1>3, <1>5, <3>2
  <2>2. /\ history' \in Seq(Line) /\ Len(history') = Len(h) + 1
        /\ history'[Len(h) + 1] = r
        /\ \A i \in 1 .. Len(h) : history'[i] = h[i]
    BY <1>6, <2>1, AppendProperties
  <2>3. /\ HistoryHoldsRecent
        /\ CrashesWithin(LineAges(history), CrashWindow) <= 4
    BY <1>5, <1>6, <1>12, GuardNumbers DEF FuseInv
  <2>4. HistoryHoldsRecent'
    <3>1. Len(recent') <= Len(history')
      BY <1>6, <1>7, <1>10, <2>2, <2>3 DEF HistoryHoldsRecent
    <3>2. ASSUME NEW i \in 1 .. m
          PROVE  recent'[i] = history'[Len(history') + 1 - i].age
      <4>1. CASE i = 1
        <5>1. Len(history') + 1 - i = Len(h) + 1
          BY <1>6, <2>2, <4>1
        <5> QED BY <1>6, <1>9, <1>10, <2>2, <4>1, <5>1
      <4>2. CASE i # 1
        <5>1. PICK j \in 1 .. Len(recent) : j = i - 1
          BY <1>7, <1>10, <4>2
        <5>2. PICK k \in 1 .. Len(h) : k = Len(history) + 1 - j
          <6>1. Len(recent) <= Len(h)
            BY <1>6, <2>3 DEF HistoryHoldsRecent
          <6>2. Len(h) \in Nat /\ Len(recent) \in Nat
            BY <1>6, <1>7
          <6>3. Len(h) + 1 - j \in 1 .. Len(h)
            BY <6>1, <6>2
          <6> QED BY <1>6, <6>3
        <5>3. Len(history') + 1 - i = k /\ i \in 2 .. Len(recent) + 1
          BY <1>6, <1>7, <1>10, <2>2, <4>2, <5>1, <5>2
        <5>4. recent'[i] = Older(recent[j], d)
          BY <1>9, <1>10, <5>1, <5>3
        <5>5. recent[j] = history[k].age
          BY <2>3, <5>1, <5>2 DEF HistoryHoldsRecent
        <5>6. history'[k].age = Older(history[k].age, d)
          BY <1>6, <2>2
        <5> QED BY <5>3, <5>4, <5>5, <5>6
      <4> QED BY <4>1, <4>2
    <3> QED BY <1>10, <3>1, <3>2 DEF HistoryHoldsRecent
  <2>5. CrashesWithin(LineAges(history'), CrashWindow) <= 5
    <3>1. \A i \in 1 .. Len(history) : h[i].age >= history[i].age
      <4> SUFFICES ASSUME NEW i \in 1 .. Len(history)
                   PROVE  h[i].age >= history[i].age
        OBVIOUS
      <4>1. history[i].age \in Age
        BY <1>1, ElementOfSeq, LineAge
      <4> QED BY <1>6, <4>1, OlderAge
    <3>2. Cardinality(Young(h)) <= Cardinality(Young(history))
      BY <1>1, <1>6, <3>1, AgingForgets
    <3>3. Cardinality(Young(history')) <= Cardinality(Young(h)) + 1
      BY <1>6, <2>1, CrashAddsOne
    <3>4. /\ CrashesWithin(LineAges(history), CrashWindow) = Cardinality(Young(history))
          /\ CrashesWithin(LineAges(history'), CrashWindow) = Cardinality(Young(history'))
          /\ Cardinality(Young(history)) \in Nat /\ Cardinality(Young(h)) \in Nat
          /\ Cardinality(Young(history')) \in Nat
      BY <1>1, <1>6, <2>2, FuseCounts
    <3> QED BY <2>3, <3>2, <3>3, <3>4
  <2>6. Len(history') <= HistoryLines
    BY <1>1, <1>6, <1>12, <2>2
  <2> QED BY <1>5, <1>10, <2>2, <2>4, <2>5, <2>6, GuardNumbers DEF FuseInv
<1> QED BY <1>1, <1>6, <1>11, <1>12

(* What a step leaves of the types of everything but the two histories.      *)
PlacesOK ==
  /\ state \in {"up", "down", "dialog", "stopped"}
  /\ stable \in BOOLEAN /\ mark \in BOOLEAN
  /\ running \in Versions /\ app \in Versions
  /\ backup \in [{AppDir, RootDir} -> Versions \cup {NoBackup}]
  /\ limit \in [since : Age, num : 1 .. StartBurst]
  /\ updates \in 0 .. MaxUpdates
  /\ manual \in 0 .. MaxManual

(* So does the start limit's interval.                                      *)
LEMMA LimitAges ==
  ASSUME NEW l \in [since : Age, num : 1 .. StartBurst], NEW d \in Nat
  PROVE  [l EXCEPT !.since = Older(@, d)] \in [since : Age, num : 1 .. StartBurst]
BY OlderAge

(* A start that is allowed is counted.                                      *)
LEMMA LimitCounts ==
  ASSUME NEW l \in [since : Age, num : 1 .. StartBurst], ~ StartLimitHit(l)
  PROVE  Counted(l) \in [since : Age, num : 1 .. StartBurst]
<1>1. CASE l.since > StartWindow
  BY <1>1, GuardNumbers DEF Counted, StartBurst, Age, CrashWindow
<1>2. CASE ~ (l.since > StartWindow)
  <2>1. l.since \in Age /\ l.num \in 1 .. 5
    BY DEF StartBurst
  <2>2. l.num + 1 \in 1 .. 5
    BY <1>2, <2>1 DEF StartLimitHit, StartBurst, StartWindow, Age, CrashWindow
  <2>3. Counted(l) = [l EXCEPT !.num = l.num + 1]
    BY <1>2 DEF Counted
  <2> QED BY <2>2, <2>3 DEF StartBurst
<1> QED BY <1>1, <1>2

(* A started process runs, waits behind the fuse's message box, or ends     *)
(* after a rollback.                                                        *)
LEMMA BootPlaces ==
  ASSUME PlacesOK, Boot
  PROVE  /\ state' \in {"up", "down", "dialog"} /\ mark' \in BOOLEAN
         /\ running' \in Versions /\ app' \in Versions
         /\ state' = "up" => ~ FuseTrips(history')
<1>1. CASE mark /\ CrashesSinceMark(history') >= FailThreshold /\ RollbackSucceeds(RootDir)
  <2>1. backup[RootDir] \in Versions
    BY <1>1 DEF PlacesOK, RollbackSucceeds, AppDir, RootDir
  <2> QED BY <1>1, <2>1 DEF Boot, PlacesOK
<1>2. CASE ~ (mark /\ CrashesSinceMark(history') >= FailThreshold /\ RollbackSucceeds(RootDir))
  BY <1>2 DEF Boot, PlacesOK
<1> QED BY <1>1, <1>2

(* What the invariant of the guard comes to, part by part. *)
LEMMA GuardParts ==
  ASSUME PlacesOK, history \in Seq(Line), Len(history) <= HistoryLines,
         recent \in Seq(Age), FuseInv
  PROVE  GuardInv
BY DEF PlacesOK, Line, FuseInv, GuardInv, GuardTypeOK

(* ... as a step leaves it. *)
LEMMA GuardPartsAfter ==
  ASSUME PlacesOK', history' \in Seq(Line), Len(history') <= HistoryLines,
         recent' \in Seq(Age), FuseInv'
  PROVE  GuardInv'
BY DEF PlacesOK, Line, FuseInv, GuardInv, GuardTypeOK

(* The parts of the guard's invariant.                                      *)
LEMMA GuardSplits ==
  ASSUME GuardInv
  PROVE  /\ GuardTypeOK /\ FuseInv /\ PlacesOK
         /\ history \in Seq(Line) /\ Len(history) <= HistoryLines /\ recent \in Seq(Age)
         /\ HistoryLines \in Nat
BY BootGuardAssumption DEF PlacesOK, Line, FuseInv, GuardInv, GuardTypeOK

(* The steps that only let time pass.                                       *)
LEMMA QuietAfter ==
  ASSUME GuardInv, PlacesOK', NEW d \in Nat, TimePasses(d),
         state' = "up" => state = "up" \/ ~ FuseTrips(history')
  PROVE  GuardInv'
<1>1. TimeGoesOn
  BY DEF TimePasses, TimeGoesOn
<1>2. history' \in Seq(Line) /\ recent' \in Seq(Age) /\ FuseInv'
  BY <1>1, GuardSplits, QuietSteps
<1>3. Len(history') <= HistoryLines
  BY GuardSplits, AgedLines DEF TimePasses
<1> QED BY <1>2, <1>3, GuardPartsAfter

(* A hang keeps it: it leaves no line.                                      *)
LEMMA HangKeeps ==
  ASSUME GuardInv, Hang
  PROVE  GuardInv'
<1>1. PlacesOK
  BY GuardSplits
<1>2. PlacesOK' /\ TimePasses(HangSec) /\ state' # "up"
  <2>1. HangSec \in Nat
    BY GuardNumbers
  <2>2. limit' \in [since : Age, num : 1 .. StartBurst]
    BY <1>1, <2>1, LimitAges DEF Hang, PlacesOK
  <2> QED BY <1>1, <2>2 DEF Hang, PlacesOK
<1> QED BY <1>2, QuietAfter, GuardNumbers

(* The 60 s timer keeps it.                                                 *)
LEMMA StableKeeps ==
  ASSUME GuardInv, Stable
  PROVE  GuardInv'
<1>1. PlacesOK
  BY GuardSplits
<1>2. PlacesOK' /\ TimePasses(StableSec) /\ state = "up"
  <2>1. StableSec \in Nat
    BY GuardNumbers
  <2>2. limit' \in [since : Age, num : 1 .. StartBurst]
    BY <1>1, <2>1, LimitAges DEF Stable, PlacesOK
  <2> QED BY <1>1, <2>2 DEF Stable, PlacesOK
<1> QED BY <1>2, QuietAfter, GuardNumbers

(* A restart keeps it.                                                      *)
LEMMA RestartKeeps ==
  ASSUME GuardInv, Restart
  PROVE  GuardInv'
<1>1. PlacesOK
  BY GuardSplits
<1>2. PICK l : l = [limit EXCEPT !.since = Older(@, RestartSec)]
  OBVIOUS
<1>3. l \in [since : Age, num : 1 .. StartBurst]
  <2>1. RestartSec \in Nat
    BY GuardNumbers
  <2> QED BY <1>1, <1>2, <2>1, LimitAges DEF PlacesOK
<1>4. /\ TimePasses(RestartSec)
      /\ UNCHANGED <<stable, backup, updates, manual>>
  BY DEF Restart
<1>5. CASE StartLimitHit(l)
  <2>1. state' = "stopped" /\ limit' = l /\ UNCHANGED <<running, app, mark>>
    BY <1>2, <1>5 DEF Restart
  <2>2. PlacesOK'
    BY <1>1, <1>3, <1>4, <2>1 DEF PlacesOK
  <2> QED BY <1>4, <2>1, <2>2, QuietAfter, GuardNumbers
<1>6. CASE ~ StartLimitHit(l)
  <2>1. limit' = Counted(l) /\ Boot
    BY <1>2, <1>6 DEF Restart
  <2>2. PlacesOK' /\ (state' = "up" => ~ FuseTrips(history'))
    BY <1>1, <1>3, <1>4, <1>6, <2>1, BootPlaces, LimitCounts DEF PlacesOK
  <2> QED BY <1>4, <2>2, QuietAfter, GuardNumbers
<1> QED BY <1>5, <1>6

(* A start by hand keeps it.                                                *)
LEMMA ManualStartKeeps ==
  ASSUME GuardInv, NEW w \in Waits, ManualStart(w)
  PROVE  GuardInv'
<1>1. PlacesOK /\ w \in Nat
  BY GuardSplits, GuardNumbers DEF Waits
<1>2. /\ TimePasses(w) /\ Boot /\ limit' = [since |-> 0, num |-> 1]
      /\ manual < MaxManual /\ manual' = manual + 1
      /\ UNCHANGED <<stable, backup, updates>>
  BY DEF ManualStart
<1>3. limit' \in [since : Age, num : 1 .. StartBurst] /\ manual' \in 0 .. MaxManual
  BY <1>1, <1>2, GuardNumbers, BootGuardAssumption DEF PlacesOK
<1>4. PlacesOK' /\ (state' = "up" => ~ FuseTrips(history'))
  BY <1>1, <1>2, <1>3, BootPlaces DEF PlacesOK
<1> QED BY <1>1, <1>2, <1>4, QuietAfter

(* A crash keeps it: it adds a line, and the next boot looks at the fuse.   *)
LEMMA CrashLeaves ==
  ASSUME GuardInv, NEW u \in CrashUptimes[running], Crash(u)
  PROVE  GuardInv'
<1>1. PlacesOK /\ GuardTypeOK /\ FuseInv
  BY GuardSplits
<1>2. /\ history' \in Seq(Line) /\ Len(history') <= HistoryLines
      /\ recent' \in Seq(Age) /\ FuseInv'
  BY <1>1, CrashKeeps
<1>3. u - Uptime \in Nat
  <2>1. u \in Nat
    BY <1>1, BootGuardAssumption DEF PlacesOK
  <2>2. stable => u >= 60
    BY GuardNumbers DEF Crash
  <2> QED BY <1>1, <2>1, <2>2, GuardNumbers DEF Uptime, PlacesOK
<1>4. limit' \in [since : Age, num : 1 .. StartBurst]
  BY <1>1, <1>3, LimitAges DEF Crash, PlacesOK
<1>5. PlacesOK'
  BY <1>1, <1>4 DEF Crash, PlacesOK
<1> QED BY <1>2, <1>5, GuardPartsAfter

(* An update moves the boot mark: every line is older than it, none ages.   *)
LEMMA UpdateKeeps ==
  ASSUME GuardInv, NEW b \in Versions, Update(b)
  PROVE  GuardInv'
<1>1. /\ PlacesOK /\ FuseInv /\ history \in Seq(Line) /\ recent \in Seq(Age)
      /\ Len(history) <= HistoryLines
  BY GuardSplits
<1>2. /\ history' = [i \in DOMAIN history |-> [history[i] EXCEPT !.afterMark = FALSE]]
      /\ UNCHANGED <<state, recent>>
  BY DEF Update
<1>3. Len(history) \in Nat /\ DOMAIN history = 1 .. Len(history)
  BY <1>1, LenProperties
<1>4. ASSUME NEW i \in 1 .. Len(history)
      PROVE  history'[i] \in Line /\ history'[i].age = history[i].age
  <2>1. PICK r \in Line : r = history[i]
    BY <1>1, ElementOfSeq
  <2>2. history'[i] = [r EXCEPT !.afterMark = FALSE]
    BY <1>2, <1>3, <2>1
  <2> QED BY <2>1, <2>2 DEF Line
<1>5. history' \in [1 .. Len(history) -> Line]
  BY <1>2, <1>3, <1>4
<1>6. history' \in Seq(Line) /\ Len(history') = Len(history)
  <2>1. history' \in Seq(Line)
    BY <1>3, <1>5, SeqDef
  <2> QED BY <1>3, <1>5, <2>1, LenProperties
<1>7. CrashesWithin(LineAges(history'), CrashWindow)
        <= CrashesWithin(LineAges(history), CrashWindow)
  <2>1. \A i \in 1 .. Len(history) : history'[i].age >= history[i].age
    <3> SUFFICES ASSUME NEW i \in 1 .. Len(history)
                 PROVE  history'[i].age >= history[i].age
      OBVIOUS
    <3>1. history[i].age \in Int
      BY <1>1, ElementOfSeq, LineAge
    <3> QED BY <1>4, <3>1
  <2>2. Cardinality(Young(history')) <= Cardinality(Young(history))
    BY <1>1, <1>6, <2>1, AgingForgets
  <2> QED BY <1>1, <1>6, <2>2, FuseCounts
<1>8. HistoryHoldsRecent => HistoryHoldsRecent'
  <2> SUFFICES ASSUME HistoryHoldsRecent
               PROVE  HistoryHoldsRecent'
    OBVIOUS
  <2>1. Len(recent) \in Nat
    BY <1>1, LenProperties
  <2>2. \A i \in 1 .. Len(recent) :
          /\ Len(history) + 1 - i \in 1 .. Len(history)
          /\ recent[i] = history[Len(history) + 1 - i].age
    BY <1>3, <2>1 DEF HistoryHoldsRecent
  <2> QED BY <1>2, <1>4, <1>6, <2>2 DEF HistoryHoldsRecent
<1>9. FuseInv'
  <2>1. CrashesWithin(LineAges(history), CrashWindow) \in Nat
    BY <1>1, FuseCounts
  <2>2. CrashesWithin(LineAges(history'), CrashWindow) \in Nat
    BY <1>6, FuseCounts
  <2> QED BY <1>1, <1>2, <1>6, <1>7, <1>8, <2>1, <2>2, GuardNumbers DEF FuseInv
<1>10. PlacesOK'
  <2>1. updates' \in 0 .. MaxUpdates
    BY <1>1, BootGuardAssumption DEF PlacesOK, Update
  <2>2. backup' \in [{AppDir, RootDir} -> Versions \cup {NoBackup}]
    BY <1>1 DEF PlacesOK, Update
  <2> QED BY <1>1, <2>1, <2>2 DEF PlacesOK, Update
<1> QED BY <1>1, <1>2, <1>6, <1>9, <1>10, GuardPartsAfter

(* Steps that touch neither history.                                        *)
LEMMA StillKeeps ==
  ASSUME GuardInv, PlacesOK', UNCHANGED <<history, recent>>, state' = "up" => state = "up"
  PROVE  GuardInv'
<1>1. /\ FuseInv /\ history \in Seq(Line) /\ recent \in Seq(Age)
      /\ Len(history) <= HistoryLines
  BY GuardSplits
<1>2. CrashesWithin(LineAges(history), CrashWindow) \in Nat
  BY <1>1, FuseCounts
<1>3. FuseInv'
  BY <1>1, <1>2, GuardNumbers DEF FuseInv, HistoryHoldsRecent
<1> QED BY <1>1, <1>3, GuardPartsAfter

(* The guard's invariant: history, recent crashes and the fuse agree, for   *)
(* any versions and any lengths of history (watchdog.c:260-300).            *)
THEOREM GuardInvariant == GuardSpec => []GuardInv
<1>1. GuardInit => GuardInv
  <2> SUFFICES ASSUME GuardInit
               PROVE  GuardInv
    OBVIOUS
  <2>1. PlacesOK
    <3>1. limit \in [since : Age, num : 1 .. StartBurst]
      BY GuardNumbers DEF GuardInit
    <3>2. updates \in 0 .. MaxUpdates /\ manual \in 0 .. MaxManual
      BY BootGuardAssumption DEF GuardInit
    <3> QED BY <3>1, <3>2, BootGuardAssumption DEF GuardInit, PlacesOK
  <2>2. /\ history = <<>> /\ recent = <<>>
        /\ history \in Seq(Line) /\ recent \in Seq(Age)
        /\ Len(history) = 0 /\ Len(recent) = 0
    BY DEF GuardInit
  <2>3. Young(history) = {}
    BY <2>2 DEF Young
  <2>4. CrashesWithin(LineAges(history), CrashWindow) = 0
    BY <2>2, <2>3, FuseCounts, FS_EmptySet
  <2>5. FuseInv
    BY <2>2, <2>4, GuardNumbers DEF FuseInv, HistoryHoldsRecent
  <2> QED BY <2>1, <2>2, <2>5, BootGuardAssumption, GuardParts
<1>2. GuardInv /\ [GuardNext]_guardVars => GuardInv'
  <2> SUFFICES ASSUME GuardInv, [GuardNext]_guardVars
               PROVE  GuardInv'
    OBVIOUS
  <2>1. CASE QuitAfterUpdate
    <3>1. PlacesOK' /\ UNCHANGED <<history, recent>> /\ state' # "up"
      BY <2>1, GuardSplits DEF QuitAfterUpdate, PlacesOK
    <3> QED BY <3>1, StillKeeps
  <2>2. CASE DismissDialog
    <3>1. PlacesOK' /\ UNCHANGED <<history, recent>> /\ state' # "up"
      BY <2>2, GuardSplits DEF DismissDialog, PlacesOK
    <3> QED BY <3>1, StillKeeps
  <2>3. CASE UNCHANGED guardVars
    <3>1. PlacesOK' /\ UNCHANGED <<history, recent, state>>
      BY <2>3, GuardSplits DEF guardVars, PlacesOK
    <3> QED BY <3>1, StillKeeps
  <2> QED
    BY <2>1, <2>2, <2>3, HangKeeps, StableKeeps, RestartKeeps, CrashLeaves, UpdateKeeps,
       ManualStartKeeps DEF GuardNext
<1> QED BY <1>1, <1>2, PTL DEF GuardSpec

(* However the versions crash, whoever restarts them and however soon:      *)
(* watchdog_check_startup_safety (watchdog.c:297) and the restart delay     *)
(* never allow more than five crashes in 300 s, as long as crash_history is *)
(* shorter than the 4095 bytes the fuse reads of it (watchdog.c:276).       *)
THEOREM CrashRate ==
  GuardSpec => [](Len(history) < HistoryLines => CrashRateBounded)
<1>1. GuardInv => (Len(history) < HistoryLines => CrashRateBounded)
  <2> SUFFICES ASSUME GuardInv, Len(history) < HistoryLines
               PROVE  CrashRateBounded
    OBVIOUS
  <2>1. history \in Seq(Line) /\ recent \in Seq(Age)
    BY GuardSplits
  <2>2. /\ HistoryHoldsRecent
        /\ CrashesWithin(LineAges(history), CrashWindow) <= 5
    <3>1. CrashesWithin(LineAges(history), CrashWindow) \in Nat
      BY <2>1, FuseCounts
    <3> QED BY <3>1, GuardSplits, GuardNumbers DEF FuseInv
  <2>3. CrashesWithin(recent, CrashWindow) <= CrashesWithin(LineAges(history), CrashWindow)
    BY <2>1, <2>2, RecentAreCounted
  <2>4. CrashesWithin(LineAges(history), CrashWindow) \in Nat
    BY <2>1, FuseCounts
  <2>5. CrashesWithin(recent, CrashWindow) \in Nat
    <3>1. DOMAIN recent = 1 .. Len(recent) /\ Len(recent) \in Nat
      BY <2>1, LenProperties
    <3>2. IsFiniteSet(DOMAIN recent)
      BY <3>1, FS_Interval
    <3>3. {i \in DOMAIN recent : recent[i] < CrashWindow} \in SUBSET (DOMAIN recent)
      OBVIOUS
    <3>4. IsFiniteSet({i \in DOMAIN recent : recent[i] < CrashWindow})
      BY <3>2, <3>3, FS_Subset
    <3> QED BY <3>4, FS_CardinalityType DEF CrashesWithin
  <2> QED BY <2>2, <2>3, <2>4, <2>5, GuardNumbers DEF CrashRateBounded
<1> QED BY <1>1, GuardInvariant, PTL

=============================================================================
