----------------------------- MODULE LightSensor -----------------------------
(***************************************************************************)
(* The light sensor's driver (driver/bh1750_drv.c): mode and measurement-   *)
(* time register are set by ioctl or, through IIO, by an integration time,  *)
(* and a reading is scaled by the register the driver remembers.  All of    *)
(* it happens under data->lock: a call is one step, in which each command   *)
(* to the chip may fail.  The chip measures on its own in the meantime.     *)
(***************************************************************************)
EXTENDS Integers, FiniteSets

CONSTANTS
  Registers,     (* values of the register that callers ask for           *)
  Default,       (* BH1750_DEFAULT_MTREG: 69                              *)
  MaxSettled     (* 103: up to it 180 ms hold a whole measurement         *)

ASSUME LightSensorAssumption ==
  Registers \subseteq Nat /\ Default \in 31 .. 254 /\ MaxSettled \in Nat

VARIABLES
  mtreg, current_mode,     (* data->mtreg, data->current_mode              *)
  chipMtreg, chipMode,     (* what the chip has taken                      *)
  resultOf,                (* the register value of its last measurement   *)
  scaleFits,               (* history: the last reading was scaled with    *)
                           (* the register value it was measured with      *)
  cmdFailed                (* history: a command of the last change failed *)

lightVars == <<mtreg, current_mode, chipMtreg, chipMode, resultOf, scaleFits, cmdFailed>>

Modes == {"continuous", "once"}

(* A register is sent in two commands, three and five bits of it. *)
High(value) == value \div 32
Low(value) == value % 32

LightSensorTypeOK ==
  /\ mtreg \in 0 .. 255 /\ chipMtreg \in 0 .. 255 /\ resultOf \in 0 .. 255
  /\ current_mode \in Modes /\ chipMode \in Modes
  /\ {cmdFailed, scaleFits} \subseteq BOOLEAN

(* bh1750_probe *)
LightSensorInit ==
  /\ mtreg = Default /\ chipMtreg = Default /\ resultOf = Default
  /\ current_mode = "continuous" /\ chipMode = "continuous"
  /\ scaleFits = TRUE /\ cmdFailed = FALSE

(* Mutant: a new value's high part is sent, not its low one. *)
set_mtreg_high(value, high, low) ==
  /\ chipMtreg' = (IF high THEN High(value) ELSE High(chipMtreg)) * 32 + Low(chipMtreg)
  /\ mtreg' = value

(* bh1750_set_mtreg: high and low say whether its commands arrive; what      *)
(* they return is not looked at.                                            *)
bh1750_set_mtreg(value, high, low) ==
  /\ chipMtreg' = (IF high THEN High(value) ELSE High(chipMtreg)) * 32
                    + (IF low THEN Low(value) ELSE Low(chipMtreg))
  /\ mtreg' = value

(* A mode command starts a measurement; a continuous one is waited for 180 ms, *)
(* which is too short for a large register.                                  *)
ModeCommand(mode, arrives) ==
  /\ chipMode' = IF arrives THEN mode ELSE chipMode
  /\ resultOf' = IF arrives /\ mode = "continuous" /\ chipMtreg' <= MaxSettled
                   THEN chipMtreg' ELSE resultOf

(* BH1750_IOC_SET_MTREG and write_raw: the value is cut to eight bits before  *)
(* it is checked.                                                           *)
SetMtreg(asked) ==
  LET value == asked % 256 IN
  /\ value \in 31 .. 254
  /\ \E high, low, mode \in BOOLEAN :
       /\ bh1750_set_mtreg(value, high, low) /\ ModeCommand(current_mode, mode)
       /\ cmdFailed' = ~(high /\ low /\ mode)
  /\ UNCHANGED <<current_mode, scaleFits>>

(* open(): power on, the register and the mode once more; it fails if the     *)
(* first or the last command does.                                          *)
bh1750_chr_open ==
  /\ \E high, low, mode \in BOOLEAN :
       /\ bh1750_set_mtreg(mtreg, high, low) /\ ModeCommand(current_mode, mode)
       /\ cmdFailed' = ~(high /\ low /\ mode)
  /\ UNCHANGED <<current_mode, scaleFits>>

SetMode(mode) ==
  \E arrives \in BOOLEAN :
    /\ current_mode' = IF arrives THEN mode ELSE current_mode
    /\ UNCHANGED <<mtreg, chipMtreg, cmdFailed, scaleFits>>
    /\ ModeCommand(mode, arrives)

(* The chip goes on measuring. *)
MeasurementEnds ==
  /\ chipMode = "continuous" /\ resultOf # chipMtreg
  /\ resultOf' = chipMtreg
  /\ UNCHANGED <<mtreg, current_mode, chipMtreg, chipMode, scaleFits, cmdFailed>>

(* bh1750_read_raw_lux: a one-shot measurement is triggered and waited for    *)
(* first; a failed command ends the call without a reading.                  *)
ReadLux ==
  /\ resultOf' = IF current_mode = "once" /\ chipMtreg <= MaxSettled THEN chipMtreg
                 ELSE resultOf
  /\ chipMode' = IF current_mode = "once" THEN "once" ELSE chipMode
  /\ scaleFits' = (mtreg = resultOf')
  /\ UNCHANGED <<mtreg, current_mode, chipMtreg, cmdFailed>>

LightSensorNext ==
  \/ bh1750_chr_open \/ MeasurementEnds \/ ReadLux
  \/ \E value \in Registers : SetMtreg(value)
  \/ \E mode \in Modes : SetMode(mode)

LightSensorSpec == LightSensorInit /\ [][LightSensorNext]_lightVars

-----------------------------------------------------------------------------
(* Properties. *)

(* The register the driver scales with is the one the chip has, unless a      *)
(* command of the last change did not arrive: the driver then takes the new   *)
(* value for set (bh1750_drv.c:79-84, 106, 160-161, 258).                    *)
ScaleIsTheChips == ~cmdFailed => mtreg = chipMtreg

(* bh1750_drv.c:38: "High resolution needs 120-180ms": a reading after the     *)
(* wait is scaled with the register it was measured with.  Violated: the      *)
(* measurement takes longer with a large register, and the one before is read. *)
ReadingFitsScale == ~cmdFailed => scaleFits

=============================================================================
