----------------------------- MODULE MCDevices -----------------------------
(***************************************************************************)
(* The drivers and the hardware service in one run.  The parts share no     *)
(* variable, so their product has no property that the parts alone have     *)
(* not; TLC explores their sum: in a behaviour one part runs and the others *)
(* stay where they start.                                                  *)
(***************************************************************************)
EXTENDS Dispensing, CardReader, Watchdogs, DriverLifecycle, PwmMotor, DmaSpi, LightSensor,
        Sensors

VARIABLE part     (* the part that runs *)

deviceVars == <<part, vars, rc522Vars, watchdogVars, lifeVars, pwmVars, dmaVars, lightVars,
                sensorVars>>

DevicesInit ==
  /\ part \in {"dispensing", "rc522", "watchdogs", "lifecycle", "pwm", "dma", "light", "sensors"}
  /\ Init /\ CardReaderInit /\ WatchdogsInit /\ LifecycleInit /\ PwmMotorInit /\ DmaSpiInit
  /\ LightSensorInit /\ SensorsInit
  /\ part # "lifecycle" => driver = "motor"     (* the others do not look at it *)

DevicesNext ==
  /\ UNCHANGED part
  /\ \/ part = "dispensing" /\ Next
        /\ UNCHANGED <<rc522Vars, watchdogVars, lifeVars, pwmVars, dmaVars, lightVars, sensorVars>>
     \/ part = "rc522" /\ CardReaderNext
        /\ UNCHANGED <<vars, watchdogVars, lifeVars, pwmVars, dmaVars, lightVars, sensorVars>>
     \/ part = "watchdogs" /\ WatchdogsNext
        /\ UNCHANGED <<vars, rc522Vars, lifeVars, pwmVars, dmaVars, lightVars, sensorVars>>
     \/ part = "lifecycle" /\ LifecycleNext
        /\ UNCHANGED <<vars, rc522Vars, watchdogVars, pwmVars, dmaVars, lightVars, sensorVars>>
     \/ part = "pwm" /\ PwmMotorNext
        /\ UNCHANGED <<vars, rc522Vars, watchdogVars, lifeVars, dmaVars, lightVars, sensorVars>>
     \/ part = "dma" /\ DmaSpiNext
        /\ UNCHANGED <<vars, rc522Vars, watchdogVars, lifeVars, pwmVars, lightVars, sensorVars>>
     \/ part = "light" /\ LightSensorNext
        /\ UNCHANGED <<vars, rc522Vars, watchdogVars, lifeVars, pwmVars, dmaVars, sensorVars>>
     \/ part = "sensors" /\ SensorsNext
        /\ UNCHANGED <<vars, rc522Vars, watchdogVars, lifeVars, pwmVars, dmaVars, lightVars>>

(* A part that does not run stands in its initial state, where none of its   *)
(* fair actions is enabled.                                                 *)
DevicesSpec ==
  DevicesInit /\ [][DevicesNext]_deviceVars /\ DispensingFairness /\ SensorsFairness

=============================================================================
