------------------------------ MODULE MCDevices ------------------------------
(***************************************************************************)
(* The devices that the main loop shares with interrupts: the transfers of *)
(* TwiMaster, the readings that MB7040.c makes of them, and the clock.  A  *)
(* reading takes from a transfer no more than the sample or its failure,   *)
(* and the clock nothing, so they need not be interleaved: a behaviour is  *)
(* one of the bus, of the sensor or of the clock.                          *)
(***************************************************************************)
EXTENDS TwiMaster, LevelSensor, Clock

VARIABLE device

P(a, l, r) == [addr |-> a, length |-> l, read |-> r]
MCCalls ==
  {<<P(2, l, r)>> : l \in 1..3, r \in BOOLEAN} \cup {<<P(0, 3, FALSE)>>}
    \cup {<<P(0, 2, FALSE), P(0, l, TRUE)>> : l \in 1..3}
    \cup {<<P(1, 0, FALSE), P(0, 2, TRUE)>>}
MCNoise == {0, 3}

DeviceInit == Init /\ SensorInit /\ ClockInit /\ device \in {"bus", "sensor", "clock"}

BusStep == device = "bus" /\ Next /\ UNCHANGED <<device, sensorVars, clockVars>>
SensorStep == device = "sensor" /\ SensorNext /\ UNCHANGED <<device, vars, clockVars>>
ClockStep == device = "clock" /\ ClockNext /\ UNCHANGED <<device, vars, sensorVars>>

\* In the other behaviours the clock stands; the bus and the sensor are idle
\* where they stand.
ClockFair ==
  /\ WF_clockVars(device = "clock" /\ Second)
  /\ WF_clockVars(device = "clock" /\ WatchdogExpires)
  /\ WF_clockVars(device = "clock" /\ Alarm)
  /\ WF_clockVars(device = "clock" /\ Steps)

DeviceSpec ==
  /\ DeviceInit
  /\ [][BusStep \/ SensorStep \/ ClockStep]_<<device, vars, sensorVars, clockVars>>
  /\ Fairness /\ ClockFair
=============================================================================
