---------------------------- MODULE MCScheduler ----------------------------
(***************************************************************************)
(* Small instances of the scheduler.  Two readings tell the order of the   *)
(* snapshots apart.  A word of two base-4 digits stands for the uint32_t   *)
(* accumulator; it holds every value the tick lets it reach.               *)
(***************************************************************************)
EXTENDS Scheduler

CONSTANTS r1, r2
MCReadings == {r1, r2}
MCOneReading == {r1}
MCClockSteps == {0, 2}
MCNoClockStep == {0}
=============================================================================
