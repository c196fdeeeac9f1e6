--------------------------- MODULE SnapshotQueue ---------------------------
(***************************************************************************)
(* What the snapshot ring promises, seen from outside: a reading that the  *)
(* tick takes is written to the EEPROM log once, in the order in which the *)
(* readings were taken, before the next one is taken.  A reading is lost   *)
(* only by a restart of the controller or when the EEPROM driver cannot be *)
(* initialised.  Scheduler.tla implements this.                            *)
(***************************************************************************)
EXTENDS Sequences

CONSTANTS Readings,     \* what a snapshot can hold
          NoReading     \* the log before the first record

VARIABLES queue,        \* readings taken and not yet written
          stored,       \* the last reading written to the log
          fault         \* a restart, or an EEPROM driver that failed to start

vars == <<queue, stored, fault>>

Init ==
  /\ queue = <<>>
  /\ stored = NoReading
  /\ fault \in BOOLEAN

Take(r) ==
  /\ queue = <<>>
  /\ queue' = <<r>>
  /\ UNCHANGED stored

Save ==
  /\ queue # <<>>
  /\ stored' = Head(queue)
  /\ queue' = Tail(queue)

Lose ==
  /\ fault'
  /\ queue' = <<>>
  /\ UNCHANGED stored

\* The fault comes and goes without touching the readings.
Environment == UNCHANGED <<queue, stored>>

Next ==
  \/ \E r \in Readings : Take(r)
  \/ Save
  \/ Lose
  \/ Environment

Spec == Init /\ [][Next]_vars
=============================================================================
