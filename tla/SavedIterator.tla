--------------------------- MODULE SavedIterator ---------------------------
(***************************************************************************)
(* What the two iterators in the EEPROM are for: a copy of LOG_END that is *)
(* replaced in one step, and that a reset returns to.                      *)
(***************************************************************************)
CONSTANTS
  Values,   \* the places LOG_END can have
  First     \* where it is on a new chip

VARIABLES
  ram, saved,
  sound     \* no read of the chip has failed so far

Init == ram = First /\ saved = First /\ sound = TRUE

Advance == ram' \in Values /\ UNCHANGED saved
Save == saved' = ram /\ UNCHANGED ram
Reset == ram' = saved /\ UNCHANGED saved

\* Nothing is promised after a failed read.
Unsound == ~sound'

Next == (sound /\ sound' /\ (Advance \/ Save \/ Reset)) \/ Unsound

Spec == Init /\ [][Next]_<<ram, saved, sound>>
=============================================================================
