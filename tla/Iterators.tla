----------------------------- MODULE Iterators -----------------------------
(***************************************************************************)
(* LOG_BEGIN and LOG_END in the first page of the I2C EEPROM.  Each has a  *)
(* partition of Len words, of which one holds the value and the next one   *)
(* TAG; the partitions overlap.  The iterators are read, written and       *)
(* initialised with one transfer per step.  A read may fail: its status is *)
(* not looked at and the buffer keeps what it held.  The controller may be *)
(* reset between any two transfers; a transfer is complete or not done.    *)
(***************************************************************************)
EXTENDS Integers

CONSTANTS
  Ends,           \* the places of LOG_END, 0..Ends-1; 0 is the first of the log
  MaxReadFaults   \* a bound: reads that fail

ASSUME IteratorsAssumption == Ends \in Nat \ {0} /\ MaxReadFaults \in Nat

Len == 8         \* DL_ITER_CBUFFER_LEN
Offset == 2      \* idx is j*DL_ITER_CBUFFER_LEN bytes: two words of four
Parts == 0..1
LogBegin == 0
LogEnd == 1

Values == 0..Ends-1
First == 0         \* LOG_FIRST_VALID_ADDRESS
Undef == -1        \* 0xFFFFFFFF: an unset iterator, and a blank word
TAG == -2          \* 0xFAFAFAFA
Words == Values \cup {Undef, TAG}

\* (Variant: both iterators in one partition.)
SlotShared(part, k) == k

\* The word that holds slot k of a partition, at address 4 + 4k + idx.
Slot(part, k) == k + Offset * part

\* With the TAG in slot k, the slot of the value (l in the code).
ValueSlot(k) == (k - 1) % Len

\* (Variant: the value goes where the TAG was, so that the writes are spread.)
WriteSlotMoving(k) == k

\* The slots that a write of the iterators puts the value and the TAG in.
WriteSlot(k) == ValueSlot(k)

\* (Variant: the TAG goes over the value.)
TagSlotStays(k) == WriteSlot(k)

TagSlot(k) == (WriteSlot(k) + 1) % Len

VARIABLES
  magic,    \* the chip begins with AC01
  word,     \* the words behind it
  ram,      \* g_eeprom_iter
  pc,       \* the next transfer, "idle" when none is under way
  saving,   \* datalogger_init is over; it belongs to a write of the iterators
  j, i,     \* the loop variables
  tmp,      \* the buffer of the search
  faults

vars == <<magic, word, ram, pc, saving, j, i, tmp, faults>>

\* A new chip, and the controller at its first boot.
Init ==
  /\ magic = FALSE
  /\ word = [w \in 0..Slot(LogEnd, Len - 1) |-> Undef]
  /\ ram = [p \in Parts |-> Undef]
  /\ pc = "magic" /\ saving = FALSE
  /\ j = 0 /\ i = 0 /\ tmp = Undef
  /\ faults = 0

chip == <<magic, word>>

\* What a read of word w leaves in a buffer that held one of before.
Fetch(w, before) ==
  {<<word[w], faults>>} \cup
    (IF faults < MaxReadFaults THEN before \X {faults + 1} ELSE {})

\* On to the transfer p with the loop variables at the start.
Start(p) == pc' = p /\ j' = 0 /\ i' = 0

(***************************************************************************)
(* datalogger_init.                                                        *)
(***************************************************************************)

\* The check of the magic.  A read that fails leaves other text in szBUF.
ReadMagic ==
  /\ pc = "magic"
  /\ \/ /\ magic /\ Start("seek") /\ UNCHANGED faults
     \/ /\ ~magic /\ Start("format") /\ UNCHANGED faults
     \/ /\ faults < MaxReadFaults /\ faults' = faults + 1
        /\ Start("format")
  /\ UNCHANGED <<chip, ram, saving, tmp>>

\* datalogger_reset_eeprom: the magic comes first.
Format ==
  /\ pc = "format"
  /\ magic' = TRUE
  /\ ram' = [p \in Parts |-> First]
  /\ Start("refill")
  /\ UNCHANGED <<word, saving, tmp, faults>>

\* datalogger_init_iterators_to_eeprom: the value, and TAG in all other slots.
\* datalogger_init then reads the iterators when it was datalogger_reset_eeprom
\* that called it.
Fill ==
  /\ pc \in {"fill", "refill"}
  /\ word' = [word EXCEPT ![Slot(j, i)] = IF i = 0 THEN ram[j] ELSE TAG]
  /\ IF i < Len - 1
       THEN i' = i + 1 /\ UNCHANGED <<pc, j, ram>>
       ELSE IF j = LogBegin
         THEN j' = LogEnd /\ i' = 0 /\ UNCHANGED <<pc, ram>>
         ELSE /\ Start(IF pc = "refill" THEN "seek" ELSE "idle")
              /\ ram' = IF pc = "refill" THEN [p \in Parts |-> Undef] ELSE ram
  /\ UNCHANGED <<magic, saving, tmp, faults>>

\* What follows when partition j is done and the iterators are now.
Finish(now) ==
  IF j = LogBegin
    THEN ram' = now /\ pc' = "seek" /\ j' = LogEnd /\ i' = 0
    ELSE IF ~saving /\ \E p \in Parts : now[p] = Undef
      THEN ram' = [p \in Parts |-> First] /\ Start("fill")
      ELSE ram' = now /\ Start("idle")

\* The search for TAG, of the reader and of the writer.  The buffer is not
\* initialised before the first read.
Seek ==
  /\ pc = "seek"
  /\ \E f \in Fetch(Slot(j, i), IF j = LogBegin /\ i = 0 THEN Words ELSE {tmp}) :
       /\ faults' = f[2]
       /\ tmp' = f[1]
       /\ IF f[1] = TAG
            THEN pc' = (IF saving THEN "compare" ELSE "load") /\ UNCHANGED <<ram, j, i>>
            ELSE IF i < Len - 1
              THEN i' = i + 1 /\ UNCHANGED <<ram, pc, j>>
              ELSE Finish(ram)
  /\ UNCHANGED <<chip, saving>>

\* datalogger_read_iterators_from_eeprom has found it.
Load ==
  /\ pc = "load"
  /\ \E f \in Fetch(Slot(j, ValueSlot(i)), {ram[j]}) :
       /\ faults' = f[2]
       /\ Finish([ram EXCEPT ![j] = f[1]])
  /\ UNCHANGED <<chip, saving, tmp>>

(***************************************************************************)
(* dl_task_store_data and datalogger_write_iterators_to_eeprom.            *)
(***************************************************************************)

NextEnd(e) == (e + 1) % Ends

\* The iterator is moved, for one record or for more, and then saved.
Advance ==
  /\ pc = "idle"
  /\ ram' = [ram EXCEPT ![LogEnd] = NextEnd(@)]
  /\ UNCHANGED <<chip, pc, saving, j, i, tmp, faults>>

Save ==
  /\ pc = "idle"
  /\ saving' = TRUE
  /\ Start("seek")
  /\ UNCHANGED <<chip, ram, tmp, faults>>

\* A value that has not changed is not written.
Compare ==
  /\ pc = "compare"
  /\ \E f \in Fetch(Slot(j, ValueSlot(i)), {tmp}) :
       /\ faults' = f[2]
       /\ tmp' = f[1]
       /\ IF f[1] = ram[j] THEN Finish(ram) ELSE pc' = "put" /\ UNCHANGED <<ram, j, i>>
  /\ UNCHANGED <<chip, saving>>

PutValue ==
  /\ pc = "put"
  /\ word' = [word EXCEPT ![Slot(j, WriteSlot(i))] = ram[j]]
  /\ pc' = "tag"
  /\ UNCHANGED <<magic, ram, saving, j, i, tmp, faults>>

PutTag ==
  /\ pc = "tag"
  /\ word' = [word EXCEPT ![Slot(j, TagSlot(i))] = TAG]
  /\ Finish(ram)
  /\ UNCHANGED <<magic, saving, tmp, faults>>

\* A reset.
Crash ==
  /\ ram' = [p \in Parts |-> Undef]
  /\ saving' = FALSE
  /\ tmp' = Undef
  /\ Start("magic")
  /\ UNCHANGED <<chip, faults>>

Next ==
  \/ ReadMagic \/ Format \/ Fill \/ Seek \/ Load
  \/ Advance \/ Save \/ Compare \/ PutValue \/ PutTag
  \/ Crash

Spec == Init /\ [][Next]_vars

(***************************************************************************)
(* Properties.                                                             *)
(***************************************************************************)

TypeOK ==
  /\ magic \in BOOLEAN
  /\ word \in [0..Slot(LogEnd, Len - 1) -> Words]
  /\ ram \in [Parts -> Words]
  /\ pc \in {"magic", "format", "refill", "fill", "seek", "load", "idle",
            "compare", "put", "tag"}
  /\ saving \in BOOLEAN
  /\ j \in Parts /\ i \in 0..Len-1
  /\ tmp \in Words
  /\ faults \in 0..MaxReadFaults

Booted == saving \/ pc = "idle"

\* What a boot without read errors makes of the chip as it is.
Stored(part) ==
  IF \E k \in 0..Len-1 : word[Slot(part, k)] = TAG
    THEN LET k == CHOOSE k \in 0..Len-1 :
                    /\ word[Slot(part, k)] = TAG
                    /\ \A n \in 0..k-1 : word[Slot(part, n)] # TAG
         IN word[Slot(part, ValueSlot(k))]
    ELSE Undef
Recovered(part) ==
  IF ~magic \/ \E p \in Parts : Stored(p) = Undef THEN First ELSE Stored(part)

\* The words and their tags implement one LOG_END that is replaced in one
\* step: a reset between any two transfers of datalogger_init or of
\* datalogger_write_iterators_to_eeprom finds the old value or the new one,
\* although the partitions overlap and the value is overwritten in place (as long
\* as the reads succeed).
Abstract == INSTANCE SavedIterator WITH
  ram <- IF Booted THEN ram[LogEnd] ELSE Recovered(LogEnd),
  saved <- Recovered(LogEnd),
  sound <- faults = 0
EndIsReplacedInOneStep == Abstract!Spec

\* LOG_BEGIN stays at the first place of the log, in RAM and for the next boot,
\* whatever happens to the partition of LOG_END that overlaps its own.
BeginStays ==
  faults = 0 =>
    Recovered(LogBegin) = First /\ (Booted => ram[LogBegin] = First)

\* A save that comes to its end has stored LOG_END, when it is a place of the
\* log, whichever read of the search failed on the way: a TAG that is overlooked
\* or seen too early moves the value, or damages the other partition, and the
\* same call makes it good.
SaveTakes ==
  [][(saving /\ pc # "idle" /\ pc' = "idle" /\ ram[LogEnd] \in Values)
        => Stored(LogEnd)' = ram[LogEnd]]_vars
=============================================================================
