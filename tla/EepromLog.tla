----------------------------- MODULE EepromLog -----------------------------
(***************************************************************************)
(* The record log: dl_task_store_data appends a record at the END iterator *)
(* in one or two transfers, one record after the other, and then saves the *)
(* iterator; the uploads read the newest records backwards from END and    *)
(* mark them as sent.  The bus may fail (nothing looks at the status of a  *)
(* write) and the controller may be reset between any two steps.           *)
(*                                                                         *)
(* log is a history variable: the records that END stands for, newest      *)
(* last, as far back as Capacity.  ok tells whether every byte of the      *)
(* record was written with success, sent whether its flag was.             *)
(***************************************************************************)
EXTENDS LogAddress, Sequences

CONSTANTS
  IdMod,        \* the names 0..IdMod-1 tell records apart
  Capacity,     \* the newest records that must be there
  MaxUnsaved    \* a bound: the saved END is that many records behind, or one more

\* The newest records are there at the same time as those a reset forgets and
\* the one that is being written.
ASSUME LogCapacityAssumption ==
  /\ IdMod \in Nat \ {0} /\ Capacity \in Nat /\ MaxUnsaved \in Nat
  /\ (Capacity + MaxUnsaved + 1) * ItemSize <= Last - First

Ids == 0..IdMod-1

VARIABLES
  cell,     \* the bytes of the chip: <<record, offset>>, or Other
  end,      \* g_eeprom_iter[LOG_END] in RAM
  saved,    \* the END iterator in the EEPROM
  at,       \* page, msb, lsb: where the running task writes
  pc,       \* where the store task is
  okSoFar,  \* its bytes have gone out with success
  log,      \* the records before END, newest last
  unsaved   \* how many of them the saved END does not cover

vars == <<cell, end, saved, at, pc, okSoFar, log, unsaved>>

\* A byte of no intact record of the log: blank, or left over.
Other == <<-1, 0>>

\* datalogger_reset_eeprom and datalogger_init on a new chip.
Init ==
  /\ cell = [a \in Cells |-> Other]
  /\ end = First /\ saved = First
  /\ at = First
  /\ pc = "idle"
  /\ okSoFar = TRUE
  /\ log = <<>>
  /\ unsaved = 0

\* The name of the next record, free again when no record of the log has it.
NewId == IF log = <<>> THEN 0 ELSE (log[Len(log)].id + 1) % IdMod

\* A transfer writes the bytes that the chip has; Last is on no chip.
Written(t) ==
  [a \in Cells |-> IF a \in t.start .. (t.start + t.len - 1)
                     THEN <<NewId, t.offset + (a - t.start)>> ELSE cell[a]]
OnChip(t) == t.start .. (t.start + t.len - 1) \subseteq Cells

\* The bytes of a damaged record, and of one that has left the log, are like
\* any other.
Cleared(s) ==
  [a \in Cells |-> IF \E i \in 1..Len(s) : s[i].ok /\ s[i].id = cell[a][1]
                     THEN cell[a] ELSE Other]

Keep(s, n) == IF Len(s) <= n THEN s ELSE SubSeq(s, Len(s) - n + 1, Len(s))
DropNewest(s, n) == IF Len(s) <= n THEN <<>> ELSE SubSeq(s, 1, Len(s) - n)

(***************************************************************************)
(* dl_task_store_data.                                                     *)
(***************************************************************************)

\* The address is taken and END moved before anything is written; after a
\* record, that is the next one of the snapshot ring.
Take ==
  /\ pc = "idle" \/ (pc = "save" /\ unsaved <= MaxUnsaved)
  /\ at' = end
  /\ end' = Forward(end)
  /\ okSoFar' = TRUE
  /\ pc' = "head"
  /\ UNCHANGED <<cell, saved, log, unsaved>>

\* One call of AT24CXX_WriteBlock; its result is not looked at.
Transmit(t) ==
  \E ok \in BOOLEAN :
    /\ cell' = IF ok THEN Written(t) ELSE cell
    /\ okSoFar' = (okSoFar /\ ok /\ OnChip(t))

WriteHead ==
  /\ pc = "head"
  /\ Transmit(HeadOf(at))
  /\ pc' = IF Split(at) THEN "tail" ELSE "count"
  /\ UNCHANGED <<end, saved, at, log, unsaved>>

WriteTail ==
  /\ pc = "tail"
  /\ Transmit(TailOf(at))
  /\ pc' = "count"
  /\ UNCHANGED <<end, saved, at, log, unsaved>>

\* The record is in the log: END stands behind it.
Count ==
  /\ pc = "count"
  /\ log' = Keep(Append(log, [id |-> NewId, ok |-> okSoFar, sent |-> FALSE]),
                 Capacity + MaxUnsaved + 1)
  /\ cell' = Cleared(log')
  /\ unsaved' = unsaved + 1
  /\ okSoFar' = TRUE
  /\ pc' = "save"
  /\ UNCHANGED <<end, saved, at>>

\* datalogger_write_iterators_to_eeprom.
Save ==
  /\ pc = "save"
  /\ \/ saved' = end /\ unsaved' = 0
     \/ unsaved <= MaxUnsaved /\ UNCHANGED <<saved, unsaved>>
  /\ at' = First
  /\ pc' = "idle"
  /\ UNCHANGED <<cell, end, okSoFar, log>>

(***************************************************************************)
(* Marking as sent, and reset.                                             *)
(***************************************************************************)

\* Where the j-th record before END is.  (The readers go there one record at a
\* time, which is the same.)
Place(j) == BackBy(end, j)

\* send_data_with_post: the flag of a record it sent is written.  (A write that
\* fails changes nothing, and goes unnoticed.)
MarkSent(j) ==
  /\ pc = "idle"
  /\ j \in 1..Capacity /\ j <= Len(log)
  /\ LET a == FlagAddress(Place(j))
     IN cell' = IF a \in Cells /\ cell[a] # Other
                  THEN [cell EXCEPT ![a] = <<@[1], ItemSize>>] ELSE cell
  /\ log' = [log EXCEPT ![Len(log) - j + 1].sent = log[Len(log) - j + 1].ok]
  /\ UNCHANGED <<end, saved, at, pc, okSoFar, unsaved>>

\* A reset: END is what was saved, and the records it does not cover are
\* forgotten.
Crash ==
  /\ end' = saved
  /\ log' = DropNewest(log, unsaved)
  /\ cell' = Cleared(log')
  /\ unsaved' = 0
  /\ at' = First
  /\ pc' = "idle"
  /\ okSoFar' = TRUE
  /\ UNCHANGED saved

Next ==
  \/ Take \/ WriteHead \/ WriteTail \/ Count \/ Save
  \/ (\E j \in 1..Capacity : MarkSent(j))
  \/ Crash

Spec == Init /\ [][Next]_vars

(***************************************************************************)
(* Properties.                                                             *)
(***************************************************************************)

TypeOK ==
  /\ cell \in [Cells -> ({-1} \cup Ids) \X (0..ItemSize)]
  /\ end \in Places /\ saved \in Places /\ at \in Places
  /\ pc \in {"idle", "head", "tail", "count", "save"}
  /\ okSoFar \in BOOLEAN
  /\ log \in Seq([id : Ids, ok : BOOLEAN, sent : BOOLEAN])
  /\ unsaved \in 0..(MaxUnsaved + 1)

\* dl_get_record at place z returns record r: each byte comes from the chip.
Reads(z, r) ==
  \A k \in 0..ItemSize-1 :
    /\ ByteAddress(z, k) \in Cells
    /\ \/ cell[ByteAddress(z, k)] = <<r, k>>
       \/ k = ItemSize - 1 /\ cell[ByteAddress(z, k)] = <<r, ItemSize>>

\* Read backwards from END, the newest records of the log are those that were
\* stored, unless the bus failed while they were: whatever crashes, half
\* written records and wraps of the ring came after them (dl_task_store_data
\* and the moveback of the readers).
NewestRecordsIntact ==
  pc = "idle" =>
    \A j \in 1..Capacity :
      j <= Len(log) /\ log[Len(log) - j + 1].ok
        => Reads(Place(j), log[Len(log) - j + 1].id)

\* The record at z, named r, reads as sent.
Flagged(z, r) ==
  ByteAddress(z, ItemSize - 1) \in Cells
    /\ cell[ByteAddress(z, ItemSize - 1)] = <<r, ItemSize>>

\* A record that was marked keeps its mark, and no other record gets it: the
\* next upload skips the records that send_data_with_post has sent and no
\* others, as far as they do not cross the end of the ring.
FlagsFollowMarks ==
  pc = "idle" =>
    \A j \in 1..Capacity :
      (j <= Len(log) /\ log[Len(log) - j + 1].ok /\ FlagAddress(Place(j)) < Last)
        => (Flagged(Place(j), log[Len(log) - j + 1].id)
              <=> log[Len(log) - j + 1].sent)
=============================================================================
