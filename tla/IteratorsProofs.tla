--------------------------- MODULE IteratorsProofs ---------------------------
(***************************************************************************)
(* Proofs about Iterators, for a log of any length and any number of       *)
(* failing reads except where a theorem says otherwise.                    *)
(*                                                                         *)
(* What is on the chip at any moment is one of three things: nothing       *)
(* (Blank), a first filling that has come so far and no farther (Forming), *)
(* or both iterators in their first slots (Formed), where every save puts  *)
(* them again.  Sound says which it is for each place between two          *)
(* transfers; since it rests on what the search has read, it holds until a *)
(* read fails.  A single failing read leaves more: a search that it        *)
(* misleads, and the second filling that may come of that, never touch the *)
(* words in the middle (OneFault, Firm), where the next search stops.      *)
(***************************************************************************)
EXTENDS Iterators, TLAPS

(***************************************************************************)
(* The chip: operators of the words, so that they can be said of the words *)
(* before and after a step.                                                *)
(***************************************************************************)

Slots == 0..Len-1

\* No slot of the partition before k holds the TAG; slot k is the first that does.
NoneBefore(w, part, k) == \A n \in 0..k-1 : w[Slot(part, n)] # TAG
FirstTag(w, part, k) == w[Slot(part, k)] = TAG /\ NoneBefore(w, part, k)

\* Stored and Recovered of the words w behind a magic m.
StoredIn(w, part) ==
  IF \E k \in Slots : w[Slot(part, k)] = TAG
    THEN LET k == CHOOSE k \in Slots : FirstTag(w, part, k)
         IN w[Slot(part, ValueSlot(k))]
    ELSE Undef
RecoveredIn(m, w, part) ==
  IF ~m \/ \E p \in Parts : StoredIn(w, p) = Undef THEN First ELSE StoredIn(w, part)

Blank(w) == \A x \in 0..9 : w[x] = Undef

\* A chip whose iterators are being filled for the first time, in the order of the
\* words: word 9, the last, comes last.
Forming(w) ==
  /\ w[0] \in {First, Undef} /\ w[1] \in {TAG, Undef}
  /\ w[1] = TAG => w[0] = First
  /\ w[2] = TAG => w[1] = TAG
  /\ \A x \in 2..9 : w[x] \in {Undef, TAG}
  /\ \A x \in 3..9 : w[x] = TAG => w[2] = TAG
  /\ w[9] = Undef

\* A chip with both iterators in their first slots.
Formed(w) ==
  /\ w[0] = First /\ w[1] = TAG /\ w[2] \in Values
  /\ \A x \in 3..7 : w[x] = TAG

\* The words that both partitions have, and that no save writes.
Firm(w) == \A x \in 4..6 : w[x] = TAG

Searching == pc \in {"seek", "load", "compare", "put", "tag"}
Unread == [p \in Parts |-> Undef]
Reset == [p \in Parts |-> First]

-----------------------------------------------------------------------------
\* Where a step of either belongs.
Position ==
  /\ pc \in {"magic", "format", "refill", "fill", "load"} => ~saving
  /\ pc \in {"compare", "put", "tag"} => saving
  /\ ~magic => Blank(word) /\ pc \in {"magic", "format"}
  /\ pc \in {"magic", "format"} => ram = Unread
  /\ pc \in {"fill", "refill"} => ram = Reset
  /\ pc \in {"seek", "load"} /\ ~saving => ram[LogEnd] = Undef

\* As long as no read has failed.
Sound ==
  /\ pc = "format" => ~magic
  /\ Forming(word) \/ Formed(word)
  /\ Booted => Formed(word) /\ ram[LogBegin] = First /\ ram[LogEnd] \in Values
  /\ pc \in {"fill", "refill"} =>
       IF j = LogBegin THEN Forming(word) /\ \A n \in 0..i-1 : word[n] = (IF n = 0 THEN First ELSE TAG)
       ELSE /\ word[0] = First /\ \A n \in 1..7 : n # 2 => word[n] = TAG
            /\ IF i = 0 THEN Forming(word) /\ word[2] = TAG ELSE Formed(word) /\ word[2] = First
  /\ Searching =>
       /\ pc # "tag" => NoneBefore(word, j, i)
       /\ pc # "seek" => word[Slot(j, i)] = TAG
  /\ pc \in {"seek", "load"} /\ ~saving =>
       ram[LogBegin] = IF j = LogBegin THEN Undef ELSE StoredIn(word, LogBegin)
  /\ pc \in {"put", "tag"} => j = LogEnd /\ i = 1
  /\ pc = "tag" => word[2] = ram[LogEnd]

SoundUntilFault == faults = 0 => Sound

-----------------------------------------------------------------------------
\* Before slot i of LOG_END's partition stands no TAG, or one that was overlooked.
Found(w, k) ==
  NoneBefore(w, LogEnd, k) \/ (k = 2 /\ w[2] # TAG /\ w[3] = TAG)

\* With one failed read at most: where the search stops, and that the words which
\* both partitions have are there whenever a save may come.
OneFault ==
  /\ Forming(word) \/ Firm(word)
  /\ Booted => Firm(word)
  /\ pc \in {"fill", "refill"} =>
       IF j = LogBegin
       THEN (i > 0 => word[0] = First) /\ \A n \in 1..i-1 : word[n] = TAG
       ELSE Firm(word)
  /\ pc = "seek" /\ faults = 0 =>
       IF saving THEN j = LogEnd => tmp # TAG
       ELSE j = LogEnd /\ i = 0 /\ word[2] = TAG => Firm(word) \/ tmp = TAG
  /\ pc = "load" => tmp = TAG
  /\ pc = "seek" /\ ~saving /\ j = LogEnd /\ i > 0 => Firm(word) \/ word[2] # TAG
  /\ pc = "load" /\ j = LogEnd => Firm(word) \/ word[Slot(LogEnd, ValueSlot(i))] = Undef
  /\ saving /\ Searching =>
       /\ i <= IF j = LogBegin THEN 4 ELSE 2
       /\ j = LogEnd /\ pc # "tag" => Found(word, i)
       /\ j = LogEnd /\ pc # "seek" => word[Slot(LogEnd, i)] = TAG
       /\ pc = "compare" => tmp = TAG
       /\ pc = "tag" /\ j = LogEnd /\ ram[LogEnd] \in Values =>
            NoneBefore(word, LogEnd, i) /\ word[Slot(LogEnd, ValueSlot(i))] = ram[LogEnd]

IInv == TypeOK /\ Position /\ SoundUntilFault
IInvOne == IInv /\ OneFault

LEMMA RemainderSeven ==
  ASSUME NEW a \in Int
  PROVE  (8 * a + 7) % 8 = 7
  OBVIOUS

LEMMA LastIsBeforeFirst ==
  ASSUME NEW a \in Int, a = -1
  PROVE  a % 8 = 7
<1>1. a = 8 * a + 7
  OBVIOUS
<1> QED BY <1>1, RemainderSeven, Zenon

USE IteratorsAssumption DEF IteratorsAssumption, Len, Offset, Parts, LogBegin, LogEnd, Values, First, Undef, TAG, Words, Slots

-----------------------------------------------------------------------------
(***************************************************************************)
(* Slots, and what is stored on a chip of each kind.                       *)
(***************************************************************************)

\* Where the slots are; the TAG goes back to the slot it was found in.
LEMMA SlotPlaces ==
  /\ \A k \in Slots : Slot(LogBegin, k) = k /\ Slot(LogEnd, k) = k + 2
  /\ ValueSlot(0) = 7 /\ \A k \in 1..7 : ValueSlot(k) = k - 1
  /\ \A k \in Slots : ValueSlot(k) \in Slots /\ TagSlot(k) = k
<1>1. \A k \in Slots : k \in 1..7 \/ k = 0
  OBVIOUS
<1>2. ASSUME NEW k \in Slots, k = 0
      PROVE  ValueSlot(k) = 7 /\ TagSlot(k) = 0
  <2>1. k - 1 \in Int /\ k - 1 = -1 /\ (7 + 1) % 8 = 0
    BY <1>2
  <2>2. (k - 1) % 8 = 7
    BY <2>1, LastIsBeforeFirst, Zenon
  <2> QED BY <2>1, <2>2, Zenon DEF ValueSlot, TagSlot, WriteSlot
<1>3. ASSUME NEW k \in 1..7
      PROVE  ValueSlot(k) = k - 1 /\ TagSlot(k) = k
  BY DEF ValueSlot, TagSlot, WriteSlot
<1> QED BY <1>1, <1>2, <1>3 DEF Slot

LEMMA StoredAt ==
  ASSUME NEW w, NEW part, NEW k \in Slots, FirstTag(w, part, k)
  PROVE  StoredIn(w, part) = w[Slot(part, ValueSlot(k))]
<1>1. ASSUME NEW n \in Slots, FirstTag(w, part, n)
      PROVE  n = k
  BY <1>1 DEF FirstTag, NoneBefore
<1>2. (CHOOSE n \in Slots : FirstTag(w, part, n)) = k
  BY <1>1
<1> QED BY <1>2 DEF StoredIn, FirstTag

LEMMA StoredNowhere ==
  ASSUME NEW w, NEW part, \A k \in Slots : w[Slot(part, k)] # TAG
  PROVE  StoredIn(w, part) = Undef
  BY DEF StoredIn

LEMMA FormingStores ==
  ASSUME NEW w, Forming(w)
  PROVE  StoredIn(w, LogEnd) = Undef
<1>1. CASE w[2] = TAG
  <2>1. FirstTag(w, LogEnd, 0)
    BY <1>1, SlotPlaces DEF FirstTag, NoneBefore
  <2> QED BY <2>1, StoredAt, SlotPlaces DEF Forming
<1>2. CASE w[2] # TAG
  <2>1. \A k \in Slots : w[Slot(LogEnd, k)] # TAG
    BY <1>2, SlotPlaces DEF Forming
  <2> QED BY <2>1, StoredNowhere
<1> QED BY <1>1, <1>2

LEMMA FormedStores ==
  ASSUME NEW w, Formed(w)
  PROVE  StoredIn(w, LogBegin) = First /\ StoredIn(w, LogEnd) = w[2]
<1>1. FirstTag(w, LogBegin, 1) /\ FirstTag(w, LogEnd, 1)
  BY SlotPlaces DEF FirstTag, NoneBefore, Formed
<1> QED BY <1>1, StoredAt, SlotPlaces DEF Formed

\* What a boot recovers from them.
LEMMA FormingRecovers ==
  ASSUME NEW w, NEW m, Forming(w), NEW part \in Parts
  PROVE  RecoveredIn(m, w, part) = First
  BY FormingStores DEF RecoveredIn

LEMMA FormedRecovers ==
  ASSUME NEW w, Formed(w)
  PROVE  RecoveredIn(TRUE, w, LogBegin) = First /\ RecoveredIn(TRUE, w, LogEnd) = w[2]
  BY FormedStores DEF RecoveredIn, Formed

LEMMA BlankIsForming ==
  ASSUME NEW w, Blank(w)
  PROVE  Forming(w)
  BY DEF Blank, Forming

LEMMA RecoveredSame ==
  ASSUME NEW part
  PROVE  Recovered(part) = RecoveredIn(magic, word, part) /\ Stored(part) = StoredIn(word, part)
  BY DEF Recovered, RecoveredIn, Stored, StoredIn, FirstTag, NoneBefore

-----------------------------------------------------------------------------
(***************************************************************************)
(* Types.                                                                  *)
(***************************************************************************)

LEMMA NextEndIsPlace ==
  ASSUME NEW e \in Words
  PROVE  NextEnd(e) \in Values
  BY DEF NextEnd

LEMMA FetchTypes ==
  ASSUME TypeOK, NEW w \in 0..9, NEW before \in SUBSET Words, NEW f \in Fetch(w, before)
  PROVE  /\ f[1] \in Words /\ f[2] \in 0..MaxReadFaults
         /\ f[2] >= faults
         /\ f[2] = faults => f[1] = word[w]
         /\ f[2] # faults => f[1] \in before /\ f[2] = faults + 1 /\ faults < MaxReadFaults
<1>1. word[w] \in Words
  BY DEF TypeOK, Slot
<1>2. f = <<word[w], faults>> \/ (faults < MaxReadFaults /\ f \in before \X {faults + 1})
  BY DEF Fetch
<1>3. CASE f = <<word[w], faults>>
  BY <1>1, <1>3 DEF TypeOK
<1>4. CASE faults < MaxReadFaults /\ f \in before \X {faults + 1}
  <2>1. faults \in Nat /\ MaxReadFaults \in Nat
    BY DEF TypeOK
  <2>2. f[1] \in before /\ f[2] = faults + 1
    BY <1>4, <2>1
  <2>3. f[1] \in Words
    BY <2>2
  <2> HIDE DEF Words
  <2> QED BY <2>1, <2>2, <2>3, <1>4
<1> QED BY <1>2, <1>3, <1>4

LEMMA InitTypeOK == Init => TypeOK
<1> SUFFICES ASSUME Init PROVE TypeOK
  OBVIOUS
<1> USE DEF Init
<1>1. word \in [0..Slot(LogEnd, Len - 1) -> Words] /\ ram \in [Parts -> Words]
  OBVIOUS
<1>2. j \in Parts /\ i \in 0..Len-1 /\ tmp \in Words /\ faults \in 0..MaxReadFaults
  OBVIOUS
<1> QED BY <1>1, <1>2 DEF TypeOK

\* A search that finds its partition done goes on with types that are right.
LEMMA FinishTypes ==
  ASSUME TypeOK, NEW now \in [Parts -> Words], Finish(now)
  PROVE  ram' \in [Parts -> Words] /\ pc' \in {"seek", "fill", "idle"} /\ j' \in Parts /\ i' \in 0..Len-1
  BY DEF TypeOK, Finish, Start

LEMMA NextTypeOK == TypeOK /\ [Next]_vars => TypeOK'
<1> SUFFICES ASSUME TypeOK, [Next]_vars PROVE TypeOK'
  OBVIOUS
<1>a. /\ word \in [0..9 -> Words] /\ ram \in [Parts -> Words] /\ j \in Parts /\ i \in 0..7
      /\ tmp \in Words /\ faults \in 0..MaxReadFaults
  BY DEF TypeOK, Slot
<1>1. CASE ReadMagic
  BY <1>1 DEF TypeOK, ReadMagic, Start, chip
<1>2. CASE Format
  BY <1>2 DEF TypeOK, Format, Start
<1>3. CASE Fill
  <2>1. word' \in [0..9 -> Words] /\ ram' \in [Parts -> Words]
    BY <1>3, <1>a DEF Fill, Slot
  <2>2. i' \in 0..Len-1 /\ j' \in Parts /\ pc' \in {"fill", "refill", "seek", "idle"}
    BY <1>3, <1>a DEF Fill, Start
  <2> QED BY <1>3, <2>1, <2>2 DEF TypeOK, Fill, Slot
<1>4. CASE Seek
  <2>1. PICK f \in Fetch(Slot(j, i), IF j = LogBegin /\ i = 0 THEN Words ELSE {tmp}) : Seek!2!(f)
    BY <1>4 DEF Seek
  <2>2. f[1] \in Words /\ f[2] \in 0..MaxReadFaults
    BY <1>a, FetchTypes DEF Slot
  <2>3. ram' \in [Parts -> Words] /\ pc' \in {"compare", "load", "seek", "fill", "idle"} /\ j' \in Parts /\ i' \in 0..Len-1
    BY <1>a, <1>4, <2>1, FinishTypes DEF Seek
  <2> QED BY <1>4, <2>1, <2>2, <2>3 DEF TypeOK, Seek, chip
<1>5. CASE Load
  <2>1. PICK f \in Fetch(Slot(j, ValueSlot(i)), {ram[j]}) : Load!2!(f)
    BY <1>5 DEF Load
  <2>2. f[1] \in Words /\ f[2] \in 0..MaxReadFaults
    BY <1>a, SlotPlaces, FetchTypes DEF Slot
  <2>3. [ram EXCEPT ![j] = f[1]] \in [Parts -> Words]
    BY <1>a, <2>2
  <2>4. ram' \in [Parts -> Words] /\ pc' \in {"seek", "fill", "idle"} /\ j' \in Parts /\ i' \in 0..Len-1
    BY <2>1, <2>3, FinishTypes
  <2> QED BY <1>5, <2>1, <2>2, <2>4 DEF TypeOK, Load, chip
<1>6. CASE Advance
  BY <1>6, <1>a, NextEndIsPlace DEF TypeOK, Advance, chip
<1>7. CASE Save
  BY <1>7 DEF TypeOK, Save, chip, Start
<1>8. CASE Compare
  <2>1. PICK f \in Fetch(Slot(j, ValueSlot(i)), {tmp}) : Compare!2!(f)
    BY <1>8 DEF Compare
  <2>2. f[1] \in Words /\ f[2] \in 0..MaxReadFaults
    BY <1>a, SlotPlaces, FetchTypes DEF Slot
  <2>3. ram' \in [Parts -> Words] /\ pc' \in {"seek", "fill", "idle", "put"} /\ j' \in Parts /\ i' \in 0..Len-1
    BY <1>a, <2>1, FinishTypes
  <2> QED BY <1>8, <2>1, <2>2, <2>3 DEF TypeOK, Compare, chip
<1>9. CASE PutValue
  BY <1>9, <1>a DEF TypeOK, PutValue
<1>10. CASE PutTag
  <2>1. word' \in [0..9 -> Words]
    BY <1>10, <1>a DEF PutTag
  <2>2. ram' \in [Parts -> Words] /\ pc' \in {"seek", "fill", "idle"} /\ j' \in Parts /\ i' \in 0..Len-1
    BY <1>10, <1>a, FinishTypes DEF PutTag
  <2> QED BY <1>10, <2>1, <2>2 DEF TypeOK, PutTag, Slot
<1>11. CASE Crash
  <2>1. ram' = [p \in Parts |-> Undef]
    BY <1>11 DEF Crash
  <2>2. ram' \in [Parts -> Words]
    BY <2>1
  <2>3. magic' \in BOOLEAN /\ word' \in [0..9 -> Words] /\ saving' \in BOOLEAN /\ faults' \in 0..MaxReadFaults
    BY <1>11, <1>a DEF Crash, chip, TypeOK
  <2>4. pc' = "magic" /\ j' \in Parts /\ i' \in 0..Len-1 /\ tmp' \in Words
    BY <1>11 DEF Crash, Start
  <2> QED BY <2>2, <2>3, <2>4 DEF TypeOK, Slot
<1>12. CASE UNCHANGED vars
  BY <1>12 DEF TypeOK, vars
<1> QED BY <1>1, <1>2, <1>3, <1>4, <1>5, <1>6, <1>7, <1>8, <1>9, <1>10, <1>11, <1>12 DEF Next

-----------------------------------------------------------------------------
(***************************************************************************)
(* Positions.                                                              *)
(***************************************************************************)

\* A search that goes on: now has no LOG_END of a boot that has not read it.
LEMMA FinishPosition ==
  ASSUME TypeOK, Position, NEW now \in [Parts -> Words], Finish(now),
         pc \in {"seek", "load", "compare", "tag"},
         ~saving /\ j = LogBegin => now[LogEnd] = Undef,
         magic' = magic, saving' = saving
  PROVE  Position'
<1>1. magic' /\ pc' \in {"seek", "fill", "idle"}
  BY DEF Position, Finish, Start, TypeOK
<1>2. pc' = "fill" => ~saving' /\ ram' = Reset
  BY DEF Position, Finish, Start, TypeOK, Reset
<1>3. pc' = "seek" /\ ~saving' => ram'[LogEnd] = Undef
  BY DEF Position, Finish, Start, TypeOK
<1> QED BY <1>1, <1>2, <1>3 DEF Position

LEMMA NextPosition == TypeOK /\ Position /\ [Next]_vars => Position'
<1> SUFFICES ASSUME TypeOK, Position, [Next]_vars PROVE Position'
  OBVIOUS
<1>a. /\ word \in [0..9 -> Words] /\ ram \in [Parts -> Words] /\ j \in Parts /\ i \in 0..7
      /\ tmp \in Words /\ faults \in 0..MaxReadFaults
  BY DEF TypeOK, Slot
<1>1. CASE ReadMagic
  BY <1>1 DEF Position, ReadMagic, Start, chip, Unread, Blank
<1>2. CASE Format
  BY <1>2 DEF Position, Format, Start, Reset
<1>3. CASE Fill
  <2>1. magic' /\ ~saving'
    BY <1>3 DEF Position, Fill
  <2>2. pc' \in {"fill", "refill"} => ram' = Reset
    BY <1>3 DEF Position, Fill, Start
  <2>3. pc' \in {"fill", "refill", "seek", "idle"}
    BY <1>3 DEF Fill, Start
  <2>4. pc' = "seek" => ram'[LogEnd] = Undef
    BY <1>3 DEF Fill, Start
  <2> QED BY <2>1, <2>2, <2>3, <2>4 DEF Position
<1>4. CASE Seek
  <2>1. PICK f \in Fetch(Slot(j, i), IF j = LogBegin /\ i = 0 THEN Words ELSE {tmp}) : Seek!2!(f)
    BY <1>4 DEF Seek
  <2>2. magic' = magic /\ saving' = saving /\ magic
    BY <1>4 DEF Seek, chip, Position
  <2>3. ~saving => ram[LogEnd] = Undef
    BY <1>4 DEF Seek, Position
  <2>4. CASE f[1] = TAG
    BY <1>4, <2>1, <2>2, <2>3, <2>4 DEF Position, Seek
  <2>5. CASE f[1] # TAG /\ i < Len - 1
    BY <1>4, <2>1, <2>2, <2>3, <2>5 DEF Position, Seek
  <2>6. CASE f[1] # TAG /\ ~(i < Len - 1)
    BY <1>4, <1>a, <2>1, <2>2, <2>3, <2>6, FinishPosition DEF Seek
  <2> QED BY <2>4, <2>5, <2>6
<1>5. CASE Load
  <2>1. PICK f \in Fetch(Slot(j, ValueSlot(i)), {ram[j]}) : Load!2!(f)
    BY <1>5 DEF Load
  <2>2. f[1] \in Words
    BY <1>a, SlotPlaces, FetchTypes DEF Slot
  <2>3. [ram EXCEPT ![j] = f[1]] \in [Parts -> Words]
    BY <1>a, <2>2
  <2>4. j = LogBegin => [ram EXCEPT ![j] = f[1]][LogEnd] = Undef
    BY <1>5, <1>a DEF Load, Position
  <2> QED BY <1>5, <2>1, <2>3, <2>4, FinishPosition DEF Load, chip
<1>6. CASE Advance
  BY <1>6 DEF Position, Advance, chip
<1>7. CASE Save
  BY <1>7 DEF Position, Save, chip, Start
<1>8. CASE Compare
  <2>1. PICK f \in Fetch(Slot(j, ValueSlot(i)), {tmp}) : Compare!2!(f)
    BY <1>8 DEF Compare
  <2>2. magic' = magic /\ saving' = saving /\ magic /\ saving
    BY <1>8 DEF Compare, chip, Position
  <2>3. CASE f[1] = ram[j]
    BY <1>8, <1>a, <2>1, <2>2, <2>3, FinishPosition DEF Compare
  <2>4. CASE f[1] # ram[j]
    BY <2>1, <2>2, <2>4 DEF Position
  <2> QED BY <2>3, <2>4
<1>9. CASE PutValue
  BY <1>9 DEF Position, PutValue
<1>10. CASE PutTag
  BY <1>10, <1>a, FinishPosition DEF PutTag, Position
<1>11. CASE Crash
  BY <1>11 DEF Position, Crash, chip, Start, Unread
<1>12. CASE UNCHANGED vars
  BY <1>12 DEF Position, vars
<1> QED BY <1>1, <1>2, <1>3, <1>4, <1>5, <1>6, <1>7, <1>8, <1>9, <1>10, <1>11, <1>12 DEF Next

-----------------------------------------------------------------------------
(***************************************************************************)
(* The chip as long as no read fails.                                      *)
(***************************************************************************)

\* A search that goes on, with what the chip holds for the partitions so far.
LEMMA FinishSound ==
  ASSUME TypeOK, NEW now \in [Parts -> Words], Finish(now), saving' = saving,
         Forming(word') \/ Formed(word'), word' \in [0..9 -> Words],
         saving => Formed(word') /\ now[LogBegin] = First /\ now[LogEnd] \in Values,
         ~saving => /\ now[j] = StoredIn(word', j)
                    /\ now[LogBegin] = StoredIn(word', LogBegin)
  PROVE  /\ Sound'
         /\ pc' = "idle" /\ ~saving => ram'[LogEnd] = StoredIn(word', LogEnd)
<1>1. j = LogBegin \/ j = LogEnd
  BY DEF TypeOK
<1>2. CASE j = LogBegin
  <2>1. ram' = now /\ pc' = "seek" /\ j' = LogEnd /\ i' = 0
    BY <1>2 DEF Finish
  <2> QED BY <1>2, <2>1 DEF Sound, Booted, Searching, NoneBefore
<1>3. CASE j = LogEnd /\ ~saving /\ \E p \in Parts : now[p] = Undef
  <2>1. ram' = Reset /\ pc' = "fill" /\ j' = LogBegin /\ i' = 0
    BY <1>3 DEF Finish, Start, Reset
  <2>2. Forming(word')
    BY <1>3, FormedStores DEF Formed
  <2> QED BY <1>3, <2>1, <2>2 DEF Sound, Booted, Searching
<1>4. CASE j = LogEnd /\ ~(~saving /\ \E p \in Parts : now[p] = Undef)
  <2>1. ram' = now /\ pc' = "idle" /\ j' = LogBegin /\ i' = 0
    BY <1>4 DEF Finish, Start
  <2>2. Formed(word')
    BY <1>4, FormingStores
  <2>3. ~saving => now[LogBegin] = First /\ now[LogEnd] \in Values
    BY <1>4, <2>2, FormedStores DEF Formed
  <2>4. Sound'
    BY <2>1, <2>2, <2>3 DEF Sound, Booted, Searching
  <2> QED BY <1>4, <2>1, <2>4
<1> QED BY <1>1, <1>2, <1>3, <1>4

\* What a write of datalogger_init_iterators_to_eeprom makes of the words.
LEMMA FillWords ==
  ASSUME TypeOK, Position, Sound, Fill
  PROVE  /\ word \in [0..9 -> Words] /\ i \in 0..7 /\ j \in Parts /\ ram = Reset
         /\ ~saving /\ ~saving' /\ pc # "idle"
         /\ j = LogBegin => /\ Forming(word) /\ Forming(word')
                            /\ \A n \in 0..i : word'[n] = (IF n = 0 THEN First ELSE TAG)
         /\ j = LogEnd => /\ Forming(word) \/ (Formed(word) /\ word[2] = First)
                          /\ Formed(word') /\ word'[2] = First /\ word'[0] = First
                          /\ \A n \in 1..7 : n # 2 => word'[n] = TAG
<1>a. word \in [0..9 -> Words] /\ i \in 0..7 /\ j \in Parts /\ ram = Reset
  BY DEF TypeOK, Slot, Fill, Position
<1>b. ~saving /\ ~saving' /\ pc # "idle"
  BY DEF Fill, Position
<1>1. ASSUME j = LogBegin
      PROVE  /\ Forming(word) /\ Forming(word')
             /\ \A n \in 0..i : word'[n] = (IF n = 0 THEN First ELSE TAG)
  <2>1. Forming(word) /\ \A n \in 0..i-1 : word[n] = (IF n = 0 THEN First ELSE TAG)
    BY <1>1 DEF Sound, Fill
  <2>2. word' = [word EXCEPT ![i] = IF i = 0 THEN First ELSE TAG]
    BY <1>1, <1>a DEF Fill, Slot, Reset
  <2>3. CASE i = 0
    BY <2>1, <2>2, <1>a, <2>3 DEF Forming
  <2>4. CASE i # 0
    <3>1. word[0] = First /\ (i > 1 => word[1] = TAG) /\ (i > 2 => word[2] = TAG)
      BY <2>1, <2>4, <1>a
    <3>2. Forming(word')
      BY <2>1, <2>2, <1>a, <2>4, <3>1 DEF Forming
    <3>3. \A n \in 0..i : word'[n] = (IF n = 0 THEN First ELSE TAG)
      BY <2>1, <2>2, <1>a, <2>4
    <3> QED BY <2>1, <3>2, <3>3
  <2> QED BY <2>3, <2>4
<1>2. ASSUME j = LogEnd
      PROVE  /\ Forming(word) \/ (Formed(word) /\ word[2] = First)
             /\ Formed(word') /\ word'[2] = First /\ word'[0] = First
             /\ \A n \in 1..7 : n # 2 => word'[n] = TAG
  <2>1. /\ word[0] = First /\ \A n \in 1..7 : n # 2 => word[n] = TAG
        /\ IF i = 0 THEN Forming(word) ELSE Formed(word) /\ word[2] = First
    BY <1>2 DEF Sound, Fill
  <2>2. word' = [word EXCEPT ![i + 2] = IF i = 0 THEN First ELSE TAG]
    BY <1>2, <1>a DEF Fill, Slot, Reset
  <2>3. CASE i = 0
    BY <2>1, <2>2, <1>a, <2>3 DEF Formed
  <2>4. CASE i # 0
    BY <2>1, <2>2, <1>a, <2>4 DEF Formed
  <2> QED BY <2>3, <2>4
<1> QED BY <1>a, <1>b, <1>1, <1>2

LEMMA FillSound ==
  ASSUME TypeOK, Position, Sound, Fill
  PROVE  Sound'
<1>a. /\ word \in [0..9 -> Words] /\ i \in 0..7 /\ j \in Parts /\ ram = Reset
      /\ ~saving /\ ~saving' /\ pc # "idle"
  BY FillWords
<1>1. CASE j = LogBegin
  <2>1. Forming(word') /\ \A n \in 0..i : word'[n] = (IF n = 0 THEN First ELSE TAG)
    BY <1>1, FillWords
  <2>2. CASE i < 7
    <3>1. i' = i + 1 /\ pc' = pc /\ j' = j
      BY <2>2 DEF Fill
    <3> QED BY <1>1, <1>a, <2>1, <3>1 DEF Sound, Booted, Searching, Fill
  <2>3. CASE i = 7
    <3>1. i' = 0 /\ pc' = pc /\ j' = LogEnd
      BY <1>1, <2>3 DEF Fill
    <3> QED BY <1>a, <2>1, <2>3, <3>1 DEF Sound, Booted, Searching, Fill
  <2> QED BY <2>2, <2>3, <1>a
<1>2. CASE j = LogEnd
  <2>1. Formed(word') /\ word'[2] = First /\ word'[0] = First /\ \A n \in 1..7 : n # 2 => word'[n] = TAG
    BY <1>2, FillWords
  <2>2. CASE i < 7
    <3>1. i' = i + 1 /\ pc' = pc /\ j' = j
      BY <2>2 DEF Fill
    <3> QED BY <1>2, <1>a, <2>1, <3>1 DEF Sound, Booted, Searching, Fill
  <2>3. CASE i = 7 /\ pc = "refill"
    <3>1. pc' = "seek" /\ j' = LogBegin /\ i' = 0 /\ ram' = Unread
      BY <1>2, <2>3 DEF Fill, Start, Unread
    <3> QED BY <1>a, <2>1, <3>1 DEF Sound, Booted, Searching, NoneBefore, Unread
  <2>4. CASE i = 7 /\ pc = "fill"
    <3>1. pc' = "idle" /\ ram' = Reset
      BY <1>2, <1>a, <2>4 DEF Fill, Start
    <3> QED BY <1>a, <2>1, <3>1 DEF Sound, Booted, Searching, Reset
  <2> QED BY <2>2, <2>3, <2>4, <1>a DEF Fill
<1> QED BY <1>1, <1>2, <1>a

LEMMA SeekSound ==
  ASSUME TypeOK, Position, Sound, Seek, faults' = faults
  PROVE  /\ Sound'
         /\ pc' = "idle" /\ ~saving => ram'[LogEnd] = StoredIn(word', LogEnd)
<1>a. /\ word \in [0..9 -> Words] /\ ram \in [Parts -> Words] /\ i \in 0..7 /\ j \in Parts
      /\ Slot(j, i) \in 0..9 /\ word' = word /\ saving' = saving /\ pc = "seek"
  BY DEF TypeOK, Slot, Seek, chip
<1>b. NoneBefore(word, j, i) /\ (Forming(word) \/ Formed(word))
  BY DEF Sound, Seek, Searching
<1>c. saving => Formed(word) /\ ram[LogBegin] = First /\ ram[LogEnd] \in Values
  BY DEF Sound, Booted
<1>d. ~saving => ram[LogEnd] = Undef /\ ram[LogBegin] = IF j = LogBegin THEN Undef ELSE StoredIn(word, LogBegin)
  BY DEF Sound, Position, Seek
<1>1. PICK f \in Fetch(Slot(j, i), IF j = LogBegin /\ i = 0 THEN Words ELSE {tmp}) : Seek!2!(f)
  BY DEF Seek
<1>2. f[1] = word[Slot(j, i)]
  <2>1. tmp \in Words
    BY DEF TypeOK
  <2> QED BY <1>1, <2>1, <1>a, FetchTypes
<1>3. CASE f[1] = TAG
  <2>1. pc' = (IF saving THEN "compare" ELSE "load") /\ ram' = ram /\ j' = j /\ i' = i
    BY <1>1, <1>3
  <2>2. word'[Slot(j', i')] = TAG /\ NoneBefore(word', j', i')
    BY <1>2, <1>3, <2>1, <1>a, <1>b
  <2> QED BY <2>1, <2>2, <1>a, <1>b, <1>c, <1>d DEF Sound, Booted, Searching
<1>4. CASE f[1] # TAG /\ i < 7
  <2>1. i' = i + 1 /\ pc' = pc /\ ram' = ram /\ j' = j
    BY <1>1, <1>4
  <2>2. NoneBefore(word', j', i')
    <3>1. \A n \in 0..i : n = i \/ n \in 0..i-1
      BY <1>a
    <3> QED BY <1>2, <1>4, <2>1, <1>a, <1>b, <3>1 DEF NoneBefore
  <2> QED BY <2>1, <2>2, <1>a, <1>b, <1>c, <1>d DEF Sound, Booted, Searching
<1>5. CASE f[1] # TAG /\ ~(i < 7)
  <2>1. Finish(ram)
    BY <1>1, <1>5
  <2>2. \A k \in Slots : word[Slot(j, k)] # TAG
    <3>1. \A k \in Slots : k = i \/ k \in 0..i-1
      BY <1>a, <1>5
    <3> QED BY <1>2, <1>5, <1>b, <3>1 DEF NoneBefore
  <2>3. StoredIn(word, j) = Undef
    BY <2>2, StoredNowhere
  <2>4. ~saving => ram[j] = StoredIn(word', j) /\ ram[LogBegin] = StoredIn(word', LogBegin)
    BY <2>3, <1>a, <1>d
  <2> QED BY <2>1, <2>4, <1>a, <1>b, <1>c, FinishSound
<1> QED BY <1>3, <1>4, <1>5

LEMMA LoadSound ==
  ASSUME TypeOK, Position, Sound, Load, faults' = faults
  PROVE  /\ Sound'
         /\ pc' = "idle" /\ ~saving => ram'[LogEnd] = StoredIn(word', LogEnd)
<1>a. /\ word \in [0..9 -> Words] /\ ram \in [Parts -> Words] /\ i \in 0..7 /\ j \in Parts
      /\ word' = word /\ saving' = saving /\ pc = "load" /\ ~saving
  BY DEF TypeOK, Slot, Load, chip, Position
<1>b. FirstTag(word, j, i) /\ (Forming(word) \/ Formed(word))
  BY DEF Sound, Load, Searching, FirstTag
<1>c. j = LogEnd => ram[LogBegin] = StoredIn(word, LogBegin)
  BY <1>a DEF Sound
<1>1. PICK f \in Fetch(Slot(j, ValueSlot(i)), {ram[j]}) : Load!2!(f)
  BY DEF Load
<1>2. Slot(j, ValueSlot(i)) \in 0..9 /\ ram[j] \in Words
  BY <1>a, SlotPlaces DEF Slot
<1>3. f[1] = word[Slot(j, ValueSlot(i))] /\ f[1] \in Words
  BY <1>1, <1>2, FetchTypes
<1>4. f[1] = StoredIn(word, j)
  BY <1>3, <1>a, <1>b, StoredAt
<1>5. [ram EXCEPT ![j] = f[1]] \in [Parts -> Words]
  BY <1>a, <1>3
<1>6. /\ [ram EXCEPT ![j] = f[1]][j] = StoredIn(word', j)
      /\ [ram EXCEPT ![j] = f[1]][LogBegin] = StoredIn(word', LogBegin)
  BY <1>4, <1>a, <1>c
<1> QED BY <1>1, <1>5, <1>6, <1>a, <1>b, FinishSound

\* The TAG of a formed chip is in slot 1.
LEMMA TagInSlotOne ==
  ASSUME NEW w, Formed(w), NEW part \in Parts, NEW k \in Slots, FirstTag(w, part, k)
  PROVE  k = 1
<1>1. w[Slot(part, 1)] = TAG /\ w[Slot(part, 0)] # TAG
  BY SlotPlaces DEF Formed, Slot
<1> QED BY <1>1 DEF FirstTag, NoneBefore

LEMMA CompareSound ==
  ASSUME TypeOK, Position, Sound, Compare, faults' = faults
  PROVE  Sound'
<1>a. /\ word \in [0..9 -> Words] /\ ram \in [Parts -> Words] /\ i \in 0..7 /\ j \in Parts
      /\ word' = word /\ saving' = saving /\ pc = "compare" /\ saving
  BY DEF TypeOK, Slot, Compare, chip, Position
<1>b. FirstTag(word, j, i) /\ Formed(word) /\ ram[LogBegin] = First /\ ram[LogEnd] \in Values
  BY <1>a DEF Sound, Searching, FirstTag, Booted
<1>1. PICK f \in Fetch(Slot(j, ValueSlot(i)), {tmp}) : Compare!2!(f)
  BY DEF Compare
<1>2. i = 1
  BY <1>a, <1>b, TagInSlotOne
<1>3. f[1] = word[Slot(j, 0)]
  <2>1. tmp \in Words /\ Slot(j, 0) \in 0..9 /\ ValueSlot(1) = 0
    BY <1>a, SlotPlaces DEF TypeOK, Slot
  <2> QED BY <1>1, <1>2, <2>1, FetchTypes
<1>4. CASE f[1] = ram[j]
  <2>1. Finish(ram)
    BY <1>1, <1>4
  <2> QED BY <2>1, <1>a, <1>b, FinishSound
<1>5. CASE f[1] # ram[j]
  <2>1. pc' = "put" /\ ram' = ram /\ j' = j /\ i' = i
    BY <1>1, <1>5
  <2>2. j = LogEnd
    BY <1>3, <1>5, <1>a, <1>b DEF Formed, Slot
  <2> QED BY <2>1, <2>2, <1>2, <1>a, <1>b DEF Sound, Booted, Searching, FirstTag
<1> QED BY <1>4, <1>5

LEMMA PutValueSound ==
  ASSUME TypeOK, Position, Sound, PutValue
  PROVE  Sound'
<1>a. /\ word \in [0..9 -> Words] /\ saving /\ saving' /\ pc' = "tag" /\ ram' = ram /\ j' = j /\ i' = i
      /\ j = LogEnd /\ i = 1
  BY DEF TypeOK, Slot, PutValue, Position, Sound
<1>b. Formed(word) /\ ram[LogBegin] = First /\ ram[LogEnd] \in Values
  BY <1>a DEF Sound, Booted
<1>1. word' = [word EXCEPT ![2] = ram[LogEnd]]
  <2>1. Slot(LogEnd, WriteSlot(1)) = 2
    BY SlotPlaces DEF WriteSlot, Slot
  <2> QED BY <2>1, <1>a DEF PutValue
<1>2. Formed(word') /\ word'[2] = ram'[LogEnd]
  BY <1>1, <1>a, <1>b DEF Formed
<1>3. word'[Slot(j', i')] = TAG
  BY <1>2, <1>a DEF Formed, Slot
<1> QED BY <1>2, <1>3, <1>a, <1>b DEF Sound, Booted, Searching

LEMMA PutTagSound ==
  ASSUME TypeOK, Position, Sound, PutTag
  PROVE  Sound'
<1>a. /\ word \in [0..9 -> Words] /\ ram \in [Parts -> Words] /\ saving /\ saving' = saving
      /\ j = LogEnd /\ i = 1 /\ pc = "tag"
  BY DEF TypeOK, Slot, PutTag, Position, Sound
<1>b. Formed(word) /\ ram[LogBegin] = First /\ ram[LogEnd] \in Values
  BY <1>a DEF Sound, Booted
<1>1. word' = word
  <2>1. Slot(LogEnd, TagSlot(1)) = 3
    BY SlotPlaces DEF Slot
  <2>2. word' = [word EXCEPT ![3] = TAG]
    BY <1>a, <2>1 DEF PutTag
  <2> QED BY <2>2, <1>a, <1>b DEF Formed
<1> QED BY <1>1, <1>a, <1>b, FinishSound DEF PutTag

LEMMA NextSound == TypeOK /\ Position /\ SoundUntilFault /\ [Next]_vars => SoundUntilFault'
<1> SUFFICES ASSUME TypeOK, Position, SoundUntilFault, [Next]_vars, faults' = 0 PROVE Sound'
  BY DEF SoundUntilFault
<1>a. /\ word \in [0..9 -> Words] /\ ram \in [Parts -> Words] /\ j \in Parts /\ i \in 0..7
      /\ tmp \in Words /\ faults \in Nat
  BY DEF TypeOK, Slot
<1>b. faults = 0 => Sound
  BY DEF SoundUntilFault
<1>1. CASE ReadMagic
  <2>1. faults = 0 /\ Sound
    BY <1>1, <1>a, <1>b DEF ReadMagic
  <2>2. ~saving' /\ word' = word /\ ram' = Unread /\ j' = LogBegin /\ i' = 0
    BY <1>1 DEF ReadMagic, Position, chip, Start
  <2>3. pc' = "seek" \/ (pc' = "format" /\ ~magic')
    BY <1>1, <1>a, <2>1 DEF ReadMagic, Start, chip
  <2> QED BY <2>1, <2>2, <2>3 DEF Sound, Booted, Searching, NoneBefore, Unread
<1>2. CASE Format
  <2>1. Sound /\ ~magic
    BY <1>2, <1>b DEF Sound, Format
  <2>2. Forming(word') /\ ~saving'
    BY <1>2, <2>1, BlankIsForming DEF Position, Format
  <2> QED BY <1>2, <2>2 DEF Sound, Booted, Searching, Format, Start
<1>3. CASE Fill
  BY <1>3, <1>b, FillSound DEF Fill
<1>4. CASE Seek
  <2>1. faults' >= faults
    BY <1>4, <1>a, FetchTypes DEF Seek, Slot
  <2> QED BY <1>4, <2>1, <1>a, <1>b, SeekSound
<1>5. CASE Load
  <2>1. faults' >= faults
    BY <1>5, <1>a, FetchTypes, SlotPlaces DEF Load, Slot
  <2> QED BY <1>5, <2>1, <1>a, <1>b, LoadSound
<1>6. CASE Advance
  BY <1>6, <1>a, <1>b, NextEndIsPlace DEF Sound, Advance, chip, Booted, Searching
<1>7. CASE Save
  BY <1>7, <1>b DEF Sound, Save, chip, Booted, Searching, Start, NoneBefore
<1>8. CASE Compare
  <2>1. faults' >= faults
    BY <1>8, <1>a, FetchTypes, SlotPlaces DEF Compare, Slot
  <2> QED BY <1>8, <2>1, <1>a, <1>b, CompareSound
<1>9. CASE PutValue
  BY <1>9, <1>b, PutValueSound DEF PutValue
<1>10. CASE PutTag
  BY <1>10, <1>b, PutTagSound DEF PutTag
<1>11. CASE Crash
  BY <1>11, <1>b DEF Sound, Crash, chip, Booted, Searching, Start
<1>12. CASE UNCHANGED vars
  BY <1>12, <1>b DEF vars, Sound, Booted, Searching
<1> QED BY <1>1, <1>2, <1>3, <1>4, <1>5, <1>6, <1>7, <1>8, <1>9, <1>10, <1>11, <1>12 DEF Next

\* The inductive invariant of the iterators.
THEOREM IteratorsInvariant == Spec => []IInv
<1>1. Init => IInv
  <2> SUFFICES ASSUME Init PROVE IInv
    OBVIOUS
  <2>1. TypeOK
    BY InitTypeOK
  <2>2. Blank(word)
    BY DEF Init, Blank, Slot
  <2>3. Position
    BY <2>2 DEF Init, Position, Unread
  <2>4. Sound
    BY <2>2, BlankIsForming DEF Init, Sound, Booted, Searching
  <2> QED BY <2>1, <2>3, <2>4 DEF IInv, SoundUntilFault
<1>2. IInv /\ [Next]_vars => IInv'
  BY NextTypeOK, NextPosition, NextSound DEF IInv
<1> QED BY <1>1, <1>2, PTL DEF Spec

-----------------------------------------------------------------------------
(***************************************************************************)
(* What IInv says about the iterators.                                     *)
(***************************************************************************)

\* The types of the iterators' state (datalogger.c).
THEOREM IteratorsTypeCorrect == Spec => []TypeOK
  BY IteratorsInvariant, PTL DEF IInv

\* The chip of a controller that has its iterators is behind its magic.
LEMMA BootedChip ==
  ASSUME IInv, faults = 0, Booted
  PROVE  magic /\ Formed(word) /\ ram[LogBegin] = First /\ ram[LogEnd] \in Values
<1>1. magic
  BY DEF IInv, Position, Booted, SoundUntilFault, Sound, Blank, Formed
<1> QED BY <1>1 DEF IInv, SoundUntilFault, Sound

\* LOG_BEGIN stays the first address in RAM and for the next boot, as long as the
\* reads succeed: datalogger_write_iterators_to_eeprom writes it beside, and partly
\* under, the partition of LOG_END.
THEOREM BeginIsKept == Spec => []BeginStays
<1>1. IInv => BeginStays
  <2> SUFFICES ASSUME IInv, faults = 0 PROVE BeginStays
    BY DEF BeginStays
  <2>1. Recovered(LogBegin) = First
    <3>1. magic \in BOOLEAN /\ (Forming(word) \/ Formed(word))
      BY DEF IInv, SoundUntilFault, Sound, TypeOK
    <3>2. Formed(word) => magic
      BY DEF IInv, Position, Blank, Formed
    <3>3. Recovered(LogBegin) = RecoveredIn(magic, word, LogBegin)
      BY RecoveredSame
    <3>4. CASE Forming(word)
      BY <3>3, <3>4, FormingRecovers
    <3>5. CASE Formed(word)
      <4>1. magic = TRUE
        BY <3>1, <3>2, <3>5
      <4> QED BY <3>3, <3>5, <4>1, FormedRecovers
    <3> QED BY <3>1, <3>4, <3>5
  <2>2. Booted => ram[LogBegin] = First
    BY BootedChip
  <2> QED BY <2>1, <2>2 DEF BeginStays
<1> QED BY <1>1, IteratorsInvariant, PTL

\* The LOG_END that the next boot finds on a chip of each kind.
LEMMA RecoveredOfFormed ==
  ASSUME IInv, Formed(word)
  PROVE  Recovered(LogEnd) = word[2] /\ word[2] \in Values
<1>1. magic = TRUE
  BY DEF IInv, TypeOK, Position, Blank, Formed
<1> QED BY <1>1, RecoveredSame, FormedRecovers DEF Formed

LEMMA RecoveredOfForming ==
  ASSUME Forming(word)
  PROVE  Recovered(LogEnd) = First
  BY RecoveredSame, FormingRecovers

\* No step takes a failed read back.
LEMMA FaultsStay == TypeOK /\ [Next]_vars => faults' >= faults
<1> SUFFICES ASSUME TypeOK, [Next]_vars PROVE faults' >= faults
  OBVIOUS
<1>a. j \in Parts /\ i \in 0..7 /\ tmp \in Words /\ faults \in Nat /\ ram \in [Parts -> Words]
  BY DEF TypeOK
<1>1. CASE Seek
  BY <1>1, <1>a, FetchTypes DEF Seek, Slot
<1>2. CASE Load
  BY <1>2, <1>a, FetchTypes, SlotPlaces DEF Load, Slot
<1>3. CASE Compare
  BY <1>3, <1>a, FetchTypes, SlotPlaces DEF Compare, Slot
<1>4. CASE ReadMagic
  BY <1>4, <1>a DEF ReadMagic
<1>5. CASE Format \/ Fill \/ Advance \/ Save \/ PutValue \/ PutTag \/ Crash \/ UNCHANGED vars
  BY <1>5, <1>a DEF Format, Fill, Advance, Save, PutValue, PutTag, Crash, vars
<1> QED BY <1>1, <1>2, <1>3, <1>4, <1>5 DEF Next

\* LOG_END as the abstract iterator sees it.
End == IF Booted THEN ram[LogEnd] ELSE Recovered(LogEnd)

\* A step without a failed read is a step of SavedIterator, or none of it.
LEMMA SoundStep ==
  ASSUME IInv, IInv', [Next]_vars, faults = 0, faults' = 0
  PROVE  \/ End' = End /\ Recovered(LogEnd)' = Recovered(LogEnd)
         \/ End' \in Values /\ Recovered(LogEnd)' = Recovered(LogEnd)
         \/ End' = End /\ Recovered(LogEnd)' = End
         \/ End' = Recovered(LogEnd) /\ Recovered(LogEnd)' = Recovered(LogEnd)
<1>a. /\ TypeOK /\ Position /\ Sound /\ TypeOK' /\ Position' /\ Sound'
      /\ word \in [0..9 -> Words] /\ ram \in [Parts -> Words] /\ j \in Parts /\ i \in 0..7
  BY DEF IInv, SoundUntilFault, TypeOK, Slot
<1>b. ASSUME chip' = chip
      PROVE  Recovered(LogEnd)' = Recovered(LogEnd)
  BY <1>b DEF chip, Recovered, Stored
<1>c. ASSUME Formed(word)'
      PROVE  Recovered(LogEnd)' = word'[2]
  <2>1. magic' = TRUE
    BY <1>a, <1>c DEF TypeOK, Position, Blank, Formed
  <2>2. Recovered(LogEnd)' = RecoveredIn(magic', word', LogEnd)
    BY DEF Recovered, RecoveredIn, Stored, StoredIn, FirstTag, NoneBefore
  <2> QED BY <1>c, <2>1, <2>2, FormedRecovers
<1>d. ASSUME Forming(word)'
      PROVE  Recovered(LogEnd)' = First
  <2>1. Recovered(LogEnd)' = RecoveredIn(magic', word', LogEnd)
    BY DEF Recovered, RecoveredIn, Stored, StoredIn, FirstTag, NoneBefore
  <2> QED BY <1>d, <2>1, FormingRecovers
<1>1. CASE ReadMagic
  BY <1>1, <1>a, <1>b DEF ReadMagic, Start, Booted, End, Position
<1>2. CASE Format
  <2>1. Forming(word) /\ word' = word
    BY <1>2, <1>a, BlankIsForming DEF Position, Sound, Format
  <2>2. Recovered(LogEnd) = First /\ Recovered(LogEnd)' = First
    BY <2>1, <1>d, RecoveredOfForming
  <2>3. ~Booted /\ ~Booted'
    BY <1>2, <1>a DEF Format, Start, Booted, Position
  <2> QED BY <2>2, <2>3 DEF End
<1>3. CASE Fill
  <2>1. Recovered(LogEnd) = First
    BY <1>3, <1>a, FillWords, RecoveredOfForming, RecoveredOfFormed
  <2>2. Recovered(LogEnd)' = First
    BY <1>3, <1>a, <1>c, <1>d, FillWords
  <2>3. ~Booted
    BY <1>3, <1>a, FillWords DEF Booted
  <2>4. Booted' => ram'[LogEnd] = First
    BY <1>3, <1>a, FillWords DEF Booted, Fill, Start, Reset
  <2> QED BY <2>1, <2>2, <2>3, <2>4 DEF End
<1>4. CASE Seek \/ Load
  <2>1. chip' = chip /\ word' = word /\ saving' = saving
    BY <1>4 DEF Seek, Load, chip
  <2>2. CASE saving
    <3>1. ram' = ram
      BY <1>4, <1>a, <2>2 DEF Seek, Load, Finish, Position
    <3> QED BY <1>b, <2>1, <2>2, <3>1 DEF Booted, End
  <2>3. CASE ~saving
    <3>1. ~Booted
      BY <1>4, <2>3 DEF Booted, Seek, Load
    <3>2. CASE Booted'
      <4>1. ram'[LogEnd] = StoredIn(word', LogEnd)
        BY <1>4, <1>a, <2>1, <2>3, <3>2, SeekSound, LoadSound DEF Booted
      <4>2. Formed(word)'
        BY <1>a, <3>2 DEF Sound
      <4>3. ram'[LogEnd] = Recovered(LogEnd)'
        BY <4>1, <4>2, <1>c, FormedStores
      <4> QED BY <1>b, <2>1, <3>1, <3>2, <4>3 DEF End
    <3>3. CASE ~Booted'
      BY <1>b, <2>1, <3>1, <3>3 DEF End
    <3> QED BY <3>2, <3>3
  <2> QED BY <2>2, <2>3
<1>5. CASE Advance
  <2>1. Booted' /\ ram'[LogEnd] \in Values
    BY <1>5, <1>a, NextEndIsPlace DEF Advance, Booted
  <2>2. chip' = chip
    BY <1>5 DEF Advance
  <2> QED BY <1>b, <2>1, <2>2 DEF End
<1>6. CASE Save
  BY <1>6, <1>b DEF Save, Booted, End
<1>7. CASE Compare
  <2>1. chip' = chip /\ ram' = ram /\ saving /\ saving'
    BY <1>7, <1>a DEF Compare, Finish, Position
  <2> QED BY <1>b, <2>1 DEF Booted, End
<1>8. CASE PutValue
  <2>1. saving /\ saving' /\ ram' = ram /\ pc' = "tag"
    BY <1>8, <1>a DEF PutValue, Position
  <2>2. Formed(word)' /\ word'[2] = ram'[LogEnd]
    BY <1>a, <2>1 DEF Sound, Booted
  <2> QED BY <1>c, <2>1, <2>2 DEF Booted, End
<1>9. CASE PutTag
  <2>1. saving /\ saving' /\ ram' = ram
    BY <1>9, <1>a DEF PutTag, Position, Finish
  <2>2. Formed(word) /\ j = LogEnd /\ i = 1
    BY <1>9, <1>a, <2>1 DEF Sound, Booted, PutTag
  <2>3. word' = word
    <3>1. Slot(LogEnd, TagSlot(1)) = 3
      BY SlotPlaces DEF Slot
    <3>2. word' = [word EXCEPT ![3] = TAG]
      BY <1>9, <2>2, <3>1 DEF PutTag
    <3> QED BY <2>2, <3>2, <1>a DEF Formed
  <2>4. chip' = chip
    BY <1>9, <2>3 DEF PutTag, chip
  <2> QED BY <1>b, <2>1, <2>4 DEF Booted, End
<1>10. CASE Crash
  <2>1. ~Booted' /\ chip' = chip
    BY <1>10 DEF Crash, Start, Booted
  <2> QED BY <1>b, <2>1 DEF End
<1>11. CASE UNCHANGED vars
  <2>1. chip' = chip /\ Booted' = Booted /\ ram' = ram
    BY <1>11 DEF vars, chip, Booted
  <2> QED BY <1>b, <2>1 DEF End
<1> QED BY <1>1, <1>2, <1>3, <1>4, <1>5, <1>6, <1>7, <1>8, <1>9, <1>10, <1>11 DEF Next

\* The words and their tags implement one LOG_END that is replaced in one step: a
\* reset between any two transfers of datalogger_init or of
\* datalogger_write_iterators_to_eeprom finds the old value or the new one, as long
\* as the reads succeed.
THEOREM IteratorIsReplacedInOneStep == Spec => EndIsReplacedInOneStep
<1>1. Init => Abstract!Init
  <2> SUFFICES ASSUME Init PROVE Abstract!Init
    OBVIOUS
  <2>1. ~Booted /\ faults = 0
    BY DEF Init, Booted
  <2>2. Recovered(LogEnd) = First
    BY DEF Init, Recovered
  <2> QED BY <2>1, <2>2 DEF Abstract!Init
<1>2. IInv /\ IInv' /\ [Next]_vars => [Abstract!Next]_<<End, Recovered(LogEnd), faults = 0>>
  <2> SUFFICES ASSUME IInv, IInv', [Next]_vars PROVE [Abstract!Next]_<<End, Recovered(LogEnd), faults = 0>>
    OBVIOUS
  <2>1. CASE faults' # 0
    BY <2>1 DEF Abstract!Next, Abstract!Unsound
  <2>2. CASE faults' = 0
    <3>1. faults = 0
      BY <2>2, FaultsStay DEF IInv, TypeOK
    <3> QED BY <2>2, <3>1, SoundStep
            DEF End, Abstract!Next, Abstract!Advance, Abstract!Save, Abstract!Reset
  <2> QED BY <2>1, <2>2
<1> QED BY <1>1, <1>2, IteratorsInvariant, PTL DEF Spec, EndIsReplacedInOneStep, Abstract!Spec, End

-----------------------------------------------------------------------------
(***************************************************************************)
(* One failed read at most: a save that ends has stored LOG_END.  OneFault *)
(* says where the search may stop, and that it never leaves the words that *)
(* are TAG for both partitions.                                            *)
(***************************************************************************)

LEMMA FillOneFault ==
  ASSUME IInv, OneFault, Fill
  PROVE  OneFault'
<1>a. /\ word \in [0..9 -> Words] /\ i \in 0..7 /\ j \in Parts /\ ram = Reset
      /\ ~saving /\ ~saving' /\ pc \in {"fill", "refill"}
  BY DEF IInv, TypeOK, Slot, Fill, Position
<1>b. Forming(word) \/ Firm(word)
  BY DEF OneFault
<1>1. CASE j = LogBegin
  <2>1. (i > 0 => word[0] = First) /\ \A n \in 1..i-1 : word[n] = TAG
    BY <1>1, <1>a DEF OneFault
  <2>2. word' = [word EXCEPT ![i] = IF i = 0 THEN First ELSE TAG]
    BY <1>1, <1>a DEF Fill, Slot, Reset
  <2>3. Forming(word') \/ Firm(word')
    <3>1. CASE Firm(word)
      BY <1>a, <2>2, <3>1 DEF Firm
    <3>2. CASE Forming(word)
      <4>1. i > 0 => word[0] = First
        BY <2>1
      <4>2. (i > 1 => word[1] = TAG) /\ (i > 2 => word[2] = TAG)
        BY <2>1, <1>a
      <4> QED BY <1>a, <2>2, <3>2, <4>1, <4>2 DEF Forming
    <3> QED BY <3>1, <3>2, <1>b
  <2>4. word'[0] = First /\ \A n \in 1..i : word'[n] = TAG
    BY <1>a, <2>1, <2>2
  <2>5. CASE i < 7
    <3>1. i' = i + 1 /\ pc' = pc /\ j' = j
      BY <2>5 DEF Fill
    <3> QED BY <1>1, <1>a, <2>3, <2>4, <3>1 DEF OneFault, Booted, Searching
  <2>6. CASE i = 7
    <3>1. i' = 0 /\ pc' = pc /\ j' = LogEnd
      BY <1>1, <2>6 DEF Fill
    <3>2. Firm(word')
      BY <2>4, <2>6 DEF Firm
    <3> QED BY <1>a, <2>3, <3>1, <3>2 DEF OneFault, Booted, Searching
  <2> QED BY <2>5, <2>6, <1>a
<1>2. CASE j = LogEnd
  <2>1. Firm(word)
    BY <1>2, <1>a DEF OneFault
  <2>2. word' = [word EXCEPT ![i + 2] = IF i = 0 THEN First ELSE TAG]
    BY <1>2, <1>a DEF Fill, Slot, Reset
  <2>3. Firm(word')
    BY <1>a, <2>1, <2>2 DEF Firm
  <2>4. CASE i < 7
    <3>1. i' = i + 1 /\ pc' = pc /\ j' = j
      BY <2>4 DEF Fill
    <3> QED BY <1>2, <1>a, <2>3, <3>1 DEF OneFault, Booted, Searching
  <2>5. CASE i = 7
    <3>1. pc' \in {"seek", "idle"} /\ j' = LogBegin
      BY <1>2, <1>a, <2>5 DEF Fill, Start
    <3> QED BY <1>a, <2>3, <3>1 DEF OneFault, Booted, Searching
  <2> QED BY <2>4, <2>5, <1>a
<1> QED BY <1>1, <1>2, <1>a

\* The search of a boot.
LEMMA BootSeekOneFault ==
  ASSUME MaxReadFaults <= 1, IInv, OneFault, Seek, ~saving
  PROVE  OneFault'
<1>a. /\ word \in [0..9 -> Words] /\ ram \in [Parts -> Words] /\ i \in 0..7 /\ j \in Parts
      /\ Slot(j, i) \in 0..9 /\ word' = word /\ ~saving' /\ pc = "seek" /\ tmp \in Words
      /\ TypeOK /\ Position
  BY DEF IInv, TypeOK, Slot, Seek, chip
<1>b. Forming(word) \/ Firm(word)
  BY DEF OneFault
<1>1. PICK f \in Fetch(Slot(j, i), IF j = LogBegin /\ i = 0 THEN Words ELSE {tmp}) : Seek!2!(f)
  BY DEF Seek
<1>2. /\ f[2] = faults => f[1] = word[Slot(j, i)]
      /\ f[2] # faults => f[1] \in (IF j = LogBegin /\ i = 0 THEN Words ELSE {tmp}) /\ f[2] = faults + 1
      /\ f[2] >= faults
  BY <1>1, <1>a, FetchTypes
<1>3. faults' = f[2] /\ tmp' = f[1]
  BY <1>1
<1>4. CASE f[1] = TAG
  <2>1. pc' = "load" /\ j' = j /\ i' = i
    BY <1>1, <1>4, <1>a DEF Seek
  <2>2. j = LogEnd => Firm(word) \/ word[Slot(LogEnd, ValueSlot(i))] = Undef
    <3> SUFFICES ASSUME j = LogEnd, Forming(word), ~Firm(word)
                 PROVE  word[Slot(LogEnd, ValueSlot(i))] = Undef
      BY <1>b
    <3>1. CASE i = 0
      BY <3>1, SlotPlaces DEF Slot, Forming
    <3>2. CASE i \in 1..7
      <4>1. word[2] # TAG
        BY <1>a, <3>2 DEF OneFault
      <4>2. \A x \in 2..9 : word[x] = Undef
        BY <4>1 DEF Forming
      <4>3. Slot(LogEnd, ValueSlot(i)) = i + 1
        BY <3>2, SlotPlaces DEF Slot
      <4> QED BY <3>2, <4>2, <4>3
    <3> QED BY <3>1, <3>2, <1>a
  <2> QED BY <1>3, <1>4, <1>a, <1>b, <2>1, <2>2 DEF OneFault, Booted, Searching
<1>5. CASE f[1] # TAG /\ i < 7
  <2>1. pc' = "seek" /\ j' = j /\ i' = i + 1
    BY <1>1, <1>5, <1>a
  <2>2. j = LogEnd => Firm(word) \/ word[2] # TAG
    <3>1. CASE i > 0
      BY <1>a, <3>1 DEF OneFault
    <3>2. CASE i = 0
      <4> SUFFICES ASSUME j = LogEnd, word[2] = TAG, ~Firm(word) PROVE FALSE
        OBVIOUS
      <4>1. f[2] # faults
        <5>1. Slot(j, i) = 2
          BY <3>2, <1>a DEF Slot
        <5> QED BY <1>2, <1>5, <5>1
      <4>2. f[1] = tmp /\ f[2] = faults + 1
        BY <1>2, <4>1
      <4>3. f[2] <= MaxReadFaults
        BY <1>1, <1>a, FetchTypes
      <4>4. faults = 0
        BY <4>2, <4>3, <1>a DEF TypeOK
      <4>5. tmp = TAG
        BY <3>2, <4>4, <1>a DEF OneFault
      <4> QED BY <4>2, <4>5, <1>5
    <3> QED BY <3>1, <3>2, <1>a
  <2> QED BY <1>a, <1>b, <2>1, <2>2 DEF OneFault, Booted, Searching
<1>6. CASE f[1] # TAG /\ ~(i < 7)
  <2>1. Finish(ram) /\ i = 7
    BY <1>1, <1>6, <1>a
  <2>2. CASE j = LogBegin
    <3>1. pc' = "seek" /\ j' = LogEnd /\ i' = 0
      BY <2>1, <2>2 DEF Finish
    <3>2. faults' = 0 /\ word[2] = TAG => Firm(word)
      <4> SUFFICES ASSUME faults' = 0, word[2] = TAG, Forming(word) PROVE FALSE
        BY <1>b
      <4>1. Sound
        <5>1. faults \in Nat
          BY <1>a DEF TypeOK
        <5>2. faults = 0
          BY <1>2, <1>3, <5>1
        <5> QED BY <5>2 DEF IInv, SoundUntilFault
      <4>2. word[Slot(LogBegin, 1)] # TAG
        BY <4>1, <1>a, <2>1, <2>2 DEF Sound, Searching, NoneBefore
      <4> QED BY <4>2 DEF Forming, Slot
    <3> QED BY <1>a, <1>b, <3>1, <3>2 DEF OneFault, Booted, Searching
  <2>3. CASE j = LogEnd
    <3>1. pc' = "fill" /\ j' = LogBegin /\ i' = 0
      BY <2>1, <2>3, <1>a DEF Finish, Start, Position
    <3> QED BY <1>a, <1>b, <3>1 DEF OneFault, Booted, Searching
  <2> QED BY <2>2, <2>3, <1>a
<1> QED BY <1>4, <1>5, <1>6

\* The search of a save.
LEMMA SaveSeekOneFault ==
  ASSUME MaxReadFaults <= 1, IInv, OneFault, Seek, saving
  PROVE  OneFault' /\ pc' # "idle"
<1>a. /\ word \in [0..9 -> Words] /\ ram \in [Parts -> Words] /\ i \in 0..7 /\ j \in Parts
      /\ Slot(j, i) \in 0..9 /\ word' = word /\ saving' /\ pc = "seek" /\ tmp \in Words
      /\ TypeOK /\ faults \in 0..MaxReadFaults
  BY DEF IInv, TypeOK, Slot, Seek, chip
<1>b. Firm(word) /\ (i <= IF j = LogBegin THEN 4 ELSE 2) /\ (j = LogEnd => Found(word, i))
  BY <1>a DEF OneFault, Booted, Searching
<1>c. faults = 0 => Formed(word) /\ NoneBefore(word, j, i)
  BY <1>a DEF IInv, SoundUntilFault, Sound, Booted, Searching
<1>d. faults = 0 /\ j = LogEnd => tmp # TAG
  BY <1>a DEF OneFault
<1>1. PICK f \in Fetch(Slot(j, i), IF j = LogBegin /\ i = 0 THEN Words ELSE {tmp}) : Seek!2!(f)
  BY DEF Seek
<1>2. /\ f[2] = faults => f[1] = word[Slot(j, i)]
      /\ f[2] # faults => f[1] \in (IF j = LogBegin /\ i = 0 THEN Words ELSE {tmp}) /\ faults = 0
  <2>1. /\ f[2] = faults => f[1] = word[Slot(j, i)]
        /\ f[2] # faults => f[1] \in (IF j = LogBegin /\ i = 0 THEN Words ELSE {tmp}) /\ faults < MaxReadFaults
    BY <1>1, <1>a, FetchTypes
  <2> QED BY <2>1, <1>a
<1>3. tmp' = f[1]
  BY <1>1
<1>4. faults = 0 => i <= 1
  <2>1. faults = 0 => word[Slot(j, 1)] = TAG
    BY <1>a, <1>c DEF Formed, Slot
  <2> QED BY <2>1, <1>a, <1>c DEF NoneBefore
<1>5. CASE f[1] = TAG
  <2>1. pc' = "compare" /\ j' = j /\ i' = i
    BY <1>1, <1>5, <1>a
  <2>2. j = LogEnd => word[Slot(LogEnd, i)] = TAG
    BY <1>2, <1>5, <1>a, <1>d
  <2> QED BY <1>3, <1>5, <1>a, <1>b, <2>1, <2>2 DEF OneFault, Booted, Searching
<1>6. CASE f[1] # TAG
  <2>1. i < IF j = LogBegin THEN 4 ELSE 2
    <3>1. CASE f[2] = faults
      <4>1. ~(j = LogBegin /\ i = 4) /\ ~(j = LogEnd /\ i = 2)
        BY <1>2, <1>6, <3>1, <1>b DEF Firm, Slot
      <4> QED BY <4>1, <1>a, <1>b
    <3>2. CASE f[2] # faults
      BY <1>2, <1>4, <1>a, <3>2
    <3> QED BY <3>1, <3>2
  <2>2. pc' = "seek" /\ j' = j /\ i' = i + 1
    BY <1>1, <1>6, <1>a, <2>1
  <2>3. j = LogEnd => Found(word, i + 1)
    <3> SUFFICES ASSUME j = LogEnd PROVE Found(word, i + 1)
      OBVIOUS
    <3>1. NoneBefore(word, LogEnd, i)
      BY <1>b, <1>a, <2>1 DEF Found
    <3>2. CASE f[2] = faults
      <4>1. word[Slot(LogEnd, i)] # TAG
        BY <1>2, <1>6, <3>2
      <4>2. \A n \in 0..i : n = i \/ n \in 0..i-1
        BY <1>a
      <4> QED BY <3>1, <4>1, <4>2, <1>a DEF Found, NoneBefore
    <3>3. CASE f[2] # faults
      <4>1. Formed(word) /\ i \in 0..1
        BY <1>2, <1>c, <1>4, <3>3, <1>a
      <4>2. word[2] # TAG /\ word[3] = TAG
        BY <4>1 DEF Formed
      <4> QED BY <4>1, <4>2 DEF Found, NoneBefore, Slot
    <3> QED BY <3>2, <3>3
  <2>4. i + 1 <= IF j = LogBegin THEN 4 ELSE 2
    BY <2>1, <1>a
  <2> QED BY <1>3, <1>6, <1>a, <1>b, <2>2, <2>3, <2>4 DEF OneFault, Booted, Searching
<1> QED BY <1>5, <1>6

LEMMA LoadOneFault ==
  ASSUME IInv, OneFault, Load
  PROVE  OneFault'
<1>a. /\ word \in [0..9 -> Words] /\ ram \in [Parts -> Words] /\ i \in 0..7 /\ j \in Parts
      /\ word' = word /\ tmp' = tmp /\ ~saving /\ ~saving' /\ pc = "load" /\ TypeOK
      /\ (j = LogEnd => ram[LogEnd] = Undef)
  BY DEF IInv, TypeOK, Slot, Load, chip, Position
<1>b. Forming(word) \/ Firm(word)
  BY DEF OneFault
<1>1. PICK f \in Fetch(Slot(j, ValueSlot(i)), {ram[j]}) : Load!2!(f)
  BY DEF Load
<1>2. Slot(j, ValueSlot(i)) \in 0..9 /\ ram[j] \in Words
  BY <1>a, SlotPlaces DEF Slot
<1>3. f[1] = word[Slot(j, ValueSlot(i))] \/ f[1] = ram[j]
  BY <1>1, <1>2, <1>a, FetchTypes
<1>4. CASE j = LogBegin
  <2>1. pc' = "seek" /\ j' = LogEnd /\ i' = 0
    BY <1>1, <1>4 DEF Finish
  <2>2. tmp' = TAG
    BY <1>a DEF OneFault
  <2> QED BY <1>a, <1>b, <2>1, <2>2 DEF OneFault, Booted, Searching
<1>5. CASE j = LogEnd
  <2>1. (pc' = "idle" \/ pc' = "fill") /\ j' = LogBegin /\ i' = 0
    BY <1>1, <1>5 DEF Finish, Start
  <2>2. pc' = "idle" => Firm(word)
    <3> SUFFICES ASSUME ~Firm(word) PROVE pc' # "idle"
      OBVIOUS
    <3>1. f[1] = Undef
      BY <1>3, <1>5, <1>a DEF OneFault
    <3>2. [ram EXCEPT ![j] = f[1]][LogEnd] = Undef
      BY <3>1, <1>5, <1>a
    <3> QED BY <1>1, <1>5, <1>a, <3>2 DEF Finish, Start
  <2> QED BY <1>a, <1>b, <2>1, <2>2 DEF OneFault, Booted, Searching
<1> QED BY <1>4, <1>5, <1>a

LEMMA CompareOneFault ==
  ASSUME IInv, IInv', OneFault, Compare
  PROVE  /\ OneFault'
         /\ pc' = "idle" /\ ram[LogEnd] \in Values => StoredIn(word', LogEnd) = ram[LogEnd]
<1>a. /\ word \in [0..9 -> Words] /\ ram \in [Parts -> Words] /\ i \in 0..7 /\ j \in Parts
      /\ word' = word /\ saving /\ saving' /\ pc = "compare" /\ TypeOK
  BY DEF IInv, TypeOK, Slot, Compare, chip, Position
<1>b. /\ Firm(word) /\ (i <= IF j = LogBegin THEN 4 ELSE 2) /\ tmp = TAG
      /\ j = LogEnd => Found(word, i) /\ word[Slot(LogEnd, i)] = TAG
  BY <1>a DEF OneFault, Booted, Searching
<1>1. PICK f \in Fetch(Slot(j, ValueSlot(i)), {tmp}) : Compare!2!(f)
  BY DEF Compare
<1>2. f[1] = word[Slot(j, ValueSlot(i))] \/ f[1] = TAG
  <2>1. Slot(j, ValueSlot(i)) \in 0..9 /\ {tmp} \in SUBSET Words
    BY <1>a, <1>b, SlotPlaces DEF Slot
  <2> QED BY <1>1, <2>1, <1>a, <1>b, FetchTypes
<1>3. CASE f[1] # ram[j]
  <2>1. pc' = "put" /\ ram' = ram /\ j' = j /\ i' = i
    BY <1>1, <1>3
  <2> QED BY <1>a, <1>b, <2>1 DEF OneFault, Booted, Searching
<1>4. CASE f[1] = ram[j] /\ j = LogBegin
  <2>1. pc' = "seek" /\ j' = LogEnd /\ i' = 0 /\ ram' = ram /\ tmp' = ram[LogBegin]
    BY <1>1, <1>4 DEF Finish
  <2>2. faults' = 0 => tmp' # TAG
    BY <1>a, <2>1 DEF IInv, SoundUntilFault, Sound, Booted
  <2> QED BY <1>a, <1>b, <2>1, <2>2 DEF OneFault, Booted, Searching, Found, NoneBefore
<1>5. CASE f[1] = ram[j] /\ j = LogEnd
  <2>1. pc' = "idle"
    BY <1>1, <1>5, <1>a DEF Finish, Start
  <2>2. ASSUME ram[LogEnd] \in Values
        PROVE  StoredIn(word', LogEnd) = ram[LogEnd]
    <3>1. word[Slot(LogEnd, ValueSlot(i))] = ram[LogEnd]
      BY <1>2, <1>5, <2>2
    <3>2. NoneBefore(word, LogEnd, i)
      <4> SUFFICES ASSUME i = 2, word[3] = TAG PROVE FALSE
        BY <1>b, <1>5 DEF Found
      <4>1. Slot(LogEnd, ValueSlot(i)) = 3
        BY SlotPlaces DEF Slot
      <4> QED BY <3>1, <4>1, <2>2
    <3> QED BY <1>a, <1>b, <1>5, <3>1, <3>2, StoredAt DEF FirstTag
  <2> QED BY <1>a, <1>b, <2>1, <2>2 DEF OneFault, Booted, Searching
<1> QED BY <1>3, <1>4, <1>5, <1>a

LEMMA PutValueOneFault ==
  ASSUME IInv, OneFault, PutValue
  PROVE  OneFault'
<1>a. /\ word \in [0..9 -> Words] /\ ram \in [Parts -> Words] /\ i \in 0..7 /\ j \in Parts
      /\ saving /\ saving' /\ pc = "put" /\ pc' = "tag" /\ ram' = ram /\ j' = j /\ i' = i
  BY DEF IInv, TypeOK, Slot, PutValue, Position
<1>b. /\ Firm(word) /\ (i <= IF j = LogBegin THEN 4 ELSE 2)
      /\ j = LogEnd => Found(word, i) /\ word[Slot(LogEnd, i)] = TAG
  BY <1>a DEF OneFault, Booted, Searching
<1>1. word' = [word EXCEPT ![Slot(j, ValueSlot(i))] = ram[j]]
  BY DEF PutValue, WriteSlot
<1>2. Slot(j, ValueSlot(i)) \in (0..9) \ (4..6)
  <2>1. i = 0 \/ i \in 1..7
    BY <1>a
  <2> QED BY <2>1, <1>a, <1>b, SlotPlaces DEF Slot
<1>3. Firm(word')
  BY <1>1, <1>2, <1>a, <1>b DEF Firm
<1>4. ASSUME j = LogEnd
      PROVE  word'[Slot(LogEnd, i)] = TAG
  <2>1. ValueSlot(i) # i
    <3>1. i = 0 \/ i \in 1..7
      BY <1>a
    <3> QED BY <3>1, SlotPlaces
  <2> QED BY <1>1, <1>2, <1>4, <1>a, <1>b, <2>1, SlotPlaces DEF Slot
<1>5. ASSUME j = LogEnd, ram[LogEnd] \in Values
      PROVE  NoneBefore(word', LogEnd, i) /\ word'[Slot(LogEnd, ValueSlot(i))] = ram[LogEnd]
  <2>1. word' = [word EXCEPT ![Slot(LogEnd, ValueSlot(i))] = ram[LogEnd]] /\ ram[LogEnd] # TAG
    BY <1>1, <1>5
  <2>2. word'[Slot(LogEnd, ValueSlot(i))] = ram[LogEnd]
    BY <1>2, <1>5, <1>a, <2>1
  <2>3. ASSUME NEW n \in 0..i-1
        PROVE  word'[Slot(LogEnd, n)] # TAG
    <3>1. CASE NoneBefore(word, LogEnd, i)
      BY <1>a, <1>2, <1>5, <2>1, <2>3, <3>1 DEF NoneBefore, Slot
    <3>2. CASE i = 2 /\ word[2] # TAG
      <4>1. ValueSlot(i) = 1 /\ n \in 0..1
        BY <3>2, SlotPlaces
      <4> QED BY <1>a, <2>1, <3>2, <4>1 DEF Slot
    <3> QED BY <3>1, <3>2, <1>b, <1>5 DEF Found
  <2> QED BY <2>2, <2>3 DEF NoneBefore
<1> QED BY <1>a, <1>b, <1>3, <1>4, <1>5 DEF OneFault, Booted, Searching

LEMMA PutTagOneFault ==
  ASSUME IInv, IInv', OneFault, PutTag
  PROVE  /\ OneFault'
         /\ pc' = "idle" /\ ram[LogEnd] \in Values => StoredIn(word', LogEnd) = ram[LogEnd]
<1>a. /\ word \in [0..9 -> Words] /\ ram \in [Parts -> Words] /\ i \in 0..7 /\ j \in Parts
      /\ saving /\ saving' /\ pc = "tag" /\ faults' = faults /\ Finish(ram)
  BY DEF IInv, TypeOK, Slot, PutTag, Position
<1>b. /\ Firm(word) /\ (i <= IF j = LogBegin THEN 4 ELSE 2)
      /\ j = LogEnd => word[Slot(LogEnd, i)] = TAG
      /\ j = LogEnd /\ ram[LogEnd] \in Values =>
           NoneBefore(word, LogEnd, i) /\ word[Slot(LogEnd, ValueSlot(i))] = ram[LogEnd]
  BY <1>a DEF OneFault, Booted, Searching
<1>1. word' = [word EXCEPT ![Slot(j, i)] = TAG]
  <2>1. TagSlot(i) = i
    BY <1>a, SlotPlaces
  <2> QED BY <2>1 DEF PutTag
<1>2. Firm(word')
  BY <1>1, <1>a, <1>b DEF Firm, Slot
<1>3. CASE j = LogBegin
  <2>1. pc' = "seek" /\ j' = LogEnd /\ i' = 0
    BY <1>a, <1>3 DEF Finish
  <2>2. faults' # 0
    BY <1>a, <1>3 DEF IInv, SoundUntilFault, Sound
  <2> QED BY <1>a, <1>2, <2>1, <2>2 DEF OneFault, Booted, Searching, Found, NoneBefore
<1>4. CASE j = LogEnd
  <2>1. pc' = "idle"
    BY <1>a, <1>4 DEF Finish, Start
  <2>2. word' = word
    BY <1>1, <1>4, <1>a, <1>b DEF Slot
  <2>3. ram[LogEnd] \in Values => StoredIn(word', LogEnd) = ram[LogEnd]
    BY <2>2, <1>4, <1>a, <1>b, StoredAt DEF FirstTag
  <2> QED BY <1>a, <1>2, <2>1, <2>3 DEF OneFault, Booted, Searching
<1> QED BY <1>3, <1>4, <1>a

\* The step, and what a save that ends with it has stored.
LEMMA NextOneFault ==
  ASSUME MaxReadFaults <= 1, IInv, IInv', OneFault, [Next]_vars
  PROVE  /\ OneFault'
         /\ saving /\ pc # "idle" /\ pc' = "idle" /\ ram[LogEnd] \in Values
              => StoredIn(word', LogEnd) = ram[LogEnd]
<1>a. TypeOK /\ Position
  BY DEF IInv
<1>1. CASE ReadMagic
  BY <1>1, <1>a DEF ReadMagic, Start, chip, OneFault, Booted, Searching, Position
<1>2. CASE Format
  BY <1>2, <1>a DEF Format, Start, chip, OneFault, Booted, Searching, Position
<1>3. CASE Fill
  BY <1>3, <1>a, FillOneFault DEF Position, Fill
<1>4. CASE Seek
  BY <1>4, BootSeekOneFault, SaveSeekOneFault
<1>5. CASE Load
  BY <1>5, <1>a, LoadOneFault DEF Position, Load
<1>6. CASE Advance
  BY <1>6 DEF Advance, chip, OneFault, Booted, Searching
<1>7. CASE Save
  BY <1>7 DEF Save, Start, chip, OneFault, Booted, Searching
<1>8. CASE Compare
  BY <1>8, CompareOneFault
<1>9. CASE PutValue
  BY <1>9, PutValueOneFault DEF PutValue
<1>10. CASE PutTag
  BY <1>10, PutTagOneFault
<1>11. CASE Crash
  BY <1>11 DEF Crash, Start, chip, OneFault, Booted, Searching
<1>12. CASE UNCHANGED vars
  BY <1>12 DEF vars, OneFault, Booted, Searching
<1> QED BY <1>1, <1>2, <1>3, <1>4, <1>5, <1>6, <1>7, <1>8, <1>9, <1>10, <1>11, <1>12 DEF Next

\* A save that comes to its end has stored LOG_END, whichever one read of the search
\* has failed, at this save or before: datalogger_write_iterators_to_eeprom looks
\* at the status of no read.
THEOREM SavesTake ==
  ASSUME MaxReadFaults <= 1
  PROVE  Spec => SaveTakes
<1>1. Init => OneFault
  <2> SUFFICES ASSUME Init PROVE OneFault
    OBVIOUS
  <2>1. Forming(word)
    BY BlankIsForming DEF Init, Blank, Slot
  <2> QED BY <2>1 DEF Init, OneFault, Booted, Searching
<1>2. IInv /\ IInv' /\ OneFault /\ [Next]_vars => OneFault'
  BY NextOneFault
<1>3. IInv /\ IInv' /\ OneFault /\ [Next]_vars =>
        [(saving /\ pc # "idle" /\ pc' = "idle" /\ ram[LogEnd] \in Values)
           => Stored(LogEnd)' = ram[LogEnd]]_vars
  <2>1. Stored(LogEnd)' = StoredIn(word', LogEnd)
    BY DEF Stored, StoredIn, FirstTag, NoneBefore
  <2> QED BY <2>1, NextOneFault
<1> QED BY <1>1, <1>2, <1>3, IteratorsInvariant, PTL DEF Spec, SaveTakes
=============================================================================
