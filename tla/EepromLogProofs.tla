--------------------------- MODULE EepromLogProofs ---------------------------
(***************************************************************************)
(* Proofs about the record log, for every size of the log, of its pages    *)
(* and of a record.                                                        *)
(*                                                                         *)
(* The geometry: the iterators stay in the log and step back the way they  *)
(* came, no transfer crosses a page of the chip (which would wrap inside   *)
(* the page), and the two transfers of a record put each byte where it     *)
(* belongs in the ring, also at the end of the log.                        *)
(*                                                                         *)
(* The log: whatever transfers fail and whenever the controller is reset,  *)
(* the newest records are on the chip behind END.                          *)
(***************************************************************************)
EXTENDS EepromLog, SequenceTheorems, TLAPS

USE LogAssumption DEF LogAssumption

(***************************************************************************)
(* Iterators.                                                              *)
(***************************************************************************)

\* dl_iterator_moveforward and dl_iterator_moveback never leave the log.
THEOREM IteratorsStay ==
  \A z \in Places : Forward(z) \in Places /\ Back(z) \in Places
  BY DEF Places, Forward, Back, BackBy

\* dl_iterator_moveback undoes dl_iterator_moveforward for every place that is
\* on the chip, also across the end of the log.
THEOREM BackUndoesForward == \A z \in Cells : Back(Forward(z)) = z
  BY DEF Cells, Forward, Back, BackBy

\* The one place that is not on the chip is skipped on the way back: the
\* iterator that went forward from Last comes back to First.
THEOREM LastIsAnAlias == Forward(Last) = Forward(First) /\ Back(Forward(Last)) # Last
  BY DEF Forward, Back, BackBy

(***************************************************************************)
(* Remainders.                                                             *)
(***************************************************************************)

LEMMA DivMod ==
  ASSUME NEW a \in Int
  PROVE  /\ a = PageSize * (a \div PageSize) + (a % PageSize)
         /\ a \div PageSize \in Int /\ a % PageSize \in 0..PageSize-1
  OBVIOUS

\* A multiple of the page size that is smaller than a page is zero.
LEMMA SmallMultiple ==
  ASSUME NEW k \in Int, NEW r \in Int, PageSize * k = r, -PageSize < r, r < PageSize
  PROVE  r = 0
<1>1. k >= 1 => PageSize * k >= PageSize
  OBVIOUS
<1>2. k <= -1 => PageSize * k <= -PageSize
  OBVIOUS
<1> QED BY <1>1, <1>2

\* The remainder is unique.
LEMMA Remainder ==
  ASSUME NEW a \in Int, NEW q \in Int, NEW r \in 0..PageSize-1, a = PageSize * q + r
  PROVE  a % PageSize = r
<1> DEFINE q2 == a \div PageSize
           r2 == a % PageSize
<1>1. a = PageSize * q2 + r2 /\ q2 \in Int /\ r2 \in 0..PageSize-1
  BY DivMod
<1> HIDE DEF q2, r2
<1>2. PageSize * (q - q2) = r2 - r
  <2>1. PageSize * (q - q2) = PageSize * q - PageSize * q2
    BY <1>1
  <2> QED BY <1>1, <2>1
<1>3. /\ q - q2 \in Int /\ r2 - r \in Int
      /\ -PageSize < r2 - r /\ r2 - r < PageSize
  BY <1>1
<1>4. r2 - r = 0
  BY <1>2, <1>3, SmallMultiple
<1>5. r2 = r
  BY <1>1, <1>4
<1> QED BY <1>5 DEF r2

\* A shift by whole pages keeps the place in the page.
LEMMA PageShift ==
  ASSUME NEW a \in Int, NEW b \in Int, a % PageSize = 0
  PROVE  (a + b) % PageSize = b % PageSize
<1> DEFINE p == a \div PageSize
           q == b \div PageSize
           r == b % PageSize
<1>1. /\ a = PageSize * p /\ p \in Int
      /\ b = PageSize * q + r /\ q \in Int /\ r \in 0..PageSize-1
  BY DivMod
<1> HIDE DEF p, q, r
<1>2. a + b = PageSize * (p + q) + r
  <2>1. PageSize * (p + q) = PageSize * p + PageSize * q
    BY <1>1
  <2> QED BY <1>1, <2>1
<1>3. a + b \in Int /\ p + q \in Int
  BY <1>1
<1>4. (a + b) % PageSize = r
  BY <1>1, <1>2, <1>3, Remainder
<1> QED BY <1>4 DEF r

\* The end of the ring is a whole number of pages behind its start.
LEMMA RingLength == (First - Last) % PageSize = 0
<1> DEFINE f == First \div PageSize
           l == Last \div PageSize
<1>1. First = PageSize * f /\ Last = PageSize * l /\ f \in Int /\ l \in Int
  BY DivMod
<1> HIDE DEF f, l
<1>2. First - Last = PageSize * (f - l) + 0
  <2>1. PageSize * (f - l) = PageSize * f - PageSize * l
    BY <1>1
  <2> QED BY <1>1, <2>1
<1> QED BY <1>1, <1>2, Remainder

(***************************************************************************)
(* Transfers.                                                              *)
(***************************************************************************)

\* LSB_BYTE of the moved iterator tells how far the record reaches into the
\* next page, even when the iterator has wrapped.
LEMMA SpillIs == ASSUME NEW z \in Places PROVE Spill(z) = (z + ItemSize) % PageSize
<1>1. CASE z > Last - ItemSize
  <2>1. Forward(z) = (First - Last) + (z + ItemSize)
    BY <1>1 DEF Forward, Places
  <2>2. First - Last \in Int /\ z + ItemSize \in Int
    BY DEF Places
  <2>3. ((First - Last) + (z + ItemSize)) % PageSize = (z + ItemSize) % PageSize
    BY <2>2, RingLength, PageShift
  <2> QED BY <2>1, <2>3 DEF Spill
<1>2. CASE ~(z > Last - ItemSize)
  BY <1>2 DEF Spill, Forward, Places
<1> QED BY <1>1, <1>2

\* The place in the page of z and of the end of the record.
LEMMA PlaceInPage ==
  ASSUME NEW z \in Places
  PROVE  IF Split(z) THEN z % PageSize = PageSize - (ItemSize - Spill(z))
                     ELSE (z % PageSize) + ItemSize <= PageSize
<1> DEFINE q == z \div PageSize
           r == z % PageSize
<1>1. z = PageSize * q + r /\ q \in Int /\ r \in 0..PageSize-1
  BY DivMod DEF Places
<1>2. Spill(z) = (z + ItemSize) % PageSize
  BY SpillIs
<1> HIDE DEF q, r
<1>3. CASE r + ItemSize < PageSize
  <2>1. (z + ItemSize) % PageSize = r + ItemSize
    <3>1. z + ItemSize = PageSize * q + (r + ItemSize)
      BY <1>1
    <3> QED BY <1>1, <1>3, <3>1, Remainder
  <2> QED BY <1>1, <1>2, <1>3, <2>1 DEF Split, r
<1>4. CASE r + ItemSize >= PageSize
  <2>1. (z + ItemSize) % PageSize = r + ItemSize - PageSize
    <3>1. z + ItemSize = PageSize * (q + 1) + (r + ItemSize - PageSize)
      <4>1. PageSize * (q + 1) = PageSize * q + PageSize
        BY <1>1
      <4> QED BY <1>1, <4>1
    <3>2. r + ItemSize - PageSize \in 0..PageSize-1 /\ q + 1 \in Int /\ z + ItemSize \in Int
      BY <1>1, <1>4 DEF Places
    <3> QED BY <3>1, <3>2, Remainder
  <2> QED BY <1>1, <1>2, <1>4, <2>1 DEF Split, r
<1> QED BY <1>1, <1>3, <1>4

\* No transfer crosses a page of the chip.
THEOREM TransfersFitPages ==
  ASSUME NEW z \in Places
  PROVE  /\ (HeadOf(z).start % PageSize) + HeadOf(z).len <= PageSize
         /\ Split(z) => /\ TailOf(z).start % PageSize = 0
                        /\ TailOf(z).len \in 1..PageSize-1
<1>1. Forward(z) \in Int /\ Spill(z) \in 0..PageSize-1
  BY IteratorsStay DEF Spill, Places
<1>2. (Forward(z) - Spill(z)) % PageSize = 0
  <2> DEFINE y == Forward(z)
             q == y \div PageSize
  <2>1. y = PageSize * q + Spill(z) /\ q \in Int
    BY <1>1, DivMod DEF Spill
  <2> HIDE DEF y, q
  <2>2. y - Spill(z) = PageSize * q + 0 /\ y - Spill(z) \in Int
    BY <1>1, <2>1
  <2>3. (y - Spill(z)) % PageSize = 0
    BY <2>1, <2>2, Remainder
  <2> QED BY <2>3 DEF y
<1> QED BY <1>1, <1>2, PlaceInPage DEF HeadOf, TailOf, Transfer, Split, Places

\* Each byte of a record that starts on the chip goes to its place in the ring.
THEOREM BytesInTheirPlace ==
  ASSUME NEW z \in Cells, NEW k \in 0..ItemSize-1
  PROVE  ByteAddress(z, k) = RingAddress(z, k)
<1>1. Spill(z) = (z + ItemSize) % PageSize
  BY SpillIs DEF Cells, Places
<1>2. CASE z > Last - ItemSize
  <2> DEFINE s == z + ItemSize - Last
  <2>1. s \in 1..ItemSize-1 /\ s \in 0..PageSize-1
    BY <1>2 DEF Cells
  <2>2. (z + ItemSize) % PageSize = s
    <3>1. Last = PageSize * (Last \div PageSize) /\ Last \div PageSize \in Int
      BY DivMod
    <3>2. z + ItemSize = PageSize * (Last \div PageSize) + s
      BY <3>1 DEF Cells
    <3>3. z + ItemSize \in Int
      BY DEF Cells
    <3> HIDE DEF s
    <3> QED BY <2>1, <3>1, <3>2, <3>3, Remainder
  <2>3. Spill(z) = s /\ Split(z)
    BY <1>1, <2>1, <2>2 DEF Split
  <2>4. Forward(z) = First + s
    BY <1>2 DEF Forward, Cells
  <2> HIDE DEF s
  <2>5. HeadOf(z) = Transfer(z, 0, ItemSize - s)
    BY <2>3 DEF HeadOf
  <2>6. TailOf(z) = Transfer(First, ItemSize - s, s)
    BY <2>1, <2>3, <2>4 DEF TailOf
  <2>7. /\ HeadOf(z).start = z /\ HeadOf(z).len = ItemSize - s
        /\ TailOf(z).start = First /\ TailOf(z).offset = ItemSize - s
    BY <2>5, <2>6 DEF Transfer
  <2> QED BY <2>1, <2>7 DEF ByteAddress, RingAddress, Cells, s
<1>3. CASE ~(z > Last - ItemSize)
  <2>1. Forward(z) = z + ItemSize /\ RingAddress(z, k) = z + k
    BY <1>3 DEF Forward, RingAddress, Cells
  <2>2. Spill(z) \in Int
    BY <2>1 DEF Spill, Cells
  <2> QED BY <2>1, <2>2 DEF ByteAddress, HeadOf, TailOf, Transfer, Cells
<1> QED BY <1>2, <1>3

(***************************************************************************)
(* The ring behind a place, and ahead of it.                               *)
(***************************************************************************)

\* dl_iterator_moveback by d bytes.
Behind(z, d) == IF z < First + d THEN Last - (First + d - z) ELSE z - d

\* The ring holds d bytes, and the record behind them.
Spans(d) == d \in Int /\ ItemSize <= d /\ d <= Last - First

LEMMA BehindOnChip ==
  ASSUME NEW z \in Places, NEW d, Spans(d)
  PROVE  Behind(z, d) \in Cells
  BY DEF Behind, Places, Cells, Spans

\* The iterator goes back to where it was, one record earlier.
LEMMA BehindForward ==
  ASSUME NEW z \in Places, NEW d, Spans(d), Spans(d + ItemSize)
  PROVE  Behind(Forward(z), d + ItemSize) = Behind(z, d)
  BY DEF Behind, Forward, Places, Spans

LEMMA BehindOneForward ==
  ASSUME NEW z \in Cells
  PROVE  Behind(Forward(z), ItemSize) = z
  BY DEF Behind, Forward, Cells

\* Two records behind the same place have no byte in common.
LEMMA BehindApart ==
  ASSUME NEW z \in Places, NEW d1, NEW d2, Spans(d1), Spans(d2), d1 + ItemSize <= d2,
         NEW k1 \in 0..ItemSize-1, NEW k2 \in 0..ItemSize-1
  PROVE  RingAddress(Behind(z, d1), k1) # RingAddress(Behind(z, d2), k2)
  BY DEF Behind, Places, Spans, RingAddress

\* A record at a place has none in common with those that are not too far behind.
LEMMA AheadApart ==
  ASSUME NEW z \in Cells, NEW d, Spans(d), Spans(d + ItemSize),
         NEW k1 \in 0..ItemSize-1, NEW k2 \in 0..ItemSize-1
  PROVE  RingAddress(z, k1) # RingAddress(Behind(z, d), k2)
  BY DEF Behind, Cells, Spans, RingAddress

\* Nor have two bytes of one record.
LEMMA RingInjective ==
  ASSUME NEW z \in Cells, NEW k1 \in 0..ItemSize-1, NEW k2 \in 0..ItemSize-1, k1 # k2
  PROVE  RingAddress(z, k1) # RingAddress(z, k2)
  BY DEF Cells, RingAddress

LEMMA RingOnChip ==
  ASSUME NEW z \in Cells, NEW k \in 0..ItemSize-1
  PROVE  RingAddress(z, k) \in Cells
  BY DEF Cells, RingAddress

\* Records instead of bytes.
LEMMA Multiple ==
  ASSUME NEW m \in Nat, NEW n \in Nat
  PROVE  /\ m * ItemSize \in Nat /\ (m + 1) * ItemSize = m * ItemSize + ItemSize
         /\ m <= n => m * ItemSize <= n * ItemSize
         /\ m < n => m * ItemSize + ItemSize <= n * ItemSize
<1>1. m * ItemSize \in Nat /\ (m + 1) * ItemSize = m * ItemSize + ItemSize
  OBVIOUS
<1>2. ASSUME NEW a \in Nat, NEW b \in Nat, a <= b
      PROVE  a * ItemSize <= b * ItemSize
  <2>1. b * ItemSize = a * ItemSize + (b - a) * ItemSize
    OBVIOUS
  <2>2. (b - a) * ItemSize >= 0
    BY <1>2
  <2>3. a * ItemSize \in Int /\ (b - a) * ItemSize \in Int
    OBVIOUS
  <2> QED BY <2>1, <2>2, <2>3
<1>3. m < n => (m + 1) * ItemSize <= n * ItemSize
  BY <1>2
<1> QED BY <1>1, <1>2, <1>3

LEMMA BackByIs ==
  ASSUME NEW z, NEW n
  PROVE  BackBy(z, n) = Behind(z, n * ItemSize)
  BY DEF BackBy, Behind

\* Going back one record at a time, as the readers do, is going back by as many.
LEMMA BackByOneMore ==
  ASSUME NEW z \in Places, NEW n \in Nat \ {0}, (n + 1) * ItemSize <= Last - First
  PROVE  Back(BackBy(z, n)) = BackBy(z, n + 1)
<1> DEFINE d == n * ItemSize
<1>1. /\ d \in Nat /\ (n + 1) * ItemSize = d + ItemSize /\ ItemSize <= d
      /\ d + ItemSize <= Last - First /\ 1 * ItemSize = ItemSize
  BY Multiple
<1>2. Back(BackBy(z, n)) = Behind(Behind(z, d), ItemSize) /\ BackBy(z, n + 1) = Behind(z, d + ItemSize)
  BY <1>1, BackByIs DEF Back
<1> HIDE DEF d
<1>3. Behind(Behind(z, d), ItemSize) = Behind(z, d + ItemSize)
  BY <1>1 DEF Behind, Places
<1> QED BY <1>2, <1>3

-----------------------------------------------------------------------------
\* Where the next record is counted in: END, and while a record is written the
\* place it is written at.
Base == IF pc \in {"head", "tail", "count"} THEN at ELSE end

\* The j-th newest of the records s.
Nth(s, j) == s[Len(s) - j + 1]

\* What byte k of the record named r may be: the last one is the flag.
ByteOf(r, k) == {<<r, k>>} \cup (IF k = ItemSize - 1 THEN {<<r, ItemSize>>} ELSE {})

\* The bytes c hold record r at place z, and its flag is set when it was marked.
Holds(c, z, r) ==
  /\ \A k \in 0..ItemSize-1 : c[RingAddress(z, k)] \in ByteOf(r.id, k)
  /\ z + ItemSize - 1 < Last =>
       (c[RingAddress(z, ItemSize - 1)] = <<r.id, ItemSize>> <=> r.sent)

\* Every record that a reset can make one of the newest is on the chip.
RecordsHeld ==
  \A j \in 1..Capacity + unsaved :
    j <= Len(log) /\ Nth(log, j).ok => Holds(cell, BackBy(Base, j), Nth(log, j))

\* The record that is being written, as far as it has come.
SoFar(n) == at \in Cells /\ \A k \in 0..n-1 : cell[RingAddress(at, k)] = <<NewId, k>>
WritingHeld ==
  /\ pc \in {"head", "tail", "count"} => end = Forward(at)
  /\ pc = "tail" => Split(at)
  /\ pc = "tail" /\ okSoFar => SoFar(HeadOf(at).len)
  /\ pc = "count" /\ okSoFar => SoFar(ItemSize)

\* The saved iterator stands unsaved records behind.
SavedBehind ==
  /\ pc # "save" => unsaved <= MaxUnsaved
  /\ \A j \in 1..Capacity : BackBy(saved, j) = BackBy(Base, j + unsaved)

IInv == TypeOK /\ RecordsHeld /\ WritingHeld /\ SavedBehind

-----------------------------------------------------------------------------
(***************************************************************************)
(* What a transfer writes.                                                 *)
(***************************************************************************)

LEMMA ForwardSpill == \A z \in Places : Forward(z) \in Int /\ Spill(z) \in 0..PageSize-1
  BY IteratorsStay DEF Spill, Places

\* A record at Last is one transfer, which no chip answers.
LEMMA SplitOnChip ==
  ASSUME NEW z \in Places, Split(z)
  PROVE  z \in Cells
<1> SUFFICES ASSUME z = Last PROVE FALSE
  BY DEF Places, Cells
<1>1. Spill(z) = ItemSize % PageSize
  <2>1. Last \in Int /\ ItemSize \in Int /\ Last % PageSize = 0
    OBVIOUS
  <2>2. (Last + ItemSize) % PageSize = ItemSize % PageSize
    BY <2>1, PageShift
  <2> QED BY <2>2, SpillIs
<1>2. CASE ItemSize = PageSize
  <2>1. PageSize % PageSize = 0
    <3>1. PageSize = PageSize * 1 + 0
      OBVIOUS
    <3> QED BY <3>1, Remainder
  <2> QED BY <1>1, <1>2, <2>1 DEF Split
<1>3. CASE ItemSize < PageSize
  <2>1. ItemSize % PageSize = ItemSize
    <3>1. ItemSize = PageSize * 0 + ItemSize
      OBVIOUS
    <3> QED BY <1>3, <3>1, Remainder
  <2> QED BY <1>1, <2>1 DEF Split
<1> QED BY <1>2, <1>3

\* Byte number a of the head of a record, and its inverse.
LEMMA HeadBytes ==
  ASSUME NEW z \in Places
  PROVE  LET h == HeadOf(z) IN
         /\ h.start = z /\ h.offset = 0 /\ h.len \in 1..ItemSize
         /\ \A a \in Cells : a \in h.start .. (h.start + h.len - 1) =>
              z \in Cells /\ a - z \in 0..h.len-1 /\ a = RingAddress(z, a - z)
         /\ z \in Cells => \A k \in 0..h.len-1 : RingAddress(z, k) = z + k
<1> DEFINE h == HeadOf(z)
<1>1. h.start = z /\ h.offset = 0 /\ h.len = IF Split(z) THEN ItemSize - Spill(z) ELSE ItemSize
  BY DEF HeadOf, Transfer
<1>2. h.len \in 1..ItemSize
  BY <1>1, ForwardSpill DEF Split
<1> HIDE DEF h
<1>3. z \in Cells => \A k \in 0..h.len-1 : RingAddress(z, k) = z + k
  <2> SUFFICES ASSUME z \in Cells, NEW k \in 0..h.len-1 PROVE RingAddress(z, k) = z + k
    OBVIOUS
  <2>1. k \in 0..ItemSize-1 /\ k < h.len
    BY <1>2
  <2>2. ByteAddress(z, k) = z + k
    BY <1>1, <2>1 DEF ByteAddress, h
  <2> QED BY <2>1, <2>2, BytesInTheirPlace
<1>4. ASSUME NEW a \in Cells, a \in h.start .. (h.start + h.len - 1)
      PROVE  z \in Cells /\ a - z \in 0..h.len-1 /\ a = RingAddress(z, a - z)
  <2>1. z \in Cells /\ a - z \in 0..h.len-1 /\ a = z + (a - z)
    BY <1>1, <1>2, <1>4 DEF Places, Cells
  <2> QED BY <1>3, <2>1
<1> QED BY <1>1, <1>2, <1>3, <1>4 DEF h

LEMMA TailBytes ==
  ASSUME NEW z \in Places, Split(z)
  PROVE  LET t == TailOf(z)  n == HeadOf(z).len IN
         /\ t.offset = n /\ n \in 1..ItemSize-1 /\ t.len = ItemSize - n /\ t.start \in Int
         /\ \A a \in Cells : a \in t.start .. (t.start + t.len - 1) =>
              n + (a - t.start) \in n..ItemSize-1 /\ a = RingAddress(z, n + (a - t.start))
         /\ \A k \in n..ItemSize-1 : RingAddress(z, k) = t.start + (k - n)
<1> DEFINE t == TailOf(z)
           n == HeadOf(z).len
<1>1. /\ n = ItemSize - Spill(z) /\ t.offset = ItemSize - Spill(z) /\ t.len = Spill(z)
      /\ t.start = Forward(z) - Spill(z)
  BY DEF HeadOf, TailOf, Transfer
<1>2. Spill(z) \in 1..ItemSize-1 /\ Forward(z) \in Int
  BY ForwardSpill DEF Split
<1>3. z \in Cells
  BY SplitOnChip
<1> HIDE DEF t, n
<1>4. ASSUME NEW k \in n..ItemSize-1
      PROVE  RingAddress(z, k) = t.start + (k - n)
  <2>1. k \in 0..ItemSize-1 /\ ~(k < n)
    BY <1>1, <1>2
  <2>2. ByteAddress(z, k) = t.start + (k - n)
    BY <1>1, <2>1 DEF ByteAddress, t, n
  <2> QED BY <1>3, <2>1, <2>2, BytesInTheirPlace
<1>5. ASSUME NEW a \in Cells, a \in t.start .. (t.start + t.len - 1)
      PROVE  n + (a - t.start) \in n..ItemSize-1 /\ a = RingAddress(z, n + (a - t.start))
  <2>1. n + (a - t.start) \in n..ItemSize-1 /\ a = t.start + ((n + (a - t.start)) - n)
    BY <1>1, <1>2, <1>5 DEF Cells
  <2> QED BY <1>4, <2>1
<1>6. t.offset = n /\ n \in 1..ItemSize-1 /\ t.len = ItemSize - n /\ t.start \in Int
  BY <1>1, <1>2
<1> QED BY <1>4, <1>5, <1>6 DEF t, n

-----------------------------------------------------------------------------
(***************************************************************************)
(* The records by their age.                                               *)
(***************************************************************************)

Record == [id : Ids, ok : BOOLEAN, sent : BOOLEAN]

LEMMA KeepNth ==
  ASSUME NEW s \in Seq(Record), NEW n \in Nat
  PROVE  /\ Keep(s, n) \in Seq(Record) /\ Len(Keep(s, n)) <= Len(s)
         /\ \A j \in 1..Len(Keep(s, n)) : Nth(Keep(s, n), j) = Nth(s, j)
<1>1. Len(s) \in Nat
  BY LenProperties
<1>2. CASE Len(s) <= n
  BY <1>1, <1>2 DEF Keep
<1>3. CASE ~(Len(s) <= n)
  <2> DEFINE m == Len(s) - n + 1
             t == SubSeq(s, m, Len(s))
  <2>1. m \in Int /\ Len(s) \in Int /\ \A i \in m..Len(s) : s[i] \in Record
    BY <1>1, <1>3
  <2>2. /\ t \in Seq(Record) /\ Len(t) = (IF m <= Len(s) THEN Len(s) - m + 1 ELSE 0)
        /\ \A i \in 1..Len(s) - m + 1 : t[i] = s[m + i - 1]
    BY <2>1, SubSeqProperties
  <2>3. Len(t) = n
    BY <1>1, <1>3, <2>2
  <2>4. ASSUME NEW j \in 1..n
        PROVE  t[n - j + 1] = s[Len(s) - j + 1]
    <3>1. n - j + 1 \in 1..Len(s) - m + 1 /\ m + (n - j + 1) - 1 = Len(s) - j + 1
      BY <1>1, <1>3
    <3> QED BY <2>2, <3>1
  <2>5. Keep(s, n) = t
    BY <1>3 DEF Keep
  <2> QED BY <1>1, <1>3, <2>2, <2>3, <2>4, <2>5 DEF Nth
<1> QED BY <1>2, <1>3

LEMMA AppendNth ==
  ASSUME NEW s \in Seq(Record), NEW r \in Record
  PROVE  /\ Append(s, r) \in Seq(Record) /\ Len(Append(s, r)) = Len(s) + 1
         /\ Nth(Append(s, r), 1) = r
         /\ \A j \in 2..Len(s)+1 : Nth(Append(s, r), j) = Nth(s, j - 1)
<1>1. Len(s) \in Nat
  BY LenProperties
<1>2. /\ Append(s, r) \in Seq(Record) /\ Len(Append(s, r)) = Len(s) + 1
      /\ \A i \in 1..Len(s) : Append(s, r)[i] = s[i] /\ Append(s, r)[Len(s) + 1] = r
  BY AppendProperties
<1>3. Append(s, r)[Len(s) + 1] = r
  BY AppendProperties
<1> QED BY <1>1, <1>2, <1>3 DEF Nth

LEMMA DropNth ==
  ASSUME NEW s \in Seq(Record), NEW n \in Nat
  PROVE  /\ DropNewest(s, n) \in Seq(Record)
         /\ \A j \in 1..Len(DropNewest(s, n)) : j + n <= Len(s) /\ Nth(DropNewest(s, n), j) = Nth(s, j + n)
<1>1. Len(s) \in Nat
  BY LenProperties
<1>2. CASE Len(s) <= n
  <2>1. DropNewest(s, n) = <<>> /\ Len(<<>>) = 0
    BY <1>2 DEF DropNewest
  <2> QED BY <2>1
<1>3. CASE ~(Len(s) <= n)
  <2> DEFINE t == SubSeq(s, 1, Len(s) - n)
  <2>1. Len(s) - n \in Int /\ \A i \in 1..Len(s) - n : s[i] \in Record
    BY <1>1, <1>3
  <2>2. /\ t \in Seq(Record) /\ Len(t) = Len(s) - n
        /\ \A i \in 1..Len(s) - n : t[i] = s[i]
    <3>1. /\ t \in Seq(Record) /\ Len(t) = (IF 1 <= Len(s) - n THEN (Len(s) - n) - 1 + 1 ELSE 0)
          /\ \A i \in 1..(Len(s) - n) - 1 + 1 : t[i] = s[1 + i - 1]
      BY <2>1, SubSeqProperties
    <3>2. (Len(s) - n) - 1 + 1 = Len(s) - n /\ 1 <= Len(s) - n
      BY <1>1, <1>3
    <3>3. \A i \in 1..Len(s) - n : 1 + i - 1 = i
      BY <1>1
    <3> QED BY <3>1, <3>2, <3>3
  <2>3. ASSUME NEW j \in 1..Len(s) - n
        PROVE  j + n <= Len(s) /\ t[(Len(s) - n) - j + 1] = s[Len(s) - (j + n) + 1]
    <3>1. (Len(s) - n) - j + 1 \in 1..Len(s) - n /\ (Len(s) - n) - j + 1 = Len(s) - (j + n) + 1 /\ j + n <= Len(s)
      BY <1>1
    <3> QED BY <2>2, <3>1
  <2>4. DropNewest(s, n) = t
    BY <1>3 DEF DropNewest
  <2> HIDE DEF t
  <2>5. \A j \in 1..Len(t) : j + n <= Len(s) /\ Nth(t, j) = Nth(s, j + n)
    BY <2>2, <2>3 DEF Nth
  <2> QED BY <2>2, <2>4, <2>5
<1> QED BY <1>2, <1>3

-----------------------------------------------------------------------------
(***************************************************************************)
(* The records that are held.                                              *)
(***************************************************************************)

LEMMA Sizes ==
  /\ First \in Nat /\ Last \in Nat /\ ItemSize \in Nat \ {0} /\ First + ItemSize < Last
  /\ First \in Places
  BY DEF Places

HIDE LogAssumption DEF LogAssumption

\* Records that a reset can make one of the newest lie apart from the next one.
LEMMA LiveSpans ==
  ASSUME NEW j \in 1..Capacity + MaxUnsaved
  PROVE  Spans(j * ItemSize) /\ Spans((j + 1) * ItemSize) /\ Spans(j * ItemSize + ItemSize)
         /\ (j + 1) * ItemSize = j * ItemSize + ItemSize
<1>1. Capacity \in Nat /\ MaxUnsaved \in Nat /\ (Capacity + MaxUnsaved + 1) * ItemSize <= Last - First
  BY LogCapacityAssumption DEF LogCapacityAssumption
<1>2. j \in Nat /\ j + 1 \in Nat /\ 1 \in Nat /\ Capacity + MaxUnsaved + 1 \in Nat
      /\ 1 <= j /\ j + 1 <= Capacity + MaxUnsaved + 1
  BY <1>1
<1>3. /\ 1 * ItemSize <= j * ItemSize /\ (j + 1) * ItemSize <= (Capacity + MaxUnsaved + 1) * ItemSize
      /\ (j + 1) * ItemSize = j * ItemSize + ItemSize
      /\ j * ItemSize \in Nat /\ (j + 1) * ItemSize \in Nat /\ (Capacity + MaxUnsaved + 1) * ItemSize \in Nat
  BY <1>2, Multiple
<1>4. 1 * ItemSize = ItemSize
  BY Sizes
<1> DEFINE d == j * ItemSize
           e == (j + 1) * ItemSize
           c == (Capacity + MaxUnsaved + 1) * ItemSize
<1>5. ItemSize <= d /\ e <= c /\ e = d + ItemSize /\ d \in Nat /\ e \in Nat /\ c \in Nat /\ c <= Last - First
  BY <1>1, <1>3, <1>4
<1> HIDE DEF d, e, c
<1>6. Spans(d) /\ Spans(e) /\ Spans(d + ItemSize) /\ e = d + ItemSize
  BY <1>5, Sizes DEF Spans
<1> QED BY <1>6 DEF d, e

\* Only the bytes of the record count.
LEMMA HoldsSame ==
  ASSUME NEW c, NEW c2, NEW z, NEW r, Holds(c, z, r),
         \A k \in 0..ItemSize-1 : c2[RingAddress(z, k)] = c[RingAddress(z, k)]
  PROVE  Holds(c2, z, r)
<1>1. ItemSize - 1 \in 0..ItemSize-1
  BY Sizes
<1> QED BY <1>1 DEF Holds

\* The bytes of a record of the log that is ok are not cleared.
LEMMA ClearedHolds ==
  ASSUME NEW s \in Seq(Record), NEW j \in 1..Len(s), Nth(s, j).ok,
         NEW z \in Cells, Holds(cell, z, Nth(s, j))
  PROVE  Holds(Cleared(s), z, Nth(s, j))
<1> DEFINE r == Nth(s, j)
<1>1. Len(s) - j + 1 \in 1..Len(s)
  BY LenProperties
<1>2. \E i \in 1..Len(s) : s[i].ok /\ s[i].id = r.id
  BY <1>1 DEF Nth
<1>3. ASSUME NEW k \in 0..ItemSize-1
      PROVE  Cleared(s)[RingAddress(z, k)] = cell[RingAddress(z, k)]
  <2>1. RingAddress(z, k) \in Cells
    BY RingOnChip
  <2>2. cell[RingAddress(z, k)] \in ByteOf(r.id, k)
    BY DEF Holds
  <2>3. cell[RingAddress(z, k)][1] = r.id
    BY <2>2 DEF ByteOf
  <2> QED BY <1>2, <2>1, <2>3 DEF Cleared
<1> QED BY <1>3, HoldsSame

\* A record lies apart from another one behind the same place.
LEMMA LiveApart ==
  ASSUME NEW z \in Places, NEW i \in 1..Capacity + MaxUnsaved, NEW j \in 1..Capacity + MaxUnsaved, i # j,
         NEW k1 \in 0..ItemSize-1, NEW k2 \in 0..ItemSize-1
  PROVE  RingAddress(BackBy(z, i), k1) # RingAddress(BackBy(z, j), k2)
<1>1. \A n \in 1..Capacity + MaxUnsaved : n \in Nat /\ Spans(n * ItemSize)
  BY LiveSpans, LogCapacityAssumption DEF LogCapacityAssumption
<1>2. CASE i < j
  <2>1. i * ItemSize + ItemSize <= j * ItemSize
    BY <1>1, <1>2, Multiple
  <2> QED BY <1>1, <2>1, BehindApart, BackByIs
<1>3. CASE j < i
  <2>1. j * ItemSize + ItemSize <= i * ItemSize
    BY <1>1, <1>3, Multiple
  <2>2. RingAddress(Behind(z, j * ItemSize), k2) # RingAddress(Behind(z, i * ItemSize), k1)
    BY <1>1, <2>1, BehindApart
  <2> QED BY <2>2, BackByIs
<1> QED BY <1>1, <1>2, <1>3

LEMMA LiveAhead ==
  ASSUME NEW z \in Cells, NEW j \in 1..Capacity + MaxUnsaved,
         NEW k1 \in 0..ItemSize-1, NEW k2 \in 0..ItemSize-1
  PROVE  RingAddress(z, k1) # RingAddress(BackBy(z, j), k2)
  BY LiveSpans, AheadApart, BackByIs

LEMMA LiveOnChip ==
  ASSUME NEW z \in Places, NEW j \in 1..Capacity + MaxUnsaved
  PROVE  BackBy(z, j) \in Cells
  BY LiveSpans, BehindOnChip, BackByIs

\* Forward and back.
LEMMA LiveForward ==
  ASSUME NEW z \in Places, NEW j \in 1..Capacity + MaxUnsaved
  PROVE  BackBy(Forward(z), j + 1) = BackBy(z, j)
  BY LiveSpans, BehindForward, BackByIs

LEMMA NextBehind ==
  ASSUME NEW z \in Cells
  PROVE  BackBy(Forward(z), 1) = z
<1>1. 1 * ItemSize = ItemSize
  BY Sizes
<1> QED BY <1>1, BackByIs, BehindOneForward

-----------------------------------------------------------------------------
(***************************************************************************)
(* Types.                                                                  *)
(***************************************************************************)

LEMMA NewIdIsId == log \in Seq(Record) => NewId \in Ids
<1> SUFFICES ASSUME log \in Seq(Record) PROVE NewId \in Ids
  OBVIOUS
<1>1. IdMod \in Nat \ {0}
  BY LogCapacityAssumption DEF LogCapacityAssumption
<1>2. CASE log = <<>>
  BY <1>1, <1>2 DEF NewId, Ids
<1>3. CASE log # <<>>
  <2>1. log[Len(log)] \in Record
    BY <1>3
  <2>2. log[Len(log)].id \in 0..IdMod-1
    BY <2>1 DEF Record, Ids
  <2>3. (log[Len(log)].id + 1) % IdMod \in 0..IdMod-1
    BY <1>1, <2>2
  <2> QED BY <1>3, <2>3 DEF NewId, Ids
<1> QED BY <1>2, <1>3

CellValues == ({-1} \cup Ids) \X (0..ItemSize)

\* Transmit leaves the bytes as they are, or writes those of the transfer.
LEMMA TransmitWrites ==
  ASSUME NEW t, Transmit(t)
  PROVE  /\ okSoFar' \in BOOLEAN
         /\ (cell' = cell /\ ~okSoFar') \/ (cell' = Written(t) /\ (okSoFar' => okSoFar /\ OnChip(t)))
  BY DEF Transmit

LEMMA WrittenTypes ==
  ASSUME TypeOK, NEW t,
         \A a \in Cells : a \in t.start .. (t.start + t.len - 1) => t.offset + (a - t.start) \in 0..ItemSize
  PROVE  Written(t) \in [Cells -> CellValues]
<1>1. NewId \in Ids /\ cell \in [Cells -> CellValues]
  BY NewIdIsId DEF TypeOK, Record, CellValues
<1>2. ASSUME NEW a \in Cells
      PROVE  (IF a \in t.start .. (t.start + t.len - 1) THEN <<NewId, t.offset + (a - t.start)>> ELSE cell[a]) \in CellValues
  BY <1>1, <1>2 DEF CellValues
<1> QED BY <1>2 DEF Written

LEMMA ClearedTypes ==
  ASSUME TypeOK, NEW s
  PROVE  Cleared(s) \in [Cells -> CellValues]
<1>1. cell \in [Cells -> CellValues]
  BY DEF TypeOK, CellValues
<1>2. Other \in CellValues
  BY Sizes DEF Other, CellValues
<1> QED BY <1>1, <1>2 DEF Cleared

LEMMA HeadTypes ==
  ASSUME TypeOK, Transmit(HeadOf(at))
  PROVE  cell' \in [Cells -> CellValues] /\ okSoFar' \in BOOLEAN
<1>1. at \in Places /\ cell \in [Cells -> CellValues]
  BY DEF TypeOK, CellValues
<1> DEFINE h == HeadOf(at)
<1>2. /\ h.offset = 0 /\ h.len \in 1..ItemSize /\ h.start = at
      /\ \A a \in Cells : a \in h.start .. (h.start + h.len - 1) => a - at \in 0..h.len-1
  BY <1>1, HeadBytes
<1> HIDE DEF h
<1>3. \A a \in Cells : a \in h.start .. (h.start + h.len - 1) => h.offset + (a - h.start) \in 0..ItemSize
  BY <1>1, <1>2, Sizes DEF Places
<1>4. Written(h) \in [Cells -> CellValues]
  BY <1>3, WrittenTypes
<1> QED BY <1>1, <1>4, TransmitWrites DEF h

LEMMA TailTypes ==
  ASSUME TypeOK, Split(at), Transmit(TailOf(at))
  PROVE  cell' \in [Cells -> CellValues] /\ okSoFar' \in BOOLEAN
<1>1. at \in Places /\ cell \in [Cells -> CellValues]
  BY DEF TypeOK, CellValues
<1> DEFINE t == TailOf(at)
           n == HeadOf(at).len
<1>2. /\ t.offset = n /\ n \in 1..ItemSize-1
      /\ \A a \in Cells : a \in t.start .. (t.start + t.len - 1) => n + (a - t.start) \in n..ItemSize-1
  BY <1>1, TailBytes
<1> HIDE DEF t, n
<1>3. \A a \in Cells : a \in t.start .. (t.start + t.len - 1) => t.offset + (a - t.start) \in 0..ItemSize
  BY <1>2, Sizes
<1>4. Written(t) \in [Cells -> CellValues]
  BY <1>3, WrittenTypes
<1> QED BY <1>1, <1>4, TransmitWrites DEF t

LEMMA NextTypeOK == IInv /\ [Next]_vars => TypeOK'
<1> SUFFICES ASSUME IInv, [Next]_vars PROVE TypeOK'
  OBVIOUS
<1>a. TypeOK /\ WritingHeld /\ (pc # "save" => unsaved <= MaxUnsaved)
  BY DEF IInv, SavedBehind
<1>b. /\ cell \in [Cells -> CellValues] /\ log \in Seq(Record)
      /\ end \in Places /\ saved \in Places /\ at \in Places /\ unsaved \in 0..(MaxUnsaved + 1)
      /\ Capacity \in Nat /\ MaxUnsaved \in Nat /\ First \in Places
  BY <1>a, Sizes, LogCapacityAssumption DEF TypeOK, CellValues, Record, LogCapacityAssumption
<1>1. CASE Take
  BY <1>1, <1>a, <1>b, IteratorsStay DEF TypeOK, Take
<1>2. CASE WriteHead
  BY <1>2, <1>a, HeadTypes DEF TypeOK, WriteHead, CellValues
<1>3. CASE WriteTail
  <2>1. Split(at)
    BY <1>3, <1>a DEF WriteTail, WritingHeld
  <2> QED BY <1>3, <1>a, <2>1, TailTypes DEF TypeOK, WriteTail, CellValues
<1>4. CASE Count
  <2>1. [id |-> NewId, ok |-> okSoFar, sent |-> FALSE] \in Record
    BY <1>a, <1>b, NewIdIsId DEF Record, TypeOK
  <2>2. Append(log, [id |-> NewId, ok |-> okSoFar, sent |-> FALSE]) \in Seq(Record)
    BY <1>b, <2>1, AppendNth
  <2>3. Capacity + MaxUnsaved + 1 \in Nat
    BY <1>b
  <2>4. log' \in Seq(Record)
    BY <1>4, <2>2, <2>3, KeepNth DEF Count
  <2>5. cell' \in [Cells -> CellValues]
    BY <1>4, <1>a, ClearedTypes DEF Count
  <2>6. unsaved' \in 0..(MaxUnsaved + 1)
    BY <1>4, <1>a, <1>b DEF Count
  <2> QED BY <1>4, <1>a, <2>4, <2>5, <2>6 DEF TypeOK, Count, CellValues, Record
<1>5. CASE Save
  BY <1>5, <1>a, <1>b DEF TypeOK, Save
<1>6. ASSUME NEW j \in 1..Capacity, MarkSent(j)
      PROVE  TypeOK'
  <2> DEFINE a == FlagAddress(Place(j))
             m == Len(log) - j + 1
  <2>1. cell' \in [Cells -> CellValues]
    <3>1. cell' = IF a \in Cells /\ cell[a] # Other THEN [cell EXCEPT ![a] = <<cell[a][1], ItemSize>>] ELSE cell
      BY <1>6 DEF MarkSent
    <3> HIDE DEF a
    <3>2. a \in Cells => <<cell[a][1], ItemSize>> \in CellValues
      BY <1>b, Sizes DEF CellValues
    <3> QED BY <3>1, <3>2, <1>b
  <2>2. log' \in Seq(Record)
    <3>1. Len(log) \in Nat /\ m \in 1..Len(log)
      BY <1>6, <1>b DEF MarkSent
    <3>2. log' = [log EXCEPT ![m].sent = log[m].ok]
      BY <1>6 DEF MarkSent
    <3>3. log[m] \in Record
      BY <1>b, <3>1
    <3>4. [log[m] EXCEPT !.sent = log[m].ok] \in Record
      BY <3>3 DEF Record
    <3>5. log' = [log EXCEPT ![m] = [log[m] EXCEPT !.sent = log[m].ok]]
      BY <3>2
    <3> HIDE DEF m
    <3> QED BY <1>b, <3>1, <3>4, <3>5
  <2> QED BY <1>6, <1>a, <2>1, <2>2 DEF TypeOK, MarkSent, CellValues, Record
<1>7. CASE Crash
  <2>1. log' \in Seq(Record)
    BY <1>7, <1>b, DropNth DEF Crash
  <2>2. cell' \in [Cells -> CellValues]
    BY <1>7, <1>a, ClearedTypes DEF Crash
  <2> QED BY <1>7, <1>a, <1>b, <2>1, <2>2 DEF TypeOK, Crash, CellValues, Record
<1>8. CASE UNCHANGED vars
  BY <1>8, <1>a DEF TypeOK, vars
<1> QED BY <1>1, <1>2, <1>3, <1>4, <1>5, <1>6, <1>7, <1>8 DEF Next

-----------------------------------------------------------------------------
(***************************************************************************)
(* The steps.                                                              *)
(***************************************************************************)

\* What the invariant gives each step.
LEMMA InvFacts ==
  ASSUME IInv
  PROVE  /\ cell \in [Cells -> CellValues] /\ log \in Seq(Record) /\ Len(log) \in Nat
         /\ end \in Places /\ saved \in Places /\ at \in Places /\ Base \in Places
         /\ unsaved \in 0..(MaxUnsaved + 1) /\ (pc # "save" => unsaved <= MaxUnsaved)
         /\ Capacity \in Nat /\ MaxUnsaved \in Nat
         /\ RecordsHeld /\ WritingHeld /\ SavedBehind /\ TypeOK
  BY LenProperties, LogCapacityAssumption
     DEF IInv, TypeOK, SavedBehind, Base, CellValues, Record, LogCapacityAssumption

\* A step that leaves the records and the bytes of those that count.
LEMMA RecordsStay ==
  ASSUME RecordsHeld, log' = log, Base' = Base, unsaved \in Nat, unsaved' \in Nat, unsaved' <= unsaved,
         Capacity \in Nat,
         \A j \in 1..Capacity + unsaved : \A k \in 0..ItemSize-1 :
           cell'[RingAddress(BackBy(Base, j), k)] = cell[RingAddress(BackBy(Base, j), k)]
  PROVE  RecordsHeld'
<1> SUFFICES ASSUME NEW j \in 1..Capacity + unsaved', j <= Len(log), Nth(log, j).ok
             PROVE  Holds(cell', BackBy(Base, j), Nth(log, j))
  BY DEF RecordsHeld, Nth, Holds, ByteOf, BackBy
<1>1. j \in 1..Capacity + unsaved
  <2>1. \A a, b, c \in Nat : c <= b => 1..a + c \subseteq 1..a + b
    OBVIOUS
  <2> QED BY <2>1, Zenon
<1>2. Holds(cell, BackBy(Base, j), Nth(log, j))
  BY <1>1 DEF RecordsHeld
<1> QED BY <1>1, <1>2, HoldsSame

LEMMA TakeHolds ==
  ASSUME IInv, Take
  PROVE  RecordsHeld' /\ WritingHeld' /\ SavedBehind'
<1>1. /\ Base = end /\ Base' = end /\ unsaved' = unsaved /\ unsaved <= MaxUnsaved
      /\ cell' = cell /\ log' = log /\ saved' = saved
  BY InvFacts DEF Take, Base
<1>2. RecordsHeld'
  BY <1>1, InvFacts, RecordsStay
<1>3. WritingHeld'
  BY DEF WritingHeld, Take
<1>4. SavedBehind'
  BY <1>1, InvFacts DEF SavedBehind, Take
<1> QED BY <1>2, <1>3, <1>4

\* A transfer of the record at at touches no byte of those behind it.
LEMMA TransmitApart ==
  ASSUME IInv, NEW t, Transmit(t), unsaved <= MaxUnsaved,
         \A a \in Cells : a \in t.start .. (t.start + t.len - 1)
            => at \in Cells /\ \E k \in 0..ItemSize-1 : a = RingAddress(at, k)
  PROVE  \A j \in 1..Capacity + unsaved : \A k \in 0..ItemSize-1 :
           cell'[RingAddress(BackBy(at, j), k)] = cell[RingAddress(BackBy(at, j), k)]
<1> SUFFICES ASSUME NEW j \in 1..Capacity + unsaved, NEW k \in 0..ItemSize-1
             PROVE  cell'[RingAddress(BackBy(at, j), k)] = cell[RingAddress(BackBy(at, j), k)]
  OBVIOUS
<1> DEFINE a == RingAddress(BackBy(at, j), k)
<1>1. j \in 1..Capacity + MaxUnsaved
  BY InvFacts
<1>2. a \in Cells
  BY <1>1, InvFacts, LiveOnChip, RingOnChip
<1>3. a \notin t.start .. (t.start + t.len - 1)
  BY <1>1, <1>2, LiveAhead
<1>4. cell' = cell \/ cell' = Written(t)
  BY TransmitWrites
<1> HIDE DEF a
<1>5. cell'[a] = cell[a]
  BY <1>2, <1>3, <1>4 DEF Written
<1> QED BY <1>5 DEF a

LEMMA HeadHolds ==
  ASSUME IInv, WriteHead
  PROVE  RecordsHeld' /\ WritingHeld' /\ SavedBehind'
<1> DEFINE h == HeadOf(at)
<1>a. /\ at \in Places /\ Base = at /\ Base' = at /\ unsaved' = unsaved /\ unsaved <= MaxUnsaved /\ unsaved \in Nat
      /\ log' = log /\ saved' = saved /\ at' = at /\ end' = end /\ end = Forward(at) /\ Capacity \in Nat
      /\ NewId' = NewId /\ RecordsHeld /\ MaxUnsaved \in Nat
  BY InvFacts DEF WriteHead, Base, WritingHeld, NewId
<1>b. /\ h.start = at /\ h.offset = 0 /\ h.len \in 1..ItemSize
      /\ \A a \in Cells : a \in h.start .. (h.start + h.len - 1) =>
           at \in Cells /\ a - at \in 0..h.len-1 /\ a = RingAddress(at, a - at)
      /\ at \in Cells => \A k \in 0..h.len-1 : RingAddress(at, k) = at + k
  BY <1>a, HeadBytes
<1>c. Transmit(h)
  BY DEF WriteHead
<1>d. ~Split(at) => h.len = ItemSize
  BY DEF HeadOf, Transfer
<1>e. h = HeadOf(at)
  OBVIOUS
<1> HIDE DEF h
<1>1. \A a \in Cells : a \in h.start .. (h.start + h.len - 1)
            => at \in Cells /\ \E k \in 0..ItemSize-1 : a = RingAddress(at, k)
  BY <1>b, Sizes
<1>2. RecordsHeld'
  BY <1>a, <1>c, <1>1, TransmitApart, RecordsStay
<1>3. ASSUME okSoFar'
      PROVE  at \in Cells /\ \A k \in 0..h.len-1 : cell'[RingAddress(at, k)] = <<NewId, k>>
  <2>1. cell' = Written(h) /\ OnChip(h)
    BY <1>3, <1>c, TransmitWrites
  <2>2. at \in Cells
    BY <1>a, <1>b, <2>1 DEF OnChip, Places
  <2>3. ASSUME NEW k \in 0..h.len-1
        PROVE  cell'[RingAddress(at, k)] = <<NewId, k>>
    <3>1. RingAddress(at, k) = at + k
      BY <1>b, <2>2
    <3>2. /\ k \in 0..ItemSize-1 /\ at + k \in at .. (at + h.len - 1)
          /\ 0 + ((at + k) - at) = k
      BY <1>b, <2>2, Sizes DEF Cells
    <3>3. RingAddress(at, k) \in Cells
      BY <2>2, <3>2, RingOnChip
    <3> QED BY <1>b, <2>1, <3>1, <3>2, <3>3 DEF Written
  <2> QED BY <2>2, <2>3
<1>4. WritingHeld'
  <2>1. pc' = IF Split(at) THEN "tail" ELSE "count"
    BY DEF WriteHead
  <2>2. CASE Split(at)
    BY <1>a, <1>e, <1>3, <2>1, <2>2 DEF WritingHeld, SoFar
  <2>3. CASE ~Split(at)
    BY <1>a, <1>d, <1>3, <2>1, <2>3 DEF WritingHeld, SoFar
  <2> QED BY <2>2, <2>3
<1>5. SavedBehind'
  BY <1>a, InvFacts DEF SavedBehind
<1> QED BY <1>2, <1>4, <1>5

LEMMA TailHolds ==
  ASSUME IInv, WriteTail
  PROVE  RecordsHeld' /\ WritingHeld' /\ SavedBehind'
<1> DEFINE t == TailOf(at)
           n == HeadOf(at).len
<1>a. /\ at \in Places /\ Base = at /\ Base' = at /\ unsaved' = unsaved /\ unsaved <= MaxUnsaved /\ unsaved \in Nat
      /\ log' = log /\ saved' = saved /\ at' = at /\ end' = end /\ end = Forward(at) /\ Capacity \in Nat
      /\ NewId' = NewId /\ RecordsHeld /\ MaxUnsaved \in Nat /\ Split(at) /\ pc' = "count"
      /\ okSoFar => SoFar(HeadOf(at).len)
  BY InvFacts DEF WriteTail, Base, WritingHeld, NewId
<1>b. at \in Cells
  BY <1>a, SplitOnChip
<1>c. /\ t.offset = n /\ n \in 1..ItemSize-1 /\ t.len = ItemSize - n /\ t.start \in Int
      /\ \A a \in Cells : a \in t.start .. (t.start + t.len - 1) =>
           n + (a - t.start) \in n..ItemSize-1 /\ a = RingAddress(at, n + (a - t.start))
      /\ \A k \in n..ItemSize-1 : RingAddress(at, k) = t.start + (k - n)
  BY <1>a, TailBytes
<1>d. Transmit(t)
  BY DEF WriteTail
<1>e. okSoFar => SoFar(n)
  BY <1>a
<1> HIDE DEF t, n
<1>1. \A a \in Cells : a \in t.start .. (t.start + t.len - 1)
            => at \in Cells /\ \E k \in 0..ItemSize-1 : a = RingAddress(at, k)
  BY <1>b, <1>c, Sizes
<1>2. RecordsHeld'
  BY <1>a, <1>d, <1>1, TransmitApart, RecordsStay
<1>3. ASSUME okSoFar', NEW k \in 0..ItemSize-1
      PROVE  cell'[RingAddress(at, k)] = <<NewId, k>>
  <2>1. cell' = Written(t) /\ okSoFar
    BY <1>3, <1>d, TransmitWrites
  <2>2. RingAddress(at, k) \in Cells
    BY <1>b, RingOnChip
  <2>3. CASE k < n
    <3>1. cell[RingAddress(at, k)] = <<NewId, k>>
      BY <1>c, <1>e, <2>1, <2>3 DEF SoFar
    <3>2. RingAddress(at, k) \notin t.start .. (t.start + t.len - 1)
      <4> SUFFICES ASSUME RingAddress(at, k) \in t.start .. (t.start + t.len - 1) PROVE FALSE
        OBVIOUS
      <4> DEFINE k2 == n + (RingAddress(at, k) - t.start)
      <4>1. k2 \in n..ItemSize-1 /\ RingAddress(at, k) = RingAddress(at, k2)
        BY <1>c, <2>2
      <4> HIDE DEF k2
      <4>2. k2 \in 0..ItemSize-1 /\ k # k2
        BY <1>c, <2>3, <4>1
      <4> QED BY <1>b, <4>1, <4>2, RingInjective
    <3> QED BY <2>1, <2>2, <3>1, <3>2 DEF Written
  <2>4. CASE ~(k < n)
    <3>1. /\ RingAddress(at, k) = t.start + (k - n) /\ t.start + (k - n) \in t.start .. (t.start + t.len - 1)
          /\ t.offset + ((t.start + (k - n)) - t.start) = k
      BY <1>c, <2>4, Sizes
    <3> QED BY <2>1, <2>2, <3>1 DEF Written
  <2> QED BY <2>3, <2>4
<1>4. WritingHeld'
  BY <1>a, <1>b, <1>3 DEF WritingHeld, SoFar
<1>5. SavedBehind'
  BY <1>a, InvFacts DEF SavedBehind
<1> QED BY <1>2, <1>4, <1>5

LEMMA SaveHolds ==
  ASSUME IInv, Save
  PROVE  RecordsHeld' /\ WritingHeld' /\ SavedBehind'
<1>a. /\ Base = end /\ Base' = end /\ cell' = cell /\ log' = log /\ end' = end /\ pc' = "idle"
      /\ (saved' = end /\ unsaved' = 0) \/ (unsaved <= MaxUnsaved /\ saved' = saved /\ unsaved' = unsaved)
      /\ unsaved \in Nat /\ MaxUnsaved \in Nat
  BY InvFacts DEF Save, Base
<1>1. RecordsHeld'
  BY <1>a, InvFacts, RecordsStay
<1>2. WritingHeld'
  BY <1>a DEF WritingHeld
<1>3. SavedBehind'
  BY <1>a, InvFacts DEF SavedBehind
<1> QED BY <1>1, <1>2, <1>3

\* The record that has been counted is the newest one, the others have moved on.
LEMMA CountHolds ==
  ASSUME IInv, Count
  PROVE  RecordsHeld' /\ WritingHeld' /\ SavedBehind'
<1> DEFINE r == [id |-> NewId, ok |-> okSoFar, sent |-> FALSE]
<1>a. /\ at \in Places /\ Base = at /\ Base' = Forward(at) /\ unsaved' = unsaved + 1 /\ unsaved \in 0..MaxUnsaved
      /\ saved' = saved /\ Capacity \in Nat /\ MaxUnsaved \in Nat /\ RecordsHeld
      /\ pc' = "save" /\ cell' = Cleared(log') /\ log' = Keep(Append(log, r), Capacity + MaxUnsaved + 1)
      /\ log \in Seq(Record) /\ Len(log) \in Nat
      /\ okSoFar => at \in Cells /\ \A k \in 0..ItemSize-1 : cell[RingAddress(at, k)] = <<NewId, k>>
  BY InvFacts DEF Count, Base, WritingHeld, SoFar
<1>b. r \in Record
  BY <1>a, InvFacts, NewIdIsId DEF Record, TypeOK
<1>c. r.id = NewId /\ r.ok = okSoFar /\ r.sent = FALSE
  OBVIOUS
<1> HIDE DEF r
<1>d. /\ Append(log, r) \in Seq(Record) /\ Len(Append(log, r)) = Len(log) + 1
      /\ Nth(Append(log, r), 1) = r
      /\ \A j \in 2..Len(log)+1 : Nth(Append(log, r), j) = Nth(log, j - 1)
  BY <1>a, <1>b, AppendNth
<1>e. Capacity + MaxUnsaved + 1 \in Nat
  BY <1>a
<1>f. /\ log' \in Seq(Record) /\ Len(log') \in Nat /\ Len(log') <= Len(log) + 1
      /\ \A j \in 1..Len(log') : Nth(log', j) = Nth(Append(log, r), j)
  BY <1>a, <1>d, <1>e, KeepNth, LenProperties
<1>1. RecordsHeld'
  <2> SUFFICES ASSUME NEW j \in 1..Capacity + (unsaved + 1), j <= Len(log'), Nth(log', j).ok
               PROVE  Holds(cell', BackBy(Forward(at), j), Nth(log', j))
    BY <1>a, Zenon DEF RecordsHeld
  <2>1. j \in 1..Len(log')
    BY <1>f
  <2>2. CASE j = 1
    <3>1. Nth(log', j) = r /\ okSoFar
      BY <1>c, <1>d, <1>f, <2>1, <2>2
    <3>2. at \in Cells /\ BackBy(Forward(at), j) = at
      BY <1>a, <2>2, <3>1, NextBehind
    <3>3. Holds(cell, at, r)
      <4>1. \A k \in 0..ItemSize-1 : cell[RingAddress(at, k)] = <<NewId, k>>
        BY <1>a, <3>1
      <4>2. \A k \in 0..ItemSize-1 : cell[RingAddress(at, k)] \in ByteOf(r.id, k)
        BY <1>c, <4>1 DEF ByteOf
      <4>3. cell[RingAddress(at, ItemSize - 1)] # <<r.id, ItemSize>>
        BY <4>1, Sizes
      <4> QED BY <1>c, <4>2, <4>3 DEF Holds
    <3>4. Holds(Cleared(log'), at, Nth(log', j))
      BY <1>f, <2>1, <3>1, <3>2, <3>3, ClearedHolds
    <3> QED BY <1>a, <3>2, <3>4
  <2>3. CASE j # 1
    <3> DEFINE i == j - 1
    <3>1. i \in 1..Capacity + unsaved /\ i \in 1..Capacity + MaxUnsaved /\ i <= Len(log) /\ j \in 2..Len(log)+1
          /\ j = i + 1
      BY <1>a, <1>f, <2>1, <2>3
    <3>2. Nth(log', j) = Nth(log, i)
      BY <1>d, <1>f, <2>1, <3>1
    <3> HIDE DEF i
    <3>3. Holds(cell, BackBy(at, i), Nth(log, i))
      BY <1>a, <3>1, <3>2 DEF RecordsHeld
    <3>4. BackBy(Forward(at), j) = BackBy(at, i) /\ BackBy(at, i) \in Cells
      BY <1>a, <3>1, LiveForward, LiveOnChip
    <3>5. Holds(Cleared(log'), BackBy(at, i), Nth(log', j))
      BY <1>f, <2>1, <3>2, <3>3, <3>4, ClearedHolds
    <3> QED BY <1>a, <3>4, <3>5
  <2> QED BY <2>2, <2>3
<1>2. WritingHeld'
  BY <1>a DEF WritingHeld
<1>3. SavedBehind'
  <2> SUFFICES ASSUME NEW j \in 1..Capacity
               PROVE  BackBy(saved, j) = BackBy(Forward(at), j + (unsaved + 1))
    BY <1>a DEF SavedBehind
  <2>1. BackBy(saved, j) = BackBy(at, j + unsaved)
    BY <1>a, InvFacts DEF SavedBehind
  <2>2. j + unsaved \in 1..Capacity + MaxUnsaved /\ j + (unsaved + 1) = (j + unsaved) + 1
    BY <1>a
  <2>3. BackBy(Forward(at), (j + unsaved) + 1) = BackBy(at, j + unsaved)
    BY <1>a, <2>2, LiveForward
  <2> QED BY <2>1, <2>2, <2>3
<1> QED BY <1>1, <1>2, <1>3

\* A reset goes back by the records that the saved iterator does not cover.
LEMMA CrashHolds ==
  ASSUME IInv, Crash
  PROVE  RecordsHeld' /\ WritingHeld' /\ SavedBehind'
<1>a. /\ Base' = saved /\ saved' = saved /\ unsaved' = 0 /\ pc' = "idle"
      /\ log' = DropNewest(log, unsaved) /\ cell' = Cleared(log')
      /\ log \in Seq(Record) /\ unsaved \in Nat /\ unsaved \in 0..(MaxUnsaved + 1) /\ RecordsHeld /\ SavedBehind
      /\ Capacity \in Nat /\ MaxUnsaved \in Nat /\ saved \in Places /\ Len(log) \in Nat
  BY InvFacts DEF Crash, Base
<1>b. /\ log' \in Seq(Record) /\ Len(log') \in Nat
      /\ \A j \in 1..Len(log') : j + unsaved <= Len(log) /\ Nth(log', j) = Nth(log, j + unsaved)
  BY <1>a, DropNth, LenProperties
<1>1. RecordsHeld'
  <2> SUFFICES ASSUME NEW j \in 1..Capacity + 0, j <= Len(log'), Nth(log', j).ok
               PROVE  Holds(cell', BackBy(saved, j), Nth(log', j))
    BY <1>a, Zenon DEF RecordsHeld
  <2>1. j \in 1..Capacity /\ j \in 1..Len(log') /\ j + unsaved \in 1..Capacity + unsaved /\ j \in 1..Capacity + MaxUnsaved
    BY <1>a, <1>b
  <2>2. Holds(cell, BackBy(Base, j + unsaved), Nth(log, j + unsaved))
    BY <1>a, <1>b, <2>1 DEF RecordsHeld
  <2>3. BackBy(saved, j) = BackBy(Base, j + unsaved)
    BY <1>a DEF SavedBehind
  <2>4. Holds(cell, BackBy(saved, j), Nth(log', j)) /\ BackBy(saved, j) \in Cells
    BY <1>a, <1>b, <2>1, <2>2, <2>3, LiveOnChip
  <2> QED BY <1>a, <1>b, <2>1, <2>4, ClearedHolds
<1>2. WritingHeld'
  BY <1>a DEF WritingHeld
<1>3. SavedBehind'
  <2>1. \A j \in 1..Capacity : j + 0 = j
    BY <1>a
  <2> QED BY <1>a, <2>1 DEF SavedBehind
<1> QED BY <1>1, <1>2, <1>3

\* The flag of one record is set, and its mark in the log.
LEMMA MarkHolds ==
  ASSUME IInv, NEW i \in 1..Capacity, MarkSent(i)
  PROVE  RecordsHeld' /\ WritingHeld' /\ SavedBehind'
<1> DEFINE z == BackBy(end, i)
           a == FlagAddress(z)
           m == Len(log) - i + 1
<1>a. /\ Base = end /\ Base' = end /\ unsaved' = unsaved /\ saved' = saved /\ unsaved \in 0..MaxUnsaved
      /\ pc = "idle" /\ pc' = "idle" /\ end \in Places /\ i <= Len(log) /\ Len(log) \in Nat
      /\ cell \in [Cells -> CellValues] /\ log \in Seq(Record) /\ Capacity \in Nat /\ MaxUnsaved \in Nat
      /\ RecordsHeld /\ SavedBehind
  BY InvFacts DEF MarkSent, Base
<1>b. /\ cell' = IF a \in Cells /\ cell[a] # Other THEN [cell EXCEPT ![a] = <<cell[a][1], ItemSize>>] ELSE cell
      /\ log' = [log EXCEPT ![m].sent = log[m].ok]
  BY DEF MarkSent, Place
<1>c. i \in 1..Capacity + MaxUnsaved /\ m \in 1..Len(log)
  BY <1>a
<1>d. z \in Cells
  BY <1>a, <1>c, LiveOnChip
<1>e. ItemSize - 1 \in 0..ItemSize-1 /\ (a \in Cells => a = RingAddress(z, ItemSize - 1) /\ z + ItemSize - 1 < Last)
      /\ (z + ItemSize - 1 < Last => a \in Cells)
  BY <1>d, Sizes DEF FlagAddress, RingAddress, Cells
<1>f. z = BackBy(Base, i)
  BY <1>a
<1> HIDE DEF z, a, m
<1>1. /\ Len(log') = Len(log)
      /\ \A n \in 1..Len(log) : log'[n] = IF n = m THEN [log[n] EXCEPT !.sent = log[n].ok] ELSE log[n]
  <2>1. log' = [log EXCEPT ![m] = [log[m] EXCEPT !.sent = log[m].ok]]
    BY <1>b
  <2> QED BY <1>a, <1>c, <2>1
<1>2. ASSUME NEW j \in 1..Capacity + unsaved, j <= Len(log), Nth(log', j).ok
      PROVE  Holds(cell', BackBy(Base, j), Nth(log', j))
  <2>1. Len(log) - j + 1 \in 1..Len(log) /\ j \in 1..Capacity + MaxUnsaved /\ log[Len(log) - j + 1] \in Record
    BY <1>a, <1>2
  <2>2. CASE j = i
    <3> DEFINE r == Nth(log, i)
    <3>1. r = log[m] /\ Nth(log', i) = [r EXCEPT !.sent = r.ok] /\ r \in Record
      BY <1>1, <2>1, <2>2 DEF Nth, m
    <3> HIDE DEF r
    <3>2. r.ok /\ Nth(log', i).id = r.id /\ Nth(log', i).sent = TRUE /\ r.id \in Nat
      BY <1>2, <2>2, <3>1, LogCapacityAssumption DEF Record, Ids, LogCapacityAssumption
    <3>3. Holds(cell, z, r)
      BY <1>a, <1>2, <1>f, <2>2, <3>2 DEF RecordsHeld, r
    <3>4. ASSUME NEW k \in 0..ItemSize-1
          PROVE  cell'[RingAddress(z, k)] \in ByteOf(r.id, k)
      <4>1. cell[RingAddress(z, k)] \in ByteOf(r.id, k) /\ RingAddress(z, k) \in Cells
        BY <1>d, <3>3, RingOnChip DEF Holds
      <4>2. CASE RingAddress(z, k) = a
        <5>1. k = ItemSize - 1
          BY <1>d, <1>e, <4>1, <4>2, RingInjective
        <5>2. cell[a][1] = r.id
          BY <4>1, <4>2 DEF ByteOf
        <5> QED BY <1>a, <1>b, <4>1, <4>2, <5>1, <5>2 DEF ByteOf
      <4>3. CASE RingAddress(z, k) # a
        BY <1>a, <1>b, <4>1, <4>3
      <4> QED BY <4>2, <4>3
    <3>5. ASSUME z + ItemSize - 1 < Last
          PROVE  cell'[RingAddress(z, ItemSize - 1)] = <<r.id, ItemSize>>
      <4>1. a \in Cells /\ a = RingAddress(z, ItemSize - 1)
        BY <1>e, <3>5
      <4>2. cell[a] \in ByteOf(r.id, ItemSize - 1)
        BY <1>e, <3>3, <4>1 DEF Holds
      <4>3. cell[a][1] = r.id /\ cell[a] # Other
        BY <3>2, <4>2 DEF ByteOf, Other
      <4> QED BY <1>a, <1>b, <4>1, <4>3
    <3> QED BY <1>f, <2>2, <3>2, <3>4, <3>5 DEF Holds
  <2>3. CASE j # i
    <3>1. Nth(log', j) = Nth(log, j)
      <4>1. Len(log) - j + 1 # m
        BY <1>a, <2>3 DEF m
      <4>2. log'[Len(log) - j + 1] = log[Len(log) - j + 1] /\ Len(log') = Len(log)
        BY <1>1, <2>1, <4>1
      <4> QED BY <4>2, Zenon DEF Nth
    <3>2. Holds(cell, BackBy(Base, j), Nth(log, j))
      BY <1>a, <1>2, <3>1 DEF RecordsHeld
    <3>3. ASSUME NEW k \in 0..ItemSize-1
          PROVE  cell'[RingAddress(BackBy(Base, j), k)] = cell[RingAddress(BackBy(Base, j), k)]
      <4>1. a \in Cells => RingAddress(BackBy(Base, j), k) # a
        BY <1>a, <1>c, <1>e, <1>f, <2>1, <2>3, LiveApart
      <4> QED BY <1>a, <1>b, <4>1
    <3> QED BY <3>1, <3>2, <3>3, HoldsSame
  <2> QED BY <2>2, <2>3
<1>3. RecordsHeld'
  BY <1>1, <1>2, <1>a, Zenon DEF RecordsHeld
<1>4. WritingHeld'
  BY <1>a DEF WritingHeld
<1>5. SavedBehind'
  BY <1>a, Zenon DEF SavedBehind
<1> QED BY <1>3, <1>4, <1>5

-----------------------------------------------------------------------------
(***************************************************************************)
(* The invariant, and what it says about the log.                          *)
(***************************************************************************)

LEMMA InitHolds == Init => IInv
<1> SUFFICES ASSUME Init PROVE IInv
  OBVIOUS
<1>a. Capacity \in Nat /\ MaxUnsaved \in Nat
  BY LogCapacityAssumption DEF LogCapacityAssumption
<1>1. TypeOK
  <2>1. Other \in CellValues
    BY Sizes DEF Other, CellValues
  <2>2. cell \in [Cells -> CellValues]
    BY <2>1 DEF Init
  <2>3. <<>> \in Seq([id : Ids, ok : BOOLEAN, sent : BOOLEAN])
    OBVIOUS
  <2> QED BY <1>a, <2>2, <2>3, Sizes DEF Init, TypeOK, CellValues
<1>2. RecordsHeld
  <2>1. Len(log) = 0
    BY DEF Init
  <2> QED BY <2>1, <1>a DEF RecordsHeld, Init
<1>3. WritingHeld
  BY DEF Init, WritingHeld
<1>4. SavedBehind
  <2>1. \A j \in 1..Capacity : j + 0 = j
    BY <1>a
  <2> QED BY <1>a, <2>1 DEF Init, SavedBehind, Base
<1> QED BY <1>1, <1>2, <1>3, <1>4 DEF IInv

LEMMA StutterHolds ==
  ASSUME IInv, UNCHANGED vars
  PROVE  RecordsHeld' /\ WritingHeld' /\ SavedBehind'
<1>1. Base' = Base /\ NewId' = NewId
  BY DEF vars, Base, NewId
<1>2. RecordsHeld'
  BY <1>1, InvFacts, RecordsStay DEF vars
<1>3. WritingHeld'
  BY <1>1, InvFacts DEF vars, WritingHeld, SoFar
<1>4. SavedBehind'
  BY <1>1, InvFacts, Zenon DEF vars, SavedBehind
<1> QED BY <1>2, <1>3, <1>4

\* The inductive invariant of the log.
THEOREM LogInvariant == Spec => []IInv
<1>1. IInv /\ [Next]_vars => IInv'
  <2> SUFFICES ASSUME IInv, [Next]_vars PROVE RecordsHeld' /\ WritingHeld' /\ SavedBehind'
    BY NextTypeOK DEF IInv
  <2>1. CASE \E j \in 1..Capacity : MarkSent(j)
    BY <2>1, MarkHolds
  <2> QED BY <2>1, TakeHolds, HeadHolds, TailHolds, CountHolds, SaveHolds, CrashHolds, StutterHolds DEF Next
<1> QED BY <1>1, InitHolds, PTL DEF Spec

\* The types of the log's state (datalogger.c).
THEOREM LogTypeCorrect == Spec => []TypeOK
  BY LogInvariant, PTL DEF IInv

\* A record of the newest is where the readers look for it.
LEMMA NewestHeld ==
  ASSUME IInv, pc = "idle", NEW j \in 1..Capacity, j <= Len(log), Nth(log, j).ok
  PROVE  /\ Place(j) \in Cells
         /\ Holds(cell, Place(j), Nth(log, j))
         /\ \A k \in 0..ItemSize-1 :
              ByteAddress(Place(j), k) = RingAddress(Place(j), k) /\ ByteAddress(Place(j), k) \in Cells
<1>1. j \in 1..Capacity + unsaved /\ j \in 1..Capacity + MaxUnsaved
  BY InvFacts
<1>2. Place(j) = BackBy(Base, j) /\ Base \in Places
  BY InvFacts DEF Place, Base
<1>3. Place(j) \in Cells
  BY <1>1, <1>2, LiveOnChip
<1>4. Holds(cell, Place(j), Nth(log, j))
  BY <1>1, <1>2, InvFacts DEF RecordsHeld
<1> QED BY <1>3, <1>4, BytesInTheirPlace, RingOnChip

\* Read backwards from END, the newest records are those that dl_task_store_data
\* has stored, unless the bus failed while it did: whatever resets, half written
\* records and wraps of the ring came after them.
THEOREM NewestRecordsKept == Spec => []NewestRecordsIntact
<1>1. IInv => NewestRecordsIntact
  <2> SUFFICES ASSUME IInv, pc = "idle", NEW j \in 1..Capacity, j <= Len(log), Nth(log, j).ok
               PROVE  Reads(Place(j), Nth(log, j).id)
    BY DEF NewestRecordsIntact, Nth
  <2>1. \A k \in 0..ItemSize-1 : cell[RingAddress(Place(j), k)] \in ByteOf(Nth(log, j).id, k)
    BY NewestHeld DEF Holds
  <2> QED BY <2>1, NewestHeld DEF Reads, ByteOf
<1> QED BY <1>1, LogInvariant, PTL

\* A record that send_data_with_post has marked keeps its mark, and no other record
\* gets it, unless its flag lies behind the end of the ring.
THEOREM MarksKept == Spec => []FlagsFollowMarks
<1>1. IInv => FlagsFollowMarks
  <2> SUFFICES ASSUME IInv, pc = "idle", NEW j \in 1..Capacity, j <= Len(log), Nth(log, j).ok,
                      FlagAddress(Place(j)) < Last
               PROVE  Flagged(Place(j), Nth(log, j).id) <=> Nth(log, j).sent
    BY DEF FlagsFollowMarks, Nth
  <2>1. ItemSize - 1 \in 0..ItemSize-1
    BY Sizes
  <2>2. ByteAddress(Place(j), ItemSize - 1) = RingAddress(Place(j), ItemSize - 1)
        /\ ByteAddress(Place(j), ItemSize - 1) \in Cells
    BY <2>1, NewestHeld
  <2>3. cell[RingAddress(Place(j), ItemSize - 1)] = <<Nth(log, j).id, ItemSize>> <=> Nth(log, j).sent
    BY NewestHeld DEF Holds, FlagAddress
  <2> QED BY <2>2, <2>3 DEF Flagged
<1> QED BY <1>1, LogInvariant, PTL
=============================================================================
