---------------------------- MODULE ReceiveProofs ----------------------------
(***************************************************************************)
(* Proofs about the receive path of the modem's line.                      *)
(*                                                                         *)
(* UsartRing, for a ring of any length and any number of interrupts        *)
(* between two accesses.  Since a flush sets the head to 0, the ring has   *)
(* either not come round since then (Straight) or holds nothing that is    *)
(* older (Wrapped); the tail may be moved by either side while GetByte     *)
(* holds a copy of it only in the second case, where every tail will do.   *)
(* Which byte comes next is told by Order: for each place GetByte may be   *)
(* at, how far the interrupt can have moved the tail from its copy.        *)
(*                                                                         *)
(* AnswerText, for every dictionary, every text and every reply of the     *)
(* form that AnswerTextAssumption states.  A word that may be standing     *)
(* behind a symbol of no word is matched from there (Followed), since that *)
(* symbol has set its pointer back; the buffer of a line is what has come  *)
(* of the reply (Gathered), so that its fifth symbol tells how many the    *)
(* flush has taken.                                                        *)
(***************************************************************************)
EXTENDS UsartRing, AnswerText, SequenceTheorems, TLAPS

\* Below the head the bytes are in order,
Below == \A i \in 0..(head - 1) : rx[i] = sent + 1 - (head - i)
\* and from the head on, when the ring has come round.
Full == \A i \in head..(Size - 1) : rx[i] = sent + 1 - (head - i + Size)

Straight ==
  /\ tail <= head /\ sent - mark >= head
  /\ pc = "compare" => tail <= copy /\ copy <= head
  /\ pc \in {"index", "byte", "step"} => tail < head
  /\ pc \in {"byte", "step", "write"} => copy < head

Wrapped == Full /\ sent - mark >= Size

SinceFlush ==
  ~torn => IF pc = "flush" THEN tail = 0 /\ mark = sent ELSE Straight \/ Wrapped

Typed ==
  /\ rx \in [Indices -> Int]
  /\ head \in Indices /\ tail \in Indices /\ copy \in Indices
  /\ sent \in Nat /\ mark \in Nat
  /\ pc \in {"idle", "compare", "index", "byte", "step", "write", "flush"}

IInv == Typed /\ Below /\ SinceFlush

-----------------------------------------------------------------------------
LEMMA SizeTyped == Size \in Nat /\ Size > 1 /\ 0 \in Indices /\ Indices = 0..(Size - 1)
  BY UsartRingAssumption DEF Indices

LEMMA AfterIs ==
  ASSUME NEW i \in Indices
  PROVE  /\ After(i) \in Indices
         /\ After(i) = 0 <=> i = Size - 1
         /\ i # Size - 1 => After(i) = i + 1
  BY SizeTyped DEF After

LEMMA InitInv == Init => IInv
<1> SUFFICES ASSUME Init PROVE IInv
  OBVIOUS
<1>1. Typed
  BY SizeTyped DEF Init, Typed
<1>2. Below
  BY DEF Init, Below
<1>3. SinceFlush
  BY DEF Init, SinceFlush, Straight
<1> QED BY <1>1, <1>2, <1>3 DEF IInv

-----------------------------------------------------------------------------
\* A byte is received.
LEMMA ReceiveInv ==
  ASSUME IInv, Receive
  PROVE  IInv'
<1> USE SizeTyped DEF IInv
<1>1. /\ head' = After(head) /\ head' \in Indices /\ sent' = sent + 1
      /\ rx' = [rx EXCEPT ![head] = sent + 1]
      /\ tail' = (IF After(head) = tail THEN After(After(head)) ELSE tail)
      /\ pc' = pc /\ copy' = copy /\ mark' = mark
  BY AfterIs DEF Receive, main, TailAfter, Typed
<1>2. tail' \in Indices
  BY <1>1, AfterIs DEF Typed
<1>3. Typed'
  BY <1>1, <1>2 DEF Typed
<1>4. \A i \in Indices : rx'[i] = IF i = head THEN sent + 1 ELSE rx[i]
  BY <1>1 DEF Typed
<1>5. CASE head # Size - 1
  <2>1. head' = head + 1 /\ head \in 0..(Size - 2)
    BY <1>1, <1>5, AfterIs DEF Typed
  <2>2. Below'
    <3> SUFFICES ASSUME NEW i \in 0..(head' - 1) PROVE rx'[i] = sent' + 1 - (head' - i)
      BY DEF Below
    <3>1. i \in Indices /\ i \in 0..head
      BY <2>1
    <3>2. CASE i = head
      BY <1>1, <1>4, <2>1, <3>1, <3>2 DEF Typed
    <3>3. CASE i # head
      <4>1. i \in 0..(head - 1) /\ rx'[i] = rx[i]
        BY <1>4, <2>1, <3>1, <3>3
      <4> QED BY <1>1, <2>1, <4>1 DEF Below, Typed
    <3> QED BY <3>2, <3>3
  <2>3. Full => Full'
    <3> SUFFICES ASSUME Full, NEW i \in head'..(Size - 1)
                 PROVE  rx'[i] = sent' + 1 - (head' - i + Size)
      BY DEF Full
    <3>1. i \in Indices /\ i # head /\ i \in head..(Size - 1)
      BY <2>1
    <3> QED BY <1>1, <1>4, <2>1, <3>1 DEF Full, Typed
  <2>4. ASSUME ~torn', Straight PROVE Straight'
    <3>1. tail' = tail
      BY <1>1, <2>1, <2>4 DEF Straight, Typed
    <3> QED BY <1>1, <2>1, <2>4, <3>1 DEF Straight, Typed
  <2>5. Wrapped => Wrapped'
    BY <1>1, <2>3 DEF Wrapped, Typed
  <2>6. SinceFlush'
    BY <1>1, <2>4, <2>5 DEF SinceFlush, Receive
  <2> QED BY <1>3, <2>2, <2>6
<1>6. CASE head = Size - 1
  <2>1. head' = 0
    BY <1>1, <1>6, AfterIs DEF Typed
  <2>2. Below'
    BY <2>1 DEF Below
  <2>3. Full'
    <3> SUFFICES ASSUME NEW i \in 0..(Size - 1) PROVE rx'[i] = sent' + 1 - (0 - i + Size)
      BY <2>1 DEF Full
    <3>1. CASE i = head
      BY <1>1, <1>4, <1>6, <3>1 DEF Typed
    <3>2. CASE i # head
      <4>1. i \in 0..(head - 1) /\ rx'[i] = rx[i] /\ i \in Indices
        BY <1>4, <1>6, <3>2
      <4> QED BY <1>1, <1>6, <4>1 DEF Below, Typed
    <3> QED BY <3>1, <3>2
  <2>4. ~torn' => ~torn /\ pc # "flush"
    BY DEF Receive
  <2>5. ~torn' => sent' - mark' >= Size
    BY <1>1, <1>6, <2>4 DEF SinceFlush, Straight, Wrapped, Typed
  <2>6. SinceFlush'
    BY <1>1, <2>3, <2>4, <2>5 DEF SinceFlush, Wrapped
  <2> QED BY <1>3, <2>2, <2>6
<1> QED BY <1>5, <1>6

\* A step of GetByte or of the test before it changes nothing but the copy and, at
\* its end, the tail.
LEMMA MainInv ==
  ASSUME IInv, UNCHANGED <<rx, head, sent, mark, torn>>,
         pc # "flush", pc' # "flush",
         Typed', ~torn /\ Straight => Straight'
  PROVE  IInv'
<1>1. Below' /\ (Full => Full')
  BY DEF IInv, Below, Full
<1>2. Wrapped => Wrapped'
  BY <1>1 DEF Wrapped
<1>3. SinceFlush'
  BY <1>2 DEF IInv, SinceFlush
<1> QED BY <1>1, <1>3 DEF IInv

LEMMA ReadHeadInv == IInv /\ ReadHead => IInv'
<1> SUFFICES ASSUME IInv, ReadHead PROVE IInv'
  OBVIOUS
<1> USE SizeTyped DEF IInv, ReadHead
<1>1. Typed'
  BY DEF Typed
<1>2. Straight => Straight'
  BY DEF Straight, Typed
<1> QED BY <1>1, <1>2, MainInv

LEMMA CompareInv == IInv /\ Compare => IInv'
<1> SUFFICES ASSUME IInv, Compare PROVE IInv'
  OBVIOUS
<1> USE SizeTyped DEF IInv, Compare
<1>1. Typed'
  BY DEF Typed
<1>2. Straight => Straight'
  BY DEF Straight, Typed
<1> QED BY <1>1, <1>2, MainInv

LEMMA ReadTailInv == IInv /\ ReadTail => IInv'
<1> SUFFICES ASSUME IInv, ReadTail PROVE IInv'
  OBVIOUS
<1> USE SizeTyped DEF IInv, ReadTail
<1>1. Typed'
  BY DEF Typed
<1>2. Straight => Straight'
  BY DEF Straight, Typed
<1> QED BY <1>1, <1>2, MainInv

LEMMA ReadByteInv == IInv /\ ReadByte => IInv'
<1> SUFFICES ASSUME IInv, ReadByte PROVE IInv'
  OBVIOUS
<1> USE SizeTyped DEF IInv, ReadByte
<1>1. Typed'
  BY DEF Typed
<1>2. Straight => Straight'
  BY DEF Straight, Typed
<1> QED BY <1>1, <1>2, MainInv

LEMMA WriteTailInv == IInv /\ WriteTail => IInv'
<1> SUFFICES ASSUME IInv, WriteTail PROVE IInv'
  OBVIOUS
<1> USE SizeTyped DEF IInv, WriteTail
<1>1. copy \in Indices /\ head \in Indices
  BY DEF Typed
<1>2. Typed'
  BY <1>1, AfterIs DEF Typed
<1>3. Straight => Straight'
  <2> SUFFICES ASSUME Straight PROVE Straight'
    OBVIOUS
  <2>1. copy < head
    BY DEF Straight
  <2>2. tail' = copy + 1
    BY <1>1, <2>1, AfterIs
  <2> QED BY <1>1, <2>1, <2>2 DEF Straight
<1> QED BY <1>2, <1>3, MainInv

LEMMA FlushInv == IInv /\ (FlushTail \/ FlushHead) => IInv'
<1> SUFFICES ASSUME IInv, FlushTail \/ FlushHead PROVE IInv'
  OBVIOUS
<1> USE SizeTyped DEF IInv
<1>1. CASE FlushTail
  <2> USE <1>1 DEF FlushTail, FlushedTail
  <2>1. Typed'
    BY DEF Typed
  <2>2. Below' /\ SinceFlush'
    BY DEF Below, SinceFlush
  <2> QED BY <2>1, <2>2
<1>2. CASE FlushHead
  <2> USE <1>2 DEF FlushHead, FlushedHead
  <2>1. Typed'
    BY DEF Typed
  <2>2. Below'
    BY DEF Below
  <2>3. SinceFlush'
    BY DEF SinceFlush, Straight, Typed
  <2> QED BY <2>1, <2>2, <2>3
<1> QED BY <1>1, <1>2

THEOREM Inductive == Spec => []IInv
<1>1. IInv /\ [Next]_vars => IInv'
  <2> SUFFICES ASSUME IInv, [Next]_vars PROVE IInv'
    OBVIOUS
  <2>1. CASE UNCHANGED vars
    BY <2>1 DEF IInv, Typed, Below, Full, SinceFlush, Straight, Wrapped, vars
  <2> QED BY <2>1, ReceiveInv, ReadHeadInv, CompareInv, ReadTailInv, ReadByteInv,
             WriteTailInv, FlushInv DEF Next
<1> QED BY <1>1, InitInv, PTL DEF Spec

-----------------------------------------------------------------------------
\* Where the unread bytes lie, and their age.
LEMMA UnreadInOrder ==
  ASSUME IInv, ~torn, NEW i \in Unread
  PROVE  /\ i \in Indices /\ Age(i) \in Nat /\ rx[i] = sent + 1 - Age(i)
         /\ pc # "flush" => Age(i) <= sent - mark
<1> USE SizeTyped DEF IInv
<1>1. i \in Indices
  BY DEF Unread, Typed
<1>2. CASE i < head
  <2>1. i \in 0..(head - 1) /\ Age(i) = head - i
    BY <1>1, <1>2 DEF Age, Typed
  <2>2. rx[i] = sent + 1 - Age(i)
    BY <2>1 DEF Below
  <2>3. pc # "flush" => sent - mark >= head
    BY DEF SinceFlush, Straight, Wrapped, Typed
  <2> QED BY <1>1, <2>1, <2>2, <2>3 DEF Typed
<1>3. CASE i >= head
  <2>1. tail > head /\ i \in head..(Size - 1) /\ Age(i) = head - i + Size
    BY <1>1, <1>3 DEF Unread, Age, Typed
  <2>2. pc # "flush" /\ Wrapped
    BY <2>1 DEF SinceFlush, Straight, Typed
  <2> QED BY <1>1, <2>1, <2>2 DEF Wrapped, Full, Typed
<1> QED BY <1>1, <1>2, <1>3 DEF Typed

\* However many interrupts come between the accesses of GetByte, the ring holds the
\* newest bytes in their order.
THEOREM NewestUnread == Spec => []UnreadIsNewest
<1>1. IInv => UnreadIsNewest
  BY UnreadInOrder DEF UnreadIsNewest
<1> QED BY <1>1, Inductive, PTL

\* What was received before a flush is not read after it.
THEOREM FlushIsComplete == Spec => []FlushForgets
<1>1. IInv => FlushForgets
  <2> SUFFICES ASSUME IInv, pc = "idle", ~torn, NEW i \in Unread PROVE rx[i] > mark
    BY DEF FlushForgets
  <2> QED BY UnreadInOrder DEF IInv, Typed
<1> QED BY <1>1, Inductive, PTL
-----------------------------------------------------------------------------
(***************************************************************************)
(* The order in which GetByte delivers.                                    *)
(***************************************************************************)

\* How many bytes are unread, and the number of the one that is due.
Waiting == IF tail <= head THEN head - tail ELSE head - tail + Size
Due == sent + 1 - Waiting

OrderTyped ==
  /\ \A i \in Indices : rx[i] <= sent
  /\ ans \in Int /\ ans <= sent /\ got \in Int /\ got <= sent
  /\ hits \in Nat
  /\ ~Reading => "during" \notin gap
  /\ pc \in {"index", "byte", "step", "write"} => head # tail
  /\ pc = "compare" => copy = head \/ head # tail
  /\ pc = "flush" => gap # {}

\* Between two calls the byte due is newer than the last one returned,
DueNext == got < Due /\ (gap = {} => Due = got + 1)

\* and so is the one that the copy of the tail points at, though an interrupt has
\* moved the tail by one,
ByteNext ==
  \/ "during" \notin gap /\ tail = copy /\ DueNext
  \/ "during" \in gap /\ hits > 0 /\ tail = After(copy) /\ head = copy /\ got < Due - 1

\* and the byte that has been read.
AnsNext == got < ans /\ (gap = {} => ans = got + 1)
AnsDue == ans <= Due /\ ("during" \notin gap => ans = Due)

\* The byte due when the copy is written back will be newer than that.
CopyNext ==
  \/ tail = copy /\ AnsDue
  \/ "during" \in gap /\ tail = After(copy) /\ head = copy /\ ans < Due
  \/ "during" \in gap /\ hits > 0 /\ head = After(copy)

Order ==
  ~torn /\ ~outrun =>
    /\ pc \in {"idle", "compare", "index"} => DueNext
    /\ pc = "byte" => ByteNext
    /\ pc \in {"step", "write"} => AnsNext
    /\ pc = "step" => AnsDue
    /\ pc = "write" => CopyNext

LEMMA OrderInit == Init => OrderTyped /\ Order
<1> SUFFICES ASSUME Init PROVE OrderTyped /\ Order
  OBVIOUS
<1>1. /\ rx = [i \in Indices |-> i + 1 - Size] /\ head = 0 /\ tail = 0 /\ sent = 0
      /\ pc = "idle" /\ ans = 0 /\ got = 0 /\ hits = 0 /\ gap = {}
  BY DEF Init
<1>2. OrderTyped
  <2>1. \A i \in Indices : rx[i] <= sent
    BY <1>1, SizeTyped
  <2> QED BY <1>1, <2>1 DEF OrderTyped, Reading
<1>3. DueNext
  BY <1>1 DEF DueNext, Due, Waiting
<1> QED BY <1>1, <1>2, <1>3 DEF Order

\* A byte that finds room leaves the one that is due, one that does not moves the
\* tail to the next.
LEMMA ReceiveDue ==
  ASSUME Typed, Receive
  PROVE  /\ Due \in Int /\ sent' = sent + 1 /\ head' = After(head) /\ head' # tail'
         /\ After(head) # tail => tail' = tail /\ gap' = gap /\ Due' = Due
         /\ After(head) = tail =>
              /\ head' = tail /\ tail' = After(tail) /\ Due' = Due + 1
              /\ gap' = gap \cup {IF Reading THEN "during" ELSE "before"}
<1> USE SizeTyped
<1>1. head \in Indices /\ tail \in Indices /\ sent \in Nat
  BY DEF Typed
<1>2. /\ head' = After(head) /\ sent' = sent + 1
      /\ tail' = (IF After(head) = tail THEN After(After(head)) ELSE tail)
      /\ gap' = gap \cup (IF tail' = tail THEN {}
                          ELSE {IF Reading THEN "during" ELSE "before"})
  BY DEF Receive, TailAfter
<1>3. After(tail) # tail
  BY <1>1, AfterIs
<1>4. Due \in Int
  BY <1>1 DEF Due, Waiting
<1>5. CASE After(head) # tail
  <2>1. tail' = tail /\ gap' = gap
    BY <1>2, <1>5
  <2>2. Due' = Due
    BY <1>1, <1>2, <1>5, <2>1, SizeTyped DEF Due, Waiting, After
  <2> QED BY <1>2, <1>4, <1>5, <2>1, <2>2
<1>6. CASE After(head) = tail
  <2>1. tail' = After(tail) /\ head' = tail
    BY <1>2, <1>6
  <2>2. gap' = gap \cup {IF Reading THEN "during" ELSE "before"}
    BY <1>2, <1>3, <2>1
  <2>3. Due' = Due + 1
    BY <1>1, <1>2, <1>6, <2>1, SizeTyped DEF Due, Waiting, After
  <2> QED BY <1>2, <1>3, <1>4, <1>6, <2>1, <2>2, <2>3
<1> QED BY <1>5, <1>6

LEMMA ReceiveOrder == IInv /\ OrderTyped /\ Order /\ Receive => OrderTyped' /\ Order'
<1> SUFFICES ASSUME IInv, OrderTyped, Order, Receive PROVE OrderTyped' /\ Order'
  OBVIOUS
<1>1. Typed
  BY DEF IInv
<1>2. /\ pc' = pc /\ copy' = copy /\ ans' = ans /\ got' = got
      /\ rx' = [rx EXCEPT ![head] = sent + 1]
      /\ hits' = (IF pc = "idle" THEN 0 ELSE hits + 1)
      /\ torn' = (torn \/ pc = "flush")
      /\ outrun' = (outrun \/ (Reading /\ "during" \in gap /\ hits > 0))
  BY DEF Receive, main
<1>3. /\ Due \in Int /\ sent' = sent + 1 /\ head' = After(head) /\ head' # tail'
      /\ After(head) # tail => tail' = tail /\ gap' = gap /\ Due' = Due
      /\ After(head) = tail =>
           /\ head' = tail /\ tail' = After(tail) /\ Due' = Due + 1
           /\ gap' = gap \cup {IF Reading THEN "during" ELSE "before"}
  BY <1>1, ReceiveDue
<1>4. Reading' <=> Reading
  BY <1>2 DEF Reading
<1>5. OrderTyped'
  <2>1. \A i \in Indices : rx'[i] <= sent'
    BY <1>1, <1>2, <1>3 DEF OrderTyped, Typed
  <2>2. /\ ans' \in Int /\ ans' <= sent' /\ got' \in Int /\ got' <= sent'
        /\ hits' \in Nat
    BY <1>1, <1>2, <1>3 DEF OrderTyped, Typed
  <2>3. ~Reading' => "during" \notin gap'
    BY <1>3, <1>4 DEF OrderTyped
  <2>4. pc' = "flush" => gap' # {}
    BY <1>2, <1>3 DEF OrderTyped
  <2> QED BY <1>2, <1>3, <2>1, <2>2, <2>3, <2>4 DEF OrderTyped
<1>6. /\ got \in Int /\ ans \in Int /\ ans <= sent /\ hits \in Nat /\ sent \in Nat
      /\ head \in Indices /\ tail \in Indices /\ copy \in Indices
  BY <1>1 DEF OrderTyped, Typed
<1>7. ASSUME ~torn', ~outrun'
      PROVE  /\ pc \in {"idle", "compare", "index"} => DueNext'
             /\ pc = "byte" => ByteNext'
             /\ pc \in {"step", "write"} => AnsNext'
             /\ pc = "step" => AnsDue'
             /\ pc = "write" => CopyNext'
  <2>1. ~torn /\ ~outrun /\ pc # "flush" /\ ~(Reading /\ "during" \in gap /\ hits > 0)
    BY <1>2, <1>7
  <2>2. gap' = {} => gap = {} /\ After(head) # tail
    BY <1>3
  <2>3. ASSUME pc \in {"idle", "compare", "index"} PROVE DueNext'
    <3>1. DueNext
      BY <2>1, <2>3 DEF Order
    <3> QED BY <1>2, <1>3, <1>6, <2>2, <3>1 DEF DueNext
  <2>4. ASSUME pc = "byte" PROVE ByteNext'
    <3>1. "during" \notin gap /\ tail = copy /\ DueNext
      BY <2>1, <2>4 DEF Order, ByteNext, Reading
    <3>2. CASE After(head) # tail
      <4>1. "during" \notin gap' /\ tail' = copy'
        BY <1>2, <1>3, <3>1, <3>2
      <4>2. DueNext'
        BY <1>2, <1>3, <1>6, <2>2, <3>1 DEF DueNext
      <4> QED BY <4>1, <4>2 DEF ByteNext
    <3>3. CASE After(head) = tail
      <4>1. "during" \in gap' /\ tail' = After(copy)' /\ head' = copy'
        BY <1>2, <1>3, <2>4, <3>1, <3>3 DEF Reading, After
      <4>2. hits' > 0 /\ got' < Due' - 1
        BY <1>2, <1>3, <1>6, <2>4, <3>1, <3>3 DEF DueNext
      <4> QED BY <4>1, <4>2 DEF ByteNext
    <3> QED BY <3>2, <3>3
  <2>5. ASSUME pc \in {"step", "write"} PROVE AnsNext'
    BY <1>2, <2>1, <2>2, <2>5 DEF Order, AnsNext
  <2>6. ASSUME pc \in {"step", "write"}, AnsDue PROVE AnsDue'
    <3>1. Reading
      BY <2>6 DEF Reading
    <3> QED BY <1>2, <1>3, <1>6, <2>6, <3>1 DEF AnsDue
  <2>7. ASSUME pc = "write" PROVE CopyNext'
    <3>1. Reading /\ CopyNext
      BY <2>1, <2>7 DEF Order, Reading
    <3>2. CASE tail = copy /\ AnsDue /\ After(head) # tail
      <4>1. AnsDue' /\ tail' = copy'
        BY <1>2, <1>3, <2>6, <2>7, <3>2
      <4> QED BY <4>1 DEF CopyNext
    <3>3. CASE tail = copy /\ AnsDue /\ After(head) = tail
      <4>1. "during" \in gap' /\ tail' = After(copy)' /\ head' = copy'
        BY <1>2, <1>3, <3>1, <3>3 DEF After
      <4>2. ans' < Due'
        BY <1>2, <1>3, <1>6, <3>3 DEF AnsDue
      <4> QED BY <4>1, <4>2 DEF CopyNext
    <3>4. CASE "during" \in gap /\ tail = After(copy) /\ head = copy
      <4>1. "during" \in gap' /\ head' = After(copy)'
        BY <1>2, <1>3, <3>1, <3>4 DEF After
      <4>2. hits' > 0
        BY <1>2, <1>6, <2>7
      <4> QED BY <4>1, <4>2 DEF CopyNext
    <3> QED BY <2>1, <3>1, <3>2, <3>3, <3>4 DEF CopyNext
  <2> QED BY <2>1, <2>3, <2>4, <2>5, <2>6, <2>7 DEF Order
<1> QED BY <1>2, <1>5, <1>7 DEF Order

\* The byte that the tail points at is the one that is due.
LEMMA DueIsRead ==
  ASSUME IInv, ~torn, head # tail
  PROVE  rx[tail] = Due
<1> USE SizeTyped DEF IInv
<1>1. tail \in Unread /\ Age(tail) = Waiting
  BY DEF Unread, Age, Waiting, Typed
<1> QED BY <1>1, UnreadInOrder DEF Due

LEMMA ReadByteOrder == IInv /\ OrderTyped /\ Order /\ ReadByte => OrderTyped' /\ Order'
<1> SUFFICES ASSUME IInv, OrderTyped, Order, ReadByte PROVE OrderTyped' /\ Order'
  OBVIOUS
<1>1. /\ pc = "byte" /\ ans' = rx[copy] /\ pc' \in {"step", "write"} /\ hits' = 0
      /\ UNCHANGED <<rx, head, tail, sent, copy, got, mark, gap, torn, outrun>>
  BY DEF ReadByte
<1>2. /\ rx \in [Indices -> Int] /\ sent \in Nat /\ got \in Int
      /\ head \in Indices /\ tail \in Indices /\ copy \in Indices
  BY DEF IInv, Typed, OrderTyped
<1>3. rx[copy] \in Int /\ rx[copy] <= sent
  BY <1>2 DEF OrderTyped
<1>4. OrderTyped'
  <2>1. \A i \in Indices : rx'[i] <= sent'
    BY <1>1 DEF OrderTyped
  <2>2. ans' \in Int /\ ans' <= sent' /\ got' \in Int /\ got' <= sent' /\ hits' \in Nat
    BY <1>1, <1>3 DEF OrderTyped
  <2>3. Reading' /\ head' # tail'
    BY <1>1 DEF OrderTyped, Reading
  <2> QED BY <1>1, <2>1, <2>2, <2>3 DEF OrderTyped
<1>5. ASSUME ~torn, ~outrun PROVE AnsNext' /\ AnsDue' /\ CopyNext'
  <2>1. ByteNext /\ Due' = Due /\ Due \in Int
    BY <1>1, <1>2, <1>5, SizeTyped DEF Order, Due, Waiting
  <2>2. CASE "during" \notin gap /\ tail = copy /\ DueNext
    <3>1. ans' = Due
      BY <1>1, <1>5, <2>2, DueIsRead DEF OrderTyped
    <3> QED BY <1>1, <2>1, <2>2, <3>1 DEF DueNext, AnsNext, AnsDue, CopyNext
  <2>3. CASE "during" \in gap /\ tail = After(copy) /\ head = copy /\ got < Due - 1
    <3>1. Wrapped
      <4>1. ~Straight
        BY <1>1, <1>2, <2>3, SizeTyped DEF Straight
      <4> QED BY <1>1, <1>5, <4>1 DEF IInv, SinceFlush
    <3>2. rx[copy] = sent + 1 - Size
      <4>1. copy \in head..(Size - 1)
        BY <1>2, <2>3, SizeTyped
      <4>2. rx[copy] = sent + 1 - (head - copy + Size)
        BY <3>1, <4>1 DEF Wrapped, Full
      <4> QED BY <1>2, <2>3, <4>2, SizeTyped
    <3>3. Due = sent + 1 - (Size - 1)
      BY <1>2, <2>3, SizeTyped DEF Due, Waiting, After
    <3>4. ans' = Due - 1
      BY <1>1, <1>2, <3>2, <3>3, SizeTyped
    <3>5. After(copy)' = After(copy)
      BY <1>1 DEF After
    <3> QED BY <1>1, <1>2, <2>1, <2>3, <3>4, <3>5 DEF AnsNext, AnsDue, CopyNext
  <2> QED BY <2>1, <2>2, <2>3 DEF ByteNext
<1> QED BY <1>1, <1>4, <1>5 DEF Order

LEMMA WriteTailOrder == IInv /\ OrderTyped /\ Order /\ WriteTail => OrderTyped' /\ Order'
<1> SUFFICES ASSUME IInv, OrderTyped, Order, WriteTail PROVE OrderTyped' /\ Order'
  OBVIOUS
<1>1. /\ pc = "write" /\ tail' = After(copy) /\ got' = ans /\ pc' = "idle" /\ hits' = 0
      /\ gap' = (IF "during" \in gap THEN {"before"} ELSE {})
      /\ UNCHANGED <<rx, head, sent, copy, ans, mark, torn, outrun>>
  BY DEF WriteTail
<1>2. /\ sent \in Nat /\ ans \in Int /\ ans <= sent
      /\ head \in Indices /\ tail \in Indices /\ copy \in Indices /\ head # tail
  BY <1>1 DEF IInv, Typed, OrderTyped
<1>3. OrderTyped'
  <2>1. \A i \in Indices : rx'[i] <= sent'
    BY <1>1 DEF OrderTyped
  <2>2. ans' \in Int /\ ans' <= sent' /\ got' \in Int /\ got' <= sent' /\ hits' \in Nat
    BY <1>1, <1>2
  <2>3. "during" \notin gap'
    BY <1>1
  <2> QED BY <1>1, <2>1, <2>2, <2>3 DEF OrderTyped
<1>4. ASSUME ~torn, ~outrun PROVE DueNext'
  <2>1. CopyNext /\ Due \in Int
    BY <1>1, <1>2, <1>4, SizeTyped DEF Order, Due, Waiting
  <2>2. CASE tail = copy /\ AnsDue
    <3>1. Due' = Due + 1
      BY <1>1, <1>2, <2>2, SizeTyped DEF Due, Waiting, After
    <3> QED BY <1>1, <1>2, <2>1, <2>2, <3>1 DEF AnsDue, DueNext
  <2>3. CASE "during" \in gap /\ tail = After(copy) /\ ans < Due
    <3>1. Due' = Due
      BY <1>1, <2>3 DEF Due, Waiting
    <3> QED BY <1>1, <2>3, <3>1 DEF DueNext
  <2>4. CASE "during" \in gap /\ head = After(copy)
    <3>1. Due' = sent + 1
      BY <1>1, <1>2, <2>4, SizeTyped DEF Due, Waiting
    <3> QED BY <1>1, <1>2, <2>4, <3>1 DEF DueNext
  <2> QED BY <2>1, <2>2, <2>3, <2>4 DEF CopyNext
<1> QED BY <1>1, <1>3, <1>4 DEF Order

\* The other accesses of the main loop change neither the ring nor what was read.
LEMMA AccessOrder ==
  IInv /\ OrderTyped /\ Order /\ (ReadHead \/ Compare \/ ReadTail) => OrderTyped' /\ Order'
<1> SUFFICES ASSUME IInv, OrderTyped, Order, ReadHead \/ Compare \/ ReadTail
             PROVE  OrderTyped' /\ Order'
  OBVIOUS
<1>1. /\ UNCHANGED <<rx, head, tail, sent, ans, got, mark, gap, torn, outrun>>
      /\ hits' = 0 /\ Due' = Due
  BY DEF ReadHead, Compare, ReadTail, Due, Waiting
<1>2. DueNext' = DueNext /\ AnsNext' = AnsNext /\ AnsDue' = AnsDue
  BY <1>1 DEF DueNext, AnsNext, AnsDue
<1>3. \/ pc = "idle" /\ pc' = "compare" /\ copy' = head
      \/ pc = "compare" /\ pc' = "idle"
      \/ pc = "compare" /\ pc' = "index" /\ copy # tail
      \/ pc = "index" /\ pc' = "byte" /\ copy' = tail
      \/ pc = "step" /\ pc' = "write" /\ copy' = tail
  BY DEF ReadHead, Compare, ReadTail
<1>4. OrderTyped'
  <2>1. \A i \in Indices : rx'[i] <= sent'
    BY <1>1 DEF OrderTyped
  <2>2. ans' \in Int /\ ans' <= sent' /\ got' \in Int /\ got' <= sent' /\ hits' \in Nat
    BY <1>1 DEF OrderTyped
  <2>3. pc' \in {"index", "byte", "step", "write"} => head # tail
    BY <1>3 DEF OrderTyped
  <2>4. ~Reading' => ~Reading
    BY <1>3 DEF Reading
  <2> QED BY <1>1, <1>3, <2>1, <2>2, <2>3, <2>4 DEF OrderTyped
<1>5. Order'
  <2> SUFFICES ASSUME ~torn, ~outrun
               PROVE  /\ pc' \in {"idle", "compare", "index"} => DueNext'
                      /\ pc' = "byte" => ByteNext'
                      /\ pc' \in {"step", "write"} => AnsNext'
                      /\ pc' = "step" => AnsDue'
                      /\ pc' = "write" => CopyNext'
    BY <1>1 DEF Order
  <2>1. CASE pc' \in {"idle", "compare", "index"}
    BY <1>2, <1>3, <2>1 DEF Order
  <2>2. CASE pc' = "byte"
    <3>1. DueNext' /\ "during" \notin gap' /\ tail' = copy'
      BY <1>1, <1>2, <1>3, <2>2 DEF Order, OrderTyped, Reading
    <3> QED BY <2>2, <3>1 DEF ByteNext
  <2>3. CASE pc' = "write"
    <3>1. AnsNext' /\ AnsDue' /\ tail' = copy'
      BY <1>1, <1>2, <1>3, <2>3 DEF Order
    <3> QED BY <2>3, <3>1 DEF CopyNext
  <2> QED BY <1>3, <2>1, <2>2, <2>3
<1> QED BY <1>4, <1>5

LEMMA FlushOrder ==
  IInv /\ OrderTyped /\ Order /\ (FlushTail \/ FlushHead) => OrderTyped' /\ Order'
<1> SUFFICES ASSUME IInv, OrderTyped, Order, FlushTail \/ FlushHead PROVE OrderTyped' /\ Order'
  OBVIOUS
<1>1. /\ UNCHANGED <<rx, sent, copy, ans, got>> /\ hits' = 0
      /\ pc' \in {"idle", "flush"} /\ "during" \notin gap' /\ gap' # {}
  BY DEF FlushTail, FlushHead, OrderTyped, Reading
<1>2. OrderTyped'
  <2>1. \A i \in Indices : rx'[i] <= sent'
    BY <1>1 DEF OrderTyped
  <2>2. ans' \in Int /\ ans' <= sent' /\ got' \in Int /\ got' <= sent' /\ hits' \in Nat
    BY <1>1 DEF OrderTyped
  <2> QED BY <1>1, <2>1, <2>2 DEF OrderTyped
<1>3. CASE FlushTail
  <2>1. pc' \notin {"idle", "compare", "index"} /\ pc' # "byte"
        /\ pc' \notin {"step", "write"} /\ pc' # "step" /\ pc' # "write"
    BY <1>3 DEF FlushTail
  <2> QED BY <1>2, <2>1, Zenon DEF Order
<1>4. CASE FlushHead
  <2>1. pc' = "idle" /\ UNCHANGED <<tail, torn>> /\ pc = "flush" /\ head' = 0
    BY <1>4 DEF FlushHead, FlushedHead
  <2>2. ~torn' => tail' = 0
    BY <2>1 DEF IInv, SinceFlush
  <2>3. ~torn' => Due' = sent + 1
    BY <1>1, <2>1, <2>2 DEF IInv, Typed, Due, Waiting
  <2>4. ~torn' => DueNext'
    BY <1>1, <2>3 DEF IInv, Typed, OrderTyped, DueNext
  <2>5. pc' # "byte" /\ pc' \notin {"step", "write"} /\ pc' # "step" /\ pc' # "write"
    BY <2>1
  <2> QED BY <1>2, <2>4, <2>5, Zenon DEF Order
<1> QED BY <1>2, <1>3, <1>4

LEMMA OrderNext == IInv /\ OrderTyped /\ Order /\ [Next]_vars => OrderTyped' /\ Order'
<1> SUFFICES ASSUME IInv, OrderTyped, Order, [Next]_vars PROVE OrderTyped' /\ Order'
  OBVIOUS
<1>1. CASE UNCHANGED vars
  BY <1>1 DEF OrderTyped, Order, Reading, DueNext, ByteNext, AnsNext, AnsDue, CopyNext, Due,
              Waiting, After, vars
<1> QED BY <1>1, ReceiveOrder, ReadByteOrder, WriteTailOrder, AccessOrder, FlushOrder DEF Next

LEMMA DeliveredStep ==
  OrderTyped /\ Order /\ [Next]_vars
    => [got' # got /\ ~torn /\ ~outrun =>
          got' > got /\ (gap = {} => got' = got + 1)]_vars
<1> SUFFICES ASSUME OrderTyped, Order, Next, got' # got, ~torn, ~outrun
             PROVE  got' > got /\ (gap = {} => got' = got + 1)
  OBVIOUS
<1>1. pc = "write" /\ got' = ans
  BY DEF Next, Receive, ReadHead, Compare, ReadTail, ReadByte, WriteTail, FlushTail, FlushHead,
         main
<1> QED BY <1>1 DEF Order, OrderTyped, AnsNext

\* GetByte delivers each byte at most once and in order, and skips none unless the
\* ring was full or flushed, for a ring of any length, as long as the interrupt does
\* not pass the full ring twice between two of its accesses.
THEOREM DeliveryInOrder == Spec => DeliveredInOrder
  BY InitInv, OrderInit, Inductive, OrderNext, DeliveredStep, PTL DEF Spec, DeliveredInOrder

-----------------------------------------------------------------------------
(***************************************************************************)
(* The readers.                                                            *)
(***************************************************************************)

\* What each reader starts from, and the words looked for.
ReaderTyped ==
  /\ text \in Line /\ n \in 0..Len(text)
  /\ words \in Seq(Line \ {<<>>})
  /\ p \in [DOMAIN words -> Nat]
  /\ buf \in Line
  /\ result \in {"", "found", "timeout", "200", "other"}

\* The symbols matched of word i are the last ones of the text that has come.
Matching(i) ==
  /\ p[i] <= n /\ p[i] <= Len(words[i])
  /\ \A k \in 1..p[i] : text[n - p[i] + k] = words[i][k]

\* What has come of the text from symbol j on is how word i begins.
Agrees(i, j) ==
  \A k \in 1..Len(words[i]) : j + k - 1 <= n => text[j + k - 1] = words[i][k]

\* No word is passed over: one that may be standing behind a symbol of no word is
\* matched from there.
Followed ==
  \A i \in DOMAIN words, j \in 2..(n + 1) :
    text[j - 1] \notin Symbols /\ Agrees(i, j) => p[i] = n - j + 1

WordInv ==
  reader = "word" =>
    /\ \A i \in DOMAIN words : Matching(i)
    /\ result # "found" => Followed /\ \A i \in DOMAIN words : p[i] < Len(words[i])
    /\ result = "found" => \E i \in DOMAIN words : p[i] = Len(words[i])

\* The text is what the flush has left of a reply, and the buffer what has come of
\* it: no line break stands before its fifth symbol.
Remains(a, k) ==
  /\ code = a.code /\ k <= Lost /\ Len(text) = Len(a.line) - k
  /\ \A i \in 1..Len(text) : text[i] = a.line[i + k]

Gathered == Len(buf) = n /\ \A i \in 1..n : buf[i] = text[i]

LineInv ==
  reader = "line" =>
    /\ \E a \in Replies, k \in Nat : Remains(a, k)
    /\ result = "" => Gathered
    /\ StatusNotForged

OnlyLines == reader # "line" => result # "200"

-----------------------------------------------------------------------------
LEMMA WordTyped ==
  ASSUME ReaderTyped, NEW i \in DOMAIN words
  PROVE  /\ words[i] \in Line /\ Len(words[i]) \in Nat \ {0} /\ p[i] \in Nat
         /\ \A k \in 1..Len(words[i]) : words[i][k] \in Symbols
<1>1. words[i] \in Line \ {<<>>} /\ p[i] \in Nat
  <2>1. words \in Seq(Line \ {<<>>}) /\ p \in [DOMAIN words -> Nat]
    BY DEF ReaderTyped
  <2>2. i \in 1..Len(words)
    BY <2>1, LenProperties
  <2>3. words[i] \in Line \ {<<>>}
    BY <2>1, <2>2, ElementOfSeq
  <2> QED BY <2>1, <2>3
<1>2. Len(words[i]) \in Nat \ {0}
  BY <1>1, EmptySeq DEF Line
<1>3. \A k \in 1..Len(words[i]) : words[i][k] \in ToSet(words[i])
  BY <1>1, LenProperties DEF ToSet, Line
<1> QED BY <1>1, <1>2, <1>3 DEF Symbols

\* What the flush leaves of a text.
LEMMA FlushedIs ==
  ASSUME NEW t \in Line, NEW s \in Flushed(t)
  PROVE  /\ s \in Line
         /\ \E k \in Nat : /\ k <= Lost /\ Len(s) = Len(t) - k
                           /\ \A i \in 1..Len(s) : s[i] = t[i + k]
<1>1. PICK k \in 0..(IF Lost < Len(t) THEN Lost ELSE Len(t)) : s = SubSeq(t, k + 1, Len(t))
  BY DEF Flushed
<1>2. Len(t) \in Nat /\ k \in Nat /\ k <= Lost /\ k <= Len(t)
  <2>1. Len(t) \in Nat /\ Lost \in Nat
    BY LenProperties, AnswerTextAssumption DEF Line
  <2> QED BY <1>1, <2>1
<1>3. \A i \in (k + 1)..Len(t) : t[i] \in STRING
  BY <1>2, ElementOfSeq DEF Line
<1>4. /\ s \in Line /\ Len(s) = (IF k + 1 <= Len(t) THEN Len(t) - (k + 1) + 1 ELSE 0)
      /\ \A i \in 1..(Len(t) - (k + 1) + 1) : s[i] = t[(k + 1) + i - 1]
  <2>1. k + 1 \in Int /\ Len(t) \in Int
    BY <1>2
  <2> QED BY <1>1, <1>3, <2>1, SubSeqProperties DEF Line
<1>5. Len(s) = Len(t) - k /\ \A i \in 1..Len(s) : s[i] = t[i + k]
  BY <1>2, <1>4
<1> QED BY <1>2, <1>4, <1>5

LEMMA ReaderInitInv == ReaderInit => ReaderTyped /\ WordInv /\ LineInv /\ OnlyLines
<1> SUFFICES ASSUME ReaderInit PROVE ReaderTyped /\ WordInv /\ LineInv /\ OnlyLines
  OBVIOUS
<1>1. PICK t \in Line : text \in Flushed(t)
  <2>1. \A u \in Answers : u \in Line
    BY AnswerTextAssumption
  <2>2. \A a \in Replies : a.line \in Line
    BY AnswerTextAssumption
  <2>3. \E u \in Answers \cup {a.line : a \in Replies} : text \in Flushed(u)
    BY DEF ReaderInit, Start
  <2> QED BY <2>1, <2>2, <2>3
<1>2. text \in Line /\ Len(text) \in Nat
  BY <1>1, FlushedIs, LenProperties DEF Line
<1>3. n = 0 /\ p = [i \in DOMAIN words |-> 0] /\ buf = <<>> /\ result = ""
  BY DEF ReaderInit, Start
<1>8. n = 0
  BY <1>3
<1>4. words \in Seq(Line \ {<<>>})
  <2>1. CASE words \in {<<Dictionary[i]>> : i \in DOMAIN Dictionary}
    <3>1. PICK i \in DOMAIN Dictionary : words = <<Dictionary[i]>>
      BY <2>1
    <3>2. Dictionary \in Seq(Line \ {<<>>})
      BY AnswerTextAssumption
    <3>3. i \in 1..Len(Dictionary)
      BY <3>2, LenProperties
    <3>4. Dictionary[i] \in Line \ {<<>>}
      BY <3>2, <3>3, ElementOfSeq
    <3> QED BY <3>1, <3>4
  <2>2. CASE words = Dictionary \/ words = <<>>
    BY <2>2, AnswerTextAssumption, EmptySeq
  <2> QED BY <2>1, <2>2 DEF ReaderInit
<1>5. ReaderTyped
  <2>1. p \in [DOMAIN words -> Nat]
    BY <1>3
  <2>3. n \in 0..Len(text)
    BY <1>2, <1>8
  <2>2. buf \in Line
    BY <1>3, EmptySeq DEF Line
  <2> QED BY <1>2, <1>3, <1>4, <2>1, <2>2, <2>3 DEF ReaderTyped
<1>6. WordInv
  <2>1. \A i \in DOMAIN words : Matching(i) /\ p[i] < Len(words[i])
    <3> SUFFICES ASSUME NEW i \in DOMAIN words PROVE Matching(i) /\ p[i] < Len(words[i])
      OBVIOUS
    <3>1. p[i] = 0 /\ Len(words[i]) \in Nat \ {0}
      BY <1>3, <1>5, WordTyped
    <3> QED BY <1>8, <3>1 DEF Matching
  <2>2. Followed
    <3>1. 2..(n + 1) = {}
      BY <1>8
    <3> QED BY <3>1 DEF Followed
  <2> QED BY <1>3, <2>1, <2>2 DEF WordInv
<1>7. LineInv
  <2> SUFFICES ASSUME reader = "line" PROVE LineInv
    BY DEF LineInv
  <2>1. PICK a \in Replies : code = a.code /\ text \in Flushed(a.line)
    BY DEF ReaderInit, Start
  <2>2. \E k \in Nat : Remains(a, k)
    BY <2>1, FlushedIs, AnswerTextAssumption DEF Remains
  <2>3. Gathered
    <3>1. 1..n = {}
      BY <1>8
    <3>2. Len(buf) = 0
      BY <1>3
    <3> QED BY <1>8, <3>2, <3>1 DEF Gathered
  <2> QED BY <1>3, <2>1, <2>2, <2>3 DEF LineInv, StatusNotForged
<1> QED BY <1>3, <1>5, <1>6, <1>7 DEF OnlyLines

-----------------------------------------------------------------------------
LEMMA PlaceTyped ==
  ASSUME ReaderTyped
  PROVE  text \in Seq(STRING) /\ Len(text) \in Nat /\ n \in Nat /\ n <= Len(text)
<1>1. text \in Seq(STRING) /\ n \in 0..Len(text)
  BY DEF ReaderTyped, Line
<1>2. Len(text) \in Nat
  BY <1>1, LenProperties
<1> QED BY <1>1, <1>2

\* The next symbol of the text is one.
LEMMA NextSymbol ==
  ASSUME ReaderTyped, n < Len(text)
  PROVE  text[n + 1] \in STRING /\ n + 1 \in 0..Len(text)
<1>1. text \in Seq(STRING) /\ n \in 0..Len(text) /\ Len(text) \in Nat
  BY LenProperties DEF ReaderTyped, Line
<1>2. n + 1 \in 1..Len(text)
  BY <1>1
<1> QED BY <1>1, <1>2, ElementOfSeq

LEMMA EndedIs ==
  ASSUME NEW b \in Line
  PROVE  /\ Ended(b) \in Line /\ Len(Ended(b)) <= Len(b)
         /\ \A i \in 1..Len(Ended(b)) : Ended(b)[i] = b[i]
<1>1. Len(b) \in Nat /\ Capacity \in Nat /\ Capacity >= 2
  BY LenProperties, AnswerTextAssumption DEF Line
<1>2. CASE Len(b) = Capacity
  <2>1. Ended(b) = SubSeq(b, 1, Len(b) - 1)
    BY <1>2 DEF Ended, Front
  <2>2. \A i \in 1..(Len(b) - 1) : b[i] \in STRING
    BY <1>1, ElementOfSeq DEF Line
  <2>3. 1 \in Int /\ Len(b) - 1 \in Int /\ 1 <= Len(b) - 1
    BY <1>1, <1>2
  <2>4. /\ SubSeq(b, 1, Len(b) - 1) \in Seq(STRING)
        /\ Len(SubSeq(b, 1, Len(b) - 1))
             = (IF 1 <= Len(b) - 1 THEN (Len(b) - 1) - 1 + 1 ELSE 0)
        /\ \A i \in 1..((Len(b) - 1) - 1 + 1) : SubSeq(b, 1, Len(b) - 1)[i] = b[1 + i - 1]
    BY <2>2, <2>3, SubSeqProperties
  <2>5. Len(Ended(b)) = Len(b) - 1 /\ \A i \in 1..Len(Ended(b)) : Ended(b)[i] = b[i]
    BY <1>1, <2>1, <2>3, <2>4
  <2> QED BY <1>1, <2>1, <2>4, <2>5 DEF Line
<1>3. CASE Len(b) # Capacity
  BY <1>1, <1>3 DEF Ended
<1> QED BY <1>2, <1>3

LEMMA ReaderTypedNext == ReaderTyped /\ [ReaderNext]_readerVars => ReaderTyped'
<1> SUFFICES ASSUME ReaderTyped, [ReaderNext]_readerVars PROVE ReaderTyped'
  OBVIOUS
<1>1. CASE UNCHANGED readerVars
  BY <1>1 DEF ReaderTyped, readerVars
<1>2. CASE TakeWord
  <2>1. text' = text /\ words' = words /\ buf' = buf /\ n' = n + 1
        /\ result' \in {"", "found"} /\ n < Len(text)
    BY <1>2 DEF TakeWord, fixed
  <2>2. \A i \in DOMAIN words : Matched(i, text[n + 1]) \in Nat
    BY WordTyped DEF Matched
  <2>3. p' = [i \in DOMAIN words |-> Matched(i, text[n + 1])]
    BY <1>2 DEF TakeWord
  <2>4. p' \in [DOMAIN words -> Nat]
    BY <2>2, <2>3
  <2> QED BY <2>1, <2>4, NextSymbol DEF ReaderTyped
<1>3. CASE TakeBreak
  BY <1>3, NextSymbol DEF TakeBreak, fixed, ReaderTyped
<1>4. CASE TakeSymbol \/ TakeByte
  <2>1. /\ text' = text /\ words' = words /\ p' = p /\ n' = n + 1 /\ result' = result
        /\ n < Len(text) /\ buf' = Append(buf, text[n + 1])
    BY <1>4 DEF TakeSymbol, TakeByte, fixed
  <2>2. buf \in Seq(STRING) /\ text[n + 1] \in STRING
    BY <2>1, NextSymbol DEF ReaderTyped, Line
  <2>3. buf' \in Line
    BY <2>1, <2>2 DEF Line
  <2> QED BY <2>1, <2>3, NextSymbol DEF ReaderTyped
<1>5. CASE EndLine
  <2>1. /\ text' = text /\ words' = words /\ p' = p /\ n' = n + 1
        /\ n < Len(text) /\ buf' = Ended(buf) /\ result' \in {"200", "other"}
    BY <1>5 DEF EndLine, fixed
  <2> QED BY <2>1, EndedIs, NextSymbol DEF ReaderTyped
<1>6. CASE EndData
  BY <1>6 DEF EndData, fixed, ReaderTyped
<1>7. CASE TimeOut
  <2>1. /\ text' = text /\ words' = words /\ p' = p /\ n' = n
        /\ buf' \in {buf, Ended(buf)} /\ result' \in {"200", "timeout"}
    BY <1>7 DEF TimeOut, fixed
  <2> QED BY <2>1, EndedIs DEF ReaderTyped
<1> QED BY <1>1, <1>2, <1>3, <1>4, <1>5, <1>6, <1>7 DEF ReaderNext

-----------------------------------------------------------------------------
(***************************************************************************)
(* The search for a word.                                                  *)
(***************************************************************************)

\* A symbol, for one of the words.
LEMMA MatchedIs ==
  ASSUME ReaderTyped, WordInv, TakeWord, NEW i \in DOMAIN words
  PROVE  /\ p[i] \in Nat /\ p[i] < Len(words[i]) /\ Len(words[i]) \in Nat
         /\ p'[i] = IF words[i][p[i] + 1] = text[n + 1] THEN p[i] + 1 ELSE 0
         /\ words[i][p[i] + 1] \in Symbols
         /\ p'[i] = Len(words[i]) <=> Complete(i, text[n + 1])
<1>1. /\ p[i] \in Nat /\ p[i] < Len(words[i]) /\ Len(words[i]) \in Nat
  BY WordTyped DEF WordInv, TakeWord
<1>2. p[i] + 1 \in 1..Len(words[i])
  BY <1>1
<1>3. p' = [j \in DOMAIN words |-> Matched(j, text[n + 1])]
  BY DEF TakeWord
<1>4. p'[i] = Matched(i, text[n + 1])
  BY <1>3
<1> QED BY <1>1, <1>2, <1>4, WordTyped DEF Matched, Complete

LEMMA TakeWordInv == ReaderTyped /\ WordInv /\ TakeWord => WordInv'
<1> SUFFICES ASSUME ReaderTyped, WordInv, TakeWord PROVE WordInv'
  OBVIOUS
<1>1. /\ reader = "word" /\ result = "" /\ n < Len(text) /\ n' = n + 1
      /\ text' = text /\ words' = words /\ reader' = reader
      /\ result' \in {"", "found"}
      /\ result' = "found" <=> \E i \in DOMAIN words : Complete(i, text[n + 1])
  BY DEF TakeWord, fixed
<1>2. n \in Nat
  BY PlaceTyped
<1>3. Followed /\ \A i \in DOMAIN words : Matching(i)
  BY <1>1 DEF WordInv
<1>4. ASSUME NEW i \in DOMAIN words PROVE Matching(i)'
  <2>1. /\ p[i] \in Nat /\ p[i] < Len(words[i]) /\ Len(words[i]) \in Nat
        /\ p'[i] = IF words[i][p[i] + 1] = text[n + 1] THEN p[i] + 1 ELSE 0
    BY <1>4, MatchedIs
  <2>2. p[i] <= n /\ \A k \in 1..p[i] : text[n - p[i] + k] = words[i][k]
    BY <1>3, <1>4 DEF Matching
  <2>3. CASE words[i][p[i] + 1] = text[n + 1]
    <3>1. p'[i] = p[i] + 1
      BY <2>1, <2>3
    <3>2. ASSUME NEW k \in 1..(p[i] + 1)
          PROVE  text[(n + 1) - (p[i] + 1) + k] = words[i][k]
      <4>1. (n + 1) - (p[i] + 1) + k = n - p[i] + k /\ n - p[i] + (p[i] + 1) = n + 1
        BY <1>2, <2>1
      <4>2. CASE k = p[i] + 1
        BY <2>3, <4>1, <4>2
      <4>3. CASE k # p[i] + 1
        <5>1. k \in 1..p[i]
          BY <2>1, <4>3
        <5> QED BY <2>2, <4>1, <5>1
      <4> QED BY <4>2, <4>3
    <3>3. p[i] + 1 <= n + 1 /\ p[i] + 1 <= Len(words[i])
      BY <1>2, <2>1, <2>2
    <3> QED BY <1>1, <3>1, <3>2, <3>3 DEF Matching
  <2>4. CASE words[i][p[i] + 1] # text[n + 1]
    <3>1. p'[i] = 0
      BY <2>1, <2>4
    <3>2. 1..0 = {} /\ 0 <= n + 1 /\ 0 <= Len(words[i])
      BY <1>2, <2>1
    <3> QED BY <1>1, <3>1, <3>2, Zenon DEF Matching
  <2> QED BY <2>3, <2>4
<1>5. ASSUME NEW i \in DOMAIN words, NEW j \in 2..(n + 2),
             text[j - 1] \notin Symbols, Agrees(i, j)'
      PROVE  p'[i] = n + 1 - j + 1
  <2>1. /\ p[i] \in Nat /\ p[i] < Len(words[i]) /\ Len(words[i]) \in Nat
        /\ p'[i] = IF words[i][p[i] + 1] = text[n + 1] THEN p[i] + 1 ELSE 0
        /\ words[i][p[i] + 1] \in Symbols
    BY <1>5, MatchedIs
  <2>2. \A k \in 1..Len(words[i]) : j + k - 1 <= n + 1 => text[j + k - 1] = words[i][k]
    BY <1>1, <1>5 DEF Agrees
  <2>3. CASE j = n + 2
    <3>1. j - 1 = n + 1
      BY <1>2, <2>3
    <3>2. p'[i] = 0
      BY <1>5, <2>1, <3>1
    <3> QED BY <1>2, <2>3, <3>2
  <2>4. CASE j # n + 2
    <3>1. j \in 2..(n + 1)
      BY <1>2, <2>4
    <3>2. Agrees(i, j)
      BY <1>2, <2>1, <2>2, <3>1 DEF Agrees
    <3>3. p[i] = n - j + 1
      BY <1>3, <1>5, <3>1, <3>2 DEF Followed
    <3>4. p[i] + 1 \in 1..Len(words[i]) /\ j + (p[i] + 1) - 1 = n + 1
      BY <1>2, <2>1, <3>1, <3>3
    <3>5. text[n + 1] = words[i][p[i] + 1]
      BY <1>2, <2>2, <3>4
    <3> QED BY <1>2, <2>1, <3>1, <3>3, <3>5
  <2> QED BY <2>3, <2>4
<1>6. Followed'
  <2>1. Symbols' = Symbols
    BY <1>1, Zenon DEF Symbols
  <2>4. n' = n + 1
    BY <1>1, Zenon
  <2>2. n' + 1 = n + 2
    BY <1>2, <2>4
  <2>3. \A i \in DOMAIN words, j \in 2..(n' + 1) :
          text[j - 1] \notin Symbols /\ Agrees(i, j)' => p'[i] = n' - j + 1
    <3>1. ASSUME NEW i \in DOMAIN words, NEW j \in 2..(n' + 1),
                 text[j - 1] \notin Symbols, Agrees(i, j)'
          PROVE  p'[i] = n' - j + 1
      <4>1. j \in 2..(n + 2)
        BY <2>2, <3>1, Zenon
      <4>2. p'[i] = n + 1 - j + 1
        BY <1>5, <3>1, <4>1, Zenon
      <4> QED BY <1>2, <2>4, <4>1, <4>2
    <3> QED BY <3>1, Zenon
  <2> QED BY <1>1, <2>1, <2>3, Zenon DEF Followed
<1>7. ASSUME result' # "found", NEW i \in DOMAIN words PROVE p'[i] < Len(words[i])
  <2>1. p'[i] # Len(words[i])
    BY <1>1, <1>7, MatchedIs
  <2>2. p'[i] \in Nat /\ Len(words[i]) \in Nat /\ p'[i] <= Len(words[i])
    BY <1>7, MatchedIs
  <2> QED BY <2>1, <2>2
<1>8. result' = "found" => \E i \in DOMAIN words : p'[i] = Len(words[i])
  BY <1>1, MatchedIs
<1> QED BY <1>1, <1>4, <1>6, <1>7, <1>8 DEF WordInv

LEMMA WordInvNext ==
  ReaderTyped /\ WordInv /\ OnlyLines /\ [ReaderNext]_readerVars => WordInv' /\ OnlyLines'
<1> SUFFICES ASSUME ReaderTyped, WordInv, OnlyLines, [ReaderNext]_readerVars
             PROVE  WordInv' /\ OnlyLines'
  OBVIOUS
<1>1. CASE TakeWord
  BY <1>1, TakeWordInv DEF TakeWord, fixed, OnlyLines
<1>2. CASE UNCHANGED readerVars
  BY <1>2 DEF WordInv, Matching, Followed, Agrees, Symbols, OnlyLines, readerVars
<1>3. CASE TakeBreak \/ TakeSymbol \/ EndLine \/ TakeByte \/ EndData
  BY <1>3 DEF TakeBreak, TakeSymbol, EndLine, TakeByte, EndData, fixed, WordInv, OnlyLines
<1>4. CASE TimeOut
  <2>1. reader = "word" => result = "" /\ result' = "timeout"
    BY <1>4 DEF TimeOut
  <2>3. UNCHANGED <<reader, words, text, n, p>>
    BY <1>4 DEF TimeOut, fixed
  <2>2. WordInv'
    <3>1. /\ Followed => Followed'
          /\ \A i \in DOMAIN words : Matching(i) => Matching(i)'
      BY <2>3 DEF Matching, Followed, Agrees, Symbols
    <3> QED BY <2>1, <2>3, <3>1 DEF WordInv
  <2> QED BY <1>4, <2>2 DEF TimeOut, fixed, OnlyLines
<1> QED BY <1>1, <1>2, <1>3, <1>4 DEF ReaderNext

LEMMA WordsFound == ReaderTyped /\ WordInv => FoundAfterLineBreak
<1> SUFFICES ASSUME ReaderTyped, WordInv, reader = "word" PROVE FoundAfterLineBreak
  BY DEF FoundAfterLineBreak
<1>1. n \in Nat /\ Len(text) \in Nat /\ n <= Len(text) /\ text \in Seq(STRING)
  BY PlaceTyped
<1>2. ASSUME result = "timeout", NEW i \in DOMAIN words, NEW j \in 2..Len(text),
             text[j - 1] \notin Symbols, StandsAt(words[i], j)
      PROVE  FALSE
  <2>1. Len(words[i]) \in Nat \ {0} /\ p[i] < Len(words[i]) /\ words[i] \in Seq(STRING)
    BY <1>2, WordTyped DEF WordInv, Line
  <2>2. j + Len(words[i]) - 1 <= n /\ SubSeq(text, j, j + Len(words[i]) - 1) = words[i]
    BY <1>2 DEF StandsAt
  <2>3. \A k \in j..(j + Len(words[i]) - 1) : text[k] \in STRING
    BY <1>1, <2>1, <2>2, ElementOfSeq
  <2>4. j \in Int /\ j + Len(words[i]) - 1 \in Int
    BY <2>1
  <2>5. \A k \in 1..(j + Len(words[i]) - 1 - j + 1) : words[i][k] = text[j + k - 1]
    BY <2>2, <2>3, <2>4, SubSeqProperties
  <2>6. Agrees(i, j)
    BY <2>1, <2>4, <2>5 DEF Agrees
  <2>7. j \in 2..(n + 1)
    BY <1>1, <2>1, <2>2
  <2>8. p[i] = n - j + 1
    BY <1>2, <2>6, <2>7 DEF WordInv, Followed
  <2> QED BY <1>1, <2>1, <2>2, <2>7, <2>8
<1>3. ASSUME result = "found"
      PROVE  \E i \in DOMAIN words :
               Len(words[i]) <= n /\ StandsAt(words[i], n - Len(words[i]) + 1)
  <2>1. PICK i \in DOMAIN words : p[i] = Len(words[i]) /\ Matching(i)
    BY <1>3 DEF WordInv
  <2>2. Len(words[i]) \in Nat \ {0} /\ words[i] \in Seq(STRING)
    BY <2>1, WordTyped DEF Line
  <2>3. /\ Len(words[i]) <= n
        /\ \A k \in 1..Len(words[i]) : text[n - Len(words[i]) + k] = words[i][k]
    BY <2>1 DEF Matching
  <2> DEFINE j == n - Len(words[i]) + 1
  <2>4. j \in Int /\ j + Len(words[i]) - 1 = n /\ j >= 1 /\ j <= n
    BY <1>1, <2>2, <2>3
  <2>5. \A k \in j..n : text[k] \in STRING
    BY <1>1, <2>4, ElementOfSeq
  <2>6. /\ SubSeq(text, j, n) \in Seq(STRING)
        /\ Len(SubSeq(text, j, n)) = (IF j <= n THEN n - j + 1 ELSE 0)
        /\ \A k \in 1..(n - j + 1) : SubSeq(text, j, n)[k] = text[j + k - 1]
    BY <1>1, <2>4, <2>5, SubSeqProperties
  <2>7. Len(SubSeq(text, j, n)) = Len(words[i])
    BY <1>1, <2>2, <2>4, <2>6
  <2>8. \A k \in 1..Len(words[i]) : j + k - 1 = n - Len(words[i]) + k
    BY <1>1, <2>2
  <2>9. \A k \in 1..Len(words[i]) : SubSeq(text, j, n)[k] = words[i][k]
    BY <1>1, <2>2, <2>3, <2>4, <2>6, <2>8
  <2>10. SubSeq(text, j, n) = words[i]
    BY <2>2, <2>6, <2>7, <2>9, SeqEqual
  <2>11. StandsAt(words[i], j)
    BY <1>1, <2>4, <2>10 DEF StandsAt
  <2> QED BY <2>3, <2>11
<1> QED BY <1>2, <1>3 DEF FoundAfterLineBreak

THEOREM ReaderTypeCorrect == ReaderSpec => []ReaderTyped
  BY ReaderInitInv, ReaderTypedNext, PTL DEF ReaderSpec

\* sim900_wait4dictionary and sim900_wait_string, for every dictionary and every text:
\* a word behind a symbol that occurs in none of the words is found, whatever came
\* before, and only a word that has come is found.
THEOREM WordsAreFound == ReaderSpec => []FoundAfterLineBreak
<1>1. ReaderTyped /\ WordInv /\ OnlyLines /\ [ReaderNext]_readerVars
        => ReaderTyped' /\ WordInv' /\ OnlyLines'
  BY ReaderTypedNext, WordInvNext
<1> QED BY <1>1, ReaderInitInv, WordsFound, PTL DEF ReaderSpec

-----------------------------------------------------------------------------
(***************************************************************************)
(* The status of a reply.                                                  *)
(***************************************************************************)

\* What the post reads is the status of the line, if nothing is missing in front.
LEMMA StatusCut ==
  ASSUME NEW t, t[3] = "2", t[4] = "0", t[5] = "0"
  PROVE  SubSeq(t, 3, 5) = <<"2", "0", "0">>
<1> DEFINE S == {"2", "0"}
<1>1. \A i \in 3..5 : t[i] \in S
  OBVIOUS
<1>2. /\ SubSeq(t, 3, 5) \in Seq(S)
      /\ Len(SubSeq(t, 3, 5)) = (IF 3 <= 5 THEN 5 - 3 + 1 ELSE 0)
      /\ \A i \in 1..(5 - 3 + 1) : SubSeq(t, 3, 5)[i] = t[3 + i - 1]
  BY <1>1, SubSeqProperties
<1>3. <<"2", "0", "0">> \in Seq(S) /\ Len(<<"2", "0", "0">>) = 3
  OBVIOUS
<1>4. \A i \in 1..3 : SubSeq(t, 3, 5)[i] = <<"2", "0", "0">>[i]
  BY <1>2
<1>5. Len(SubSeq(t, 3, 5)) = 3
  BY <1>2
<1> HIDE DEF S
<1> QED BY <1>2, <1>3, <1>4, <1>5, SeqEqual

LEMMA StatusRead ==
  ASSUME NEW t, \A i \in 3..5 : t[i] \in STRING, SubSeq(t, 3, 5) = <<"2", "0", "0">>
  PROVE  t[3] = "2" /\ t[4] = "0" /\ t[5] = "0"
<1> DEFINE s == SubSeq(t, 3, 5)
<1>1. \A i \in 1..(5 - 3 + 1) : s[i] = t[3 + i - 1]
  BY SubSeqProperties
<1>4. s = <<"2", "0", "0">>
  OBVIOUS
<1> HIDE DEF s
<1>2. s[1] = "2" /\ s[2] = "0" /\ s[3] = "0"
  BY <1>4
<1>3. s[1] = t[3] /\ s[2] = t[4] /\ s[3] = t[5]
  BY <1>1
<1> QED BY <1>2, <1>3

LEMMA AppendIs ==
  ASSUME NEW S, NEW s \in Seq(S), NEW e \in S
  PROVE  /\ Len(Append(s, e)) = Len(s) + 1 /\ Append(s, e)[Len(s) + 1] = e
         /\ \A i \in 1..Len(s) : Append(s, e)[i] = s[i]
<1>1. Len(s) \in Nat
  BY LenProperties
<1> QED BY <1>1

\* A reply, symbol by symbol.
LEMMA ReplyIs ==
  ASSUME NEW a \in Replies
  PROVE  /\ Len(a.line) \in Nat /\ Len(a.line) >= 6
         /\ a.line[6] = "," /\ SubSeq(a.line, 3, 5) = a.code
         /\ \A i \in 1..6 : a.line[i] # Break
  BY AnswerTextAssumption, LenProperties DEF Line

\* A buffer whose third to fifth symbols are 200, though up to three symbols are
\* missing in front, misses none: behind the status comes the comma.
LEMMA StatusIsCode ==
  ASSUME ReaderTyped, Lost <= 3, NEW a \in Replies, NEW k \in Nat, Remains(a, k),
         Gathered, StatusOK(Ended(buf))
  PROVE  code = <<"2", "0", "0">>
<1> DEFINE b == Ended(buf)
<1>1. buf \in Line /\ n \in Nat /\ n <= Len(text) /\ Len(text) \in Nat /\ Len(buf) = n
  BY PlaceTyped DEF ReaderTyped, Gathered
<1>2. /\ b \in Seq(STRING) /\ Len(b) \in Nat /\ Len(b) <= n
      /\ \A i \in 1..Len(b) : b[i] = buf[i]
  BY <1>1, EndedIs, LenProperties DEF Line
<1>3. Len(b) >= 5 /\ SubSeq(b, 3, 5) = <<"2", "0", "0">>
  BY DEF StatusOK
<1> HIDE DEF b
<1>4. Len(b) >= 5
  BY <1>3, Zenon
<1>5. \A i \in 3..5 : i \in 1..Len(b) /\ i \in 1..n /\ i \in 1..Len(text)
  BY <1>1, <1>2, <1>4
<1>6. \A i \in 3..5 : b[i] \in STRING
  BY <1>2, <1>5, ElementOfSeq
<1>7. b[3] = "2" /\ b[4] = "0" /\ b[5] = "0"
  BY <1>3, <1>6, StatusRead, Zenon
<1>8. \A i \in 3..5 : b[i] = a.line[i + k]
  BY <1>2, <1>5 DEF Gathered, Remains
<1>9. b[3] = a.line[3 + k] /\ b[4] = a.line[4 + k] /\ b[5] = a.line[5 + k]
  BY <1>8
<1>10. k \in {0, 1, 2, 3}
  <2>1. Lost \in Nat /\ k <= Lost
    BY AnswerTextAssumption, Zenon DEF Remains
  <2> QED BY <2>1
<1>11. k = 0
  <2>1. a.line[6] = ","
    BY ReplyIs
  <2>2. k = 1 => a.line[6] = b[5]
    BY <1>9
  <2>3. k = 2 => a.line[6] = b[4]
    BY <1>9
  <2>4. k = 3 => a.line[6] = b[3]
    BY <1>9
  <2> QED BY <1>7, <1>10, <2>1, <2>2, <2>3, <2>4
<1>12. a.line[3] = "2" /\ a.line[4] = "0" /\ a.line[5] = "0"
  BY <1>7, <1>9, <1>11
<1> QED BY <1>12, ReplyIs, StatusCut, Zenon DEF Remains

LEMMA LineInvNext ==
  ASSUME Lost <= 3
  PROVE  ReaderTyped /\ LineInv /\ OnlyLines /\ [ReaderNext]_readerVars => LineInv'
<1> SUFFICES ASSUME ReaderTyped, LineInv, OnlyLines, [ReaderNext]_readerVars, reader = "line"
             PROVE  LineInv'
  BY DEF LineInv, ReaderNext, readerVars, TakeWord, TakeBreak, TakeSymbol, EndLine, TakeByte,
         EndData, TimeOut, fixed
<1>1. PICK a \in Replies, k \in Nat : Remains(a, k)
  BY DEF LineInv
<1>2. n \in Nat /\ n <= Len(text) /\ Len(text) \in Nat
  BY PlaceTyped
<1>3. \/ UNCHANGED readerVars
      \/ result = "" /\ Gathered /\ (TakeBreak \/ TakeSymbol \/ EndLine \/ TimeOut)
  BY DEF LineInv, ReaderNext, TakeWord, TakeBreak, TakeSymbol, EndLine, TakeByte, EndData,
         TimeOut
<1>4. UNCHANGED <<reader, code, text>>
  BY <1>3 DEF readerVars, TakeBreak, TakeSymbol, EndLine, TimeOut, fixed
<1>5. Remains(a, k)'
  BY <1>1, <1>4 DEF Remains
<1>6. CASE UNCHANGED readerVars
  BY <1>6 DEF LineInv, Remains, Gathered, StatusNotForged, readerVars
<1>7. CASE result = "" /\ Gathered /\ TakeBreak
  <2>1. n < Len(text) /\ text[n + 1] = Break /\ buf = <<>> /\ Len(buf) = n
    BY <1>7 DEF TakeBreak, Gathered
  <2>2. n = 0
    BY <2>1
  <2>3. 1 \in 1..Len(text) /\ text[1] = Break
    BY <1>2, <2>1, <2>2
  <2>4. text[1] = a.line[1 + k]
    BY <1>1, <2>3 DEF Remains
  <2>5. Lost \in Nat /\ k <= Lost
    BY <1>1, AnswerTextAssumption, Zenon DEF Remains
  <2>6. 1 + k \in 1..6
    BY <2>5
  <2> QED BY <2>3, <2>4, <2>6, ReplyIs
<1>8. CASE result = "" /\ Gathered /\ TakeSymbol
  <2>1. buf \in Seq(STRING) /\ Len(buf) = n /\ text[n + 1] \in STRING
    BY <1>8, NextSymbol DEF TakeSymbol, Gathered, ReaderTyped, Line
  <2>2. buf' = Append(buf, text[n + 1]) /\ n' = n + 1 /\ result' = ""
    BY <1>8 DEF TakeSymbol
  <2>5. /\ Len(buf') = n + 1 /\ buf'[n + 1] = text[n + 1]
        /\ \A i \in 1..n : buf'[i] = buf[i]
    <3>1. buf \in Seq(STRING) /\ text[n + 1] \in STRING
      BY <2>1, Zenon
    <3>2. /\ Len(Append(buf, text[n + 1])) = Len(buf) + 1
          /\ Append(buf, text[n + 1])[Len(buf) + 1] = text[n + 1]
          /\ \A i \in 1..Len(buf) : Append(buf, text[n + 1])[i] = buf[i]
      BY <3>1, AppendIs, Zenon
    <3> QED BY <2>1, <2>2, <3>2, Zenon
  <2>6. \A i \in 1..n : buf[i] = text[i]
    BY <1>8 DEF Gathered
  <2>3. Len(buf') = n + 1 /\ \A i \in 1..(n + 1) : buf'[i] = text[i]
    BY <1>2, <2>5, <2>6
  <2>4. Gathered'
    BY <1>4, <2>2, <2>3 DEF Gathered
  <2> QED BY <1>5, <2>2, <2>4 DEF LineInv, StatusNotForged
<1>9. CASE result = "" /\ Gathered /\ (EndLine \/ TimeOut)
  <2>1. result' # "" /\ (result' = "200" => StatusOK(Ended(buf)))
    BY <1>9 DEF EndLine, TimeOut
  <2>2. StatusNotForged'
    BY <1>1, <1>4, <1>9, <2>1, StatusIsCode DEF StatusNotForged
  <2> QED BY <1>5, <2>1, <2>2 DEF LineInv
<1> QED BY <1>3, <1>6, <1>7, <1>8, <1>9

\* sim900_http_post takes no reply for accepted whose status is not 200, for any
\* status, any length behind it and any size of the buffer, though the flush may
\* take up to three symbols from it.
THEOREM StatusIsTheReplys ==
  ASSUME Lost <= 3
  PROVE  ReaderSpec => []StatusNotForged
<1>1. ReaderTyped /\ LineInv /\ WordInv /\ OnlyLines /\ [ReaderNext]_readerVars
        => ReaderTyped' /\ LineInv' /\ WordInv' /\ OnlyLines'
  BY ReaderTypedNext, WordInvNext, LineInvNext
<1>2. LineInv /\ OnlyLines => StatusNotForged
  BY DEF LineInv, OnlyLines, StatusNotForged
<1> QED BY <1>1, <1>2, ReaderInitInv, PTL DEF ReaderSpec
=============================================================================
