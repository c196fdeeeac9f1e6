----------------------------- MODULE UsartRing ------------------------------
(***************************************************************************)
(* The receive ring between the interrupt of the modem's serial line and   *)
(* the driver: cbuffer_usart.c writes and, when the ring is full, moves    *)
(* the tail past the oldest byte; the main loop reads and flushes without  *)
(* disabling the interrupt.  One action of the main loop is one access to  *)
(* an index or to the ring; an interrupt is atomic.  Bytes are numbered as *)
(* they come.                                                              *)
(***************************************************************************)
EXTENDS Integers

CONSTANTS
  Size,      \* USART_RX_BUFFER_SIZE, 8
  Burst,     \* interrupts between two accesses of the main loop
  MaxBytes   \* a bound: bytes received

ASSUME UsartRingAssumption ==
  /\ Size \in Nat /\ Size > 1
  /\ Burst \in Nat /\ MaxBytes \in Nat

VARIABLES
  rx, head, tail,  \* RX, RX_Head, RX_Tail; the ring of the last Size bytes
  sent,            \* bytes received
  pc,              \* where the main loop is
  copy,            \* the index it has read
  ans,             \* the byte it has read
  got,             \* the byte GetByte returned last
  mark,            \* bytes received when the last flush began
  hits,            \* interrupts since the last access of the main loop
  gap,             \* bytes were dropped or flushed before or during a GetByte
  torn,            \* an interrupt came between the two stores of the last flush
  outrun           \* since then, several found the ring full between two accesses
                   \* of a GetByte

vars == <<rx, head, tail, sent, pc, copy, ans, got, mark, hits, gap, torn, outrun>>

Indices == 0..(Size - 1)

\* (Variant: without the mask.)
AfterUnmasked(i) == i + 1

\* (i + 1) & USART_RX_BUFFER_MASK
After(i) == IF i + 1 = Size THEN 0 ELSE i + 1

\* usart_interruptdriver_initialize; before the first byte the ring holds
\* nothing that was received.
Init ==
  /\ rx = [i \in Indices |-> i + 1 - Size]
  /\ head = 0 /\ tail = 0
  /\ sent = 0
  /\ pc = "idle" /\ copy = 0
  /\ ans = 0 /\ got = 0 /\ mark = 0 /\ hits = 0
  /\ gap = {} /\ torn = FALSE /\ outrun = FALSE

main == <<pc, copy, ans, got, mark>>

\* (Variant: a byte that finds the ring full is written over the oldest one,
\* and the tail stays.)
TailStays(newHead) == tail

\* Where the tail is after a byte: the oldest byte gives way.
TailAfter(newHead) == IF newHead = tail THEN After(newHead) ELSE tail

\* Within USART_RX_CBuffer_GetByte, after its first access.
Reading == pc \in {"byte", "step", "write"}

\* USART_RX_CBuffer_Complete.
Receive ==
  /\ sent < MaxBytes
  /\ pc # "idle" => hits < Burst
  /\ hits' = (IF pc = "idle" THEN 0 ELSE hits + 1)
  /\ tail' = TailAfter(After(head))
  /\ rx' = [rx EXCEPT ![head] = sent + 1]
  /\ head' = After(head)
  /\ sent' = sent + 1
  /\ gap' = gap \cup (IF tail' = tail THEN {}
                     ELSE {IF Reading THEN "during" ELSE "before"})
  /\ torn' = (torn \/ pc = "flush")
  /\ outrun' = (outrun \/ (Reading /\ "during" \in gap /\ hits > 0))
  /\ UNCHANGED main

-----------------------------------------------------------------------------
(***************************************************************************)
(* The main loop.                                                          *)
(***************************************************************************)

\* USART_RX_CBuffer_Data_Available: the head, then the tail.
ReadHead ==
  /\ pc = "idle"
  /\ copy' = head /\ pc' = "compare"
  /\ hits' = 0
  /\ UNCHANGED <<rx, head, tail, sent, ans, got, mark, gap, torn, outrun>>

Compare ==
  /\ pc = "compare"
  /\ pc' = (IF copy = tail THEN "idle" ELSE "index")
  /\ hits' = 0
  /\ UNCHANGED <<rx, head, tail, sent, copy, ans, got, mark, gap, torn, outrun>>

\* USART_RX_CBuffer_GetByte: the tail, the byte, the tail again (it is volatile),
\* and the tail is written.
ReadTail ==
  /\ pc \in {"index", "step"}
  /\ copy' = tail
  /\ pc' = (IF pc = "index" THEN "byte" ELSE "write")
  /\ hits' = 0
  /\ UNCHANGED <<rx, head, tail, sent, ans, got, mark, gap, torn, outrun>>

ReadByte ==
  /\ pc = "byte"
  /\ ans' = rx[copy] /\ pc' = "step"
  /\ hits' = 0
  /\ UNCHANGED <<rx, head, tail, sent, copy, got, mark, gap, torn, outrun>>

WriteTail ==
  /\ pc = "write"
  /\ tail' = After(copy)
  /\ got' = ans
  /\ gap' = (IF "during" \in gap THEN {"before"} ELSE {})
  /\ pc' = "idle"
  /\ hits' = 0
  /\ UNCHANGED <<rx, head, sent, copy, ans, mark, torn, outrun>>

\* (Variants: the tail, or the head, is not set back.)
FlushHeadOnly == tail
FlushTailOnly == head

FlushedTail == 0
FlushedHead == 0

\* usart_buffer_flush, and usart_interruptdriver_initialize in sim900_init.
FlushTail ==
  /\ pc = "idle"
  /\ tail' = FlushedTail /\ pc' = "flush"
  /\ mark' = sent /\ gap' = {"before"} /\ torn' = FALSE /\ outrun' = FALSE
  /\ hits' = 0
  /\ UNCHANGED <<rx, head, sent, copy, ans, got>>

FlushHead ==
  /\ pc = "flush"
  /\ head' = FlushedHead /\ pc' = "idle"
  /\ hits' = 0
  /\ UNCHANGED <<rx, tail, sent, copy, ans, got, mark, gap, torn, outrun>>

Next ==
  \/ Receive
  \/ ReadHead \/ Compare \/ ReadTail \/ ReadByte \/ WriteTail
  \/ FlushTail \/ FlushHead

Spec == Init /\ [][Next]_vars

-----------------------------------------------------------------------------
TypeOK ==
  /\ rx \in [Indices -> Int]
  /\ head \in Indices /\ tail \in Indices /\ copy \in Indices
  /\ sent \in Nat /\ ans \in Int /\ got \in Int /\ mark \in Nat /\ hits \in Nat
  /\ pc \in {"idle", "compare", "index", "byte", "step", "write", "flush"}
  /\ gap \subseteq {"before", "during"} /\ torn \in BOOLEAN /\ outrun \in BOOLEAN

\* The unread positions, and the age of position i: 1 is the newest byte.
Unread == IF tail <= head THEN tail..(head - 1)
          ELSE (tail..(Size - 1)) \cup (0..(head - 1))
Age(i) == IF i < head THEN head - i ELSE head - i + Size

\* However many interrupts fall between the accesses of GetByte, what is unread are
\* the newest bytes in the order in which they came; after an interrupt between the
\* stores of a flush that is true again from the next flush on.
UnreadIsNewest == ~torn => \A i \in Unread : rx[i] = sent + 1 - Age(i)

\* A byte that was received before a flush is not read after it: "There are data
\* left in the buffer unless Head and Tail are equal."
FlushForgets ==
  pc = "idle" /\ head # tail /\ ~torn => \A i \in Unread : rx[i] > mark

\* GetByte returns each byte at most once and never an earlier one after a later
\* one; unless the ring was full or flushed it skips none.  The full ring must not
\* be passed twice between two of its accesses, as within a tick.
DeliveredInOrder ==
  [][got' # got /\ ~torn /\ ~outrun =>
       got' > got /\ (gap = {} => got' = got + 1)]_vars
=============================================================================
