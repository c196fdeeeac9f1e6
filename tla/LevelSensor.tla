---------------------------- MODULE LevelSensor -----------------------------
(***************************************************************************)
(* MB7040.c: the main loop takes a reading per turn and puts it into       *)
(* g_measureBuffer with g_measureBuffer[g_index++] = ..., three stores (the *)
(* index, and the two bytes of the value) between which the tick may take  *)
(* the statistics and clear buffer and index.  The compiler chooses the    *)
(* order of the stores.                                                    *)
(***************************************************************************)
EXTENDS Integers, Sequences, SequencesExt, FiniteSetsExt

CONSTANTS
  Slots,        \* MEASUREBUFFERSIZE, 256, which is also where g_index wraps
  Window,       \* LG_NUMSTATS, 24
  Parts,        \* the quartile is one in so many readings, 8
  Levels,       \* the distances there are
  Noise,        \* what a failing transfer leaves in range
  MaxReadings   \* a bound: readings between two statistics

ASSUME LevelSensorAssumption == Slots \in Nat \ {0}

VARIABLES
  buffer,   \* g_measureBuffer
  index,    \* g_index
  left,     \* what the main loop has left to store: a sequence of "index", "half", "value"
  value,    \* the reading it stores
  slot,     \* the index it has read
  made,     \* readings stored or being stored since the last statistics
  raced,    \* a tick has come between the stores since the statistics before
  noisy,    \* two of the three samples of a reading failed since then
  stats     \* what the tick has just taken, or Nothing

sensorVars == <<buffer, index, left, value, slot, made, raced, noisy, stats>>

Places == 0..(Slots - 1)
Empty == [i \in Places |-> 0]
Nothing == [n |-> -1]

SensorInit ==
  /\ buffer = Empty /\ index = 0
  /\ left = <<>> /\ value = 0 /\ slot = 0
  /\ made = 0 /\ raced = FALSE /\ noisy = FALSE
  /\ stats = Nothing

Sorted(s) == SortSeq(s, <)

\* (Variant: the last of the samples.)
LastOf(samples) == samples[3]

\* measureBuf[1] after the sort.
MedianOf(samples) == Sorted(samples)[2]

Failing(samples) == Cardinality({i \in 1..3 : samples[i] \in Noise})

\* The order of the stores is the compiler's.
Orders == {<<"index", "half", "value">>, <<"half", "value", "index">>}

\* MB7040_triggerReading up to the stores: three samples, none of which is
\* rejected, since a difference is always below 6 or above -6.
Measure ==
  /\ left = <<>> /\ made < MaxReadings
  /\ \E samples \in [1..3 -> Levels \cup Noise] :
       /\ value' = MedianOf(samples)
       /\ noisy' = (noisy \/ Failing(samples) > 1)
  /\ left' \in Orders
  /\ slot' = index
  /\ made' = made + 1
  /\ stats' = Nothing
  /\ UNCHANGED <<buffer, index, raced>>

\* One store.  The half of a value is any noise.
Store ==
  /\ left # <<>>
  /\ left' = Tail(left)
  /\ CASE Head(left) = "index" ->
            index' = (slot + 1) % Slots /\ UNCHANGED buffer
       [] Head(left) = "half" ->
            \E b \in Noise : buffer' = [buffer EXCEPT ![slot] = b] /\ UNCHANGED index
       [] Head(left) = "value" ->
            buffer' = [buffer EXCEPT ![slot] = value] /\ UNCHANGED index
  /\ stats' = Nothing
  /\ UNCHANGED <<value, slot, made, raced, noisy>>

-----------------------------------------------------------------------------
(***************************************************************************)
(* MB7040_getStats.                                                        *)
(***************************************************************************)

WindowFirst(n) == IF n >= Window THEN n - Window ELSE 0
Quartile(n) == n \div Parts
WindowStart(n) == WindowFirst(n) + Quartile(n)
WindowEnd(n) == n - Quartile(n)

\* The readings of the window in order; the sort begins at WindowFirst.
Ordered(n) ==
  LET s == Sorted([i \in 1..(n - WindowFirst(n)) |-> buffer[WindowFirst(n) + i - 1]])
  IN SubSeq(s, WindowStart(n) - WindowFirst(n) + 1, WindowEnd(n) - WindowFirst(n))

\* A division by zero leaves any value.
Over(sum, d) == IF d > 0 THEN sum \div d ELSE -1

Statistics(n) ==
  LET s == Ordered(n)
      sum == FoldLeft(+, 0, s)
  IN IF s = <<>> THEN [n |-> n, val |-> -1]
     ELSE [n |-> n, val |-> Over(sum, Len(s)),
           maxVal |-> s[Len(s)], minVal |-> s[1], medianVal |-> s[Len(s) \div 2 + 1],
           val_noPeaks |-> Over(sum - s[1] - s[Len(s)], Len(s) - 2)]

\* (Variant: the index is not set back.)
IndexKept == index

\* MB7040_resetStats.
IndexReset == 0

\* dl_snapshot_make in the tick, which interrupts the main loop anywhere.
Tick ==
  /\ stats' = (IF index = 0 THEN [n |-> 0] ELSE Statistics(index))
  /\ buffer' = Empty
  /\ index' = IndexReset
  /\ made' = 0
  /\ raced' = (left # <<>>) /\ noisy' = FALSE
  /\ UNCHANGED <<left, value, slot>>

SensorNext == Measure \/ Store \/ Tick

SensorSpec == SensorInit /\ [][SensorNext]_sensorVars

-----------------------------------------------------------------------------
SensorTypeOK ==
  /\ buffer \in [Places -> Int] /\ index \in Places /\ slot \in Places
  /\ left \in Seq({"index", "half", "value"}) /\ value \in Int
  /\ made \in Nat /\ raced \in BOOLEAN /\ noisy \in BOOLEAN

\* Without a race since the statistics before, what the buffer holds are all the
\* readings of the interval: a race's zeros, half values and strays are gone
\* after the next statistics.
ReadingsKept ==
  ~raced => /\ left = <<>> => index = made % Slots
            /\ left # <<>> => slot = (made - 1) % Slots

True(s) ==
  /\ \A x \in {s.val, s.minVal, s.maxVal, s.medianVal} : x >= Min(Levels) /\ x <= Max(Levels)
  /\ s.minVal <= s.medianVal /\ s.medianVal <= s.maxVal

\* Statistics that no tick has raced with, taken of readings of which at most
\* one sample failed each, are of all the readings since the statistics before
\* and lie among the distances there were.
StatisticsTrue ==
  [][stats' # Nothing /\ left = <<>> /\ ~raced =>
       /\ stats'.n = made
       /\ made > 0 /\ ~noisy => True(stats')]_sensorVars
=============================================================================
