----------------------------- MODULE ClockProofs -----------------------------
(***************************************************************************)
(* Proofs about Clock, for registers of any width, every time span and     *)
(* every watchdog period above it.  Two invariants carry them: Written     *)
(* follows rtc_set_alarm from the sample of the clock to the alarm, with   *)
(* one second on the way; Fed counts how often the watchdog was fed since  *)
(* the last tick.                                                          *)
(***************************************************************************)
EXTENDS Clock, TLAPS

(***************************************************************************)
(* The counter.                                                            *)
(***************************************************************************)

LEMMA RangeTyped ==
  /\ Base \in Nat \ {0} /\ ClockRange \in Nat \ {0} /\ ClockRange = Base * Base
  /\ Span \in Nat /\ Span > 2 /\ Span < ClockRange /\ WdtPeriod \in Nat /\ Times = 0..(ClockRange - 1)
<1>1. Base \in Nat /\ Span \in Nat /\ WdtPeriod \in Nat /\ Span > 2 /\ Span < Base * Base
  BY ClockAssumption
<1>2. Base # 0
  BY <1>1
<1>3. Base * Base \in Nat /\ Base * Base > 0
  BY <1>1, <1>2
<1> QED BY <1>1, <1>2, <1>3 DEF ClockRange, Times

LEMMA PlusIs ==
  ASSUME NEW t \in Times, NEW n \in 0..(ClockRange - 1)
  PROVE  Plus(t, n) \in Times /\ Plus(t, n) = IF t + n < ClockRange THEN t + n ELSE t + n - ClockRange
<1> HIDE DEF ClockRange
<1> QED BY RangeTyped DEF Plus

LEMMA SinceIs ==
  ASSUME NEW t \in Times, NEW u \in Times
  PROVE  Since(t, u) \in Times /\ Since(t, u) = IF u >= t THEN u - t ELSE u - t + ClockRange
<1> HIDE DEF ClockRange
<1> QED BY RangeTyped DEF Since

\* An alarm set for Span seconds is that far away.
LEMMA SpanAhead ==
  ASSUME NEW t \in Times
  PROVE  Plus(t, Span) \in Times /\ Since(t, Plus(t, Span)) = Span
<1>1. Span \in 0..(ClockRange - 1)
  BY RangeTyped
<1> DEFINE u == Plus(t, Span)
<1>2. u \in Times /\ u = IF t + Span < ClockRange THEN t + Span ELSE t + Span - ClockRange
  BY <1>1, PlusIs
<1> HIDE DEF u
<1>3. Since(t, u) = IF u >= t THEN u - t ELSE u - t + ClockRange
  BY <1>2, SinceIs
<1>4. Since(t, u) = Span
  BY <1>2, <1>3, RangeTyped
<1> QED BY <1>2, <1>4 DEF u

\* A second brings an alarm nearer by one.
LEMMA OneNearer ==
  ASSUME NEW t \in Times, NEW u \in Times
  PROVE  /\ Plus(t, 1) \in Times
         /\ u # t => Since(Plus(t, 1), u) = Since(t, u) - 1
         /\ Plus(t, 1) # u => Since(t, u) # 1
<1>1. 1 \in 0..(ClockRange - 1)
  BY RangeTyped
<1> DEFINE v == Plus(t, 1)
<1>2. v \in Times /\ v = IF t + 1 < ClockRange THEN t + 1 ELSE t + 1 - ClockRange
  BY <1>1, PlusIs
<1> HIDE DEF v
<1>3. /\ Since(t, u) = IF u >= t THEN u - t ELSE u - t + ClockRange
      /\ Since(v, u) = IF u >= v THEN u - v ELSE u - v + ClockRange
  BY <1>2, SinceIs
<1>4. /\ u # t => Since(v, u) = Since(t, u) - 1
      /\ v # u => Since(t, u) # 1
  BY <1>2, <1>3, RangeTyped
<1> QED BY <1>2, <1>4 DEF v

\* The halves of a register.
LEMMA HalvesTyped ==
  ASSUME NEW t \in Times
  PROVE  High(t) \in 0..(Base - 1) /\ Low(t) \in 0..(Base - 1) /\ t = High(t) * Base + Low(t)
<1>1. t \in Int /\ t >= 0 /\ t < Base * Base
  BY RangeTyped
<1>2. /\ t = Base * (t \div Base) + (t % Base)
      /\ t \div Base \in Int /\ t % Base \in 0..(Base - 1)
  BY <1>1, RangeTyped
<1>3. t \div Base \in 0..(Base - 1)
  BY <1>1, RangeTyped
<1>4. Base * (t \div Base) = (t \div Base) * Base
  BY <1>2, RangeTyped
<1> QED BY <1>2, <1>3, <1>4 DEF High, Low

LEMMA HalvesJoined ==
  ASSUME NEW h \in 0..(Base - 1), NEW l \in 0..(Base - 1)
  PROVE  h * Base + l \in Times /\ High(h * Base + l) = h /\ Low(h * Base + l) = l
<1>1. h * Base + l \in 0..(Base * Base - 1)
  BY RangeTyped
<1>2. (h * Base + l) % Base = l /\ (h * Base + l) \div Base = h
  BY RangeTyped
<1> QED BY <1>1, <1>2, RangeTyped DEF High, Low

-----------------------------------------------------------------------------
(***************************************************************************)
(* The invariant.                                                          *)
(***************************************************************************)

\* Neither a callback nor the watchdog runs.
Out == clockPc \in {"boot", "synced", "stopped"}

Phase ==
  /\ Out <=> callback = "none"
  /\ Out => ~wdtOn /\ silence = 0
  /\ clockPc \in {"loop", "update", "answer", "feed"} => wdtOn
  /\ clockPc \in {"sample", "enable", "part", "lowLeft", "highLeft", "clear"} =>
       (wdtOn <=> after = "feed")
  /\ clockPc = "watchdog" => ~wdtOn

\* An alarm time that was sampled no more than one second ago.
Fresh(t) == Since(cnt, t) = Span \/ (slow /\ Since(cnt, t) = Span - 1)

Written ==
  /\ clockPc \in {"enable", "part", "lowLeft", "highLeft"} => Fresh(time)
  /\ clockPc \in {"part", "lowLeft", "highLeft", "clear"} => intctrl
  /\ clockPc = "lowLeft" /\ ~rearmRaced => High(comp) = High(time)
  /\ clockPc = "highLeft" /\ ~rearmRaced => Low(comp) = Low(time)
  /\ clockPc = "clear" /\ ~rearmRaced => Fresh(comp)
  /\ clockPc \in {"watchdog", "feed", "loop", "update"} /\ ~rearmRaced => AlarmNear

\* How much of the silence the watchdog has not counted since it was fed: with a
\* synchronisation that a tick was due to, or one after it.
Uncounted ==
  IF clockPc \in {"loop", "update"} THEN (IF due THEN WdtPeriod ELSE 2 * WdtPeriod)
                               ELSE (IF due THEN 0 ELSE WdtPeriod)

Fed ==
  /\ Setting /\ ~wdtOn => silence <= (IF slow THEN 1 ELSE 0)
  /\ wdtOn => silence <= wdt + 1 + Uncounted

IInv == ClockTypeOK /\ Phase /\ Written /\ Fed

LEMMA InitInv == ClockInit => IInv
<1> SUFFICES ASSUME ClockInit PROVE IInv
  OBVIOUS
<1>1. 0 \in Times /\ WdtPeriod \in Nat
  BY RangeTyped
<1>2. ClockTypeOK
  <2>1. /\ cnt \in Times /\ comp \in Times /\ time \in Times /\ begin \in Times
        /\ silence \in Nat /\ wdt \in 0..WdtPeriod
    BY <1>1 DEF ClockInit
  <2>2. /\ compif \in BOOLEAN /\ intctrl \in BOOLEAN /\ wdtOn \in BOOLEAN
        /\ slow \in BOOLEAN /\ due \in BOOLEAN /\ rearmRaced \in BOOLEAN
    BY Zenon DEF ClockInit
  <2>3. /\ callback \in {"none", "tick", "timer"} /\ after \in {"watchdog", "feed"}
        /\ clockPc = "boot"
    BY Zenon DEF ClockInit
  <2> QED BY <2>1, <2>2, <2>3, Zenon DEF ClockTypeOK
<1>3. clockPc = "boot" /\ callback = "none" /\ wdtOn = FALSE /\ silence = 0
  BY DEF ClockInit
<1>4. Phase
  BY <1>3 DEF Phase, Out
<1>5. Written
  BY <1>3 DEF Written
<1>6. Fed
  BY <1>3 DEF Fed, Setting
<1> QED BY <1>2, <1>4, <1>5, <1>6 DEF IInv

LEMMA ResetInv == ClockTypeOK /\ Reset => IInv'
<1> SUFFICES ASSUME ClockTypeOK, Reset PROVE IInv'
  OBVIOUS
<1>1. 0 \in Times /\ WdtPeriod \in Nat
  BY RangeTyped
<1>2. ClockTypeOK'
  <2>1. /\ cnt' \in Times /\ comp' \in Times /\ time' \in Times /\ begin' \in Times
        /\ silence' \in Nat /\ wdt' \in 0..WdtPeriod
    BY <1>1 DEF Reset, Goto, ClockTypeOK
  <2>2. /\ compif' \in BOOLEAN /\ intctrl' \in BOOLEAN /\ wdtOn' \in BOOLEAN
        /\ slow' \in BOOLEAN /\ due' \in BOOLEAN /\ rearmRaced' \in BOOLEAN
    BY Zenon DEF Reset, Goto, ClockTypeOK
  <2>3. /\ callback' \in {"none", "tick", "timer"} /\ after' \in {"watchdog", "feed"}
        /\ clockPc' = "boot"
    BY Zenon DEF Reset, Goto, ClockTypeOK
  <2> QED BY <2>1, <2>2, <2>3, Zenon DEF ClockTypeOK
<1>3. clockPc' = "boot" /\ callback' = "none" /\ wdtOn' = FALSE /\ silence' = 0
  BY DEF Reset, Goto
<1>4. Phase'
  BY <1>3 DEF Phase, Out
<1>5. Written'
  BY <1>3 DEF Written
<1>6. Fed'
  BY <1>3 DEF Fed, Setting
<1> QED BY <1>2, <1>4, <1>5, <1>6 DEF IInv

\* What an alarm interrupt leaves when it does not reset the controller.
LEMMA ServedInv ==
  ASSUME IInv, Rearm, callback # "none",
         due' \in BOOLEAN, begin' \in Times,
         UNCHANGED <<cnt, callback, wdtOn, clockPc, after, time, slow>>
  PROVE  IInv'
<1> USE DEF IInv
<1>1. /\ comp' \in Times /\ Since(cnt, comp') = Span
  BY SpanAhead DEF ClockTypeOK, Rearm
<1>2. ClockTypeOK'
  <2>1. wdt' \in 0..WdtPeriod /\ silence' \in Nat
    BY RangeTyped DEF Rearm
  <2>2. rearmRaced' \in BOOLEAN
    <3>1. CASE HalfWritten
      BY <3>1, Zenon DEF Rearm
    <3>2. CASE ~HalfWritten
      <4>1. HalfWritten = FALSE
        BY <3>2, SMT DEF HalfWritten
      <4> QED BY <4>1, Zenon DEF Rearm
    <3> QED BY <3>1, <3>2
  <2> QED BY <1>1, <2>1, <2>2, Zenon DEF ClockTypeOK, Rearm
<1>3. Phase'
  BY DEF Phase, Out, Rearm
<1>4. Written'
  <2>1. Span \in 1..Span
    BY RangeTyped
  <2>2. /\ intctrl' = TRUE /\ rearmRaced' = (clockPc \in {"lowLeft", "highLeft"})
        /\ cnt' = cnt /\ clockPc' = clockPc /\ time' = time /\ slow' = slow /\ Since(cnt', comp') = Span
    BY <1>1 DEF Rearm, HalfWritten
  <2>3. AlarmNear'
    BY <2>1, <2>2, Zenon DEF AlarmNear
  <2>4. Fresh(comp)'
    BY <2>2 DEF Fresh
  <2>5. clockPc' \in {"enable", "part", "lowLeft", "highLeft"} => Fresh(time)'
    BY <2>2 DEF Written, Fresh
  <2> QED BY <2>2, <2>3, <2>4, <2>5 DEF Written
<1>5. Fed'
  <2>1. wdt' = 0 /\ silence' = 0 /\ WdtPeriod \in Nat
    BY RangeTyped DEF Rearm
  <2>2. Uncounted' \in Nat
    BY <2>1 DEF Uncounted
  <2>3. 0 <= IF slow' THEN 1 ELSE 0
    OBVIOUS
  <2>4. ASSUME NEW u \in Nat PROVE 0 <= 0 + 1 + u
    OBVIOUS
  <2>5. silence' <= wdt' + 1 + Uncounted'
    BY <2>1, <2>2, <2>4, Zenon
  <2>6. silence' <= IF slow' THEN 1 ELSE 0
    BY <2>1, <2>3, Zenon
  <2> QED BY <2>5, <2>6, Zenon DEF Fed
<1> QED BY <1>2, <1>3, <1>4, <1>5

LEMMA TickInv == IInv /\ ClockTick => IInv'
<1> SUFFICES ASSUME IInv, ClockTick PROVE IInv'
  OBVIOUS
<1>1. CASE Reset
  BY <1>1, ResetInv DEF IInv
<1>2. CASE ~Reset
  <2>1. begin' \in Times
    BY <1>2 DEF ClockTick, IInv, ClockTypeOK
  <2> QED BY <1>2, <2>1, ServedInv DEF ClockTick
<1> QED BY <1>1, <1>2

LEMMA TimerInv == IInv /\ Timer => IInv'
<1> SUFFICES ASSUME IInv, Timer PROVE IInv'
  OBVIOUS
<1>1. CASE Reset
  BY <1>1, ResetInv DEF IInv
<1>2. CASE ~Reset
  <2>1. begin' \in Times /\ due' \in BOOLEAN
    BY <1>2 DEF Timer, IInv, ClockTypeOK
  <2> QED BY <1>2, <2>1, ServedInv DEF Timer
<1> QED BY <1>1, <1>2

-----------------------------------------------------------------------------
(***************************************************************************)
(* The other actions.                                                      *)
(***************************************************************************)

LEMMA SecondInv == IInv /\ Second => IInv'
<1> SUFFICES ASSUME IInv, Second PROVE IInv'
  OBVIOUS
<1> USE DEF IInv, Second
<1> DEFINE next == Plus(cnt, 1)
<1>1. /\ cnt \in Times /\ comp \in Times /\ time \in Times
      /\ next \in Times
      /\ comp # cnt => Since(next, comp) = Since(cnt, comp) - 1
      /\ next # comp => Since(cnt, comp) # 1
      /\ time # cnt => Since(next, time) = Since(cnt, time) - 1
  BY OneNearer DEF ClockTypeOK
<1>2. Since(cnt, cnt) = 0
  BY <1>1, SinceIs, RangeTyped
<1>3. cnt' = next /\ compif' = (compif \/ next = comp)
  OBVIOUS
<1> HIDE DEF next
<1>4. ClockTypeOK'
  <2>1. compif' \in BOOLEAN
    BY <1>3, Zenon
  <2>2. slow' \in BOOLEAN
    <3>1. CASE Setting
      BY <3>1, Zenon
    <3>2. CASE ~Setting
      <4>1. Setting = FALSE
        BY <3>2, SMT DEF Setting
      <4> QED BY <4>1, Zenon
    <3> QED BY <3>1, <3>2
  <2>3. wdt' \in 0..WdtPeriod /\ silence' \in Nat
    BY RangeTyped DEF ClockTypeOK
  <2> QED BY <1>1, <1>3, <2>1, <2>2, <2>3, Zenon DEF ClockTypeOK
<1>5. Phase'
  BY DEF Phase, Out
<1>6. Written'
  <2>1. ASSUME NEW t \in {comp, time}, Setting, Fresh(t) PROVE Fresh(t)'
    <3>1. ~slow /\ slow' /\ Since(cnt, t) = Span
      BY <2>1 DEF Fresh
    <3>2. t # cnt
      BY <1>2, <3>1, RangeTyped
    <3>3. Since(cnt', t) = Span - 1
      BY <1>1, <1>3, <2>1, <3>1, <3>2
    <3> QED BY <3>1, <3>3 DEF Fresh
  <2>2. ASSUME AlarmNear PROVE AlarmNear'
    <3>1. intctrl /\ ~compif /\ Since(cnt, comp) \in 1..Span
      BY <2>2 DEF AlarmNear
    <3>2. comp # cnt
      BY <1>2, <3>1
    <3>3. CASE next = comp
      BY <1>3, <3>1, <3>3 DEF AlarmNear
    <3>4. CASE next # comp
      <4>1. /\ Since(next, comp) = Since(cnt, comp) - 1 /\ Since(cnt, comp) # 1
            /\ Since(cnt, comp) \in 1..Span /\ Span \in Nat
        BY <1>1, <3>1, <3>2, <3>4, RangeTyped
      <4>2. Since(next, comp) \in 1..Span
        BY <4>1
      <4> QED BY <1>3, <3>1, <4>2 DEF AlarmNear
    <3> QED BY <3>3, <3>4
  <2>3. clockPc \in {"enable", "part", "lowLeft", "highLeft"} => Fresh(time)'
    BY <2>1 DEF Written, Setting
  <2>4. clockPc = "clear" /\ ~rearmRaced => Fresh(comp)'
    BY <2>1 DEF Written, Setting
  <2>5. clockPc \in {"watchdog", "feed", "loop", "update"} /\ ~rearmRaced => AlarmNear'
    BY <2>2 DEF Written
  <2>6. time' = time
    OBVIOUS
  <2> QED BY <2>3, <2>4, <2>5, <2>6 DEF Written, Fresh
<1>7. Fed'
  <2>1. /\ silence \in Nat /\ wdt \in Nat /\ WdtPeriod \in Nat /\ Uncounted \in Int
        /\ Uncounted' = Uncounted
    BY RangeTyped DEF ClockTypeOK, Uncounted
  <2>2. silence' <= silence + 1
    BY <2>1
  <2>3. wdtOn' => silence' <= wdt' + 1 + Uncounted'
    BY <2>1, <2>2 DEF Fed
  <2>4. Setting' /\ ~wdtOn' => silence' <= IF slow' THEN 1 ELSE 0
    <3>1. SUFFICES ASSUME Setting, ~wdtOn PROVE silence' <= IF slow' THEN 1 ELSE 0
      BY DEF Setting
    <3>2. ~slow /\ slow'
      BY <3>1
    <3>3. silence <= 0
      BY <3>1, <3>2 DEF Fed
    <3> QED BY <2>1, <2>2, <3>2, <3>3
  <2> QED BY <2>3, <2>4 DEF Fed
<1> QED BY <1>4, <1>5, <1>6, <1>7

LEMMA IgnoredInv == IInv /\ AlarmIgnored => IInv'
<1> SUFFICES ASSUME IInv, AlarmIgnored PROVE IInv'
  OBVIOUS
<1> USE DEF IInv, AlarmIgnored, watchdog
<1>1. ClockTypeOK'
  BY DEF ClockTypeOK
<1>2. Out
  BY DEF Phase
<1>3. Phase' /\ Written' /\ Fed'
  BY <1>2 DEF Phase, Out, Written, Fed, Setting
<1> QED BY <1>1, <1>3

LEMMA SampleInv == IInv /\ Sample => IInv'
<1> SUFFICES ASSUME IInv, Sample PROVE IInv'
  OBVIOUS
<1> USE DEF IInv, Sample, Goto, rtc, watchdog
<1>1. time' \in Times /\ Since(cnt, time') = Span
  BY SpanAhead DEF ClockTypeOK
<1>2. ClockTypeOK'
  BY <1>1 DEF ClockTypeOK
<1>3. Phase' /\ Fed'
  BY DEF Phase, Out, Fed, Uncounted, Setting
<1>4. Written'
  BY <1>1 DEF Written, Fresh
<1> QED BY <1>2, <1>3, <1>4

LEMMA EnableInv == IInv /\ Enable => IInv'
<1> SUFFICES ASSUME IInv, Enable PROVE IInv'
  OBVIOUS
<1> USE DEF IInv, Enable, Goto, watchdog
<1>1. ClockTypeOK'
  BY DEF ClockTypeOK
<1>2. Phase' /\ Fed'
  BY DEF Phase, Out, Fed, Uncounted, Setting
<1>3. Written'
  BY DEF Written, Fresh
<1> QED BY <1>1, <1>2, <1>3

LEMMA WriteHalf ==
  ASSUME ClockTypeOK
  PROVE  /\ WriteLow => comp' \in Times /\ High(comp') = High(comp) /\ Low(comp') = Low(time)
         /\ WriteHigh => comp' \in Times /\ High(comp') = High(time) /\ Low(comp') = Low(comp)
<1>1. /\ High(comp) \in 0..(Base - 1) /\ Low(comp) \in 0..(Base - 1)
      /\ High(time) \in 0..(Base - 1) /\ Low(time) \in 0..(Base - 1)
  BY HalvesTyped DEF ClockTypeOK
<1> QED BY <1>1, HalvesJoined DEF WriteLow, WriteHigh

LEMMA FirstPartInv == IInv /\ FirstPart => IInv'
<1> SUFFICES ASSUME IInv, FirstPart PROVE IInv'
  OBVIOUS
<1> USE WriteHalf DEF IInv, FirstPart, Goto, watchdog
<1>1. ClockTypeOK'
  BY DEF ClockTypeOK
<1>2. Phase' /\ Fed'
  BY DEF Phase, Out, Fed, Uncounted, Setting
<1>3. Written'
  BY DEF Written, Fresh
<1> QED BY <1>1, <1>2, <1>3

LEMMA SecondPartInv == IInv /\ SecondPart => IInv'
<1> SUFFICES ASSUME IInv, SecondPart PROVE IInv'
  OBVIOUS
<1> USE WriteHalf DEF IInv, SecondPart, Goto, watchdog
<1>1. ClockTypeOK'
  BY DEF ClockTypeOK
<1>2. Phase' /\ Fed'
  BY DEF Phase, Out, Fed, Uncounted, Setting
<1>3. ~rearmRaced => comp' = time
  <2>1. ~rearmRaced => High(comp') = High(time) /\ Low(comp') = Low(time)
    BY DEF Written
  <2>2. comp' = High(comp') * Base + Low(comp') /\ time = High(time) * Base + Low(time)
    BY <1>1, HalvesTyped DEF ClockTypeOK
  <2> QED BY <2>1, <2>2
<1>4. Fresh(time) /\ intctrl /\ rearmRaced' = rearmRaced /\ slow' = slow /\ cnt' = cnt /\ clockPc' = "clear"
  BY DEF Written
<1>5. Written'
  BY <1>3, <1>4 DEF Written, Fresh
<1> QED BY <1>1, <1>2, <1>5

LEMMA ClearInv == IInv /\ Clear => IInv'
<1> SUFFICES ASSUME IInv, Clear PROVE IInv'
  OBVIOUS
<1> USE DEF IInv, Clear, Goto, watchdog
<1>1. ClockTypeOK'
  <2>1. time' \in Times
    BY RangeTyped
  <2>2. clockPc' \in {"watchdog", "feed"} /\ compif' = FALSE
    BY DEF ClockTypeOK
  <2> QED BY <2>1, <2>2, Zenon DEF ClockTypeOK
<1>2. after \in {"watchdog", "feed"}
  BY DEF ClockTypeOK
<1>3. Phase'
  BY <1>2 DEF Phase, Out
<1>4. Fed'
  BY <1>2 DEF Fed, Uncounted, Setting
<1>5. Written'
  BY <1>2, RangeTyped DEF Written, Fresh, AlarmNear
<1> QED BY <1>1, <1>3, <1>4, <1>5

LEMMA BootInv == IInv /\ (BootSync \/ Boot) => IInv'
<1> SUFFICES ASSUME IInv, BootSync \/ Boot PROVE IInv'
  OBVIOUS
<1> USE DEF IInv
<1>1. CASE Reset
  BY <1>1, ResetInv
<1>2. CASE BootSync /\ ~Reset
  <2>1. cnt' \in Times /\ comp' \in Times
    BY <1>2, SpanAhead DEF BootSync
  <2>2. ClockTypeOK'
    BY <1>2, <2>1 DEF BootSync, Goto, ClockTypeOK, watchdog
  <2>3. Phase' /\ Written' /\ Fed'
    BY <1>2 DEF BootSync, Goto, Phase, Out, Written, Fed, Setting, watchdog
  <2> QED BY <2>2, <2>3
<1>3. CASE Boot
  <2>1. ClockTypeOK'
    BY <1>3 DEF Boot, Goto, ClockTypeOK, rtc, watchdog
  <2>2. Phase' /\ Written' /\ Fed'
    BY <1>3 DEF Boot, Goto, Phase, Out, Written, Fed, Setting, rtc, watchdog
  <2> QED BY <2>1, <2>2
<1> QED BY <1>1, <1>2, <1>3

LEMMA EnableWatchdogInv == IInv /\ EnableWatchdog => IInv'
<1> SUFFICES ASSUME IInv, EnableWatchdog PROVE IInv'
  OBVIOUS
<1> USE DEF IInv, EnableWatchdog, Goto, rtc, Enabled
<1>1. ClockTypeOK'
  <2>1. wdt' \in 0..WdtPeriod
    BY RangeTyped
  <2> QED BY <2>1, Zenon DEF ClockTypeOK
<1>2. Phase'
  BY DEF Phase, Out
<1>3. Written'
  BY DEF Written, AlarmNear
<1>4. silence <= 1
  BY DEF Fed, Phase, Setting, ClockTypeOK
<1>5. Fed'
  BY <1>4, RangeTyped DEF Fed, Uncounted, Setting, ClockTypeOK
<1> QED BY <1>1, <1>2, <1>3, <1>5

LEMMA SetTimeInv == IInv /\ SetTime => IInv'
<1> SUFFICES ASSUME IInv, SetTime PROVE IInv'
  OBVIOUS
<1> USE DEF IInv, SetTime, Goto, watchdog
<1>1. ClockTypeOK'
  BY DEF ClockTypeOK
<1>2. Phase' /\ Written'
  BY DEF Phase, Out, Written
<1>3. Fed'
  BY DEF Fed, Uncounted, Setting
<1> QED BY <1>1, <1>2, <1>3

LEMMA AnswerInv == IInv /\ Answer => IInv'
<1> SUFFICES ASSUME IInv, Answer PROVE IInv'
  OBVIOUS
<1> USE DEF IInv, Answer, AfterAnswer, Goto, rtc, watchdog
<1>1. ClockTypeOK'
  BY DEF ClockTypeOK
<1>2. Phase' /\ Written' /\ Fed'
  BY DEF Phase, Out, Written, Fed, Uncounted, Setting
<1> QED BY <1>1, <1>2

LEMMA FeedInv == IInv /\ Feed => IInv'
<1> SUFFICES ASSUME IInv, Feed PROVE IInv'
  OBVIOUS
<1> USE DEF IInv, Feed, Goto, rtc
<1>1. ClockTypeOK'
  <2>1. wdt' \in 0..WdtPeriod
    BY RangeTyped
  <2> QED BY <2>1, Zenon DEF ClockTypeOK
<1>2. Phase'
  BY DEF Phase, Out
<1>3. Written'
  BY DEF Written, AlarmNear
<1>4. Fed'
  BY RangeTyped DEF Fed, Uncounted, Setting, ClockTypeOK, Phase
<1> QED BY <1>1, <1>2, <1>3, <1>4

LEMMA UpdateInv == IInv /\ (StopDatalogger \/ StartUpdate) => IInv'
<1> SUFFICES ASSUME IInv, StopDatalogger \/ StartUpdate PROVE IInv'
  OBVIOUS
<1> USE DEF IInv, Goto, rtc
<1>1. CASE Reset
  BY <1>1, ResetInv
<1>2. CASE StopDatalogger
  <2>1. ClockTypeOK'
    <3>1. wdt' \in 0..WdtPeriod /\ silence' \in Nat
      BY <1>2, RangeTyped DEF StopDatalogger
    <3> QED BY <1>2, <3>1, Zenon DEF StopDatalogger, ClockTypeOK
  <2>2. Phase' /\ Written' /\ Fed'
    BY <1>2 DEF StopDatalogger, Phase, Out, Written, Fed, Setting
  <2> QED BY <2>1, <2>2
<1>3. CASE StartUpdate /\ ~Reset
  <2>1. ClockTypeOK'
    <3>1. begin' \in Times
      BY <1>3, RangeTyped DEF StartUpdate
    <3> QED BY <1>3, <3>1, Zenon DEF StartUpdate, ClockTypeOK, watchdog
  <2>2. Phase' /\ Written' /\ Fed'
    BY <1>3 DEF StartUpdate, Phase, Out, Written, Fed, Setting, watchdog
  <2> QED BY <2>1, <2>2
<1> QED BY <1>1, <1>2, <1>3

LEMMA NextInv == IInv /\ [ClockNext]_clockVars => IInv'
<1> SUFFICES ASSUME IInv, [ClockNext]_clockVars PROVE IInv'
  OBVIOUS
<1>1. CASE UNCHANGED clockVars
  BY <1>1 DEF IInv, ClockTypeOK, Phase, Out, Written, Fresh, AlarmNear, Fed, Uncounted, Setting, clockVars
<1>2. CASE WatchdogExpires
  BY <1>2, ResetInv DEF WatchdogExpires, IInv
<1>3. CASE Alarm
  BY <1>3, IgnoredInv, TickInv, TimerInv DEF Alarm
<1>4. CASE Steps
  BY <1>4, SampleInv, EnableInv, FirstPartInv, SecondPartInv, ClearInv, BootInv,
     EnableWatchdogInv, AnswerInv, FeedInv, UpdateInv DEF Steps
<1>5. CASE Second \/ SetTime \/ StopDatalogger
  BY <1>5, SecondInv, SetTimeInv, UpdateInv
<1> QED BY <1>1, <1>2, <1>3, <1>4, <1>5 DEF ClockNext

THEOREM Inductive == ClockSpec => []IInv
  BY InitInv, NextInv, PTL DEF ClockSpec

\* The next alarm is near while the loop runs or an update does, whatever time the
\* server gives and whenever the interrupts come, unless one came between the
\* parts of rtc_set_alarm's write.
THEOREM AlarmComes == ClockSpec => []AlarmNearUnlessRaced
<1>1. IInv => AlarmNearUnlessRaced
  BY DEF IInv, Written, AlarmNearUnlessRaced
<1> QED BY <1>1, Inductive, PTL

\* The watchdog bounds the time without a tick: no number of synchronisations, torn
\* alarms and clocks set makes it longer than three of its periods and a second.
THEOREM SilenceBounded == ClockSpec => []SilenceIsShort
<1>1. IInv => SilenceIsShort
  <2> SUFFICES ASSUME IInv PROVE SilenceIsShort
    OBVIOUS
  <2> USE RangeTyped DEF IInv, SilenceIsShort
  <2>1. CASE wdtOn
    BY <2>1 DEF Fed, Uncounted, ClockTypeOK
  <2>2. CASE ~wdtOn
    BY <2>2 DEF Fed, Phase, Out, Setting, ClockTypeOK
  <2> QED BY <2>1, <2>2
<1> QED BY <1>1, Inductive, PTL
=============================================================================
