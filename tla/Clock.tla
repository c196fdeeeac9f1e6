------------------------------- MODULE Clock --------------------------------
(***************************************************************************)
(* What keeps the station's time: the counter with its alarm (rtc32.c), the *)
(* watchdog (wdt.c), the two callbacks of the alarm, datalogger_tick and    *)
(* fw_update_timer, and the places of the main loop that set them, with     *)
(* interrupts on.  The alarm register is written in parts.                  *)
(***************************************************************************)
EXTENDS Integers

CONSTANTS
  Base,       \* a register part holds 0 to Base - 1; 2^16
  Span,       \* g_timespan, the seconds of rtc_set_alarm_relative
  WdtPeriod,  \* the watchdog's seconds, 8
  Hour        \* the seconds after which an update is given up, 3600

ASSUME ClockAssumption ==
  /\ Base \in Nat /\ Span \in Nat /\ WdtPeriod \in Nat /\ Hour \in Nat
  /\ Span > 2 /\ Span < WdtPeriod /\ WdtPeriod < Base * Base
  /\ Hour + Span < Base * Base

VARIABLES
  cnt, comp,  \* RTC32.CNT, RTC32.COMP
  compif,     \* RTC32.INTFLAGS: the counter has met the alarm
  intctrl,    \* RTC32.INTCTRL: the alarm interrupts
  callback,   \* rtc_data.callback: "none", "tick" or "timer"
  wdtOn, wdt, \* the watchdog and its seconds
  clockPc, after,  \* where the main loop is, and where it goes after rtc_set_alarm
  time,       \* the alarm time it writes
  slow,       \* a second has passed within rtc_set_alarm_relative
  begin,      \* g_timeBegin
  due,        \* a tick has come since the last sync
  silence,    \* seconds since the last tick or timer, while one is set
  rearmRaced       \* an alarm has come between the parts of a write

clockVars == <<cnt, comp, compif, intctrl, callback, wdtOn, wdt, clockPc, after, time, slow, begin, due, silence, rearmRaced>>

rtc == <<cnt, comp, compif, intctrl>>
watchdog == <<wdtOn, wdt>>

ClockRange == Base * Base
Times == 0..(ClockRange - 1)
Plus(t, n) == (t + n) % ClockRange
Since(t, u) == (u - t) % ClockRange

Low(t) == t % Base
High(t) == t \div Base

ClockInit ==
  /\ cnt = 0 /\ comp = 0 /\ compif = FALSE /\ intctrl = FALSE
  /\ callback = "none" /\ wdtOn = FALSE /\ wdt = 0
  /\ clockPc = "boot" /\ after = "watchdog" /\ time = 0 /\ slow = FALSE
  /\ begin = 0 /\ due = FALSE /\ silence = 0 /\ rearmRaced = FALSE

Goto(p) == clockPc' = p

\* A reset of the controller.  The counter outlives it, and datalogger_init sets it
\* to DL_T0.
Reset ==
  /\ cnt' = 0 /\ compif' = FALSE /\ intctrl' = FALSE /\ callback' = "none"
  /\ wdtOn' = FALSE /\ wdt' = 0
  /\ Goto("boot") /\ after' = "watchdog" /\ time' = 0 /\ slow' = FALSE
  /\ begin' = 0 /\ due' = FALSE /\ silence' = 0 /\ rearmRaced' = FALSE
  /\ UNCHANGED comp

\* The main loop inside of rtc_set_alarm_relative.
Setting == clockPc \in {"sample", "enable", "part", "lowLeft", "highLeft", "clear", "watchdog", "feed"}

\* A second; an interrupt is served within one.
Second ==
  /\ ~(compif /\ intctrl)
  /\ ~(wdtOn /\ wdt = WdtPeriod)
  /\ Setting => ~slow
  /\ cnt' = Plus(cnt, 1)
  /\ compif' = (compif \/ cnt' = comp)
  /\ wdt' = (IF wdtOn THEN wdt + 1 ELSE 0)
  /\ slow' = Setting
  /\ silence' = (IF callback = "none" THEN 0 ELSE silence + 1)
  /\ UNCHANGED <<comp, intctrl, callback, wdtOn, clockPc, after, time, begin, due, rearmRaced>>

WatchdogExpires == wdtOn /\ wdt = WdtPeriod /\ Reset

-----------------------------------------------------------------------------
(***************************************************************************)
(* The alarm interrupt, RTC32_COMP_vect.                                   *)
(***************************************************************************)

HalfWritten == clockPc \in {"lowLeft", "highLeft"}

\* rtc_set_alarm within an interrupt, and wdt_reset.
Rearm ==
  /\ comp' = Plus(cnt, Span) /\ intctrl' = TRUE /\ compif' = FALSE
  /\ wdt' = 0 /\ silence' = 0
  /\ rearmRaced' = HalfWritten

\* Nobody has set a callback.
AlarmIgnored ==
  /\ compif /\ intctrl /\ callback = "none"
  /\ compif' = FALSE /\ intctrl' = FALSE
  /\ UNCHANGED <<cnt, comp, callback, watchdog, clockPc, after, time, slow, begin, due, silence, rearmRaced>>

\* datalogger_tick, as far as the clock goes; it resets the controller when an
\* upload hangs.
ClockTick ==
  /\ compif /\ intctrl /\ callback = "tick"
  /\ \/ /\ Rearm /\ due' = TRUE
        /\ UNCHANGED <<cnt, callback, wdtOn, clockPc, after, time, slow, begin>>
     \/ Reset

\* (Variant: the hour is counted from each alarm.)
ExpiredNever(b) == FALSE
Expired(b) == Since(b, cnt) > Hour

\* fw_update_timer; 0 stands for a time that is not set.
Timer ==
  /\ compif /\ intctrl /\ callback = "timer"
  /\ LET b == IF begin = 0 THEN cnt ELSE begin
     IN \/ /\ ~Expired(b)
           /\ Rearm /\ begin' = b
           /\ UNCHANGED <<cnt, callback, wdtOn, clockPc, after, time, slow, due>>
        \/ Expired(b) /\ Reset

Alarm == AlarmIgnored \/ ClockTick \/ Timer

-----------------------------------------------------------------------------
(***************************************************************************)
(* The main loop.  rtc_set_alarm_relative, step by step:                   *)
(***************************************************************************)

Sample ==
  /\ clockPc = "sample"
  /\ time' = Plus(cnt, Span) /\ Goto("enable")
  /\ UNCHANGED <<rtc, callback, watchdog, after, slow, begin, due, silence, rearmRaced>>

Enable ==
  /\ clockPc = "enable"
  /\ intctrl' = TRUE /\ Goto("part")
  /\ UNCHANGED <<cnt, comp, compif, callback, watchdog, after, time, slow, begin, due, silence, rearmRaced>>

\* The compiler chooses which part it writes first.
WriteLow == comp' = High(comp) * Base + Low(time)
WriteHigh == comp' = High(time) * Base + Low(comp)

FirstPart ==
  /\ clockPc = "part"
  /\ (WriteLow /\ Goto("highLeft")) \/ (WriteHigh /\ Goto("lowLeft"))
  /\ UNCHANGED <<cnt, compif, intctrl, callback, watchdog, after, time, slow, begin, due, silence, rearmRaced>>

SecondPart ==
  /\ (clockPc = "highLeft" /\ WriteHigh) \/ (clockPc = "lowLeft" /\ WriteLow)
  /\ Goto("clear")
  /\ UNCHANGED <<cnt, compif, intctrl, callback, watchdog, after, time, slow, begin, due, silence, rearmRaced>>

Clear ==
  /\ clockPc = "clear"
  /\ compif' = FALSE /\ Goto(after) /\ time' = 0
  /\ UNCHANGED <<cnt, comp, intctrl, callback, watchdog, after, slow, begin, due, silence, rearmRaced>>

\* datalogger_init: after ten refused synchronisations the controller is reset; one
\* that succeeds sets the clock and an alarm that has no callback.
BootSync ==
  /\ clockPc = "boot"
  /\ \/ Reset
     \/ /\ cnt' \in Times /\ comp' = Plus(cnt', Span)
        /\ intctrl' = TRUE /\ compif' = FALSE
        /\ Goto("synced")
        /\ UNCHANGED <<callback, watchdog, after, time, slow, begin, due, silence, rearmRaced>>

\* Its end: the callback, then the alarm.
Boot ==
  /\ clockPc = "synced"
  /\ callback' = "tick"
  /\ Goto("sample") /\ after' = "watchdog" /\ slow' = FALSE
  /\ UNCHANGED <<rtc, watchdog, time, begin, due, silence, rearmRaced>>

\* (Variant: the watchdog stays off.)
StaysOff == FALSE
Enabled == TRUE

\* wdt_set_timeout_period, wdt_enable, at the end of datalogger_init and of
\* fw_update_init.
EnableWatchdog ==
  /\ clockPc = "watchdog"
  /\ wdtOn' = Enabled /\ wdt' = 0 /\ slow' = FALSE
  /\ Goto(IF callback = "timer" THEN "update" ELSE "loop")
  /\ UNCHANGED <<rtc, callback, after, time, begin, due, silence, rearmRaced>>

\* dl_task_sync_time, which only datalogger_tick makes READY, between cli and sei:
\* rtc_set_time, to what the server says.
\* The counter may meet the alarm by it.
SetTime ==
  /\ clockPc = "loop" /\ due
  /\ cnt' \in Times
  /\ compif' \in {compif} \cup (IF cnt' = comp THEN {TRUE} ELSE {})
  /\ Goto("answer") /\ due' = FALSE /\ rearmRaced' = FALSE
  /\ UNCHANGED <<comp, intctrl, callback, watchdog, after, time, slow, begin, silence>>

\* (Variant: the alarm is not set anew.)
LoopAgain == "loop"
AfterAnswer == "sample"

\* sim900_http_close and the log, for any time, then the alarm,
Answer ==
  /\ clockPc = "answer"
  /\ Goto(AfterAnswer) /\ after' = "feed" /\ slow' = FALSE
  /\ UNCHANGED <<rtc, callback, watchdog, time, begin, due, silence, rearmRaced>>

\* and wdt_reset.
Feed ==
  /\ clockPc = "feed"
  /\ wdt' = 0 /\ Goto("loop") /\ slow' = FALSE
  /\ UNCHANGED <<rtc, callback, wdtOn, after, time, begin, due, silence, rearmRaced>>

\* dl_cmd_fw_update: datalogger_stop,
StopDatalogger ==
  /\ clockPc = "loop"
  /\ wdtOn' = FALSE /\ wdt' = 0 /\ callback' = "none" /\ silence' = 0
  /\ Goto("stopped")
  /\ UNCHANGED <<rtc, after, time, slow, begin, due, rearmRaced>>

\* and fw_update_init: the modem, which it re-initialises up to nine times before
\* it resets the controller, and the timer.
StartUpdate ==
  /\ clockPc = "stopped"
  /\ \/ Reset
     \/ /\ begin' = 0 /\ callback' = "timer"
        /\ Goto("sample") /\ after' = "watchdog" /\ slow' = FALSE
        /\ UNCHANGED <<rtc, watchdog, time, due, silence, rearmRaced>>

Steps ==
  \/ Sample \/ Enable \/ FirstPart \/ SecondPart \/ Clear
  \/ BootSync \/ Boot \/ EnableWatchdog \/ Answer \/ Feed \/ StartUpdate

ClockNext == Second \/ WatchdogExpires \/ Alarm \/ Steps \/ SetTime \/ StopDatalogger

\* Time passes, interrupts are served and the main loop goes on.
ClockFairness ==
  /\ WF_clockVars(Second) /\ WF_clockVars(WatchdogExpires) /\ WF_clockVars(Alarm) /\ WF_clockVars(Steps)

ClockSpec == ClockInit /\ [][ClockNext]_clockVars /\ ClockFairness

-----------------------------------------------------------------------------
ClockTypeOK ==
  /\ cnt \in Times /\ comp \in Times /\ time \in Times /\ begin \in Times
  /\ compif \in BOOLEAN /\ intctrl \in BOOLEAN /\ wdtOn \in BOOLEAN
  /\ slow \in BOOLEAN /\ due \in BOOLEAN /\ silence \in Nat /\ rearmRaced \in BOOLEAN
  /\ callback \in {"none", "tick", "timer"}
  /\ wdt \in 0..WdtPeriod
  /\ clockPc \in {"boot", "synced", "sample", "enable", "part", "lowLeft", "highLeft", "clear",
             "watchdog", "loop", "answer", "feed", "stopped", "update"}
  /\ after \in {"watchdog", "feed"}

\* The alarm is on and comes within g_timespan seconds.
AlarmNear == intctrl /\ (compif \/ Since(cnt, comp) \in 1..Span)

\* While the loop runs, or an update, the next alarm is near: only an alarm that
\* came between the parts of the main loop's own write can have spoilt it.
AlarmNearUnlessRaced == clockPc \in {"loop", "update"} /\ ~rearmRaced => AlarmNear

\* No more than three times the watchdog's time, and the second it takes to start
\* it, lies between two ticks, or two timers: an alarm that is spoilt, or that a
\* synchronisation has left in the past, is found by the watchdog, which no more
\* than two synchronisations feed without a tick between them.
SilenceIsShort == silence <= 3 * WdtPeriod + 1

\* An update is over after its hour, since fw_update_run never returns: by the
\* timer, or by the watchdog.
UpdateEnds == clockPc = "update" ~> clockPc = "boot"
=============================================================================
