# Tergola: a verification of the weather station's firmware

Tergola is the firmware of a battery-powered weather and water-level station:
an ATxmega controller with interrupts but no operating system, a SIM900 GPRS
modem on a serial line, a 512 KB I2C EEPROM for the records, and sensors. It
samples, stores the samples in the EEPROM, uploads them over HTTP, sets its
clock from a server and obeys a few commands. Source paths below are relative to
`src/AcroboardStation_v01_nousb_Tergola/`; `datalogger.c` is
`tergola/services/datalogger/datalogger.c`.

The repository has no tests, and what documents it has is about renaming the
project and about licences. What the program promises is in its comments and in
the way its parts rely on each other, and the properties below are taken from
there.

## 1. The system

### Components, their state and operations

| Component | State | Operations | What makes it correct |
|---|---|---|---|
| Scheduler (`datalogger.c`) | `task_status_*` (STOP, READY, RUNNING), three `g_acc_task_*` accumulators, `dl_cycle_lock`, `g_timePrev` | `datalogger_init`, `datalogger_tick` (interrupt), `datalogger_run` | each READY task is started; tick and main loop do not disturb each other's data; a hung upload is reset and nothing else is |
| Snapshot ring | `g_data_snapshot[]`, `_beg`, `_end` | `dl_snapshot_make` (tick), `dl_task_store_data` (loop) | every reading becomes one record, in order |
| Record log | bytes 256..524287 of the EEPROM, `g_eeprom_iter[LOG_BEGIN, LOG_END]` | append, read backwards, set the sent flag | the newest records read back whole after any reset and any wrap |
| Saved iterators | page 0 of the EEPROM: a magic and two partitions of eight words | format, boot, save | a reset finds the old or the new value |
| Upload sessions | `dl_send_params_RT`, `dl_send_params`, the flags in the EEPROM | prepare, `send_data_with_post`, GET_BY_DATE_RANGE | no session skips a record behind the iterator it began with, nothing is flagged that was not acknowledged, everything is sent in the end |
| Search by date | locals | `dl_search_record_by_date` | it ends, and finds the record |
| Command check | -- | `dl_task_cmd_check` | its commands start the right session |
| Time synchronisation and alarm (`rtc32.c`, `wdt.c`) | the RTC's counter and alarm register, the callback, the watchdog, `g_timePrev` | `dl_task_sync_time`, `rtc_set_alarm_relative`, the alarm interrupt | a clock that jumps neither stops the tick nor makes it reset the station; the next alarm is near, or the watchdog comes |
| Modem driver (`sim900.c`) | state inside the modem: bearer, HTTP session; the receive ring | commands with repeated tries, waits for an answer, GET, POST | an answer is taken for the command it belongs to |
| Receive ring (`cbuffer_usart.*`) | eight bytes, head, tail | interrupt, `GetByte`, flush | bytes arrive in order, a flush forgets |
| Readers of answers (`sim900.c`) | locals and the caller's buffer | `sim900_wait4dictionary`, `sim900_read_string`, `sim900_read_data` | no word is missed, no other status reads as 200 |
| I2C master (`twim.c`, `AT24CXX.c`) | one descriptor for all transfers | `twi_master_transfer`, the interrupt handler | success means that all bytes were moved; transfers do not mix |
| Level sensor (`MB7040.c`) | measure buffer and index | a reading per turn of the loop; statistics and reset in the tick | no reading is lost or counted twice |
| Rain gauge | tip statistics | an interrupt per tip | (nothing uses the count) |
| Firmware update | `g_timeBegin`, chunk reader | `fw_update_init`, `fw_update_run`, its own alarm | it comes to an end |
| Configuration | internal EEPROM, read only | `cfg_get_*` | -- |
| `IDF.c`, `taskman.c`, `libemqtt.c` | -- | not called, or empty | -- |

### How they interact

The RTC alarm runs `datalogger_tick` in interrupt context. It adds the elapsed
time to the accumulators and makes tasks READY; when the store task becomes
READY it also reads the sensors and fills the snapshot ring. The main loop tests
the tasks in a fixed order (store, prepare, send, command check, range upload,
sync), runs each READY one to its end, goes round again while some are READY,
and sleeps until the next tick. There is no lock: the task's status is the only
thing that keeps tick and loop apart. The tick feeds the watchdog. All waiting,
for the modem or the I2C bus, is done inside the tasks, so the main loop may
stand for minutes while the tick goes on. The uploads read and flag the records
that the store task writes; between two batches of an upload all other tasks
have a turn. A command of the server sets the second session and makes its task
READY. `dl_task_sync_time` moves the clock under the tick.

### What is hard

* The tick comes between any two instructions of the loop (statuses read and
  overwritten, a 32-bit accumulator written in four stores, the sleep).
* Resets, by the tick, the watchdog or the battery, between any two transfers
  to the EEPROM; transfers whose failure nobody notices.
* A log that is a ring of bytes not divisible by the record size, across pages
  that a transfer must not cross, read backwards.
* Sessions that go on over many rounds while the log grows and the other
  session flags records.
* Answers that come late or never.
* Retries, failing again and again, beside a sampling that must go on.

`PROJECT.json` lists each of these hazards at its line.

## 2. The modules

| Module | Models |
|---|---|
| `Scheduler` | the tick, the main loop and its tasks |
| `SnapshotQueue` | abstract: what the ring of snapshots promises |
| `LogAddress` | address arithmetic of the log: pure operators |
| `EepromLog` | the record log on the chip, byte by byte |
| `Iterators` | the saved iterators, transfer by transfer |
| `SavedIterator` | abstract: one copy of LOG_END, replaced in one step |
| `Upload` | the two upload sessions over a log of numbered records |
| `DateSearch` | the search by date of the server's range |
| `Sim900` | external: the modem as the driver's commands expect it |
| `ModemCalls` | the calls of `sim900.c` as tables of steps |
| `Modem` | the tasks that use the modem, command by command, with faults |
| `UsartRing` | the receive ring, access by access |
| `AnswerText` | the readers of what the ring delivers, symbol by symbol |
| `TwiMaster` | the I2C master under EEPROM and level sensor |
| `LevelSensor` | readings of the loop against statistics of the tick |
| `Clock` | counter, alarm, watchdog, and the places that set them |
| `MC...` | the instances for TLC |
| `SchedulerProofs`, `EepromLogProofs` (with `LogAddress`), `IteratorsProofs`, `UploadProofs` (with `DateSearch`), `ModemProofs` (with `ModemCalls`), `ReceiveProofs` (`UsartRing`, `AnswerText`), `DeviceProofs` (`TwiMaster`, `LevelSensor`), `ClockProofs` | the theorems |

The modules meet where one gives the other its outcomes. `Scheduler` and `Upload`
take a call of the modem as its result; `Modem` shows what the result stands for
(`PostAccepted`: success means that the server took this very data) and that the
call ends (`TasksEnd`). `Modem` takes the answer as a token; `AnswerText` and
`UsartRing` are how tokens come out of the bytes. `EepromLog` and `Iterators`
take a transfer as done or not done; `TransferComplete` of `TwiMaster` is why a
transfer that reports success was done as a whole. `Scheduler` takes the alarm as
something that comes or the watchdog does; `Clock` shows it. These joints are
read, not checked as refinements: the state of `Modem` beside that of `Scheduler`
is out of TLC's reach.

### Scheduler

State: `status` is `task_status_*`; `accStore`, `accSend`, `accSync` are the
accumulators; `snapshot`, `beg`, `end` the ring; `task` and `step` say where the
main loop is; `iterSet` whether the two `iter_send` are set; `bearer` the state
of the modem that survives a reset of the controller; `skew` by how much the
clock was moved since the last tick; `stored` is what the log received last.

`Tick` is the whole of `datalogger_tick`: sums, statuses, snapshot, the wake-up.
It can come at every step of the main loop, except before the callback is
attached (`boot`) and after an update has taken the alarm over. `TickResets` is
its branch with `wdt_reset_mcu`. The main loop has one action per access to a
variable that the tick uses too, and one per call that waits for a device, with
the outcomes of the call as alternatives. An accumulator that is only compared
with its interval is capped there; `accSend` is a word of two digits, wraps, and
is written digit by digit in either order, as the compiler may choose
(`RetryFirstStore`, `RetryLastStore`). A clock that is set back is no step at
all for the tick, because the code moves `g_timePrev` with it; set forwards, the
next tick sees all of it at once (`ClockSteps`). After the clock was set the old
alarm may be far away, so until the re-arm the watchdog can expire
(`WatchdogExpires`).

`EachSnapshotStoredOnce` says that the scheduler implements `SnapshotQueue`
with the readings still in the ring as its queue.

`TasksServed` says that each READY leads to the task's RUNNING. Two things may come
instead, and both are in the formula: a reset, which loses every status; and the
STOP that the preparation stores at its end (`datalogger.c:761`) over a READY that
the tick has set while it ran. That READY starts nothing, but the state in which it
is lost (`Overwritten`) is that of a preparation about to make the upload READY or
to initialise the modem and set the retry delay.

### LogAddress, EepromLog

`Forward` and `Back` are `dl_iterator_moveforward/moveback` by one record,
`HeadOf` and `TailOf` the one or two transfers of a record, `ByteAddress` where
they put and look for each byte, `FlagAddress` the address that
`send_data_with_post` computes. Records of 21 bytes, pages of 256 and the log of
524032 bytes are 5, 8 and 24 in the run: again the ring is no multiple of the
record and END meets its end at every offset. `BackBy` is a step back by any
number of bytes; `EepromLog` uses it to say where the newest records begin
(`Place`).

In `EepromLog` each transfer succeeds or fails and nobody notices, and a reset
comes between any two. `log` is a history of what was stored; names of records
are used again when no record of the history has them. A write reaches the chip
as a whole or not at all, because the chip starts its write cycle on the STOP
condition and drops an interrupted sequence. Two bounds: `Capacity` is how far
back the properties look, `MaxUnsaved` how many records a failing save may leave
behind END (each later reset then loses that many; nothing promises otherwise).

### Iterators

The two partitions of eight words begin two words apart, since the offset in the
code counts bytes: they overlap, and the model keeps the overlap. Formatting,
boot, the search for TAG, the comparison and the two writes of a save are one
transfer per step; `Crash` comes between any two; a failing read keeps what the
buffer held. `Recovered` is what a boot would make of the words as they are; with
it as the abstract value the module implements `SavedIterator`.

### Upload

Records are numbered as they are stored and an iterator is the number of
records before it; addresses are the business of `LogAddress`. `Scan` is one call
of `send_data_with_post` up to the request: what is due between the iterator of
the session and the place where the queue is full, the records are too old or
the log begins. `PostOk`, `PostFails`, `WriteFlag` and `Finish` are the rest,
with a reset (`Crash`) between any two. `posted`, `missed` and `start` are
history; `start` is the newest record a session is about.

The periodic session begins with END as its iterator. That of a range begins with
the address of the record that the search found for `dtEnd` (`datalogger.c:996`), as
the code has it: the iterator has only the records before it behind it, and the
one dated `dtEnd` is not sent (finding 3, `RequestedIsSent`). `NothingSkipped` is
about what lies behind the iterator a session began with (`Began`). It is also only
about sessions that go on or have ended: one that was dropped after an error,
replaced by another GET_BY_DATE_RANGE or lost in a reset promises nothing. What
the periodic session so leaves is due again at the next one (`EveryRecordIsSent`);
what a range leaves the server must ask for again. `Fits` is the number of records whose text fits the buffer.

### DateSearch

One call of `dl_search_record_by_date` with RIGHT_BOUND, its only use, in a log
that has not wrapped; one step per record read. `ExactDateIsFound` is about a date
that a record has, `OlderRecordIsMatch` (finding 4) about any other.

### Sim900, ModemCalls, Modem

`ModemCalls` has one table per call of the driver: a step sends a command (or
nothing), flushes the ring, waits for one of the texts the code looks for, at
most `tries` times, and its table says where each outcome leads, as the code's
conditions do. The `goto init_sim` of `sim900_init`, the two loops of
`sim900_GPRS_init` and the loops over network and GPRS are entries of the table.
`Sim900` is the other side: on or off, bearer, HTTP service, the request under
way, and the phase in which the modem takes bytes as data. To the queries of the SIM
and the network (`AT+CPIN?`, `AT+CREG?`, `AT+CGATT?`) a modem that is on may also say
ERROR, which the reader of a line takes as it does any other text, or nothing.

`Modem` runs the tables: `Send` is `put_string` with the flush, `Hear` a text the
wait recognises, `TimeOut` a wait that ends with nothing; `Move` and `CallEnds`
go on to the next step or call of the task (`After...` are the tasks, line by
line), `BootRound` is the loop of `datalogger_init` with the power cut. Faults: an
answer later than its wait, which the next command may find in front of its own
(`slow`); a tick before a flush, during which bytes come that the flush drops
(`lost`); a reset of the modem or of the controller. `served` and `clock` are
history.

### UsartRing, AnswerText

`UsartRing` has one action per access of the main loop to an index or the ring;
the interrupt, `Receive`, is atomic and may come up to `Burst` times between two
accesses. Bytes are their numbers. The indices are volatile, so `GetByte` reads the
tail a second time before it writes it. `torn` and `outrun` remember the two situations in which
the ring gives way (section 3). `AnswerText` is one call of a reader on one text
of which the flush may have taken the first symbols. The text may stop anywhere (the
wait of the reader times out), and a symbol is lost when it comes to a full
buffer. What the texts look like, a status line of known form with digits
behind the comma, is `AnswerTextAssumption`. `MCReceive` extends both and takes
the two side by side.

### TwiMaster, LevelSensor

`TwiMaster`: acquire, start, the interrupt handler branch by branch, the two
waits of `twim_release`; the chips answer, refuse or lose arbitration at any byte.
A call is the one or two packages that `AT24CXX.c` and `MB7040.c` make. `busIdle`
is the bus state the second wait looks at.

`LevelSensor`: `g_measureBuffer[g_index++] = ...` is three stores in either of the
orders the compiler may choose, with the tick's statistics and reset between any
two. A transfer that failed leaves noise as its sample; the median of three takes
one of them out.

### Clock

Registers in parts (`Base`), the alarm written part by part in either order with
interrupts on, `rtc_set_alarm_relative` step by step, the interrupt with each of
the two callbacks, the watchdog's seconds. Within one `rtc_set_alarm_relative` a
single second passes at most. The time a server may send is any time. `silence`
counts the seconds without a tick; `raced` is an alarm between the parts of a
write.

## 3. The runs

Some runs take modules side by side that share no state: a behaviour of `devices` is
one of `TwiMaster`, of `LevelSensor` or of `Clock`, one of `iterators` is of the saved
iterators or of the search, one of `receive` is of the ring or of a reader. Each
property is about one of the modules and sees all its behaviours.

| Run | Checks | Result |
|---|---|---|
| `scheduler` | types, one snapshot pending, posts only from a set iterator, ring untouched while drained, resets only while sending, refinement of `SnapshotQueue` | holds, about 2.0 million states |
| `scheduler_liveness` | a hung upload is reset; tasks made READY are started; sampling goes on | holds |
| `log` | newest records intact, flags follow marks | holds |
| `upload` | types, nothing skipped behind the first iterator, no needless repeat, flags stand for answers, every record is sent | holds |
| `upload_buffer` | marked records were in the request | violated: finding 1 |
| `upload_range` | a range that ends without error was sent, its newest record included | violated: finding 3 |
| `iterators` | LOG_BEGIN stays, refinement of `SavedIterator`, a save takes; the search stays inside, ends, finds the record with the date | holds, 55 thousand states |
| `search_endless` | the search ends on a chip that was used before | violated: finding 2 |
| `search_right_bound` | an older record is a match | violated: finding 4 |
| `modem` | a post that succeeds was accepted; an open HTTP service costs one upload; commands are no data; the clock gets the server's line; tasks end, or `sim900_init` starts over for ever | holds, 617 thousand states |
| `receive` | unread bytes are the newest, flushed ones are gone, order; words after a break are found, no other status reads as 200 | holds, 372 thousand states |
| `devices` | a successful transfer moved its bytes, none reaches into the next, each ends; readings and statistics; the next alarm is near, silence is bounded, an update ends | holds, 656 thousand states |

### Findings

1. Sixteen records do not fit the 1024 bytes of the request; those cut off are
   flagged as sent (`datalogger.c:1412`). In the model a queue of two of which
   one fits.
2. The forward search stops at LOG_END, but its exit tests
   LOG_LAST_VALID_ADDRESS; with an old record left at LOG_END it never ends, and
   the tick feeds the watchdog for ever (`datalogger.c:942`).
3. A range upload begins with the address of the newest record asked for in the
   place of an iterator behind it (`datalogger.c:996`); `send_data_with_post` steps
   back before it reads (1384), or quits at the first record of the log (1339), and
   ends without error. That record is never sent.
4. "RIGHT bound we have a match", says the comment at `datalogger.c:959` of an older
   record. But a first stride of 128 makes eight turns, and a search without an
   exact match ends on a later record, for which RIGHT_BOUND reports failure: a
   range "until now" sends nothing.

### Where the code gives way

What the properties above exclude, by a condition or by a bound.

* The flag address of a record that crosses the end of the ring is not wrapped
  and lies behind the chip (`datalogger.c:1432`); the periodic upload sends such
  a record again while it is young. In `EepromLog` such a flag is never set, and
  `FlagsFollowMarks` is of the flags that are written on the chip.
* The comment at `datalogger.c:354` promises a circular buffer that spreads the
  saves; value and TAG go back to the words they came from. A failing read of a
  word at boot can make the TAG itself the LOG_END (`datalogger.c:336`).
  `SaveTakes` is the complement: a failing read during a save does no harm,
  because of the redundant TAGs. Two can.
* The delay "Schedule the SEND task after 30 seconds" (`datalogger.c:1647`) is not
  guaranteed, as the tick may make the upload due while `sim900_init` runs.
* `sim900_init` goes back to its beginning, uncounted, after any answer to `AT+CREG?`
  that is not `+CREG:`, and after none (`sim900.c:705`). A modem that is on and
  never gives that line keeps the task for ever; `TasksEnd` names this as the one
  way in which a task does not end. If the upload is not among the tasks that wait,
  nothing resets the station.
* A record taken with END at LAST is lost: LAST is a legal value of END, but the
  transfer goes to an address behind the chip. In `EepromLog` such a transfer
  (`OnChip`) leaves the record's `ok` false, as one that the bus refused does, and
  `NewestRecordsIntact` and `FlagsFollowMarks` are of the other records only.
* "If any of the tasks is getting unscheduled for too long ... a system reset"
  (`datalogger.c:182`): the tick looks at the upload's accumulator alone, which it
  clears while no upload is due. Any other task that hangs is never reset, and the
  tick feeds the watchdog. `HungUploadIsReset` is of the upload.
* Modem: after a fault a late line can be read as the time and set the clock;
  a late OK in place of the `+SAPBR:` line makes `sim900_GPRS_init` report a bearer
  that is not open, and so do ten answers "connecting" (`sim900.c:932`); a failing
  `http_get` at boot leaves the HTTP service open and all further tries of that
  loop are refused, up to the reset; a session that closes the bearer closes it
  under the other one. None of them makes a post report a success the server
  does not know of. Two late answers can: a
  synchronisation gives up its GET while the request runs and leaves the HTTP
  service open, a late answer puts an older OK in the place of the next upload's
  refused `AT+HTTPINIT`, a second one in that of its refused `AT+HTTPACTION=1`, and the `+HTTPACTION:` line of the old
  GET is read as the end of the post. TLC finds this with `MaxLate = 2`, so
  `PostAccepted` is stated for one late answer. With four symbols lost at a flush
  another line could read as status 200; three, the run's bound, cannot.
* Ring: `usart_buffer_flush` stores tail and head with the interrupt on
  (`buffer_usart.h:62`). A byte between the two stores, at a head about to wrap,
  leaves seven stale bytes until the next flush (`torn`), and the wait that follows
  may find a word of an earlier answer in them; `UnreadIsNewest`, `FlushForgets`
  and `DeliveredInOrder` do not speak of that time. When several interrupts
  find the ring full twice between two accesses of one `GetByte`, as during a
  long tick, a byte can come out of order until the next flush (`outrun`).
* I2C: when the first of two packages is not acknowledged the second is sent
  regardless, and reads from wherever the chip stands; a chip that holds the clock
  line stops the station, as nothing in `twim.c` counts time. The branch of the
  read handler for a master that does not own the bus issues no stop; the hardware
  does not raise it.
* Level sensor: the index wraps at 256 readings between two statistics; from 96
  the window is empty and the mean divides by zero (`WindowGone`). A tick between
  the stores of a reading leaves a stray value, gone after the next statistics.
* Clock: `rtc_set_alarm` writes the alarm in parts with interrupts on; one that
  comes between them leaves an alarm that may be far away, and the watchdog finds
  it.

### Bounds, and why they are enough

* `scheduler`: intervals of two ticks, so that each timer comes due at every
  step of the others; a ring of three slots (the code holds one at a time; three
  tell a wrap from a swap); two readings, to tell order and repetition; a retry
  delay longer than the interval, so that the subtraction wraps, in a word of 8
  written in parts of 4 and 2; clock steps of 0 and of a whole interval; resets
  without limit.
* `scheduler_liveness`: one reading, no clock step (the accumulators with
  steps are in `scheduler`; a step only makes tasks due earlier), a word of 16
  that does not wrap below three intervals.
* `log`: all alignments of a record of 5 to a page of 8 and to the end of a ring
  of 24; two records looked at, one left unsaved; transfers fail without limit.
* `upload`: three records with batches of two make sessions of one and two
  batches, with and without a rest; one fault, a reset or an unwritten flag, at
  any place; requests are lost without limit.
* `iterators`: three places of LOG_END; the eight words of the code; one failing
  read; resets without limit.
* the search in `iterators`: sorted logs of up to 20 records with every date on, between and
  beyond them, all unsorted logs of up to four; a first stride of 8 = 2^3, which
  has the parity of turns of 128 = 2^7.
* `modem`: loops of two turns instead of ten and eighteen (a turn that succeeds, one
  that does not, and the last); one late answer, one loss at a flush and one reset
  in a behaviour, in any combination and at any place; `MaxLag` of one token
  behind the next command. The calls that no task makes (`Others`) are run alone.
* `receive`: a ring of four, bursts of three, ten bytes, so that head and tail
  wrap twice; three words of which two have a beginning or an end in common,
  every text of up to five symbols, lines of every status of the digits 2, 0
  and 4.
* `devices`: all kinds of calls with up to three bytes; a buffer of eight with a
  window of four, so that a fifth reading leaves the window; two levels and noise
  below and above them.
* the clock in `devices`: registers of two digits of base 4, alarms three seconds ahead, a
  watchdog of five and an update of eight: 16 seconds to the overflow, so an
  alarm can be torn, passed and met again. The margins (`Span > 2`,
  `Span < WdtPeriod`) are assumptions of the module.

### Fairness

`TickSpec`: the alarm fires again and again or else the watchdog expires (the
RTC runs on its own crystal; `Clock` is the argument); the main loop goes on at
every step that does not wait for a device; the update's own timer ends it. No
call is assumed to return, and yet a hung upload ends. `CallsReturn`, assumed by
`TasksServed` and `SamplingGoesOn` only, is that every call does. `TransfersEnd`
shows it of the EEPROM's transfers. `TasksEnd` of `Modem` shows it of the modem's
calls up to one case, which `CallsReturn` takes not to happen: a modem that is on
and never answers `AT+CREG?` with `+CREG:`, for which `sim900_init` starts over
without counting. `SamplingGoesOn` also rests on a sync interval longer than a store
interval's worth of ticks after a boot: were every sync to end in a watchdog
reset and to come before the first sample, the station would never sample. The
shipped intervals are hours against minutes.

`Upload`'s `FairSpec`: a call goes on to its end (weak); the periodic
preparation and the call for its session come again and again (strong, since
other steps of the loop lie between: each round of the loop tests them); and of
the requests of the periodic session, tried for ever, some are answered
(strong). Without that last one no station could promise delivery.

`DateSearch`'s `FairSpec`: the loop goes on.

`Modem`'s `FairSpec`: the controller sends and hears or times out (weak). The
modem owes nothing: it may be off, or refuse the queries of the SIM and the
network or not answer them, for ever. `TasksEnd` is that a task then ends or
`sim900_init` starts over again and again (`StartsOver`).

`TwiMaster`: main loop and interrupt go on, and the bus answers each command
(weak), with a refusal if nothing else: the code waits without a limit.

`Clock`: seconds pass, interrupts are served, the watchdog expires when its time
is over, and the main loop's own steps end (weak). The wait for an answer
(`pc = "answer"`) ends too, since every wait of the driver is counted; how long
it takes is open.

## 4. What is proved

All for every value of the constants under the assumptions named in the
modules; each theorem's proof is checked to its leaves.

* `SchedulerProofs`: `TypeCorrect`, `AtMostOneSnapshot`, `IteratorBeforePost`,
  `RingExclusion`, `ResetWhileSending`, and the refinement `RingImplementsQueue`.
  The invariant is `TypeOK /\ PositionOK /\ StoreInv /\ UploadInv /\ DrainInv`.
  None of the properties is inductive: that the ring holds one snapshot at most
  depends on the status being RUNNING exactly while the loop is inside the task
  (`StoreInv`), on `idx` standing between `beg` and `end` (`DrainInv`), and on
  each task having only its own steps (`PositionOK`); that posts start from a
  set iterator depends on which statuses promise one (`UploadInv`).
* `EepromLogProofs`: first the arithmetic, for every record, page and log with
  whole pages: `TransfersFitPages`, `BytesInTheirPlace`, `BackUndoesForward`, and
  `LastIsAnAlias`, the one place where it gives way: LAST is a legal value of an
  iterator and the same place as FIRST for the next step forward, but not for the
  step back. Then the log: `LogTypeCorrect`, `NewestRecordsKept`, `MarksKept`, for
  any capacity that leaves the ring room for one record more
  (`LogCapacityAssumption`). What the properties say of the newest records has to
  hold of all that a reset can make the newest, so `RecordsHeld` goes `unsaved`
  records further back; `WritingHeld` follows the record that is being written
  through its two transfers, and `SavedBehind` puts the saved iterator `unsaved`
  records behind. The rest of the proof is that the bytes of one record are none
  of another's, across the end of the ring.
* `IteratorsProofs`: `IteratorsTypeCorrect`, `BeginIsKept`, the refinement
  `IteratorIsReplacedInOneStep`, and `SavesTake`. The first three rest on
  `SoundUntilFault`: the words are those of a chip that is being formatted
  (`Forming`) or has been (`Formed`), before the place where the search stands
  there was no TAG, and the copies in RAM are what is stored. `SavesTake` is of
  runs in which reads fail, where all this is lost; `OneFault` is what is left of
  it, the words that the two overlapping partitions share (`Firm`). Its hypothesis
  is `MaxReadFaults <= 1`; with two, TLC finds the save that does not take.
* `UploadProofs`: `UploadTypeCorrect`, `SessionsSkipNothing`,
  `FlagsStandForAnswers`, `RepeatsAreMissedFlags`, for every queue length and
  every number of records and faults. The invariant adds `AtWork`: what the
  local variables of a call hold while it runs, and that they are empty between
  calls.
* `UploadProofs`, the search by date: `SearchStays` for every log and stride, and
  `DateIsFound` for the stride of 128 and every sorted log. The invariant
  `Strides` is the heart of it: backwards the strides are 128, 32, 8, 2 and
  forwards 64, 16, 4, 1, so the last stride goes forwards by one record, from a
  record before the date.
* `ModemProofs`: `UploadRefusedOnce`, `DataOnlyInPost`, `ClockFromServer` and
  `PostsAreAccepted`, for any number of turns of the loops, of losses at a flush and
  of resets. The tables of `ModemCalls` are data, and the proofs use of each only
  what its stage promises (`AllTables`: which commands occur, where they lead); the
  actions are restated once in these words (`SendIs`, `HearIs`, `TimeOutIs`). On
  top of the type invariant (`Typed`) there are four layers.
  `Loading` says where the modem may wait for data, with faults and without, and
  `Spoiled` names the way from a post that has failed to the end of its HTTP
  service. `RefusedInv` adds which upload is to blame for a service that is
  initialised. `Reading` knows, without a fault, by its place each text that is
  still to come in a `sim900_http_get`. The last layer follows a post: DOWNLOAD
  comes once (`Announced`, `Own`), so the modem has taken the new data (`DataIn`) and
  one OK answers it (`DataHeard`); hence at `AT+HTTPACTION` no request runs, or
  there is nothing but the end of one to come (`Ready`), the end after its OK is
  that of this post (`PostHeard`), and so is the status that is read (`Waits`).
  Hypothesis of the last theorem alone: `MaxLate <= 1`; with two late answers it
  is false (section 3).
* `ReceiveProofs`, the ring: `NewestUnread`, `FlushIsComplete` and
  `DeliveryInOrder`, for a ring of any length and any number of interrupts between
  two accesses. What is unread says too little: `Below` and `Full` add that the
  bytes in the ring are in order, and `SinceFlush` how far the head has come
  since the flush, going straight or once round the ring. Order is by the number
  of the byte that is due (`Due`): `ByteNext`, `AnsNext` and `CopyNext` say, for
  each access of `GetByte`, how it stands to the byte returned last when one
  interrupt has moved the tail meanwhile.
* `ReceiveProofs`, the readers: `ReaderTypeCorrect`, `WordsAreFound` for any words
  and text, and `StatusIsTheReplys` for any status, length and buffer, when the
  flush takes three symbols at most (`Lost <= 3`; with four it is false). The
  first rests on `Followed`: a word that may be standing behind a symbol of no
  word is being matched from there. The second on `Gathered`: the buffer is what
  has come of the line.
* `DeviceProofs`, the I2C master: `SuccessMeansMoved` and `InterruptsBelong`, for
  packages of any address and length and any set of calls. The invariant ties the
  state of the bus to that of the descriptor: `Turns` says who has the turn
  (command, flag or main loop, one of them), `Counts` and `Moved` that the
  descriptor's counts are those of the chip, one more while a byte is under way.
* `DeviceProofs`, the level sensor: `ReadingsAreKept` for a buffer of any length
  and both orders of the stores; `StatisticsCountReadings`, the part of
  `StatisticsTrue` that says how many readings the statistics are of; `WindowLeft`
  and `WindowGone`, both sides of the 96 readings at which the window of the
  statistics becomes empty.
* `ClockProofs`: `AlarmComes` and `SilenceBounded`, for registers of any width.
  `Written` follows the alarm register through the steps of `rtc_set_alarm`, with
  the interrupt's own writes between them; `Fed` counts how often the watchdog
  was fed since the last tick, and the bound is its sum with the seconds of the
  watchdog.

Only model-checked: all liveness, which is out of the prover's reach (`TasksEnd`
of `Modem` among it); the values in `StatisticsTrue`, whose sort and folds are
definitions by recursion over data.

## 5. What is not modelled, and limits

* Contents of records, the text of requests, configuration strings, logging,
  LEDs, pins: no property is about them. The calendar of the server's answer is
  a choice of the time, the parsing of a command a choice of the command.
* `Upload` and `DateSearch` describe a log that has not wrapped. LOG_BEGIN never
  moves in the code, so on a wrapped log an upload whose date is older than the
  oldest record goes round (a hazard in the list).
* `Upload` lets a flag fail `MaxFaults` times; a record whose flag address lies
  behind the chip always fails, is outside of that and would be sent for ever
  while young.
* `Modem` has numbers and texts of the commands as names. Of the answers to
  `+CPIN:` it has the three that lead somewhere else; the code's table looks for
  "SIM PIN" before "PH_SIM PIN" and "SIM PIN2" and so answers those with the PIN
  of the SIM.
* The firmware update is modelled as what it does to alarm, watchdog and scheduler.
  Its hex reader is not: `fw_update_process_hex_rec` and `em_insert` have no body,
  and the reader marks its end through a pointer to the caller's pointer, so that
  its result is undefined from there on.
* The rain gauge counts its tips in an interrupt, but nothing uses the count: the
  snapshot takes the level, the store adds the voltage, and the statistics are
  printed once, at boot.
* Drivers for voltage, temperature, humidity, gas and dust and the USB monitor
  share no state with another part. `MB7062`, `IDF`, `taskman` and `libemqtt` are
  not called.
* Of the 35 thousand lines of C in the repository about nine thousand are the
  station's own; the rest is Atmel's framework, most of it register definitions
  and drivers for hardware that this program does not use. What the station's
  promises rest on is modelled (`rtc32.c`, `wdt.c`, `twim.c`, the sleep manager);
  the rest has no behaviour that a property of the station could be about, so the
  modelled share of the whole stays below a tenth.

## 6. Plan

Done: the scheduler with its queue, log, iterators, uploads, search, modem,
receive path, I2C master, level sensor and clock, and proofs for all of them.
Left, in this order:

1. `Upload` over `EepromLog`'s flags and wrap, so that a record whose flag lies
   behind the chip is one of `Upload`'s records.
2. Upload and search on a log that has wrapped.
3. `Modem`'s `PostAccepted` and `TasksEnd` as the abstract call of `Scheduler`, as
   a refinement of one call at a time.
4. The update's loop and hex reader, when the code has them.
