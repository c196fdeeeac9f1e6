----------------------------- MODULE Scheduler -----------------------------
(***************************************************************************)
(* The cooperative scheduler of datalogger.c.  Two actors share it:        *)
(*                                                                         *)
(*  - datalogger_tick, the RTC alarm interrupt, which adds the elapsed     *)
(*    time to three accumulators, makes tasks READY and takes a snapshot   *)
(*    of the sensors into a ring;                                          *)
(*  - the main loop datalogger_run, which polls the task states in a fixed *)
(*    order, runs each READY task to its end, and sleeps until the next    *)
(*    tick.                                                                *)
(*                                                                         *)
(* The tick is one atomic step (an interrupt); the main loop moves in      *)
(* small steps, one per access to a variable the tick also uses and one    *)
(* per call that waits for a device, so a tick falls between any two of    *)
(* them.  Time is counted in ticks (g_timespan seconds).                   *)
(***************************************************************************)
EXTENDS Integers, Sequences

CONSTANTS
  IntervStore, IntervSend, IntervSync, \* g_interv_task_*, in ticks
  RetryDelay,             \* the 30 seconds before a failed upload is retried
  StartMin, StartLead,    \* the 60 and the 20 seconds of datalogger_init
  SnapshotSize,           \* SNAPSHOT_SIZE
  Readings, NoReading,    \* contents of a snapshot, and of a cleared slot
  ClockSteps,             \* by how many ticks a time sync moves the clock on
  WordMod, ByteBase       \* a uint32_t, and the part of it one store writes

ASSUME SchedulerAssumption ==
  /\ IntervStore \in Nat \ {0}
  /\ IntervSend  \in Nat \ {0}
  /\ IntervSync  \in Nat \ {0}
  /\ RetryDelay  \in Nat
  /\ StartMin \in Nat /\ StartLead \in 0..StartMin
  /\ SnapshotSize \in Nat \ {0, 1}
  /\ NoReading \notin Readings
  /\ ClockSteps \subseteq Nat
  /\ ByteBase \in Nat \ {0}
  /\ WordMod  \in Nat \ {0}

STOP    == "STOP"
READY   == "READY"
RUNNING == "RUNNING"

Tasks == {"store", "prepRT", "sendRT", "cmdCheck", "send", "sync"}

VARIABLES
  status,     \* task_status_*
  accStore, accSend, accSync,   \* g_acc_task_*
  snapshot,   \* g_data_snapshot
  beg, end,   \* g_data_snapshot_beg, g_data_snapshot_end
  idx,        \* the local idx of dl_task_store_data
  cycleLock,  \* dl_cycle_lock
  task,       \* which task the main loop looks at or runs; "idle" at its end
  step,       \* where in that task the main loop is
  err,        \* the error code of the running task is not zero
  iterSet,    \* iter_send # 0 in dl_send_params_RT and dl_send_params
  bearer,     \* the GPRS bearer of the modem is open
  skew,       \* ticks the clock was moved on since the last tick
  twiOk,      \* AT24CXX_Init returned STATUS_OK to the running store task
  stored      \* the last reading written to the EEPROM log

timers   == <<accStore, accSend, accSync>>
ring     == <<snapshot, beg, end>>
position == <<task, step>>
vars == <<status, accStore, accSend, accSync, snapshot, beg, end, idx,
          cycleLock, task, step, err, iterSet, bearer, skew, twiOk, stored>>

(***************************************************************************)
(* Reset and start.                                                        *)
(***************************************************************************)

\* RAM after a reset of the controller: the initialisers of datalogger.c.
AllStopped    == [t \in Tasks |-> STOP]
NoIterator    == [t \in {"sendRT", "send"} |-> FALSE]
EmptySnapshot == [i \in 0..SnapshotSize-1 |-> NoReading]

Init ==
  /\ status = AllStopped
  /\ accStore = 0 /\ accSend = 0 /\ accSync = 0
  /\ snapshot = EmptySnapshot
  /\ beg = 0 /\ end = 0 /\ idx = 0
  /\ cycleLock = TRUE
  /\ task = "idle" /\ step = "boot"
  /\ err = FALSE
  /\ iterSet = NoIterator
  /\ skew = 0
  /\ twiOk = FALSE
  /\ bearer = FALSE
  /\ stored = NoReading

\* wdt_reset_mcu: RAM is lost, the modem and the EEPROM stay as they are.
Restart ==
  /\ status' = AllStopped
  /\ accStore' = 0 /\ accSend' = 0 /\ accSync' = 0
  /\ snapshot' = EmptySnapshot
  /\ beg' = 0 /\ end' = 0 /\ idx' = 0
  /\ cycleLock' = TRUE
  /\ task' = "idle" /\ step' = "boot"
  /\ err' = FALSE
  /\ iterSet' = NoIterator
  /\ skew' = 0
  /\ twiOk' = FALSE
  /\ UNCHANGED <<bearer, stored>>

\* The first upload is brought forward, unless the interval is short.
FirstSend == IF IntervSend > StartMin THEN IntervSend - StartLead ELSE 0

\* datalogger_init: the modem is power cycled and the time fetched, with
\* retries, before the tick is attached; only then can an alarm fire.
Boot ==
  /\ step = "boot"
  /\ accSend' = FirstSend
  /\ bearer' = FALSE
  /\ beg' = 0 /\ end' = 0
  /\ task' = "store" /\ step' = "check"
  /\ UNCHANGED <<status, accStore, accSync, snapshot, idx, cycleLock, err,
                 iterSet, skew, twiOk, stored>>

(***************************************************************************)
(* The tick.                                                               *)
(***************************************************************************)

\* (Variant: the index does not wrap.)
SlotAfterNoWrap(i) == i + 1

SlotAfter(i) == IF i = SnapshotSize - 1 THEN 0 ELSE i + 1

DeltaT == 1 + skew

\* Two accumulators are only ever compared with their interval: beyond it
\* they are all alike.
Accumulate(acc, interval) ==
  IF acc + DeltaT >= interval THEN interval ELSE acc + DeltaT

SyncDue ==
  /\ status["sync"] = STOP
  /\ Accumulate(accSync, IntervSync) >= IntervSync

\* (Variant: the task's status is not looked at.)
StoreDueWhileBusy == Accumulate(accStore, IntervStore) >= IntervStore

StoreDue ==
  /\ status["store"] = STOP
  /\ Accumulate(accStore, IntervStore) >= IntervStore

SendSum == (accSend + DeltaT) % WordMod

SendDue ==
  /\ status["sendRT"] = STOP
  /\ SendSum >= IntervSend

\* (Variant: the accumulator goes on when the upload is due.)
AccSendGoesOn == SendSum

AccSendNext == IF SendDue THEN 0 ELSE SendSum

\* (Variant: no task is ever taken for hung.)
HungNever == FALSE

Hung == AccSendNext > 3 * IntervSend

Due(t) == \/ t = "sync"   /\ SyncDue
          \/ t = "store"  /\ StoreDue
          \/ t = "prepRT" /\ SendDue

\* The alarm is serviced: not before datalogger_init attaches the callback
\* and not after datalogger_stop detaches it.
Ticking == step \notin {"boot", "fwUpdate"}

\* An interrupt ends sleepmgr_enter_sleep; the loop tests the lock again.
AwakeStep == IF step = "asleep" THEN "testLock" ELSE step

\* dl_snapshot_make: the slot at the end is filled, the one after it cleared.
MakeSnapshot(r) ==
  /\ snapshot' = [snapshot EXCEPT ![end] = r, ![SlotAfter(end)] = NoReading]
  /\ end' = SlotAfter(end)

Tick(r) ==
  /\ Ticking
  /\ ~Hung
  /\ accSync'  = IF SyncDue  THEN 0 ELSE Accumulate(accSync, IntervSync)
  /\ accStore' = IF StoreDue THEN 0 ELSE Accumulate(accStore, IntervStore)
  /\ accSend'  = AccSendNext
  /\ status' = [t \in Tasks |-> IF Due(t) THEN READY ELSE status[t]]
  /\ IF StoreDue THEN MakeSnapshot(r) ELSE UNCHANGED <<snapshot, end>>
  /\ skew' = 0
  /\ cycleLock' = FALSE
  /\ step' = AwakeStep
  /\ UNCHANGED <<beg, idx, task, err, iterSet, bearer, twiOk, stored>>

TickResets ==
  /\ Ticking
  /\ Hung
  /\ Restart

(***************************************************************************)
(* The main loop: the READY tasks in the order datalogger_run tests them.  *)
(***************************************************************************)

\* (Variant: the loop forgets to look at the time sync.)
NextTaskNoSync == [store |-> "prepRT", prepRT |-> "sendRT", sendRT |-> "cmdCheck",
                   cmdCheck |-> "send", send |-> "idle", sync |-> "idle"]

NextTask == [store |-> "prepRT", prepRT |-> "sendRT", sendRT |-> "cmdCheck",
             cmdCheck |-> "send", send |-> "sync", sync |-> "idle"]

FirstStep == [store |-> "init", prepRT |-> "prepare", sendRT |-> "post",
              cmdCheck |-> "prepare", send |-> "post", sync |-> "open"]

At(t, s) == task = t /\ step = s
Goto(s) == task' = task /\ step' = s
Leave == task' = NextTask[task] /\ step' = "check"
Set(t, v) == status' = [status EXCEPT ![t] = v]

\* if (task_status_X == TASK_READY) dl_task_X(): the task starts RUNNING.
Begin(t) ==
  /\ At(t, "check")
  /\ status[t] = READY
  /\ Set(t, RUNNING)
  /\ Goto(FirstStep[t])
  /\ UNCHANGED <<timers, ring, idx, cycleLock, err, iterSet, bearer, skew,
                 twiOk, stored>>

Skip(t) ==
  /\ At(t, "check")
  /\ status[t] # READY
  /\ Leave
  /\ UNCHANGED <<status, timers, ring, idx, cycleLock, err, iterSet, bearer,
                 skew, twiOk, stored>>

\* The loop goes round again while one of four tasks is READY.
Again ==
  /\ At("idle", "check")
  /\ IF \E t \in {"sendRT", "store", "send", "sync"} : status[t] = READY
       THEN task' = "store" /\ step' = "check"
       ELSE Goto("lock")
  /\ UNCHANGED <<status, timers, ring, idx, cycleLock, err, iterSet, bearer,
                 skew, twiOk, stored>>

Lock ==
  /\ At("idle", "lock")
  /\ cycleLock' = TRUE
  /\ Goto("testLock")
  /\ UNCHANGED <<status, timers, ring, idx, err, iterSet, bearer, skew, twiOk,
                 stored>>

\* while (dl_cycle_lock) sleepmgr_enter_sleep(): the test and the sleep
\* instruction are two steps, with interrupts enabled between them.
TestLock ==
  /\ At("idle", "testLock")
  /\ IF cycleLock THEN Goto("asleep") ELSE task' = "store" /\ step' = "check"
  /\ UNCHANGED <<status, timers, ring, idx, cycleLock, err, iterSet, bearer,
                 skew, twiOk, stored>>

\* Any other interrupt (USART, timers, rain gauge) ends the sleep too.
OtherInterrupt ==
  /\ At("idle", "asleep")
  /\ Goto("testLock")
  /\ UNCHANGED <<status, timers, ring, idx, cycleLock, err, iterSet, bearer,
                 skew, twiOk, stored>>

(***************************************************************************)
(* dl_task_store_data.                                                     *)
(***************************************************************************)

\* AT24CXX_Init fails: the records taken so far are given up.
StoreInit ==
  /\ At("store", "init")
  /\ \E ok \in BOOLEAN :
       /\ twiOk' = ok
       /\ IF ok THEN idx' = beg /\ Goto("item") ELSE idx' = idx /\ Goto("quit")
  /\ UNCHANGED <<status, timers, ring, cycleLock, err, iterSet, bearer, skew,
                 stored>>

\* StoreItem is one round of the while loop: a record is written to the EEPROM.
\* (Variant: the index of the drained slot is not moved on.)
IdxStays == idx

IdxNext == SlotAfter(idx)

StoreItem ==
  /\ At("store", "item")
  /\ IF idx # end
       THEN stored' = snapshot[idx] /\ idx' = IdxNext /\ Goto("item")
       ELSE Goto("quit") /\ UNCHANGED <<stored, idx>>
  /\ UNCHANGED <<status, timers, ring, cycleLock, err, iterSet, bearer, skew,
                 twiOk>>

\* The locals of the task end with it (idx, twiOk, and err below, are given
\* their initial values when they die).
StoreQuit ==
  /\ At("store", "quit")
  /\ beg' = end
  /\ idx' = 0
  /\ Goto("stop")
  /\ UNCHANGED <<status, timers, snapshot, end, cycleLock, err, iterSet, bearer,
                 skew, twiOk, stored>>

\* (Variant: the early exit of the task forgets the status.)
StatusAfterFailedStore == IF twiOk THEN STOP ELSE RUNNING

StatusAfterStore == STOP

StoreStop ==
  /\ At("store", "stop")
  /\ Set("store", StatusAfterStore)
  /\ twiOk' = FALSE
  /\ Leave
  /\ UNCHANGED <<timers, ring, idx, cycleLock, err, iterSet, bearer, skew,
                 stored>>

(***************************************************************************)
(* Uploads: preparing the modem, posting, the request of the server.       *)
(***************************************************************************)

\* dl_task_cmd_check_prepare: nothing to do for an empty log; otherwise the
\* EEPROM driver and the bearer come up, or the task fails.
Prepare(outcome) ==
  /\ err' = (outcome = "fail")
  /\ bearer' = (bearer \/ outcome = "open")

PrepareRT ==
  /\ At("prepRT", "prepare")
  /\ \E outcome \in {"empty", "open", "fail"} :
       /\ Prepare(outcome)
       /\ iterSet' = [iterSet EXCEPT !["sendRT"] = @ \/ outcome # "fail"]
  /\ Goto("stop")
  /\ UNCHANGED <<status, timers, ring, idx, cycleLock, skew, twiOk, stored>>

PrepareRTStop ==
  /\ At("prepRT", "stop")
  /\ Set("prepRT", STOP)
  /\ err' = FALSE
  /\ Goto(IF err THEN "reinit" ELSE "ready")
  /\ UNCHANGED <<timers, ring, idx, cycleLock, iterSet, bearer, skew,
                 twiOk, stored>>

PrepareRTReady ==
  /\ At("prepRT", "ready")
  /\ Set("sendRT", READY)
  /\ Leave
  /\ UNCHANGED <<timers, ring, idx, cycleLock, err, iterSet, bearer, skew,
                 twiOk, stored>>

\* Post is send_data_with_post, one call: another batch is left ("more", the 99 of
\* the code), all is sent or nothing is to send ("done"), or it failed.  A
\* post goes through only over an open bearer.  iter_send is cleared unless a
\* batch is left.
\* (Variant: the iterator is cleared on every way out.)
KeepsNoIterator(outcome) == FALSE

KeepsIterator(outcome) == outcome = "more"
Post(t) ==
  /\ At(t, "post") /\ t \in {"sendRT", "send"}
  /\ \E outcome \in {"more", "done", "fail"} :
       /\ outcome = "more" => bearer
       /\ iterSet' = [iterSet EXCEPT ![t] = KeepsIterator(outcome)]
       /\ err' = (outcome = "fail")
       /\ IF outcome = "more"
            THEN Set(t, READY) /\ Leave
            ELSE UNCHANGED status /\ Goto("close")
  /\ UNCHANGED <<timers, ring, idx, cycleLock, bearer, skew, twiOk, stored>>

\* sim900_GPRS_simple_close.
Close(t) ==
  /\ At(t, "close") /\ t \in {"sendRT", "send", "sync"}
  /\ bearer' = FALSE
  /\ Goto("stop")
  /\ UNCHANGED <<status, timers, ring, idx, cycleLock, err, iterSet, skew,
                 twiOk, stored>>

SendRTStop ==
  /\ At("sendRT", "stop")
  /\ Set("sendRT", STOP)
  /\ Goto("askServer")
  /\ UNCHANGED <<timers, ring, idx, cycleLock, err, iterSet, bearer, skew,
                 twiOk, stored>>

SendRTAsksServer ==
  /\ At("sendRT", "askServer")
  /\ Set("cmdCheck", READY)
  /\ err' = FALSE
  /\ IF err THEN Goto("reinit") ELSE Leave
  /\ UNCHANGED <<timers, ring, idx, cycleLock, iterSet, bearer, skew,
                 twiOk, stored>>

\* sim900_init power cycles the modem after a failure.
Reinit(t) ==
  /\ At(t, "reinit") /\ t \in {"prepRT", "sendRT", "send"}
  /\ bearer' = FALSE
  /\ Goto(IF t = "send" THEN "sendFailed" ELSE "retry")
  /\ UNCHANGED <<status, timers, ring, idx, cycleLock, err, iterSet, skew,
                 twiOk, stored>>

\* g_acc_task_send_RT = g_interv_task_send_RT - 30 in unsigned arithmetic.
\* The 8-bit CPU stores the 32-bit word in parts: a tick between two of the
\* stores reads, and writes back, a mixture.
RetryValue == (IntervSend - RetryDelay) % WordMod
WithLow(acc)  == (acc \div ByteBase) * ByteBase + (RetryValue % ByteBase)
WithHigh(acc) == (RetryValue \div ByteBase) * ByteBase + (acc % ByteBase)

RetryFirstStore ==
  /\ task \in {"prepRT", "sendRT"} /\ step = "retry"
  /\ \/ accSend' = WithLow(accSend)  /\ Goto("retryHigh")
     \/ accSend' = WithHigh(accSend) /\ Goto("retryLow")
  /\ UNCHANGED <<status, accStore, accSync, ring, idx, cycleLock, err, iterSet,
                 bearer, skew, twiOk, stored>>

RetryLastStore ==
  /\ task \in {"prepRT", "sendRT"} /\ step \in {"retryHigh", "retryLow"}
  /\ accSend' = IF step = "retryHigh" THEN WithHigh(accSend)
                                      ELSE WithLow(accSend)
  /\ Leave
  /\ UNCHANGED <<status, accStore, accSync, ring, idx, cycleLock, err, iterSet,
                 bearer, skew, twiOk, stored>>

SendStop ==
  /\ At("send", "stop")
  /\ Set("send", STOP)
  /\ err' = FALSE
  /\ IF err THEN Goto("reinit") ELSE Leave
  /\ UNCHANGED <<timers, ring, idx, cycleLock, iterSet, bearer, skew,
                 twiOk, stored>>

SendFailed ==
  /\ At("send", "sendFailed")
  /\ Set("send", STOP)
  /\ Leave
  /\ UNCHANGED <<timers, ring, idx, cycleLock, err, iterSet, bearer, skew,
                 twiOk, stored>>

(***************************************************************************)
(* dl_task_cmd_check: the server may ask for a range of records, or for a  *)
(* firmware update, which never comes back.                                *)
(***************************************************************************)

CmdPrepare ==
  /\ At("cmdCheck", "prepare")
  /\ \E outcome \in {"empty", "open", "fail"} : Prepare(outcome)
  /\ Goto(IF err' THEN "stop" ELSE "get")
  /\ UNCHANGED <<status, timers, ring, idx, cycleLock, iterSet, skew, twiOk,
                 stored>>

CmdGet ==
  /\ At("cmdCheck", "get")
  /\ \/ Goto("stop")
     \/ bearer /\ Goto("search")
     \/ bearer /\ Goto("fwUpdate")
  /\ UNCHANGED <<status, timers, ring, idx, cycleLock, err, iterSet, bearer,
                 skew, twiOk, stored>>

\* dl_cmd_get_by_date_range: a record is found, or not.
CmdSearch ==
  /\ At("cmdCheck", "search")
  /\ \E found \in BOOLEAN :
       /\ iterSet' = [iterSet EXCEPT !["send"] = @ \/ found]
       /\ IF found THEN Set("send", READY) ELSE UNCHANGED status
  /\ Goto("stop")
  /\ UNCHANGED <<timers, ring, idx, cycleLock, err, bearer, skew, twiOk, stored>>

CmdStop ==
  /\ At("cmdCheck", "stop")
  /\ Set("cmdCheck", STOP)
  /\ err' = FALSE
  /\ Leave
  /\ UNCHANGED <<timers, ring, idx, cycleLock, iterSet, bearer, skew,
                 twiOk, stored>>

\* The update runs under its own alarm, which restarts the controller after
\* an hour; the reset is the only way out.
FwUpdateExpires ==
  /\ At("cmdCheck", "fwUpdate")
  /\ Restart

(***************************************************************************)
(* dl_task_sync_time.                                                      *)
(***************************************************************************)

SyncOpen ==
  /\ At("sync", "open")
  /\ \E ok \in BOOLEAN :
       /\ bearer' = (bearer \/ ok)
       /\ err' = ~ok
       /\ Goto(IF ok THEN "get" ELSE "close")
  /\ UNCHANGED <<status, timers, ring, idx, cycleLock, iterSet, skew, twiOk,
                 stored>>

SyncGet ==
  /\ At("sync", "get")
  /\ \E ok \in BOOLEAN :
       /\ err' = ~ok
       /\ Goto(IF ok THEN "set" ELSE "close")
  /\ UNCHANGED <<status, timers, ring, idx, cycleLock, iterSet, bearer, skew,
                 twiOk, stored>>

\* The part between cli() and sei().  When the clock goes back,
\* g_timePrev goes with it and the next tick sees no step; when it goes
\* forward the next tick sees all of it.
SyncSet ==
  /\ At("sync", "set")
  /\ skew' \in ClockSteps
  /\ Goto("rearm")
  /\ UNCHANGED <<status, timers, ring, idx, cycleLock, err, iterSet, bearer,
                 twiOk, stored>>

\* The alarm still stands at a time of the old clock until the task, done with
\* the HTTP session, sets it again.
SyncRearm ==
  /\ At("sync", "rearm")
  /\ Goto("close")
  /\ UNCHANGED <<status, timers, ring, idx, cycleLock, err, iterSet, bearer,
                 skew, twiOk, stored>>

\* If the new time is not just before that alarm no tick feeds the watchdog,
\* which expires when the HTTP session takes 8 seconds to close.
WatchdogExpires ==
  /\ At("sync", "rearm")
  /\ Restart

SyncStop ==
  /\ At("sync", "stop")
  /\ Set("sync", STOP)
  /\ err' = FALSE
  /\ Leave
  /\ UNCHANGED <<timers, ring, idx, cycleLock, iterSet, bearer, skew,
                 twiOk, stored>>

(***************************************************************************)
(* The specification.                                                      *)
(***************************************************************************)

StoreTask == StoreInit \/ StoreItem \/ StoreQuit \/ StoreStop
SendRTTask ==
  \/ PrepareRT \/ PrepareRTStop \/ PrepareRTReady
  \/ Post("sendRT") \/ Close("sendRT") \/ SendRTStop \/ SendRTAsksServer
  \/ Reinit("prepRT") \/ Reinit("sendRT") \/ RetryFirstStore \/ RetryLastStore
CmdTask == CmdPrepare \/ CmdGet \/ CmdSearch \/ CmdStop
SendTask == Post("send") \/ Close("send") \/ SendStop \/ Reinit("send") \/ SendFailed
SyncTask == SyncOpen \/ SyncGet \/ SyncSet \/ SyncRearm \/ Close("sync") \/ SyncStop
Loop == (\E t \in Tasks : Begin(t) \/ Skip(t)) \/ Again \/ Lock \/ TestLock

Main == Boot \/ Loop \/ StoreTask \/ SendRTTask \/ CmdTask \/ SendTask \/ SyncTask

Alarm == TickResets \/ \E r \in Readings : Tick(r)

Next == Main \/ Alarm \/ WatchdogExpires \/ OtherInterrupt \/ FwUpdateExpires

Spec == Init /\ [][Next]_vars

\* Steps that wait for a device: the modem, the EEPROM, or a search of it.
\* None of these calls is sure to return.
Waiting == step \in {"boot", "item", "prepare", "post", "close", "reinit", "get",
                     "search", "open", "rearm"}

\* The alarm fires as long as the RTC runs, or else the watchdog does; the main
\* loop goes on where it does not wait; the timer of the update expires.
TickSpec ==
  /\ Spec
  /\ WF_vars(Alarm \/ WatchdogExpires)
  /\ WF_vars(Main /\ ~Waiting)
  /\ WF_vars(FwUpdateExpires)

\* Every call of the main loop returns.
CallsReturn == WF_vars(Main)

(***************************************************************************)
(* Properties.                                                             *)
(***************************************************************************)

Steps == {"boot", "check", "lock", "testLock", "asleep", "init", "item",
          "quit", "stop", "prepare", "ready", "post", "close", "askServer",
          "reinit", "retry", "retryHigh", "retryLow", "sendFailed", "get",
          "search", "fwUpdate", "open", "set", "rearm"}

Slots == 0..SnapshotSize-1

TypeOK ==
  /\ status \in [Tasks -> {STOP, READY, RUNNING}]
  /\ accStore \in 0..IntervStore
  /\ accSync \in 0..IntervSync
  /\ accSend \in Nat
  /\ snapshot \in [Slots -> Readings \cup {NoReading}]
  /\ beg \in Slots /\ end \in Slots /\ idx \in Slots
  /\ cycleLock \in BOOLEAN
  /\ task \in Tasks \cup {"idle"}
  /\ step \in Steps
  /\ err \in BOOLEAN
  /\ iterSet \in [{"sendRT", "send"} -> BOOLEAN]
  /\ bearer \in BOOLEAN
  /\ skew \in Nat
  /\ twiOk \in BOOLEAN
  /\ stored \in Readings \cup {NoReading}

\* The ring between the tick and the store task never holds more than one
\* snapshot: none while the task is STOP, one while it is READY.  The "memory
\* is full" branch of dl_snapshot_make (datalogger.c:1545) is never reached.
OneSnapshotPending ==
  /\ status["store"] = STOP  => beg = end
  /\ status["store"] = READY => end = SlotAfter(beg)

InStoreTask == task = "store" /\ step # "check"

\* While dl_task_store_data reads the ring, the tick neither fills a slot nor
\* moves the end: the only lock between the two is the task's own status.
RingLeftAloneWhileDrained ==
  [][InStoreTask /\ InStoreTask' => UNCHANGED <<snapshot, end>>]_vars

\* The main loop posts only from an iterator that a preparation or a search
\* has set (0 would be read as an address before the first record).
PostsFromAnIterator ==
  step = "post" => iterSet[task]

\* The tick resets the controller only while an upload is running or waits for
\* its next batch; in particular not because a time sync moved the clock on or
\* because the retry time of a short interval wraps around.
ResetsOnlyWhileSending ==
  [][TickResets => status["sendRT"] # STOP]_vars

\* Snapshots become records of the log once and in order, and are lost only
\* with the controller or with the EEPROM driver.
RingFrom == IF InStoreTask /\ twiOk /\ step \in {"item", "quit"} THEN idx ELSE beg
InRing(b, e) ==
  [i \in 1..((e - b) % SnapshotSize) |-> snapshot[(b + i - 1) % SnapshotSize]]
Queue == INSTANCE SnapshotQueue WITH
           queue <- InRing(RingFrom, end),
           fault <- step = "boot" \/ (InStoreTask /\ ~twiOk)
EachSnapshotStoredOnce == Queue!Spec

Sending == task = "sendRT" /\ status["sendRT"] = RUNNING

\* An upload that hangs in the modem is ended by the tick's reset, with no help
\* of the main loop.
HungUploadIsReset == Sending ~> ~Sending

\* Every task made READY, by the tick or by another task, is started, even when
\* the tick comes between the last test of the loop and the sleep, or between
\* the test of the lock and the sleep (when every call of the main loop
\* returns).  Two things only may come instead.  A reset of the controller,
\* which loses every status.  And the end of dl_task_send_data_prepare_RT, which
\* stores STOP over a READY that the tick gave to the preparation while it ran
\* (datalogger.c:761): that READY starts nothing, but the run that overwrites it
\* goes on, then and there, to make the upload READY, or to initialise the modem
\* and have the preparation READY again after the retry delay.
Overwritten(t) ==
  /\ t = "prepRT"
  /\ status["prepRT"] = STOP
  /\ At("prepRT", "ready") \/ At("prepRT", "reinit")
Started(t) == status[t] = RUNNING \/ step = "boot" \/ Overwritten(t)
TasksServed ==
  CallsReturn => \A t \in Tasks : status[t] = READY ~> Started(t)

\* The station keeps sampling, whatever uploads, syncs and updates do, when the
\* calls return.
SamplingGoesOn == CallsReturn => []<>(status["store"] = READY)
=============================================================================
