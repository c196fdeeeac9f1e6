-------------------------- MODULE SchedulerProofs --------------------------
(***************************************************************************)
(* Proofs about Scheduler for every value of its constants: types, the one *)
(* pending snapshot, the ring left alone while it is drained, uploads from *)
(* a set iterator, the reasons of a reset, and the ring as an              *)
(* implementation of SnapshotQueue.                                        *)
(*                                                                         *)
(* None of the invariants is inductive alone.  What makes them so is where *)
(* the main loop stands: a task is RUNNING exactly when the loop is inside *)
(* it, so the tick, which looks only at the status, knows where the loop   *)
(* is.                                                                     *)
(***************************************************************************)
EXTENDS Scheduler, TLAPS

\* The steps of each task.
StepsOf(t) ==
  CASE t = "store"    -> {"check", "init", "item", "quit", "stop"}
    [] t = "prepRT"   -> {"check", "prepare", "stop", "ready", "reinit",
                          "retry", "retryHigh", "retryLow"}
    [] t = "sendRT"   -> {"check", "post", "close", "stop", "askServer",
                          "reinit", "retry", "retryHigh", "retryLow"}
    [] t = "cmdCheck" -> {"check", "prepare", "get", "search", "stop",
                          "fwUpdate"}
    [] t = "send"     -> {"check", "post", "close", "stop", "reinit",
                          "sendFailed"}
    [] t = "sync"     -> {"check", "open", "get", "set", "rearm", "close",
                          "stop"}
    [] t = "idle"     -> {"boot", "check", "lock", "testLock", "asleep"}

PositionOK == step \in StepsOf(task)

\* The status of the store task tells where the loop is, and the ring agrees.
StoreInv ==
  /\ status["store"] = RUNNING <=> InStoreTask
  /\ step = "boot" => status["store"] = STOP
  /\ status["store"] = STOP  => beg = end
  /\ status["store"] = READY => end = SlotAfter(beg)
  /\ InStoreTask /\ step # "stop" => end = SlotAfter(beg)
  /\ InStoreTask /\ step = "stop" => beg = end

\* A READY upload has its iterator, and keeps it until it posts.
UploadInv ==
  /\ \A t \in {"sendRT", "send"} : status[t] = READY => iterSet[t]
  /\ step = "post" => iterSet[task] /\ status[task] = RUNNING
  /\ task = "prepRT" /\ (step = "ready" \/ (step = "stop" /\ ~err))
       => iterSet["sendRT"]

\* While the task drains the ring, what it has not written is what is left.
DrainInv ==
  /\ step = "item" => twiOk /\ idx \in {beg, end}
  /\ step = "quit" /\ twiOk => idx = end

IInv == TypeOK /\ PositionOK /\ StoreInv /\ UploadInv /\ DrainInv

USE SchedulerAssumption DEF SchedulerAssumption

(***************************************************************************)
(* Slots, timers and initial values.                                       *)
(***************************************************************************)

\* The successor of a slot is another slot of the ring (SNAPSHOT_SIZE is at
\* least 2), so clearing it leaves the slot just filled alone.
LEMMA SlotAfterType == \A i \in Slots : SlotAfter(i) \in Slots /\ SlotAfter(i) # i
  BY DEF Slots, SlotAfter

\* The tick's sums stay inside their types.
LEMMA TimerTypes ==
  ASSUME TypeOK
  PROVE  /\ Accumulate(accStore, IntervStore) \in 0..IntervStore
         /\ Accumulate(accSync, IntervSync) \in 0..IntervSync
         /\ AccSendNext \in Nat
  BY DEF TypeOK, Accumulate, DeltaT, AccSendNext, SendSum

\* So does a half-written accumulator.
LEMMA RetryTypes ==
  ASSUME TypeOK
  PROVE  WithLow(accSend) \in Nat /\ WithHigh(accSend) \in Nat
<1>1. accSend \in Nat /\ RetryValue \in Nat
  BY DEF TypeOK, RetryValue
<1>2. \A a, b \in Nat : (a \div ByteBase) * ByteBase + (b % ByteBase) \in Nat
  OBVIOUS
<1> QED BY <1>1, <1>2 DEF WithLow, WithHigh

\* RAM after a reset.
LEMMA InitialValues ==
  /\ AllStopped \in [Tasks -> {STOP, READY, RUNNING}]
  /\ NoIterator \in [{"sendRT", "send"} -> BOOLEAN]
  /\ EmptySnapshot \in [Slots -> Readings \cup {NoReading}]
  /\ 0 \in Slots
<1>1. AllStopped \in [Tasks -> {STOP, READY, RUNNING}]
  BY DEF AllStopped
<1>2. NoIterator \in [{"sendRT", "send"} -> BOOLEAN]
  BY DEF NoIterator
<1>3. EmptySnapshot \in [Slots -> Readings \cup {NoReading}] /\ 0 \in Slots
  BY DEF EmptySnapshot, Slots
<1> QED BY <1>1, <1>2, <1>3

(***************************************************************************)
(* Types.                                                                  *)
(***************************************************************************)

\* RAM as the initialisers leave it is of the right types.
LEMMA InitType == Init => TypeOK
<1> SUFFICES ASSUME Init PROVE TypeOK
  OBVIOUS
<1>1. /\ iterSet \in [{"sendRT", "send"} -> BOOLEAN]
      /\ {cycleLock, err, bearer, twiOk} \subseteq BOOLEAN
  BY InitialValues DEF Init
<1> QED BY <1>1, InitialValues DEF Init, TypeOK, Steps, Tasks

\* So it is after a reset.
LEMMA RestartType == TypeOK /\ Restart => TypeOK'
<1> SUFFICES ASSUME TypeOK, Restart PROVE TypeOK'
  OBVIOUS
<1>1. iterSet' \in [{"sendRT", "send"} -> BOOLEAN]
  BY InitialValues DEF Restart
<1>2. {cycleLock', err', bearer', twiOk'} \subseteq BOOLEAN
  BY DEF Restart, TypeOK
<1> QED BY <1>1, <1>2, InitialValues DEF Restart, TypeOK, Steps, Tasks

\* The tick keeps the types.
LEMMA TickType == ASSUME TypeOK, NEW r \in Readings, Tick(r) PROVE TypeOK'
<1>1. status' \in [Tasks -> {STOP, READY, RUNNING}]
  BY DEF TypeOK, Tick
<1>2. snapshot' \in [Slots -> Readings \cup {NoReading}] /\ end' \in Slots
  BY SlotAfterType DEF TypeOK, Tick, MakeSnapshot
<1>3. accStore' \in 0..IntervStore /\ accSync' \in 0..IntervSync /\ accSend' \in Nat
  BY TimerTypes DEF Tick
<1> QED BY <1>1, <1>2, <1>3 DEF TypeOK, Tick, AwakeStep, Steps

\* Every step of the main loop keeps the types.
LEMMA MainType == TypeOK /\ Main => TypeOK'
<1> SUFFICES ASSUME TypeOK PROVE Main => TypeOK'
  OBVIOUS
<1> USE DEF TypeOK, Tasks, Steps, At, Set, Goto, Leave, timers, ring
<1>1. ASSUME Boot PROVE TypeOK'
  <2>1. FirstSend \in Nat
    BY DEF FirstSend
  <2> QED BY <1>1, <2>1, InitialValues DEF Boot
<1>2. ASSUME NEW t \in Tasks, Begin(t) PROVE TypeOK'
  BY <1>2 DEF Begin, FirstStep
<1>3. ASSUME NEW t \in Tasks, Skip(t) PROVE TypeOK'
  BY <1>3 DEF Skip, NextTask
<1>4. ASSUME Again PROVE TypeOK'
  BY <1>4 DEF Again
<1>5. ASSUME Lock PROVE TypeOK'
  BY <1>5 DEF Lock
<1>6. ASSUME TestLock PROVE TypeOK'
  BY <1>6 DEF TestLock
<1>7. ASSUME StoreInit PROVE TypeOK'
  BY <1>7 DEF StoreInit
<1>8. ASSUME StoreItem PROVE TypeOK'
  BY <1>8, SlotAfterType DEF StoreItem, IdxNext
<1>9. ASSUME StoreQuit PROVE TypeOK'
  BY <1>9, InitialValues DEF StoreQuit
<1>10. ASSUME StoreStop PROVE TypeOK'
  BY <1>10 DEF StoreStop, StatusAfterStore, NextTask
<1>11. ASSUME PrepareRT PROVE TypeOK'
  BY <1>11 DEF PrepareRT, Prepare
<1>12. ASSUME PrepareRTStop PROVE TypeOK'
  BY <1>12 DEF PrepareRTStop
<1>13. ASSUME PrepareRTReady PROVE TypeOK'
  BY <1>13 DEF PrepareRTReady, NextTask
<1>14. ASSUME NEW t \in Tasks, Post(t) PROVE TypeOK'
  BY <1>14 DEF Post, KeepsIterator, NextTask
<1>15. ASSUME NEW t \in Tasks, Close(t) PROVE TypeOK'
  BY <1>15 DEF Close
<1>16. ASSUME SendRTStop PROVE TypeOK'
  BY <1>16 DEF SendRTStop
<1>17. ASSUME SendRTAsksServer PROVE TypeOK'
  BY <1>17 DEF SendRTAsksServer, NextTask
<1>18. ASSUME NEW t \in Tasks, Reinit(t) PROVE TypeOK'
  BY <1>18 DEF Reinit
<1>19. ASSUME RetryFirstStore PROVE TypeOK'
  BY <1>19, RetryTypes DEF RetryFirstStore
<1>20. ASSUME RetryLastStore PROVE TypeOK'
  BY <1>20, RetryTypes DEF RetryLastStore, NextTask
<1>21. ASSUME SendStop PROVE TypeOK'
  BY <1>21 DEF SendStop, NextTask
<1>22. ASSUME SendFailed PROVE TypeOK'
  BY <1>22 DEF SendFailed, NextTask
<1>23. ASSUME CmdPrepare PROVE TypeOK'
  BY <1>23 DEF CmdPrepare, Prepare
<1>24. ASSUME CmdGet PROVE TypeOK'
  BY <1>24 DEF CmdGet
<1>25. ASSUME CmdSearch PROVE TypeOK'
  BY <1>25 DEF CmdSearch
<1>26. ASSUME CmdStop PROVE TypeOK'
  BY <1>26 DEF CmdStop, NextTask
<1>27. ASSUME SyncOpen PROVE TypeOK'
  BY <1>27 DEF SyncOpen
<1>28. ASSUME SyncGet PROVE TypeOK'
  BY <1>28 DEF SyncGet
<1>29. ASSUME SyncSet PROVE TypeOK'
  BY <1>29 DEF SyncSet
<1>30. ASSUME SyncRearm PROVE TypeOK'
  BY <1>30 DEF SyncRearm
<1>31. ASSUME SyncStop PROVE TypeOK'
  BY <1>31 DEF SyncStop, NextTask
<1> QED
  BY <1>1, <1>2, <1>3, <1>4, <1>5, <1>6, <1>7, <1>8, <1>9, <1>10, <1>11,
     <1>12, <1>13, <1>14, <1>15, <1>16, <1>17, <1>18, <1>19, <1>20,
     <1>21, <1>22, <1>23, <1>24, <1>25, <1>26, <1>27, <1>28, <1>29,
     <1>30, <1>31
  DEF Main, Loop, StoreTask, SendRTTask, CmdTask, SendTask, SyncTask

\* Every variable of the scheduler keeps its type: the indices stay inside the
\* ring, the capped accumulators below their interval.
THEOREM TypeCorrect == Spec => []TypeOK
<1>1. Init => TypeOK
  BY InitType
<1>2. TypeOK /\ [Next]_vars => TypeOK'
  <2> SUFFICES ASSUME TypeOK, [Next]_vars PROVE TypeOK'
    OBVIOUS
  <2>1. CASE Main
    BY <2>1, MainType
  <2>2. CASE \E r \in Readings : Tick(r)
    BY <2>2, TickType
  <2>3. CASE TickResets \/ WatchdogExpires \/ FwUpdateExpires
    BY <2>3, RestartType DEF TickResets, WatchdogExpires, FwUpdateExpires
  <2>4. CASE OtherInterrupt
    BY <2>4 DEF OtherInterrupt, TypeOK, Goto, Steps, timers, ring
  <2>5. CASE UNCHANGED vars
    BY <2>5 DEF vars, TypeOK
  <2> QED BY <2>1, <2>2, <2>3, <2>4, <2>5 DEF Next, Alarm
<1> QED BY <1>1, <1>2, PTL DEF Spec

(***************************************************************************)
(* The inductive invariant.                                                *)
(***************************************************************************)

\* A step of the main loop keeps the status of the store task, the place of the
\* loop and the ring in agreement.
LEMMA MainControl == IInv /\ Main => (PositionOK /\ StoreInv /\ DrainInv)'
<1> SUFFICES ASSUME IInv PROVE Main => (PositionOK /\ StoreInv /\ DrainInv)'
  OBVIOUS
<1> USE DEF IInv, TypeOK, PositionOK, StoreInv, DrainInv, StepsOf, Tasks, InStoreTask,
           STOP, READY, RUNNING, At, Set, Goto, Leave, timers, ring
<1>1. ASSUME Boot PROVE (PositionOK /\ StoreInv /\ DrainInv)'
  BY <1>1 DEF Boot
<1>2. ASSUME NEW t \in Tasks, Begin(t) PROVE (PositionOK /\ StoreInv /\ DrainInv)'
  BY <1>2 DEF Begin, FirstStep
<1>3. ASSUME NEW t \in Tasks, Skip(t) PROVE (PositionOK /\ StoreInv /\ DrainInv)'
  BY <1>3 DEF Skip, NextTask
<1>4. ASSUME Again PROVE (PositionOK /\ StoreInv /\ DrainInv)'
  BY <1>4 DEF Again
<1>5. ASSUME Lock PROVE (PositionOK /\ StoreInv /\ DrainInv)'
  BY <1>5 DEF Lock
<1>6. ASSUME TestLock PROVE (PositionOK /\ StoreInv /\ DrainInv)'
  BY <1>6 DEF TestLock
<1>7. ASSUME StoreInit PROVE (PositionOK /\ StoreInv /\ DrainInv)'
  BY <1>7 DEF StoreInit
<1>8. ASSUME StoreItem PROVE (PositionOK /\ StoreInv /\ DrainInv)'
  BY <1>8, SlotAfterType DEF StoreItem, IdxNext
<1>9. ASSUME StoreQuit PROVE (PositionOK /\ StoreInv /\ DrainInv)'
  BY <1>9 DEF StoreQuit
<1>10. ASSUME StoreStop PROVE (PositionOK /\ StoreInv /\ DrainInv)'
  BY <1>10 DEF StoreStop, StatusAfterStore, NextTask
<1>11. ASSUME PrepareRT PROVE (PositionOK /\ StoreInv /\ DrainInv)'
  BY <1>11 DEF PrepareRT, Prepare
<1>12. ASSUME PrepareRTStop PROVE (PositionOK /\ StoreInv /\ DrainInv)'
  BY <1>12 DEF PrepareRTStop
<1>13. ASSUME PrepareRTReady PROVE (PositionOK /\ StoreInv /\ DrainInv)'
  BY <1>13 DEF PrepareRTReady, NextTask
<1>14. ASSUME NEW t \in Tasks, Post(t) PROVE (PositionOK /\ StoreInv /\ DrainInv)'
  BY <1>14 DEF Post, KeepsIterator, NextTask
<1>15. ASSUME NEW t \in Tasks, Close(t) PROVE (PositionOK /\ StoreInv /\ DrainInv)'
  BY <1>15 DEF Close
<1>16. ASSUME SendRTStop PROVE (PositionOK /\ StoreInv /\ DrainInv)'
  BY <1>16 DEF SendRTStop
<1>17. ASSUME SendRTAsksServer PROVE (PositionOK /\ StoreInv /\ DrainInv)'
  BY <1>17 DEF SendRTAsksServer, NextTask
<1>18. ASSUME NEW t \in Tasks, Reinit(t) PROVE (PositionOK /\ StoreInv /\ DrainInv)'
  BY <1>18 DEF Reinit
<1>19. ASSUME RetryFirstStore PROVE (PositionOK /\ StoreInv /\ DrainInv)'
  BY <1>19 DEF RetryFirstStore
<1>20. ASSUME RetryLastStore PROVE (PositionOK /\ StoreInv /\ DrainInv)'
  BY <1>20 DEF RetryLastStore, NextTask
<1>21. ASSUME SendStop PROVE (PositionOK /\ StoreInv /\ DrainInv)'
  BY <1>21 DEF SendStop, NextTask
<1>22. ASSUME SendFailed PROVE (PositionOK /\ StoreInv /\ DrainInv)'
  BY <1>22 DEF SendFailed, NextTask
<1>23. ASSUME CmdPrepare PROVE (PositionOK /\ StoreInv /\ DrainInv)'
  BY <1>23 DEF CmdPrepare, Prepare
<1>24. ASSUME CmdGet PROVE (PositionOK /\ StoreInv /\ DrainInv)'
  BY <1>24 DEF CmdGet
<1>25. ASSUME CmdSearch PROVE (PositionOK /\ StoreInv /\ DrainInv)'
  BY <1>25 DEF CmdSearch
<1>26. ASSUME CmdStop PROVE (PositionOK /\ StoreInv /\ DrainInv)'
  BY <1>26 DEF CmdStop, NextTask
<1>27. ASSUME SyncOpen PROVE (PositionOK /\ StoreInv /\ DrainInv)'
  BY <1>27 DEF SyncOpen
<1>28. ASSUME SyncGet PROVE (PositionOK /\ StoreInv /\ DrainInv)'
  BY <1>28 DEF SyncGet
<1>29. ASSUME SyncSet PROVE (PositionOK /\ StoreInv /\ DrainInv)'
  BY <1>29 DEF SyncSet
<1>30. ASSUME SyncRearm PROVE (PositionOK /\ StoreInv /\ DrainInv)'
  BY <1>30 DEF SyncRearm
<1>31. ASSUME SyncStop PROVE (PositionOK /\ StoreInv /\ DrainInv)'
  BY <1>31 DEF SyncStop, NextTask
<1> QED
  BY <1>1, <1>2, <1>3, <1>4, <1>5, <1>6, <1>7, <1>8, <1>9, <1>10, <1>11,
     <1>12, <1>13, <1>14, <1>15, <1>16, <1>17, <1>18, <1>19, <1>20,
     <1>21, <1>22, <1>23, <1>24, <1>25, <1>26, <1>27, <1>28, <1>29,
     <1>30, <1>31
  DEF Main, Loop, StoreTask, SendRTTask, CmdTask, SendTask, SyncTask

\* A step of the main loop keeps the iterators of the READY uploads.
LEMMA MainUpload == IInv /\ Main => UploadInv'
<1> SUFFICES ASSUME IInv PROVE Main => UploadInv'
  OBVIOUS
<1> USE DEF IInv, TypeOK, PositionOK, UploadInv, StepsOf, Tasks, STOP, READY, RUNNING,
           At, Set, Goto, Leave, timers, ring
<1>1. ASSUME Boot PROVE UploadInv'
  BY <1>1 DEF Boot
<1>2. ASSUME NEW t \in Tasks, Begin(t) PROVE UploadInv'
  BY <1>2 DEF Begin, FirstStep
<1>3. ASSUME NEW t \in Tasks, Skip(t) PROVE UploadInv'
  BY <1>3 DEF Skip, NextTask
<1>4. ASSUME Again PROVE UploadInv'
  BY <1>4 DEF Again
<1>5. ASSUME Lock PROVE UploadInv'
  BY <1>5 DEF Lock
<1>6. ASSUME TestLock PROVE UploadInv'
  BY <1>6 DEF TestLock
<1>7. ASSUME StoreInit PROVE UploadInv'
  BY <1>7 DEF StoreInit
<1>8. ASSUME StoreItem PROVE UploadInv'
  BY <1>8 DEF StoreItem
<1>9. ASSUME StoreQuit PROVE UploadInv'
  BY <1>9 DEF StoreQuit
<1>10. ASSUME StoreStop PROVE UploadInv'
  BY <1>10 DEF StoreStop, StatusAfterStore, NextTask
<1>11. ASSUME PrepareRT PROVE UploadInv'
  <2>1. PICK outcome \in {"empty", "open", "fail"} :
          /\ err' = (outcome = "fail")
          /\ iterSet' = [iterSet EXCEPT !["sendRT"] = iterSet["sendRT"] \/ outcome # "fail"]
    BY <1>11 DEF PrepareRT, Prepare
  <2>2. /\ iterSet'["sendRT"] = (iterSet["sendRT"] \/ outcome # "fail")
        /\ iterSet'["send"] = iterSet["send"]
    BY <2>1
  <2>3. /\ ~err' => iterSet'["sendRT"]
        /\ \A t \in {"sendRT", "send"} : iterSet[t] => iterSet'[t]
    BY <2>1, <2>2
  <2> QED BY <1>11, <2>3 DEF PrepareRT
<1>12. ASSUME PrepareRTStop PROVE UploadInv'
  BY <1>12 DEF PrepareRTStop
<1>13. ASSUME PrepareRTReady PROVE UploadInv'
  BY <1>13 DEF PrepareRTReady, NextTask
<1>14. ASSUME NEW t \in Tasks, Post(t) PROVE UploadInv'
  <2>1. t \in {"sendRT", "send"} /\ task = t /\ status[t] # READY
    BY <1>14 DEF Post
  <2>2. PICK outcome \in {"more", "done", "fail"} :
          /\ iterSet' = [iterSet EXCEPT ![t] = (outcome = "more")]
          /\ IF outcome = "more" THEN Set(t, READY) /\ Leave
                                 ELSE UNCHANGED status /\ Goto("close")
    BY <1>14 DEF Post, KeepsIterator
  <2>3. /\ iterSet'[t] = (outcome = "more")
        /\ \A u \in {"sendRT", "send"} : u # t => iterSet'[u] = iterSet[u]
    BY <2>1, <2>2
  <2>4. ASSUME NEW u \in {"sendRT", "send"}, status'[u] = READY PROVE iterSet'[u]
    <3>1. CASE u = t
      BY <2>1, <2>2, <2>3, <2>4, <3>1
    <3>2. CASE u # t
      BY <2>1, <2>2, <2>3, <2>4, <3>2
    <3> QED BY <3>1, <3>2
  <2>5. step' # "post" /\ task' # "prepRT"
    BY <2>1, <2>2 DEF NextTask
  <2> QED BY <2>4, <2>5
<1>15. ASSUME NEW t \in Tasks, Close(t) PROVE UploadInv'
  BY <1>15 DEF Close
<1>16. ASSUME SendRTStop PROVE UploadInv'
  BY <1>16 DEF SendRTStop
<1>17. ASSUME SendRTAsksServer PROVE UploadInv'
  BY <1>17 DEF SendRTAsksServer, NextTask
<1>18. ASSUME NEW t \in Tasks, Reinit(t) PROVE UploadInv'
  BY <1>18 DEF Reinit
<1>19. ASSUME RetryFirstStore PROVE UploadInv'
  BY <1>19 DEF RetryFirstStore
<1>20. ASSUME RetryLastStore PROVE UploadInv'
  BY <1>20 DEF RetryLastStore, NextTask
<1>21. ASSUME SendStop PROVE UploadInv'
  BY <1>21 DEF SendStop, NextTask
<1>22. ASSUME SendFailed PROVE UploadInv'
  BY <1>22 DEF SendFailed, NextTask
<1>23. ASSUME CmdPrepare PROVE UploadInv'
  BY <1>23 DEF CmdPrepare, Prepare
<1>24. ASSUME CmdGet PROVE UploadInv'
  BY <1>24 DEF CmdGet
<1>25. ASSUME CmdSearch PROVE UploadInv'
  BY <1>25 DEF CmdSearch
<1>26. ASSUME CmdStop PROVE UploadInv'
  BY <1>26 DEF CmdStop, NextTask
<1>27. ASSUME SyncOpen PROVE UploadInv'
  BY <1>27 DEF SyncOpen
<1>28. ASSUME SyncGet PROVE UploadInv'
  BY <1>28 DEF SyncGet
<1>29. ASSUME SyncSet PROVE UploadInv'
  BY <1>29 DEF SyncSet
<1>30. ASSUME SyncRearm PROVE UploadInv'
  BY <1>30 DEF SyncRearm
<1>31. ASSUME SyncStop PROVE UploadInv'
  BY <1>31 DEF SyncStop, NextTask
<1> QED
  BY <1>1, <1>2, <1>3, <1>4, <1>5, <1>6, <1>7, <1>8, <1>9, <1>10, <1>11,
     <1>12, <1>13, <1>14, <1>15, <1>16, <1>17, <1>18, <1>19, <1>20,
     <1>21, <1>22, <1>23, <1>24, <1>25, <1>26, <1>27, <1>28, <1>29,
     <1>30, <1>31
  DEF Main, Loop, StoreTask, SendRTTask, CmdTask, SendTask, SyncTask

\* The invariant at the start: nothing is READY and the ring is empty.
LEMMA InitControl == Init => PositionOK /\ StoreInv /\ UploadInv /\ DrainInv
  BY DEF Init, PositionOK, StoreInv, UploadInv, DrainInv, StepsOf, InStoreTask,
         AllStopped, Tasks, STOP, READY, RUNNING

\* The same after a reset.
LEMMA RestartControl ==
  Restart => (PositionOK /\ StoreInv /\ UploadInv /\ DrainInv)'
  BY DEF Restart, PositionOK, StoreInv, UploadInv, DrainInv, StepsOf, InStoreTask,
         AllStopped, Tasks, STOP, READY, RUNNING

\* The tick makes the store task READY only from STOP, when the ring is empty
\* and the loop is outside the task.
LEMMA TickControl ==
  ASSUME IInv, NEW r \in Readings, Tick(r)
  PROVE  (PositionOK /\ StoreInv /\ UploadInv /\ DrainInv)'
<1> USE DEF IInv, TypeOK, Tick, STOP, READY, RUNNING
<1>1. /\ task' = task
      /\ step' = step \/ (step = "asleep" /\ step' = "testLock")
  BY DEF AwakeStep
<1>2. PositionOK' /\ (InStoreTask' <=> InStoreTask)
  BY <1>1 DEF PositionOK, StepsOf, InStoreTask, Tasks
<1>3. \A t \in Tasks : t \notin {"store", "prepRT", "sync"} => status'[t] = status[t]
  BY DEF Due
<1>4. UploadInv'
  <2>1. \A t \in {"sendRT", "send"} : status'[t] = READY => iterSet'[t]
    BY <1>3 DEF UploadInv, Tasks
  <2>2. step' = "post" => task \in {"sendRT", "send"}
    BY <1>1 DEF PositionOK, StepsOf, Tasks
  <2>3. step' = "post" => iterSet'[task'] /\ status'[task'] = RUNNING
    BY <1>1, <1>3, <2>2 DEF UploadInv, Tasks
  <2>4. task' = "prepRT" /\ (step' = "ready" \/ (step' = "stop" /\ ~err')) => iterSet'["sendRT"]
    BY <1>1 DEF UploadInv
  <2> QED BY <2>1, <2>3, <2>4 DEF UploadInv
<1>5. CASE StoreDue
  <2>1. /\ status["store"] = STOP /\ ~InStoreTask /\ beg = end
        /\ status'["store"] = READY /\ end' = SlotAfter(end) /\ beg' = beg
    BY <1>5 DEF StoreDue, Due, MakeSnapshot, StoreInv, Tasks
  <2>2. StoreInv'
    BY <1>1, <1>2, <2>1 DEF StoreInv, SlotAfter, Ticking
  <2>3. DrainInv'
    BY <1>1, <1>2, <2>1 DEF DrainInv, InStoreTask, PositionOK, StepsOf, Tasks
  <2> QED BY <1>2, <1>4, <2>2, <2>3
<1>6. CASE ~StoreDue
  <2>1. status'["store"] = status["store"] /\ UNCHANGED ring
    BY <1>6 DEF Due, Tasks, ring
  <2> QED BY <1>1, <1>2, <1>4, <2>1
          DEF StoreInv, DrainInv, SlotAfter, Ticking, ring
<1> QED BY <1>5, <1>6

\* One step of the specification keeps the inductive invariant.
LEMMA Inductive == IInv /\ [Next]_vars => IInv'
<1> SUFFICES ASSUME IInv, [Next]_vars PROVE IInv'
  OBVIOUS
<1>1. CASE Main
  BY <1>1, MainType, MainControl, MainUpload DEF IInv
<1>2. CASE \E r \in Readings : Tick(r)
  BY <1>2, TickType, TickControl DEF IInv
<1>3. CASE TickResets \/ WatchdogExpires \/ FwUpdateExpires
  BY <1>3, RestartType, RestartControl
  DEF IInv, TickResets, WatchdogExpires, FwUpdateExpires
<1>4. CASE OtherInterrupt
  <2>1. TypeOK'
    BY <1>4 DEF IInv, OtherInterrupt, TypeOK, Goto, Steps, timers, ring
  <2> QED
    BY <1>4, <2>1
    DEF IInv, OtherInterrupt, PositionOK, StepsOf, StoreInv, UploadInv, DrainInv,
        InStoreTask, SlotAfter, At, Goto, Tasks, timers, ring
<1>5. CASE UNCHANGED vars
  <2>1. TypeOK' /\ PositionOK' /\ UploadInv'
    BY <1>5 DEF vars, IInv, TypeOK, PositionOK, StepsOf, UploadInv
  <2>2. StoreInv' /\ DrainInv'
    BY <1>5 DEF vars, IInv, StoreInv, DrainInv, InStoreTask, SlotAfter
  <2> QED BY <2>1, <2>2 DEF IInv
<1> QED BY <1>1, <1>2, <1>3, <1>4, <1>5 DEF Next, Alarm

\* The inductive invariant holds in every behaviour.
LEMMA Invariant == Spec => []IInv
<1>1. Init => IInv
  BY InitType, InitControl DEF IInv
<1> QED BY <1>1, Inductive, PTL DEF Spec

(***************************************************************************)
(* The properties.                                                         *)
(***************************************************************************)

\* The ring holds at most one snapshot, whatever the intervals are: the ring
\* full branch of dl_snapshot_make cannot be reached.
THEOREM AtMostOneSnapshot == Spec => []OneSnapshotPending
<1>1. IInv => OneSnapshotPending
  BY DEF IInv, StoreInv, OneSnapshotPending
<1> QED BY <1>1, Invariant, PTL

\* The main loop never posts from an unset iterator.
THEOREM IteratorBeforePost == Spec => []PostsFromAnIterator
<1>1. IInv => PostsFromAnIterator
  BY DEF IInv, UploadInv, PostsFromAnIterator
<1> QED BY <1>1, Invariant, PTL

\* The tick and the store task exclude each other on the ring, though they
\* share no lock: the tick respects the task's RUNNING.
THEOREM RingExclusion == Spec => RingLeftAloneWhileDrained
<1> DEFINE Step == InStoreTask /\ InStoreTask' => UNCHANGED <<snapshot, end>>
<1>1. IInv /\ [Next]_vars => [Step]_vars
  <2> SUFFICES ASSUME IInv, [Next]_vars, InStoreTask, InStoreTask'
               PROVE  UNCHANGED <<snapshot, end>>
    OBVIOUS
  <2> USE DEF InStoreTask
  <2>1. CASE Main
    <3>1. CASE Boot \/ Loop
      BY <3>1 DEF Boot, Loop, Begin, Skip, Again, Lock, TestLock, At, Leave, ring
    <3>2. CASE StoreTask
      BY <3>2 DEF StoreTask, StoreInit, StoreItem, StoreQuit, StoreStop, ring
    <3>3. CASE SendRTTask
      BY <3>3 DEF SendRTTask, PrepareRT, PrepareRTStop, PrepareRTReady, Post,
                  Close, SendRTStop, SendRTAsksServer, Reinit, RetryFirstStore,
                  RetryLastStore, At
    <3>4. CASE CmdTask \/ SendTask \/ SyncTask
      BY <3>4 DEF CmdTask, CmdPrepare, CmdGet, CmdSearch, CmdStop, SendTask, Post,
                  Close, SendStop, Reinit, SendFailed, SyncTask, SyncOpen, SyncGet,
                  SyncSet, SyncRearm, SyncStop, At
    <3> QED BY <2>1, <3>1, <3>2, <3>3, <3>4 DEF Main
  <2>2. CASE \E r \in Readings : Tick(r)
    <3>1. ~StoreDue
      BY DEF IInv, StoreInv, StoreDue, STOP, RUNNING
    <3> QED BY <2>2, <3>1 DEF Tick
  <2>3. CASE TickResets \/ WatchdogExpires \/ FwUpdateExpires
    BY <2>3 DEF TickResets, WatchdogExpires, FwUpdateExpires, Restart
  <2>4. CASE OtherInterrupt \/ UNCHANGED vars
    BY <2>4 DEF OtherInterrupt, vars, ring
  <2> QED BY <2>1, <2>2, <2>3, <2>4 DEF Next, Alarm
<1> QED BY <1>1, Invariant, PTL DEF Spec, RingLeftAloneWhileDrained

\* The tick resets the controller only during an upload, for every choice of
\* the intervals, of the clock steps and of the width of the accumulator.
THEOREM ResetWhileSending == Spec => ResetsOnlyWhileSending
<1>1. TypeOK /\ TickResets => status["sendRT"] # STOP
  BY DEF TypeOK, TickResets, Hung, AccSendNext, SendDue, SendSum, DeltaT
<1> QED BY <1>1, TypeCorrect, PTL DEF Spec, ResetsOnlyWhileSending

(***************************************************************************)
(* The ring implements the queue of SnapshotQueue.                         *)
(***************************************************************************)

\* The slots between two equal indices are none ...
LEMMA NoSlot ==
  ASSUME NEW f, NEW b \in Slots
  PROVE  [i \in 1..((b - b) % SnapshotSize) |-> f[(b + i - 1) % SnapshotSize]] = <<>>
<1>1. (b - b) % SnapshotSize = 0
  BY DEF Slots
<1> QED BY <1>1

\* ... and those up to the successor are one.
LEMMA OneSlot ==
  ASSUME NEW f, NEW b \in Slots
  PROVE  [i \in 1..((SlotAfter(b) - b) % SnapshotSize)
            |-> f[(b + i - 1) % SnapshotSize]] = <<f[b]>>
<1>1. (SlotAfter(b) - b) % SnapshotSize = 1
  BY DEF Slots, SlotAfter
<1>2. (b + 1 - 1) % SnapshotSize = b
  BY DEF Slots
<1> QED BY <1>1, <1>2

\* The queue of the abstract specification in a state of the scheduler: the
\* snapshot at the beginning, unless the ring is empty or drained.
QueueIs ==
  InRing(RingFrom, end) = IF RingFrom = end THEN <<>> ELSE <<snapshot[beg]>>

\* It has that value whenever the invariant holds.
LEMMA QueueValue == IInv => QueueIs
<1> SUFFICES ASSUME IInv PROVE QueueIs
  OBVIOUS
<1>1. /\ beg \in Slots /\ end \in Slots /\ end \in {beg, SlotAfter(beg)}
  BY DEF IInv, TypeOK, StoreInv, STOP, READY, RUNNING, Tasks
<1>2. RingFrom \in {beg, end}
  BY DEF IInv, DrainInv, RingFrom
<1>3. CASE RingFrom = end
  BY <1>1, <1>3, NoSlot DEF InRing, QueueIs
<1>4. CASE RingFrom # end
  <2>1. RingFrom = beg /\ end = SlotAfter(beg)
    BY <1>1, <1>2, <1>4
  <2>2. InRing(beg, SlotAfter(beg)) = <<snapshot[beg]>>
    BY <1>1, OneSlot DEF InRing
  <2> QED BY <1>4, <2>1, <2>2 DEF QueueIs
<1> QED BY <1>3, <1>4

\* The station starts with an empty queue.
LEMMA QueueInit == Init => Queue!Init
<1> SUFFICES ASSUME Init PROVE Queue!Init
  OBVIOUS
<1>1. IInv /\ RingFrom = end
  BY InitType, InitControl DEF IInv, Init, RingFrom, InStoreTask
<1>2. InRing(RingFrom, end) = <<>>
  BY <1>1, QueueValue DEF QueueIs
<1> QED BY <1>2 DEF Init, Queue!Init, InStoreTask

\* A step that leaves alone the ring, the place of the loop in the store task
\* and the log is a step of the environment of the queue.
LEMMA QueueStutter ==
  ASSUME UNCHANGED <<snapshot, end, RingFrom, stored>>
  PROVE  Queue!Environment
<1>1. InRing(RingFrom, end)' = InRing(RingFrom, end)
  BY DEF InRing
<1> QED BY <1>1 DEF Queue!Environment

\* The store task saves the snapshot at the beginning, or loses it when the
\* EEPROM driver does not start.
LEMMA QueueStoreStep ==
  ASSUME IInv, IInv', QueueIs, QueueIs', StoreTask
  PROVE  Queue!Next
<1> USE DEF IInv, TypeOK, StoreInv, DrainInv, InStoreTask, At, Goto, Leave, Set, ring,
            QueueIs, STOP, READY, RUNNING
<1>1. CASE StoreInit \/ StoreStop
  <2>1. UNCHANGED <<snapshot, end, RingFrom, stored>>
    BY <1>1 DEF StoreInit, StoreStop, RingFrom, NextTask
  <2> QED BY <2>1, QueueStutter DEF Queue!Next
<1>2. CASE StoreItem /\ idx = end
  <2>1. UNCHANGED <<snapshot, end, RingFrom, stored>>
    BY <1>2 DEF StoreItem, RingFrom
  <2> QED BY <2>1, QueueStutter DEF Queue!Next
<1>3. CASE StoreItem /\ idx # end
  <2>1. /\ RingFrom = idx /\ idx = beg /\ end = SlotAfter(beg)
        /\ RingFrom' = SlotAfter(beg) /\ UNCHANGED <<snapshot, beg, end>>
        /\ stored' = snapshot[beg]
    BY <1>3 DEF StoreItem, RingFrom, IdxNext, SlotAfter
  <2>2. InRing(RingFrom, end) = <<snapshot[beg]>>
    BY <1>3, <2>1
  <2>3. InRing(RingFrom, end)' = <<>>
    BY <2>1
  <2>4. \A x : <<x>> # <<>> /\ Head(<<x>>) = x /\ Tail(<<x>>) = <<>>
    OBVIOUS
  <2>5. Queue!Save
    BY <2>1, <2>2, <2>3, <2>4 DEF Queue!Save
  <2> QED BY <2>5 DEF Queue!Next
<1>4. CASE StoreQuit
  <2>1. RingFrom' = end' /\ UNCHANGED <<stored, end, snapshot>>
    BY <1>4 DEF StoreQuit, RingFrom
  <2>2. InRing(RingFrom, end)' = <<>>
    BY <2>1
  <2>3. CASE twiOk
    <3>1. InRing(RingFrom, end) = <<>>
      BY <1>4, <2>3 DEF StoreQuit, RingFrom
    <3> QED BY <2>1, <2>2, <3>1 DEF Queue!Next, Queue!Environment
  <2>4. CASE ~twiOk
    <3>1. (step = "boot" \/ (InStoreTask /\ ~twiOk))'
      BY <1>4, <2>4 DEF StoreQuit
    <3> QED BY <2>1, <2>2, <3>1 DEF Queue!Next, Queue!Lose
  <2> QED BY <2>3, <2>4
<1> QED BY <1>1, <1>2, <1>3, <1>4 DEF StoreTask

\* The other tasks stay out of the ring.
LEMMA OtherTasks ==
  SendRTTask \/ CmdTask \/ SendTask \/ SyncTask =>
    UNCHANGED ring /\ stored' = stored /\ ~InStoreTask /\ ~InStoreTask'
<1> USE DEF InStoreTask, At, Goto, Leave, Set, NextTask, timers
<1>1. SendRTTask => UNCHANGED ring /\ stored' = stored /\ ~InStoreTask /\ ~InStoreTask'
  BY DEF SendRTTask, PrepareRT, PrepareRTStop, PrepareRTReady, Post, Close, SendRTStop,
         SendRTAsksServer, Reinit, RetryFirstStore, RetryLastStore
<1>2. CmdTask => UNCHANGED ring /\ stored' = stored /\ ~InStoreTask /\ ~InStoreTask'
  BY DEF CmdTask, CmdPrepare, CmdGet, CmdSearch, CmdStop
<1>3. SendTask => UNCHANGED ring /\ stored' = stored /\ ~InStoreTask /\ ~InStoreTask'
  BY DEF SendTask, Post, Close, SendStop, Reinit, SendFailed
<1>4. SyncTask => UNCHANGED ring /\ stored' = stored /\ ~InStoreTask /\ ~InStoreTask'
  BY DEF SyncTask, SyncOpen, SyncGet, SyncSet, SyncRearm, Close, SyncStop
<1> QED BY <1>1, <1>2, <1>3, <1>4

\* The tick takes a snapshot when the queue is empty, or leaves it alone.
LEMMA QueueTickStep ==
  ASSUME IInv, IInv', QueueIs, QueueIs', NEW r \in Readings, Tick(r)
  PROVE  Queue!Next
<1> USE DEF IInv, TypeOK, Tick, StoreInv, InStoreTask
<1>1. CASE StoreDue
  <2>1. /\ beg = end /\ ~InStoreTask /\ ~InStoreTask'
        /\ beg' = beg /\ end' = SlotAfter(end) /\ stored' = stored
        /\ snapshot' = [snapshot EXCEPT ![end] = r, ![SlotAfter(end)] = NoReading]
    BY <1>1 DEF StoreDue, MakeSnapshot, AwakeStep, STOP, RUNNING, Ticking
  <2>2. RingFrom = beg /\ RingFrom' = beg
    BY <2>1 DEF RingFrom
  <2>3. snapshot'[beg] = r /\ SlotAfter(end) # beg
    BY <2>1, SlotAfterType
  <2>4. InRing(RingFrom, end) = <<>> /\ InRing(RingFrom, end)' = <<r>>
    BY <2>1, <2>2, <2>3 DEF QueueIs
  <2> QED BY <2>1, <2>4 DEF Queue!Next, Queue!Take
<1>2. CASE ~StoreDue
  <2>1. UNCHANGED <<snapshot, end, RingFrom, stored>>
    BY <1>2 DEF RingFrom, AwakeStep
  <2> QED BY <2>1, QueueStutter DEF Queue!Next
<1> QED BY <1>1, <1>2

\* A restart loses what the ring holds.
LEMMA QueueRestartStep == QueueIs' /\ Restart => Queue!Next
<1> SUFFICES ASSUME QueueIs', Restart PROVE Queue!Next
  OBVIOUS
<1>1. RingFrom' = end' /\ step' = "boot" /\ stored' = stored
  BY DEF Restart, RingFrom, InStoreTask
<1>2. InRing(RingFrom, end)' = <<>>
  BY <1>1 DEF QueueIs
<1> QED BY <1>1, <1>2 DEF Queue!Next, Queue!Lose

\* Each reading is written to the log once and in order, and is lost only with
\* the controller or with the EEPROM driver: for every ring size, interval and
\* set of readings.
THEOREM RingImplementsQueue == Spec => EachSnapshotStoredOnce
<1>1. IInv /\ QueueIs /\ IInv' /\ QueueIs' /\ [Next]_vars => [Queue!Next]_(Queue!vars)
  <2> SUFFICES ASSUME IInv, QueueIs, IInv', QueueIs', [Next]_vars
               PROVE  [Queue!Next]_(Queue!vars)
    OBVIOUS
  <2>1. CASE StoreTask
    BY <2>1, QueueStoreStep
  <2>2. CASE \E r \in Readings : Tick(r)
    BY <2>2, QueueTickStep
  <2>3. CASE TickResets \/ WatchdogExpires \/ FwUpdateExpires
    BY <2>3, QueueRestartStep DEF TickResets, WatchdogExpires, FwUpdateExpires
  <2>4. CASE Boot
    <3>1. /\ RingFrom = end /\ RingFrom' = end' /\ stored' = stored
      BY <2>4 DEF IInv, StoreInv, Boot, RingFrom, InStoreTask
    <3>2. InRing(RingFrom, end) = <<>> /\ InRing(RingFrom, end)' = <<>>
      BY <3>1 DEF QueueIs
    <3> QED BY <3>1, <3>2 DEF Queue!Next, Queue!Environment
  <2>5. CASE Loop \/ OtherInterrupt
    <3>1. UNCHANGED <<snapshot, end, RingFrom, stored>>
      BY <2>5 DEF Loop, Begin, Skip, Again, Lock, TestLock, OtherInterrupt, At, Leave,
                  Goto, FirstStep, NextTask, RingFrom, InStoreTask, ring, Tasks
    <3> QED BY <3>1, QueueStutter DEF Queue!Next
  <2>6. CASE SendRTTask \/ CmdTask \/ SendTask \/ SyncTask
    <3>1. UNCHANGED ring /\ stored' = stored /\ ~InStoreTask /\ ~InStoreTask'
      BY <2>6, OtherTasks
    <3>2. UNCHANGED <<snapshot, end, RingFrom, stored>>
      BY <3>1 DEF ring, RingFrom
    <3> QED BY <3>2, QueueStutter DEF Queue!Next
  <2>7. CASE UNCHANGED vars
    <3>1. UNCHANGED <<snapshot, end, RingFrom, stored>>
      BY <2>7 DEF vars, RingFrom, InStoreTask
    <3> QED BY <3>1, QueueStutter DEF Queue!Next
  <2> QED BY <2>1, <2>2, <2>3, <2>4, <2>5, <2>6, <2>7 DEF Next, Alarm, Main
<1>2. Spec => [](IInv /\ QueueIs)
  BY Invariant, QueueValue, PTL
<1> QED BY <1>1, <1>2, QueueInit, PTL DEF Spec, EachSnapshotStoredOnce, Queue!Spec
=============================================================================
