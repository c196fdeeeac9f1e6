------------------------------- MODULE Upload -------------------------------
(***************************************************************************)
(* The uploads: send_data_with_post takes the newest records of a session  *)
(* that are due, at most QueueLen of them, posts them in one HTTP request  *)
(* and then sets the flag of each in the EEPROM; dl_task_send_data_RT and  *)
(* dl_task_send_data repeat that until the session has come to its oldest  *)
(* record.  The request or its answer may be lost, a flag may fail to be   *)
(* written, and the controller may be reset between any two steps.         *)
(*                                                                         *)
(* Records are numbered as they are stored, and an iterator is the number  *)
(* of records before it: 0 is LOG_BEGIN, and the scan goes down.           *)
(***************************************************************************)
EXTENDS Integers, FiniteSets

CONSTANTS
  QueueLen,     \* records in a request, 16
  Fits,         \* records whose text fits into the buffer of 1024 bytes
  MaxRecords,   \* a bound: records stored in a run
  MaxFaults     \* a bound: resets and flags that are not written

ASSUME UploadAssumption ==
  /\ QueueLen \in Nat \ {0}
  /\ Fits \in 1..QueueLen
  /\ MaxRecords \in Nat
  /\ MaxFaults \in Nat

Records == 1..MaxRecords

\* The two DL_SEND_PARAMS: that of the periodic upload, which sends a record
\* once, and that of the records the server asks for.
Sessions == {"RT", "Range"}

VARIABLES
  end,       \* the records in the log
  old,       \* how many of them are older than a day
  flag,      \* the records whose flag is set in the EEPROM
  session,   \* the DL_SEND_PARAMS with the status of their task
  pc,        \* where send_data_with_post is, "idle" between its calls
  cur,       \* the session it works for
  batch,     \* the records of its request
  todo,      \* q: the flags it still has to write
  more,      \* it will ask for another iteration (99)
  posted,    \* a request with the record was answered with 200
  missed,    \* and yet the flag was not written
  faults

vars == <<end, old, flag, session, pc, cur, batch, todo, more, posted, missed, faults>>

\* low is the number of records that are too old for the session, and start the
\* newest record it is about.
None == [phase |-> "none", iter |-> 0, low |-> 0, start |-> 0]

Init ==
  /\ end = 0 /\ old = 0
  /\ flag = {}
  /\ session = [s \in Sessions |-> None]
  /\ pc = "idle" /\ cur = "RT"
  /\ batch = {} /\ todo = {} /\ more = FALSE
  /\ posted = {} /\ missed = {}
  /\ faults = 0

request == <<pc, cur, batch, todo, more>>
history == <<posted, missed, faults>>

(***************************************************************************)
(* What the other tasks and the clock do.                                  *)
(***************************************************************************)

\* dl_task_store_data runs between two calls.
Store ==
  /\ pc = "idle"
  /\ end < MaxRecords
  /\ end' = end + 1
  /\ UNCHANGED <<old, flag, session, request, history>>

\* The time of a record is a day ago.
Age ==
  /\ old < end
  /\ old' = old + 1
  /\ UNCHANGED <<end, flag, session, request, history>>

\* dl_task_send_data_prepare_RT, when the modem is ready.  It may come while
\* the previous session still has records to send.
PrepareRT ==
  /\ pc = "idle"
  /\ session' = [session EXCEPT !["RT"] =
                   [phase |-> "ready", iter |-> end, low |-> old, start |-> end]]
  /\ UNCHANGED <<end, old, flag, request, history>>

\* dl_cmd_get_by_date_range: dl_search_record_by_date ends on a record of the
\* log, or else nothing changes.  The iterator is the address of that record, with
\* the records before it behind it; the first date asked for may be any, a later
\* one than the last included.  A session that is still going on is replaced.
GetByDateRange ==
  /\ pc = "idle"
  /\ \E to \in 1..end : \E from \in 0..end :
       session' = [session EXCEPT !["Range"] =
                     [phase |-> "ready", iter |-> to - 1, low |-> from, start |-> to]]
  /\ UNCHANGED <<end, old, flag, request, history>>

(***************************************************************************)
(* send_data_with_post.                                                    *)
(***************************************************************************)

\* (Variant: send_once is not looked at.)
DueAlways(s, it) == {r \in (it + 1)..session[s].iter : r > session[s].low}

\* (Variant: the record is read before the step back.)
DueAtIterator(s, it) ==
  {r \in it..session[s].iter : r >= session[s].low /\ ~(s = "RT" /\ r \in flag)}

\* The records between the iterator it and that of the session that are to be
\* sent.
Due(s, it) ==
  {r \in (it + 1)..session[s].iter :
     r > session[s].low /\ ~(s = "RT" /\ r \in flag)}

\* The scan stops behind the record that fills the queue, or where the
\* records are too old or the log begins.
Full(s, it) == it + 1 \in Due(s, it) /\ Cardinality(Due(s, it)) = QueueLen
Exhausted(s, it) == it = session[s].low /\ Cardinality(Due(s, it)) < QueueLen

\* (Variant: iter_send is not reset after an error.)
Kept(s) == session

\* The session of a call that ends without error, and of one that does not.
Ended(s) ==
  [session EXCEPT ![s] =
     [phase |-> "done", iter |-> 0, low |-> @.low, start |-> @.start]]
Dropped(s) == [session EXCEPT ![s] = None]

\* Nothing left to send.
ScanNothing(s) ==
  /\ pc = "idle"
  /\ session[s].phase = "ready"
  /\ Due(s, session[s].low) = {}
  /\ session' = Ended(s)
  /\ UNCHANGED <<end, old, flag, request, history>>

Scan(s) ==
  /\ pc = "idle"
  /\ session[s].phase = "ready"
  /\ \E it \in 0..end :
       /\ Full(s, it) \/ Exhausted(s, it)
       /\ Due(s, it) # {}
       /\ batch' = Due(s, it)
       /\ session' = [session EXCEPT ![s].iter = it]
       /\ more' = (Full(s, it) /\ it > 0)
  /\ cur' = s
  /\ pc' = "post"
  /\ UNCHANGED <<end, old, flag, todo, history>>

\* The text of the newest records is in the buffer; snprintf cuts the rest.
Text == {r \in batch : Cardinality({x \in batch : x > r}) < Fits}

\* (Variant: the loop over the queue begins with 1.)
MarksFromSecond == {r \in batch \ flag : \E x \in batch : x > r}

\* The flags that are not set yet.
Marks == batch \ flag

\* sim900_http_post returns 0.
PostOk ==
  /\ pc = "post"
  /\ posted' = posted \cup batch
  /\ todo' = Marks
  /\ pc' = "flag"
  /\ UNCHANGED <<end, old, flag, session, cur, batch, more, missed, faults>>

\* (Variant: the result of the post is not looked at.)
PostUnchecked ==
  /\ pc = "post"
  /\ todo' = Marks
  /\ pc' = "flag"
  /\ UNCHANGED <<end, old, flag, session, cur, batch, more, posted, missed, faults>>

\* It does not: the request was lost, or only its answer.
PostFails ==
  /\ pc = "post"
  /\ session' = Dropped(cur)
  /\ batch' = {} /\ more' = FALSE
  /\ pc' = "idle"
  /\ UNCHANGED <<end, old, flag, cur, todo, posted, missed, faults>>

\* The flags are written in the order of the queue, newest first.  Nothing
\* looks at the status of the write.
WriteFlag ==
  /\ pc = "flag"
  /\ \E r \in todo :
       /\ \A x \in todo : x <= r
       /\ todo' = todo \ {r}
       /\ \/ flag' = flag \cup {r} /\ UNCHANGED <<missed, faults>>
          \/ /\ faults < MaxFaults /\ faults' = faults + 1
             /\ missed' = missed \cup {r}
             /\ UNCHANGED flag
  /\ UNCHANGED <<end, old, session, pc, cur, batch, more, posted>>

Finish ==
  /\ pc = "flag" /\ todo = {}
  /\ session' = IF more THEN session ELSE Ended(cur)
  /\ batch' = {} /\ more' = FALSE
  /\ pc' = "idle"
  /\ UNCHANGED <<end, old, flag, cur, todo, history>>

\* A reset: the sessions are gone, the flags stay.
Crash ==
  /\ faults < MaxFaults /\ faults' = faults + 1
  /\ missed' = missed \cup todo
  /\ session' = [s \in Sessions |-> None]
  /\ pc' = "idle" /\ cur' = "RT"
  /\ batch' = {} /\ todo' = {} /\ more' = FALSE
  /\ UNCHANGED <<end, old, flag, posted>>

Next ==
  \/ Store \/ Age \/ PrepareRT \/ GetByDateRange
  \/ (\E s \in Sessions : ScanNothing(s) \/ Scan(s))
  \/ PostOk \/ PostFails \/ WriteFlag \/ Finish
  \/ Crash

Spec == Init /\ [][Next]_vars

\* The periodic session comes again and again and the main loop calls
\* send_data_with_post for it; a call goes on to its end; and of the requests of
\* the periodic session that are tried again and again, some succeed.
Fairness ==
  /\ SF_vars(PrepareRT)
  /\ SF_vars(ScanNothing("RT") \/ Scan("RT"))
  /\ WF_vars(PostOk \/ PostFails \/ WriteFlag \/ Finish)
  /\ SF_vars(cur = "RT" /\ PostOk)

FairSpec == Spec /\ Fairness

(***************************************************************************)
(* Properties.                                                             *)
(***************************************************************************)

Session ==
  [phase : {"none", "ready", "done"},
   iter : 0..MaxRecords, low : 0..MaxRecords, start : 0..MaxRecords]

TypeOK ==
  /\ end \in 0..MaxRecords /\ old \in 0..end
  /\ flag \subseteq 1..end
  /\ session \in [Sessions -> Session]
  /\ pc \in {"idle", "post", "flag"}
  /\ cur \in Sessions
  /\ batch \subseteq 1..end /\ todo \subseteq batch
  /\ more \in BOOLEAN
  /\ posted \subseteq 1..end /\ missed \subseteq 1..end
  /\ faults \in 0..MaxFaults

\* The iterator a session began with.  That of a range is the address of the
\* record dated dtEnd, and send_data_with_post steps back before it reads: the
\* scan begins with the record before (RequestedIsSent below is about that one).
Began(s) == IF s = "RT" THEN session[s].start ELSE session[s].start - 1

\* A session that was not given up skips no record behind the iterator it began
\* with, however its calls are interleaved with new records, the other session
\* and the flags it sets: what is due and lies behind its present iterator was
\* sent (send_data_with_post keeps iter_send from one call to the next while END
\* moves on).  A session dropped after an error, replaced or lost in a reset
\* promises nothing; that the periodic one comes back to what it left is
\* EveryRecordIsSent.
NothingSkipped ==
  \A s \in Sessions :
    \A r \in Records :
      (/\ session[s].phase # "none"
       /\ r > session[s].iter /\ r > session[s].low /\ r <= Began(s))
        => r \in posted \/ (pc = "post" /\ cur = s /\ r \in batch)

\* What send_data_with_post says of its result, where 99 stands for "the
\* procedure did't send all the requested data" (datalogger.c:1479): when it ends
\* a range without error, all the records asked for were sent, the newest of
\* them, which dl_search_record_by_date found for dtEnd, included.
RequestedIsSent ==
  session["Range"].phase = "done" =>
    \A r \in (session["Range"].low + 1)..session["Range"].start : r \in posted

\* The periodic upload sends a record again only when its flag could not be
\* written, because of a reset or of the bus: the flags that either session
\* sets keep it from a repetition.
NoNeedlessRepeat ==
  pc = "post" /\ cur = "RT" => batch \cap posted \subseteq missed

\* A flag stands for an answer of the server: at every moment, also after a
\* reset in the middle of the flags, each record whose flag is set was in a
\* request that was answered with 200, and each record that was is flagged,
\* about to be, or known to be missed.
FlagsAreAcknowledged ==
  flag \subseteq posted /\ posted \subseteq flag \cup missed \cup todo

\* "Flag the record as sent" of send_data_with_post: the records it marks after
\* an answer are those whose text was in the request.
MarkedWereSent == pc = "flag" => todo \subseteq Text

\* Every record is sent by the periodic upload, unless it first becomes older
\* than a day: no order of failures, resets, new records and requests of the
\* server keeps it from being due again.
EveryRecordIsSent ==
  \A r \in Records : (r <= end) ~> (r \in flag \/ r <= old)
=============================================================================
