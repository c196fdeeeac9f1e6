----------------------------- MODULE DateSearch -----------------------------
(***************************************************************************)
(* dl_search_record_by_date, as dl_cmd_get_by_date_range calls it for the  *)
(* end of the range that the server asks for (RIGHT_BOUND).  The search    *)
(* starts at the newest record and goes backwards in strides; each time it *)
(* passes the date it turns round and halves the stride.                   *)
(*                                                                         *)
(* The log has not wrapped: its records are at the places 0..count-1, and  *)
(* the search may also read the place count, which END points at and which *)
(* holds no record.  An address that the strides reach is never            *)
(* LOG_LAST_VALID_ADDRESS.                                                 *)
(***************************************************************************)
EXTENDS Integers

CONSTANTS
  Logs,       \* how many records there are, and what each place reads as
  Dates,      \* the dates the server may ask for
  SkipStart   \* the first stride, 128

ASSUME SearchAssumption ==
  /\ \A l \in Logs : l.count \in Nat /\ l.time \in [0..l.count -> Nat]
  /\ Dates \subseteq Nat
  /\ SkipStart \in Nat \ {0}

VARIABLES
  log,
  dt,       \* the date to find
  place,    \* where to look
  skip,     \* reg_skip
  forward,  \* reg_dir
  search,
  found     \* err = 0: the record at place is the result

searchVars == <<log, dt, place, skip, forward, search, found>>

SearchInit ==
  /\ log \in Logs
  /\ dt \in Dates
  /\ place = 0 /\ skip = 0 /\ forward = FALSE
  /\ search = "idle"
  /\ found = FALSE

\* dl_iterator_moveback_with_cap and dl_iterator_moveforward_with_cap.
MoveBack(z, n) == IF n > z THEN 0 ELSE z - n

\* (Variant: no cap.)
MoveForwardUncapped(z, n) == z + n

MoveForward(z, n) == IF n > log.count - z THEN log.count ELSE z + n

\* A call: nothing to search in an empty log; otherwise the search begins with
\* the newest record, unless the EEPROM driver does not start.
Ask(d) ==
  /\ search \in {"idle", "done", "failed"}
  /\ dt' = d
  /\ found' = FALSE
  /\ place' = MoveBack(log.count, 1)
  /\ skip' = SkipStart
  /\ forward' = FALSE
  /\ search' \in IF log.count = 0 THEN {"done"} ELSE {"look", "failed"}
  /\ UNCHANGED log

Now == log.time[place]

\* The search has passed the date.
Turns == IF forward THEN Now > dt ELSE Now < dt

\* (Variant: the stride is halved at every place.)
SkipHalvedAlways == skip \div 2

\* (Variant: the stride is not halved.)
SkipKept == skip

SkipNext == IF Turns THEN skip \div 2 ELSE skip
ForwardNext == IF Turns THEN ~forward ELSE forward

\* There is no stride left, or no older record.
NoneLeft == SkipNext = 0 \/ (~ForwardNext /\ place = 0)

\* The record has the date.
Match ==
  /\ search = "look"
  /\ Now = dt
  /\ found' = TRUE
  /\ search' = "done"
  /\ UNCHANGED <<log, dt, place, skip, forward>>

\* The search ends beside the date.  A RIGHT_BOUND search takes an older record.
GiveUp ==
  /\ search = "look"
  /\ Now # dt
  /\ NoneLeft
  /\ skip' = SkipNext
  /\ forward' = ForwardNext
  /\ found' = (Now < dt)
  /\ search' = "done"
  /\ UNCHANGED <<log, dt, place>>

Stride ==
  /\ search = "look"
  /\ Now # dt
  /\ ~NoneLeft
  /\ skip' = SkipNext
  /\ forward' = ForwardNext
  /\ place' = IF ForwardNext THEN MoveForward(place, SkipNext) ELSE MoveBack(place, SkipNext)
  /\ UNCHANGED <<log, dt, search, found>>

Look == Match \/ GiveUp \/ Stride

SearchNext == (\E d \in Dates : Ask(d)) \/ Look

SearchSpec == SearchInit /\ [][SearchNext]_searchVars

\* The loop goes on.
SearchFairSpec == SearchSpec /\ WF_searchVars(Look)

(***************************************************************************)
(* Properties.                                                             *)
(***************************************************************************)

SearchTypeOK ==
  /\ log \in Logs
  /\ dt \in Dates
  /\ place \in 0..log.count
  /\ skip \in 0..SkipStart
  /\ forward \in BOOLEAN
  /\ search \in {"idle", "look", "done", "failed"}
  /\ found \in BOOLEAN

\* The clock was never set back while the records were taken.
Sorted == \A i \in 0..log.count-1, j \in 0..log.count-1 : i < j => log.time[i] < log.time[j]

\* The place behind the newest record reads as later than the date: it is blank.
BlankEnd == log.time[log.count] > dt

\* In a sorted log in front of blank memory the record with the date asked for is
\* found wherever it is: the strides and turns of dl_search_record_by_date jump
\* over no record for good, and do not end beside it or at the place that END
\* points at.
ExactDateIsFound ==
  (/\ search = "done" /\ Sorted /\ BlankEnd
   /\ \E k \in 0..log.count-1 : log.time[k] = dt)
    => found /\ log.time[place] = dt

\* "RIGHT bound we have a match" (datalogger.c:959): with RIGHT_BOUND, the mode of
\* dl_cmd_get_by_date_range, a record older than the date is a match where none
\* has the date itself.
OlderRecordIsMatch ==
  (/\ search = "done" /\ Sorted /\ BlankEnd
   /\ \E k \in 0..log.count-1 : log.time[k] < dt)
    => found

\* The search of a log, sorted or not, comes to an end: otherwise the main loop
\* never returns and the station samples no more (dl_task_cmd_check).  (A step
\* that leaves every variable as it is, forwards at the place of END, is the
\* loop going round for ever.)
SearchEnds == search = "look" ~> search # "look"
=============================================================================
