---------------------------- MODULE UploadProofs ----------------------------
(***************************************************************************)
(* The safety of the uploads for every length of the queue and of the log  *)
(* and every number of faults.  The invariants are not inductive alone:    *)
(* AtWork says what the batch, the flags to write and the iterator of the  *)
(* session at work are in each phase of send_data_with_post.               *)
(*                                                                         *)
(* After them the search by date, which gives a session its range: its     *)
(* strides shrink so that the last one goes forwards by one record, from a *)
(* record before the date.                                                 *)
(***************************************************************************)
EXTENDS Upload, DateSearch, TLAPS

USE UploadAssumption DEF UploadAssumption, Sessions, Records

\* Between the calls nothing is left to do; a request of the periodic session
\* has no flagged record; the records of an answered request are posted; and
\* the last request of a session has come to the end of its range.
AtWork ==
  /\ \A s \in Sessions : session[s].iter <= end /\ session[s].start <= end
  /\ pc # "flag" => todo = {}
  /\ pc = "post" /\ cur = "RT" => batch \cap flag = {}
  /\ pc = "flag" => batch \subseteq posted
  /\ pc # "idle" =>
       /\ session[cur].phase = "ready"
       /\ more \/ session[cur].iter <= session[cur].low

IInv == TypeOK /\ AtWork /\ NothingSkipped /\ FlagsAreAcknowledged

LEMMA InitIInv == Init => IInv
<1> SUFFICES ASSUME Init PROVE IInv
  OBVIOUS
<1>1. session \in [Sessions -> Session] /\ \A s \in Sessions : session[s] = None
  BY DEF Init, None, Session
<1>2. TypeOK
  <2>1. more \in BOOLEAN /\ pc \in {"idle", "post", "flag"} /\ cur \in Sessions
    BY DEF Init
  <2>2. end \in 0..MaxRecords /\ old \in 0..end /\ faults \in 0..MaxFaults
    BY DEF Init
  <2> QED BY <1>1, <2>1, <2>2 DEF Init, TypeOK
<1>3. AtWork /\ NothingSkipped /\ FlagsAreAcknowledged
  BY <1>1 DEF Init, AtWork, NothingSkipped, Began, FlagsAreAcknowledged, None
<1> QED BY <1>2, <1>3 DEF IInv

\* What a record update of one session leaves of the two.
LEMMA OneSession ==
  ASSUME TypeOK, NEW s \in Sessions, NEW x \in Session,
         session' = [session EXCEPT ![s] = x]
  PROVE  /\ session' \in [Sessions -> Session]
         /\ session'[s] = x
         /\ \A t \in Sessions : t # s => session'[t] = session[t]
  BY DEF TypeOK

LEMMA EndedIs ==
  ASSUME TypeOK, NEW s \in Sessions, session' = Ended(s)
  PROVE  /\ session' \in [Sessions -> Session]
         /\ session'[s] = [phase |-> "done", iter |-> 0,
                         low |-> session[s].low, start |-> session[s].start]
         /\ \A t \in Sessions : t # s => session'[t] = session[t]
<1>1. session[s] \in Session
  BY DEF TypeOK
<1>2. [phase |-> "done", iter |-> 0, low |-> session[s].low, start |-> session[s].start]
        \in Session
  BY <1>1 DEF Session
<1> QED BY <1>2, OneSession DEF Ended

(***************************************************************************)
(* One lemma per action.                                                   *)
(***************************************************************************)

LEMMA StoreKeeps == IInv /\ Store => IInv'
<1> SUFFICES ASSUME IInv, Store PROVE IInv'
  OBVIOUS
<1> USE DEF IInv, Store, request, history
<1>1. TypeOK'
  BY DEF TypeOK
<1>2. AtWork'
  BY DEF TypeOK, AtWork, Session
<1>3. NothingSkipped'
  BY DEF NothingSkipped, Began
<1> QED BY <1>1, <1>2, <1>3 DEF FlagsAreAcknowledged

LEMMA AgeKeeps == IInv /\ Age => IInv'
<1> SUFFICES ASSUME IInv, Age PROVE IInv'
  OBVIOUS
<1> USE DEF IInv, Age, request, history
<1>1. TypeOK'
  BY DEF TypeOK
<1>2. AtWork' /\ NothingSkipped'
  BY DEF AtWork, NothingSkipped, Began
<1> QED BY <1>1, <1>2 DEF FlagsAreAcknowledged

LEMMA NewSessionKeeps ==
  ASSUME IInv, pc = "idle", NEW s \in Sessions, NEW from \in 0..end,
         NEW to \in 0..end, NEW newest \in 0..end,
         to = IF s = "RT" THEN newest ELSE newest - 1,
         session' = [session EXCEPT ![s] =
                       [phase |-> "ready", iter |-> to, low |-> from, start |-> newest]],
         UNCHANGED <<end, old, flag, request, history>>
  PROVE  IInv'
<1> DEFINE x == [phase |-> "ready", iter |-> to, low |-> from, start |-> newest]
<1> USE DEF IInv, request, history
<1>1. x \in Session
  BY DEF Session, TypeOK
<1> HIDE DEF x
<1>2. /\ session' \in [Sessions -> Session]
      /\ session'[s] = x
      /\ \A t \in Sessions : t # s => session'[t] = session[t]
  BY <1>1, OneSession DEF x
<1>3. TypeOK'
  BY <1>2 DEF TypeOK
<1>4. AtWork'
  BY <1>2 DEF AtWork, TypeOK, x
<1>5. NothingSkipped'
  <2> SUFFICES ASSUME NEW t \in Sessions, NEW r \in Records,
                      session'[t].phase # "none", r > session'[t].iter,
                      r > session'[t].low, r <= Began(t)'
               PROVE  r \in posted
    BY DEF NothingSkipped, Began
  <2>1. CASE t # s
    BY <1>2, <2>1 DEF NothingSkipped, Began
  <2>2. CASE t = s
    BY <1>2, <2>2 DEF Began, x
  <2> QED BY <2>1, <2>2
<1> QED BY <1>3, <1>4, <1>5 DEF FlagsAreAcknowledged

\* A record between the scan and the iterator that is not due was sent.
LEMMA NotDueIsPosted ==
  ASSUME IInv, NEW s \in Sessions, NEW it \in 0..end, NEW r \in Records,
         r > it, r <= session[s].iter, r > session[s].low, r \notin Due(s, it)
  PROVE  r \in posted
<1>1. r \in (it + 1)..session[s].iter
  BY DEF IInv, TypeOK, Session
<1> QED BY <1>1 DEF Due, IInv, FlagsAreAcknowledged

LEMMA ScanNothingKeeps ==
  ASSUME IInv, NEW s \in Sessions, ScanNothing(s)
  PROVE  IInv'
<1> USE DEF IInv, ScanNothing, request, history
<1>1. /\ session' \in [Sessions -> Session]
      /\ session'[s] = [phase |-> "done", iter |-> 0,
                         low |-> session[s].low, start |-> session[s].start]
      /\ \A t \in Sessions : t # s => session'[t] = session[t]
  BY EndedIs
<1>2. session[s] \in Session
  BY DEF TypeOK
<1>3. TypeOK'
  BY <1>1 DEF TypeOK
<1>4. AtWork'
  <2>1. \A t \in Sessions : session'[t].iter <= end /\ session'[t].start <= end
    <3>1. session'[s].iter = 0 /\ session'[s].start = session[s].start
      BY <1>1, <1>2 DEF Session
    <3>2. session[s].start <= end /\ 0 <= end
      BY DEF AtWork, TypeOK
    <3> QED BY <1>1, <3>1, <3>2 DEF AtWork
  <2> QED BY <2>1 DEF AtWork
<1>5. NothingSkipped'
  <2> SUFFICES ASSUME NEW t \in Sessions, NEW r \in Records,
                      session'[t].phase # "none", r > session'[t].iter,
                      r > session'[t].low, r <= Began(t)'
               PROVE  r \in posted
    BY DEF NothingSkipped, Began
  <2>1. CASE t # s
    BY <1>1, <2>1 DEF NothingSkipped, Began
  <2>2. CASE t = s /\ r > session[s].iter
    BY <1>1, <1>2, <2>2 DEF NothingSkipped, Session, Began
  <2>3. CASE t = s /\ r <= session[s].iter
    <3>1. session[s].low \in 0..MaxRecords /\ r > session[s].low
      BY <1>1, <1>2, <2>3 DEF Session
    <3>2. r \in (session[s].low + 1)..session[s].iter
      BY <1>2, <2>3, <3>1 DEF Session
    <3>3. r \notin Due(s, session[s].low)
      OBVIOUS
    <3> QED BY <3>1, <3>2, <3>3 DEF Due, FlagsAreAcknowledged
  <2> QED BY <1>2, <2>1, <2>2, <2>3 DEF Session
<1> QED BY <1>3, <1>4, <1>5 DEF FlagsAreAcknowledged

LEMMA ScanKeeps ==
  ASSUME IInv, NEW s \in Sessions, Scan(s)
  PROVE  IInv'
<1> USE DEF IInv, history
<1>1. PICK it \in 0..end :
        /\ Full(s, it) \/ Exhausted(s, it)
        /\ batch' = Due(s, it)
        /\ session' = [session EXCEPT ![s].iter = it]
        /\ more' = (Full(s, it) /\ it > 0)
  BY DEF Scan
<1>2. /\ pc = "idle" /\ pc' = "post" /\ cur' = s /\ session[s].phase = "ready"
      /\ UNCHANGED <<end, old, flag, todo, posted, missed, faults>>
  BY DEF Scan
<1>3. session[s] \in Session /\ it \in 0..MaxRecords
  BY DEF TypeOK
<1>4. /\ session' \in [Sessions -> Session]
      /\ session'[s] = [session[s] EXCEPT !.iter = it]
      /\ \A t \in Sessions : t # s => session'[t] = session[t]
  BY <1>1, <1>3 DEF TypeOK, Session
<1>5. Due(s, it) \subseteq 1..end
  BY <1>3 DEF Due, AtWork, TypeOK, Session
<1>6. TypeOK'
  BY <1>1, <1>2, <1>4, <1>5 DEF TypeOK, AtWork
<1>7. AtWork'
  <2>1. \A t \in Sessions : session'[t].iter <= end /\ session'[t].start <= end
    BY <1>3, <1>4 DEF AtWork, TypeOK, Session
  <2>2. s = "RT" => Due(s, it) \cap flag = {}
    BY DEF Due
  <2>3. more' \/ session'[s].iter <= session'[s].low
    <3>1. CASE Full(s, it) /\ it > 0
      BY <1>1, <3>1
    <3>2. CASE ~(Full(s, it) /\ it > 0)
      <4>1. it <= session[s].low
        BY <1>1, <1>3, <3>2 DEF Exhausted, Session
      <4> QED BY <1>3, <1>4, <4>1 DEF Session
    <3> QED BY <3>1, <3>2
  <2> QED BY <1>1, <1>2, <1>3, <1>4, <2>1, <2>2, <2>3 DEF AtWork, Session
<1>8. NothingSkipped'
  <2> SUFFICES ASSUME NEW t \in Sessions, NEW r \in Records,
                      session'[t].phase # "none", r > session'[t].iter,
                      r > session'[t].low, r <= Began(t)'
               PROVE  r \in posted \/ (t = s /\ r \in Due(s, it))
    BY <1>1, <1>2 DEF NothingSkipped, Began
  <2>1. CASE t # s
    BY <1>2, <1>4, <2>1 DEF NothingSkipped, Began
  <2>2. CASE t = s /\ r > session[s].iter
    BY <1>2, <1>3, <1>4, <2>2 DEF NothingSkipped, Session, Began
  <2>3. CASE t = s /\ r <= session[s].iter
    BY <1>3, <1>4, <2>3, NotDueIsPosted DEF Session
  <2> QED BY <1>3, <2>1, <2>2, <2>3 DEF Session
<1> QED BY <1>2, <1>6, <1>7, <1>8 DEF FlagsAreAcknowledged

LEMMA PostOkKeeps == IInv /\ PostOk => IInv'
<1> SUFFICES ASSUME IInv, PostOk PROVE IInv'
  OBVIOUS
<1> USE DEF IInv, PostOk
<1>1. TypeOK'
  BY DEF TypeOK, Text, Marks
<1>2. AtWork'
  BY DEF AtWork, TypeOK
<1>3. NothingSkipped'
  BY DEF NothingSkipped, Began
<1>4. FlagsAreAcknowledged'
  BY DEF FlagsAreAcknowledged, AtWork, Marks
<1> QED BY <1>1, <1>2, <1>3, <1>4

LEMMA PostFailsKeeps == IInv /\ PostFails => IInv'
<1> SUFFICES ASSUME IInv, PostFails PROVE IInv'
  OBVIOUS
<1> USE DEF IInv, PostFails
<1>1. None \in Session /\ cur \in Sessions
  BY DEF None, Session, TypeOK
<1>2. /\ session' \in [Sessions -> Session]
      /\ session'[cur] = None
      /\ \A t \in Sessions : t # cur => session'[t] = session[t]
  BY <1>1, OneSession DEF Dropped
<1>3. TypeOK'
  BY <1>2 DEF TypeOK, AtWork
<1>4. AtWork'
  BY <1>2 DEF AtWork, TypeOK, None
<1>5. NothingSkipped'
  BY <1>1, <1>2 DEF NothingSkipped, Began, None
<1> QED BY <1>3, <1>4, <1>5 DEF FlagsAreAcknowledged

LEMMA WriteFlagKeeps == IInv /\ WriteFlag => IInv'
<1> SUFFICES ASSUME IInv, WriteFlag PROVE IInv'
  OBVIOUS
<1> USE DEF IInv
<1>1. PICK r \in todo :
        /\ todo' = todo \ {r}
        /\ \/ flag' = flag \cup {r} /\ UNCHANGED <<missed, faults>>
           \/ /\ faults < MaxFaults /\ faults' = faults + 1
              /\ missed' = missed \cup {r}
              /\ UNCHANGED flag
  BY DEF WriteFlag
<1>2. pc = "flag" /\ UNCHANGED <<end, old, session, pc, cur, batch, more, posted>>
  BY DEF WriteFlag
<1>3. r \in batch /\ r \in posted
  BY <1>2 DEF TypeOK, AtWork
<1>4. TypeOK'
  <2>1. faults' \in 0..MaxFaults
    BY <1>1 DEF TypeOK
  <2>2. flag' \subseteq 1..end /\ missed' \subseteq 1..end /\ todo' \subseteq batch
    BY <1>1, <1>3 DEF TypeOK
  <2> QED BY <1>2, <2>1, <2>2 DEF TypeOK
<1>5. AtWork'
  BY <1>2 DEF AtWork
<1>6. NothingSkipped'
  BY <1>2 DEF NothingSkipped, Began
<1>7. FlagsAreAcknowledged'
  BY <1>1, <1>2, <1>3 DEF FlagsAreAcknowledged
<1> QED BY <1>4, <1>5, <1>6, <1>7

LEMMA FinishKeeps == IInv /\ Finish => IInv'
<1> SUFFICES ASSUME IInv, Finish PROVE IInv'
  OBVIOUS
<1> USE DEF IInv, Finish, history
<1>1. cur \in Sessions /\ session[cur] \in Session
  BY DEF TypeOK
<1>2. CASE more
  BY <1>2 DEF TypeOK, AtWork, NothingSkipped, Began, FlagsAreAcknowledged
<1>3. CASE ~more
  <2>1. /\ session' \in [Sessions -> Session]
        /\ session'[cur] = [phase |-> "done", iter |-> 0,
                         low |-> session[cur].low, start |-> session[cur].start]
        /\ \A t \in Sessions : t # cur => session'[t] = session[t]
    BY <1>1, <1>3, EndedIs
  <2>2. session[cur].iter <= session[cur].low /\ session[cur].phase = "ready"
    BY <1>3 DEF AtWork
  <2>3. TypeOK'
    BY <2>1 DEF TypeOK
  <2>4. AtWork'
    <3>1. \A t \in Sessions : session'[t].iter <= end /\ session'[t].start <= end
      <4>1. session'[cur].iter = 0 /\ session'[cur].start = session[cur].start
        BY <1>1, <2>1 DEF Session
      <4>2. session[cur].start <= end /\ 0 <= end
        BY <1>1 DEF AtWork, TypeOK
      <4> QED BY <2>1, <4>1, <4>2 DEF AtWork
    <3> QED BY <3>1 DEF AtWork
  <2>5. NothingSkipped'
    <3> SUFFICES ASSUME NEW t \in Sessions, NEW r \in Records,
                        session'[t].phase # "none", r > session'[t].iter,
                        r > session'[t].low, r <= Began(t)'
                 PROVE  r \in posted
      BY DEF NothingSkipped, Began
    <3>1. CASE t # cur
      BY <2>1, <3>1 DEF NothingSkipped, Began
    <3>2. CASE t = cur
      <4>1. r > session[cur].low /\ r <= Began(cur)
        BY <1>1, <2>1, <3>2 DEF Session, Began
      <4>2. r > session[cur].iter
        BY <1>1, <2>2, <4>1 DEF Session
      <4> QED BY <1>1, <2>2, <4>1, <4>2 DEF NothingSkipped, Began
    <3> QED BY <3>1, <3>2
  <2> QED BY <2>3, <2>4, <2>5 DEF FlagsAreAcknowledged
<1> QED BY <1>2, <1>3 DEF TypeOK

LEMMA CrashKeeps == IInv /\ Crash => IInv'
<1> SUFFICES ASSUME IInv, Crash PROVE IInv'
  OBVIOUS
<1> USE DEF IInv, Crash
<1>1. session' \in [Sessions -> Session] /\ \A s \in Sessions : session'[s] = None
  BY DEF None, Session, TypeOK
<1>2. TypeOK'
  <2>1. faults' \in 0..MaxFaults
    BY DEF TypeOK
  <2>2. missed' \subseteq 1..end
    BY DEF TypeOK
  <2> QED BY <1>1, <2>1, <2>2 DEF TypeOK
<1>3. AtWork'
  BY <1>1 DEF AtWork, None, TypeOK
<1>4. NothingSkipped'
  BY <1>1 DEF NothingSkipped, Began, None
<1>5. FlagsAreAcknowledged'
  BY DEF FlagsAreAcknowledged
<1> QED BY <1>2, <1>3, <1>4, <1>5

LEMMA NextIInv == IInv /\ [Next]_vars => IInv'
<1> SUFFICES ASSUME IInv, [Next]_vars PROVE IInv'
  OBVIOUS
<1>1. CASE PrepareRT
  <2>1. old \in 0..end /\ end \in 0..end /\ pc = "idle"
    BY <1>1 DEF IInv, TypeOK, PrepareRT
  <2> QED BY <1>1, <2>1, NewSessionKeeps DEF PrepareRT
<1>2. CASE GetByDateRange
  <2>1. PICK to \in 1..end : \E from \in 0..end :
          session' = [session EXCEPT !["Range"] =
                        [phase |-> "ready", iter |-> to - 1, low |-> from, start |-> to]]
    BY <1>2 DEF GetByDateRange
  <2>2. PICK from \in 0..end :
          session' = [session EXCEPT !["Range"] =
                        [phase |-> "ready", iter |-> to - 1, low |-> from, start |-> to]]
    BY <2>1
  <2>3. to \in 0..end /\ to - 1 \in 0..end
    BY DEF IInv, TypeOK
  <2> QED BY <1>2, <2>2, <2>3, NewSessionKeeps DEF GetByDateRange
<1>3. CASE \E s \in Sessions : ScanNothing(s) \/ Scan(s)
  BY <1>3, ScanNothingKeeps, ScanKeeps
<1>4. CASE UNCHANGED vars
  BY <1>4 DEF vars, IInv, TypeOK, AtWork, NothingSkipped, Began, FlagsAreAcknowledged
<1> QED
  BY <1>1, <1>2, <1>3, <1>4, StoreKeeps, AgeKeeps, PostOkKeeps, PostFailsKeeps,
     WriteFlagKeeps, FinishKeeps, CrashKeeps DEF Next

LEMMA Inductive == Spec => []IInv
  BY InitIInv, NextIInv, PTL DEF Spec

(***************************************************************************)
(* The theorems.                                                           *)
(***************************************************************************)

\* The state of the uploads stays in its types.
THEOREM UploadTypeCorrect == Spec => []TypeOK
<1>1. IInv => TypeOK
  BY DEF IInv
<1> QED BY Inductive, <1>1, PTL

\* Neither session of send_data_with_post skips a record behind the iterator it
\* began with.
THEOREM SessionsSkipNothing == Spec => []NothingSkipped
<1>1. IInv => NothingSkipped
  BY DEF IInv
<1> QED BY Inductive, <1>1, PTL

\* A flag in the EEPROM stands for an answered request.
THEOREM FlagsStandForAnswers == Spec => []FlagsAreAcknowledged
<1>1. IInv => FlagsAreAcknowledged
  BY DEF IInv
<1> QED BY Inductive, <1>1, PTL

\* The periodic upload repeats a record only when its flag was missed.
THEOREM RepeatsAreMissedFlags == Spec => []NoNeedlessRepeat
<1>1. IInv => NoNeedlessRepeat
  BY DEF IInv, AtWork, FlagsAreAcknowledged, NoNeedlessRepeat
<1> QED BY Inductive, <1>1, PTL

-----------------------------------------------------------------------------
(***************************************************************************)
(* The search by date, with which the upload of a range begins: it stays   *)
(* inside the log and the place behind it, for every log and stride, and   *)
(* with the stride of the code it finds the record with the date in every  *)
(* sorted log.                                                             *)
(***************************************************************************)

LEMMA HalfBounds == ASSUME NEW n \in Nat
                    PROVE  n \div 2 \in Nat /\ n \div 2 <= n
  OBVIOUS

LEMMA LogTyped ==
  SearchTypeOK => /\ log.count \in Nat
            /\ \A k \in 0..log.count : log.time[k] \in Nat
            /\ dt \in Nat /\ place \in Nat /\ skip \in Nat
  BY SearchAssumption DEF SearchTypeOK

LEMMA SkipNextTyped == SearchTypeOK => SkipNext \in 0..SkipStart /\ ForwardNext \in BOOLEAN
<1> SUFFICES ASSUME SearchTypeOK PROVE SkipNext \in 0..SkipStart /\ ForwardNext \in BOOLEAN
  OBVIOUS
<1>1. skip \in Nat /\ skip <= SkipStart /\ SkipStart \in Nat
  BY SearchAssumption DEF SearchTypeOK
<1>2. skip \div 2 \in Nat /\ skip \div 2 <= SkipStart
  BY <1>1, HalfBounds
<1>3. SkipNext \in 0..SkipStart
  <2>1. CASE Turns
    BY <1>1, <1>2, <2>1 DEF SkipNext
  <2>2. CASE ~Turns
    BY <1>1, <2>2 DEF SkipNext
  <2> QED BY <2>1, <2>2
<1>4. ForwardNext \in BOOLEAN
  <2>1. forward \in BOOLEAN
    BY DEF SearchTypeOK
  <2>2. CASE Turns
    BY <2>2 DEF ForwardNext
  <2>3. CASE ~Turns
    BY <2>1, <2>3 DEF ForwardNext
  <2> QED BY <2>2, <2>3
<1> QED BY <1>3, <1>4

\* A step in either direction ends inside the log or at the place behind it.
LEMMA MovesStay ==
  ASSUME SearchTypeOK, NEW n \in Nat
  PROVE  MoveBack(place, n) \in 0..log.count /\ MoveForward(place, n) \in 0..log.count
<1>1. place \in 0..log.count /\ log.count \in Nat
  BY LogTyped DEF SearchTypeOK
<1> QED BY <1>1 DEF MoveBack, MoveForward

(***************************************************************************)
(* Types.                                                                  *)
(***************************************************************************)

LEMMA SearchInitTypeOK == SearchInit => SearchTypeOK
<1> SUFFICES ASSUME SearchInit PROVE SearchTypeOK
  OBVIOUS
<1>1. log.count \in Nat
  BY SearchAssumption DEF SearchInit
<1>2. 0 \in 0..log.count /\ 0 \in 0..SkipStart
  BY <1>1, SearchAssumption
<1> QED BY <1>2 DEF SearchInit, SearchTypeOK

LEMMA SearchNextTypeOK == SearchTypeOK /\ [SearchNext]_searchVars => SearchTypeOK'
<1> SUFFICES ASSUME SearchTypeOK, [SearchNext]_searchVars PROVE SearchTypeOK'
  OBVIOUS
<1>1. CASE \E d \in Dates : Ask(d)
  <2>1. log' = log /\ dt' \in Dates /\ forward' = FALSE /\ found' = FALSE
        /\ search' \in {"idle", "look", "done", "failed"}
        /\ skip' = SkipStart /\ place' = MoveBack(log.count, 1)
    BY <1>1 DEF Ask
  <2>2. MoveBack(log.count, 1) \in 0..log.count
    BY LogTyped DEF MoveBack
  <2>3. SkipStart \in 0..SkipStart
    BY SearchAssumption
  <2> QED BY <2>1, <2>2, <2>3 DEF SearchTypeOK
<1>2. CASE Match
  BY <1>2 DEF Match, SearchTypeOK
<1>3. CASE GiveUp
  <2>1. found' \in BOOLEAN
    BY <1>3 DEF GiveUp
  <2> QED BY <1>3, <2>1, SkipNextTyped DEF GiveUp, SearchTypeOK
<1>4. CASE Stride
  <2>1. SkipNext \in Nat
    BY SkipNextTyped
  <2>2. place' \in 0..log.count
    BY <1>4, <2>1, MovesStay DEF Stride
  <2> QED BY <1>4, <2>2, SkipNextTyped DEF Stride, SearchTypeOK
<1>5. CASE UNCHANGED searchVars
  BY <1>5 DEF searchVars, SearchTypeOK
<1> QED BY <1>1, <1>2, <1>3, <1>4, <1>5 DEF SearchNext, Look

\* The search reads inside the log or at the place behind it, whatever the
\* records say.
THEOREM SearchStays == SearchSpec => []SearchTypeOK
  BY SearchInitTypeOK, SearchNextTypeOK, PTL DEF SearchSpec

(***************************************************************************)
(* The date is found.                                                      *)
(***************************************************************************)

\* The strides of the two directions alternate, so that the last one, of one
\* record, goes forwards and has come from a record before the date.
Strides ==
  search = "look" =>
    /\ log.count > 0
    /\ ~forward => skip \in {128, 32, 8, 2}
    /\ forward => skip \in {64, 16, 4, 1}
    /\ (forward /\ skip = 1 /\ BlankEnd) => place > 0 /\ log.time[place - 1] < dt

SearchIInv == SearchTypeOK /\ Strides /\ ExactDateIsFound

\* Where a turn leads to.
LEMMA Turning ==
  ASSUME SearchIInv, search = "look"
  PROVE  /\ SkipNext = 0 => forward /\ skip = 1 /\ Turns
         /\ SkipNext # 0 /\ ~ForwardNext => SkipNext \in {128, 32, 8, 2}
         /\ SkipNext # 0 /\ ForwardNext => SkipNext \in {64, 16, 4, 1}
         /\ ForwardNext => Now <= dt
         /\ ~ForwardNext => Now >= dt
<1>1. Now \in Nat /\ dt \in Nat
  BY LogTyped DEF SearchIInv, Now, SearchTypeOK
<1>2. CASE forward
  <2>1. skip \in {64, 16, 4, 1}
    BY <1>2 DEF SearchIInv, Strides
  <2> QED BY <1>1, <1>2, <2>1 DEF SkipNext, ForwardNext, Turns
<1>3. CASE ~forward
  <2>1. skip \in {128, 32, 8, 2}
    BY <1>3 DEF SearchIInv, Strides
  <2> QED BY <1>1, <1>3, <2>1 DEF SkipNext, ForwardNext, Turns
<1> QED BY <1>2, <1>3 DEF SearchIInv, SearchTypeOK

LEMMA GiveUpKeeps == SearchIInv /\ GiveUp => ExactDateIsFound'
<1> SUFFICES ASSUME SearchIInv, GiveUp, Sorted, BlankEnd
             PROVE  \A k \in 0..log.count-1 : log.time[k] # dt
  BY DEF ExactDateIsFound, GiveUp, Sorted, BlankEnd
<1>1. search = "look" /\ Now # dt /\ NoneLeft
  BY DEF GiveUp
<1>2. /\ log.count \in Nat /\ log.count > 0
      /\ \A k \in 0..log.count : log.time[k] \in Nat
      /\ dt \in Nat /\ place \in 0..log.count
  BY <1>1, LogTyped DEF SearchIInv, Strides, SearchTypeOK
<1>3. Now = log.time[place] /\ Now \in Nat
  BY <1>2 DEF Now
<1>4. CASE SkipNext = 0
  <2>1. forward /\ skip = 1 /\ Now > dt
    BY <1>1, <1>4, Turning DEF Turns
  <2>2. place > 0 /\ log.time[place - 1] < dt
    BY <1>1, <2>1 DEF SearchIInv, Strides
  <2>3. ASSUME NEW k \in 0..log.count-1 PROVE log.time[k] # dt
    <3>1. CASE k < place - 1
      <4>1. log.time[k] < log.time[place - 1]
        BY <1>2, <2>2, <2>3, <3>1 DEF Sorted
      <4> QED BY <1>2, <2>2, <4>1
    <3>2. CASE k = place - 1
      BY <1>2, <2>2, <3>2
    <3>3. CASE k = place
      BY <1>2, <1>3, <2>1, <3>3
    <3>4. CASE k > place
      <4>1. log.time[place] < log.time[k]
        BY <1>2, <2>3, <3>4 DEF Sorted
      <4> QED BY <1>2, <1>3, <2>1, <4>1
    <3> QED BY <1>2, <3>1, <3>2, <3>3, <3>4
  <2> QED BY <2>3
<1>5. CASE SkipNext # 0
  <2>1. ~ForwardNext /\ place = 0
    BY <1>1, <1>5 DEF NoneLeft
  <2>2. Now > dt
    BY <1>1, <1>2, <1>3, <2>1, Turning
  <2>3. ASSUME NEW k \in 0..log.count-1 PROVE log.time[k] # dt
    <3>1. CASE k = 0
      BY <1>1, <1>3, <2>1, <3>1
    <3>2. CASE k > 0
      <4>1. log.time[0] < log.time[k]
        BY <1>2, <2>3, <3>2 DEF Sorted
      <4> QED BY <1>2, <1>3, <2>1, <2>2, <4>1
    <3> QED BY <3>1, <3>2
  <2> QED BY <2>3
<1> QED BY <1>4, <1>5

LEMMA StrideKeeps == SearchIInv /\ Stride => Strides'
<1> SUFFICES ASSUME SearchIInv, Stride PROVE Strides'
  OBVIOUS
<1>1. /\ search = "look" /\ Now # dt /\ ~NoneLeft
      /\ skip' = SkipNext /\ forward' = ForwardNext
      /\ place' = IF ForwardNext THEN MoveForward(place, SkipNext) ELSE MoveBack(place, SkipNext)
      /\ UNCHANGED <<log, dt, search, found>>
  BY DEF Stride
<1>2. /\ log.count \in Nat /\ log.count > 0
      /\ \A k \in 0..log.count : log.time[k] \in Nat
      /\ dt \in Nat /\ place \in 0..log.count
  BY <1>1, LogTyped DEF SearchIInv, Strides, SearchTypeOK
<1>3. SkipNext # 0
  BY <1>1 DEF NoneLeft
<1>4. log'.count > 0
  BY <1>1, <1>2
<1>5. /\ ~forward' => skip' \in {128, 32, 8, 2}
      /\ forward' => skip' \in {64, 16, 4, 1}
  BY <1>1, <1>3, Turning
<1>6. ASSUME forward', skip' = 1, BlankEnd'
      PROVE  place' > 0 /\ log'.time[place' - 1] < dt'
  <2>1. BlankEnd /\ ForwardNext /\ SkipNext = 1
    BY <1>1, <1>6 DEF BlankEnd
  <2>2. Now < dt
    BY <1>1, <1>2, <2>1, Turning DEF Now
  <2>3. place # log.count
    BY <1>2, <2>1, <2>2 DEF BlankEnd, Now
  <2>4. place' = place + 1
    BY <1>1, <1>2, <2>1, <2>3 DEF MoveForward
  <2> QED BY <1>1, <1>2, <2>2, <2>4 DEF Now
<1> QED BY <1>4, <1>5, <1>6 DEF Strides

LEMMA SearchNextIInv == SkipStart = 128 /\ SearchIInv /\ [SearchNext]_searchVars => SearchIInv'
<1> SUFFICES ASSUME SkipStart = 128, SearchIInv, [SearchNext]_searchVars PROVE SearchIInv'
  OBVIOUS
<1>1. SearchTypeOK'
  BY SearchNextTypeOK DEF SearchIInv
<1>2. CASE \E d \in Dates : Ask(d)
  <2>1. /\ log' = log /\ found' = FALSE /\ forward' = FALSE /\ skip' = 128
        /\ search' \in IF log.count = 0 THEN {"done"} ELSE {"look", "failed"}
    BY <1>2 DEF Ask
  <2>2. Strides'
    BY <2>1, LogTyped DEF Strides, SearchIInv
  <2>3. ExactDateIsFound'
    <3>1. search' = "done" => log'.count = 0
      BY <2>1
    <3>2. search' = "done" => ~ \E k \in 0..log'.count-1 : log'.time[k] = dt'
      BY <3>1
    <3> QED BY <2>1, <3>2 DEF ExactDateIsFound
  <2> QED BY <1>1, <2>2, <2>3 DEF SearchIInv
<1>3. CASE Match
  <2>1. Strides'
    BY <1>3 DEF Match, Strides
  <2>2. ExactDateIsFound'
    BY <1>3 DEF Match, ExactDateIsFound, Now
  <2> QED BY <1>1, <2>1, <2>2 DEF SearchIInv
<1>4. CASE GiveUp
  <2>1. Strides'
    BY <1>4 DEF GiveUp, Strides
  <2> QED BY <1>1, <1>4, <2>1, GiveUpKeeps DEF SearchIInv
<1>5. CASE Stride
  <2>1. ExactDateIsFound'
    BY <1>5 DEF Stride, ExactDateIsFound
  <2> QED BY <1>1, <1>5, <2>1, StrideKeeps DEF SearchIInv
<1>6. CASE UNCHANGED searchVars
  <2>1. Strides'
    BY <1>6 DEF searchVars, SearchIInv, Strides, BlankEnd
  <2>2. ExactDateIsFound'
    BY <1>6 DEF searchVars, SearchIInv, ExactDateIsFound, Sorted, BlankEnd
  <2> QED BY <1>1, <2>1, <2>2 DEF SearchIInv
<1> QED BY <1>2, <1>3, <1>4, <1>5, <1>6 DEF SearchNext, Look

\* With the stride of the code: in every sorted log in front of blank memory,
\* of any length and spacing, the record with the date asked for is found.
THEOREM DateIsFound ==
  ASSUME SkipStart = 128
  PROVE  SearchSpec => []ExactDateIsFound
<1>1. SearchInit => SearchIInv
  BY SearchInitTypeOK DEF SearchInit, SearchIInv, Strides, ExactDateIsFound
<1>2. SearchIInv /\ [SearchNext]_searchVars => SearchIInv'
  BY SearchNextIInv
<1> QED BY <1>1, <1>2, PTL DEF SearchSpec, SearchIInv
=============================================================================
