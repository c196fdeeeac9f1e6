------------------------------- MODULE Modem --------------------------------
(***************************************************************************)
(* The tasks that use the modem, call by call and command by command: the  *)
(* first synchronisation at boot, the time synchronisation, the periodic   *)
(* upload, the query for commands, the upload of a range, and the calls of *)
(* the driver that no task uses.  An answer may come after the wait for it *)
(* has ended and is then taken for that of the next command; a tick may    *)
(* come just before the receive ring is flushed, and what was received     *)
(* during the tick is lost; modem and controller may be reset.             *)
(***************************************************************************)
EXTENDS Integers, ModemCalls

CONSTANTS
  BootTries,   \* rounds of the loops of datalogger_init before the reset, 9
  Others,      \* the calls no task makes that are made here
  MaxLate,     \* a bound: waits that end before the answer comes
  MaxLag,      \* a bound: tokens by which a modem lags behind the next command
  MaxLost,     \* a bound: ticks that come before a flush
  MaxResets    \* a bound: resets of the modem and of the controller

ASSUME ModemAssumption ==
  /\ BootTries \in Nat \ {0}
  /\ Others \subseteq {"check", "sms", "tcp_init", "tcp_connect", "tcp_send", "ftp"}
  /\ MaxLate \in Nat /\ MaxLag \in Nat /\ MaxLost \in Nat /\ MaxResets \in Nat

M == INSTANCE Sim900

VARIABLES
  job, stage,    \* the task and its call
  good,          \* err = 0 in the task
  boots,         \* ii of the loops of datalogger_init
  pc, try, turn, \* the step of the call, how often it was sent, and the loop
  waiting,       \* the command is sent and the ring is flushed
  buf,           \* szBuf of sim900_GPRS_init: whether it begins with +SAPBR:, and its digit
  sim,           \* the modem
  out,           \* what it has answered and the ring has not received
  slow,          \* of which some is the answer of an earlier command
  ready,         \* the upload sessions that are READY
  served,        \* the server has taken the data of this post
  clock,         \* what the clock was set to last
  refused,       \* uploads that found this HTTP service already initialised
  late, lost, resets

control == <<job, stage, good, boots, pc, try, turn>>
faults == <<late, lost, resets>>
history == <<served, clock>>
vars == <<control, waiting, buf, sim, out, slow, ready, history, refused, faults>>

NoBuf == [sapbr |-> FALSE, digit |-> "x"]

Init ==
  /\ job = "boot" /\ stage = "init" /\ good = TRUE /\ boots = 0
  /\ pc = 1 /\ try = 0 /\ turn = 0
  /\ waiting = FALSE /\ buf = NoBuf
  /\ sim \in {M!Off, M!On} /\ out = <<>> /\ slow = FALSE
  /\ ready = {}
  /\ served = FALSE /\ clock = "server" /\ refused = 0
  /\ late = 0 /\ lost = 0 /\ resets = 0

Calling == job # "idle"
Sessions == {"RT", "range"}

\* The last sim900_http_close of send_data_with_post has a stage of its own.
Steps900 == Steps[IF stage = "quit" THEN "term" ELSE stage]
step == Steps900[pc]

-----------------------------------------------------------------------------
(***************************************************************************)
(* From call to call: where a task may go when the call of its stage has   *)
(* returned; "end" is its return.                                          *)
(***************************************************************************)

\* dl_task_sync_time.  An error of sim900_http_get leaves the HTTP service
\* initialised.
SyncAfter(ok) ==
  CASE stage = "open" -> {IF ok THEN "get" ELSE "shut"}
    [] stage = "get" -> {IF ok THEN "term" ELSE "shut"}
    [] stage = "term" -> {"shut"}
    [] OTHER -> {"end"}

\* (Variant: after an error nothing is closed and initialised.)
SendGivesUp(ok) ==
  CASE stage = "open" -> {IF ok THEN "post" ELSE "end"}
    [] stage = "post" -> {IF ok THEN "read" ELSE "end"}
    [] stage = "read" -> {"term"}
    [] stage = "term" -> {"more", "quit"}
    [] stage = "quit" -> {"shut"}
    [] OTHER -> {"end"}

\* dl_task_send_data_prepare_RT, send_data_with_post, dl_task_send_data(_RT),
\* and sim900_init when one of them has failed.
SendAfter(ok) ==
  CASE stage = "open" -> {IF ok THEN "post" ELSE "init"}
    [] stage = "post" -> {IF ok THEN "read" ELSE "quit"}
    [] stage = "read" -> {"term"}
    [] stage = "term" -> {"more", "quit"}
    [] stage = "quit" -> {"shut"}
    [] stage = "shut" -> {IF good THEN "end" ELSE "init"}
    [] OTHER -> {"end"}

\* dl_task_cmd_check; the bearer stays open.
CmdAfter(ok) ==
  CASE stage = "open" -> {IF ok THEN "get" ELSE "end"}
    [] stage = "get" -> {"term"}
    [] OTHER -> {"end"}

\* datalogger_init: sim900_init until it succeeds, then the synchronisation.
BootAfter(ok) == IF stage = "init" THEN {IF ok THEN "open" ELSE "end"} ELSE SyncAfter(ok)

After(ok) ==
  CASE job = "boot" -> BootAfter(ok)
    [] job = "sync" -> SyncAfter(ok)
    [] job \in Sessions -> SendAfter(ok)
    [] job = "cmd" -> CmdAfter(ok)
    [] OTHER -> {"end"}

\* The data of a post is not that of another.
Enter(s, st) ==
  [s EXCEPT !.data = IF st # "read" /\ @ = "new" THEN "old" ELSE @]

Begins(j, st) ==
  /\ job' = j /\ stage' = st
  /\ pc' = 1 /\ try' = 0 /\ turn' = 0
  /\ served' = (served /\ st = "read")

Restarted ==
  /\ Begins("boot", "init") /\ good' = TRUE /\ boots' = 0 /\ ready' = {}

\* A loop of datalogger_init ends: its job is done, it tries again, or, at the
\* last try, the power is cut, which the controller may survive, or the watchdog
\* resets it.
BootRound(s) ==
  \/ /\ good /\ stage = "shut"
     /\ Begins("idle", "none") /\ boots' = 0 /\ good' = TRUE
     /\ sim' = s /\ UNCHANGED ready
  \/ /\ ~(good /\ stage = "shut") /\ boots + 1 < BootTries
     /\ Begins("boot", IF stage = "init" THEN "init" ELSE "open")
     /\ boots' = boots + 1 /\ good' = TRUE
     /\ sim' = s /\ UNCHANGED ready
  \/ /\ stage = "init" /\ boots + 1 = BootTries
     /\ \/ Restarted
        \/ Begins("boot", "init") /\ boots' = 0 /\ good' = TRUE /\ UNCHANGED ready
     /\ sim' = M!Off
  \/ /\ stage # "init" /\ ~good /\ boots + 1 = BootTries
     /\ Restarted /\ sim' = s

TaskEnds ==
  /\ Begins("idle", "none") /\ good' = TRUE /\ UNCHANGED boots
  /\ \/ UNCHANGED ready
     \* GET_BY_DATE_RANGE makes a session READY.
     \/ job = "cmd" /\ good /\ ready' = ready \cup {"range"}

CallEnds(ok, s) ==
  \E st \in After(ok) :
    /\ CASE st = "end" /\ job = "boot" -> BootRound(Enter(s, st))
         [] st = "end" /\ job # "boot" -> TaskEnds /\ sim' = Enter(s, st)
         [] st = "more" ->
              /\ sim' = Enter(s, st)
              /\ Begins("idle", "none") /\ ready' = ready \cup {job}
              /\ good' = TRUE /\ UNCHANGED boots
         [] OTHER ->
              /\ sim' = Enter(s, st)
              /\ Begins(job, st)
              /\ good' = (good /\ (ok \/ stage \notin {"open", "get", "post"}))
              /\ boots' = (IF stage = "init" THEN 0 ELSE boots)
              /\ UNCHANGED ready

-----------------------------------------------------------------------------
(***************************************************************************)
(* From step to step.                                                      *)
(***************************************************************************)

\* Where the outcome o leads; a loop ends after its turns.
Verdict(o) ==
  LET v == IF o \in DOMAIN step.to THEN step.to[o] ELSE "fail"
  IN IF v = "again" /\ (turn + 1) % step.turns = 0 THEN step.over ELSE v

\* (Variant: the turns of a loop are not counted.)
GoToUncounted(n, t, s) ==
  /\ pc' = n /\ turn' = 0 /\ try' = 0 /\ sim' = s
  /\ UNCHANGED <<job, stage, good, boots, ready, served>>

\* On to step n of the same call.
GoTo(n, t, s) ==
  /\ pc' = n /\ turn' = t /\ try' = 0 /\ sim' = s
  /\ UNCHANGED <<job, stage, good, boots, ready, served>>

\* powerSwitch_hardReset cuts the power of the board.  If the controller
\* survives that, the modem is switched again and gets three more AT.
HardReset(s) ==
  \/ Restarted /\ sim' = M!Off
  \/ /\ turn + 1 = step.turns
     /\ \E on \in {M!On, IF s.on THEN M!Off ELSE M!On} : GoTo(pc, turn + 1, on)
  \/ turn + 1 > step.turns /\ CallEnds(FALSE, s)

\* The step has come to the outcome o.
Move(o, s) ==
  LET v == Verdict(o)
      fresh == IF step.turns > 0 THEN 0 ELSE turn
  IN CASE v = "next" /\ pc < Len(Steps900) -> GoTo(pc + 1, fresh, s)
       [] v = "skip" -> GoTo(pc + 2, fresh, s)
       [] v = "again" -> GoTo(pc - step.back, turn + 1, s)
       [] v = "restart" -> GoTo(1, 0, s)
       [] v = "hardReset" -> HardReset(s)
       [] v = "fail" -> CallEnds(FALSE, s)
       [] OTHER -> CallEnds(TRUE, s)

\* What is still on its way when the ring is flushed.  The 100 ms before a step
\* are enough for the rest of an answer in time, but not for one that is late;
\* within an answer only a tick makes the flush lose something: all of the next
\* line or the beginning of it.
Kept ==
  IF ~step.soon
  THEN {[kept |-> <<>>, lost |-> 0]} \cup (IF slow /\ Len(out) <= MaxLag THEN {[kept |-> out, lost |-> 0]} ELSE {})
  ELSE {[kept |-> out, lost |-> 0]} \cup
       (IF out # <<>> /\ lost < MaxLost
        THEN {[kept |-> Tail(out), lost |-> 1],
              [kept |-> <<M!Tok("cut", "")>> \o Tail(out), lost |-> 1]}
        ELSE {})

\* AT+HTTPINIT of an upload, the first time it is sent, on a modem whose HTTP
\* service is initialised; the count is that of one such service.
CountRefused ==
  refused' = (IF ~sim'.http THEN 0
              ELSE IF /\ sim.http /\ waiting' /\ try = 0 /\ try' = 1
                      /\ job \in Sessions /\ step.cmd = "HTTPINIT"
              THEN refused + 1
              ELSE refused)

\* put_string and the flush at the beginning of each wait.
Send ==
  /\ Calling /\ ~waiting
  /\ \E k \in Kept, r \in M!Replies(sim, step.cmd) :
       /\ out' = (IF step.cmd = "TOGGLE" THEN <<>> ELSE k.kept \o r[2])
       /\ slow' = (slow /\ k.kept # <<>>)
       /\ lost' = lost + k.lost
       /\ IF step.wait = "nothing"
          THEN /\ Move("sent", IF step.cmd = "TOGGLE" THEN M!On ELSE r[1])
               /\ UNCHANGED waiting
          ELSE /\ waiting' = TRUE /\ try' = try + 1 /\ sim' = r[1]
               /\ UNCHANGED <<job, stage, good, boots, pc, turn, ready, served>>
  /\ CountRefused
  /\ UNCHANGED <<buf, clock, late, resets>>

\* What the wait of this step makes of a token: an outcome, or "" to go on.
Answer(t) == IF t.t \in Answered THEN t.t ELSE ""
BearerState ==
  CASE buf.sapbr /\ buf.digit = "3" -> "closed"
    [] ~(buf.sapbr /\ buf.digit = "3") /\ buf.digit = "2" -> "closing"
    [] OTHER -> "open"
ReadLine(t) ==
  CASE t.t \in {"line", "+CREG:", "+CGATT:", "+CSQ:"} -> t.v
    [] t.t = "+SAPBR:" -> "sapbr"
    [] t.t = "cut" -> "cut"
    [] OTHER -> "other"

Heard(t) ==
  CASE step.wait = "return" -> Answer(t)
    [] step.wait = "bearer" -> IF t = M!OK THEN BearerState ELSE Answer(t)
    [] step.wait = "digit" -> IF t = M!OK THEN buf.digit ELSE Answer(t)
    [] step.wait = "pin" -> IF t.t = "+CPIN:" THEN t.v ELSE Answer(t)
    [] step.wait = "line" -> ReadLine(t)
    [] OTHER -> IF t.t = step.wait THEN "match" ELSE ""

\* A matched text leaves the rest of its line.
RestOf(t) ==
  (IF step.wait \in {"+HTTPACTION:", "+HTTPREAD:"} /\ Heard(t) = "match"
   THEN <<M!Tok("line", t.v)>> ELSE <<>>) \o Tail(out)

\* szBuf[10] of a line that is no answer to AT+SAPBR is what was there before.
BufAfter(t) ==
  CASE stage # "open" -> {NoBuf}
    [] step.wait # "line" -> {buf}
    [] t.t = "+SAPBR:" -> {[sapbr |-> TRUE, digit |-> t.v]}
    [] OTHER -> {[sapbr |-> FALSE, digit |-> d] :
                   d \in (IF pc = 1 \/ t.t = "cut" THEN {"2", "x"} ELSE {buf.digit})}

\* The time service answered: rtc_set_time.
SetsClock(o) == job \in {"boot", "sync"} /\ stage = "get" /\ pc = Len(Steps900)

Hear ==
  /\ waiting /\ out # <<>>
  /\ LET t == Head(out)
         o == Heard(t)
     IN /\ out' = RestOf(t)
        /\ slow' = (slow /\ Len(out) > 1)
        /\ IF o = ""
           THEN UNCHANGED <<control, waiting, buf, sim, ready, history>>
           ELSE /\ waiting' = FALSE
                /\ buf' \in BufAfter(t)
                /\ clock' = (IF SetsClock(o)
                             THEN IF o = "body" THEN "server" ELSE "wrong"
                             ELSE clock)
                /\ Move(o, sim)
  /\ CountRefused
  /\ UNCHANGED faults

\* Nothing has come for 10 or 20 seconds.
TimeOut ==
  /\ waiting
  /\ out = <<>> \/ late < MaxLate
  /\ late' = (IF out = <<>> THEN late ELSE late + 1)
  /\ slow' = (out # <<>>)
  /\ waiting' = FALSE
  /\ IF try < step.tries THEN UNCHANGED <<control, sim, ready, served>>
     ELSE Move("none", sim)
  /\ CountRefused
  /\ UNCHANGED <<buf, out, clock, lost, resets>>

-----------------------------------------------------------------------------
(***************************************************************************)
(* The main loop between two tasks, the modem and the resets.              *)
(***************************************************************************)

\* datalogger_run: a task that is due begins, or a session that has asked for
\* another iteration goes on.
Start ==
  /\ ~Calling
  /\ \/ Begins("sync", "open") /\ UNCHANGED <<sim, ready>>
     \/ Begins("RT", "open") /\ UNCHANGED <<sim, ready>>
     \/ Begins("cmd", "open") /\ UNCHANGED <<sim, ready>>
     \/ \E s \in ready :
          Begins(s, "post") /\ sim' = Enter(sim, "post") /\ ready' = ready \ {s}
     \/ \E c \in Others : Begins("other", c) /\ UNCHANGED <<sim, ready>>
  /\ good' = TRUE
  /\ UNCHANGED <<boots, waiting, buf, out, slow, clock, refused, faults>>

\* The HTTP request has ended.
ActionEnds ==
  /\ sim.action # "none"
  /\ \E status \in {"200", "404"} :
       /\ status = "200" => sim.bearer = "connected"
       /\ out' = Append(out, M!Tok("+HTTPACTION:", status))
       /\ served' = (served \/ (sim.action = "POST" /\ sim.data = "new" /\ status = "200"))
  /\ sim' = [sim EXCEPT !.action = "none"]
  /\ UNCHANGED <<control, waiting, buf, slow, ready, clock, refused, faults>>

Modem ==
  \/ /\ sim' \in M!Drifts(sim)
     /\ UNCHANGED <<control, waiting, buf, out, slow, ready, history, refused, faults>>
  \/ /\ ~(stage = "post" /\ step.cmd \in {"HTTPDATA", "DATA"})  \* 30 s are longer
     /\ sim' \in M!LoadEnds(sim)
     /\ out' = Append(out, M!OK)
     /\ UNCHANGED <<control, waiting, buf, slow, ready, history, refused, faults>>

ModemResets ==
  /\ resets < MaxResets
  /\ sim' = M!Off /\ out' = <<>> /\ slow' = FALSE
  /\ resets' = resets + 1
  /\ CountRefused
  /\ UNCHANGED <<control, waiting, buf, ready, history, late, lost>>

\* The watchdog.
ControllerResets ==
  /\ resets < MaxResets
  /\ Restarted /\ waiting' = FALSE
  /\ resets' = resets + 1
  /\ UNCHANGED <<buf, sim, out, slow, clock, refused, late, lost>>

Next ==
  \/ Start \/ Send \/ Hear \/ TimeOut
  \/ ActionEnds \/ Modem \/ ModemResets \/ ControllerResets

Spec == Init /\ [][Next]_vars

\* The controller does not stop; the modem may.
FairSpec == Spec /\ WF_vars(Send) /\ WF_vars(Hear \/ TimeOut)

-----------------------------------------------------------------------------
TypeOK ==
  /\ job \in {"idle", "boot", "sync", "RT", "range", "cmd", "other"}
  /\ Calling => pc \in 1..Len(Steps900)
  /\ boots \in 0..BootTries
  /\ waiting \in BOOLEAN /\ slow \in BOOLEAN
  /\ ready \subseteq Sessions
  /\ late \in 0..MaxLate /\ lost \in 0..MaxLost /\ resets \in 0..MaxResets
  /\ out # <<>> => DOMAIN Head(out) = {"t", "v"}

NoFault == late = 0 /\ lost = 0 /\ resets = 0

\* sim900_http_post reports success only when the server has answered 200 to
\* the data of this very call, though one answer was late, a tick came before a
\* flush and modem and controller were reset.
PostAccepted == stage = "read" /\ job \in Sessions => served

\* An HTTP service that a failed synchronisation has left initialised makes one
\* upload fail, not a second: its sim900_http_close, or the sim900_init after
\* it, has ended the service.
RefusedOnce == refused <= 1

\* Without a fault the modem takes no command for data: it waits for data only
\* in the call that has announced it.
LoadWithinPost ==
  sim.load /\ NoFault => stage = "post" /\ step.cmd \in {"HTTPDATA", "DATA"}

\* Without a fault the clock is set to nothing but the time the server sent.
ClockWithoutFault == NoFault => clock = "server"

\* sim900_init goes back to init_sim after an answer to AT+CREG?, or none, that is
\* not +CREG: (sim900.c:705).  Nothing counts that.
StartsOver == stage = "init" /\ step.cmd = "CREG?" /\ stage' = "init" /\ pc' = 1

\* Every task comes to its end, or the controller is reset, whatever the modem
\* answers to the queries of the SIM and the network, also nothing, and also when
\* it is off: every wait is bounded and every loop counted but one.  That one may
\* keep a task for ever: a modem that says OK to AT and never +CREG: to AT+CREG?
\* is started over and over again, and the tick goes on feeding the watchdog.
TasksEnd ==
  \/ (job \notin {"idle", "boot"}) ~> (job \in {"idle", "boot"})
  \/ []<><<StartsOver>>_vars
=============================================================================
