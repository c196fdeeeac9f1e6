----------------------------- MODULE ModemProofs -----------------------------
(***************************************************************************)
(* Proofs about the calls of the modem driver and the tasks that make      *)
(* them, for any number of turns of the loops, of losses and of resets.    *)
(*                                                                         *)
(* What the tables of ModemCalls say of each stage and what the modem      *)
(* makes of each command is stated once (AllTables, HttpEffects, Deaf,     *)
(* Harmless), and each action in these words (SendIs, HearIs, TimeOutIs,   *)
(* StartIs, ...).  Typed is the type invariant: among the rest, a wait     *)
(* belongs to a call, and only after a late answer is an old one left to   *)
(* come.                                                                   *)
(*                                                                         *)
(* Loading tells where the modem may be waiting for data, Spoiled being    *)
(* the way from a failed post to the end of its HTTP service; RefusedInv   *)
(* adds which upload is to blame for a service that is initialised.        *)
(* Without a fault the texts that are to come in a call of                 *)
(* sim900_http_get are known by their places (Reading).                    *)
(*                                                                         *)
(* That a post is accepted rests on what is known at each of its steps of  *)
(* the texts still to come and of the request that runs: DOWNLOAD comes    *)
(* once (Announced, Own), the modem has then taken the new data (DataIn),  *)
(* one OK answers it (DataHeard), so that AT+HTTPACTION is sent with no    *)
(* request running or with nothing but the end of one to come (Ready), the *)
(* end that follows its OK is that of this post (PostHeard), and so is the *)
(* status that is read (Waits).                                            *)
(***************************************************************************)
EXTENDS Modem, SequenceTheorems, TLAPS


-----------------------------------------------------------------------------
(***************************************************************************)
(* The tables.                                                             *)
(***************************************************************************)

\* The commands that change more of the modem than its bearer.
Effective == {"HTTPDATA", "HTTPINIT", "TOGGLE", "GET", "POST", "HTTPTERM"}
Straight(p) == \A o \in DOMAIN p.to : p.to[o] = "next"
Quiet(p) == Straight(p) /\ p.cmd \notin Effective

LEMMA ToIs ==
  ASSUME NEW S, NEW w
  PROVE  DOMAIN To(S, w) = S /\ \A o \in S : To(S, w)[o] = w
  BY DEF To

LEMMA StepIs ==
  ASSUME NEW cmd, NEW wait, NEW tries, NEW to
  PROVE  LET p == Step(cmd, wait, tries, to)
         IN  /\ p.cmd = cmd /\ p.wait = wait /\ p.tries = tries /\ p.to = to
             /\ ~p.soon /\ p.back = 0 /\ p.over = "fail"
  BY DEF Step

LEMMA SoonIs ==
  ASSUME NEW cmd, NEW wait, NEW tries, NEW to
  PROVE  LET p == Soon(Step(cmd, wait, tries, to))
         IN  /\ p.cmd = cmd /\ p.wait = wait /\ p.tries = tries /\ p.to = to
             /\ p.soon /\ p.back = 0 /\ p.over = "fail"
  BY DEF Soon, Step

LEMMA LoopIs ==
  ASSUME NEW cmd, NEW wait, NEW tries, NEW to, NEW b, NEW t, NEW v
  PROVE  /\ LET p == Loop(Step(cmd, wait, tries, to), b, t, v)
            IN  p.cmd = cmd /\ p.wait = wait /\ p.to = to /\ p.back = b /\ p.over = v
         /\ LET p == Loop(Soon(Step(cmd, wait, tries, to)), b, t, v)
            IN  p.cmd = cmd /\ p.wait = wait /\ p.to = to /\ p.back = b /\ p.over = v
  BY DEF Loop, Soon, Step

LEMMA StraightTo ==
  ASSUME NEW p, NEW pass, p.to = To(pass, "next")
  PROVE  Straight(p)
  BY ToIs DEF Straight

\* The five forms of a step, and those of them that follow without a delay.
Form(p, cmd, wait, tries, pass) ==
  /\ p.cmd = cmd /\ p.wait = wait /\ p.tries = tries
  /\ p.to = To(pass, "next")

LEMMA StepForm ==
  ASSUME NEW cmd, NEW wait, NEW tries, NEW pass
  PROVE  /\ Form(Step(cmd, wait, tries, To(pass, "next")), cmd, wait, tries, pass)
         /\ Form(Soon(Step(cmd, wait, tries, To(pass, "next"))), cmd, wait, tries, pass)
<1> DEFINE to == To(pass, "next")
<1> HIDE DEF to
<1>1. /\ Step(cmd, wait, tries, to).cmd = cmd /\ Step(cmd, wait, tries, to).wait = wait
      /\ Step(cmd, wait, tries, to).tries = tries /\ Step(cmd, wait, tries, to).to = to
  BY StepIs
<1>2. LET p == Soon(Step(cmd, wait, tries, to))
      IN p.cmd = cmd /\ p.wait = wait /\ p.tries = tries /\ p.to = to
  BY SoonIs
<1> QED BY <1>1, <1>2 DEF Form, to

LEMMA FormsAre ==
  ASSUME NEW cmd, NEW wait, NEW pass
  PROVE  /\ Form(Command(cmd, pass), cmd, "return", 2, pass)
         /\ Form(Once(cmd, pass), cmd, "return", 1, pass)
         /\ Form(Text(cmd, wait), cmd, wait, 1, {"match"})
         /\ Form(Line(cmd, pass), cmd, "line", 1, pass)
         /\ Form(LineTwice(cmd, pass), cmd, "line", 2, pass)
         /\ Form(Soon(Once(cmd, pass)), cmd, "return", 1, pass)
         /\ Form(Soon(Text(cmd, wait)), cmd, wait, 1, {"match"})
         /\ Form(Soon(Line(cmd, pass)), cmd, "line", 1, pass)
  BY StepForm DEF Command, Once, Text, Line, LineTwice

\* Soon is what tells them apart.
LEMMA SoonForms ==
  /\ \A cmd, pass : ~Command(cmd, pass).soon
  /\ \A cmd, pass : ~Once(cmd, pass).soon
  /\ \A cmd, wait : ~Text(cmd, wait).soon
  /\ \A cmd, pass : Soon(Line(cmd, pass)).soon
  /\ \A cmd, wait, tries, to : Soon(Step(cmd, wait, tries, to)).soon
  BY StepIs, SoonIs DEF Command, Once, Text, Line

LEMMA FormIsStraight ==
  ASSUME NEW p, NEW cmd, NEW wait, NEW tries, NEW pass,
         Form(p, cmd, wait, tries, pass)
  PROVE  Straight(p) /\ (cmd \notin Effective => Quiet(p))
  BY StraightTo DEF Form, Quiet

LEMMA HttpPostTable ==
  /\ Len(HttpPost) = 9
  /\ HttpPost[1] = Command("AT", Answered)
  /\ HttpPost[2] = Command("HTTPINIT", {"OK"})
  /\ HttpPost[3] = Command("CID", {"OK"})
  /\ HttpPost[4] = Once("URL", AnyReturn)
  /\ HttpPost[5] = Text("HTTPDATA", "DOWNLOAD")
  /\ HttpPost[6] = Once("DATA", AnyReturn)
  /\ HttpPost[7] = Command("POST", {"OK"})
  /\ HttpPost[8] = Soon(Step("", "+HTTPACTION:", 3, To({"match"}, "next")))
  /\ HttpPost[9] = Status
<1> DEFINE a == Command("AT", Answered)
           b == Command("HTTPINIT", {"OK"})
           c == Command("CID", {"OK"})
           d == Once("URL", AnyReturn)
           e == Text("HTTPDATA", "DOWNLOAD")
           f == Once("DATA", AnyReturn)
           g == Command("POST", {"OK"})
           h == Soon(Step("", "+HTTPACTION:", 3, To({"match"}, "next")))
           i == Status
           all == <<a, b, c, d>> \o <<e, f, g, h, i>>
<1>1. HttpPost = all
  BY DEF HttpPost, Begin
<1> HIDE DEF a, b, c, d, e, f, g, h, i
<1>2. /\ Len(all) = 9 /\ all[1] = a /\ all[2] = b /\ all[3] = c /\ all[4] = d /\ all[5] = e
      /\ all[6] = f /\ all[7] = g /\ all[8] = h /\ all[9] = i
  OBVIOUS
<1> HIDE DEF all
<1> QED BY <1>1, <1>2 DEF a, b, c, d, e, f, g, h, i

LEMMA HttpGetTable ==
  /\ Len(HttpGet) = 10
  /\ HttpGet[1] = Command("AT", Answered)
  /\ HttpGet[2] = Command("HTTPINIT", {"OK"})
  /\ HttpGet[3] = Command("CID", {"OK"})
  /\ HttpGet[4] = Once("URL", AnyReturn)
  /\ HttpGet[5] = Command("GET", {"OK"})
  /\ HttpGet[6] = Soon(Text("", "+HTTPACTION:"))
  /\ HttpGet[7] = Soon(Line("", {"200"}))
  /\ HttpGet[8] = Text("HTTPREAD", "+HTTPREAD:")
  /\ HttpGet[9] = Soon(Line("", Lines))
  /\ HttpGet[10] = Soon(Line("", Lines))
<1> DEFINE a == Command("AT", Answered)
           b == Command("HTTPINIT", {"OK"})
           c == Command("CID", {"OK"})
           d == Once("URL", AnyReturn)
           e == Command("GET", {"OK"})
           f == Soon(Text("", "+HTTPACTION:"))
           g == Soon(Line("", {"200"}))
           h == Text("HTTPREAD", "+HTTPREAD:")
           i == Soon(Line("", Lines))
           j == Soon(Line("", Lines))
           all == (<<a, b, c, d>> \o <<e, f, g>>) \o <<h, i, j>>
<1>1. HttpGet = all
  BY DEF HttpGet, HttpGetPrepare, Begin, HttpRead
<1> HIDE DEF a, b, c, d, e, f, g, h, i, j
<1>2. /\ Len(all) = 10 /\ all[1] = a /\ all[2] = b /\ all[3] = c /\ all[4] = d /\ all[5] = e
      /\ all[6] = f /\ all[7] = g /\ all[8] = h /\ all[9] = i /\ all[10] = j
  OBVIOUS
<1> HIDE DEF all
<1> QED BY <1>1, <1>2 DEF a, b, c, d, e, f, g, h, i, j

LEMMA CheckLineTable ==
  /\ Len(CheckLine) = 7
  /\ CheckLine[1] = Command("AT", Answered)
  /\ CheckLine[2] = Step("CPIN?", "pin", 1, To({"READY"}, "next"))
  /\ CheckLine[3] = Line("CREG?", {"registered"})
  /\ CheckLine[4] = Command("AT", Answered)
  /\ CheckLine[5] = Line("CGATT?", {"attached"})
  /\ CheckLine[6] = Command("AT", Answered)
  /\ CheckLine[7] = Line("CSQ", {"quality"})
<1> DEFINE a == Command("AT", Answered)
           b == Step("CPIN?", "pin", 1, To({"READY"}, "next"))
           c == Line("CREG?", {"registered"})
           d == Command("AT", Answered)
           e == Line("CGATT?", {"attached"})
           f == Command("AT", Answered)
           g == Line("CSQ", {"quality"})
           all == <<a, b, c, d, e, f, g>>
<1>1. CheckLine = all
  BY DEF CheckLine
<1> HIDE DEF a, b, c, d, e, f, g
<1>2. /\ Len(all) = 7 /\ all[1] = a /\ all[2] = b /\ all[3] = c /\ all[4] = d /\ all[5] = e
      /\ all[6] = f /\ all[7] = g
  OBVIOUS
<1> HIDE DEF all
<1> QED BY <1>1, <1>2 DEF a, b, c, d, e, f, g

LEMMA TcpConnectTable ==
  /\ Len(TcpConnect) = 13
  /\ TcpConnect[1] = Command("AT", Answered)
  /\ TcpConnect[2] = Command("AT", Answered)
  /\ TcpConnect[3] = Step("CPIN?", "pin", 1, To({"READY"}, "next"))
  /\ TcpConnect[4] = Line("CREG?", {"registered"})
  /\ TcpConnect[5] = Command("AT", Answered)
  /\ TcpConnect[6] = Line("CGATT?", {"attached"})
  /\ TcpConnect[7] = Command("AT", Answered)
  /\ TcpConnect[8] = Line("CSQ", {"quality"})
  /\ TcpConnect[9] = Command("CIICR", Answered)
  /\ TcpConnect[10] = Step("CIFSR", "line", 2, To((Lines \cup {"none"}) \ {"0.0.0.0"}, "next"))
  /\ TcpConnect[11] = Command("AT", Answered)
  /\ TcpConnect[12] = Once("CIPSTART", Answered)
  /\ TcpConnect[13] = Soon(Text("", "CONNECT OK"))
<1> DEFINE a == Command("AT", Answered)
           b == Command("AT", Answered)
           c == Step("CPIN?", "pin", 1, To({"READY"}, "next"))
           d == Line("CREG?", {"registered"})
           e == Command("AT", Answered)
           f == Line("CGATT?", {"attached"})
           g == Command("AT", Answered)
           h == Line("CSQ", {"quality"})
           i == Command("CIICR", Answered)
           j == Step("CIFSR", "line", 2, To((Lines \cup {"none"}) \ {"0.0.0.0"}, "next"))
           k == Command("AT", Answered)
           l == Once("CIPSTART", Answered)
           m == Soon(Text("", "CONNECT OK"))
           all == (<<a>> \o <<b, c, d, e, f, g, h>>) \o <<i, j, k, l, m>>
<1>1. TcpConnect = all
  BY DEF TcpConnect, CheckLine
<1> HIDE DEF a, b, c, d, e, f, g, h, i, j, k, l, m
<1>2. /\ Len(all) = 13 /\ all[1] = a /\ all[2] = b /\ all[3] = c /\ all[4] = d /\ all[5] = e
      /\ all[6] = f /\ all[7] = g /\ all[8] = h /\ all[9] = i /\ all[10] = j /\ all[11] = k
      /\ all[12] = l /\ all[13] = m
  OBVIOUS
<1> HIDE DEF all
<1> QED BY <1>1, <1>2 DEF a, b, c, d, e, f, g, h, i, j, k, l, m

LEMMA Init900Table ==
  /\ Len(Init900) = 12
  /\ Init900[1] = Step("TOGGLE", "nothing", 1, To({"sent"}, "next"))
  /\ Init900[2] = Loop(Step("AT", "return", 1,
                               Either(To({"OK"}, "next"), To({"ERROR", "none"}, "again"))),
                          0, 3, "hardReset")
  /\ Init900[3] = Command("ATE0", AnyReturn)
  /\ Init900[4] = Command("CREG=0", AnyReturn)
  /\ Init900[5] = Command("GSN=?", AnyReturn)
  /\ Init900[6] = LineTwice("GSN", Lines \cup {"none"})
  /\ Init900[7] = Soon(Once("", AnyReturn))
  /\ Init900[8] = Once("CPIN=?", {"OK"})
  /\ Init900[9] = Step("CPIN?", "pin", 1,
                          Either(To({"SIM PIN"}, "next"),
                                 To({"OK", "ERROR", "READY", "none"}, "skip")))
  /\ Init900[10] = Once("PIN", {"OK"})
  /\ Init900[11] = Loop(Step("CREG?", "line", 1,
                Either(Either(To({"registered"}, "next"), To({"searching"}, "again")),
                       To((Lines \cup {"none"}) \ {"registered", "searching"}, "restart"))),
                 0, NetworkTurns, "next")
  /\ Init900[12] = Loop(Step("CGATT?", "line", 1,
                Either(To({"attached"}, "next"), To((Lines \cup {"none"}) \ {"attached"}, "again"))),
                 0, NetworkTurns, "next")
<1> DEFINE a == Step("TOGGLE", "nothing", 1, To({"sent"}, "next"))
           b == Loop(Step("AT", "return", 1,
                               Either(To({"OK"}, "next"), To({"ERROR", "none"}, "again"))),
                          0, 3, "hardReset")
           c == Command("ATE0", AnyReturn)
           d == Command("CREG=0", AnyReturn)
           e == Command("GSN=?", AnyReturn)
           f == LineTwice("GSN", Lines \cup {"none"})
           g == Soon(Once("", AnyReturn))
           h == Once("CPIN=?", {"OK"})
           i == Step("CPIN?", "pin", 1,
                          Either(To({"SIM PIN"}, "next"),
                                 To({"OK", "ERROR", "READY", "none"}, "skip")))
           j == Once("PIN", {"OK"})
           k == Loop(Step("CREG?", "line", 1,
                Either(Either(To({"registered"}, "next"), To({"searching"}, "again")),
                       To((Lines \cup {"none"}) \ {"registered", "searching"}, "restart"))),
                 0, NetworkTurns, "next")
           l == Loop(Step("CGATT?", "line", 1,
                Either(To({"attached"}, "next"), To((Lines \cup {"none"}) \ {"attached"}, "again"))),
                 0, NetworkTurns, "next")
           all == ((<<a, b>> \o <<c, d, e, f, g>>) \o <<h, i, j>>) \o <<k, l>>
<1>1. Init900 = all
  BY DEF Init900, SwitchOn, Identify, Unlock, Register
<1> HIDE DEF a, b, c, d, e, f, g, h, i, j, k, l
<1>2. /\ Len(all) = 12 /\ all[1] = a /\ all[2] = b /\ all[3] = c /\ all[4] = d /\ all[5] = e
      /\ all[6] = f /\ all[7] = g /\ all[8] = h /\ all[9] = i /\ all[10] = j /\ all[11] = k
      /\ all[12] = l
  OBVIOUS
<1> HIDE DEF all
<1> QED BY <1>1, <1>2 DEF a, b, c, d, e, f, g, h, i, j, k, l

LEMMA OpenTable ==
  /\ Len(Open) = 7
  /\ Open[1] = LineTwice("SAPBR?", Lines)
  /\ Open[2] = Soon(Step("", "bearer", 1, Either(To({"closed"}, "next"), To({"open"}, "done"))))
  /\ Open[3] = Command("CONTYPE", Answered)
  /\ Open[4] = Command("APN", {"OK", "none"})
  /\ Open[5] = Command("SAPBR=1", {"OK"})
  /\ Open[6] = LineTwice("SAPBR?", Lines)
  /\ Open[7] = Loop(Soon(Step("", "digit", 1, Either(To({"1"}, "done"), To({"0", "x"}, "again")))),
                       1, BearerTurns, "done")
<1> DEFINE a == LineTwice("SAPBR?", Lines)
           b == Soon(Step("", "bearer", 1, Either(To({"closed"}, "next"), To({"open"}, "done"))))
           c == Command("CONTYPE", Answered)
           d == Command("APN", {"OK", "none"})
           e == Command("SAPBR=1", {"OK"})
           f == LineTwice("SAPBR?", Lines)
           g == Loop(Soon(Step("", "digit", 1, Either(To({"1"}, "done"), To({"0", "x"}, "again")))),
                       1, BearerTurns, "done")
           all == <<a, b, c, d, e, f, g>>
<1>1. Open = all
  BY DEF Open
<1> HIDE DEF a, b, c, d, e, f, g
<1>2. /\ Len(all) = 7 /\ all[1] = a /\ all[2] = b /\ all[3] = c /\ all[4] = d /\ all[5] = e
      /\ all[6] = f /\ all[7] = g
  OBVIOUS
<1> HIDE DEF all
<1> QED BY <1>1, <1>2 DEF a, b, c, d, e, f, g
LEMMA PostSteps ==
  /\ Len(HttpPost) = 9
  /\ \A i \in 1..9 : Straight(HttpPost[i])
  /\ Form(HttpPost[1], "AT", "return", 2, Answered)
  /\ Form(HttpPost[2], "HTTPINIT", "return", 2, {"OK"})
  /\ Form(HttpPost[3], "CID", "return", 2, {"OK"})
  /\ Form(HttpPost[4], "URL", "return", 1, AnyReturn)
  /\ Form(HttpPost[5], "HTTPDATA", "DOWNLOAD", 1, {"match"})
  /\ Form(HttpPost[6], "DATA", "return", 1, AnyReturn)
  /\ Form(HttpPost[7], "POST", "return", 2, {"OK"})
  /\ Form(HttpPost[8], "", "+HTTPACTION:", 3, {"match"})
  /\ Form(HttpPost[9], "", "line", 1, {"200"})
  /\ ~HttpPost[1].soon /\ ~HttpPost[2].soon /\ ~HttpPost[3].soon /\ ~HttpPost[4].soon
  /\ ~HttpPost[5].soon /\ ~HttpPost[6].soon /\ ~HttpPost[7].soon
  /\ HttpPost[8].soon /\ HttpPost[9].soon
<1>1. /\ Form(HttpPost[1], "AT", "return", 2, Answered)
      /\ Form(HttpPost[2], "HTTPINIT", "return", 2, {"OK"})
      /\ Form(HttpPost[3], "CID", "return", 2, {"OK"})
      /\ Form(HttpPost[4], "URL", "return", 1, AnyReturn)
      /\ Form(HttpPost[5], "HTTPDATA", "DOWNLOAD", 1, {"match"})
      /\ Form(HttpPost[6], "DATA", "return", 1, AnyReturn)
      /\ Form(HttpPost[7], "POST", "return", 2, {"OK"})
  BY HttpPostTable, FormsAre
<1>2. Form(HttpPost[8], "", "+HTTPACTION:", 3, {"match"})
  BY HttpPostTable, StepForm
<1>3. Form(HttpPost[9], "", "line", 1, {"200"})
  BY HttpPostTable, FormsAre DEF Status
<1>4. \A i \in 1..9 : Straight(HttpPost[i])
  <2> TAKE i \in 1..9
  <2>1. i = 1 \/ i = 2 \/ i = 3 \/ i = 4 \/ i = 5 \/ i = 6 \/ i = 7 \/ i = 8 \/ i = 9
    OBVIOUS
  <2> QED BY <1>1, <1>2, <1>3, <2>1, FormIsStraight
<1>5. /\ ~HttpPost[1].soon /\ ~HttpPost[2].soon /\ ~HttpPost[3].soon /\ ~HttpPost[4].soon
      /\ ~HttpPost[5].soon /\ ~HttpPost[6].soon /\ ~HttpPost[7].soon
  <2>1. ~HttpPost[1].soon /\ ~HttpPost[2].soon /\ ~HttpPost[3].soon /\ ~HttpPost[4].soon
    BY HttpPostTable, SoonForms
  <2>2. ~HttpPost[5].soon /\ ~HttpPost[6].soon /\ ~HttpPost[7].soon
    BY HttpPostTable, SoonForms
  <2> QED BY <2>1, <2>2
<1>6. HttpPost[8].soon
  BY HttpPostTable, SoonForms
<1>7. HttpPost[9].soon
  BY HttpPostTable, SoonForms DEF Status
<1> QED BY <1>1, <1>2, <1>3, <1>4, <1>5, <1>6, <1>7, HttpPostTable

LEMMA GetSteps ==
  /\ Len(HttpGet) = 10
  /\ \A i \in 1..10 : Straight(HttpGet[i])
  /\ \A i \in 1..10 : HttpGet[i].cmd \in Effective => HttpGet[i].cmd \in {"HTTPINIT", "GET"}
  /\ HttpGet[2].cmd = "HTTPINIT"
  /\ Form(HttpGet[7], "", "line", 1, {"200"})
  /\ Form(HttpGet[8], "HTTPREAD", "+HTTPREAD:", 1, {"match"})
  /\ Form(HttpGet[9], "", "line", 1, Lines)
  /\ Form(HttpGet[10], "", "line", 1, Lines)
  /\ ~HttpGet[8].soon /\ HttpGet[9].soon /\ HttpGet[10].soon
<1>1. /\ Form(HttpGet[1], "AT", "return", 2, Answered)
      /\ Form(HttpGet[2], "HTTPINIT", "return", 2, {"OK"})
      /\ Form(HttpGet[3], "CID", "return", 2, {"OK"})
      /\ Form(HttpGet[4], "URL", "return", 1, AnyReturn)
      /\ Form(HttpGet[5], "GET", "return", 2, {"OK"})
      /\ Form(HttpGet[6], "", "+HTTPACTION:", 1, {"match"})
      /\ Form(HttpGet[7], "", "line", 1, {"200"})
      /\ Form(HttpGet[8], "HTTPREAD", "+HTTPREAD:", 1, {"match"})
      /\ Form(HttpGet[9], "", "line", 1, Lines)
      /\ Form(HttpGet[10], "", "line", 1, Lines)
  BY HttpGetTable, FormsAre
<1>2. \A i \in 1..10 :
        /\ Straight(HttpGet[i])
        /\ HttpGet[i].cmd \in Effective => HttpGet[i].cmd \in {"HTTPINIT", "GET"}
  <2> TAKE i \in 1..10
  <2>1. i = 1 \/ i = 2 \/ i = 3 \/ i = 4 \/ i = 5 \/ i = 6 \/ i = 7 \/ i = 8 \/ i = 9 \/ i = 10
    OBVIOUS
  <2>2. Straight(HttpGet[i])
    BY <1>1, <2>1, FormIsStraight
  <2>3. HttpGet[i].cmd \in Effective => HttpGet[i].cmd \in {"HTTPINIT", "GET"}
    BY <1>1, <2>1 DEF Form, Effective
  <2> QED BY <2>2, <2>3
<1>3. ~HttpGet[8].soon /\ HttpGet[9].soon /\ HttpGet[10].soon
  BY HttpGetTable, SoonForms
<1> QED BY <1>1, <1>2, <1>3, HttpGetTable DEF Form
\* The tables all of whose steps are harmless.
LEMMA QuietForms ==
  /\ \A cmd, pass : cmd \notin Effective => Quiet(Command(cmd, pass))
  /\ \A cmd, pass : cmd \notin Effective => Quiet(Once(cmd, pass))
  /\ \A cmd, wait : cmd \notin Effective => Quiet(Text(cmd, wait))
  /\ \A cmd, pass : cmd \notin Effective => Quiet(Line(cmd, pass))
  /\ \A cmd, wait, tries, pass :
       cmd \notin Effective => Quiet(Step(cmd, wait, tries, To(pass, "next")))
  /\ \A cmd, pass : cmd \notin Effective => Quiet(Soon(Line(cmd, pass)))
  /\ \A cmd, wait : cmd \notin Effective => Quiet(Soon(Text(cmd, wait)))
<1>1. ASSUME NEW cmd, NEW pass, cmd \notin Effective
      PROVE  /\ Quiet(Command(cmd, pass)) /\ Quiet(Once(cmd, pass)) /\ Quiet(Line(cmd, pass))
             /\ Quiet(Soon(Line(cmd, pass)))
  BY <1>1, FormsAre, FormIsStraight
<1>2. ASSUME NEW cmd, NEW wait, cmd \notin Effective
      PROVE  Quiet(Text(cmd, wait)) /\ Quiet(Soon(Text(cmd, wait)))
  BY <1>2, FormsAre, FormIsStraight
<1>3. ASSUME NEW cmd, NEW wait, NEW tries, NEW pass, cmd \notin Effective
      PROVE  Quiet(Step(cmd, wait, tries, To(pass, "next")))
  BY <1>3, StepForm, FormIsStraight
<1> QED BY <1>1, <1>2, <1>3

QuietTable(q) == Len(q) \in Nat \ {0} /\ \A i \in 1..Len(q) : Quiet(q[i])

LEMMA QuietSteps ==
  \A s \in {"shut", "read", "check", "sms", "tcp_init", "tcp_connect", "tcp_send", "ftp"} :
    QuietTable(Steps[s])
<1>1. QuietTable(Shut) /\ QuietTable(Ftp)
  <2>1. Len(Shut) = 1 /\ Shut[1] = Command("SAPBR=0", {"OK"})
    BY DEF Shut
  <2>2. Quiet(Shut[1])
    BY <2>1, QuietForms DEF Effective
  <2>3. Len(Ftp) = 1 /\ Ftp[1] = Step("FTP", "nothing", 1, To({"sent"}, "next"))
    BY DEF Ftp
  <2>4. Quiet(Ftp[1])
    BY <2>3, QuietForms DEF Effective
  <2> QED BY <2>1, <2>2, <2>3, <2>4 DEF QuietTable
<1>2. QuietTable(HttpRead)
  <2>4. Len(HttpRead) = 3
    BY DEF HttpRead
  <2>1. /\ HttpRead[1] = Text("HTTPREAD", "+HTTPREAD:")
        /\ HttpRead[2] = Soon(Line("", Lines)) /\ HttpRead[3] = Soon(Line("", Lines))
    BY DEF HttpRead
  <2>2. Quiet(HttpRead[1]) /\ Quiet(HttpRead[2]) /\ Quiet(HttpRead[3])
    BY <2>1, QuietForms DEF Effective
  <2>3. \A i \in 1..3 : i = 1 \/ i = 2 \/ i = 3
    OBVIOUS
  <2> QED BY <2>2, <2>3, <2>4 DEF QuietTable
<1>3. QuietTable(SendSms)
  <2>4. Len(SendSms) = 3
    BY DEF SendSms
  <2>1. /\ SendSms[1] = Command("CMGF", {"OK"})
        /\ SendSms[2] = Text("CMGS", ">")
        /\ SendSms[3] = Step("TEXT", "nothing", 1, To({"sent"}, "next"))
    BY DEF SendSms
  <2>2. Quiet(SendSms[1]) /\ Quiet(SendSms[2]) /\ Quiet(SendSms[3])
    BY <2>1, QuietForms DEF Effective
  <2>3. \A i \in 1..3 : i = 1 \/ i = 2 \/ i = 3
    OBVIOUS
  <2> QED BY <2>2, <2>3, <2>4 DEF QuietTable
<1>4. QuietTable(TcpInit)
  <2>4. Len(TcpInit) = 3
    BY DEF TcpInit
  <2>1. /\ TcpInit[1] = Command("AT", Answered)
        /\ TcpInit[2] = Command("CIPSHUT", Answered)
        /\ TcpInit[3] = Command("CSTT", {"OK", "none"})
    BY DEF TcpInit
  <2>2. Quiet(TcpInit[1]) /\ Quiet(TcpInit[2]) /\ Quiet(TcpInit[3])
    BY <2>1, QuietForms DEF Effective
  <2>3. \A i \in 1..3 : i = 1 \/ i = 2 \/ i = 3
    OBVIOUS
  <2> QED BY <2>2, <2>3, <2>4 DEF QuietTable
<1>5. QuietTable(TcpSend)
  <2>4. Len(TcpSend) = 3
    BY DEF TcpSend
  <2>1. /\ TcpSend[1] = Command("AT", Answered)
        /\ TcpSend[2] = Text("CIPSEND", ">")
        /\ TcpSend[3] = Step("DATA", "nothing", 1, To({"sent"}, "next"))
    BY DEF TcpSend
  <2>2. Quiet(TcpSend[1]) /\ Quiet(TcpSend[2]) /\ Quiet(TcpSend[3])
    BY <2>1, QuietForms DEF Effective
  <2>3. \A i \in 1..3 : i = 1 \/ i = 2 \/ i = 3
    OBVIOUS
  <2> QED BY <2>2, <2>3, <2>4 DEF QuietTable
<1>6. QuietTable(CheckLine)
  <2>1. /\ Quiet(CheckLine[1]) /\ Quiet(CheckLine[2]) /\ Quiet(CheckLine[3])
        /\ Quiet(CheckLine[4]) /\ Quiet(CheckLine[5]) /\ Quiet(CheckLine[6])
        /\ Quiet(CheckLine[7])
    BY CheckLineTable, QuietForms DEF Effective
  <2>2. \A i \in 1..7 : i = 1 \/ i = 2 \/ i = 3 \/ i = 4 \/ i = 5 \/ i = 6 \/ i = 7
    OBVIOUS
  <2> QED BY <2>1, <2>2, CheckLineTable DEF QuietTable
<1>7. QuietTable(TcpConnect)
  <2>1. /\ "AT" \notin Effective /\ "CPIN?" \notin Effective /\ "CREG?" \notin Effective
        /\ "CGATT?" \notin Effective /\ "CSQ" \notin Effective /\ "CIICR" \notin Effective
        /\ "CIFSR" \notin Effective /\ "CIPSTART" \notin Effective /\ "" \notin Effective
    BY DEF Effective
  <2>2. Quiet(Command("AT", Answered)) /\ Quiet(Command("CIICR", Answered))
    BY <2>1, QuietForms
  <2>3. /\ Quiet(Step("CPIN?", "pin", 1, To({"READY"}, "next")))
        /\ Quiet(Step("CIFSR", "line", 2, To((Lines \cup {"none"}) \ {"0.0.0.0"}, "next")))
    BY <2>1, QuietForms
  <2>4. /\ Quiet(Line("CREG?", {"registered"})) /\ Quiet(Line("CGATT?", {"attached"}))
        /\ Quiet(Line("CSQ", {"quality"}))
    BY <2>1, QuietForms
  <2>5. Quiet(Once("CIPSTART", Answered)) /\ Quiet(Soon(Text("", "CONNECT OK")))
    BY <2>1, QuietForms
  <2>6. \A i \in 1..13 : Quiet(TcpConnect[i])
    <3>1. /\ Quiet(TcpConnect[1]) /\ Quiet(TcpConnect[2]) /\ Quiet(TcpConnect[3])
          /\ Quiet(TcpConnect[4]) /\ Quiet(TcpConnect[5]) /\ Quiet(TcpConnect[6])
          /\ Quiet(TcpConnect[7]) /\ Quiet(TcpConnect[8]) /\ Quiet(TcpConnect[9])
          /\ Quiet(TcpConnect[10]) /\ Quiet(TcpConnect[11]) /\ Quiet(TcpConnect[12])
          /\ Quiet(TcpConnect[13])
      BY Zenon, <2>2, <2>3, <2>4, <2>5, TcpConnectTable
    <3>2. \A i \in 1..13 : \/ i = 1 \/ i = 2 \/ i = 3 \/ i = 4 \/ i = 5 \/ i = 6 \/ i = 7
                           \/ i = 8 \/ i = 9 \/ i = 10 \/ i = 11 \/ i = 12 \/ i = 13
      OBVIOUS
    <3> QED BY <3>1, <3>2
  <2>7. Len(TcpConnect) = 13
    BY TcpConnectTable
  <2> QED BY <2>6, <2>7 DEF QuietTable
<1>8. /\ Steps["shut"] = Shut /\ Steps["read"] = HttpRead /\ Steps["check"] = CheckLine
      /\ Steps["sms"] = SendSms /\ Steps["tcp_init"] = TcpInit
      /\ Steps["tcp_connect"] = TcpConnect /\ Steps["tcp_send"] = TcpSend
      /\ Steps["ftp"] = Ftp
  BY DEF Steps
<1> QED BY <1>1, <1>2, <1>3, <1>4, <1>5, <1>6, <1>7, <1>8

LEMMA CloseSteps ==
  Len(HttpClose) = 1 /\ Straight(HttpClose[1]) /\ HttpClose[1].cmd = "HTTPTERM"
  /\ HttpClose[1].wait = "return"
<1>1. Len(HttpClose) = 1 /\ HttpClose[1] = Command("HTTPTERM", {"OK"})
  BY DEF HttpClose
<1>2. Form(HttpClose[1], "HTTPTERM", "return", 2, {"OK"})
  BY <1>1, FormsAre
<1> QED BY <1>1, <1>2, FormIsStraight DEF Form

\* A step with several ways out, and one that is the end of a loop.
Ways(p, cmd, to) == p.cmd = cmd /\ p.to = to
LoopsTo(p, cmd, to, back, over) ==
  p.cmd = cmd /\ p.to = to /\ p.back = back /\ p.over = over

LEMMA WaysAre ==
  ASSUME NEW cmd, NEW wait, NEW tries, NEW to, NEW b, NEW t, NEW v
  PROVE  /\ Ways(Step(cmd, wait, tries, to), cmd, to)
         /\ Ways(Soon(Step(cmd, wait, tries, to)), cmd, to)
         /\ LoopsTo(Loop(Step(cmd, wait, tries, to), b, t, v), cmd, to, b, v)
         /\ LoopsTo(Loop(Soon(Step(cmd, wait, tries, to)), b, t, v), cmd, to, b, v)
  BY StepIs, SoonIs, LoopIs DEF Ways, LoopsTo

\* sim900_GPRS_init: its loop goes back by one step.
LEMMA OpenSteps ==
  /\ Len(Open) = 7
  /\ \A i \in 1..7 :
       /\ Open[i].cmd \notin Effective
       /\ \A o \in DOMAIN Open[i].to : Open[i].to[o] \in {"next", "done", "again"}
       /\ \A o \in DOMAIN Open[i].to : Open[i].to[o] = "again" => i = 7
  /\ Open[7].back = 1 /\ Open[7].over = "done"
<1> DEFINE to2 == Either(To({"closed"}, "next"), To({"open"}, "done"))
           to7 == Either(To({"1"}, "done"), To({"0", "x"}, "again"))
<1>1. /\ Quiet(Open[1]) /\ Quiet(Open[3]) /\ Quiet(Open[4]) /\ Quiet(Open[5]) /\ Quiet(Open[6])
  <2>1. /\ Form(Open[1], "SAPBR?", "line", 2, Lines)
        /\ Form(Open[3], "CONTYPE", "return", 2, Answered)
        /\ Form(Open[4], "APN", "return", 2, {"OK", "none"})
        /\ Form(Open[5], "SAPBR=1", "return", 2, {"OK"})
        /\ Form(Open[6], "SAPBR?", "line", 2, Lines)
    BY OpenTable, FormsAre
  <2> QED BY <2>1, FormIsStraight DEF Effective
<1>2. Open[2].cmd = "" /\ Open[2].to = to2
  <2> HIDE DEF to2
  <2>1. Open[2] = Soon(Step("", "bearer", 1, to2))
    BY OpenTable DEF to2
  <2>2. Ways(Open[2], "", to2)
    BY <2>1, WaysAre
  <2> QED BY <2>2 DEF Ways
<1>3. Open[7].cmd = "" /\ Open[7].to = to7 /\ Open[7].back = 1 /\ Open[7].over = "done"
  <2> HIDE DEF to7
  <2>1. Open[7] = Loop(Soon(Step("", "digit", 1, to7)), 1, BearerTurns, "done")
    BY OpenTable DEF to7
  <2>2. LoopsTo(Open[7], "", to7, 1, "done")
    BY <2>1, WaysAre
  <2> QED BY <2>2 DEF LoopsTo
<1>4. \A o \in DOMAIN to2 : to2[o] \in {"next", "done"}
  BY DEF Either, To
<1>5. \A o \in DOMAIN to7 : to7[o] \in {"done", "again"}
  BY DEF Either, To
<1> HIDE DEF to2, to7
<1>6. \A i \in 1..7 : i = 1 \/ i = 2 \/ i = 3 \/ i = 4 \/ i = 5 \/ i = 6 \/ i = 7
  OBVIOUS
<1>7. "" \notin Effective
  BY DEF Effective
<1>8. ASSUME NEW i \in 1..7
      PROVE  /\ Open[i].cmd \notin Effective
             /\ \A o \in DOMAIN Open[i].to : Open[i].to[o] \in {"next", "done", "again"}
             /\ \A o \in DOMAIN Open[i].to : Open[i].to[o] = "again" => i = 7
  <2>1. CASE Quiet(Open[i])
    BY <2>1 DEF Quiet, Straight
  <2>2. CASE i = 2
    BY <2>2, <1>2, <1>4, <1>7
  <2>3. CASE i = 7
    BY <2>3, <1>3, <1>5, <1>7
  <2> QED BY <1>1, <1>6, <2>1, <2>2, <2>3
<1>9. Len(Open) = 7
  BY OpenTable
<1> QED BY <1>3, <1>8, <1>9

\* sim900_init: only its first step switches the modem, one of its steps skips
\* another, and its loops repeat one step.
LEMMA InitSteps ==
  /\ Len(Init900) = 12
  /\ Straight(Init900[1]) /\ Init900[1].cmd = "TOGGLE" /\ Init900[1].wait = "nothing"
  /\ \A i \in 2..12 : Init900[i].cmd \notin Effective
  /\ \A i \in 1..12 : \A o \in DOMAIN Init900[i].to :
       /\ Init900[i].to[o] = "skip" => i = 9
       /\ Init900[i].to[o] = "again" => Init900[i].back = 0 /\ Init900[i].over # "skip"
<1> DEFINE to2 == Either(To({"OK"}, "next"), To({"ERROR", "none"}, "again"))
           to9 == Either(To({"SIM PIN"}, "next"), To({"OK", "ERROR", "READY", "none"}, "skip"))
           rest == (Lines \cup {"none"}) \ {"registered", "searching"}
           to11 == Either(Either(To({"registered"}, "next"), To({"searching"}, "again")),
                          To(rest, "restart"))
           to12 == Either(To({"attached"}, "next"),
                          To((Lines \cup {"none"}) \ {"attached"}, "again"))
<1>1. Form(Init900[1], "TOGGLE", "nothing", 1, {"sent"})
  BY Init900Table, StepForm
<1>2. /\ Quiet(Init900[3]) /\ Quiet(Init900[4]) /\ Quiet(Init900[5]) /\ Quiet(Init900[6])
      /\ Quiet(Init900[7]) /\ Quiet(Init900[8]) /\ Quiet(Init900[10])
  <2>1. /\ Form(Init900[3], "ATE0", "return", 2, AnyReturn)
        /\ Form(Init900[4], "CREG=0", "return", 2, AnyReturn)
        /\ Form(Init900[5], "GSN=?", "return", 2, AnyReturn)
        /\ Form(Init900[6], "GSN", "line", 2, Lines \cup {"none"})
        /\ Form(Init900[7], "", "return", 1, AnyReturn)
        /\ Form(Init900[8], "CPIN=?", "return", 1, {"OK"})
        /\ Form(Init900[10], "PIN", "return", 1, {"OK"})
    BY Init900Table, FormsAre
  <2>2. /\ "ATE0" \notin Effective /\ "CREG=0" \notin Effective /\ "GSN=?" \notin Effective
        /\ "GSN" \notin Effective /\ "" \notin Effective /\ "CPIN=?" \notin Effective
        /\ "PIN" \notin Effective
    BY DEF Effective
  <2> QED BY <2>1, <2>2, FormIsStraight
<1>3. LoopsTo(Init900[2], "AT", to2, 0, "hardReset")
  <2> HIDE DEF to2
  <2>1. Init900[2] = Loop(Step("AT", "return", 1, to2), 0, 3, "hardReset")
    BY Init900Table DEF to2
  <2> QED BY <2>1, WaysAre
<1>4. Ways(Init900[9], "CPIN?", to9)
  <2> HIDE DEF to9
  <2>1. Init900[9] = Step("CPIN?", "pin", 1, to9)
    BY Init900Table DEF to9
  <2> QED BY <2>1, WaysAre
<1>5. LoopsTo(Init900[11], "CREG?", to11, 0, "next")
  <2> HIDE DEF to11
  <2>1. Init900[11] = Loop(Step("CREG?", "line", 1, to11), 0, NetworkTurns, "next")
    BY Init900Table DEF to11
  <2> QED BY <2>1, WaysAre
<1>6. LoopsTo(Init900[12], "CGATT?", to12, 0, "next")
  <2> HIDE DEF to12
  <2>1. Init900[12] = Loop(Step("CGATT?", "line", 1, to12), 0, NetworkTurns, "next")
    BY Init900Table DEF to12
  <2> QED BY <2>1, WaysAre
<1>7. /\ \A o \in DOMAIN to2 : to2[o] # "skip"
      /\ \A o \in DOMAIN to9 : to9[o] # "again"
      /\ \A o \in DOMAIN to12 : to12[o] # "skip"
  BY DEF Either, To
<1>8. \A o \in DOMAIN to11 : to11[o] # "skip"
  <2> HIDE DEF rest
  <2> QED BY DEF Either, To
<1> HIDE DEF to2, to9, to11, to12
<1>9. \A i \in 1..12 : \/ i = 1 \/ i = 2 \/ i = 3 \/ i = 4 \/ i = 5 \/ i = 6 \/ i = 7
                       \/ i = 8 \/ i = 9 \/ i = 10 \/ i = 11 \/ i = 12
  OBVIOUS
<1>10. Straight(Init900[1]) /\ Init900[1].cmd = "TOGGLE" /\ Init900[1].wait = "nothing"
  BY <1>1, FormIsStraight DEF Form
<1>11. ASSUME NEW i \in 1..12
       PROVE  /\ i # 1 => Init900[i].cmd \notin Effective
              /\ \A o \in DOMAIN Init900[i].to :
                   /\ Init900[i].to[o] = "skip" => i = 9
                   /\ Init900[i].to[o] = "again" => Init900[i].back = 0 /\ Init900[i].over # "skip"
  <2>1. CASE i = 1
    BY <2>1, <1>10 DEF Straight
  <2>2. CASE Quiet(Init900[i])
    BY <2>2 DEF Quiet, Straight
  <2>3. CASE i = 2
    BY <2>3, <1>3, <1>7 DEF LoopsTo, Effective
  <2>4. CASE i = 9
    BY <2>4, <1>4, <1>7 DEF Ways, Effective
  <2>5. CASE i = 11
    BY <2>5, <1>5, <1>8 DEF LoopsTo, Effective
  <2>6. CASE i = 12
    BY <2>6, <1>6, <1>7 DEF LoopsTo, Effective
  <2> QED BY <1>2, <1>9, <2>1, <2>2, <2>3, <2>4, <2>5, <2>6
<1>12. Len(Init900) = 12
  BY Init900Table
<1>13. \A i \in 2..12 : i \in 1..12 /\ i # 1
  OBVIOUS
<1> QED BY <1>10, <1>11, <1>12, <1>13

\* The table of each stage.
Stages ==
  {"init", "open", "shut", "get", "post", "read", "term", "check", "sms",
   "tcp_init", "tcp_connect", "tcp_send", "ftp"}

LEMMA StageTables ==
  /\ Steps["init"] = Init900 /\ Steps["open"] = Open /\ Steps["shut"] = Shut
  /\ Steps["get"] = HttpGet /\ Steps["post"] = HttpPost /\ Steps["read"] = HttpRead
  /\ Steps["term"] = HttpClose
  BY DEF Steps

\* Which stages have no way back, and which steps have an effect.
LEMMA AllTables ==
  /\ \A s \in Stages \ {"init", "open"} : \A i \in 1..Len(Steps[s]) : Straight(Steps[s][i])
  /\ \A s \in Stages : Len(Steps[s]) \in Nat \ {0}
  /\ \A s \in Stages : \A i \in 1..Len(Steps[s]) : Steps[s][i].cmd \in Effective =>
       \/ s = "post" /\ i = 2 /\ Steps[s][i].cmd = "HTTPINIT"
       \/ s = "post" /\ i = 5 /\ Steps[s][i].cmd = "HTTPDATA"
       \/ s = "post" /\ i = 7 /\ Steps[s][i].cmd = "POST"
       \/ s = "get" /\ Steps[s][i].cmd \in {"HTTPINIT", "GET"}
       \/ s = "term" /\ Steps[s][i].cmd = "HTTPTERM"
       \/ s = "init" /\ i = 1 /\ Steps[s][i].cmd = "TOGGLE"
<1> DEFINE Fine(s, i) ==
       \/ s = "post" /\ i = 2 /\ Steps[s][i].cmd = "HTTPINIT"
       \/ s = "post" /\ i = 5 /\ Steps[s][i].cmd = "HTTPDATA"
       \/ s = "post" /\ i = 7 /\ Steps[s][i].cmd = "POST"
       \/ s = "get" /\ Steps[s][i].cmd \in {"HTTPINIT", "GET"}
       \/ s = "term" /\ Steps[s][i].cmd = "HTTPTERM"
       \/ s = "init" /\ i = 1 /\ Steps[s][i].cmd = "TOGGLE"
       Ok(s) == /\ Len(Steps[s]) \in Nat \ {0}
                /\ s \notin {"init", "open"} => \A i \in 1..Len(Steps[s]) : Straight(Steps[s][i])
                /\ \A i \in 1..Len(Steps[s]) : Steps[s][i].cmd \in Effective => Fine(s, i)
<1>1. ASSUME NEW s \in {"shut", "read", "check", "sms", "tcp_init", "tcp_connect",
                        "tcp_send", "ftp"}
      PROVE  Ok(s)
  <2>1. QuietTable(Steps[s])
    BY QuietSteps
  <2> HIDE DEF Fine
  <2> QED BY <2>1 DEF QuietTable, Quiet
<1>2. Ok("init")
  <2>1. ASSUME NEW i \in 1..12, Init900[i].cmd \in Effective
        PROVE  i = 1 /\ Init900[i].cmd = "TOGGLE"
    <3>1. i = 1 \/ i \in 2..12
      OBVIOUS
    <3> QED BY <2>1, <3>1, InitSteps
  <2>2. Steps["init"] = Init900 /\ Len(Init900) = 12
    BY InitSteps, StageTables
  <2> QED BY <2>1, <2>2
<1>3. Ok("open")
  <2>1. \A i \in 1..7 : Open[i].cmd \notin Effective
    BY OpenSteps
  <2>2. Steps["open"] = Open /\ Len(Open) = 7
    BY OpenSteps, StageTables
  <2> QED BY <2>1, <2>2
<1>4. Ok("term")
  <2>1. \A i \in 1..1 : Straight(HttpClose[i]) /\ HttpClose[i].cmd = "HTTPTERM"
    BY CloseSteps
  <2>2. Steps["term"] = HttpClose /\ Len(HttpClose) = 1
    BY CloseSteps, StageTables
  <2> QED BY <2>1, <2>2
<1>5. Ok("get")
  <2>1. \A i \in 1..10 : /\ Straight(HttpGet[i])
                         /\ HttpGet[i].cmd \in Effective => HttpGet[i].cmd \in {"HTTPINIT", "GET"}
    BY GetSteps
  <2>2. Steps["get"] = HttpGet /\ Len(HttpGet) = 10
    BY GetSteps, StageTables
  <2> QED BY <2>1, <2>2
<1>6. Ok("post")
  <2>1. ASSUME NEW i \in 1..9, HttpPost[i].cmd \in Effective
        PROVE  \/ i = 2 /\ HttpPost[i].cmd = "HTTPINIT"
               \/ i = 5 /\ HttpPost[i].cmd = "HTTPDATA"
               \/ i = 7 /\ HttpPost[i].cmd = "POST"
    <3>1. i = 1 \/ i = 2 \/ i = 3 \/ i = 4 \/ i = 5 \/ i = 6 \/ i = 7 \/ i = 8 \/ i = 9
      OBVIOUS
    <3>2. /\ HttpPost[1].cmd = "AT" /\ HttpPost[2].cmd = "HTTPINIT" /\ HttpPost[3].cmd = "CID"
          /\ HttpPost[4].cmd = "URL" /\ HttpPost[5].cmd = "HTTPDATA" /\ HttpPost[6].cmd = "DATA"
          /\ HttpPost[7].cmd = "POST" /\ HttpPost[8].cmd = "" /\ HttpPost[9].cmd = ""
      BY PostSteps DEF Form
    <3> QED BY <2>1, <3>1, <3>2 DEF Effective
  <2>2. Steps["post"] = HttpPost /\ Len(HttpPost) = 9
    BY PostSteps, StageTables
  <2>3. \A i \in 1..9 : Straight(HttpPost[i])
    BY PostSteps
  <2> QED BY <2>1, <2>2, <2>3
<1>7. \A s \in Stages : \/ s \in {"shut", "read", "check", "sms", "tcp_init", "tcp_connect",
                                  "tcp_send", "ftp"}
                        \/ s \in {"init", "open", "term", "get", "post"}
  BY DEF Stages
<1>8. \A s \in Stages : Ok(s)
  <2> HIDE DEF Ok
  <2> QED BY <1>1, <1>2, <1>3, <1>4, <1>5, <1>6, <1>7
<1> QED BY <1>8

-----------------------------------------------------------------------------
(***************************************************************************)
(* The modem: what a command can do.                                       *)
(***************************************************************************)

Sims == [on : BOOLEAN, http : BOOLEAN, data : {"none", "old", "new"}, load : BOOLEAN,
         action : {"none", "GET", "POST"},
         bearer : {"connecting", "connected", "closing", "closed"}]
Tokens ==
  [t : {"OK", "ERROR", "DOWNLOAD", "+HTTPACTION:", "+HTTPREAD:", "+SAPBR:", "+CPIN:",
        "+CREG:", "+CGATT:", "+CSQ:", ">", "CONNECT OK", "line", "cut"},
   v : {"", "200", "404", "length", "body", "0", "1", "2", "3", "READY", "SIM PIN",
        "SIM PUK", "registered", "searching", "attached", "detached", "imei", "address",
        "0.0.0.0"}]

\* The texts that answer a command without a look at the data.
NoData(q) == /\ q \in Seq(Tokens)
             /\ \A i \in 1..Len(q) : q[i].v # "200" /\ q[i].t # "DOWNLOAD"

LEMMA OffOn ==
  /\ M!Off \in Sims /\ ~M!Off.on /\ ~M!Off.http /\ ~M!Off.load /\ M!Off.action = "none"
  /\ M!On \in Sims /\ ~M!On.http /\ ~M!On.load /\ M!On.action = "none"
  BY DEF M!Off, M!On, Sims

LEMMA TokIs == \A t, v : M!Tok(t, v).t = t /\ M!Tok(t, v).v = v
  BY DEF M!Tok

LEMMA OkIs == /\ M!OK \in Tokens /\ M!OK.t = "OK" /\ M!OK.v = ""
              /\ M!ERROR \in Tokens /\ M!ERROR.t = "ERROR" /\ M!ERROR.v = ""
              /\ M!OK # M!ERROR
  BY DEF M!OK, M!ERROR, M!Tok, Tokens

LEMMA HttpInitIs ==
  ASSUME NEW s
  PROVE  M!Http(s, "HTTPINIT") = {<<[s EXCEPT !.http = TRUE, !.data = "none"], <<M!OK>>>>}
  BY DEF M!Http, M!Says

LEMMA HttpPlainIs ==
  ASSUME NEW s, NEW c \in {"CID", "URL"}
  PROVE  M!Http(s, c) = {<<s, <<M!OK>>>>}
  BY DEF M!Http, M!Says

LEMMA HttpDataIs ==
  ASSUME NEW s
  PROVE  M!Http(s, "HTTPDATA") = {<<[s EXCEPT !.load = TRUE], <<M!Tok("DOWNLOAD", "")>>>>}
  BY DEF M!Http, M!Says

LEMMA HttpTermIs ==
  ASSUME NEW s
  PROVE  M!Http(s, "HTTPTERM") = {<<[s EXCEPT !.http = FALSE, !.action = "none"], <<M!OK>>>>}
  BY DEF M!Http, M!Says

LEMMA HttpReadIs ==
  ASSUME NEW s
  PROVE  M!Http(s, "HTTPREAD") =
           {<<s, <<M!Tok("+HTTPREAD:", ""), M!Tok("line", "length"), M!Tok("line", "body"), M!OK>>>>}
  BY DEF M!Http, M!Says

LEMMA RequestIs ==
  ASSUME NEW s, NEW c \in {"GET", "POST"}
  PROVE  /\ s.action # "none" => M!Http(s, c) = {<<s, <<M!ERROR>>>>}
         /\ s.action = "none" => M!Http(s, c) = {<<[s EXCEPT !.action = c], <<M!OK>>>>}
  BY DEF M!Http, M!Says

LEMMA NoDataForms ==
  ASSUME NEW a \in Tokens, NEW b \in Tokens,
         a.v # "200", a.t # "DOWNLOAD", b.v # "200", b.t # "DOWNLOAD"
  PROVE  NoData(<<>>) /\ NoData(<<a>>) /\ NoData(<<a, b>>)
<1>1. NoData(<<>>)
  BY DEF NoData
<1>2. NoData(<<a>>)
  BY DEF NoData
<1>3. NoData(<<a, b>>)
  <2>1. <<a, b>> \in Seq(Tokens) /\ Len(<<a, b>>) = 2
    OBVIOUS
  <2>2. \A i \in 1..2 : i = 1 \/ i = 2
    OBVIOUS
  <2> QED BY <2>1, <2>2 DEF NoData
<1> QED BY <1>1, <1>2, <1>3

LEMMA QueryIs ==
  ASSUME NEW s, NEW c \in M!Queries, NEW r \in M!Query(s, c)
  PROVE  r[1] = s /\ NoData(r[2])
<1>1. ASSUME NEW t \in {"+CPIN:", "+CREG:", "+CGATT:", "+CSQ:", "line"},
             NEW v \in {"READY", "SIM PIN", "SIM PUK", "registered", "searching", "attached",
                        "detached", "", "imei", "address", "0.0.0.0"}
      PROVE  NoData(<<M!Tok(t, v), M!OK>>) /\ NoData(<<M!Tok(t, v)>>)
  <2>1. M!Tok(t, v) \in Tokens /\ M!Tok(t, v).v # "200" /\ M!Tok(t, v).t # "DOWNLOAD"
    BY DEF M!Tok, Tokens
  <2> QED BY <2>1, NoDataForms, OkIs
<1>2. NoData(<<M!ERROR>>) /\ NoData(<<M!OK>>) /\ NoData(<<>>)
  BY NoDataForms, OkIs
<1>12. r \in M!Refuses(s) => r[1] = s /\ NoData(r[2])
  <2>1. r \in M!Refuses(s) => r = <<s, <<M!ERROR>>>> \/ r = <<s, <<>>>>
    BY DEF M!Refuses, M!Says
  <2> QED BY <1>2, <2>1
<1>3. NoData(<<M!Tok(">", "")>>) /\ NoData(<<M!OK, M!Tok("CONNECT OK", "")>>)
  <2>1. /\ M!Tok(">", "") \in Tokens /\ M!Tok(">", "").v # "200"
        /\ M!Tok(">", "").t # "DOWNLOAD"
        /\ M!Tok("CONNECT OK", "") \in Tokens /\ M!Tok("CONNECT OK", "").v # "200"
        /\ M!Tok("CONNECT OK", "").t # "DOWNLOAD"
    BY DEF M!Tok, Tokens
  <2> QED BY <2>1, NoDataForms, OkIs
<1>4. CASE c = "CPIN?"
  <2>1. \/ r \in M!Refuses(s)
        \/ r \in {<<s, <<M!Tok("+CPIN:", v), M!OK>>>> : v \in {"READY", "SIM PIN", "SIM PUK"}}
    BY <1>4 DEF M!Query
  <2>2. CASE r \in {<<s, <<M!Tok("+CPIN:", v), M!OK>>>> : v \in {"READY", "SIM PIN", "SIM PUK"}}
    <3>1. PICK v \in {"READY", "SIM PIN", "SIM PUK"} : r = <<s, <<M!Tok("+CPIN:", v), M!OK>>>>
      BY <2>2
    <3> QED BY <1>1, <3>1
  <2> QED BY <1>12, <2>1, <2>2
<1>5. CASE c = "CREG?"
  <2>1. \/ r \in M!Refuses(s)
        \/ r \in {<<s, <<M!Tok("+CREG:", v), M!OK>>>> : v \in {"registered", "searching"}}
    BY <1>5 DEF M!Query
  <2>2. CASE r \in {<<s, <<M!Tok("+CREG:", v), M!OK>>>> : v \in {"registered", "searching"}}
    <3>1. PICK v \in {"registered", "searching"} : r = <<s, <<M!Tok("+CREG:", v), M!OK>>>>
      BY <2>2
    <3> QED BY <1>1, <3>1
  <2> QED BY <1>12, <2>1, <2>2
<1>6. CASE c = "CGATT?"
  <2>1. \/ r \in M!Refuses(s)
        \/ r \in {<<s, <<M!Tok("+CGATT:", v), M!OK>>>> : v \in {"attached", "detached"}}
    BY <1>6 DEF M!Query
  <2>2. CASE r \in {<<s, <<M!Tok("+CGATT:", v), M!OK>>>> : v \in {"attached", "detached"}}
    <3>1. PICK v \in {"attached", "detached"} : r = <<s, <<M!Tok("+CGATT:", v), M!OK>>>>
      BY <2>2
    <3> QED BY <1>1, <3>1
  <2> QED BY <1>12, <2>1, <2>2
<1>7. CASE c = "CSQ"
  <2>1. r = <<s, <<M!Tok("+CSQ:", ""), M!OK>>>>
    BY <1>7 DEF M!Query, M!Says
  <2> QED BY <1>1, <2>1
<1>8. CASE c = "GSN"
  <2>1. r = <<s, <<M!Tok("line", "imei"), M!OK>>>>
    BY <1>8 DEF M!Query, M!Says
  <2> QED BY <1>1, <2>1
<1>9. CASE c = "CIFSR"
  <2>1. PICK v \in {"address", "0.0.0.0"} : r = <<s, <<M!Tok("line", v)>>>>
    BY <1>9 DEF M!Query
  <2> QED BY <1>1, <2>1
<1>10. CASE c \in {"CMGS", "CIPSEND"}
  <2>1. r = <<s, <<M!Tok(">", "")>>>> \/ r = <<s, <<M!ERROR>>>>
    BY <1>10 DEF M!Query, M!Says
  <2>2. CASE r = <<s, <<M!Tok(">", "")>>>>
    BY <1>3, <2>2
  <2>3. CASE r = <<s, <<M!ERROR>>>>
    BY <1>2, <2>3
  <2> QED BY <2>1, <2>2, <2>3
<1>11. CASE c = "CIPSTART"
  <2>1. r = <<s, <<M!OK, M!Tok("CONNECT OK", "")>>>> \/ r = <<s, <<M!OK>>>>
    BY <1>11 DEF M!Query, M!Says
  <2>2. CASE r = <<s, <<M!OK, M!Tok("CONNECT OK", "")>>>>
    BY <1>3, <2>2
  <2>3. CASE r = <<s, <<M!OK>>>>
    BY <1>2, <2>3
  <2> QED BY <2>1, <2>2, <2>3
<1> QED BY <1>4, <1>5, <1>6, <1>7, <1>8, <1>9, <1>10, <1>11 DEF M!Queries

LEMMA BearerIs ==
  ASSUME NEW s \in Sims, NEW c \in M!BearerCommands, NEW r \in M!Bearer(s, c)
  PROVE  /\ \E b \in {"connecting", "connected", "closing", "closed"} :
              r[1] = [s EXCEPT !.bearer = b]
         /\ NoData(r[2])
<1>1. NoData(<<M!ERROR>>) /\ NoData(<<M!OK>>)
  BY NoDataForms, OkIs
<1>2. /\ s = [s EXCEPT !.bearer = s.bearer]
      /\ s.bearer \in {"connecting", "connected", "closing", "closed"}
  BY DEF Sims
<1>3. CASE c = "SAPBR?"
  <2>1. r = <<s, <<M!Tok("+SAPBR:", M!BearerDigit[s.bearer]), M!OK>>>>
    BY <1>3 DEF M!Bearer, M!Says
  <2>2. M!BearerDigit[s.bearer] \in {"0", "1", "2", "3"}
    BY <1>2 DEF M!BearerDigit
  <2>3. ASSUME NEW d \in {"0", "1", "2", "3"}
        PROVE  NoData(<<M!Tok("+SAPBR:", d), M!OK>>)
    <3>1. /\ M!Tok("+SAPBR:", d) \in Tokens
          /\ M!Tok("+SAPBR:", d).v # "200" /\ M!Tok("+SAPBR:", d).t # "DOWNLOAD"
      BY DEF M!Tok, Tokens
    <3> QED BY <3>1, NoDataForms, OkIs
  <2> QED BY <1>2, <2>1, <2>2, <2>3
<1>4. CASE c = "SAPBR=1"
  <2>1. r \in {<<s, <<M!ERROR>>>>, <<[s EXCEPT !.bearer = "connecting"], <<M!OK>>>>}
    BY <1>4 DEF M!Bearer, M!Says
  <2> QED BY <1>1, <1>2, <2>1
<1>5. CASE c = "SAPBR=0"
  <2>1. r \in {<<s, <<M!ERROR>>>>, <<[s EXCEPT !.bearer = "closing"], <<M!OK>>>>}
    BY <1>5 DEF M!Bearer, M!Says
  <2> QED BY <1>1, <1>2, <2>1
<1> QED BY <1>3, <1>4, <1>5 DEF M!BearerCommands

\* All but the bearer stays.
Same(s, q) ==
  /\ q \in Sims
  /\ (q.on <=> s.on) /\ (q.http <=> s.http) /\ (q.load <=> s.load)
  /\ q.data = s.data /\ q.action = s.action

LEMMA SameIs ==
  ASSUME NEW s \in Sims
  PROVE  Same(s, s) /\ \A b \in {"connecting", "connected", "closing", "closed"} :
                         Same(s, [s EXCEPT !.bearer = b])
  BY DEF Same, Sims

\* A command that is refused, and one that is not heard.
Refused(s, r) == r[1] = s /\ r[2] = <<M!ERROR>>
Unheard(s, r) == r[1] = s /\ r[2] = <<>>

\* What the commands do that count.
HttpEffect(s, c, r) ==
  /\ c = "HTTPINIT" =>
       IF s.http THEN Refused(s, r)
       ELSE /\ r[1].on /\ r[1].http /\ ~r[1].load /\ r[1].action = s.action /\ r[1].data = "none"
            /\ r[2] = <<M!OK>>
  /\ c = "HTTPDATA" =>
       IF s.http
       THEN /\ r[1].on /\ r[1].http /\ r[1].load /\ r[1].action = s.action /\ r[1].data = s.data
            /\ r[2] = <<M!Tok("DOWNLOAD", "")>>
       ELSE Refused(s, r)
  /\ c \in {"GET", "POST"} =>
       IF s.http /\ s.action = "none"
       THEN /\ r[1].on /\ r[1].http /\ ~r[1].load /\ r[1].action = c /\ r[1].data = s.data
            /\ r[2] = <<M!OK>>
       ELSE Refused(s, r)
  /\ c = "HTTPTERM" =>
       IF s.http
       THEN /\ r[1].on /\ ~r[1].http /\ ~r[1].load /\ r[1].action = "none" /\ r[1].data = s.data
            /\ r[2] = <<M!OK>>
       ELSE Refused(s, r)
  /\ c = "HTTPREAD" =>
       \/ Refused(s, r)
       \/ r[1] = s /\ r[2] = <<M!Tok("+HTTPREAD:", ""), M!Tok("line", "length"), M!Tok("line", "body"), M!OK>>
  /\ c \in {"CID", "URL"} => r[1] = s /\ NoData(r[2])

LEMMA HttpEffects ==
  ASSUME NEW s \in Sims, s.on, ~s.load, NEW c \in M!HttpCommands, NEW r \in M!Replies(s, c)
  PROVE  HttpEffect(s, c, r) /\ r[1] \in Sims
<1>1. c # "" /\ c \notin M!Plain /\ c \in M!HttpCommands
  BY DEF M!HttpCommands, M!Plain
<1>2. M!Replies(s, c) = IF s.http # (c = "HTTPINIT") THEN M!Http(s, c) ELSE M!Says(s, <<M!ERROR>>)
  <2> DEFINE a == M!Http(s, c)  e == M!Says(s, <<M!ERROR>>)
  <2> HIDE DEF a, e
  <2>1. M!Replies(s, c) = IF s.http # (c = "HTTPINIT") THEN a ELSE e
    BY <1>1 DEF M!Replies, a, e
  <2> QED BY <2>1 DEF a, e
<1> DEFINE heard == (s.http /\ c # "HTTPINIT") \/ (~s.http /\ c = "HTTPINIT")
<1>3. s.http # (c = "HTTPINIT") <=> heard
  BY DEF Sims
<1>4. CASE ~heard
  <2>1. r = <<s, <<M!ERROR>>>>
    BY <1>2, <1>3, <1>4 DEF M!Says
  <2>2. Refused(s, r) /\ NoData(r[2]) /\ r[1] = s
    BY <2>1, OkIs, NoDataForms DEF Refused
  <2> QED BY <1>4, <2>2 DEF HttpEffect
<1>5. CASE heard
  <2>1. r \in M!Http(s, c)
    BY <1>2, <1>3, <1>5
  <2>2. CASE c = "HTTPINIT"
    <3>3. r \in M!Http(s, "HTTPINIT") /\ ~s.http
      BY <2>1, <2>2, <1>5
    <3>1. r = <<[s EXCEPT !.http = TRUE, !.data = "none"], <<M!OK>>>> /\ ~s.http
      BY <3>3, HttpInitIs
    <3>2. /\ r[1] \in Sims /\ r[1].on /\ r[1].http /\ ~r[1].load /\ r[1].action = s.action
          /\ r[1].data = "none" /\ r[2] = <<M!OK>>
      BY <3>1 DEF Sims
    <3> QED BY <2>2, <3>1, <3>2 DEF HttpEffect
  <2>3. CASE c \in {"CID", "URL"}
    <3>1. r = <<s, <<M!OK>>>>
      BY <2>1, <2>3, HttpPlainIs
    <3> QED BY <2>3, <3>1, OkIs, NoDataForms DEF HttpEffect
  <2>4. CASE c = "HTTPDATA"
    <3>3. r \in M!Http(s, "HTTPDATA") /\ s.http
      BY <2>1, <2>4, <1>5
    <3>1. r = <<[s EXCEPT !.load = TRUE], <<M!Tok("DOWNLOAD", "")>>>> /\ s.http
      BY <3>3, HttpDataIs
    <3> DEFINE q == <<M!Tok("DOWNLOAD", "")>>
    <3> HIDE DEF q
    <3>2. /\ r[1] \in Sims /\ r[1].on /\ r[1].http /\ r[1].load /\ r[1].action = s.action
          /\ r[1].data = s.data /\ r[2] = q
      BY <3>1 DEF Sims, q
    <3> QED BY <2>4, <3>1, <3>2 DEF HttpEffect, q
  <2>5. CASE c \in {"GET", "POST"}
    <3>0. s.http
      BY <1>5, <2>5
    <3>1. CASE s.action # "none"
      <4>1. r = <<s, <<M!ERROR>>>>
        BY <2>1, <2>5, <3>1, RequestIs
      <4> QED BY <2>5, <3>1, <4>1 DEF HttpEffect, Refused
    <3>2. CASE s.action = "none"
      <4>1. r = <<[s EXCEPT !.action = c], <<M!OK>>>>
        BY <2>1, <2>5, <3>2, RequestIs
      <4>2. /\ r[1] \in Sims /\ r[1].on /\ r[1].http /\ ~r[1].load /\ r[1].action = c
            /\ r[1].data = s.data /\ r[2] = <<M!OK>>
        BY <2>5, <3>0, <4>1 DEF Sims
      <4> QED BY <2>5, <3>0, <3>2, <4>2 DEF HttpEffect
    <3> QED BY <3>1, <3>2
  <2>6. CASE c = "HTTPREAD"
    <3>1. r = <<s, <<M!Tok("+HTTPREAD:", ""), M!Tok("line", "length"), M!Tok("line", "body"), M!OK>>>>
      BY <2>1, <2>6, HttpReadIs
    <3> QED BY <2>6, <3>1 DEF HttpEffect
  <2>7. CASE c = "HTTPTERM"
    <3>1. r = <<[s EXCEPT !.http = FALSE, !.action = "none"], <<M!OK>>>> /\ s.http
      BY <2>1, <2>7, <1>5, HttpTermIs
    <3>2. /\ r[1] \in Sims /\ r[1].on /\ ~r[1].http /\ ~r[1].load /\ r[1].action = "none"
          /\ r[1].data = s.data /\ r[2] = <<M!OK>>
      BY <3>1 DEF Sims
    <3> QED BY <2>7, <3>1, <3>2 DEF HttpEffect
  <2> QED BY <2>2, <2>3, <2>4, <2>5, <2>6, <2>7 DEF M!HttpCommands
<1> QED BY <1>4, <1>5

LEMMA UnheardIs ==
  ASSUME NEW s \in Sims, NEW r, Unheard(s, r)
  PROVE  Same(s, r[1]) /\ NoData(r[2])
  BY SameIs, OkIs, NoDataForms DEF Unheard

LEMMA RefusedIs ==
  ASSUME NEW s \in Sims, NEW r, Refused(s, r)
  PROVE  Same(s, r[1]) /\ NoData(r[2])
  BY SameIs, OkIs, NoDataForms DEF Refused

\* Which commands are not heard, and the data.
LEMMA Deaf ==
  ASSUME NEW s \in Sims, NEW c, NEW r \in M!Replies(s, c)
  PROVE  /\ ~s.on \/ c = "" \/ (s.load /\ c # "DATA") => Unheard(s, r)
         /\ c = "DATA" =>
              IF s.on /\ s.load
              THEN /\ r[1] \in Sims /\ r[1].on /\ (r[1].http <=> s.http) /\ ~r[1].load
                   /\ r[1].data = "new" /\ r[1].action = s.action
                   /\ r[2] = <<M!OK>>
              ELSE Unheard(s, r)
<1>1. ASSUME r \in M!Says(s, <<>>) PROVE Unheard(s, r)
  BY <1>1 DEF M!Says, Unheard
<1>2. CASE ~s.on \/ c = ""
  <2>1. M!Replies(s, c) = M!Says(s, <<>>)
    BY <1>2 DEF M!Replies
  <2> QED BY <1>1, <1>2, <2>1
<1>3. CASE s.on /\ c # "" /\ s.load /\ c # "DATA"
  <2>1. M!Replies(s, c) = M!Says(s, <<>>)
    BY <1>3 DEF M!Replies
  <2> QED BY <1>1, <1>3, <2>1
<1>4. CASE s.on /\ s.load /\ c = "DATA"
  <2>1. r \in M!Says([s EXCEPT !.load = FALSE, !.data = "new"], <<M!OK>>)
    <3> DEFINE a == M!Says([s EXCEPT !.load = FALSE, !.data = "new"], <<M!OK>>)
    <3> HIDE DEF a
    <3>1. M!Replies(s, c) = a
      BY <1>4 DEF M!Replies, a
    <3> QED BY <3>1 DEF a
  <2>2. r = <<[s EXCEPT !.load = FALSE, !.data = "new"], <<M!OK>>>>
    BY <2>1 DEF M!Says
  <2>3. /\ r[1] \in Sims /\ r[1].on /\ (r[1].http <=> s.http) /\ ~r[1].load
        /\ r[1].data = "new" /\ r[1].action = s.action /\ r[2] = <<M!OK>>
    BY <1>4, <2>2 DEF Sims
  <2> QED BY <1>4, <2>3
<1>5. CASE s.on /\ ~s.load /\ c # ""
  <2>1. c = "DATA" => Unheard(s, r)
    <3>1. SUFFICES ASSUME c = "DATA" PROVE Unheard(s, r)
      OBVIOUS
    <3>2. /\ c \notin M!Plain /\ c \notin M!HttpCommands /\ c \notin M!BearerCommands
          /\ c \notin M!Queries
      BY <3>1 DEF M!Plain, M!HttpCommands, M!BearerCommands, M!Queries
    <3>3. M!Replies(s, c) = M!Says(s, <<>>)
      BY <1>5, <3>2 DEF M!Replies
    <3> QED BY <1>1, <3>3
  <2> QED BY <1>5, <2>1
<1> QED BY <1>2, <1>3, <1>4, <1>5

LEMMA ReadIsNoData ==
  NoData(<<M!Tok("+HTTPREAD:", ""), M!Tok("line", "length"), M!Tok("line", "body"), M!OK>>)
<1> DEFINE a == M!Tok("+HTTPREAD:", "")  b == M!Tok("line", "length")  d == M!Tok("line", "body")
<1>1. a \in Tokens /\ a.v # "200" /\ a.t # "DOWNLOAD"
  BY DEF M!Tok, Tokens
<1>2. b \in Tokens /\ b.v # "200" /\ b.t # "DOWNLOAD"
  BY DEF M!Tok, Tokens
<1>3. d \in Tokens /\ d.v # "200" /\ d.t # "DOWNLOAD"
  BY DEF M!Tok, Tokens
<1>4. ASSUME NEW T, NEW w \in T, NEW x \in T, NEW y \in T, NEW z \in T
      PROVE  <<w, x, y, z>> \in Seq(T) /\ Len(<<w, x, y, z>>) = 4
  OBVIOUS
<1> HIDE DEF a, b, d
<1> DEFINE e == M!OK  q == <<a, b, d, e>>
<1>5. e \in Tokens /\ e.v # "200" /\ e.t # "DOWNLOAD"
  BY OkIs
<1> HIDE DEF e
<1>6. q \in Seq(Tokens) /\ Len(q) = 4
  BY <1>1, <1>2, <1>3, <1>4, <1>5
<1>7. q[1] = a /\ q[2] = b /\ q[3] = d /\ q[4] = e
  OBVIOUS
<1> HIDE DEF q
<1>8. \A i \in 1..4 : q[i].v # "200" /\ q[i].t # "DOWNLOAD"
  <2> TAKE i \in 1..4
  <2>1. i = 1 \/ i = 2 \/ i = 3 \/ i = 4
    OBVIOUS
  <2> QED BY <1>1, <1>2, <1>3, <1>5, <1>7, <2>1
<1>9. NoData(q)
  BY <1>6, <1>8 DEF NoData
<1> QED BY <1>9 DEF a, b, d, e, q

\* Every other command leaves all but the bearer as it is.
LEMMA Harmless ==
  ASSUME NEW s \in Sims, NEW c, c \notin Effective \cup {"DATA"}, NEW r \in M!Replies(s, c)
  PROVE  Same(s, r[1]) /\ NoData(r[2])
<1>1. CASE ~s.on \/ c = "" \/ s.load
  BY <1>1, Deaf, UnheardIs
<1>2. CASE s.on /\ c # "" /\ ~s.load
  <2>1. CASE c \in M!Plain
    <3>1. M!Replies(s, c) = M!Says(s, <<M!OK>>)
      BY <1>2, <2>1 DEF M!Replies
    <3>2. r[1] = s /\ r[2] = <<M!OK>>
      BY <3>1 DEF M!Says
    <3> QED BY <3>2, SameIs, OkIs, NoDataForms
  <2>2. CASE c \in M!HttpCommands
    <3>1. HttpEffect(s, c, r)
      BY <1>2, <2>2, HttpEffects
    <3>2. c \in {"CID", "URL", "HTTPREAD"}
      BY <2>2 DEF M!HttpCommands, Effective
    <3>3. CASE c \in {"CID", "URL"}
      BY <3>1, <3>3, SameIs DEF HttpEffect
    <3>4. CASE c = "HTTPREAD"
      BY <3>1, <3>4, SameIs, RefusedIs, ReadIsNoData DEF HttpEffect
    <3> QED BY <3>2, <3>3, <3>4
  <2>3. CASE c \notin M!Plain /\ c \notin M!HttpCommands /\ c \in M!BearerCommands
    <3>1. r \in M!Bearer(s, c)
      <4> DEFINE a == M!Bearer(s, c)
      <4> HIDE DEF a
      <4>1. M!Replies(s, c) = a
        BY <1>2, <2>3 DEF M!Replies, a
      <4> QED BY <4>1 DEF a
    <3>2. PICK b \in {"connecting", "connected", "closing", "closed"} : r[1] = [s EXCEPT !.bearer = b]
      BY <2>3, <3>1, BearerIs
    <3>3. Same(s, [s EXCEPT !.bearer = b])
      BY SameIs
    <3> QED BY <2>3, <3>1, <3>2, <3>3, BearerIs
  <2>4. CASE c \notin M!Plain /\ c \notin M!HttpCommands /\ c \notin M!BearerCommands /\ c \in M!Queries
    <3>1. r \in M!Query(s, c)
      <4> DEFINE a == M!Query(s, c)
      <4> HIDE DEF a
      <4>1. M!Replies(s, c) = a
        BY <1>2, <2>4 DEF M!Replies, a
      <4> QED BY <4>1 DEF a
    <3> QED BY <2>4, <3>1, QueryIs, SameIs
  <2>5. CASE c \notin M!Plain /\ c \notin M!HttpCommands /\ c \notin M!BearerCommands /\ c \notin M!Queries
    <3>1. M!Replies(s, c) = M!Says(s, <<>>)
      BY <1>2, <2>5 DEF M!Replies
    <3>2. Unheard(s, r)
      BY <3>1 DEF M!Says, Unheard
    <3> QED BY <3>2, UnheardIs
  <2> QED BY <2>1, <2>2, <2>3, <2>4, <2>5
<1> QED BY <1>1, <1>2

-----------------------------------------------------------------------------
(***************************************************************************)
(* From call to call and from step to step.                                *)
(***************************************************************************)

\* The stages of each task.
JobStage ==
  \/ job = "idle" /\ stage = "none"
  \/ job = "boot" /\ stage \in {"init", "open", "get", "term", "shut"}
  \/ job = "sync" /\ stage \in {"open", "get", "term", "shut"}
  \/ job \in Sessions /\ stage \in {"open", "post", "read", "term", "quit", "shut", "init"}
  \/ job = "cmd" /\ stage \in {"open", "get", "term"}
  \/ job = "other" /\ stage \in Others

SimTyped ==
  /\ sim \in Sims
  /\ ~sim.on => ~sim.http /\ ~sim.load
  /\ ~sim.http => sim.action = "none"

ControlTyped ==
  /\ JobStage
  /\ Calling => pc \in 1..Len(Steps900)
  /\ try \in Nat /\ good \in BOOLEAN /\ served \in BOOLEAN /\ ready \subseteq Sessions

WaitTyped ==
  /\ waiting \in BOOLEAN
  /\ waiting => Calling /\ try >= 1 /\ ~(stage = "init" /\ pc = 1)

AnswerTyped ==
  /\ out \in Seq(Tokens)
  /\ slow \in BOOLEAN /\ (slow => late >= 1)
  /\ late \in Nat /\ late <= MaxLate /\ lost \in Nat /\ resets \in Nat

Typed == ControlTyped /\ WaitTyped /\ SimTyped /\ AnswerTyped

\* What the upload has left is about to be ended: the close after a failed post, and
\* the sim900_init after that.
Spoiled ==
  \/ job \in Sessions /\ stage \in {"quit", "shut"} /\ ~good
  \/ stage = "init" /\ pc = 1

\* A modem as another, but for its data.
Like(s, q) ==
  /\ q \in Sims
  /\ (q.on <=> s.on) /\ (q.http <=> s.http) /\ (q.load <=> s.load) /\ q.action = s.action

LEMMA EnterIs ==
  ASSUME NEW s \in Sims, NEW st
  PROVE  Like(s, Enter(s, st))
<1> DEFINE d == IF st # "read" /\ s.data = "new" THEN "old" ELSE s.data
<1>1. d \in {"none", "old", "new"}
  BY DEF Sims
<1> HIDE DEF d
<1>2. Enter(s, st) = [s EXCEPT !.data = d]
  BY DEF Enter, d
<1> QED BY <1>1, <1>2 DEF Like, Sims

\* The call has returned: where the task is then.
Returned(ok, s) ==
  /\ pc' = 1 /\ try' = 0
  /\ served' \in BOOLEAN /\ good' \in BOOLEAN /\ (served' <=> served /\ stage' = "read")
  /\ ready' \subseteq Sessions
  /\ JobStage'
  /\ sim' = M!Off \/ Like(s, sim')
  /\ Spoiled /\ ~(stage = "init" /\ pc = 1) => Spoiled'
  /\ job \in Sessions /\ stage = "post" =>
       job' = job /\ IF ok THEN stage' = "read" ELSE stage' = "quit" /\ ~good'
  /\ job \in Sessions /\ stage = "read" => job' = job /\ stage' = "term"
  /\ job' \in Sessions /\ stage' = "read" => job \in Sessions /\ stage = "post" /\ ok

\* The stages of a task other than an upload, and of an upload.
LEMMA AfterTask ==
  ASSUME JobStage, Calling, NEW ok \in BOOLEAN, NEW st \in After(ok), job \notin Sessions
  PROVE  \/ st = "end"
         \/ job \in {"boot", "sync"} /\ st \in {"open", "get", "term", "shut"}
         \/ job = "cmd" /\ st \in {"get", "term"}
<1>1. CASE job = "other"
  BY <1>1 DEF After, Sessions
<1>2. CASE job = "cmd"
  BY <1>2 DEF After, CmdAfter, Sessions
<1>3. CASE job = "sync"
  BY <1>3 DEF After, SyncAfter, Sessions
<1>4. CASE job = "boot"
  BY <1>4 DEF After, BootAfter, SyncAfter, Sessions
<1> QED BY <1>1, <1>2, <1>3, <1>4 DEF JobStage, Calling

LEMMA AfterSend ==
  ASSUME JobStage, job \in Sessions, NEW ok \in BOOLEAN, NEW st \in After(ok)
  PROVE  /\ st \in {"end", "more", "post", "read", "term", "quit", "shut", "init"}
         /\ stage = "post" => st = IF ok THEN "read" ELSE "quit"
         /\ stage = "read" => st = "term"
         /\ st = "read" => stage = "post" /\ ok
         /\ stage = "quit" => st = "shut"
         /\ stage = "shut" /\ ~good => st = "init"
<1>1. st \in SendAfter(ok)
  BY DEF After, Sessions
<1>2. stage \in {"open", "post", "read", "term", "quit", "shut", "init"}
  BY DEF JobStage, Sessions
<1> QED BY <1>1, <1>2 DEF SendAfter

LEMMA BeginsIs ==
  ASSUME NEW j, NEW st, served \in BOOLEAN, Begins(j, st)
  PROVE  /\ job' = j /\ stage' = st /\ pc' = 1 /\ try' = 0
         /\ served' \in BOOLEAN /\ (served' <=> served /\ stage' = "read")
  BY DEF Begins

LEMMA RestartIs ==
  ASSUME served \in BOOLEAN, Restarted
  PROVE  /\ pc' = 1 /\ try' = 0 /\ job' = "boot" /\ stage' = "init"
         /\ served' \in BOOLEAN /\ (served' <=> served /\ stage' = "read")
         /\ good' \in BOOLEAN /\ ready' \subseteq Sessions
<1>1. Begins("boot", "init") /\ good' = TRUE /\ ready' = {}
  BY DEF Restarted
<1>2. /\ job' = "boot" /\ stage' = "init" /\ pc' = 1 /\ try' = 0
      /\ served' \in BOOLEAN /\ (served' <=> served /\ stage' = "read")
  BY <1>1, BeginsIs
<1> QED BY <1>1, <1>2

LEMMA CallEndsIs ==
  ASSUME JobStage, Calling, good \in BOOLEAN, served \in BOOLEAN, ready \subseteq Sessions,
         NEW ok \in BOOLEAN, NEW s \in Sims, CallEnds(ok, s)
  PROVE  Returned(ok, s)
<1>1. PICK st \in After(ok) :
    /\ st = "end" /\ job = "boot" => BootRound(Enter(s, st))
    /\ st = "end" /\ job # "boot" => TaskEnds /\ sim' = Enter(s, st)
    /\ st = "more" =>
         /\ sim' = Enter(s, st) /\ Begins("idle", "none") /\ ready' = ready \cup {job}
         /\ good' = TRUE
    /\ st \notin {"end", "more"} =>
         /\ sim' = Enter(s, st) /\ Begins(job, st)
         /\ good' = (good /\ (ok \/ stage \notin {"open", "get", "post"}))
         /\ UNCHANGED ready
  BY Zenon DEF CallEnds
<1> DEFINE q == Enter(s, st)
<1>2. Like(s, q)
  BY EnterIs
<1> HIDE DEF q
<1>3. CASE st = "end" /\ job = "boot"
  <2>1. BootRound(q)
    BY <1>1, <1>3 DEF q
  <2>2. sim' = M!Off \/ Like(s, sim')
    BY <1>2, <2>1 DEF BootRound
  <2>3. /\ pc' = 1 /\ try' = 0 /\ job' \in {"boot", "idle"}
        /\ served' \in BOOLEAN /\ (served' <=> served /\ stage' = "read")
        /\ (stage' = "none" /\ job' = "idle") \/ (stage' \in {"init", "open"} /\ job' = "boot")
        /\ stage = "init" => stage' = "init"
        /\ good' \in BOOLEAN /\ ready' \subseteq Sessions
    <3>1. CASE Restarted
      BY <3>1, RestartIs
    <3>2. CASE Begins("idle", "none") /\ good' = TRUE /\ UNCHANGED ready /\ stage = "shut"
      <4>1. /\ job' = "idle" /\ stage' = "none" /\ pc' = 1 /\ try' = 0
            /\ served' \in BOOLEAN /\ (served' <=> served /\ stage' = "read")
        BY <3>2, BeginsIs
      <4>2. stage # "init" /\ good' \in BOOLEAN /\ ready' \subseteq Sessions
        BY <3>2
      <4> QED BY <4>1, <4>2
    <3>3. CASE Begins("boot", "init") /\ good' = TRUE /\ UNCHANGED ready
      BY <3>3, BeginsIs
    <3>4. CASE Begins("boot", "open") /\ good' = TRUE /\ UNCHANGED ready /\ stage # "init"
      BY <3>4, BeginsIs
    <3> QED BY <2>1, <3>1, <3>2, <3>3, <3>4 DEF BootRound
  <2>4. JobStage'
    BY <2>3 DEF JobStage
  <2> QED BY <1>3, <2>2, <2>3, <2>4 DEF Returned, Spoiled, Sessions
<1>4. CASE st = "end" /\ job # "boot"
  <2>1. TaskEnds /\ sim' = q
    BY <1>1, <1>4 DEF q
  <2>2. /\ pc' = 1 /\ try' = 0 /\ job' = "idle" /\ stage' = "none"
        /\ served' \in BOOLEAN /\ (served' <=> served /\ stage' = "read")
    BY <2>1, BeginsIs DEF TaskEnds
  <2>3. good' \in BOOLEAN /\ ready' \subseteq Sessions
    BY <2>1 DEF TaskEnds, Sessions
  <2>4. JobStage'
    BY <2>2 DEF JobStage
  <2>5. job \in Sessions => stage # "post" /\ stage # "read" /\ (~Spoiled \/ stage = "init")
    BY <1>4, AfterSend DEF Spoiled
  <2> QED BY <1>2, <2>1, <2>2, <2>3, <2>4, <2>5, AfterSend, <1>4 DEF Returned, Spoiled, Sessions
<1>5. CASE st = "more"
  <2>1. sim' = q /\ Begins("idle", "none") /\ ready' = ready \cup {job} /\ good' = TRUE
    BY <1>1, <1>5 DEF q
  <2>2. job \in Sessions
    BY <1>5, AfterTask
  <2>3. /\ pc' = 1 /\ try' = 0 /\ job' = "idle" /\ stage' = "none"
        /\ served' \in BOOLEAN /\ (served' <=> served /\ stage' = "read")
    BY <2>1, BeginsIs
  <2>4. good' \in BOOLEAN /\ ready' \subseteq Sessions
    BY <2>1, <2>2
  <2>5. JobStage'
    BY <2>3 DEF JobStage
  <2> QED BY <1>2, <1>5, <2>1, <2>2, <2>3, <2>4, <2>5, AfterSend DEF Returned, Spoiled, Sessions
<1>6. CASE st \notin {"end", "more"}
  <2>1. /\ sim' = q /\ Begins(job, st)
        /\ good' = (good /\ (ok \/ stage \notin {"open", "get", "post"}))
        /\ UNCHANGED ready
    BY <1>1, <1>6 DEF q
  <2>2. /\ pc' = 1 /\ try' = 0 /\ job' = job /\ stage' = st
        /\ served' \in BOOLEAN /\ (served' <=> served /\ stage' = "read")
    BY <2>1, BeginsIs
  <2>3. CASE job \in Sessions
    <3>1. JobStage'
      BY <1>6, <2>2, <2>3, AfterSend DEF JobStage
    <3>2. good' \in BOOLEAN /\ ready' \subseteq Sessions
      BY <2>1
    <3>3. stage = "post" /\ ~ok => ~good'
      BY <2>1
    <3>4. ~good => ~good'
      BY <2>1
    <3> QED BY <1>2, <1>6, <2>1, <2>2, <2>3, <3>1, <3>2, <3>3, <3>4, AfterSend
            DEF Returned, Spoiled, Sessions
  <2>4. CASE job \notin Sessions
    <3>1. JobStage'
      BY <1>6, <2>2, <2>4, AfterTask DEF JobStage
    <3>2. good' \in BOOLEAN /\ ready' \subseteq Sessions
      BY <2>1
    <3> QED BY <1>2, <1>6, <2>1, <2>2, <2>4, <3>1, <3>2 DEF Returned, Spoiled
  <2> QED BY <2>3, <2>4
<1> QED BY <1>3, <1>4, <1>5, <1>6

\* The table of a stage has steps.
LEMMA HasSteps ==
  \A st \in Stages \cup {"quit"} : Len(Steps[IF st = "quit" THEN "term" ELSE st]) \in Nat \ {0}
<1> TAKE st \in Stages \cup {"quit"}
<1>1. (IF st = "quit" THEN "term" ELSE st) \in Stages
  BY DEF Stages
<1> QED BY <1>1, AllTables

LEMMA StageKnown == JobStage /\ Calling => stage \in Stages \cup {"quit"}
  BY ModemAssumption DEF JobStage, Calling, Sessions, Stages

LEMMA StepFacts ==
  ASSUME JobStage, Calling, pc \in 1..Len(Steps900)
  PROVE  /\ Len(Steps900) \in Nat \ {0}
         /\ stage \notin {"init", "open"} => Straight(step)
         /\ step.cmd \in Effective =>
              \/ stage = "post" /\ pc = 2 /\ step.cmd = "HTTPINIT"
              \/ stage = "post" /\ pc = 5 /\ step.cmd = "HTTPDATA"
              \/ stage = "post" /\ pc = 7 /\ step.cmd = "POST"
              \/ stage = "get" /\ step.cmd \in {"HTTPINIT", "GET"}
              \/ stage \in {"term", "quit"} /\ step.cmd = "HTTPTERM"
              \/ stage = "init" /\ pc = 1 /\ step.cmd = "TOGGLE"
<1> DEFINE t == IF stage = "quit" THEN "term" ELSE stage
<1>1. t \in Stages /\ (t = "init" <=> stage = "init") /\ (t = "open" <=> stage = "open")
      /\ (t = "post" <=> stage = "post") /\ (t = "get" <=> stage = "get")
      /\ (t = "term" => stage \in {"term", "quit"})
  BY StageKnown DEF Stages
<1>2. Steps900 = Steps[t]
  BY DEF Steps900
<1> HIDE DEF t
<1>3. Len(Steps[t]) \in Nat \ {0}
  BY <1>1, AllTables
<1>4. t \notin {"init", "open"} => Straight(Steps[t][pc])
  BY <1>1, <1>2, AllTables
<1>5. Steps[t][pc].cmd \in Effective =>
              \/ t = "post" /\ pc = 2 /\ Steps[t][pc].cmd = "HTTPINIT"
              \/ t = "post" /\ pc = 5 /\ Steps[t][pc].cmd = "HTTPDATA"
              \/ t = "post" /\ pc = 7 /\ Steps[t][pc].cmd = "POST"
              \/ t = "get" /\ Steps[t][pc].cmd \in {"HTTPINIT", "GET"}
              \/ t = "term" /\ Steps[t][pc].cmd = "HTTPTERM"
              \/ t = "init" /\ pc = 1 /\ Steps[t][pc].cmd = "TOGGLE"
  BY <1>1, <1>2, AllTables
<1> QED BY <1>1, <1>2, <1>3, <1>4, <1>5 DEF step

\* On within the call.
Onward(o, s) ==
  /\ pc' \in 1..Len(Steps900) /\ try' = 0
  /\ UNCHANGED <<job, stage, good, ready, served>>
  /\ sim' = s \/ (stage = "init" /\ sim' \in {M!Off, M!On})
  /\ stage \notin {"init", "open"} => pc' = pc + 1 /\ o \in DOMAIN step.to

Moved(o, s) ==
  \/ Onward(o, s)
  \/ \E ok \in BOOLEAN :
       /\ Returned(ok, s)
       /\ stage \notin {"init", "open"} =>
            IF ok THEN o \in DOMAIN step.to /\ pc = Len(Steps900) ELSE o \notin DOMAIN step.to
  \/ stage = "init" /\ Restarted /\ sim' = M!Off

LEMMA MoveIs ==
  ASSUME JobStage, Calling, pc \in 1..Len(Steps900),
         good \in BOOLEAN, served \in BOOLEAN, ready \subseteq Sessions,
         NEW o, NEW s \in Sims, Move(o, s)
  PROVE  Moved(o, s)
<1> DEFINE v == Verdict(o)  n == Len(Steps900)
<1>0. n \in Nat \ {0}
  BY StepFacts
<1>1. \/ v = "next" /\ pc < n /\ \E t : GoTo(pc + 1, t, s)
      \/ v = "skip" /\ \E t : GoTo(pc + 2, t, s)
      \/ v = "again" /\ \E t : GoTo(pc - step.back, t, s)
      \/ v = "restart" /\ \E t : GoTo(1, t, s)
      \/ v = "hardReset" /\ HardReset(s)
      \/ v = "fail" /\ CallEnds(FALSE, s)
      \/ ~(v = "next" /\ pc < n) /\ v # "fail" /\ v # "skip" /\ v # "again" /\ v # "restart"
         /\ v # "hardReset" /\ CallEnds(TRUE, s)
  BY Zenon DEF Move
<1>2. stage \notin {"init", "open"} => IF o \in DOMAIN step.to THEN v = "next" ELSE v = "fail"
  BY StepFacts DEF Straight, Verdict
<1>3. stage = "open" => /\ v \in {"next", "done", "again", "fail"}
                        /\ v = "again" => pc - step.back \in 1..n
  <2>1. SUFFICES ASSUME stage = "open"
                 PROVE  /\ v \in {"next", "done", "again", "fail"}
                        /\ v = "again" => pc - step.back \in 1..n
    OBVIOUS
  <2>2. Steps900 = Open /\ n = 7 /\ pc \in 1..7 /\ step = Open[pc]
    BY <2>1, StageTables, OpenSteps DEF Steps900, step
  <2>3. o \in DOMAIN step.to => step.to[o] \in {"next", "done", "again"} /\ (step.to[o] = "again" => pc = 7)
    BY <2>2, OpenSteps
  <2>4. pc = 7 => step.back = 1 /\ step.over = "done"
    BY <2>2, OpenSteps
  <2> QED BY <2>2, <2>3, <2>4 DEF Verdict
<1>4. stage = "init" => /\ v = "skip" => pc + 2 \in 1..n
                        /\ v = "again" => pc - step.back \in 1..n
  <2>1. SUFFICES ASSUME stage = "init"
                 PROVE  /\ v = "skip" => pc + 2 \in 1..n
                        /\ v = "again" => pc - step.back \in 1..n
    OBVIOUS
  <2>2. Steps900 = Init900 /\ n = 12 /\ pc \in 1..12 /\ step = Init900[pc]
    BY <2>1, StageTables, InitSteps DEF Steps900, step
  <2>3. o \in DOMAIN step.to =>
          /\ step.to[o] = "skip" => pc = 9
          /\ step.to[o] = "again" => step.back = 0 /\ step.over # "skip"
    BY <2>2, InitSteps
  <2> QED BY <2>2, <2>3 DEF Verdict
<1>5. /\ v = "hardReset" => stage = "init"
      /\ v = "fail" /\ stage \notin {"init", "open"} => o \notin DOMAIN step.to
  BY <1>2, <1>3
<1> HIDE DEF v
<1>6. ASSUME NEW m \in 1..n, NEW t, NEW q, GoTo(m, t, q),
             q = s \/ (stage = "init" /\ q \in {M!Off, M!On}),
             stage \notin {"init", "open"} => m = pc + 1 /\ o \in DOMAIN step.to
      PROVE  Onward(o, s)
  BY <1>6 DEF GoTo, Onward
<1>7. ASSUME NEW ok \in BOOLEAN, CallEnds(ok, s),
             stage \notin {"init", "open"} =>
               IF ok THEN o \in DOMAIN step.to /\ pc = n ELSE o \notin DOMAIN step.to
      PROVE  Moved(o, s)
  <2>1. Returned(ok, s)
    BY <1>7, CallEndsIs
  <2> QED BY <1>7, <2>1 DEF Moved
<1>8. CASE v = "next" /\ pc < n
  <2>1. PICK t : GoTo(pc + 1, t, s)
    BY <1>1, <1>8
  <2>2. pc + 1 \in 1..n
    BY <1>0, <1>8
  <2>3. stage \notin {"init", "open"} => o \in DOMAIN step.to
    BY <1>2, <1>8
  <2>4. Onward(o, s)
    BY <1>6, <2>1, <2>2, <2>3
  <2> QED BY <2>4 DEF Moved
<1>9. CASE v = "skip"
  <2>1. stage = "init"
    BY <1>2, <1>3, <1>9
  <2> QED BY <1>1, <1>4, <1>6, <1>9, <2>1 DEF Moved
<1>10. CASE v = "again"
  <2>1. stage \in {"init", "open"}
    BY <1>2, <1>10
  <2> QED BY <1>1, <1>3, <1>4, <1>6, <1>10, <2>1 DEF Moved
<1>11. CASE v = "restart"
  <2>1. stage = "init"
    BY <1>2, <1>3, <1>11
  <2>2. 1 \in 1..n
    BY <1>0
  <2> QED BY <1>1, <1>6, <1>11, <2>1, <2>2 DEF Moved
<1>12. CASE v = "hardReset"
  <2>1. HardReset(s) /\ stage = "init"
    BY <1>1, <1>5, <1>12
  <2>2. CASE Restarted /\ sim' = M!Off
    BY <2>1, <2>2 DEF Moved
  <2>3. CASE \E t, q : GoTo(pc, t, q) /\ q \in {M!Off, M!On}
    BY <1>6, <2>1, <2>3 DEF Moved
  <2>4. CASE CallEnds(FALSE, s)
    BY <1>7, <2>1, <2>4
  <2> QED BY <2>1, <2>2, <2>3, <2>4 DEF HardReset
<1>13. CASE v = "fail"
  BY <1>1, <1>5, <1>7, <1>13
<1>14. CASE ~(v = "next" /\ pc < n) /\ v # "fail" /\ v # "skip" /\ v # "again" /\ v # "restart"
            /\ v # "hardReset"
  <2>1. CallEnds(TRUE, s)
    BY <1>1, <1>14
  <2>2. stage \notin {"init", "open"} => o \in DOMAIN step.to /\ pc = n
    BY <1>0, <1>2, <1>14
  <2> QED BY <1>7, <2>1, <2>2
<1> QED BY <1>8, <1>9, <1>10, <1>11, <1>12, <1>13, <1>14

-----------------------------------------------------------------------------
(***************************************************************************)
(* What each action does, in these words.                                  *)
(***************************************************************************)

\* A modem that is as the driver may find it.
Fit(s) == s \in Sims /\ (~s.on => ~s.http /\ ~s.load) /\ (~s.http => s.action = "none")

LEMMA FitIs == (SimTyped <=> Fit(sim)) /\ Fit(M!Off) /\ Fit(M!On)
  BY OffOn DEF SimTyped, Fit

LEMMA OneIsSeq == ASSUME NEW T, NEW e \in T PROVE <<e>> \in Seq(T)
  OBVIOUS

LEMMA FitReplies ==
  ASSUME NEW s, Fit(s), NEW c, NEW r \in M!Replies(s, c)
  PROVE  Fit(r[1]) /\ r[2] \in Seq(Tokens) /\ (~s.on => r[1] = s)
<1>1. s \in Sims
  BY DEF Fit
<1>2. CASE ~s.on \/ (s.load /\ c # "DATA")
  <2>1. Unheard(s, r)
    BY <1>1, <1>2, Deaf
  <2> QED BY <1>1, <2>1, UnheardIs DEF NoData, Unheard
<1>3. CASE c \notin Effective \cup {"DATA"}
  <2>1. Same(s, r[1]) /\ NoData(r[2])
    BY <1>1, <1>3, Harmless
  <2> QED BY <1>2, <2>1 DEF Fit, Same, NoData
<1>4. CASE s.on /\ c = "DATA"
  <2>1. CASE s.load
    <3>1. /\ r[1] \in Sims /\ r[1].on /\ (r[1].http <=> s.http) /\ r[1].action = s.action
          /\ r[2] = <<M!OK>>
      BY <1>1, <1>4, <2>1, Deaf
    <3>2. NoData(<<M!OK>>)
      BY OkIs, NoDataForms
    <3>3. r[2] \in Seq(Tokens)
      BY <3>1, <3>2 DEF NoData
    <3> QED BY <1>4, <3>1, <3>3 DEF Fit
  <2>2. CASE ~s.load
    <3>1. Unheard(s, r)
      BY <1>1, <1>4, <2>2, Deaf
    <3> QED BY <1>1, <1>4, <3>1, UnheardIs DEF NoData, Unheard
  <2> QED BY <2>1, <2>2
<1>5. CASE s.on /\ ~s.load /\ c \in Effective \ {"TOGGLE"}
  <2>1. c \in M!HttpCommands
    BY <1>5 DEF Effective, M!HttpCommands
  <2>2. HttpEffect(s, c, r) /\ r[1] \in Sims
    BY <1>1, <1>5, <2>1, HttpEffects
  <2>3. Fit(r[1])
    BY <1>5, <2>2 DEF HttpEffect, Fit, Effective, Refused
  <2>4. NoData(<<M!OK>>) /\ NoData(<<M!ERROR>>)
    BY OkIs, NoDataForms
  <2>5. <<M!Tok("DOWNLOAD", "")>> \in Seq(Tokens)
    <3>1. M!Tok("DOWNLOAD", "") \in Tokens
      BY DEF M!Tok, Tokens
    <3> QED BY <3>1, OneIsSeq
  <2>6. r[2] \in Seq(Tokens)
    BY <1>5, <2>2, <2>4, <2>5 DEF HttpEffect, Effective, Refused, NoData
  <2> QED BY <1>5, <2>3, <2>6
<1>6. CASE s.on /\ c = "TOGGLE"
  <2>1. /\ c \notin M!Plain /\ c \notin M!HttpCommands /\ c \notin M!BearerCommands
        /\ c \notin M!Queries
        /\ c # ""
    BY <1>6 DEF M!Plain, M!HttpCommands, M!BearerCommands, M!Queries
  <2>2. CASE ~s.load
    <3>1. M!Replies(s, c) = M!Says(s, <<>>)
      BY <1>6, <2>1, <2>2 DEF M!Replies
    <3>2. Unheard(s, r)
      BY <3>1 DEF M!Says, Unheard
    <3> QED BY <1>1, <3>2, UnheardIs DEF NoData, Unheard
  <2> QED BY <1>2, <1>6, <2>2
<1> QED BY <1>2, <1>3, <1>4, <1>5, <1>6

LEMMA MovedTyped ==
  ASSUME ControlTyped, Calling, NEW o, NEW s, Fit(s), Moved(o, s)
  PROVE  ControlTyped' /\ SimTyped' /\ try' = 0
<1>0. /\ JobStage /\ pc \in 1..Len(Steps900) /\ good \in BOOLEAN /\ served \in BOOLEAN
      /\ ready \subseteq Sessions
  BY DEF ControlTyped
<1>1. CASE Onward(o, s)
  <2>1. Steps900' = Steps900 /\ JobStage' /\ try' = 0 /\ pc' \in 1..Len(Steps900)
    BY <1>0, <1>1 DEF Onward, Steps900, JobStage
  <2>2. Fit(sim')
    BY <1>1, FitIs DEF Onward
  <2> QED BY <1>0, <1>1, <2>1, <2>2 DEF Onward, ControlTyped, SimTyped, Fit
<1>2. ASSUME JobStage', pc' = 1
      PROVE  Calling' => pc' \in 1..Len(Steps900')
  <2>1. SUFFICES ASSUME Calling' PROVE 1 \in 1..Len(Steps900')
    BY <1>2
  <2>2. stage' \in Stages \cup {"quit"}
    BY <1>2, <2>1, ModemAssumption DEF JobStage, Calling, Sessions, Stages
  <2>3. Len(Steps900') \in Nat \ {0}
    BY <2>2, HasSteps DEF Steps900
  <2> QED BY <2>3
<1>3. CASE \E ok \in BOOLEAN : Returned(ok, s)
  <2>1. /\ pc' = 1 /\ try' = 0 /\ served' \in BOOLEAN /\ good' \in BOOLEAN
        /\ ready' \subseteq Sessions
        /\ JobStage' /\ (sim' = M!Off \/ Like(s, sim'))
    BY <1>3 DEF Returned
  <2>2. Fit(sim')
    BY <2>1, FitIs DEF Like, Fit
  <2> QED BY <1>2, <2>1, <2>2 DEF ControlTyped, SimTyped, Fit
<1>4. CASE stage = "init" /\ Restarted /\ sim' = M!Off
  <2>1. /\ pc' = 1 /\ try' = 0 /\ served' \in BOOLEAN /\ good' \in BOOLEAN
        /\ ready' \subseteq Sessions
        /\ job' = "boot" /\ stage' = "init"
    BY <1>0, <1>4, RestartIs
  <2>2. JobStage'
    BY <2>1 DEF JobStage
  <2> QED BY <1>2, <1>4, <2>1, <2>2, FitIs DEF ControlTyped, SimTyped, Fit
<1> QED BY <1>1, <1>3, <1>4 DEF Moved

\* What may be left of what is on its way when the ring is flushed.
Cut == M!Tok("cut", "")
Keeps(q, n) ==
  /\ q \in Seq(Tokens)
  /\ ~step.soon => n = 0 /\ (q = <<>> \/ (slow /\ q = out))
  /\ step.soon => \/ n = 0 /\ q = out
                  \/ n = 1 /\ out # <<>> /\ (q = Tail(out) \/ q = <<Cut>> \o Tail(out))

LEMMA CutIs == Cut \in Tokens /\ Cut.t = "cut" /\ Cut.v = ""
  BY DEF Cut, M!Tok, Tokens

LEMMA KeptIs ==
  ASSUME out \in Seq(Tokens), NEW k \in Kept
  PROVE  Keeps(k.kept, k.lost)
<1>1. <<>> \in Seq(Tokens)
  OBVIOUS
<1>2. CASE ~step.soon
  <2>1. k = [kept |-> <<>>, lost |-> 0] \/ (slow /\ k = [kept |-> out, lost |-> 0])
    BY <1>2 DEF Kept
  <2>2. k.lost = 0 /\ (k.kept = <<>> \/ (slow /\ k.kept = out))
    BY <2>1
  <2> QED BY <1>1, <1>2, <2>2 DEF Keeps
<1>3. CASE step.soon
  <2> DEFINE c == <<Cut>> \o Tail(out)
  <2>1. \/ k = [kept |-> out, lost |-> 0]
        \/ out # <<>> /\ (k = [kept |-> Tail(out), lost |-> 1] \/ k = [kept |-> c, lost |-> 1])
    <3> HIDE DEF c
    <3>1. c = <<M!Tok("cut", "")>> \o Tail(out)
      BY DEF c, Cut
    <3> QED BY <1>3, <3>1 DEF Kept
  <2>2. out # <<>> => Tail(out) \in Seq(Tokens)
    OBVIOUS
  <2>3. out # <<>> => c \in Seq(Tokens)
    <3>1. <<Cut>> \in Seq(Tokens)
      BY CutIs, OneIsSeq
    <3> HIDE DEF Cut
    <3> QED BY <2>2, <3>1
  <2> HIDE DEF c
  <2>4. \/ k.lost = 0 /\ k.kept = out
        \/ k.lost = 1 /\ out # <<>> /\ (k.kept = Tail(out) \/ k.kept = c)
    BY <2>1
  <2>5. k.kept \in Seq(Tokens)
    BY <2>2, <2>3, <2>4
  <2> QED BY <1>3, <2>4, <2>5 DEF Keeps, c
<1> QED BY <1>2, <1>3

Stays == UNCHANGED <<job, stage, good, pc, ready, served>>

\* put_string and the flush, a text that is recognised or not, and a wait that ends.
Sent(q, r) ==
  /\ r \in M!Replies(sim, step.cmd)
  /\ out' = IF step.cmd = "TOGGLE" THEN <<>> ELSE q \o r[2]
  /\ slow' \in BOOLEAN /\ (slow' <=> slow /\ q # <<>>)
  /\ \/ /\ step.wait = "nothing" /\ ~waiting'
        /\ Moved("sent", IF step.cmd = "TOGGLE" THEN M!On ELSE r[1])
     \/ step.wait # "nothing" /\ waiting' /\ try' = try + 1 /\ sim' = r[1] /\ Stays

LEMMA SendIs ==
  ASSUME Typed, Send
  PROVE  /\ Calling /\ ~waiting /\ waiting' \in BOOLEAN
         /\ UNCHANGED <<buf, clock, late, resets>>
         /\ CountRefused
         /\ \E q, r : /\ Sent(q, r)
                      /\ \E n \in {0, 1} : Keeps(q, n) /\ lost' = lost + n
<1>1. Calling /\ ~waiting /\ UNCHANGED <<buf, clock, late, resets>> /\ CountRefused
  BY DEF Send
<1>2. PICK k \in Kept, r \in M!Replies(sim, step.cmd) :
       /\ out' = (IF step.cmd = "TOGGLE" THEN <<>> ELSE k.kept \o r[2])
       /\ slow' = (slow /\ k.kept # <<>>)
       /\ lost' = lost + k.lost
       /\ IF step.wait = "nothing"
          THEN /\ Move("sent", IF step.cmd = "TOGGLE" THEN M!On ELSE r[1])
               /\ UNCHANGED waiting
          ELSE /\ waiting' = TRUE /\ try' = try + 1 /\ sim' = r[1]
               /\ UNCHANGED <<job, stage, good, boots, pc, turn, ready, served>>
  BY Zenon DEF Send
<1>3. Keeps(k.kept, k.lost) /\ k.lost \in {0, 1}
  BY KeptIs DEF Typed, AnswerTyped, Keeps
<1>4. Fit(r[1]) /\ Fit(M!On)
  BY FitIs, FitReplies DEF Typed
<1> DEFINE s == IF step.cmd = "TOGGLE" THEN M!On ELSE r[1]
<1>5. s \in Sims
  BY <1>4 DEF Fit
<1> HIDE DEF s
<1>6. CASE step.wait = "nothing"
  <2>1. Move("sent", s) /\ ~waiting'
    BY <1>1, <1>2, <1>6 DEF s
  <2>2. Moved("sent", s)
    BY <1>1, <1>5, <2>1, MoveIs DEF Typed, ControlTyped
  <2>3. Sent(k.kept, r)
    BY <1>2, <1>6, <2>1, <2>2 DEF Sent, s, Typed, AnswerTyped
  <2>4. waiting' \in BOOLEAN
    BY <1>2, <1>6 DEF Typed, WaitTyped
  <2> QED BY <1>1, <1>2, <1>3, <2>3, <2>4
<1>7. CASE step.wait # "nothing"
  <2>1. waiting' = TRUE /\ try' = try + 1 /\ sim' = r[1] /\ Stays
    BY <1>2, <1>7 DEF Stays
  <2>2. Sent(k.kept, r)
    BY <1>2, <1>7, <2>1 DEF Sent, Typed, AnswerTyped
  <2> QED BY <1>1, <1>2, <1>3, <2>1, <2>2
<1> QED BY <1>6, <1>7

LEMMA HearIs ==
  ASSUME Typed, Hear
  PROVE  /\ Calling /\ waiting /\ waiting' \in BOOLEAN /\ out # <<>>
         /\ UNCHANGED <<late, lost, resets>>
         /\ CountRefused
         /\ out' = RestOf(Head(out))
         /\ slow' \in BOOLEAN /\ (slow' <=> slow /\ Len(out) > 1)
         /\ \/ Heard(Head(out)) = "" /\ Stays /\ UNCHANGED <<try, waiting, sim, clock>>
            \/ /\ Heard(Head(out)) # "" /\ ~waiting' /\ Moved(Heard(Head(out)), sim)
               /\ clock' = IF SetsClock(Heard(Head(out)))
                           THEN IF Heard(Head(out)) = "body" THEN "server" ELSE "wrong"
                           ELSE clock
<1> DEFINE t == Head(out)  o == Heard(t)
<1>1. /\ waiting /\ out # <<>> /\ out' = RestOf(t) /\ slow' = (slow /\ Len(out) > 1)
      /\ CountRefused
      /\ UNCHANGED <<late, lost, resets>>
  BY DEF Hear, faults
<1>2. Calling
  BY <1>1 DEF Typed, WaitTyped
<1>3. slow' \in BOOLEAN /\ (slow' <=> slow /\ Len(out) > 1)
  BY <1>1 DEF Typed, AnswerTyped
<1>4. CASE o = ""
  <2>1. UNCHANGED <<control, waiting, buf, sim, ready, history>>
    BY <1>4 DEF Hear
  <2>2. Stays /\ UNCHANGED <<try, waiting, sim, clock>>
    BY <2>1 DEF control, history, Stays
  <2>3. waiting' \in BOOLEAN
    BY <2>2 DEF Typed, WaitTyped
  <2> QED BY <1>1, <1>2, <1>3, <1>4, <2>2, <2>3
<1>5. CASE o # ""
  <2>1. /\ waiting' = FALSE /\ Move(o, sim)
        /\ clock' = (IF SetsClock(o) THEN IF o = "body" THEN "server" ELSE "wrong" ELSE clock)
    BY <1>5, Zenon DEF Hear
  <2>2. Moved(o, sim)
    BY <1>2, <2>1, MoveIs DEF Typed, ControlTyped, SimTyped
  <2> QED BY <1>1, <1>2, <1>3, <1>5, <2>1, <2>2
<1> QED BY <1>4, <1>5

LEMMA TimeOutIs ==
  ASSUME Typed, TimeOut
  PROVE  /\ Calling /\ waiting /\ ~waiting' /\ waiting' \in BOOLEAN
         /\ UNCHANGED <<out, clock, lost, resets>>
         /\ CountRefused
         /\ \/ out = <<>> /\ ~slow' /\ late' = late
            \/ out # <<>> /\ slow' /\ late < MaxLate /\ late' = late + 1
         /\ slow' \in BOOLEAN
         /\ \/ try < step.tries /\ Stays /\ UNCHANGED <<try, sim>>
            \/ ~(try < step.tries) /\ Moved("none", sim)
<1>1. waiting /\ waiting' = FALSE /\ UNCHANGED <<out, clock, lost, resets>> /\ CountRefused
      /\ slow' = (out # <<>>) /\ (out = <<>> \/ late < MaxLate)
      /\ late' = (IF out = <<>> THEN late ELSE late + 1)
  BY DEF TimeOut
<1>2. Calling
  BY <1>1 DEF Typed, WaitTyped
<1>3. CASE try < step.tries
  <2>1. UNCHANGED <<control, sim, ready, served>>
    BY <1>3 DEF TimeOut
  <2>2. Stays /\ UNCHANGED <<try, sim>>
    BY <2>1 DEF control, Stays
  <2> QED BY <1>1, <1>2, <1>3, <2>2
<1>4. CASE ~(try < step.tries)
  <2>1. Move("none", sim)
    BY <1>4, Zenon DEF TimeOut
  <2>2. Moved("none", sim)
    BY <1>2, <2>1, MoveIs DEF Typed, ControlTyped, SimTyped
  <2> QED BY <1>1, <1>2, <1>4, <2>2
<1> QED BY <1>3, <1>4

\* A task begins.
LEMMA StartIs ==
  ASSUME Typed, Start
  PROVE  /\ ~Calling /\ ~waiting /\ waiting' = waiting
         /\ pc' = 1 /\ try' = 0 /\ JobStage' /\ stage' \in {"open", "post"} \cup Others
         /\ good' /\ good' \in BOOLEAN /\ served' \in BOOLEAN /\ ready' \subseteq Sessions
         /\ (served' <=> served /\ stage' = "read")
         /\ Like(sim, sim')
         /\ UNCHANGED <<out, slow, clock, refused, late, lost, resets>>
<1>1. /\ ~Calling /\ good' = TRUE
      /\ UNCHANGED <<waiting, out, slow, clock, refused, late, lost, resets>>
  BY DEF Start, faults
<1>2. served \in BOOLEAN /\ ready \subseteq Sessions /\ sim \in Sims /\ ~waiting
  BY <1>1 DEF Typed, ControlTyped, SimTyped, WaitTyped
<1>3. Like(sim, sim)
  BY <1>2 DEF Like
<1>4. ASSUME NEW j, NEW st, Begins(j, st)
      PROVE  /\ job' = j /\ stage' = st /\ pc' = 1 /\ try' = 0
             /\ served' \in BOOLEAN /\ (served' <=> served /\ stage' = "read")
  BY <1>2, <1>4, BeginsIs
<1>5. CASE \E j \in {"sync", "RT", "cmd"} : Begins(j, "open") /\ UNCHANGED <<sim, ready>>
  <2>1. PICK j \in {"sync", "RT", "cmd"} : Begins(j, "open") /\ UNCHANGED <<sim, ready>>
    BY <1>5
  <2>2. JobStage'
    BY <1>4, <2>1 DEF JobStage, Sessions
  <2>3. Like(sim, sim')
    BY <1>3, <2>1
  <2> QED BY <1>1, <1>2, <1>4, <2>1, <2>2, <2>3
<1>6. CASE \E s \in ready : Begins(s, "post") /\ sim' = Enter(sim, "post") /\ ready' = ready \ {s}
  <2>1. PICK s \in ready : Begins(s, "post") /\ sim' = Enter(sim, "post") /\ ready' = ready \ {s}
    BY <1>6
  <2>2. JobStage'
    BY <1>2, <1>4, <2>1 DEF JobStage
  <2>3. Like(sim, sim')
    BY <1>2, <2>1, EnterIs
  <2> QED BY <1>1, <1>2, <1>4, <2>1, <2>2, <2>3
<1>7. CASE \E c \in Others : Begins("other", c) /\ UNCHANGED <<sim, ready>>
  <2>1. PICK c \in Others : Begins("other", c) /\ UNCHANGED <<sim, ready>>
    BY <1>7
  <2>2. JobStage'
    BY <1>4, <2>1 DEF JobStage
  <2>3. Like(sim, sim')
    BY <1>3, <2>1
  <2> QED BY <1>1, <1>2, <1>4, <2>1, <2>2, <2>3
<1> QED BY <1>5, <1>6, <1>7 DEF Start

\* The HTTP request ends.
Acted(st) ==
  /\ out' = Append(out, M!Tok("+HTTPACTION:", st))
  /\ st = "200" => sim.bearer = "connected"
  /\ served' \in BOOLEAN
  /\ (served' <=> served \/ (sim.action = "POST" /\ sim.data = "new" /\ st = "200"))

LEMMA ActionEndsIs ==
  ASSUME Typed, ActionEnds
  PROVE  /\ sim.action # "none" /\ \E st \in {"200", "404"} : Acted(st)
         /\ sim' \in Sims /\ (sim'.on <=> sim.on) /\ (sim'.http <=> sim.http)
         /\ (sim'.load <=> sim.load) /\ sim'.data = sim.data /\ sim'.action = "none"
         /\ UNCHANGED <<job, stage, good, pc, try, waiting, slow, ready, clock, refused,
                        late, lost, resets>>
<1>1. sim \in Sims /\ served \in BOOLEAN
  BY DEF Typed, SimTyped, ControlTyped
<1>2. sim' = [sim EXCEPT !.action = "none"]
  BY DEF ActionEnds
<1>3. /\ sim' \in Sims /\ (sim'.on <=> sim.on) /\ (sim'.http <=> sim.http)
      /\ (sim'.load <=> sim.load) /\ sim'.data = sim.data /\ sim'.action = "none"
  BY <1>1, <1>2 DEF Sims
<1>4. \E st \in {"200", "404"} : Acted(st)
  BY <1>1 DEF ActionEnds, Acted
<1> QED BY <1>3, <1>4 DEF ActionEnds, control, faults

\* The network, and AT+HTTPDATA after its thirty seconds.
LEMMA ModemIs ==
  ASSUME Typed, Modem
  PROVE  /\ UNCHANGED <<job, stage, good, pc, try, waiting, slow, ready, served, clock,
                        refused, late, lost, resets>>
         /\ \/ Same(sim, sim') /\ out' = out
            \/ /\ sim.load /\ ~(stage = "post" /\ step.cmd \in {"HTTPDATA", "DATA"})
               /\ sim' \in Sims /\ (sim'.on <=> sim.on) /\ (sim'.http <=> sim.http)
               /\ ~sim'.load /\ sim'.action = sim.action
               /\ out' = Append(out, M!OK)
<1>1. sim \in Sims
  BY DEF Typed, SimTyped
<1>2. CASE sim' \in M!Drifts(sim) /\ out' = out
           /\ UNCHANGED <<control, waiting, buf, out, slow, ready, history, refused, faults>>
  <2>1. \E b \in {"connecting", "connected", "closing", "closed"} : sim' = [sim EXCEPT !.bearer = b]
    BY <1>2 DEF M!Drifts
  <2>2. Same(sim, sim')
    BY <1>1, <2>1, SameIs
  <2> QED BY <1>2, <2>2 DEF control, history, faults
<1>3. CASE /\ ~(stage = "post" /\ step.cmd \in {"HTTPDATA", "DATA"})
           /\ sim' \in M!LoadEnds(sim)
           /\ out' = Append(out, M!OK)
           /\ UNCHANGED <<control, waiting, buf, slow, ready, history, refused, faults>>
  <2>1. sim.load /\ sim' = [sim EXCEPT !.load = FALSE, !.data = "old"]
    BY <1>3 DEF M!LoadEnds
  <2>2. /\ sim' \in Sims /\ (sim'.on <=> sim.on) /\ (sim'.http <=> sim.http)
        /\ ~sim'.load /\ sim'.action = sim.action
    BY <1>1, <2>1 DEF Sims
  <2> QED BY <1>3, <2>1, <2>2 DEF control, history, faults
<1> QED BY <1>2, <1>3 DEF Modem

LEMMA ModemResetsIs ==
  ASSUME ModemResets
  PROVE  /\ sim' = M!Off /\ out' = <<>> /\ ~slow' /\ slow' \in BOOLEAN
         /\ resets' = resets + 1 /\ refused' = 0
         /\ UNCHANGED <<job, stage, good, pc, try, waiting, ready, served, clock, late, lost>>
<1>1. ~sim'.http
  BY OffOn DEF ModemResets
<1> QED BY <1>1 DEF ModemResets, CountRefused, control, history

LEMMA ControllerResetsIs ==
  ASSUME Typed, ControllerResets
  PROVE  /\ pc' = 1 /\ try' = 0 /\ job' = "boot" /\ stage' = "init"
         /\ ~waiting' /\ waiting' \in BOOLEAN
         /\ served' \in BOOLEAN /\ (served' <=> served /\ stage' = "read")
         /\ good' \in BOOLEAN /\ ready' \subseteq Sessions
         /\ resets' = resets + 1
         /\ UNCHANGED <<sim, out, slow, clock, refused, late, lost>>
<1>1. served \in BOOLEAN
  BY DEF Typed, ControlTyped
<1>2. Restarted
  BY DEF ControllerResets
<1>3. /\ pc' = 1 /\ try' = 0 /\ job' = "boot" /\ stage' = "init"
      /\ served' \in BOOLEAN /\ (served' <=> served /\ stage' = "read")
      /\ good' \in BOOLEAN /\ ready' \subseteq Sessions
  BY <1>1, <1>2, RestartIs
<1> QED BY <1>3 DEF ControllerResets

-----------------------------------------------------------------------------
(***************************************************************************)
(* The texts on their way, as a set.                                       *)
(***************************************************************************)

Held(q) == {q[i] : i \in 1..Len(q)}

LEMMA HeldIs ==
  ASSUME NEW T
  PROVE  /\ Held(<<>>) = {}
         /\ \A e \in T : Held(<<e>>) = {e}
         /\ \A q \in Seq(T) : Held(q) \subseteq T
         /\ \A q \in Seq(T) : \A r \in Seq(T) : Held(q \o r) = Held(q) \cup Held(r)
         /\ \A q \in Seq(T) : \A e \in T : Append(q, e) \in Seq(T) /\ Held(Append(q, e)) = Held(q) \cup {e}
         /\ \A q \in Seq(T) : q # <<>> =>
              /\ Head(q) \in T /\ Tail(q) \in Seq(T)
              /\ Held(q) = {Head(q)} \cup Held(Tail(q))
<1>1. Held(<<>>) = {}
  BY DEF Held
<1>2. \A e \in T : Held(<<e>>) = {e}
  BY DEF Held
<1>3. \A q \in Seq(T) : Held(q) \subseteq T
  BY DEF Held
<1>4. ASSUME NEW q \in Seq(T), NEW r \in Seq(T)
      PROVE  Held(q \o r) = Held(q) \cup Held(r)
  <2>1. Len(q \o r) = Len(q) + Len(r) /\ Len(q) \in Nat /\ Len(r) \in Nat
    OBVIOUS
  <2>2. \A i \in 1..Len(q) : (q \o r)[i] = q[i]
    OBVIOUS
  <2>3. \A i \in 1..Len(r) : (q \o r)[Len(q) + i] = r[i]
    OBVIOUS
  <2> DEFINE w == q \o r
  <2> HIDE DEF w
  <2>4. \A i \in 1..Len(q) : w[i] = q[i]
    BY <2>2 DEF w
  <2>5. \A i \in 1..Len(r) : w[Len(q) + i] = r[i]
    BY <2>3 DEF w
  <2>6. Len(w) = Len(q) + Len(r)
    BY <2>1 DEF w
  <2>7. Held(w) \subseteq Held(q) \cup Held(r)
    <3> SUFFICES ASSUME NEW i \in 1..Len(w) PROVE w[i] \in Held(q) \cup Held(r)
      BY DEF Held
    <3>1. CASE i \in 1..Len(q)
      BY <2>4, <3>1 DEF Held
    <3>2. CASE i \notin 1..Len(q)
      <4>1. i - Len(q) \in 1..Len(r) /\ Len(q) + (i - Len(q)) = i
        BY <2>1, <2>6, <3>2
      <4> QED BY <2>5, <4>1 DEF Held
    <3> QED BY <3>1, <3>2
  <2>8. Held(q) \subseteq Held(w)
    BY <2>1, <2>4, <2>6 DEF Held
  <2>9. Held(r) \subseteq Held(w)
    <3> SUFFICES ASSUME NEW i \in 1..Len(r) PROVE r[i] \in Held(w)
      BY DEF Held
    <3>1. Len(q) + i \in 1..Len(w)
      BY <2>1, <2>6
    <3> QED BY <2>5, <3>1 DEF Held
  <2> QED BY <2>7, <2>8, <2>9 DEF w
<1>5. ASSUME NEW q \in Seq(T), NEW e \in T
      PROVE  Append(q, e) \in Seq(T) /\ Held(Append(q, e)) = Held(q) \cup {e}
  <2>1. Append(q, e) = q \o <<e>> /\ <<e>> \in Seq(T) /\ Append(q, e) \in Seq(T)
    OBVIOUS
  <2> QED BY <1>2, <1>4, <2>1
<1>6. ASSUME NEW q \in Seq(T), q # <<>>
      PROVE  /\ Head(q) \in T /\ Tail(q) \in Seq(T)
             /\ Held(q) = {Head(q)} \cup Held(Tail(q))
  <2>1. Head(q) \in T /\ Tail(q) \in Seq(T) /\ <<Head(q)>> \in Seq(T)
    BY <1>6
  <2>2. q = <<Head(q)>> \o Tail(q)
    BY <1>6
  <2>3. Held(<<Head(q)>> \o Tail(q)) = Held(<<Head(q)>>) \cup Held(Tail(q))
    BY <1>4, <2>1
  <2> QED BY <1>2, <2>1, <2>2, <2>3
<1> QED BY <1>1, <1>2, <1>3, <1>4, <1>5, <1>6

LEMMA HeldConcat ==
  ASSUME NEW T, NEW q \in Seq(T), NEW r \in Seq(T)
  PROVE  q \o r \in Seq(T) /\ Held(q \o r) = Held(q) \cup Held(r)
  BY HeldIs

LEMMA HeldAppend ==
  ASSUME NEW T, NEW q \in Seq(T), NEW e \in T
  PROVE  Append(q, e) \in Seq(T) /\ Held(Append(q, e)) = Held(q) \cup {e}
  BY HeldIs

\* What a flush may keep is what was there, or the rest of a line.
LEMMA KeepsHeld ==
  ASSUME out \in Seq(Tokens), NEW q, NEW n, Keeps(q, n)
  PROVE  q \in Seq(Tokens) /\ Held(q) \subseteq Held(out) \cup {Cut}
<1>1. q \in Seq(Tokens)
  BY DEF Keeps
<1>2. CASE q = <<>> \/ q = out
  BY <1>1, <1>2, HeldIs
<1>3. CASE out # <<>> /\ q = Tail(out)
  BY <1>1, <1>3, HeldIs
<1>4. CASE out # <<>> /\ q = <<Cut>> \o Tail(out)
  <2> DEFINE c == <<Cut>>  u == Tail(out)
  <2>1. u \in Seq(Tokens) /\ Held(u) \subseteq Held(out)
    BY <1>4, HeldIs
  <2>2. c \in Seq(Tokens) /\ Held(c) = {Cut}
    BY CutIs, OneIsSeq, HeldIs
  <2> HIDE DEF c
  <2> HIDE DEF u
  <2>3. Held(c \o u) = Held(c) \cup Held(u)
    BY <2>1, <2>2, HeldConcat
  <2>4. q = c \o u
    BY <1>4 DEF c, u
  <2> QED BY <1>1, <2>1, <2>2, <2>3, <2>4
<1> QED BY <1>1, <1>2, <1>3, <1>4 DEF Keeps

LEMMA RestIs ==
  ASSUME out \in Seq(Tokens), out # <<>>
  PROVE  /\ RestOf(Head(out)) \in Seq(Tokens)
         /\ Held(RestOf(Head(out))) \subseteq Held(Tail(out)) \cup {M!Tok("line", Head(out).v)}
         /\ (Heard(Head(out)) # "match" \/ step.wait \notin {"+HTTPACTION:", "+HTTPREAD:"})
              => RestOf(Head(out)) = Tail(out)
         /\ (Heard(Head(out)) = "match" /\ step.wait \in {"+HTTPACTION:", "+HTTPREAD:"})
              => RestOf(Head(out)) = <<M!Tok("line", Head(out).v)>> \o Tail(out)
         /\ M!Tok("line", Head(out).v) \in Tokens
<1> DEFINE e == M!Tok("line", Head(out).v)  u == Tail(out)
<1>1. Head(out) \in Tokens /\ u \in Seq(Tokens)
  BY HeldIs
<1>2. e \in Tokens
  BY <1>1 DEF Tokens, M!Tok
<1>3. <<e>> \in Seq(Tokens) /\ Held(<<e>>) = {e}
  BY <1>2, OneIsSeq, HeldIs
<1> HIDE DEF e, u
<1>4. <<e>> \o u \in Seq(Tokens) /\ Held(<<e>> \o u) = {e} \cup Held(u)
  <2> DEFINE c == <<e>>
  <2>1. c \in Seq(Tokens) /\ Held(c) = {e}
    BY <1>3
  <2> HIDE DEF c
  <2>2. c \o u \in Seq(Tokens) /\ Held(c \o u) = Held(c) \cup Held(u)
    BY <1>1, <2>1, HeldConcat
  <2> QED BY <2>1, <2>2 DEF c
<1>5. <<>> \o u = u
  BY <1>1
<1>6. RestOf(Head(out)) = (IF step.wait \in {"+HTTPACTION:", "+HTTPREAD:"} /\ Heard(Head(out)) = "match"
                           THEN <<e>> ELSE <<>>) \o u
  BY DEF RestOf, e, u
<1>7. CASE step.wait \in {"+HTTPACTION:", "+HTTPREAD:"} /\ Heard(Head(out)) = "match"
  <2>1. RestOf(Head(out)) = <<e>> \o u
    BY <1>6, <1>7
  <2> QED BY <1>2, <1>4, <1>7, <2>1 DEF e, u
<1>8. CASE ~(step.wait \in {"+HTTPACTION:", "+HTTPREAD:"} /\ Heard(Head(out)) = "match")
  <2>1. RestOf(Head(out)) = u
    BY <1>5, <1>6, <1>8
  <2> QED BY <1>1, <1>2, <1>8, <2>1 DEF e, u
<1> QED BY <1>7, <1>8

-----------------------------------------------------------------------------
LEMMA TypedInit == Init => Typed
<1> SUFFICES ASSUME Init PROVE Typed
  OBVIOUS
<1>1. JobStage /\ Calling /\ stage = "init"
  BY DEF Init, JobStage, Calling
<1>2. pc \in 1..Len(Steps900)
  <2>1. Steps900 = Init900
    BY <1>1, StageTables DEF Steps900
  <2> QED BY <2>1, InitSteps DEF Init
<1>3. SimTyped
  BY FitIs DEF Init, SimTyped, Fit
<1>4. out \in Seq(Tokens)
  BY DEF Init
<1>5. ControlTyped /\ WaitTyped
  BY <1>1, <1>2 DEF Init, ControlTyped, WaitTyped
<1>6. AnswerTyped
  <2>1. ~slow /\ slow \in BOOLEAN /\ late = 0 /\ lost = 0 /\ resets = 0
    BY DEF Init
  <2> QED BY <1>4, <2>1, ModemAssumption DEF AnswerTyped
<1> QED BY <1>3, <1>5, <1>6 DEF Typed

LEMMA TypedSend == Typed /\ Send => Typed'
<1> SUFFICES ASSUME Typed, Send PROVE Typed'
  OBVIOUS
<1>1. PICK q, r : Sent(q, r) /\ \E n \in {0, 1} : Keeps(q, n) /\ lost' = lost + n
  BY SendIs
<1>2. Calling /\ ~waiting /\ waiting' \in BOOLEAN /\ UNCHANGED <<buf, clock, late, resets>>
  BY SendIs
<1>3. Fit(r[1]) /\ r[2] \in Seq(Tokens) /\ Fit(M!On)
  BY <1>1, FitIs, FitReplies DEF Sent, Typed
<1>4. AnswerTyped'
  <2>1. q \in Seq(Tokens)
    BY <1>1, KeepsHeld DEF Typed, AnswerTyped
  <2>2. q \o r[2] \in Seq(Tokens)
    BY <1>3, <2>1
  <2>3. out' \in Seq(Tokens)
    BY <1>1, <2>2 DEF Sent
  <2> QED BY <1>1, <1>2, <2>3 DEF Sent, Typed, AnswerTyped
<1>5. CASE step.wait = "nothing" /\ ~waiting'
           /\ Moved("sent", IF step.cmd = "TOGGLE" THEN M!On ELSE r[1])
  <2>1. Fit(IF step.cmd = "TOGGLE" THEN M!On ELSE r[1])
    BY <1>3
  <2>2. ControlTyped' /\ SimTyped'
    BY <1>2, <1>5, <2>1, MovedTyped DEF Typed
  <2> QED BY <1>2, <1>4, <1>5, <2>2 DEF Typed, WaitTyped
<1>6. CASE step.wait # "nothing" /\ waiting' /\ try' = try + 1 /\ sim' = r[1] /\ Stays
  <2>1. ControlTyped' /\ try' >= 1 /\ Calling'
    BY <1>2, <1>6 DEF Stays, Typed, ControlTyped, JobStage, Calling, Steps900
  <2>2. SimTyped'
    BY <1>3, <1>6 DEF SimTyped, Fit
  <2>3. ~(stage = "init" /\ pc = 1)
    <3>1. SUFFICES ASSUME stage = "init", pc = 1 PROVE step.wait = "nothing"
      BY <1>6
    <3>2. step = Init900[1]
      BY <3>1, StageTables DEF step, Steps900
    <3> QED BY <3>2, InitSteps
  <2> QED BY <1>2, <1>4, <1>6, <2>1, <2>2, <2>3 DEF Typed, WaitTyped, Stays
<1> QED BY <1>1, <1>5, <1>6 DEF Sent

LEMMA TypedHear == Typed /\ Hear => Typed'
<1> SUFFICES ASSUME Typed, Hear PROVE Typed'
  OBVIOUS
<1>1. /\ Calling /\ waiting /\ waiting' \in BOOLEAN /\ out # <<>>
      /\ UNCHANGED <<late, lost, resets>>
      /\ out' = RestOf(Head(out)) /\ slow' \in BOOLEAN /\ (slow' <=> slow /\ Len(out) > 1)
  BY HearIs
<1>2. AnswerTyped'
  BY <1>1, RestIs DEF Typed, AnswerTyped
<1>3. CASE Heard(Head(out)) = "" /\ Stays /\ UNCHANGED <<try, waiting, sim, clock>>
  <2>1. ControlTyped' /\ SimTyped' /\ WaitTyped'
    BY <1>3 DEF Stays, Typed, ControlTyped, SimTyped, WaitTyped, JobStage, Calling, Steps900
  <2> QED BY <1>2, <2>1 DEF Typed
<1>4. CASE ~waiting' /\ Moved(Heard(Head(out)), sim)
  <2>1. ControlTyped' /\ SimTyped'
    BY <1>1, <1>4, MovedTyped, FitIs DEF Typed
  <2> QED BY <1>1, <1>2, <1>4, <2>1 DEF Typed, WaitTyped
<1> QED BY <1>3, <1>4, HearIs

LEMMA TypedTimeOut == Typed /\ TimeOut => Typed'
<1> SUFFICES ASSUME Typed, TimeOut PROVE Typed'
  OBVIOUS
<1>1. /\ Calling /\ ~waiting' /\ waiting' \in BOOLEAN /\ UNCHANGED <<out, clock, lost, resets>>
      /\ \/ out = <<>> /\ ~slow' /\ late' = late
         \/ out # <<>> /\ slow' /\ late < MaxLate /\ late' = late + 1
      /\ slow' \in BOOLEAN
  BY TimeOutIs
<1>2. AnswerTyped'
  BY <1>1, ModemAssumption DEF Typed, AnswerTyped
<1>3. CASE Stays /\ UNCHANGED <<try, sim>>
  <2>1. ControlTyped' /\ SimTyped'
    BY <1>3 DEF Stays, Typed, ControlTyped, SimTyped, JobStage, Calling, Steps900
  <2> QED BY <1>1, <1>2, <2>1 DEF Typed, WaitTyped
<1>4. CASE Moved("none", sim)
  <2>1. ControlTyped' /\ SimTyped'
    BY <1>1, <1>4, MovedTyped, FitIs DEF Typed
  <2> QED BY <1>1, <1>2, <2>1 DEF Typed, WaitTyped
<1> QED BY <1>3, <1>4, TimeOutIs

LEMMA TypedStart == Typed /\ Start => Typed'
<1> SUFFICES ASSUME Typed, Start PROVE Typed'
  OBVIOUS
<1>1. /\ ~waiting /\ waiting' = waiting
      /\ pc' = 1 /\ try' = 0 /\ JobStage' /\ stage' \in {"open", "post"} \cup Others
      /\ good' \in BOOLEAN /\ served' \in BOOLEAN /\ ready' \subseteq Sessions
      /\ Like(sim, sim')
      /\ UNCHANGED <<out, slow, clock, refused, late, lost, resets>>
  BY StartIs
<1>2. Len(Steps900') \in Nat \ {0}
  <2>1. stage' \in Stages \cup {"quit"}
    BY <1>1, ModemAssumption DEF Stages
  <2> QED BY <2>1, HasSteps DEF Steps900
<1>3. ControlTyped'
  BY <1>1, <1>2 DEF ControlTyped
<1>4. SimTyped'
  BY <1>1 DEF Like, Typed, SimTyped
<1> QED BY <1>1, <1>3, <1>4 DEF Typed, WaitTyped, AnswerTyped

LEMMA TypedModem == Typed /\ (ActionEnds \/ Modem \/ ModemResets \/ ControllerResets) => Typed'
<1>1. ASSUME Typed, ActionEnds PROVE Typed'
  <2>1. /\ sim' \in Sims /\ (sim'.on <=> sim.on) /\ (sim'.http <=> sim.http)
        /\ (sim'.load <=> sim.load) /\ sim'.action = "none"
        /\ UNCHANGED <<job, stage, good, pc, try, waiting, slow, ready, late, lost, resets>>
    BY <1>1, ActionEndsIs
  <2>2. PICK st \in {"200", "404"} : Acted(st)
    BY <1>1, ActionEndsIs
  <2>3. M!Tok("+HTTPACTION:", st) \in Tokens
    BY DEF M!Tok, Tokens
  <2>4. out' \in Seq(Tokens) /\ served' \in BOOLEAN
    BY <1>1, <2>2, <2>3, HeldAppend DEF Acted, Typed, AnswerTyped
  <2>5. SimTyped'
    BY <1>1, <2>1 DEF Typed, SimTyped
  <2>6. ControlTyped'
    BY <1>1, <2>1, <2>4 DEF Typed, ControlTyped, JobStage, Calling, Steps900
  <2>7. WaitTyped'
    BY <1>1, <2>1 DEF Typed, WaitTyped, Calling
  <2> QED BY <1>1, <2>1, <2>4, <2>5, <2>6, <2>7 DEF Typed, AnswerTyped
<1>2. ASSUME Typed, Modem PROVE Typed'
  <2>1. UNCHANGED <<job, stage, good, pc, try, waiting, slow, ready, served, late, lost, resets>>
    BY <1>2, ModemIs
  <2>2. \/ Same(sim, sim') /\ out' = out
        \/ /\ sim.load
           /\ sim' \in Sims /\ (sim'.on <=> sim.on) /\ (sim'.http <=> sim.http)
           /\ ~sim'.load /\ sim'.action = sim.action
           /\ out' = Append(out, M!OK)
    BY <1>2, ModemIs
  <2>3. out' \in Seq(Tokens)
    <3> DEFINE e == M!OK
    <3>1. e \in Tokens /\ out \in Seq(Tokens)
      BY <1>2, OkIs DEF Typed, AnswerTyped
    <3>2. out' = out \/ out' = Append(out, e)
      BY <2>2
    <3> HIDE DEF e
    <3> QED BY <3>1, <3>2, HeldAppend
  <2>4. SimTyped'
    BY <1>2, <2>2 DEF Typed, SimTyped, Same
  <2>5. ControlTyped'
    BY <1>2, <2>1 DEF Typed, ControlTyped, JobStage, Calling, Steps900
  <2>6. WaitTyped'
    BY <1>2, <2>1 DEF Typed, WaitTyped, Calling
  <2> QED BY <1>2, <2>1, <2>3, <2>4, <2>5, <2>6 DEF Typed, AnswerTyped
<1>3. ASSUME Typed, ModemResets PROVE Typed'
  <2>1. /\ sim' = M!Off /\ out' = <<>> /\ ~slow' /\ slow' \in BOOLEAN /\ resets' = resets + 1
        /\ UNCHANGED <<job, stage, good, pc, try, waiting, ready, served, late, lost>>
    BY <1>3, ModemResetsIs
  <2>2. SimTyped'
    BY <2>1, FitIs DEF SimTyped, Fit
  <2>3. ControlTyped'
    BY <1>3, <2>1 DEF Typed, ControlTyped, JobStage, Calling, Steps900
  <2>4. WaitTyped'
    BY <1>3, <2>1 DEF Typed, WaitTyped, Calling
  <2>5. out' \in Seq(Tokens)
    BY <2>1
  <2> QED BY <1>3, <2>1, <2>2, <2>3, <2>4, <2>5 DEF Typed, AnswerTyped
<1>4. ASSUME Typed, ControllerResets PROVE Typed'
  <2>1. /\ pc' = 1 /\ try' = 0 /\ job' = "boot" /\ stage' = "init"
        /\ ~waiting' /\ waiting' \in BOOLEAN /\ served' \in BOOLEAN
        /\ good' \in BOOLEAN /\ ready' \subseteq Sessions
        /\ resets' = resets + 1
        /\ UNCHANGED <<sim, out, slow, clock, refused, late, lost>>
    BY <1>4, ControllerResetsIs
  <2>2. Len(Steps900') \in Nat \ {0}
    <3>1. stage' \in Stages \cup {"quit"}
      BY <2>1 DEF Stages
    <3> QED BY <3>1, HasSteps DEF Steps900
  <2>3. ControlTyped'
    BY <2>1, <2>2 DEF ControlTyped, JobStage
  <2> QED BY <1>4, <2>1, <2>3 DEF Typed, WaitTyped, SimTyped, AnswerTyped
<1> QED BY <1>1, <1>2, <1>3, <1>4

LEMMA TypedNext == Typed /\ [Next]_vars => Typed'
<1>1. ASSUME Typed, UNCHANGED vars PROVE Typed'
  <2>1. UNCHANGED <<job, stage, good, pc, try, waiting, sim, out, slow, ready, served, late, lost, resets>>
    BY <1>1 DEF vars, control, history, faults
  <2> QED BY <1>1, <2>1
          DEF Typed, ControlTyped, WaitTyped, SimTyped, AnswerTyped, JobStage, Calling, Steps900
<1> QED BY <1>1, TypedSend, TypedHear, TypedTimeOut, TypedStart, TypedModem DEF Next

-----------------------------------------------------------------------------
(***************************************************************************)
(* The steps of an upload.                                                 *)
(***************************************************************************)

InPost == job \in Sessions /\ stage = "post"

LEMMA FormSays ==
  ASSUME NEW p, NEW cmd, NEW wait, NEW tries, NEW pass, Form(p, cmd, wait, tries, pass)
  PROVE  p.cmd = cmd /\ p.wait = wait /\ p.tries = tries /\ DOMAIN p.to = pass
  BY ToIs DEF Form

LEMMA PostIs ==
  ASSUME ControlTyped, stage = "post"
  PROVE  /\ InPost /\ Calling /\ Len(Steps900) = 9
         /\ pc \in {1, 2, 3, 4, 5, 6, 7, 8, 9} /\ step = HttpPost[pc]
<1>1. job \in Sessions /\ Calling
  BY ModemAssumption DEF ControlTyped, JobStage, Calling, Sessions
<1>2. Steps900 = HttpPost
  BY StageTables DEF Steps900
<1>3. Len(Steps900) = 9 /\ pc \in 1..9
  BY <1>1, <1>2, PostSteps DEF ControlTyped
<1> QED BY <1>1, <1>2, <1>3 DEF InPost, step

LEMMA PostStepIs ==
  ASSUME ControlTyped, stage = "post"
  PROVE  /\ pc = 1 => step.cmd = "AT" /\ step.wait = "return"
         /\ pc = 2 => /\ step.cmd = "HTTPINIT" /\ step.wait = "return" /\ step.tries = 2
                      /\ DOMAIN step.to = {"OK"}
         /\ pc = 3 => /\ step.cmd = "CID" /\ step.wait = "return" /\ DOMAIN step.to = {"OK"}
         /\ pc = 4 => /\ step.cmd = "URL" /\ step.wait = "return"
         /\ pc = 5 => /\ step.cmd = "HTTPDATA" /\ step.wait = "DOWNLOAD" /\ step.tries = 1
                      /\ DOMAIN step.to = {"match"}
         /\ pc = 6 => /\ step.cmd = "DATA" /\ step.wait = "return" /\ step.tries = 1
                      /\ DOMAIN step.to = AnyReturn
         /\ pc = 7 => /\ step.cmd = "POST" /\ step.wait = "return" /\ step.tries = 2
                      /\ DOMAIN step.to = {"OK"}
         /\ pc = 8 => /\ step.cmd = "" /\ step.wait = "+HTTPACTION:" /\ step.tries = 3
                      /\ DOMAIN step.to = {"match"}
         /\ pc = 9 => /\ step.cmd = "" /\ step.wait = "line" /\ step.tries = 1
                      /\ DOMAIN step.to = {"200"}
         /\ pc <= 7 <=> ~step.soon
<1>0. step = HttpPost[pc] /\ pc \in {1, 2, 3, 4, 5, 6, 7, 8, 9}
  BY PostIs
<1>1. pc = 1 => step.cmd = "AT" /\ step.wait = "return"
  <2>1. pc = 1 => Form(step, "AT", "return", 2, Answered)
    BY <1>0, PostSteps
  <2> QED BY <2>1, FormSays
<1>2. pc = 2 => /\ step.cmd = "HTTPINIT" /\ step.wait = "return" /\ step.tries = 2
                /\ DOMAIN step.to = {"OK"}
  <2>1. pc = 2 => Form(step, "HTTPINIT", "return", 2, {"OK"})
    BY <1>0, PostSteps
  <2> QED BY <2>1, FormSays
<1>3. pc = 3 => /\ step.cmd = "CID" /\ step.wait = "return" /\ DOMAIN step.to = {"OK"}
  <2>1. pc = 3 => Form(step, "CID", "return", 2, {"OK"})
    BY <1>0, PostSteps
  <2> QED BY <2>1, FormSays
<1>4. pc = 4 => /\ step.cmd = "URL" /\ step.wait = "return"
  <2>1. pc = 4 => Form(step, "URL", "return", 1, AnyReturn)
    BY <1>0, PostSteps
  <2> QED BY <2>1, FormSays
<1>5. pc = 5 => /\ step.cmd = "HTTPDATA" /\ step.wait = "DOWNLOAD" /\ step.tries = 1
                /\ DOMAIN step.to = {"match"}
  <2>1. pc = 5 => Form(step, "HTTPDATA", "DOWNLOAD", 1, {"match"})
    BY <1>0, PostSteps
  <2> QED BY <2>1, FormSays
<1>6. pc = 6 => /\ step.cmd = "DATA" /\ step.wait = "return" /\ step.tries = 1
                /\ DOMAIN step.to = AnyReturn
  <2>1. pc = 6 => Form(step, "DATA", "return", 1, AnyReturn)
    BY <1>0, PostSteps
  <2> QED BY <2>1, FormSays
<1>7. pc = 7 => /\ step.cmd = "POST" /\ step.wait = "return" /\ step.tries = 2
                /\ DOMAIN step.to = {"OK"}
  <2>1. pc = 7 => Form(step, "POST", "return", 2, {"OK"})
    BY <1>0, PostSteps
  <2> QED BY <2>1, FormSays
<1>8. pc = 8 => /\ step.cmd = "" /\ step.wait = "+HTTPACTION:" /\ step.tries = 3
                /\ DOMAIN step.to = {"match"}
  <2>1. pc = 8 => Form(step, "", "+HTTPACTION:", 3, {"match"})
    BY <1>0, PostSteps
  <2> QED BY <2>1, FormSays
<1>9. pc = 9 => /\ step.cmd = "" /\ step.wait = "line" /\ step.tries = 1
                /\ DOMAIN step.to = {"200"}
  <2>1. pc = 9 => Form(step, "", "line", 1, {"200"})
    BY <1>0, PostSteps
  <2> QED BY <2>1, FormSays
<1>10. pc <= 7 <=> ~step.soon
  <2>1. /\ ~HttpPost[1].soon /\ ~HttpPost[2].soon /\ ~HttpPost[3].soon /\ ~HttpPost[4].soon
        /\ ~HttpPost[5].soon /\ ~HttpPost[6].soon /\ ~HttpPost[7].soon
        /\ HttpPost[8].soon /\ HttpPost[9].soon
    BY PostSteps
  <2> QED BY <1>0, <2>1
<1> QED BY <1>1, <1>2, <1>3, <1>4, <1>5, <1>6, <1>7, <1>8, <1>9, <1>10

\* An upload waits at every step for an answer.
LEMMA UploadWaits ==
  ASSUME ControlTyped, Calling, stage \in {"post", "read", "term"}
  PROVE  step.wait # "nothing"
<1>1. CASE stage = "post"
  BY <1>1, PostIs, PostStepIs
<1>2. CASE stage = "read"
  <2>1. Steps900 = HttpRead
    BY <1>2, StageTables DEF Steps900
  <2>2. /\ Len(HttpRead) = 3
        /\ HttpRead[1].wait = "+HTTPREAD:" /\ HttpRead[2].wait = "line"
        /\ HttpRead[3].wait = "line"
    <3>1. /\ HttpRead[1] = Text("HTTPREAD", "+HTTPREAD:")
          /\ HttpRead[2] = Soon(Line("", Lines)) /\ HttpRead[3] = Soon(Line("", Lines))
          /\ Len(HttpRead) = 3
      BY DEF HttpRead
    <3>2. /\ Form(HttpRead[1], "HTTPREAD", "+HTTPREAD:", 1, {"match"})
          /\ Form(HttpRead[2], "", "line", 1, Lines) /\ Form(HttpRead[3], "", "line", 1, Lines)
      BY <3>1, FormsAre
    <3>3. HttpRead[1].wait = "+HTTPREAD:"
      BY <3>2, FormSays
    <3>4. HttpRead[2].wait = "line" /\ HttpRead[3].wait = "line"
      BY <3>2 DEF Form
    <3>5. Len(HttpRead) = 3
      BY DEF HttpRead
    <3> QED BY <3>3, <3>4, <3>5
  <2>3. pc = 1 \/ pc = 2 \/ pc = 3
    BY <2>1, <2>2 DEF ControlTyped
  <2> QED BY <2>1, <2>2, <2>3 DEF step
<1>3. CASE stage = "term"
  <2>1. Steps900 = HttpClose
    BY <1>3, StageTables DEF Steps900
  <2>2. pc = 1
    BY <2>1, CloseSteps DEF ControlTyped
  <2> QED BY <2>1, <2>2, CloseSteps DEF step
<1> QED BY <1>1, <1>2, <1>3

LEMMA TermIs ==
  ASSUME ControlTyped, Calling, stage = "term"
  PROVE  step.cmd = "HTTPTERM" /\ pc = 1
<1>1. Steps900 = HttpClose
  BY StageTables DEF Steps900
<1>2. pc = 1
  BY <1>1, CloseSteps DEF ControlTyped
<1> QED BY <1>1, <1>2, CloseSteps DEF step

LEMMA InitFirst == stage = "init" /\ pc = 1 => step.cmd = "TOGGLE" /\ step.wait = "nothing"
  BY StageTables, InitSteps DEF step, Steps900

\* What the answers have to do with the data and with the HTTP service.
LEMMA RepliesLoad ==
  ASSUME NEW s, Fit(s), NEW c, NEW r \in M!Replies(s, c)
  PROVE  /\ c # "HTTPDATA" => (r[1].load => s.load) /\ \A x \in Held(r[2]) : x.t # "DOWNLOAD"
         /\ c = "DATA" => ~r[1].load
         /\ c = "HTTPTERM" /\ ~s.load => ~r[1].http
         /\ c = "HTTPDATA" =>
              \/ (r[1].load => s.load) /\ \A x \in Held(r[2]) : x.t # "DOWNLOAD"
              \/ r[1].load /\ r[2] = <<M!Tok("DOWNLOAD", "")>>
<1>0. s \in Sims
  BY DEF Fit
<1>1. ASSUME NEW q, NoData(q) PROVE \A x \in Held(q) : x.t # "DOWNLOAD"
  BY <1>1 DEF NoData, Held
<1>2. NoData(<<M!OK>>) /\ NoData(<<M!ERROR>>)
  BY OkIs, NoDataForms
<1>3. ASSUME Unheard(s, r) \/ Refused(s, r)
      PROVE  r[1] = s /\ \A x \in Held(r[2]) : x.t # "DOWNLOAD"
  BY <1>0, <1>1, <1>3, UnheardIs, RefusedIs DEF Unheard, Refused
<1>4. CASE c \notin Effective \cup {"DATA"}
  <2>1. Same(s, r[1]) /\ NoData(r[2])
    BY <1>0, <1>4, Harmless
  <2> QED BY <1>1, <1>4, <2>1 DEF Same, Effective
<1>5. CASE c = "DATA"
  <2>1. CASE s.on /\ s.load
    BY <1>0, <1>1, <1>2, <1>5, <2>1, Deaf
  <2>2. CASE ~(s.on /\ s.load)
    <3>1. Unheard(s, r)
      BY <1>0, <1>5, <2>2, Deaf
    <3> QED BY <1>3, <1>5, <2>2, <3>1 DEF Fit
  <2> QED BY <2>1, <2>2
<1>6. CASE c \in Effective /\ (~s.on \/ s.load)
  <2>1. Unheard(s, r)
    BY <1>0, <1>6, Deaf DEF Effective
  <2> QED BY <1>3, <1>6, <2>1 DEF Fit, Effective
<1>7. CASE c \in Effective \ {"TOGGLE"} /\ s.on /\ ~s.load
  <2>1. c \in M!HttpCommands
    BY <1>7 DEF Effective, M!HttpCommands
  <2>2. HttpEffect(s, c, r)
    BY <1>0, <1>7, <2>1, HttpEffects
  <2>3. CASE Refused(s, r)
    BY <1>3, <1>7, <2>2, <2>3 DEF Effective, HttpEffect
  <2>4. CASE ~Refused(s, r)
    BY <1>1, <1>2, <1>7, <2>2, <2>4 DEF Effective, HttpEffect
  <2> QED BY <2>3, <2>4
<1>8. CASE c = "TOGGLE" /\ s.on /\ ~s.load
  <2>1. /\ c \notin M!Plain /\ c \notin M!HttpCommands /\ c \notin M!BearerCommands
        /\ c \notin M!Queries
        /\ c # ""
    BY <1>8 DEF M!Plain, M!HttpCommands, M!BearerCommands, M!Queries
  <2>2. M!Replies(s, c) = M!Says(s, <<>>)
    BY <1>8, <2>1 DEF M!Replies
  <2>3. Unheard(s, r)
    BY <2>2 DEF M!Says, Unheard
  <2> QED BY <1>3, <1>8, <2>3
<1> QED BY <1>4, <1>5, <1>6, <1>7, <1>8

-----------------------------------------------------------------------------
(***************************************************************************)
(* The modem takes no command for data, but between AT+HTTPDATA and the    *)
(* data, and while what is left of a failed post is ended.                 *)
(***************************************************************************)

Comes(t) == \E x \in Held(out) : x.t = t

Loading ==
  /\ sim.load => Spoiled \/ (InPost /\ ((pc = 5 /\ waiting) \/ (pc = 6 /\ ~waiting)))
  /\ Comes("DOWNLOAD") => Spoiled \/ (InPost /\ pc = 5 /\ waiting)

\* The modem says DOWNLOAD once.
Announced ==
  InPost /\ pc = 5 /\ waiting =>
    \A i \in 1..Len(out) : out[i].t = "DOWNLOAD" =>
      /\ sim.load
      /\ \A j \in 1..Len(out) : j > i => out[j].t = "+HTTPACTION:"

LoadInv == Typed /\ Loading /\ Announced

\* A failed post stays one until all is ended.
LEMMA SpoiledStays ==
  ASSUME ControlTyped, Spoiled, ~(stage = "init" /\ pc = 1), NEW o, NEW s, Moved(o, s)
  PROVE  Spoiled'
<1>1. CASE Onward(o, s)
  BY <1>1 DEF Onward, Spoiled
<1>2. CASE \E ok \in BOOLEAN : Returned(ok, s)
  BY <1>2 DEF Returned
<1>3. CASE stage = "init" /\ Restarted
  BY <1>3, RestartIs DEF Spoiled, ControlTyped
<1> QED BY <1>1, <1>2, <1>3 DEF Moved

\* Where the steps of a post lead.
LEMMA PostMoves ==
  ASSUME ControlTyped, InPost, NEW o, NEW s, Moved(o, s)
  PROVE  \/ /\ pc' = pc + 1 /\ try' = 0 /\ o \in DOMAIN step.to /\ sim' = s
            /\ UNCHANGED <<job, stage, good, served>> /\ InPost' /\ pc <= 8
         \/ /\ stage' = "read" /\ job' = job /\ o \in DOMAIN step.to /\ pc = 9
            /\ try' = 0 /\ (served' <=> served) /\ (sim' = M!Off \/ Like(s, sim'))
         \/ /\ Spoiled' /\ pc' = 1 /\ try' = 0 /\ stage' = "quit" /\ (sim' = M!Off \/ Like(s, sim'))
            /\ o \notin DOMAIN step.to
<1>0. /\ stage = "post" /\ job \in Sessions /\ Len(Steps900) = 9
      /\ pc \in {1, 2, 3, 4, 5, 6, 7, 8, 9}
  BY PostIs DEF InPost
<1>1. CASE Onward(o, s)
  BY <1>0, <1>1 DEF Onward, InPost
<1>2. ASSUME NEW ok \in BOOLEAN, Returned(ok, s),
             stage \notin {"init", "open"} =>
               IF ok THEN o \in DOMAIN step.to /\ pc = Len(Steps900) ELSE o \notin DOMAIN step.to
      PROVE  \/ /\ stage' = "read" /\ job' = job /\ o \in DOMAIN step.to /\ pc = 9
                /\ try' = 0 /\ (served' <=> served) /\ (sim' = M!Off \/ Like(s, sim'))
             \/ /\ Spoiled' /\ pc' = 1 /\ try' = 0 /\ stage' = "quit" /\ (sim' = M!Off \/ Like(s, sim'))
                /\ o \notin DOMAIN step.to
  BY <1>0, <1>2 DEF Returned, Spoiled
<1> QED BY <1>0, <1>1, <1>2 DEF Moved

LEMMA LoadSend == LoadInv /\ Send => Loading' /\ Announced'
<1> SUFFICES ASSUME LoadInv, Send PROVE Loading' /\ Announced'
  OBVIOUS
<1>0. Typed /\ Loading /\ Calling /\ ~waiting /\ ControlTyped /\ out \in Seq(Tokens) /\ Fit(sim)
  BY SendIs, FitIs DEF LoadInv, Typed, AnswerTyped
<1>1. PICK q, r : Sent(q, r) /\ \E n \in {0, 1} : Keeps(q, n)
  BY <1>0, SendIs
<1>2. q \in Seq(Tokens) /\ Held(q) \subseteq Held(out) \cup {Cut}
  BY <1>0, <1>1, KeepsHeld
<1>3. r \in M!Replies(sim, step.cmd) /\ Fit(r[1]) /\ r[2] \in Seq(Tokens)
  BY <1>0, <1>1, FitReplies DEF Sent
<1>4. Held(q \o r[2]) = Held(q) \cup Held(r[2])
  BY <1>2, <1>3, HeldConcat
<1>5. sim.load \/ Comes("DOWNLOAD") => Spoiled \/ (InPost /\ pc = 6 /\ sim.load /\ ~Comes("DOWNLOAD"))
  BY <1>0 DEF Loading
<1>6. CASE step.cmd = "TOGGLE"
  <2>1. out' = <<>> /\ ~Comes("DOWNLOAD")'
    <3>1. out' = <<>>
      BY <1>1, <1>6 DEF Sent
    <3> QED BY <3>1, HeldIs DEF Comes
  <2>2. stage = "init" /\ pc = 1
    BY <1>0, <1>6, StepFacts DEF ControlTyped, Effective
  <2>3. Moved("sent", M!On)
    BY <1>1, <1>6, <2>2, InitFirst DEF Sent
  <2>4. sim' \in {M!Off, M!On} \/ Like(M!On, sim')
    BY <2>3 DEF Moved, Onward, Returned
  <2>5. ~sim'.load
    BY <2>4, OffOn DEF Like
  <2> QED BY <2>1, <2>5 DEF Loading, Announced, Held, Comes
<1>7. CASE step.cmd = "HTTPDATA"
  <2>1. InPost /\ pc = 5 /\ step.wait # "nothing"
    <3>1. stage = "post" /\ pc = 5
      BY <1>0, <1>7, StepFacts DEF ControlTyped, Effective
    <3> QED BY <1>0, <3>1, PostIs, PostStepIs
  <2>2. waiting' /\ sim' = r[1] /\ Stays /\ out' = q \o r[2]
    BY <1>1, <1>7, <2>1 DEF Sent
  <2>3. InPost' /\ pc' = 5
    BY <2>1, <2>2 DEF Stays, InPost
  <2>4. ~Spoiled
    BY <2>1 DEF InPost, Spoiled
  <2>5. \A x \in Held(q) : x.t # "DOWNLOAD"
    BY <1>2, <1>5, <2>1, <2>4, CutIs DEF Comes
  <2>6. Loading'
    BY <2>2, <2>3 DEF Loading
  <2>7. CASE \A x \in Held(r[2]) : x.t # "DOWNLOAD"
    <3>1. \A x \in Held(out') : x.t # "DOWNLOAD"
      BY <1>4, <2>2, <2>5, <2>7
    <3> QED BY <2>6, <3>1 DEF Announced, Held
  <2>8. CASE r[1].load /\ r[2] = <<M!Tok("DOWNLOAD", "")>>
    <3> DEFINE e == M!Tok("DOWNLOAD", "")
    <3>1. r[2] = <<e>> /\ e \in Tokens
      BY <2>8 DEF M!Tok, Tokens
    <3> HIDE DEF e
    <3>2. out' = q \o <<e>>
      BY <2>2, <3>1
    <3>3. Len(out') = Len(q) + 1 /\ Len(q) \in Nat /\ \A i \in 1..Len(q) : out'[i] = q[i]
      BY <1>2, <3>1, <3>2
    <3>4. \A i \in 1..Len(out') : out'[i].t = "DOWNLOAD" => i = Len(q) + 1
      BY <2>5, <3>3 DEF Held
    <3>5. \A i \in 1..Len(out') : out'[i].t = "DOWNLOAD" =>
            sim'.load /\ \A j \in 1..Len(out') : j > i => out'[j].t = "+HTTPACTION:"
      <4>1. sim'.load
        BY <2>2, <2>8
      <4> DEFINE n == Len(out')
      <4>2. \A i \in 1..n : out'[i].t = "DOWNLOAD" => i = n
        BY <3>3, <3>4
      <4>3. n \in Nat
        BY <3>3
      <4> HIDE DEF n
      <4>4. \A i, j \in 1..n : ~(i = n /\ j > i)
        BY <4>3
      <4> QED BY <4>1, <4>2, <4>4 DEF n
    <3> QED BY <2>6, <3>5 DEF Announced
  <2> QED BY <1>3, <1>7, <1>0, <2>7, <2>8, RepliesLoad
<1>8. CASE step.cmd \notin {"TOGGLE", "HTTPDATA"}
  <2>1. (r[1].load => sim.load) /\ \A x \in Held(r[2]) : x.t # "DOWNLOAD"
    BY <1>0, <1>3, <1>8, RepliesLoad
  <2>2. out' = q \o r[2]
    BY <1>1, <1>8 DEF Sent
  <2>3. Comes("DOWNLOAD")' => Comes("DOWNLOAD")
    BY <1>2, <1>4, <2>1, <2>2, CutIs DEF Comes
  <2>4. InPost /\ pc = 6 => ~r[1].load
    <3>1. SUFFICES ASSUME InPost, pc = 6 PROVE step.cmd = "DATA"
      BY <1>0, <1>3, RepliesLoad
    <3> QED BY <1>0, <3>1, PostStepIs DEF InPost
  <2>5. Comes("DOWNLOAD")' \/ r[1].load => Spoiled
    BY <1>5, <2>1, <2>3, <2>4
  <2>6. ~(stage = "init" /\ pc = 1)
    BY <1>8, InitFirst
  <2>7. CASE step.wait = "nothing" /\ ~waiting' /\ Moved("sent", r[1])
    <3>1. sim'.load => r[1].load
      BY <2>7, OffOn DEF Moved, Onward, Returned, Like
    <3>2. Spoiled => Spoiled'
      BY <1>0, <2>6, <2>7, SpoiledStays
    <3> QED BY <2>5, <2>7, <3>1, <3>2 DEF Loading, Announced
  <2>8. CASE waiting' /\ sim' = r[1] /\ Stays
    <3>1. Spoiled => Spoiled' /\ ~InPost'
      BY <2>8 DEF Stays, Spoiled, InPost
    <3>2. Loading'
      BY <2>5, <2>8, <3>1 DEF Loading
    <3>3. InPost' => ~Comes("DOWNLOAD")'
      BY <2>5, <3>1
    <3> QED BY <3>2, <3>3 DEF Announced, Comes, Held
  <2> QED BY <1>1, <1>8, <2>7, <2>8 DEF Sent
<1> QED BY <1>6, <1>7, <1>8

LEMMA LoadHear == LoadInv /\ Hear => Loading' /\ Announced'
<1> SUFFICES ASSUME LoadInv, Hear PROVE Loading' /\ Announced'
  OBVIOUS
<1> DEFINE t == Head(out)  o == Heard(t)
<1>0. /\ Typed /\ Loading /\ Announced /\ Calling /\ waiting /\ ControlTyped
      /\ out \in Seq(Tokens)
      /\ out # <<>> /\ out' = RestOf(t)
  BY HearIs DEF LoadInv, Typed, AnswerTyped
<1>1. ~(stage = "init" /\ pc = 1)
  BY <1>0 DEF Typed, WaitTyped
<1>2. /\ t \in Held(out) /\ Tail(out) \in Seq(Tokens) /\ Held(Tail(out)) \subseteq Held(out)
      /\ Held(RestOf(t)) \subseteq Held(Tail(out)) \cup {M!Tok("line", t.v)}
  BY <1>0, HeldIs, RestIs
<1>3. Comes("DOWNLOAD")' => \E x \in Held(Tail(out)) : x.t = "DOWNLOAD"
  <2>1. M!Tok("line", t.v).t # "DOWNLOAD"
    BY TokIs
  <2> QED BY <1>0, <1>2, <2>1 DEF Comes
<1>4. Comes("DOWNLOAD")' => Comes("DOWNLOAD")
  BY <1>2, <1>3 DEF Comes
<1>5. CASE o = "" /\ Stays /\ UNCHANGED <<try, waiting, sim, clock>>
  <2>1. Loading'
    BY <1>0, <1>4, <1>5 DEF Loading, Stays, Spoiled, InPost
  <2>2. Announced'
    <3>1. SUFFICES ASSUME InPost, pc = 5,
                          NEW i \in 1..Len(out'), out'[i].t = "DOWNLOAD"
                   PROVE  /\ sim'.load
                          /\ \A j \in 1..Len(out') : j > i => out'[j].t = "+HTTPACTION:"
      BY <1>5 DEF Announced, Stays, InPost
    <3>2. out' = Tail(out)
      BY <1>0, <1>5, RestIs
    <3>3. Len(out) \in Nat /\ Len(out') = Len(out) - 1 /\ \A k \in 1..Len(out') : out'[k] = out[k + 1]
      BY <1>0, <3>2
    <3>4. i + 1 \in 1..Len(out) /\ out[i + 1].t = "DOWNLOAD"
      BY <3>1, <3>3
    <3>5. sim.load /\ \A j \in 1..Len(out) : j > i + 1 => out[j].t = "+HTTPACTION:"
      BY <1>0, <3>1, <3>4 DEF Announced
    <3>6. ASSUME NEW j \in 1..Len(out'), j > i PROVE out'[j].t = "+HTTPACTION:"
      <4>1. j + 1 \in 1..Len(out) /\ j + 1 > i + 1 /\ out'[j] = out[j + 1]
        BY <3>3, <3>6
      <4> QED BY <3>5, <4>1
    <3> QED BY <1>5, <3>5, <3>6
  <2> QED BY <2>1, <2>2
<1>6. CASE o # "" /\ ~waiting' /\ Moved(o, sim)
  <2>1. Announced'
    BY <1>6 DEF Announced
  <2>2. Spoiled => Spoiled'
    BY <1>0, <1>1, <1>6, SpoiledStays
  <2>3. sim'.load => sim.load
    BY <1>6, OffOn DEF Moved, Onward, Returned, Like
  <2>4. ASSUME InPost, pc = 5
        PROVE  Spoiled' \/ (InPost' /\ pc' = 6 /\ ~Comes("DOWNLOAD")')
    <3>1. CASE pc' = pc + 1 /\ InPost'
      <4>1. step.wait = "DOWNLOAD" /\ t.t = "DOWNLOAD"
        <5>1. step.wait = "DOWNLOAD"
          BY <1>0, <2>4, PostStepIs DEF InPost
        <5> QED BY <1>6, <5>1 DEF Heard
      <4>2. \A i \in 1..Len(out) : i > 1 => out[i].t = "+HTTPACTION:"
        <5>1. 1 \in 1..Len(out) /\ out[1] = t
          BY <1>0
        <5> QED BY <1>0, <2>4, <4>1, <5>1 DEF Announced
      <4>3. \A x \in Held(Tail(out)) : x.t = "+HTTPACTION:"
        <5>1. SUFFICES ASSUME NEW k \in 1..Len(Tail(out)) PROVE Tail(out)[k].t = "+HTTPACTION:"
          BY DEF Held
        <5>2. k + 1 \in 1..Len(out) /\ k + 1 > 1 /\ Tail(out)[k] = out[k + 1]
          BY <1>0
        <5> QED BY <4>2, <5>2
      <4> QED BY <1>3, <2>4, <3>1, <4>3
    <3>2. CASE pc = 9
      BY <2>4, <3>2
    <3> QED BY <1>0, <1>6, <2>4, <3>1, <3>2, PostMoves
  <2>5. Loading'
    BY <1>0, <1>4, <1>6, <2>2, <2>3, <2>4 DEF Loading
  <2> QED BY <2>1, <2>5
<1> QED BY <1>5, <1>6, HearIs, <1>0

LEMMA LoadTimeOut == LoadInv /\ TimeOut => Loading' /\ Announced'
<1> SUFFICES ASSUME LoadInv, TimeOut PROVE Loading' /\ Announced'
  OBVIOUS
<1>0. /\ Typed /\ Loading /\ Calling /\ waiting /\ ControlTyped /\ ~waiting' /\ out' = out
      /\ \/ try < step.tries /\ Stays /\ UNCHANGED <<try, sim>>
         \/ ~(try < step.tries) /\ Moved("none", sim)
  BY TimeOutIs DEF LoadInv, Typed
<1>1. ~(stage = "init" /\ pc = 1) /\ try >= 1
  BY <1>0 DEF Typed, WaitTyped
<1>2. Announced'
  BY <1>0 DEF Announced
<1>3. CASE try < step.tries /\ Stays /\ UNCHANGED <<try, sim>>
  <2>1. ~(InPost /\ pc = 5)
    <3>1. SUFFICES ASSUME InPost, pc = 5 PROVE step.tries = 1
      BY <1>0, <1>1, <1>3 DEF ControlTyped
    <3> QED BY <1>0, <3>1, PostStepIs DEF InPost
  <2> QED BY <1>0, <1>2, <1>3, <2>1 DEF Loading, Stays, Spoiled, Comes
<1>4. CASE Moved("none", sim)
  <2>1. Spoiled => Spoiled'
    BY <1>0, <1>1, <1>4, SpoiledStays
  <2>2. sim'.load => sim.load
    BY <1>4, OffOn DEF Moved, Onward, Returned, Like
  <2>3. InPost /\ pc = 5 => Spoiled'
    <3>1. SUFFICES ASSUME InPost, pc = 5 PROVE Spoiled'
      OBVIOUS
    <3>2. DOMAIN step.to = {"match"}
      BY <1>0, <3>1, PostStepIs DEF InPost
    <3> QED BY <1>0, <1>4, <3>1, <3>2, PostMoves
  <2> QED BY <1>0, <1>2, <2>1, <2>2, <2>3 DEF Loading, Comes
<1> QED BY <1>0, <1>3, <1>4

LEMMA LoadInit == Init => Loading /\ Announced
<1> SUFFICES ASSUME Init PROVE Loading /\ Announced
  OBVIOUS
<1>1. ~sim.load /\ out = <<>> /\ ~waiting
  BY OffOn DEF Init
<1>2. Held(out) = {}
  BY <1>1, HeldIs
<1> QED BY <1>1, <1>2 DEF Loading, Announced, Comes

LEMMA LoadStart == LoadInv /\ Start => Loading' /\ Announced'
<1> SUFFICES ASSUME LoadInv, Start PROVE Loading' /\ Announced'
  OBVIOUS
<1>1. /\ Typed /\ Loading /\ ~Calling /\ ~waiting /\ waiting' = waiting /\ Like(sim, sim')
      /\ out' = out
  BY StartIs DEF LoadInv
<1>2. ~Spoiled /\ ~InPost
  BY <1>1 DEF Typed, ControlTyped, JobStage, Calling, Spoiled, InPost, Sessions
<1>3. ~sim.load /\ ~Comes("DOWNLOAD")
  BY <1>1, <1>2 DEF Loading
<1>4. ~sim'.load /\ ~Comes("DOWNLOAD")' /\ ~waiting'
  BY <1>1, <1>3 DEF Like, Comes
<1> QED BY <1>4 DEF Loading, Announced

LEMMA LoadAction == LoadInv /\ ActionEnds => Loading' /\ Announced'
<1> SUFFICES ASSUME LoadInv, ActionEnds PROVE Loading' /\ Announced'
  OBVIOUS
<1>1. /\ Typed /\ Loading /\ Announced /\ out \in Seq(Tokens)
      /\ (sim'.load <=> sim.load)
      /\ UNCHANGED <<job, stage, good, pc, try, waiting>>
  BY ActionEndsIs DEF LoadInv, Typed, AnswerTyped
<1>2. PICK st \in {"200", "404"} : Acted(st)
  BY ActionEndsIs DEF LoadInv
<1> DEFINE e == M!Tok("+HTTPACTION:", st)
<1>3. e \in Tokens /\ e.t = "+HTTPACTION:" /\ out' = Append(out, e)
  BY <1>2 DEF Acted, M!Tok, Tokens
<1> HIDE DEF e
<1>4. Held(out') = Held(out) \cup {e}
  BY <1>1, <1>3, HeldAppend
<1>5. Comes("DOWNLOAD")' => Comes("DOWNLOAD")
  BY <1>3, <1>4 DEF Comes
<1>6. Loading'
  BY <1>1, <1>5 DEF Loading, Spoiled, InPost
<1>7. Announced'
  <2>1. SUFFICES ASSUME InPost, pc = 5, waiting, NEW i \in 1..Len(out'), out'[i].t = "DOWNLOAD"
                 PROVE  sim.load /\ \A j \in 1..Len(out') : j > i => out'[j].t = "+HTTPACTION:"
    BY <1>1 DEF Announced, InPost
  <2>2. Len(out) \in Nat /\ Len(out') = Len(out) + 1 /\ out'[Len(out) + 1] = e
        /\ \A k \in 1..Len(out) : out'[k] = out[k]
    BY <1>1, <1>3
  <2>3. i \in 1..Len(out)
    BY <1>3, <2>1, <2>2
  <2>4. sim.load /\ \A j \in 1..Len(out) : j > i => out[j].t = "+HTTPACTION:"
    BY <1>1, <2>1, <2>2, <2>3 DEF Announced
  <2>5. ASSUME NEW j \in 1..Len(out'), j > i PROVE out'[j].t = "+HTTPACTION:"
    <3>1. CASE j = Len(out) + 1
      BY <1>3, <2>2, <3>1
    <3>2. CASE j # Len(out) + 1
      <4>1. j \in 1..Len(out)
        BY <2>2, <3>2
      <4> QED BY <2>2, <2>4, <2>5, <4>1
    <3> QED BY <3>1, <3>2
  <2> QED BY <2>4, <2>5
<1> QED BY <1>6, <1>7

LEMMA LoadModem == LoadInv /\ Modem => Loading' /\ Announced'
<1> SUFFICES ASSUME LoadInv, Modem PROVE Loading' /\ Announced'
  OBVIOUS
<1>1. /\ Typed /\ Loading /\ Announced /\ out \in Seq(Tokens) /\ ControlTyped
      /\ UNCHANGED <<job, stage, good, pc, try, waiting>>
  BY ModemIs DEF LoadInv, Typed, AnswerTyped
<1>2. CASE Same(sim, sim') /\ out' = out
  BY <1>1, <1>2 DEF Same, Loading, Announced, Spoiled, InPost, Comes
<1>3. CASE /\ sim.load /\ ~(stage = "post" /\ step.cmd \in {"HTTPDATA", "DATA"})
           /\ ~sim'.load /\ out' = Append(out, M!OK)
  <2>1. ~(InPost /\ pc \in {5, 6})
    BY <1>1, <1>3, PostStepIs DEF InPost
  <2>2. Held(out') = Held(out) \cup {M!OK}
    <3> DEFINE e == M!OK
    <3>1. e \in Tokens /\ out' = Append(out, e)
      BY <1>3, OkIs
    <3> HIDE DEF e
    <3>2. Held(out') = Held(out) \cup {e}
      BY <1>1, <3>1, HeldAppend
    <3> QED BY <3>2 DEF e
  <2>3. Comes("DOWNLOAD")' => Comes("DOWNLOAD")
    BY <2>2, OkIs DEF Comes
  <2> QED BY <1>1, <1>3, <2>1, <2>3 DEF Loading, Announced, Spoiled, InPost
<1> QED BY <1>2, <1>3, ModemIs DEF LoadInv

LEMMA LoadReset == LoadInv /\ (ModemResets \/ ControllerResets) => Loading' /\ Announced'
<1>1. ASSUME LoadInv, ModemResets PROVE Loading' /\ Announced'
  <2>1. ~sim'.load /\ out' = <<>>
    BY <1>1, ModemResetsIs, OffOn
  <2>2. Held(out') = {} /\ Len(out') = 0
    BY <2>1, HeldIs
  <2> QED BY <2>1, <2>2 DEF Loading, Announced, Comes
<1>2. ASSUME LoadInv, ControllerResets PROVE Loading' /\ Announced'
  <2>1. pc' = 1 /\ stage' = "init" /\ ~waiting'
    BY <1>2, ControllerResetsIs DEF LoadInv
  <2> QED BY <2>1 DEF Loading, Announced, Spoiled
<1> QED BY <1>1, <1>2

LEMMA LoadNext == LoadInv /\ [Next]_vars => LoadInv'
<1> SUFFICES ASSUME LoadInv, [Next]_vars PROVE LoadInv'
  OBVIOUS
<1>1. Typed'
  BY TypedNext DEF LoadInv
<1>2. CASE UNCHANGED vars
  <2>1. UNCHANGED <<job, stage, good, pc, try, waiting, sim, out>>
    BY <1>2 DEF vars, control
  <2> QED BY <1>1, <2>1 DEF LoadInv, Loading, Announced, Spoiled, InPost, Comes
<1>3. Next => Loading' /\ Announced'
  BY LoadSend, LoadHear, LoadTimeOut, LoadStart, LoadAction, LoadModem, LoadReset DEF Next
<1> QED BY <1>1, <1>2, <1>3 DEF LoadInv

-----------------------------------------------------------------------------
(***************************************************************************)
(* An HTTP service that was left initialised fails one upload.             *)
(***************************************************************************)

\* The upload that has found it initialised, up to its AT+HTTPTERM.
Blamed ==
  /\ job \in Sessions
  /\ \/ stage = "post" /\ (pc >= 3 \/ (pc = 2 /\ try >= 1))
     \/ stage \in {"read", "term"}

RefusedInv ==
  /\ LoadInv
  /\ refused \in {0, 1}
  /\ ~sim.http => refused = 0
  /\ refused = 1 => Spoiled \/ Blamed
  /\ job \in Sessions /\ stage = "term" /\ try >= 1 => ~sim.http

\* It stays to blame until the service is ended.
LEMMA BlamedStays ==
  ASSUME ControlTyped, Spoiled \/ Blamed, ~(stage = "init" /\ pc = 1),
         stage # "term", NEW o, NEW s, Moved(o, s)
  PROVE  Spoiled' \/ Blamed'
<1>1. CASE Spoiled
  BY <1>1, SpoiledStays
<1>2. CASE InPost /\ Blamed
  <2>1. pc \in Nat /\ pc >= 2
    BY <1>2, PostIs DEF Blamed, InPost
  <2> QED BY <1>2, <2>1, PostMoves DEF Blamed, InPost
<1>3. CASE job \in Sessions /\ stage = "read"
  <2>1. CASE Onward(o, s)
    BY <1>3, <2>1 DEF Onward, Blamed
  <2>2. CASE \E ok \in BOOLEAN : Returned(ok, s)
    BY <1>3, <2>2 DEF Returned, Blamed
  <2> QED BY <1>3, <2>1, <2>2 DEF Moved
<1> QED BY <1>1, <1>2, <1>3 DEF Blamed, InPost

LEMMA RefusedSend == RefusedInv /\ Send => RefusedInv'
<1> SUFFICES ASSUME RefusedInv, Send PROVE RefusedInv'
  OBVIOUS
<1>0. /\ LoadInv /\ Typed /\ Loading /\ Calling /\ ~waiting /\ ControlTyped /\ Fit(sim)
      /\ CountRefused
      /\ try \in Nat
  BY SendIs, FitIs DEF RefusedInv, LoadInv, Typed, ControlTyped
<1>1. LoadInv'
  BY <1>0, LoadNext DEF Next
<1>2. PICK q, r : Sent(q, r)
  BY <1>0, SendIs
<1>3. r \in M!Replies(sim, step.cmd)
  BY <1>2 DEF Sent
<1>4. refused' \in {0, refused, refused + 1} /\ (~sim'.http => refused' = 0)
  BY <1>0 DEF CountRefused
<1>5. ~(waiting' /\ try = 0 /\ job \in Sessions /\ step.cmd = "HTTPINIT") => refused' \in {0, refused}
  BY <1>0 DEF CountRefused
<1>6. CASE step.cmd = "TOGGLE"
  <2>1. stage = "init" /\ pc = 1
    BY <1>0, <1>6, StepFacts DEF Typed, ControlTyped, Effective
  <2>2. Moved("sent", M!On)
    BY <1>2, <1>6, <2>1, InitFirst DEF Sent
  <2>3. ~sim'.http /\ try' = 0
    BY <2>2, OffOn DEF Moved, Onward, Returned, Like, Restarted, Begins
  <2> QED BY <1>1, <1>4, <2>3 DEF RefusedInv
<1>7. CASE step.cmd # "TOGGLE" /\ step.wait = "nothing"
  <2>1. Moved("sent", r[1]) /\ ~waiting' /\ ~(stage = "init" /\ pc = 1)
    BY <1>2, <1>7, InitFirst DEF Sent
  <2>2. refused' \in {0, refused}
    BY <1>5, <2>1
  <2>3. Blamed => stage \in {"post", "read", "term"}
    BY DEF Blamed
  <2>4. ~Blamed /\ stage # "term"
    BY <1>0, <1>7, <2>3, UploadWaits
  <2>5. refused = 1 => Spoiled'
    BY <1>0, <2>1, <2>4, SpoiledStays DEF RefusedInv
  <2>6. try' = 0
    BY <2>1 DEF Moved, Onward, Returned, Restarted, Begins
  <2> QED BY <1>1, <1>4, <2>2, <2>5, <2>6 DEF RefusedInv
<1>8. CASE step.cmd # "TOGGLE" /\ step.wait # "nothing"
  <2>1. waiting' /\ try' = try + 1 /\ sim' = r[1] /\ Stays
    BY <1>2, <1>8 DEF Sent
  <2>2. job \in Sessions /\ stage = "term" => ~sim'.http
    <3>1. SUFFICES ASSUME job \in Sessions, stage = "term" PROVE ~r[1].http
      BY <2>1
    <3>2. ~sim.load
      BY <1>0, <3>1 DEF Loading, Spoiled, InPost
    <3>3. step.cmd = "HTTPTERM"
      BY <1>0, <3>1, TermIs
    <3> QED BY <1>0, <1>3, <3>2, <3>3, RepliesLoad
  <2>3. Spoiled \/ Blamed => Spoiled' \/ Blamed'
    BY <1>0, <2>1 DEF Stays, Spoiled, Blamed
  <2>4. CASE try = 0 /\ job \in Sessions /\ step.cmd = "HTTPINIT"
    <3>1. stage = "post" /\ pc = 2
      <4>1. stage # "get"
        BY <1>0, <2>4 DEF Typed, ControlTyped, JobStage, Sessions
      <4> QED BY <1>0, <2>4, <4>1, StepFacts DEF ControlTyped, Effective
    <3>2. ~Spoiled /\ ~Blamed
      BY <2>4, <3>1 DEF Spoiled, Blamed
    <3>3. refused = 0
      BY <3>2 DEF RefusedInv
    <3>4. Blamed'
      BY <2>1, <2>4, <3>1 DEF Stays, Blamed
    <3> QED BY <1>1, <1>4, <2>1, <2>2, <3>3, <3>4 DEF RefusedInv, Stays
  <2>5. CASE ~(try = 0 /\ job \in Sessions /\ step.cmd = "HTTPINIT")
    BY <1>1, <1>4, <1>5, <2>1, <2>2, <2>3, <2>5 DEF RefusedInv, Stays
  <2> QED BY <2>4, <2>5
<1> QED BY <1>6, <1>7, <1>8

\* An answer, or none: the count stays, or the service has ended.
LEMMA RefusedAnswer == RefusedInv /\ (Hear \/ TimeOut) => RefusedInv'
<1> SUFFICES ASSUME RefusedInv, Hear \/ TimeOut PROVE RefusedInv'
  OBVIOUS
<1>0. LoadInv /\ Typed /\ ControlTyped
  BY DEF RefusedInv, LoadInv, Typed
<1>1. LoadInv'
  BY <1>0, LoadNext DEF Next
<1>2. /\ waiting /\ CountRefused
      /\ \/ Stays /\ UNCHANGED <<try, sim>>
         \/ ~waiting' /\ \E o : Moved(o, sim)
  BY <1>0, HearIs, TimeOutIs
<1>3. ~(stage = "init" /\ pc = 1) /\ try >= 1 /\ try \in Nat
  BY <1>0, <1>2 DEF Typed, WaitTyped, ControlTyped
<1>4. refused' \in {0, refused} /\ (~sim'.http => refused' = 0)
  BY <1>2, <1>3 DEF CountRefused
<1>5. CASE Stays /\ UNCHANGED <<try, sim>>
  BY <1>1, <1>4, <1>5 DEF RefusedInv, Stays, Spoiled, Blamed
<1>6. CASE \E o : Moved(o, sim)
  <2>1. PICK o : Moved(o, sim)
    BY <1>6
  <2>2. try' = 0
    BY <2>1 DEF Moved, Onward, Returned, Restarted, Begins
  <2>3. refused = 1 => Spoiled' \/ Blamed'
    <3>1. SUFFICES ASSUME refused = 1 PROVE Spoiled' \/ Blamed'
      OBVIOUS
    <3>2. Spoiled \/ Blamed
      BY <3>1 DEF RefusedInv
    <3>3. CASE stage = "term"
      BY <1>3, <3>1, <3>2, <3>3 DEF RefusedInv, Spoiled, Blamed
    <3> QED BY <1>0, <1>3, <2>1, <3>2, <3>3, BlamedStays
  <2> QED BY <1>1, <1>4, <2>2, <2>3 DEF RefusedInv
<1> QED BY <1>2, <1>5, <1>6

LEMMA RefusedOther ==
  RefusedInv /\ (Start \/ ActionEnds \/ Modem \/ ModemResets \/ ControllerResets) => RefusedInv'
<1> SUFFICES ASSUME RefusedInv, Start \/ ActionEnds \/ Modem \/ ModemResets \/ ControllerResets
             PROVE  RefusedInv'
  OBVIOUS
<1>0. LoadInv /\ Typed /\ ControlTyped
  BY DEF RefusedInv, LoadInv, Typed
<1>1. LoadInv'
  BY <1>0, LoadNext DEF Next
<1>2. CASE Start
  <2>1. ~Calling /\ try' = 0 /\ (sim'.http <=> sim.http) /\ refused' = refused
    BY <1>0, <1>2, StartIs DEF Like
  <2>2. ~Spoiled /\ ~Blamed
    BY <1>0, <2>1 DEF ControlTyped, JobStage, Calling, Spoiled, Blamed, Sessions
  <2> QED BY <1>1, <2>1, <2>2 DEF RefusedInv
<1>3. CASE ActionEnds \/ Modem
  <2>1. (sim'.http <=> sim.http) /\ UNCHANGED <<job, stage, good, pc, try, refused>>
    BY <1>0, <1>3, ActionEndsIs, ModemIs DEF Same
  <2> QED BY <1>1, <2>1 DEF RefusedInv, Spoiled, Blamed
<1>4. CASE ModemResets
  <2>1. ~sim'.http /\ refused' = 0
    BY <1>4, ModemResetsIs, OffOn
  <2> QED BY <1>1, <2>1 DEF RefusedInv
<1>5. CASE ControllerResets
  <2>1. pc' = 1 /\ stage' = "init" /\ try' = 0 /\ sim' = sim /\ refused' = refused
    BY <1>0, <1>5, ControllerResetsIs
  <2> QED BY <1>1, <2>1 DEF RefusedInv, Spoiled
<1> QED BY <1>2, <1>3, <1>4, <1>5

LEMMA RefusedInit == Init => RefusedInv
<1> SUFFICES ASSUME Init PROVE RefusedInv
  OBVIOUS
<1>1. LoadInv
  BY TypedInit, LoadInit DEF LoadInv
<1>2. refused = 0 /\ try = 0
  BY DEF Init
<1> QED BY <1>1, <1>2 DEF RefusedInv

LEMMA RefusedNext == RefusedInv /\ [Next]_vars => RefusedInv'
<1>1. ASSUME RefusedInv, UNCHANGED vars PROVE RefusedInv'
  <2>1. LoadInv'
    BY <1>1, LoadNext DEF RefusedInv
  <2>2. UNCHANGED <<job, stage, good, pc, try, sim, refused>>
    BY <1>1 DEF vars, control
  <2> QED BY <1>1, <2>1, <2>2 DEF RefusedInv, Spoiled, Blamed
<1> QED BY <1>1, RefusedSend, RefusedAnswer, RefusedOther DEF Next

\* An HTTP service that a failed synchronisation or query has left initialised makes at
\* most one upload fail: whichever way it fails, sim900_http_close or sim900_init ends the
\* service before the next one.  No bound on the late answers, the losses and the resets.
THEOREM UploadRefusedOnce == Spec => []RefusedOnce
<1>1. RefusedInv => RefusedOnce
  BY DEF RefusedInv, RefusedOnce
<1> QED BY <1>1, RefusedInit, RefusedNext, PTL DEF Spec

-----------------------------------------------------------------------------
(***************************************************************************)
(* Without a fault the modem takes no command for data.                    *)
(***************************************************************************)

Faultless == NoFault =>
  /\ ~slow
  /\ sim.load =>
       InPost /\ ((pc = 5 /\ waiting /\ Comes("DOWNLOAD")) \/ (pc = 6 /\ ~waiting))

LEMMA FaultlessInit == Init => Faultless
  BY OffOn DEF Init, Faultless

\* Faults are counted and not forgotten.
LEMMA FaultsStay ==
  ASSUME Typed, [Next]_vars, NoFault'
  PROVE  /\ NoFault /\ ~slow
         /\ ~ModemResets /\ ~ControllerResets
         /\ TimeOut => out = <<>>
         /\ Send => \E q, r : Sent(q, r) /\ q = IF step.soon THEN out ELSE <<>>
<1>0. late \in Nat /\ lost \in Nat /\ resets \in Nat /\ (slow => late >= 1) /\ out \in Seq(Tokens)
  BY DEF Typed, AnswerTyped
<1>1. NoFault' <=> late' = 0 /\ lost' = 0 /\ resets' = 0
  BY DEF NoFault
<1>2. CASE UNCHANGED vars
  <2>1. UNCHANGED <<late, lost, resets, out, sim, job, stage, good, pc, try, waiting>>
    BY <1>2 DEF vars, faults, control
  <2>2. NoFault /\ ~slow
    BY <1>0, <1>1, <2>1 DEF NoFault
  <2>3. ~ModemResets /\ ~ControllerResets
    BY <1>0, <2>1 DEF ModemResets, ControllerResets
  <2>4. TimeOut => out = <<>>
    BY <1>0, <2>1 DEF TimeOut
  <2>5. Send => \E q, r : Sent(q, r) /\ q = IF step.soon THEN out ELSE <<>>
    <3>1. SUFFICES ASSUME Send PROVE \E q, r : Sent(q, r) /\ q = IF step.soon THEN out ELSE <<>>
      OBVIOUS
    <3>2. PICK q, r : Sent(q, r) /\ \E n \in {0, 1} : Keeps(q, n) /\ lost' = lost + n
      BY <3>1, SendIs
    <3>3. Keeps(q, 0)
      BY <1>0, <2>1, <3>2
    <3> QED BY <2>2, <3>2, <3>3 DEF Keeps
  <2> QED BY <2>2, <2>3, <2>4, <2>5
<1>3. CASE Next
  <2>1. ~ModemResets /\ ~ControllerResets
    BY <1>0, <1>1 DEF ModemResets, ControllerResets
  <2>2. ASSUME Send
        PROVE  NoFault /\ ~slow /\ \E q, r : Sent(q, r) /\ q = IF step.soon THEN out ELSE <<>>
    <3>1. late' = late /\ resets' = resets
      BY <2>2, SendIs
    <3>2. PICK q, r : Sent(q, r) /\ \E n \in {0, 1} : Keeps(q, n) /\ lost' = lost + n
      BY <2>2, SendIs
    <3>3. Keeps(q, 0) /\ NoFault /\ ~slow
      BY <1>0, <1>1, <3>1, <3>2 DEF NoFault
    <3> QED BY <3>2, <3>3 DEF Keeps
  <2>3. ASSUME TimeOut PROVE NoFault /\ ~slow /\ out = <<>>
    BY <1>0, <1>1, <2>3, TimeOutIs DEF NoFault
  <2>4. ASSUME Start \/ Hear \/ ActionEnds \/ Modem PROVE NoFault /\ ~slow
    <3>1. UNCHANGED <<late, lost, resets>>
      BY <2>4, StartIs, HearIs, ActionEndsIs, ModemIs
    <3> QED BY <1>0, <1>1, <3>1 DEF NoFault
  <2> QED BY <1>3, <2>1, <2>2, <2>3, <2>4 DEF Next
<1> QED BY <1>2, <1>3

LEMMA FaultlessSend == LoadInv /\ Faultless /\ Send => Faultless'
<1> SUFFICES ASSUME LoadInv, Faultless, Send, NoFault'
             PROVE  ~slow' /\ (sim'.load => InPost' /\ ((pc' = 5 /\ waiting' /\ Comes("DOWNLOAD")')
                                                        \/ (pc' = 6 /\ ~waiting')))
  BY DEF Faultless
<1>0. /\ Typed /\ Calling /\ ~waiting /\ ControlTyped /\ out \in Seq(Tokens) /\ Fit(sim)
      /\ NoFault /\ ~slow
  BY SendIs, FitIs, FaultsStay DEF LoadInv, Typed, AnswerTyped, Next
<1>1. PICK q, r : Sent(q, r) /\ q = IF step.soon THEN out ELSE <<>>
  BY <1>0, FaultsStay DEF Next
<1>2. r \in M!Replies(sim, step.cmd) /\ r[2] \in Seq(Tokens) /\ q \in Seq(Tokens) /\ ~slow'
  BY <1>0, <1>1, FitReplies DEF Sent
<1>3. sim.load => InPost /\ pc = 6
  BY <1>0 DEF Faultless
<1>4. CASE step.cmd = "TOGGLE"
  <2>1. stage = "init" /\ pc = 1
    BY <1>0, <1>4, StepFacts DEF Typed, ControlTyped, Effective
  <2>2. Moved("sent", M!On)
    BY <1>1, <1>4, <2>1, InitFirst DEF Sent
  <2>3. ~sim'.load
    BY <2>2, OffOn DEF Moved, Onward, Returned, Like
  <2> QED BY <1>2, <2>3
<1>5. CASE step.cmd = "HTTPDATA"
  <2>1. stage = "post" /\ pc = 5
    BY <1>0, <1>5, StepFacts DEF ControlTyped, Effective
  <2>2. InPost /\ step.wait # "nothing"
    BY <1>0, <2>1, PostIs, PostStepIs
  <2>3. waiting' /\ sim' = r[1] /\ Stays /\ out' = q \o r[2]
    BY <1>1, <1>5, <2>2 DEF Sent
  <2>4. r[1].load => r[2] = <<M!Tok("DOWNLOAD", "")>>
    <3> DEFINE d == <<M!Tok("DOWNLOAD", "")>>
    <3>1. ~sim.load
      BY <1>3, <2>1
    <3>2. ((r[1].load => sim.load) /\ \A x \in Held(r[2]) : x.t # "DOWNLOAD")
          \/ (r[1].load /\ r[2] = d)
      BY <1>0, <1>2, <1>5, RepliesLoad
    <3> HIDE DEF d
    <3>3. r[1].load => r[2] = d
      BY <3>1, <3>2
    <3> QED BY <3>3 DEF d
  <2>5. r[2] = <<M!Tok("DOWNLOAD", "")>> => Comes("DOWNLOAD")'
    <3> DEFINE e == M!Tok("DOWNLOAD", "")
    <3>1. e \in Tokens /\ e.t = "DOWNLOAD"
      BY DEF M!Tok, Tokens
    <3> HIDE DEF e
    <3>2. Held(<<e>>) = {e}
      BY <3>1, HeldIs
    <3>3. Held(q \o r[2]) = Held(q) \cup Held(r[2])
      BY <1>2, HeldConcat
    <3>4. r[2] = <<e>> => e \in Held(out')
      BY <2>3, <3>2, <3>3
    <3> QED BY <3>1, <3>4 DEF Comes, e
  <2> QED BY <1>2, <2>1, <2>2, <2>3, <2>4, <2>5 DEF Stays, InPost
<1>6. CASE step.cmd \notin {"TOGGLE", "HTTPDATA"}
  <2>1. r[1].load => sim.load
    BY <1>0, <1>2, <1>6, RepliesLoad
  <2>2. InPost /\ pc = 6 => step.cmd = "DATA"
    BY <1>0, PostStepIs DEF InPost
  <2>3. ~r[1].load
    BY <1>0, <1>2, <1>3, <2>1, <2>2, RepliesLoad
  <2>4. sim'.load => r[1].load
    BY <1>1, <1>6, OffOn DEF Sent, Moved, Onward, Returned, Like
  <2> QED BY <1>2, <2>3, <2>4
<1> QED BY <1>4, <1>5, <1>6

LEMMA ToData ==
  ASSUME ControlTyped, InPost, pc = 5, NEW s, Moved("match", s)
  PROVE  pc' = 6 /\ InPost'
<1>1. "match" \in DOMAIN step.to
  BY PostStepIs DEF InPost
<1> QED BY <1>1, PostMoves

LEMMA FaultlessHear == LoadInv /\ Faultless /\ Hear => Faultless'
<1> SUFFICES ASSUME LoadInv, Faultless, Hear, NoFault'
             PROVE  ~slow' /\ (sim'.load => InPost' /\ ((pc' = 5 /\ waiting' /\ Comes("DOWNLOAD")')
                                                        \/ (pc' = 6 /\ ~waiting')))
  BY DEF Faultless
<1> DEFINE t == Head(out)  o == Heard(t)
<1>0. /\ Typed /\ waiting /\ ControlTyped /\ out \in Seq(Tokens) /\ out # <<>>
      /\ out' = RestOf(t)
      /\ NoFault /\ ~slow /\ ~slow'
  BY HearIs, FaultsStay DEF LoadInv, Typed, AnswerTyped, Next
<1>1. sim'.load => sim.load
  <2>1. CASE sim' = sim
    BY <2>1
  <2>2. CASE Moved(o, sim)
    BY <2>2, OffOn DEF Moved, Onward, Returned, Like
  <2> QED BY <1>0, <2>1, <2>2, HearIs
<1> SUFFICES ASSUME sim.load
             PROVE  InPost' /\ ((pc' = 5 /\ waiting' /\ Comes("DOWNLOAD")') \/ (pc' = 6 /\ ~waiting'))
  BY <1>0, <1>1
<1>2. InPost /\ pc = 5 /\ Comes("DOWNLOAD")
  BY <1>0 DEF Faultless
<1>3. step.wait = "DOWNLOAD" /\ DOMAIN step.to = {"match"}
  BY <1>0, <1>2, PostStepIs DEF InPost
<1>4. o = (IF t.t = "DOWNLOAD" THEN "match" ELSE "")
  BY <1>3 DEF Heard
<1>5. CASE o = "" /\ Stays /\ waiting' = waiting
  <2>1. out' = Tail(out)
    BY <1>0, <1>5, RestIs
  <2>2. Held(out) = {t} \cup Held(Tail(out))
    BY <1>0, HeldIs
  <2>3. Comes("DOWNLOAD")'
    BY <1>2, <1>4, <1>5, <2>1, <2>2 DEF Comes
  <2> QED BY <1>0, <1>2, <1>5, <2>3 DEF Stays, InPost
<1>6. CASE o # "" /\ ~waiting' /\ Moved(o, sim)
  <2>1. o = "match"
    BY <1>4, <1>6
  <2>2. pc' = 6 /\ InPost'
    BY <1>0, <1>2, <1>6, <2>1, ToData
  <2> QED BY <1>6, <2>2
<1> QED BY <1>0, <1>5, <1>6, HearIs

LEMMA FaultlessOther ==
  LoadInv /\ Faultless /\ [Next]_vars /\ ~Send /\ ~Hear => Faultless'
<1> SUFFICES ASSUME LoadInv, Faultless, [Next]_vars, ~Send, ~Hear, NoFault'
             PROVE  ~slow' /\ (sim'.load => InPost' /\ ((pc' = 5 /\ waiting' /\ Comes("DOWNLOAD")')
                                                        \/ (pc' = 6 /\ ~waiting')))
  BY DEF Faultless
<1>0. Typed /\ NoFault /\ ~slow /\ out \in Seq(Tokens) /\ ~ModemResets /\ ~ControllerResets
      /\ (TimeOut => out = <<>>)
  BY FaultsStay DEF LoadInv, Typed, AnswerTyped
<1>1. sim.load => InPost /\ ((pc = 5 /\ waiting /\ Comes("DOWNLOAD")) \/ (pc = 6 /\ ~waiting))
  BY <1>0 DEF Faultless
<1>2. CASE UNCHANGED vars
  <2>1. UNCHANGED <<job, stage, pc, waiting, sim, out, slow>>
    BY <1>2 DEF vars, control
  <2> QED BY <1>0, <1>1, <2>1 DEF InPost, Comes
<1>3. CASE TimeOut
  <2>1. waiting /\ out = <<>> /\ ~slow' /\ (sim' = sim \/ Moved("none", sim))
    BY <1>0, <1>3, TimeOutIs
  <2>2. ~Comes("DOWNLOAD")
    BY <2>1, HeldIs DEF Comes
  <2>3. sim'.load => sim.load
    BY <2>1, OffOn DEF Moved, Onward, Returned, Like
  <2> QED BY <1>1, <2>1, <2>2, <2>3
<1>4. CASE Start
  <2>1. ~Calling /\ Like(sim, sim') /\ slow' = slow
    BY <1>0, <1>4, StartIs
  <2>2. ~InPost
    BY <2>1 DEF Calling, InPost, Sessions
  <2> QED BY <1>0, <1>1, <2>1, <2>2 DEF Like
<1>5. CASE ActionEnds
  <2>1. (sim'.load <=> sim.load) /\ UNCHANGED <<job, stage, pc, waiting, slow>>
    BY <1>0, <1>5, ActionEndsIs
  <2>2. PICK st \in {"200", "404"} : Acted(st)
    BY <1>0, <1>5, ActionEndsIs
  <2> DEFINE e == M!Tok("+HTTPACTION:", st)
  <2>3. e \in Tokens /\ out' = Append(out, e)
    BY <2>2 DEF Acted, M!Tok, Tokens
  <2> HIDE DEF e
  <2>4. Comes("DOWNLOAD") => Comes("DOWNLOAD")'
    BY <1>0, <2>3, HeldAppend DEF Comes
  <2> QED BY <1>0, <1>1, <2>1, <2>4 DEF InPost
<1>6. CASE Modem
  <2>1. UNCHANGED <<job, stage, pc, waiting, slow>>
        /\ ((Same(sim, sim') /\ out' = out) \/ ~sim'.load)
    BY <1>0, <1>6, ModemIs
  <2> QED BY <1>0, <1>1, <2>1 DEF Same, InPost, Comes
<1> QED BY <1>0, <1>2, <1>3, <1>4, <1>5, <1>6 DEF Next

\* As long as no answer was late, no tick came before a flush and nothing was reset, the
\* modem waits for data only between AT+HTTPDATA and the data in sim900_http_post: no
\* command of the driver is ever taken for data.
THEOREM DataOnlyInPost == Spec => []LoadWithinPost
<1>1. LoadInv /\ Faultless => LoadWithinPost
  <2> SUFFICES ASSUME LoadInv, Faultless, sim.load, NoFault
               PROVE  stage = "post" /\ step.cmd \in {"HTTPDATA", "DATA"}
    BY DEF LoadWithinPost
  <2>1. InPost /\ (pc = 5 \/ pc = 6)
    BY DEF Faultless
  <2> QED BY <2>1, PostStepIs DEF InPost, LoadInv, Typed
<1>2. Init => LoadInv /\ Faultless
  BY TypedInit, LoadInit, FaultlessInit DEF LoadInv
<1>3. LoadInv /\ Faultless /\ [Next]_vars => LoadInv' /\ Faultless'
  BY LoadNext, FaultlessSend, FaultlessHear, FaultlessOther
<1> QED BY <1>1, <1>2, <1>3, PTL DEF Spec

-----------------------------------------------------------------------------
(***************************************************************************)
(* Without a fault the clock is set to the time of the server: what the    *)
(* modem has to say of AT+HTTPREAD is heard line by line.                  *)
(***************************************************************************)

At(q, i, e) == i \in 1..Len(q) /\ q[i] = e

LEMMA AtAppend ==
  ASSUME NEW T, NEW q \in Seq(T), NEW e \in T, NEW i \in Nat, NEW x, At(q, i, x)
  PROVE  At(Append(q, e), i, x)
  BY DEF At

LEMMA AtTail ==
  ASSUME NEW T, NEW q \in Seq(T), q # <<>>, NEW i \in Nat \ {0}, NEW x
  PROVE  At(q, i + 1, x) <=> At(Tail(q), i, x)
<1>1. Len(Tail(q)) = Len(q) - 1 /\ Len(q) \in Nat /\ \A k \in 1..Len(Tail(q)) : Tail(q)[k] = q[k + 1]
  OBVIOUS
<1>2. i \in 1..Len(Tail(q)) <=> i + 1 \in 1..Len(q)
  BY <1>1
<1> QED BY <1>1, <1>2 DEF At

LEMMA AtCons ==
  ASSUME NEW T, NEW q \in Seq(T), NEW e \in T, NEW i \in Nat, NEW x
  PROVE  /\ At(<<e>> \o q, 1, e)
         /\ At(q, i, x) => At(<<e>> \o q, i + 1, x)
<1> DEFINE w == <<e>> \o q
<1>1. Len(w) = Len(q) + 1 /\ Len(q) \in Nat /\ w[1] = e /\ \A k \in 1..Len(q) : w[k + 1] = q[k]
  OBVIOUS
<1> HIDE DEF w
<1>2. At(w, 1, e)
  BY <1>1 DEF At
<1>3. At(q, i, x) => At(w, i + 1, x)
  BY <1>1 DEF At
<1> QED BY <1>2, <1>3 DEF w

LEMMA AtHead ==
  ASSUME NEW T, NEW q \in Seq(T), NEW x
  PROVE  /\ At(q, 1, x) => q # <<>> /\ Head(q) = x
         /\ q # <<>> => At(q, 1, Head(q))
  BY DEF At

Announces == M!Tok("+HTTPREAD:", "")
Blank == M!Tok("line", "")
Length == M!Tok("line", "length")
Body == M!Tok("line", "body")

BodyAt(q, i) == At(q, i, Length) /\ At(q, i + 1, Body)
Answers(q) ==
  \A i \in 1..Len(q) : q[i].t = "+HTTPREAD:" => q[i] = Announces /\ BodyAt(q, i + 1)

LEMMA LinesAre ==
  /\ Announces.t = "+HTTPREAD:" /\ Announces.v = ""
  /\ Blank.t = "line" /\ Blank.v = "" /\ Blank \in Tokens
  /\ Length.t = "line" /\ Length.v = "length" /\ Length \in Tokens
  /\ Body.t = "line" /\ Body.v = "body" /\ Body \in Tokens
  BY DEF Announces, Blank, Length, Body, M!Tok, Tokens

Reading == NoFault =>
  /\ clock = "server"
  /\ stage = "get" /\ pc = 8 /\ waiting => Answers(out)
  /\ stage = "get" /\ pc = 9 /\ ~waiting => At(out, 1, Blank) /\ BodyAt(out, 2)
  /\ stage = "get" /\ pc = 9 /\ waiting =>
       (At(out, 1, Blank) /\ BodyAt(out, 2)) \/ BodyAt(out, 1)
  /\ stage = "get" /\ pc = 10 => At(out, 1, Body)

LEMMA GetStepIs ==
  ASSUME ControlTyped, Calling, stage = "get"
  PROVE  /\ Len(Steps900) = 10
         /\ pc = 8 => /\ step.cmd = "HTTPREAD" /\ step.wait = "+HTTPREAD:"
                      /\ DOMAIN step.to = {"match"} /\ ~step.soon
         /\ pc \in {9, 10} => step.cmd = "" /\ step.wait = "line" /\ step.soon
<1>1. Steps900 = HttpGet
  BY StageTables DEF Steps900
<1>2. Len(Steps900) = 10
  BY <1>1, GetSteps
<1>3. pc = 8 => Form(step, "HTTPREAD", "+HTTPREAD:", 1, {"match"}) /\ ~step.soon
  BY <1>1, GetSteps DEF step
<1>4. pc \in {9, 10} => Form(step, "", "line", 1, Lines) /\ step.soon
  <2>1. Form(HttpGet[9], "", "line", 1, Lines) /\ Form(HttpGet[10], "", "line", 1, Lines)
        /\ HttpGet[9].soon /\ HttpGet[10].soon
    BY GetSteps
  <2> QED BY <1>1, <2>1 DEF step
<1>5. pc = 8 => /\ step.cmd = "HTTPREAD" /\ step.wait = "+HTTPREAD:"
                /\ DOMAIN step.to = {"match"} /\ ~step.soon
  BY <1>3, FormSays
<1>6. pc \in {9, 10} => step.cmd = "" /\ step.wait = "line" /\ step.soon
  BY <1>4 DEF Form
<1> QED BY <1>2, <1>5, <1>6

\* A step of the call get is entered from the one before it.
LEMMA GetMoves ==
  ASSUME NEW o, NEW s, Moved(o, s), stage' = "get", pc' # 1
  PROVE  stage = "get" /\ pc' = pc + 1 /\ o \in DOMAIN step.to
<1>1. ~Restarted
  BY DEF Restarted, Begins
<1> QED BY <1>1 DEF Moved, Onward, Returned

LEMMA ReadReplies ==
  ASSUME NEW s, Fit(s), NEW r \in M!Replies(s, "HTTPREAD")
  PROVE  Answers(r[2])
<1>0. s \in Sims
  BY DEF Fit
<1>1. CASE r[2] = <<>>
  BY <1>1 DEF Answers
<1>2. CASE r[2] = <<M!ERROR>>
  <2>1. Len(r[2]) = 1 /\ r[2][1] = M!ERROR
    BY <1>2
  <2>2. \A i \in 1..Len(r[2]) : r[2][i] = M!ERROR
    BY <2>1
  <2>3. "ERROR" # "+HTTPREAD:"
    OBVIOUS
  <2> QED BY <2>2, <2>3, OkIs DEF Answers
<1>3. CASE r[2] = <<Announces, Length, Body, M!OK>>
  <2>1. /\ Len(r[2]) = 4 /\ r[2][1] = Announces /\ r[2][2] = Length /\ r[2][3] = Body
        /\ r[2][4] = M!OK
    BY <1>3
  <2> DEFINE q == r[2]
  <2> HIDE DEF q
  <2>2. Len(q) = 4 /\ q[1] = Announces /\ q[2] = Length /\ q[3] = Body /\ q[4] = M!OK
    BY <2>1 DEF q
  <2>3. At(q, 2, Length) /\ At(q, 3, Body)
    BY <2>2 DEF At
  <2>4. ASSUME NEW i \in 1..4, q[i].t = "+HTTPREAD:" PROVE i = 1
    <3>1. i = 1 \/ i = 2 \/ i = 3 \/ i = 4
      OBVIOUS
    <3> QED BY <2>2, <2>4, <3>1, LinesAre, OkIs
  <2>5. Answers(q)
    BY <2>2, <2>3, <2>4 DEF Answers, BodyAt
  <2> QED BY <2>5 DEF q
<1>4. CASE ~s.on \/ s.load
  BY <1>0, <1>1, <1>4, Deaf DEF Unheard
<1>5. CASE s.on /\ ~s.load
  <2>1. HttpEffect(s, "HTTPREAD", r)
    BY <1>0, <1>5, HttpEffects DEF M!HttpCommands
  <2>2. r[2] = <<M!ERROR>> \/ r[2] = <<Announces, Length, Body, M!OK>>
    BY <2>1 DEF HttpEffect, Refused, Announces, Length, Body
  <2> QED BY <1>2, <1>3, <2>2
<1> QED BY <1>4, <1>5

LEMMA ReadingInit == Init => Reading
  BY DEF Init, Reading

LEMMA ReadingSend == LoadInv /\ Reading /\ Send => Reading'
<1> SUFFICES ASSUME LoadInv, Reading, Send, NoFault' PROVE Reading'
  BY DEF Reading
<1>0. /\ Typed /\ Calling /\ ~waiting /\ ControlTyped /\ out \in Seq(Tokens) /\ Fit(sim)
      /\ NoFault /\ clock' = clock /\ clock = "server"
  BY SendIs, FitIs, FaultsStay DEF LoadInv, Typed, AnswerTyped, Next, Reading
<1>1. PICK q, r : Sent(q, r) /\ q = IF step.soon THEN out ELSE <<>>
  BY <1>0, FaultsStay DEF Next
<1>2. r \in M!Replies(sim, step.cmd) /\ r[2] \in Seq(Tokens)
  BY <1>0, <1>1, FitReplies DEF Sent
<1>3. CASE step.wait = "nothing"
  <2>1. ~waiting' /\ \E s : Moved("sent", s)
    BY <1>1, <1>3 DEF Sent
  <2>2. ~(stage = "get" /\ pc \in {8, 9})
    BY <1>0, <1>3, GetStepIs
  <2>3. pc \in Nat
    BY <1>0 DEF ControlTyped
  <2>4. stage' = "get" => pc' \notin {9, 10}
    BY <2>1, <2>2, <2>3, GetMoves
  <2> QED BY <1>0, <2>1, <2>4 DEF Reading
<1>4. CASE step.wait # "nothing"
  <2>1. waiting' /\ Stays
    BY <1>1, <1>4 DEF Sent
  <2>2. CASE stage = "get" /\ pc = 8
    <3>1. step.cmd = "HTTPREAD" /\ ~step.soon
      BY <1>0, <2>2, GetStepIs
    <3>2. out' = <<>> \o r[2]
      BY <1>1, <3>1 DEF Sent
    <3>3. out' = r[2]
      BY <1>2, <3>2
    <3>4. Answers(r[2])
      BY <1>0, <1>2, <3>1, ReadReplies
    <3> QED BY <1>0, <2>1, <2>2, <3>3, <3>4 DEF Reading, Stays
  <2>3. CASE stage = "get" /\ pc \in {9, 10}
    <3>1. step.cmd = "" /\ step.soon
      BY <1>0, <2>3, GetStepIs
    <3>2. r[2] = <<>> /\ out' = out \o r[2]
      <4>1. Unheard(sim, r)
        BY <1>0, <1>2, <3>1, Deaf DEF Fit
      <4>2. q = out /\ out' = q \o r[2]
        BY <1>1, <3>1 DEF Sent
      <4> QED BY <4>1, <4>2 DEF Unheard
    <3>3. out' = out
      BY <1>0, <3>2
    <3> QED BY <1>0, <2>1, <2>3, <3>3 DEF Reading, Stays
  <2> QED BY <1>0, <2>1, <2>2, <2>3 DEF Reading, Stays
<1> QED BY <1>3, <1>4

LEMMA ReadingHear == LoadInv /\ Reading /\ Hear => Reading'
<1> SUFFICES ASSUME LoadInv, Reading, Hear, NoFault' PROVE Reading'
  BY DEF Reading
<1>0. /\ Typed /\ Calling /\ waiting /\ ControlTyped /\ out \in Seq(Tokens) /\ out # <<>>
      /\ out' = RestOf(Head(out)) /\ NoFault /\ clock = "server" /\ pc \in Nat
  <2>1. Typed /\ ControlTyped /\ out \in Seq(Tokens)
    BY DEF LoadInv, Typed, AnswerTyped
  <2>2. Calling /\ waiting /\ out # <<>> /\ out' = RestOf(Head(out))
    BY <2>1, HearIs
  <2>3. NoFault
    BY <2>1, FaultsStay DEF Next
  <2>4. clock = "server"
    BY <2>3 DEF Reading
  <2>5. pc \in Nat
    BY <2>1, <2>2 DEF ControlTyped
  <2> QED BY <2>1, <2>2, <2>3, <2>4, <2>5
<1>1. \/ Heard(Head(out)) = "" /\ Stays /\ UNCHANGED <<try, waiting, sim, clock>>
      \/ /\ Heard(Head(out)) # "" /\ ~waiting' /\ Moved(Heard(Head(out)), sim)
         /\ clock' = IF SetsClock(Heard(Head(out)))
                     THEN IF Heard(Head(out)) = "body" THEN "server" ELSE "wrong"
                     ELSE clock
  BY <1>0, HearIs
<1> DEFINE t == Head(out)
<1>2. stage = "get" /\ pc = 8 =>
        /\ Answers(out) /\ (Heard(t) = "match" <=> t.t = "+HTTPREAD:") /\ Heard(t) \in {"", "match"}
        /\ DOMAIN step.to = {"match"}
        /\ out' = (IF t.t = "+HTTPREAD:" THEN <<M!Tok("line", t.v)>> \o Tail(out) ELSE Tail(out))
  <2>1. SUFFICES ASSUME stage = "get", pc = 8
                 PROVE  /\ Answers(out) /\ (Heard(t) = "match" <=> t.t = "+HTTPREAD:")
                        /\ Heard(t) \in {"", "match"} /\ DOMAIN step.to = {"match"}
                        /\ out' = (IF t.t = "+HTTPREAD:" THEN <<M!Tok("line", t.v)>> \o Tail(out)
                                   ELSE Tail(out))
    OBVIOUS
  <2>2. step.wait = "+HTTPREAD:" /\ DOMAIN step.to = {"match"}
    BY <1>0, <2>1, GetStepIs
  <2>3. Heard(t) = IF t.t = "+HTTPREAD:" THEN "match" ELSE ""
    BY <2>2 DEF Heard
  <2>4. Answers(out)
    BY <1>0, <2>1 DEF Reading
  <2>5. out' = (IF t.t = "+HTTPREAD:" THEN <<M!Tok("line", t.v)>> \o Tail(out) ELSE Tail(out))
    <3> DEFINE c == <<M!Tok("line", t.v)>> \o Tail(out)
    <3>1. (Heard(t) # "match" => RestOf(t) = Tail(out)) /\ (Heard(t) = "match" => RestOf(t) = c)
      BY <1>0, <2>2, RestIs
    <3> HIDE DEF c
    <3>2. out' = IF t.t = "+HTTPREAD:" THEN c ELSE Tail(out)
      BY <1>0, <2>3, <3>1
    <3> QED BY <3>2 DEF c
  <2> QED BY <2>2, <2>3, <2>4, <2>5
<1>3. stage = "get" /\ pc \in {9, 10} => Heard(t) = ReadLine(t) /\ out' = Tail(out)
  <2>1. SUFFICES ASSUME stage = "get", pc \in {9, 10}
                 PROVE  Heard(t) = ReadLine(t) /\ out' = Tail(out)
    OBVIOUS
  <2>2. step.wait = "line"
    BY <1>0, <2>1, GetStepIs
  <2>3. Heard(t) = ReadLine(t)
    BY <2>2 DEF Heard
  <2>4. RestOf(t) = Tail(out)
    BY <1>0, <2>2, RestIs
  <2> QED BY <1>0, <2>3, <2>4
<1>4. /\ ReadLine(Blank) = "" /\ ReadLine(Length) = "length" /\ ReadLine(Body) = "body"
  BY LinesAre DEF ReadLine
<1>5. /\ stage = "get" /\ pc = 9 => (t = Blank /\ BodyAt(out, 2)) \/ (t = Length /\ BodyAt(out, 1))
      /\ stage = "get" /\ pc = 10 => t = Body
  <2>1. stage = "get" /\ pc = 9 => (At(out, 1, Blank) /\ BodyAt(out, 2)) \/ BodyAt(out, 1)
    BY <1>0 DEF Reading
  <2>2. stage = "get" /\ pc = 10 => At(out, 1, Body)
    BY <1>0 DEF Reading
  <2> QED BY <1>0, <2>1, <2>2, AtHead DEF BodyAt
<1>6. At(out, 2, Length) => At(Tail(out), 1, Length)
  <2>1. At(out, 1 + 1, Length) <=> At(Tail(out), 1, Length)
    BY <1>0, AtTail
  <2> QED BY <2>1
<1>7. /\ At(out, 2, Body) => At(Tail(out), 1, Body)
      /\ At(out, 3, Body) => At(Tail(out), 2, Body)
  <2>1. At(out, 1 + 1, Body) <=> At(Tail(out), 1, Body)
    BY <1>0, AtTail
  <2>2. At(out, 2 + 1, Body) <=> At(Tail(out), 2, Body)
    BY <1>0, AtTail
  <2> QED BY <2>1, <2>2
<1> HIDE DEF t
<1>8. CASE Heard(t) = "" /\ Stays /\ UNCHANGED <<waiting, clock>>
  <2>1. CASE stage = "get" /\ pc = 8
    <3>1. Answers(out) /\ out' = Tail(out)
      BY <1>2, <1>8, <2>1
    <3>2. Answers(Tail(out))
      <4>1. SUFFICES ASSUME NEW i \in 1..Len(Tail(out)), Tail(out)[i].t = "+HTTPREAD:"
                     PROVE  Tail(out)[i] = Announces /\ BodyAt(Tail(out), i + 1)
        BY DEF Answers
      <4>2. i + 1 \in 1..Len(out) /\ Tail(out)[i] = out[i + 1] /\ i \in Nat \ {0}
        BY <1>0
      <4>3. out[i + 1] = Announces /\ BodyAt(out, i + 1 + 1)
        BY <3>1, <4>1, <4>2 DEF Answers
      <4>4. BodyAt(Tail(out), i + 1)
        <5>1. At(out, (i + 1) + 1, Length) <=> At(Tail(out), i + 1, Length)
          BY <1>0, <4>2, AtTail
        <5>2. At(out, (i + 2) + 1, Body) <=> At(Tail(out), i + 2, Body)
          BY <1>0, <4>2, AtTail
        <5>3. (i + 2) + 1 = i + 1 + 1 + 1 /\ i + 2 = i + 1 + 1
          BY <4>2
        <5> QED BY <4>3, <5>1, <5>2, <5>3 DEF BodyAt
      <4> QED BY <4>2, <4>3, <4>4
    <3>3. stage' = "get" /\ pc' = 8 /\ clock' = "server"
      BY <1>0, <1>8, <2>1 DEF Stays
    <3> QED BY <3>1, <3>2, <3>3 DEF Reading
  <2>2. CASE stage = "get" /\ pc = 9
    <3>1. BodyAt(out, 2) /\ out' = Tail(out)
      BY <1>3, <1>4, <1>5, <1>8, <2>2
    <3>2. BodyAt(out', 1)
      <4>1. At(out, 2, Length) /\ At(out, 3, Body)
        BY <3>1 DEF BodyAt
      <4>2. At(out', 1, Length) /\ At(out', 2, Body)
        BY <1>6, <1>7, <3>1, <4>1
      <4> QED BY <4>2 DEF BodyAt
    <3>3. stage' = "get" /\ pc' = 9 /\ clock' = "server" /\ waiting'
      BY <1>0, <1>8, <2>2 DEF Stays
    <3> QED BY <3>2, <3>3 DEF Reading
  <2>3. CASE stage = "get" /\ pc = 10
    BY <1>3, <1>4, <1>5, <1>8, <2>3
  <2> QED BY <1>0, <1>8, <2>1, <2>2, <2>3 DEF Reading, Stays
<1>9. CASE /\ Heard(t) # "" /\ ~waiting' /\ Moved(Heard(t), sim)
           /\ clock' = IF SetsClock(Heard(t))
                       THEN IF Heard(t) = "body" THEN "server" ELSE "wrong"
                       ELSE clock
  <2>0. stage' = "get" /\ pc' # 1 => stage = "get" /\ pc' = pc + 1
    BY <1>9, GetMoves
  <2>1. clock' = "server"
    <3>1. SUFFICES ASSUME SetsClock(Heard(t)) PROVE Heard(t) = "body"
      BY <1>0, <1>9
    <3>2. stage = "get" /\ pc = 10
      BY <1>0, <3>1, GetStepIs DEF SetsClock
    <3> QED BY <1>3, <1>4, <1>5, <3>2
  <2>2. stage' = "get" /\ pc' = 9 => At(out', 1, Blank) /\ BodyAt(out', 2)
    <3>1. SUFFICES ASSUME stage' = "get", pc' = 9 PROVE At(out', 1, Blank) /\ BodyAt(out', 2)
      OBVIOUS
    <3>2. stage = "get" /\ pc = 8
      BY <1>0, <2>0, <3>1
    <3>3. t.t = "+HTTPREAD:"
      BY <1>2, <1>9, <3>2
    <3>4. 1 \in 1..Len(out) /\ out[1] = t
      BY <1>0 DEF t
    <3>5. t = Announces /\ BodyAt(out, 2)
      BY <1>2, <3>2, <3>3, <3>4 DEF Answers
    <3>6. out' = <<Blank>> \o Tail(out)
      BY <1>2, <3>2, <3>5, LinesAre DEF Blank
    <3>7. At(Tail(out), 1, Length) /\ At(Tail(out), 2, Body) /\ Tail(out) \in Seq(Tokens)
      BY <1>0, <1>6, <1>7, <3>5 DEF BodyAt
    <3>8. At(out', 1, Blank) /\ At(out', 1 + 1, Length) /\ At(out', 2 + 1, Body)
      BY <3>6, <3>7, LinesAre, AtCons
    <3> QED BY <3>8 DEF BodyAt
  <2>3. stage' = "get" /\ pc' = 10 => At(out', 1, Body)
    <3>1. SUFFICES ASSUME stage' = "get", pc' = 10 PROVE At(out', 1, Body)
      OBVIOUS
    <3>2. stage = "get" /\ pc = 9
      BY <1>0, <2>0, <3>1
    <3>3. BodyAt(out, 1) /\ out' = Tail(out)
      BY <1>3, <1>4, <1>5, <1>9, <3>2
    <3> QED BY <1>7, <3>3 DEF BodyAt
  <2> QED BY <1>9, <2>1, <2>2, <2>3 DEF Reading
<1> QED BY <1>1, <1>8, <1>9 DEF t

LEMMA ReadingAppend ==
  ASSUME out \in Seq(Tokens), Reading, NoFault, NEW e \in Tokens, e.t # "+HTTPREAD:",
         out' = Append(out, e), UNCHANGED <<stage, pc, waiting, clock>>
  PROVE  Reading'
<1>1. \A i \in Nat : \A x : At(out, i, x) => At(out', i, x)
  BY AtAppend
<1>2. \A i \in Nat : BodyAt(out, i) => BodyAt(out', i)
  BY <1>1 DEF BodyAt
<1>3. Answers(out) => Answers(out')
  <2>1. SUFFICES ASSUME Answers(out), NEW i \in 1..Len(out'), out'[i].t = "+HTTPREAD:"
                 PROVE  out'[i] = Announces /\ BodyAt(out', i + 1)
    BY DEF Answers
  <2>2. Len(out) \in Nat /\ Len(out') = Len(out) + 1 /\ out'[Len(out) + 1] = e
        /\ \A k \in 1..Len(out) : out'[k] = out[k]
    OBVIOUS
  <2>3. i \in 1..Len(out)
    BY <2>1, <2>2
  <2>4. out[i] = Announces /\ BodyAt(out, i + 1) /\ i + 1 \in Nat
    BY <2>1, <2>2, <2>3 DEF Answers
  <2> QED BY <1>2, <2>2, <2>3, <2>4
<1> QED BY <1>1, <1>2, <1>3 DEF Reading

LEMMA ReadingOther ==
  LoadInv /\ Reading /\ [Next]_vars /\ ~Send /\ ~Hear => Reading'
<1> SUFFICES ASSUME LoadInv, Reading, [Next]_vars, ~Send, ~Hear, NoFault' PROVE Reading'
  BY DEF Reading
<1>0. /\ Typed /\ NoFault /\ out \in Seq(Tokens) /\ ~ModemResets /\ ~ControllerResets
      /\ (TimeOut => out = <<>>) /\ clock = "server" /\ ControlTyped
  BY FaultsStay DEF LoadInv, Typed, AnswerTyped, Reading
<1>2. CASE UNCHANGED vars
  <2>1. UNCHANGED <<stage, pc, waiting, out, clock>>
    BY <1>2 DEF vars, control, history
  <2> QED BY <1>0, <2>1 DEF Reading
<1>3. CASE TimeOut
  <2>1. /\ waiting /\ out = <<>> /\ clock' = clock /\ ~waiting' /\ Calling
        /\ Stays \/ Moved("none", sim)
    BY <1>0, <1>3, TimeOutIs
  <2>2. ~(stage = "get" /\ pc \in {9, 10})
    BY <1>0, <2>1, AtHead DEF Reading, BodyAt
  <2>3. stage = "get" /\ pc = 8 => "none" \notin DOMAIN step.to
    BY <1>0, <2>1, GetStepIs
  <2>4. pc \in Nat
    BY <1>0, <2>1 DEF ControlTyped
  <2>5. stage' = "get" => pc' \notin {9, 10}
    <3>1. CASE Stays
      BY <2>2, <3>1 DEF Stays
    <3>2. CASE Moved("none", sim)
      BY <2>2, <2>3, <2>4, <3>2, GetMoves
    <3> QED BY <2>1, <3>1, <3>2
  <2> QED BY <1>0, <2>1, <2>5 DEF Reading
<1>4. CASE Start
  <2>1. pc' = 1 /\ clock' = clock
    BY <1>0, <1>4, StartIs
  <2> QED BY <1>0, <2>1 DEF Reading
<1>5. CASE ActionEnds
  <2>1. UNCHANGED <<stage, pc, waiting, clock>>
    BY <1>0, <1>5, ActionEndsIs
  <2>2. PICK st \in {"200", "404"} : Acted(st)
    BY <1>0, <1>5, ActionEndsIs
  <2> DEFINE e == M!Tok("+HTTPACTION:", st)
  <2>3. e \in Tokens /\ e.t # "+HTTPREAD:" /\ out' = Append(out, e)
    BY <2>2 DEF Acted, M!Tok, Tokens
  <2> HIDE DEF e
  <2> QED BY <1>0, <2>1, <2>3, ReadingAppend
<1>6. CASE Modem
  <2>1. UNCHANGED <<stage, pc, waiting, clock>>
        /\ (out' = out \/ out' = Append(out, M!OK))
    BY <1>0, <1>6, ModemIs
  <2>2. CASE out' = out
    BY <1>0, <2>1, <2>2 DEF Reading
  <2>3. CASE out' = Append(out, M!OK)
    <3> DEFINE e == M!OK
    <3>1. e \in Tokens /\ e.t # "+HTTPREAD:" /\ out' = Append(out, e)
      BY <2>3, OkIs
    <3> HIDE DEF e
    <3> QED BY <1>0, <2>1, <3>1, ReadingAppend
  <2> QED BY <2>1, <2>2, <2>3
<1> QED BY <1>0, <1>2, <1>3, <1>4, <1>5, <1>6 DEF Next

\* As long as no answer was late, no tick came before a flush and nothing was reset,
\* rtc_set_time is called with the time that the server has sent and with nothing else,
\* neither the length of the answer nor a line of another one.
THEOREM ClockFromServer == Spec => []ClockWithoutFault
<1>1. Reading => ClockWithoutFault
  BY DEF Reading, ClockWithoutFault
<1>2. Init => LoadInv /\ Reading
  BY TypedInit, LoadInit, ReadingInit DEF LoadInv
<1>3. LoadInv /\ Reading /\ [Next]_vars => LoadInv' /\ Reading'
  BY LoadNext, ReadingSend, ReadingHear, ReadingOther
<1> QED BY <1>1, <1>2, <1>3, PTL DEF Spec

-----------------------------------------------------------------------------
(***************************************************************************)
(* What an upload believes of its post is so: each step of the call after  *)
(* its first is entered from the step before it.                           *)
(***************************************************************************)

\* The driver sends; it hears a text that does not matter; it sends again; the request
\* ends; the network changes, or nothing; the modem is reset.
Asks(q, r) ==
  /\ ~waiting /\ waiting' /\ try' = try + 1 /\ late' = late /\ (served' <=> served)
  /\ r \in M!Replies(sim, step.cmd) /\ sim' = r[1] /\ out' = q \o r[2]
  /\ \E n \in {0, 1} : Keeps(q, n)
Skips ==
  /\ waiting /\ waiting' /\ try' = try /\ sim' = sim /\ late' = late /\ (served' <=> served)
  /\ out # <<>> /\ Heard(Head(out)) = "" /\ out' = Tail(out)
Repeats ==
  /\ waiting /\ ~waiting' /\ try' = try /\ sim' = sim /\ late' >= late /\ (served' <=> served)
  /\ out' = out /\ try < step.tries
Ends(st) ==
  /\ (waiting' <=> waiting) /\ try' = try /\ late' = late
  /\ sim.action # "none" /\ Acted(st)
  /\ (sim'.on <=> sim.on) /\ (sim'.load <=> sim.load) /\ sim'.data = sim.data /\ sim'.action = "none"
Idles ==
  /\ (waiting' <=> waiting) /\ try' = try /\ late' = late /\ (served' <=> served)
  /\ out' = out /\ Same(sim, sim')
Dies ==
  /\ (waiting' <=> waiting) /\ try' = try /\ late' = late /\ (served' <=> served)
  /\ sim' = M!Off /\ out' = <<>>

\* Within a step, and on to the next: after what was waited for, or after nothing.
Within ==
  (\E q, r : Asks(q, r)) \/ Skips \/ Repeats \/ (\E st \in {"200", "404"} : Ends(st))
  \/ Idles \/ Dies
Advances ==
  /\ out # <<>> /\ out' = RestOf(Head(out)) /\ late' = late
  /\ Heard(Head(out)) # "" /\ Heard(Head(out)) \in DOMAIN step.to
GivesUp ==
  /\ "none" \in DOMAIN step.to /\ out' = out
  /\ \/ out = <<>> /\ late' = late
     \/ out # <<>> /\ late < MaxLate /\ late' = late + 1

PostStep ==
  /\ InPost
  /\ \/ pc' = pc /\ Within
     \/ /\ pc' = pc + 1 /\ try' = 0 /\ (served' <=> served) /\ sim' = sim /\ waiting /\ ~waiting'
        /\ Advances \/ GivesUp

LEMMA PostEntered ==
  ASSUME NEW o, NEW s, Moved(o, s), InPost', pc' # 1
  PROVE  /\ InPost /\ pc' = pc + 1 /\ try' = 0 /\ sim' = s /\ (served' <=> served)
         /\ o \in DOMAIN step.to
<1>1. ~Restarted
  BY DEF Restarted, Begins, InPost
<1> QED BY <1>1 DEF Moved, Onward, Returned, InPost

LEMMA PostCases ==
  ASSUME LoadInv, [Next]_vars, InPost', pc' # 1
  PROVE  PostStep
<1>0. /\ Typed /\ Loading /\ ControlTyped /\ out \in Seq(Tokens) /\ late \in Nat
      /\ served \in BOOLEAN
  BY DEF LoadInv, Typed, AnswerTyped, ControlTyped
<1>1. CASE Send
  <2>1. PICK q, r : Sent(q, r) /\ \E n \in {0, 1} : Keeps(q, n)
    BY <1>0, <1>1, SendIs
  <2>2. ~waiting /\ Calling /\ late' = late
    BY <1>0, <1>1, SendIs
  <2>3. InPost
    <3>1. CASE Stays
      BY <3>1 DEF Stays, InPost
    <3>2. CASE \E s : Moved("sent", s)
      BY <3>2, PostEntered
    <3> QED BY <2>1, <3>1, <3>2 DEF Sent
  <2>4. step.wait # "nothing" /\ step.cmd # "TOGGLE"
    <3>1. step.wait # "nothing"
      BY <1>0, <2>2, <2>3, UploadWaits DEF InPost
    <3>2. step.cmd # "TOGGLE"
      BY <1>0, <2>2, <2>3, StepFacts DEF InPost, ControlTyped, Effective
    <3> QED BY <3>1, <3>2
  <2>5. waiting' /\ try' = try + 1 /\ sim' = r[1] /\ Stays /\ out' = q \o r[2]
        /\ r \in M!Replies(sim, step.cmd)
    BY <2>1, <2>4 DEF Sent
  <2>6. Asks(q, r) /\ pc' = pc
    BY <2>1, <2>2, <2>5 DEF Asks, Stays
  <2> QED BY <2>3, <2>6 DEF PostStep, Within
<1>2. CASE Hear
  <2>1. waiting /\ out # <<>> /\ out' = RestOf(Head(out)) /\ late' = late
    BY <1>0, <1>2, HearIs
  <2>2. CASE Heard(Head(out)) = "" /\ Stays /\ UNCHANGED <<try, waiting, sim>>
    <3>1. out' = Tail(out)
      BY <1>0, <2>1, <2>2, RestIs
    <3> QED BY <2>1, <2>2, <3>1 DEF Stays, InPost, PostStep, Within, Skips
  <2>3. CASE Heard(Head(out)) # "" /\ ~waiting' /\ Moved(Heard(Head(out)), sim)
    <3>1. /\ InPost /\ pc' = pc + 1 /\ try' = 0 /\ sim' = sim /\ (served' <=> served)
          /\ Heard(Head(out)) \in DOMAIN step.to
      BY <2>3, PostEntered
    <3> QED BY <2>1, <2>3, <3>1 DEF PostStep, Advances
  <2> QED BY <1>0, <1>2, <2>2, <2>3, HearIs
<1>3. CASE TimeOut
  <2>1. /\ waiting /\ ~waiting' /\ out' = out
        /\ \/ out = <<>> /\ late' = late
           \/ out # <<>> /\ late < MaxLate /\ late' = late + 1
    BY <1>0, <1>3, TimeOutIs
  <2>2. CASE try < step.tries /\ Stays /\ UNCHANGED <<try, sim>>
    <3>1. late' >= late
      BY <1>0, <2>1
    <3> QED BY <2>1, <2>2, <3>1 DEF Stays, InPost, PostStep, Within, Repeats
  <2>3. CASE Moved("none", sim)
    <3>1. /\ InPost /\ pc' = pc + 1 /\ try' = 0 /\ sim' = sim /\ (served' <=> served)
          /\ "none" \in DOMAIN step.to
      BY <2>3, PostEntered
    <3> QED BY <2>1, <3>1 DEF PostStep, GivesUp
  <2> QED BY <1>0, <1>3, <2>2, <2>3, TimeOutIs
<1>4. CASE Start
  BY <1>0, <1>4, StartIs
<1>5. CASE ActionEnds
  <2>1. PICK st \in {"200", "404"} : Acted(st)
    BY <1>0, <1>5, ActionEndsIs
  <2>2. Ends(st) /\ UNCHANGED <<job, stage, pc>>
    BY <1>0, <1>5, <2>1, ActionEndsIs DEF Ends
  <2> QED BY <2>2 DEF PostStep, Within, InPost
<1>6. CASE Modem
  <2>1. UNCHANGED <<job, stage, pc, try, waiting, late, served>>
    BY <1>0, <1>6, ModemIs
  <2>2. InPost
    BY <2>1 DEF InPost
  <2>3. Same(sim, sim') /\ out' = out
    <3>1. SUFFICES ASSUME sim.load, ~(stage = "post" /\ step.cmd \in {"HTTPDATA", "DATA"})
                   PROVE  FALSE
      BY <1>0, <1>6, ModemIs
    <3>2. pc = 5 \/ pc = 6
      BY <1>0, <2>2, <3>1 DEF Loading, Spoiled, InPost
    <3> QED BY <1>0, <2>2, <3>1, <3>2, PostStepIs DEF InPost
  <2> QED BY <2>1, <2>2, <2>3 DEF PostStep, Within, Idles
<1>7. CASE ModemResets
  <2>1. sim' = M!Off /\ out' = <<>> /\ UNCHANGED <<job, stage, pc, try, waiting, served, late>>
    BY <1>7, ModemResetsIs
  <2> QED BY <2>1 DEF PostStep, Within, Dies, InPost
<1>8. CASE ControllerResets
  BY <1>0, <1>8, ControllerResetsIs
<1>9. CASE UNCHANGED vars
  <2>1. UNCHANGED <<job, stage, pc, try, waiting, served, late, sim, out>>
    BY <1>9 DEF vars, control, history, faults
  <2>2. Same(sim, sim')
    BY <1>0, <2>1, SameIs DEF Typed, SimTyped
  <2> QED BY <2>1, <2>2 DEF PostStep, Within, Idles, InPost
<1> QED BY <1>1, <1>2, <1>3, <1>4, <1>5, <1>6, <1>7, <1>8, <1>9 DEF Next

LEMMA AppendIs ==
  ASSUME NEW T, NEW q \in Seq(T), NEW e \in T
  PROVE  /\ Append(q, e) \in Seq(T) /\ Len(q) \in Nat /\ Len(Append(q, e)) = Len(q) + 1
         /\ Append(q, e)[Len(q) + 1] = e
         /\ \A k \in 1..Len(q) : Append(q, e)[k] = q[k]
  OBVIOUS

LEMMA TailIs ==
  ASSUME NEW T, NEW q \in Seq(T), q # <<>>
  PROVE  /\ Tail(q) \in Seq(T) /\ Len(q) \in Nat \ {0} /\ Len(Tail(q)) = Len(q) - 1
         /\ Head(q) = q[1]
         /\ \A k \in 1..Len(Tail(q)) : k + 1 \in 1..Len(q) /\ Tail(q)[k] = q[k + 1]
  OBVIOUS

\* An answer that is no text, or one.
LEMMA OneMore ==
  ASSUME NEW T, NEW q \in Seq(T), NEW e \in T
  PROVE  q \o <<>> = q /\ q \o <<e>> = Append(q, e)
  OBVIOUS

\* What the modem makes of the commands of a post.
LEMMA RequestKept ==
  ASSUME NEW s, Fit(s), NEW c, c \notin {"POST", "GET", "HTTPTERM", "TOGGLE"},
         NEW r \in M!Replies(s, c)
  PROVE  r[1].action = s.action
<1>0. s \in Sims
  BY DEF Fit
<1>1. CASE c \notin Effective \cup {"DATA"}
  BY <1>0, <1>1, Harmless DEF Same
<1>2. CASE c = "DATA"
  BY <1>0, <1>2, Deaf DEF Unheard
<1>3. CASE c \in {"HTTPINIT", "HTTPDATA"}
  <2>1. CASE s.on /\ ~s.load
    <3>1. HttpEffect(s, c, r)
      BY <1>0, <1>3, <2>1, HttpEffects DEF M!HttpCommands
    <3> QED BY <1>3, <3>1 DEF HttpEffect, Refused
  <2>2. CASE ~(s.on /\ ~s.load)
    BY <1>0, <1>3, <2>2, Deaf DEF Unheard
  <2> QED BY <2>1, <2>2
<1> QED BY <1>1, <1>2, <1>3 DEF Effective

LEMMA InitReply ==
  ASSUME NEW s, Fit(s), NEW r \in M!Replies(s, "HTTPINIT"), NEW x \in Held(r[2]), x.t = "OK"
  PROVE  r[1].action = "none"
<1>0. s \in Sims /\ (~s.http => s.action = "none")
  BY DEF Fit
<1>1. Held(<<M!ERROR>>) = {M!ERROR} /\ Held(<<>>) = {}
  BY OkIs, HeldIs
<1>2. CASE s.on /\ ~s.load
  <2>1. HttpEffect(s, "HTTPINIT", r)
    BY <1>0, <1>2, HttpEffects DEF M!HttpCommands
  <2>2. ~Refused(s, r)
    <3>1. r[2] # <<M!ERROR>>
      <4>1. SUFFICES ASSUME r[2] = <<M!ERROR>> PROVE FALSE
        OBVIOUS
      <4>2. x = M!ERROR
        BY <1>1, <4>1
      <4>3. "OK" # "ERROR"
        OBVIOUS
      <4> QED BY <4>2, <4>3, OkIs
    <3> QED BY <3>1 DEF Refused
  <2> QED BY <1>0, <2>1, <2>2 DEF HttpEffect
<1>3. CASE ~(s.on /\ ~s.load)
  <2>1. Unheard(s, r)
    <3>1. ~s.on \/ s.load
      BY <1>3
    <3>2. ASSUME NEW c, c # "DATA", r \in M!Replies(s, c) PROVE Unheard(s, r)
      BY <1>0, <3>1, <3>2, Deaf
    <3>3. "HTTPINIT" # "DATA"
      OBVIOUS
    <3> QED BY <3>2, <3>3
  <2> QED BY <1>1, <2>1 DEF Unheard
<1> QED BY <1>2, <1>3

LEMMA DataReply ==
  ASSUME NEW s, Fit(s), NEW r \in M!Replies(s, "HTTPDATA")
  PROVE  Len(r[2]) \in {0, 1}
<1>0. s \in Sims
  BY DEF Fit
<1>1. CASE s.on /\ ~s.load
  <2>1. HttpEffect(s, "HTTPDATA", r)
    BY <1>0, <1>1, HttpEffects DEF M!HttpCommands
  <2>2. \E e : r[2] = <<e>>
    BY <2>1 DEF HttpEffect, Refused
  <2> QED BY <2>2
<1>2. CASE ~(s.on /\ ~s.load)
  <2>1. r[2] = <<>>
    BY <1>0, <1>2, Deaf DEF Unheard
  <2> QED BY <2>1
<1> QED BY <1>1, <1>2

LEMMA PostReply ==
  ASSUME NEW s, Fit(s), NEW r \in M!Replies(s, "POST")
  PROVE  /\ r[1].data = s.data /\ (r[1].on => s.on)
         /\ \/ r[1] = s /\ (r[2] = <<>> \/ r[2] = <<M!ERROR>>)
            \/ r[1].action = "POST" /\ s.action = "none" /\ r[2] = <<M!OK>>
<1>0. s \in Sims
  BY DEF Fit
<1>1. CASE s.on /\ ~s.load
  <2>1. HttpEffect(s, "POST", r)
    BY <1>0, <1>1, HttpEffects DEF M!HttpCommands
  <2> DEFINE a == <<M!ERROR>>  b == <<M!OK>>
  <2> HIDE DEF a, b
  <2>2. \/ r[1] = s /\ r[2] = a
        \/ r[1].action = "POST" /\ s.action = "none" /\ r[2] = b /\ r[1].data = s.data
    BY <2>1 DEF HttpEffect, Refused, a, b
  <2> QED BY <1>1, <2>2 DEF a, b
<1>2. CASE ~(s.on /\ ~s.load)
  BY <1>0, <1>2, Deaf DEF Unheard
<1> QED BY <1>1, <1>2

-----------------------------------------------------------------------------
\* While no answer was late, no request of an earlier call is running and DOWNLOAD is
\* the last that has come.
Own ==
  InPost /\ late = 0 =>
    /\ pc = 2 /\ waiting /\ Comes("OK") => sim.action = "none"
    /\ pc \in {3, 4, 5, 6} \/ (pc = 7 /\ try = 0) => sim.action = "none"
    /\ pc = 5 /\ waiting => \A i \in 1..Len(out) : i < Len(out) => out[i].t # "DOWNLOAD"

LEMMA FlushedAsks ==
  ASSUME Typed, InPost, pc \in {1, 2, 3, 4, 5, 6, 7}, NEW q, NEW r, Asks(q, r)
  PROVE  /\ q \in Seq(Tokens) /\ (q = <<>> \/ (slow /\ q = out)) /\ Fit(sim) /\ Fit(r[1])
         /\ r \in M!Replies(sim, step.cmd) /\ r[2] \in Seq(Tokens)
         /\ (late = 0 => out' = r[2])
<1>1. ~step.soon
  <2>1. ControlTyped /\ stage = "post" /\ pc <= 7
    BY DEF InPost, Typed
  <2> QED BY <2>1, PostStepIs
<1>2. q \in Seq(Tokens) /\ (q = <<>> \/ (slow /\ q = out))
  BY <1>1 DEF Asks, Keeps
<1>3. Fit(sim) /\ r \in M!Replies(sim, step.cmd) /\ Fit(r[1]) /\ r[2] \in Seq(Tokens)
  BY FitIs, FitReplies DEF Typed, Asks
<1>4. late = 0 => out' = r[2]
  <2>1. SUFFICES ASSUME late = 0 PROVE out' = r[2]
    OBVIOUS
  <2>2. q = <<>>
    BY <1>2, <2>1 DEF Typed, AnswerTyped
  <2>3. out' = <<>> \o r[2]
    BY <2>2 DEF Asks
  <2> QED BY <1>3, <2>3
<1> QED BY <1>2, <1>3, <1>4

LEMMA OwnInit == Init => Own
  BY DEF Init, Own, InPost, Sessions

LEMMA OwnNext == LoadInv /\ Own /\ [Next]_vars => Own'
<1> SUFFICES ASSUME LoadInv, Own, [Next]_vars, InPost', late' = 0
             PROVE  /\ pc' = 2 /\ waiting' /\ Comes("OK")' => sim'.action = "none"
                    /\ pc' \in {3, 4, 5, 6} \/ (pc' = 7 /\ try' = 0) => sim'.action = "none"
                    /\ pc' = 5 /\ waiting' =>
                         \A i \in 1..Len(out') : i < Len(out') => out'[i].t # "DOWNLOAD"
  BY DEF Own
<1>0. /\ Typed /\ Loading /\ ControlTyped /\ out \in Seq(Tokens) /\ late \in Nat
      /\ try \in Nat /\ Fit(sim)
      /\ (waiting => try >= 1)
  BY FitIs DEF LoadInv, Typed, AnswerTyped, ControlTyped, WaitTyped
<1>1. CASE pc' = 1
  BY <1>1
<1>2. CASE pc' # 1
  <2>1. InPost /\ PostStep
    BY <1>2, PostCases DEF PostStep
  <2>2. late = 0
    <3>1. late' >= late
      <4>1. CASE Within
        <5>1. late' = late \/ late' >= late
          BY <4>1, Zenon DEF Within, Asks, Skips, Repeats, Ends, Idles, Dies
        <5> QED BY <1>0, <5>1
      <4>2. CASE Advances \/ GivesUp
        <5>1. late' = late \/ late' = late + 1
          BY <4>2, Zenon DEF Advances, GivesUp
        <5> QED BY <1>0, <5>1
      <4> QED BY <2>1, <4>1, <4>2 DEF PostStep
    <3> QED BY <1>0, <3>1
  <2>3. /\ pc = 2 /\ waiting /\ Comes("OK") => sim.action = "none"
        /\ pc \in {3, 4, 5, 6} \/ (pc = 7 /\ try = 0) => sim.action = "none"
        /\ pc = 5 /\ waiting => \A i \in 1..Len(out) : i < Len(out) => out[i].t # "DOWNLOAD"
    BY <2>1, <2>2 DEF Own
  <2>4. ASSUME NEW q, NEW r, Asks(q, r), pc' = pc
        PROVE  /\ pc' = 2 /\ waiting' /\ Comes("OK")' => sim'.action = "none"
               /\ pc' \in {3, 4, 5, 6} \/ (pc' = 7 /\ try' = 0) => sim'.action = "none"
               /\ pc' = 5 /\ waiting' =>
                    \A i \in 1..Len(out') : i < Len(out') => out'[i].t # "DOWNLOAD"
    <3>1. try' # 0 /\ sim' = r[1]
      BY <1>0, <2>4 DEF Asks
    <3>2. pc \in {1, 2, 3, 4, 5, 6, 7} => r \in M!Replies(sim, step.cmd) /\ out' = r[2]
      BY <1>0, <2>1, <2>2, <2>4, FlushedAsks
    <3>3. CASE pc = 2
      <4>1. step.cmd = "HTTPINIT"
        BY <1>0, <2>1, <3>3, PostStepIs DEF InPost
      <4> QED BY <1>0, <2>4, <3>1, <3>2, <3>3, <4>1, InitReply DEF Comes
    <3>4. CASE pc \in {3, 4, 5, 6}
      <4>1. step.cmd \in {"CID", "URL", "HTTPDATA", "DATA"}
        BY <1>0, <2>1, <3>4, PostStepIs DEF InPost
      <4>2. r[1].action = "none"
        BY <1>0, <2>3, <3>2, <3>4, <4>1, RequestKept
      <4>3. pc = 5 => Len(r[2]) = 0 \/ Len(r[2]) = 1
        <5>1. pc = 5 => step.cmd = "HTTPDATA"
          BY <1>0, <2>1, PostStepIs DEF InPost
        <5> QED BY <1>0, <3>2, <5>1, DataReply
      <4>4. pc = 5 => \A i \in 1..Len(out') : ~(i < Len(out'))
        <5>1. pc = 5 => Len(out') \in {0, 1}
          BY <3>2, <4>3
        <5>2. \A n \in {0, 1} : \A i \in 1..n : ~(i < n)
          OBVIOUS
        <5> QED BY <5>1, <5>2
      <4> QED BY <2>4, <3>1, <3>4, <4>2, <4>4
    <3>5. CASE pc \notin {2, 3, 4, 5, 6}
      BY <2>4, <3>1, <3>5
    <3> QED BY <3>3, <3>4, <3>5
  <2>5. CASE pc' = pc /\ Skips
    <3>1. out # <<>> /\ out' = Tail(out) /\ sim' = sim /\ try' = try /\ waiting /\ waiting'
      BY <2>5 DEF Skips
    <3>2. Comes("OK")' => Comes("OK")
      BY <1>0, <3>1, HeldIs DEF Comes
    <3>3. /\ Len(out) \in Nat \ {0} /\ Len(out') = Len(out) - 1
          /\ \A k \in 1..Len(out') : k + 1 \in 1..Len(out) /\ out'[k] = out[k + 1]
      BY <1>0, <3>1, TailIs
    <3>4. ASSUME \A i \in 1..Len(out) : i < Len(out) => out[i].t # "DOWNLOAD",
                 NEW i \in 1..Len(out'), i < Len(out')
          PROVE  out'[i].t # "DOWNLOAD"
      <4>1. i + 1 \in 1..Len(out) /\ i + 1 < Len(out) /\ out'[i] = out[i + 1]
        BY <3>3, <3>4
      <4> QED BY <3>4, <4>1
    <3> QED BY <2>3, <2>5, <3>1, <3>2, <3>4
  <2>6. CASE pc' = pc /\ Repeats
    BY <2>3, <2>6 DEF Repeats
  <2>7. CASE pc' = pc /\ \E st \in {"200", "404"} : Ends(st)
    <3>1. PICK st \in {"200", "404"} : Ends(st)
      BY <2>7
    <3>2. sim'.action = "none" /\ sim.action # "none" /\ (waiting' <=> waiting)
      BY <3>1 DEF Ends
    <3>3. pc # 5
      BY <2>3, <3>2
    <3> QED BY <2>7, <3>2, <3>3
  <2>8. CASE pc' = pc /\ Idles
    BY <2>3, <2>8 DEF Idles, Same, Comes
  <2>9. CASE pc' = pc /\ Dies
    <3>1. sim'.action = "none" /\ Len(out') = 0
      BY <2>9, OffOn DEF Dies
    <3> QED BY <3>1
  <2>10. CASE pc' = pc + 1 /\ sim' = sim /\ waiting /\ ~waiting' /\ (Advances \/ GivesUp)
    <3>1. pc = 2 => sim.action = "none"
      <4>1. SUFFICES ASSUME pc = 2 PROVE Comes("OK")
        BY <2>3, <2>10
      <4>2. step.wait = "return" /\ DOMAIN step.to = {"OK"}
        BY <1>0, <2>1, <4>1, PostStepIs DEF InPost
      <4>3. out # <<>> /\ Heard(Head(out)) = "OK"
        BY <2>10, <4>2 DEF Advances, GivesUp
      <4>4. Heard(Head(out)) = IF Head(out).t \in Answered THEN Head(out).t ELSE ""
        BY <4>2 DEF Heard, Answer
      <4>5. Head(out).t = "OK"
        BY <4>3, <4>4 DEF Answered
      <4> QED BY <1>0, <4>3, <4>5, HeldIs DEF Comes
    <3>2. pc' \in {3, 4, 5, 6, 7} => sim.action = "none"
      <4>1. pc \in {1, 2, 3, 4, 5, 6, 7, 8, 9}
        BY <1>0, <2>1, PostIs DEF InPost
      <4>2. pc' \in {3, 4, 5, 6, 7} => pc \in {2, 3, 4, 5, 6}
        BY <2>10, <4>1
      <4> QED BY <2>3, <3>1, <4>2
    <3> QED BY <2>10, <3>2
  <2> QED BY <2>1, <2>4, <2>5, <2>6, <2>7, <2>8, <2>9, <2>10 DEF PostStep, Within
<1> QED BY <1>1, <1>2

-----------------------------------------------------------------------------
\* The modem has taken the data of this post once it was sent.
DataIn ==
  InPost /\ sim.on =>
    /\ pc = 6 /\ ~waiting => sim.load
    /\ (pc = 6 /\ waiting) \/ pc \in {7, 8, 9} => sim.data = "new"

\* The answer to the data comes once, and only with it a late end of a request.
OneAtMost(q) ==
  \A i \in 1..Len(q) : \A j \in 1..Len(q) : i < j /\ q[i].t = "OK" => q[j].t # "OK"
DataHeard ==
  InPost /\ pc = 6 =>
    /\ \A x \in Held(out) : (x = M!OK /\ waiting) \/ (x.t = "+HTTPACTION:" /\ late >= 1)
    /\ OneAtMost(out)

\* AT+HTTPACTION is sent when no request runs and what is still to come is OK, or when
\* an end of a request is all that is still to come.
Ready ==
  InPost /\ pc = 7 /\ try = 0 =>
    \/ sim.action = "none" /\ \A x \in Held(out) : x = M!OK
    \/ late >= 1 /\ \A x \in Held(out) : x.t = "+HTTPACTION:"

\* The first answer is an OK, and one that follows it says that the server has accepted.
First(q, k) ==
  k \in 1..Len(q) /\ q[k].t = "OK" /\ \A j \in 1..Len(q) : j < k => q[j].t \notin Answered
Later(q, k) == \E j \in 1..Len(q) : j > k /\ q[j].v = "200"

\* The end of a request that follows the OK to AT+HTTPACTION is that of this post.
PostHeard ==
  InPost /\ pc = 7 /\ try >= 1 =>
    \A k \in Nat : First(out, k) =>
      sim.action \in {"none", "POST"} /\ (Later(out, k) => served)

Waits ==
  InPost /\ pc \in {8, 9} =>
    /\ sim.action \in {"none", "POST"}
    /\ \A x \in Held(out) : x.v = "200" => served

LEMMA FirstAppend ==
  ASSUME NEW T, NEW q \in Seq(T), NEW e \in T, NEW k \in Nat, First(Append(q, e), k)
  PROVE  First(q, k) \/ (k = Len(q) + 1 /\ e.t = "OK")
<1>1. /\ Len(q) \in Nat /\ Len(Append(q, e)) = Len(q) + 1 /\ Append(q, e)[Len(q) + 1] = e
      /\ \A i \in 1..Len(q) : Append(q, e)[i] = q[i]
  BY AppendIs
<1> DEFINE w == Append(q, e)
<1> HIDE DEF w
<1>2. /\ Len(q) \in Nat /\ Len(w) = Len(q) + 1 /\ w[Len(q) + 1] = e
      /\ \A i \in 1..Len(q) : w[i] = q[i]
  BY <1>1 DEF w
<1>3. k \in 1..Len(w) /\ w[k].t = "OK" /\ \A j \in 1..Len(w) : j < k => w[j].t \notin Answered
  BY DEF First, w
<1>4. CASE k = Len(q) + 1
  BY <1>2, <1>3, <1>4
<1>5. CASE k # Len(q) + 1
  <2>1. k \in 1..Len(q)
    BY <1>2, <1>3, <1>5
  <2>2. ASSUME NEW j \in 1..Len(q), j < k PROVE q[j].t \notin Answered
    <3>1. j \in 1..Len(w)
      BY <1>2
    <3> QED BY <1>2, <1>3, <2>2, <3>1
  <2> QED BY <1>2, <1>3, <2>1, <2>2 DEF First
<1> QED BY <1>4, <1>5

LEMMA LaterAppend ==
  ASSUME NEW T, NEW q \in Seq(T), NEW e \in T, NEW k \in Nat, Later(Append(q, e), k)
  PROVE  Later(q, k) \/ e.v = "200"
<1>1. /\ Len(q) \in Nat /\ Len(Append(q, e)) = Len(q) + 1 /\ Append(q, e)[Len(q) + 1] = e
      /\ \A i \in 1..Len(q) : Append(q, e)[i] = q[i]
  BY AppendIs
<1>2. PICK j \in 1..Len(Append(q, e)) : j > k /\ Append(q, e)[j].v = "200"
  BY DEF Later
<1>3. CASE j = Len(q) + 1
  BY <1>1, <1>2, <1>3
<1>4. CASE j # Len(q) + 1
  <2>1. j \in 1..Len(q)
    BY <1>1, <1>4
  <2> QED BY <1>1, <1>2, <2>1 DEF Later
<1> QED BY <1>3, <1>4

LEMMA LastHasNoLater ==
  ASSUME NEW T, NEW q \in Seq(T), NEW e \in T
  PROVE  ~Later(Append(q, e), Len(q) + 1)
<1>1. Len(q) \in Nat /\ Len(Append(q, e)) = Len(q) + 1
  BY AppendIs
<1> QED BY <1>1 DEF Later

LEMMA FirstTail ==
  ASSUME NEW T, NEW q \in Seq(T), q # <<>>, Head(q).t \notin Answered, NEW k \in Nat,
         First(Tail(q), k)
  PROVE  First(q, k + 1) /\ (Later(Tail(q), k) => Later(q, k + 1))
<1>1. /\ Len(q) \in Nat \ {0} /\ Len(Tail(q)) = Len(q) - 1 /\ Head(q) = q[1]
      /\ \A i \in 1..Len(Tail(q)) : i + 1 \in 1..Len(q) /\ Tail(q)[i] = q[i + 1]
  BY TailIs
<1>2. /\ k \in 1..Len(Tail(q)) /\ Tail(q)[k].t = "OK"
      /\ \A j \in 1..Len(Tail(q)) : j < k => Tail(q)[j].t \notin Answered
  BY DEF First
<1>3. ASSUME NEW j \in 1..Len(q), j < k + 1 PROVE q[j].t \notin Answered
  <2>1. CASE j = 1
    BY <1>1, <2>1
  <2>2. CASE j # 1
    <3>1. j - 1 \in 1..Len(Tail(q)) /\ j - 1 < k /\ (j - 1) + 1 = j
      BY <1>1, <1>3, <2>2
    <3> QED BY <1>1, <1>2, <3>1
  <2> QED BY <2>1, <2>2
<1>4. First(q, k + 1)
  BY <1>1, <1>2, <1>3 DEF First
<1>5. ASSUME NEW j \in 1..Len(Tail(q)), j > k, Tail(q)[j].v = "200"
      PROVE  Later(q, k + 1)
  <2>1. j + 1 \in 1..Len(q) /\ j + 1 > k + 1 /\ q[j + 1].v = "200"
    BY <1>1, <1>5
  <2> QED BY <2>1 DEF Later
<1>6. Later(Tail(q), k) => Later(q, k + 1)
  BY <1>5 DEF Later
<1> QED BY <1>4, <1>6

LEMMA FirstIsHead ==
  ASSUME NEW T, NEW q \in Seq(T), q # <<>>, Head(q).t = "OK"
  PROVE  First(q, 1) /\ (~Later(q, 1) => \A x \in Held(Tail(q)) : x.v # "200")
<1>1. /\ Len(q) \in Nat \ {0} /\ Len(Tail(q)) = Len(q) - 1 /\ Head(q) = q[1]
      /\ \A i \in 1..Len(Tail(q)) : i + 1 \in 1..Len(q) /\ Tail(q)[i] = q[i + 1]
  BY TailIs
<1>2. First(q, 1)
  BY <1>1 DEF First
<1>3. ASSUME NEW i \in 1..Len(Tail(q)), Tail(q)[i].v = "200" PROVE Later(q, 1)
  <2>1. i + 1 \in 1..Len(q) /\ i + 1 > 1 /\ q[i + 1].v = "200"
    BY <1>1, <1>3
  <2> QED BY <2>1 DEF Later
<1> QED BY <1>2, <1>3 DEF Held

LEMMA DataInNext == LoadInv /\ DataIn /\ [Next]_vars => DataIn'
<1> SUFFICES ASSUME LoadInv, DataIn, [Next]_vars, InPost', sim'.on
             PROVE  /\ pc' = 6 /\ ~waiting' => sim'.load
                    /\ (pc' = 6 /\ waiting') \/ pc' \in {7, 8, 9} => sim'.data = "new"
  BY DEF DataIn
<1>0. /\ Typed /\ Announced /\ ControlTyped /\ out \in Seq(Tokens) /\ Fit(sim) /\ try \in Nat
      /\ (waiting => try >= 1)
  BY FitIs DEF LoadInv, Typed, AnswerTyped, ControlTyped, WaitTyped
<1>1. CASE pc' = 1
  BY <1>1
<1>2. CASE pc' # 1
  <2>1. InPost /\ PostStep
    BY <1>2, PostCases DEF PostStep
  <2>2. sim.on => /\ pc = 6 /\ ~waiting => sim.load
                  /\ (pc = 6 /\ waiting) \/ pc \in {7, 8, 9} => sim.data = "new"
    BY <2>1 DEF DataIn
  <2>3. ASSUME NEW q, NEW r, Asks(q, r), pc' = pc
        PROVE  /\ pc' = 6 /\ ~waiting' => sim'.load
               /\ (pc' = 6 /\ waiting') \/ pc' \in {7, 8, 9} => sim'.data = "new"
    <3>1. ~waiting /\ waiting' /\ sim' = r[1] /\ r \in M!Replies(sim, step.cmd)
      BY <2>3 DEF Asks
    <3>2. CASE pc = 6
      <4>1. step.cmd = "DATA"
        BY <1>0, <2>1, <3>2, PostStepIs DEF InPost
      <4>2. sim.on /\ sim.load => r[1].data = "new"
        BY <1>0, <3>1, <4>1, Deaf DEF Fit
      <4>3. ~(sim.on /\ sim.load) => r[1] = sim
        BY <1>0, <3>1, <4>1, Deaf DEF Fit, Unheard
      <4> QED BY <2>2, <2>3, <3>1, <3>2, <4>2, <4>3
    <3>3. CASE pc = 7
      <4>1. step.cmd = "POST"
        BY <1>0, <2>1, <3>3, PostStepIs DEF InPost
      <4> QED BY <1>0, <2>2, <2>3, <3>1, <3>3, <4>1, PostReply
    <3>4. CASE pc \in {8, 9}
      <4>1. step.cmd = ""
        BY <1>0, <2>1, <3>4, PostStepIs DEF InPost
      <4>2. r[1] = sim
        BY <1>0, <3>1, <4>1, Deaf DEF Fit, Unheard
      <4> QED BY <2>2, <2>3, <3>1, <3>4, <4>2
    <3> QED BY <2>3, <3>2, <3>3, <3>4
  <2>4. CASE pc' = pc /\ Skips
    BY <2>2, <2>4 DEF Skips
  <2>5. CASE pc' = pc /\ Repeats
    <3>1. pc # 6
      <4>1. SUFFICES ASSUME pc = 6 PROVE step.tries = 1
        BY <1>0, <2>5 DEF Repeats
      <4> QED BY <1>0, <2>1, <4>1, PostStepIs DEF InPost
    <3> QED BY <2>2, <2>5, <3>1 DEF Repeats
  <2>6. CASE pc' = pc /\ \E st \in {"200", "404"} : Ends(st)
    BY <2>2, <2>6 DEF Ends
  <2>7. CASE pc' = pc /\ Idles
    BY <2>2, <2>7 DEF Idles, Same
  <2>8. CASE pc' = pc /\ Dies
    BY <2>8, OffOn DEF Dies
  <2>9. CASE pc' = pc + 1 /\ sim' = sim /\ waiting /\ ~waiting' /\ (Advances \/ GivesUp)
    <3>0. pc \in {1, 2, 3, 4, 5, 6, 7, 8, 9}
      BY <1>0, <2>1, PostIs DEF InPost
    <3>1. CASE pc = 5
      <4>1. step.wait = "DOWNLOAD" /\ DOMAIN step.to = {"match"}
        BY <1>0, <2>1, <3>1, PostStepIs DEF InPost
      <4>2. out # <<>> /\ Heard(Head(out)) = "match"
        BY <2>9, <4>1 DEF Advances, GivesUp
      <4>3. Head(out).t = "DOWNLOAD"
        BY <4>1, <4>2 DEF Heard
      <4>4. 1 \in 1..Len(out) /\ out[1] = Head(out)
        BY <1>0, <4>2
      <4>5. sim.load
        BY <1>0, <2>1, <2>9, <3>1, <4>3, <4>4 DEF Announced
      <4> QED BY <2>9, <3>1, <4>5
    <3>2. CASE pc # 5
      BY <2>2, <2>9, <3>0, <3>2
    <3> QED BY <3>1, <3>2
  <2> QED BY <2>1, <2>3, <2>4, <2>5, <2>6, <2>7, <2>8, <2>9 DEF PostStep, Within
<1> QED BY <1>1, <1>2

LEMMA OneAtMostIs ==
  ASSUME NEW T, NEW q \in Seq(T)
  PROVE  /\ \A e \in T : /\ OneAtMost(q) /\ e.t # "OK" => OneAtMost(Append(q, e))
                         /\ (\A x \in Held(q) : x.t # "OK") => OneAtMost(Append(q, e))
         /\ (\A x \in Held(q) : x.t # "OK") => OneAtMost(q)
         /\ OneAtMost(q) /\ q # <<>> =>
              /\ OneAtMost(Tail(q))
              /\ Head(q).t = "OK" => \A x \in Held(Tail(q)) : x.t # "OK"
<1>1. ASSUME NEW e \in T, (OneAtMost(q) /\ e.t # "OK") \/ \A x \in Held(q) : x.t # "OK",
             NEW i \in 1..Len(Append(q, e)), NEW j \in 1..Len(Append(q, e)), i < j,
             Append(q, e)[i].t = "OK"
      PROVE  Append(q, e)[j].t # "OK"
  <2> DEFINE w == Append(q, e)
  <2>1. /\ Len(q) \in Nat /\ Len(w) = Len(q) + 1 /\ w[Len(q) + 1] = e
        /\ \A k \in 1..Len(q) : w[k] = q[k]
    BY AppendIs
  <2>2. i \in 1..Len(q) /\ w[i] = q[i]
    BY <1>1, <2>1
  <2>3. q[i] \in Held(q) /\ q[i].t = "OK"
    BY <1>1, <2>2 DEF Held
  <2>4. OneAtMost(q) /\ e.t # "OK"
    BY <1>1, <2>3
  <2>5. CASE j = Len(q) + 1
    BY <2>1, <2>4, <2>5
  <2>6. CASE j # Len(q) + 1
    <3>1. j \in 1..Len(q) /\ w[j] = q[j]
      BY <1>1, <2>1, <2>6
    <3> QED BY <1>1, <2>2, <2>3, <2>4, <3>1 DEF OneAtMost
  <2> QED BY <2>5, <2>6
<1>2. (\A x \in Held(q) : x.t # "OK") => OneAtMost(q)
  BY DEF Held, OneAtMost
<1>3. ASSUME OneAtMost(q), q # <<>>
      PROVE  /\ OneAtMost(Tail(q))
             /\ Head(q).t = "OK" => \A x \in Held(Tail(q)) : x.t # "OK"
  <2> DEFINE u == Tail(q)
  <2>1. /\ Len(q) \in Nat \ {0} /\ Len(u) = Len(q) - 1 /\ Head(q) = q[1]
        /\ \A k \in 1..Len(u) : k + 1 \in 1..Len(q) /\ u[k] = q[k + 1]
    BY <1>3, TailIs
  <2> HIDE DEF u
  <2>2. ASSUME NEW i \in 1..Len(u), NEW j \in 1..Len(u), i < j, u[i].t = "OK" PROVE u[j].t # "OK"
    <3>1. i + 1 \in 1..Len(q) /\ j + 1 \in 1..Len(q) /\ i + 1 < j + 1
          /\ u[i] = q[i + 1] /\ u[j] = q[j + 1]
      BY <2>1, <2>2
    <3> QED BY <1>3, <2>2, <3>1 DEF OneAtMost
  <2>3. ASSUME Head(q).t = "OK", NEW j \in 1..Len(u) PROVE u[j].t # "OK"
    <3>1. /\ 1 \in 1..Len(q) /\ j + 1 \in 1..Len(q) /\ 1 < j + 1 /\ u[j] = q[j + 1]
          /\ q[1].t = "OK"
      BY <2>1, <2>3
    <3> QED BY <1>3, <3>1 DEF OneAtMost
  <2>4. OneAtMost(u) /\ (Head(q).t = "OK" => \A x \in Held(u) : x.t # "OK")
    BY <2>2, <2>3 DEF OneAtMost, Held
  <2> QED BY <2>4 DEF u
<1> QED BY <1>1, <1>2, <1>3 DEF OneAtMost

\* The texts of the modem that say that a request has ended.
LEMMA EndIs ==
  ASSUME NEW st \in {"200", "404"}
  PROVE  LET e == M!Tok("+HTTPACTION:", st)
         IN  e \in Tokens /\ e.t = "+HTTPACTION:" /\ e.t # "OK" /\ e.v = st /\ e # M!OK
<1> DEFINE e == M!Tok("+HTTPACTION:", st)
<1>1. e \in Tokens
  BY DEF M!Tok, Tokens
<1>2. e.t = "+HTTPACTION:" /\ e.v = st
  BY TokIs
<1> HIDE DEF e
<1>3. e.t # "OK"
  BY <1>2
<1>4. e # M!OK
  BY <1>3, OkIs
<1>5. e \in Tokens /\ e.t = "+HTTPACTION:" /\ e.t # "OK" /\ e.v = st /\ e # M!OK
  BY <1>1, <1>2, <1>3, <1>4
<1> QED BY <1>5 DEF e

LEMMA HeardReturn ==
  ASSUME NEW x, step.wait = "return"
  PROVE  Heard(x) = IF x.t \in {"OK", "ERROR"} THEN x.t ELSE ""
  BY DEF Heard, Answer, Answered

LEMMA DataHeardNext == LoadInv /\ Own /\ DataHeard /\ [Next]_vars => DataHeard'
<1> SUFFICES ASSUME LoadInv, Own, DataHeard, [Next]_vars, InPost', pc' = 6
             PROVE  /\ \A x \in Held(out') : (x = M!OK /\ waiting') \/ (x.t = "+HTTPACTION:" /\ late' >= 1)
                    /\ OneAtMost(out')
  BY DEF DataHeard, Held, OneAtMost
<1>0. /\ Typed /\ Announced /\ ControlTyped /\ out \in Seq(Tokens) /\ Fit(sim)
      /\ try \in Nat /\ late \in Nat
      /\ (waiting => try >= 1)
  BY FitIs DEF LoadInv, Typed, AnswerTyped, ControlTyped, WaitTyped
<1>1. InPost /\ PostStep
  BY PostCases DEF PostStep
<1>2. pc = 6 =>
        /\ step.cmd = "DATA" /\ step.wait = "return" /\ step.tries = 1
        /\ \A x \in Held(out) : (x = M!OK /\ waiting) \/ (x.t = "+HTTPACTION:" /\ late >= 1)
        /\ OneAtMost(out)
  BY <1>0, <1>1, PostStepIs DEF DataHeard, InPost
<1>3. ASSUME NEW q, NEW r, Asks(q, r), pc = 6
      PROVE  /\ \A x \in Held(out') : (x = M!OK /\ waiting') \/ (x.t = "+HTTPACTION:" /\ late' >= 1)
             /\ OneAtMost(out')
  <2>1. ~waiting /\ waiting' /\ late' = late /\ out' = q \o r[2]
    BY <1>3 DEF Asks
  <2>2. /\ q \in Seq(Tokens) /\ (q = <<>> \/ q = out) /\ r \in M!Replies(sim, step.cmd)
    BY <1>0, <1>1, <1>3, FlushedAsks
  <2>3. \A x \in Held(q) : x.t = "+HTTPACTION:" /\ late >= 1
    BY <1>2, <1>3, <2>1, <2>2, HeldIs
  <2>4. r[2] = <<>> \/ r[2] = <<M!OK>>
    BY <1>0, <1>2, <1>3, <2>2, Deaf DEF Fit, Unheard
  <2>5. CASE r[2] = <<>>
    <3>1. out' = q
      BY <2>1, <2>2, <2>5, OneMore
    <3> QED BY <2>1, <2>2, <2>3, <3>1, OneAtMostIs
  <2>6. CASE r[2] = <<M!OK>>
    <3> DEFINE e == M!OK
    <3>1. e \in Tokens /\ out' = q \o <<e>>
      BY <2>1, <2>6, OkIs
    <3> HIDE DEF e
    <3>2. out' = Append(q, e)
      BY <2>2, <3>1, OneMore
    <3>3. Held(out') = Held(q) \cup {e}
      <4>1. q \in Seq(Tokens) /\ e \in Tokens
        BY <2>2, <3>1
      <4>2. Held(Append(q, e)) = Held(q) \cup {e}
        BY <4>1, HeldIs
      <4> QED BY <3>2, <4>2
    <3>4. \A x \in Held(q) : x.t # "OK"
      BY <2>3
    <3>5. OneAtMost(out')
      BY <2>2, <3>1, <3>2, <3>4, OneAtMostIs
    <3> QED BY <2>1, <2>3, <3>3, <3>5 DEF e
  <2> QED BY <2>4, <2>5, <2>6
<1>4. CASE pc = 6 /\ Skips
  <2>1. out # <<>> /\ out' = Tail(out) /\ (waiting' <=> waiting) /\ late' = late
    BY <1>4 DEF Skips
  <2> QED BY <1>0, <1>2, <1>4, <2>1, HeldIs, OneAtMostIs
<1>5. CASE pc = 6 /\ Repeats
  BY <1>0, <1>2, <1>5 DEF Repeats
<1>6. CASE pc = 6 /\ \E st \in {"200", "404"} : Ends(st)
  <2>1. PICK st \in {"200", "404"} : Ends(st)
    BY <1>6
  <2> DEFINE e == M!Tok("+HTTPACTION:", st)
  <2>2. e \in Tokens /\ e.t = "+HTTPACTION:" /\ e.t # "OK" /\ out' = Append(out, e)
    BY <2>1, EndIs DEF Ends, Acted
  <2> HIDE DEF e
  <2>3. (waiting' <=> waiting) /\ late' = late /\ sim.action # "none"
    BY <2>1 DEF Ends
  <2>4. late >= 1
    BY <1>0, <1>1, <1>6, <2>3 DEF Own
  <2>5. Held(out') = Held(out) \cup {e} /\ OneAtMost(out')
    BY <1>0, <1>2, <1>6, <2>2, HeldIs, OneAtMostIs
  <2> QED BY <1>2, <1>6, <2>2, <2>3, <2>4, <2>5
<1>7. CASE pc = 6 /\ Idles
  BY <1>2, <1>7 DEF Idles
<1>8. CASE pc = 6 /\ Dies
  <2>1. out' = <<>>
    BY <1>8 DEF Dies
  <2> QED BY <2>1, HeldIs, OneAtMostIs DEF OneAtMost
<1>9. CASE pc = 5 /\ waiting /\ (Advances \/ GivesUp)
  <2>1. step.wait = "DOWNLOAD" /\ DOMAIN step.to = {"match"}
    BY <1>0, <1>1, <1>9, PostStepIs DEF InPost
  <2>2. out # <<>> /\ Heard(Head(out)) = "match" /\ out' = RestOf(Head(out)) /\ late' = late
    BY <1>9, <2>1 DEF Advances, GivesUp
  <2>3. Head(out).t = "DOWNLOAD" /\ out' = Tail(out)
    BY <1>0, <2>1, <2>2, RestIs DEF Heard
  <2> DEFINE u == Tail(out)
  <2>4. /\ Len(out) \in Nat \ {0} /\ Len(u) = Len(out) - 1 /\ Head(out) = out[1]
        /\ u \in Seq(Tokens)
        /\ \A k \in 1..Len(u) : k + 1 \in 1..Len(out) /\ u[k] = out[k + 1]
    BY <1>0, <2>2, TailIs
  <2> HIDE DEF u
  <2>5. 1 \in 1..Len(out) /\ out[1].t = "DOWNLOAD"
    BY <2>3, <2>4
  <2>6. \A k \in 1..Len(out) : k > 1 => out[k].t = "+HTTPACTION:"
    BY <1>0, <1>1, <1>9, <2>5 DEF Announced
  <2>7. ASSUME NEW k \in 1..Len(u) PROVE u[k].t = "+HTTPACTION:" /\ late >= 1
    <3>1. k + 1 > 1 /\ k + 1 \in 1..Len(out) /\ u[k] = out[k + 1] /\ 1 < Len(out)
      BY <2>4, <2>7
    <3>2. late # 0
      BY <1>1, <1>9, <2>5, <3>1 DEF Own
    <3> QED BY <1>0, <2>6, <3>1, <3>2
  <2>8. \A x \in Held(u) : x.t = "+HTTPACTION:" /\ late >= 1
    BY <2>7 DEF Held
  <2>9. OneAtMost(u)
    BY <2>4, <2>8, OneAtMostIs
  <2> QED BY <2>2, <2>3, <2>8, <2>9 DEF u
<1>10. pc = 6 \/ pc = 5
  <2>1. pc \in {1, 2, 3, 4, 5, 6, 7, 8, 9}
    BY <1>0, <1>1, PostIs DEF InPost
  <2> QED BY <1>1, <2>1 DEF PostStep
<1> QED BY <1>1, <1>3, <1>4, <1>5, <1>6, <1>7, <1>8, <1>9, <1>10 DEF PostStep, Within

LEMMA ReadyNext ==
  ASSUME MaxLate <= 1
  PROVE  LoadInv /\ Own /\ DataHeard /\ Ready /\ [Next]_vars => Ready'
<1> SUFFICES ASSUME LoadInv, Own, DataHeard, Ready, [Next]_vars, InPost', pc' = 7, try' = 0
             PROVE  \/ sim'.action = "none" /\ \A x \in Held(out') : x = M!OK
                    \/ late' >= 1 /\ \A x \in Held(out') : x.t = "+HTTPACTION:"
  BY DEF Ready, Held
<1>0. /\ Typed /\ ControlTyped /\ out \in Seq(Tokens) /\ try \in Nat /\ late \in Nat
      /\ (waiting => try >= 1)
  BY DEF LoadInv, Typed, AnswerTyped, ControlTyped, WaitTyped
<1>1. InPost /\ PostStep
  BY PostCases DEF PostStep
<1>2. pc = 7 /\ try = 0 =>
        \/ sim.action = "none" /\ \A x \in Held(out) : x = M!OK
        \/ late >= 1 /\ \A x \in Held(out) : x.t = "+HTTPACTION:"
  BY <1>1 DEF Ready
<1>3. CASE pc = 7 /\ \E q, r : Asks(q, r)
  BY <1>0, <1>3 DEF Asks
<1>4. CASE pc = 7 /\ (Skips \/ Repeats)
  <2>1. try' = try /\ waiting
    BY <1>4 DEF Skips, Repeats
  <2> QED BY <1>0, <2>1
<1>6. CASE pc = 7 /\ \E st \in {"200", "404"} : Ends(st)
  <2>1. PICK st \in {"200", "404"} : Ends(st)
    BY <1>6
  <2> DEFINE e == M!Tok("+HTTPACTION:", st)
  <2>2. e \in Tokens /\ e.t = "+HTTPACTION:" /\ out' = Append(out, e)
    BY <2>1, EndIs DEF Ends, Acted
  <2> HIDE DEF e
  <2>3. late' = late /\ sim.action # "none" /\ try = 0
    BY <2>1 DEF Ends
  <2>4. Held(out') = Held(out) \cup {e}
    BY <1>0, <2>2, HeldIs
  <2> QED BY <1>2, <1>6, <2>2, <2>3, <2>4
<1>7. CASE pc = 7 /\ Idles
  BY <1>2, <1>7 DEF Idles, Same
<1>8. CASE pc = 7 /\ Dies
  <2>1. out' = <<>> /\ sim' = M!Off
    BY <1>8 DEF Dies
  <2> QED BY <2>1, HeldIs, OffOn
<1>9. CASE pc = 6 /\ waiting /\ sim' = sim /\ (Advances \/ GivesUp)
  <2>1. step.wait = "return"
    BY <1>0, <1>1, <1>9, PostStepIs DEF InPost
  <2>2. /\ \A x \in Held(out) : x = M!OK \/ (x.t = "+HTTPACTION:" /\ late >= 1)
        /\ OneAtMost(out)
    BY <1>1, <1>9 DEF DataHeard
  <2>3. late = 0 => sim.action = "none"
    BY <1>1, <1>9 DEF Own
  <2>4. CASE Advances
    <3>1. out # <<>> /\ Heard(Head(out)) # "" /\ out' = RestOf(Head(out)) /\ late' = late
      BY <2>4 DEF Advances
    <3>2. Head(out).t \in {"OK", "ERROR"} /\ Heard(Head(out)) # "match"
      BY <2>1, <3>1, HeardReturn
    <3>3. Head(out) \in Held(out) /\ out' = Tail(out) /\ Held(Tail(out)) \subseteq Held(out)
      <4>1. Held(out) = {Head(out)} \cup Held(Tail(out))
        BY <1>0, <3>1, HeldIs
      <4>2. out' = Tail(out)
        BY <1>0, <3>1, <3>2, RestIs
      <4> QED BY <4>1, <4>2
    <3>4. Head(out).t = "OK"
      BY <2>2, <3>2, <3>3, OkIs
    <3>5. \A x \in Held(Tail(out)) : x.t # "OK"
      BY <1>0, <2>2, <3>1, <3>4, OneAtMostIs
    <3>6. ASSUME NEW x \in Held(Tail(out)) PROVE x.t = "+HTTPACTION:" /\ late >= 1
      <4>1. x \in Held(out) /\ x.t # "OK"
        BY <3>3, <3>5
      <4>2. x # M!OK
        BY <4>1, OkIs
      <4> QED BY <2>2, <4>1, <4>2
    <3>7. out' = Tail(out) /\ late' = late /\ sim' = sim
      BY <1>9, <3>1, <3>3
    <3>8. CASE late = 0
      <4>1. \A x \in Held(Tail(out)) : x = M!OK
        BY <3>6, <3>8
      <4> QED BY <2>3, <3>7, <3>8, <4>1
    <3>9. CASE late >= 1
      BY <3>6, <3>7, <3>9
    <3> QED BY <1>0, <3>8, <3>9
  <2>5. CASE GivesUp /\ out = <<>>
    <3>1. out' = out /\ late' = late /\ Held(out) = {}
      BY <2>5, HeldIs DEF GivesUp
    <3> QED BY <1>0, <1>9, <2>3, <3>1
  <2>6. CASE GivesUp /\ out # <<>>
    <3>1. out' = out /\ late < MaxLate
      BY <2>6 DEF GivesUp
    <3>2. late = 0
      BY <1>0, <3>1, ModemAssumption
    <3> QED BY <1>9, <2>2, <2>3, <3>1, <3>2
  <2> QED BY <1>9, <2>4, <2>5, <2>6
<1>10. pc = 7 \/ pc = 6
  <2>1. pc \in {1, 2, 3, 4, 5, 6, 7, 8, 9}
    BY <1>0, <1>1, PostIs DEF InPost
  <2> QED BY <1>1, <2>1 DEF PostStep
<1> QED BY <1>1, <1>3, <1>4, <1>6, <1>7, <1>8, <1>9, <1>10 DEF PostStep, Within

\* What the modem has answered when AT+HTTPACTION is sent, the first time or again.
LEMMA PostKnown ==
  ASSUME InPost, pc = 7, Ready, PostHeard, try \in Nat, out \in Seq(Tokens)
  PROVE  \A k \in Nat : First(out, k) =>
           sim.action \in {"none", "POST"} /\ (Later(out, k) => served)
<1>1. CASE try >= 1
  BY <1>1 DEF PostHeard
<1>2. CASE try = 0
  <2>1. CASE sim.action = "none" /\ \A x \in Held(out) : x = M!OK
    <3>1. ASSUME NEW k \in Nat, Later(out, k) PROVE FALSE
      <4>1. PICK j \in 1..Len(out) : out[j].v = "200"
        BY <3>1 DEF Later
      <4>2. out[j] \in Held(out)
        BY DEF Held
      <4>3. out[j].v = ""
        BY <2>1, <4>2, OkIs
      <4> QED BY <4>1, <4>3
    <3> QED BY <2>1, <3>1
  <2>2. CASE \A x \in Held(out) : x.t = "+HTTPACTION:"
    <3>1. ASSUME NEW k \in Nat, First(out, k) PROVE FALSE
      <4>1. k \in 1..Len(out) /\ out[k].t = "OK"
        BY <3>1 DEF First
      <4>2. out[k] \in Held(out)
        BY <4>1 DEF Held
      <4> QED BY <2>2, <4>1, <4>2
    <3> QED BY <3>1
  <2> QED BY <1>2, <2>1, <2>2 DEF Ready
<1> QED BY <1>1, <1>2

\* No text is the first answer of none.
LEMMA NoneIsFirst == \A k \in Nat : ~First(<<>>, k)
  BY DEF First

LEMMA PostHeardNext ==
  LoadInv /\ DataIn /\ Ready /\ PostHeard /\ [Next]_vars => PostHeard'
<1> SUFFICES ASSUME LoadInv, DataIn, Ready, PostHeard, [Next]_vars, InPost', pc' = 7, try' >= 1
             PROVE  \A k \in Nat : First(out', k) =>
                      sim'.action \in {"none", "POST"} /\ (Later(out', k) => served')
  BY DEF PostHeard, First, Later
<1>0. /\ Typed /\ ControlTyped /\ out \in Seq(Tokens) /\ Fit(sim) /\ try \in Nat
      /\ (waiting => try >= 1)
  BY FitIs DEF LoadInv, Typed, AnswerTyped, ControlTyped, WaitTyped
<1>1. InPost /\ PostStep
  BY PostCases DEF PostStep
<1>2. pc = 7
  <2>1. pc' = pc
    BY <1>1 DEF PostStep
  <2> QED BY <2>1
<1>3. step.cmd = "POST" /\ step.wait = "return"
  BY <1>0, <1>1, <1>2, PostStepIs DEF InPost
<1>4. \A k \in Nat : First(out, k) => sim.action \in {"none", "POST"} /\ (Later(out, k) => served)
  BY <1>0, <1>1, <1>2, PostKnown
<1>5. ASSUME NEW q, NEW r, Asks(q, r)
      PROVE  \A k \in Nat : First(out', k) =>
               sim'.action \in {"none", "POST"} /\ (Later(out', k) => served')
  <2>1. (served' <=> served) /\ sim' = r[1] /\ out' = q \o r[2]
    BY <1>5 DEF Asks
  <2>2. /\ q \in Seq(Tokens) /\ (q = <<>> \/ q = out) /\ r \in M!Replies(sim, step.cmd)
    BY <1>0, <1>1, <1>2, <1>5, FlushedAsks
  <2>3. \A k \in Nat : First(q, k) => sim.action \in {"none", "POST"} /\ (Later(q, k) => served)
    BY <1>4, <2>2, NoneIsFirst
  <2>4. \/ r[1] = sim /\ r[2] = <<>>
        \/ r[1] = sim /\ r[2] = <<M!ERROR>>
        \/ r[1].action = "POST" /\ r[2] = <<M!OK>>
    BY <1>0, <1>3, <2>2, PostReply
  <2>5. CASE r[1] = sim /\ r[2] = <<>>
    <3>1. out' = q
      BY <2>1, <2>2, <2>5, OneMore
    <3> QED BY <2>1, <2>3, <2>5, <3>1
  <2>6. CASE r[1] = sim /\ r[2] = <<M!ERROR>>
    <3> DEFINE e == M!ERROR
    <3>1. e \in Tokens /\ out' = q \o <<e>> /\ e.t # "OK" /\ e.v # "200"
      BY <2>1, <2>6, OkIs
    <3> HIDE DEF e
    <3>2. q \in Seq(Tokens) /\ out' = Append(q, e)
      BY <2>2, <3>1, OneMore
    <3>3. ASSUME NEW k \in Nat, First(Append(q, e), k)
          PROVE  First(q, k) /\ (Later(Append(q, e), k) => Later(q, k))
      <4>1. First(q, k)
        BY <3>1, <3>2, <3>3, FirstAppend
      <4>2. Later(Append(q, e), k) => Later(q, k)
        BY <3>1, <3>2, LaterAppend
      <4> QED BY <4>1, <4>2
    <3> QED BY <2>1, <2>3, <2>6, <3>2, <3>3
  <2>7. CASE r[1].action = "POST" /\ r[2] = <<M!OK>>
    <3> DEFINE e == M!OK
    <3>1. e \in Tokens /\ out' = q \o <<e>> /\ e.v # "200"
      BY <2>1, <2>7, OkIs
    <3> HIDE DEF e
    <3>2. q \in Seq(Tokens) /\ out' = Append(q, e)
      BY <2>2, <3>1, OneMore
    <3>3. ASSUME NEW k \in Nat, First(Append(q, e), k), Later(Append(q, e), k) PROVE served
      <4>1. First(q, k) \/ k = Len(q) + 1
        BY <3>1, <3>2, <3>3, FirstAppend
      <4>2. Later(q, k)
        BY <3>1, <3>2, <3>3, LaterAppend
      <4>3. ~Later(Append(q, e), Len(q) + 1)
        BY <3>1, <3>2, LastHasNoLater
      <4> QED BY <2>3, <3>3, <4>1, <4>2, <4>3
    <3> QED BY <2>1, <2>7, <3>2, <3>3
  <2> QED BY <2>4, <2>5, <2>6, <2>7
<1>6. CASE Skips
  <2>1. out # <<>> /\ Heard(Head(out)) = "" /\ out' = Tail(out) /\ sim' = sim /\ (served' <=> served)
    BY <1>6 DEF Skips
  <2>2. Head(out).t \notin Answered
    BY <1>3, <2>1, HeardReturn DEF Answered
  <2>3. ASSUME NEW k \in Nat, First(Tail(out), k)
        PROVE  sim.action \in {"none", "POST"} /\ (Later(Tail(out), k) => served)
    <3>1. First(out, k + 1) /\ (Later(Tail(out), k) => Later(out, k + 1))
      BY <1>0, <2>1, <2>2, <2>3, FirstTail
    <3>2. k + 1 \in Nat
      OBVIOUS
    <3> QED BY <1>4, <3>1, <3>2
  <2> QED BY <2>1, <2>3
<1>7. CASE Repeats
  BY <1>4, <1>7 DEF Repeats
<1>8. CASE \E st \in {"200", "404"} : Ends(st)
  <2>1. PICK st \in {"200", "404"} : Ends(st)
    BY <1>8
  <2> DEFINE e == M!Tok("+HTTPACTION:", st)
  <2>2. e \in Tokens /\ e.t # "OK" /\ e.v = st /\ out' = Append(out, e)
    BY <2>1, EndIs DEF Ends, Acted
  <2> HIDE DEF e
  <2>3. /\ sim.action # "none" /\ sim'.action = "none"
        /\ (served' <=> served \/ (sim.action = "POST" /\ sim.data = "new" /\ st = "200"))
    BY <2>1 DEF Ends, Acted
  <2>4. sim.data = "new"
    <3>1. sim.on
      BY <1>0, <2>3 DEF Fit
    <3> QED BY <1>1, <1>2, <3>1 DEF DataIn
  <2>5. ASSUME NEW k \in Nat, First(Append(out, e), k), Later(Append(out, e), k)
        PROVE  served'
    <3>1. First(out, k)
      BY <1>0, <2>2, <2>5, FirstAppend
    <3>2. sim.action = "POST"
      BY <1>4, <2>3, <3>1
    <3>3. Later(out, k) \/ e.v = "200"
      BY <1>0, <2>2, <2>5, LaterAppend
    <3> QED BY <1>4, <2>2, <2>3, <2>4, <3>1, <3>2, <3>3
  <2> QED BY <2>2, <2>3, <2>5
<1>9. CASE Idles
  BY <1>4, <1>9 DEF Idles, Same
<1>10. CASE Dies
  <2>1. out' = <<>>
    BY <1>10 DEF Dies
  <2> QED BY <2>1, NoneIsFirst
<1> QED BY <1>1, <1>2, <1>5, <1>6, <1>7, <1>8, <1>9, <1>10 DEF PostStep, Within

LEMMA WaitsNext ==
  LoadInv /\ DataIn /\ PostHeard /\ Waits /\ [Next]_vars => Waits'
<1> SUFFICES ASSUME LoadInv, DataIn, PostHeard, Waits, [Next]_vars, InPost', pc' \in {8, 9}
             PROVE  /\ sim'.action \in {"none", "POST"}
                    /\ \A x \in Held(out') : x.v = "200" => served'
  BY DEF Waits, Held
<1>0. /\ Typed /\ ControlTyped /\ out \in Seq(Tokens) /\ Fit(sim) /\ try \in Nat
      /\ (waiting => try >= 1)
  BY FitIs DEF LoadInv, Typed, AnswerTyped, ControlTyped, WaitTyped
<1>1. InPost /\ PostStep
  BY PostCases DEF PostStep
<1>2. pc \in {8, 9} =>
        /\ sim.action \in {"none", "POST"}
        /\ \A x \in Held(out) : x.v = "200" => served
  BY <1>1 DEF Waits
<1>3. ASSUME NEW q, NEW r, Asks(q, r), pc \in {8, 9}
      PROVE  sim'.action \in {"none", "POST"} /\ \A x \in Held(out') : x.v = "200" => served'
  <2>1. step.cmd = ""
    BY <1>0, <1>1, <1>3, PostStepIs DEF InPost
  <2>2. (served' <=> served) /\ sim' = r[1] /\ out' = q \o r[2] /\ r \in M!Replies(sim, step.cmd)
    BY <1>3 DEF Asks
  <2>3. r[1] = sim /\ r[2] = <<>>
    BY <1>0, <2>1, <2>2, Deaf DEF Fit, Unheard
  <2>4. q \in Seq(Tokens) /\ Held(q) \subseteq Held(out) \cup {Cut}
    <3>1. PICK n \in {0, 1} : Keeps(q, n)
      BY <1>3 DEF Asks
    <3> QED BY <1>0, <3>1, KeepsHeld
  <2>5. out' = q
    BY <2>2, <2>3, <2>4, OneMore
  <2>6. Cut.v # "200"
    BY CutIs
  <2> QED BY <1>2, <1>3, <2>2, <2>3, <2>4, <2>5, <2>6
<1>4. CASE pc \in {8, 9} /\ Skips
  <2>1. out # <<>> /\ out' = Tail(out) /\ sim' = sim /\ (served' <=> served)
    BY <1>4 DEF Skips
  <2>2. Held(Tail(out)) \subseteq Held(out)
    BY <1>0, <2>1, HeldIs
  <2> QED BY <1>2, <1>4, <2>1, <2>2
<1>5. CASE pc \in {8, 9} /\ Repeats
  BY <1>2, <1>5 DEF Repeats
<1>6. CASE pc \in {8, 9} /\ \E st \in {"200", "404"} : Ends(st)
  <2>1. PICK st \in {"200", "404"} : Ends(st)
    BY <1>6
  <2> DEFINE e == M!Tok("+HTTPACTION:", st)
  <2>2. e \in Tokens /\ e.v = st /\ out' = Append(out, e)
    BY <2>1, EndIs DEF Ends, Acted
  <2> HIDE DEF e
  <2>3. /\ sim.action # "none" /\ sim'.action = "none"
        /\ (served' <=> served \/ (sim.action = "POST" /\ sim.data = "new" /\ st = "200"))
    BY <2>1 DEF Ends, Acted
  <2>4. sim.data = "new" /\ sim.action = "POST"
    <3>1. sim.on
      BY <1>0, <2>3 DEF Fit
    <3>2. sim.data = "new"
      BY <1>1, <1>6, <3>1 DEF DataIn
    <3> QED BY <1>2, <1>6, <2>3, <3>2
  <2>5. Held(out') = Held(out) \cup {e}
    BY <1>0, <2>2, HeldIs
  <2> QED BY <1>2, <1>6, <2>2, <2>3, <2>4, <2>5
<1>7. CASE pc \in {8, 9} /\ Idles
  BY <1>2, <1>7 DEF Idles, Same
<1>8. CASE pc \in {8, 9} /\ Dies
  <2>1. out' = <<>> /\ sim' = M!Off
    BY <1>8 DEF Dies
  <2> QED BY <2>1, HeldIs, OffOn
<1>9. CASE pc = 7 /\ waiting /\ sim' = sim /\ (served' <=> served) /\ (Advances \/ GivesUp)
  <2>1. step.wait = "return" /\ DOMAIN step.to = {"OK"}
    BY <1>0, <1>1, <1>9, PostStepIs DEF InPost
  <2>2. out # <<>> /\ Heard(Head(out)) = "OK" /\ out' = RestOf(Head(out))
    BY <1>9, <2>1 DEF Advances, GivesUp
  <2>3. Head(out).t = "OK"
    BY <2>1, <2>2, HeardReturn
  <2>4. out' = Tail(out)
    BY <1>0, <2>1, <2>2, RestIs
  <2>5. First(out, 1) /\ (~Later(out, 1) => \A x \in Held(Tail(out)) : x.v # "200")
    BY <1>0, <2>2, <2>3, FirstIsHead
  <2>6. sim.action \in {"none", "POST"} /\ (Later(out, 1) => served)
    BY <1>0, <1>1, <1>9, <2>5 DEF PostHeard
  <2> QED BY <1>9, <2>4, <2>5, <2>6
<1>10. CASE pc = 8 /\ sim' = sim /\ (served' <=> served) /\ (Advances \/ GivesUp)
  <2>1. DOMAIN step.to = {"match"}
    BY <1>0, <1>1, <1>10, PostStepIs DEF InPost
  <2>2. out # <<>> /\ out' = RestOf(Head(out))
    BY <1>10, <2>1 DEF Advances, GivesUp
  <2> DEFINE e == M!Tok("line", Head(out).v)
  <2>3. Held(out') \subseteq Held(Tail(out)) \cup {e} /\ e.v = Head(out).v
    BY <1>0, <2>2, RestIs, TokIs
  <2> HIDE DEF e
  <2>4. Held(out) = {Head(out)} \cup Held(Tail(out))
    BY <1>0, <2>2, HeldIs
  <2> QED BY <1>2, <1>10, <2>3, <2>4
<1>11. pc \in {7, 8, 9} /\ (pc' = pc => pc \in {8, 9}) /\ (pc' = pc + 1 => pc \in {7, 8})
  <2>1. pc \in {1, 2, 3, 4, 5, 6, 7, 8, 9}
    BY <1>0, <1>1, PostIs DEF InPost
  <2> QED BY <1>1, <2>1 DEF PostStep
<1>12. CASE pc' = pc
  BY <1>1, <1>3, <1>4, <1>5, <1>6, <1>7, <1>8, <1>11, <1>12 DEF PostStep, Within
<1>13. CASE pc' = pc + 1
  BY <1>1, <1>9, <1>10, <1>11, <1>13 DEF PostStep
<1> QED BY <1>1, <1>12, <1>13 DEF PostStep

\* A post ends with success after its last step, and then the answer is read.
LEMMA ToRead ==
  ASSUME ControlTyped, NEW o, NEW s, Moved(o, s), stage' = "read", job' \in Sessions
  PROVE  /\ (served' <=> served)
         /\ \/ stage = "read" /\ job \in Sessions
            \/ InPost /\ pc = 9 /\ o \in DOMAIN step.to
<1>0. served \in BOOLEAN
  BY DEF ControlTyped
<1>1. CASE Onward(o, s)
  BY <1>1 DEF Onward
<1>2. ASSUME NEW ok \in BOOLEAN, Returned(ok, s),
             stage \notin {"init", "open"} =>
               IF ok THEN o \in DOMAIN step.to /\ pc = Len(Steps900) ELSE o \notin DOMAIN step.to
      PROVE  (served' <=> served) /\ InPost /\ pc = 9 /\ o \in DOMAIN step.to
  <2>1. InPost /\ ok /\ (served' <=> served)
    BY <1>2 DEF Returned, InPost
  <2>2. Len(Steps900) = 9
    BY <2>1, PostIs DEF InPost
  <2> QED BY <1>2, <2>1, <2>2 DEF InPost
<1>3. CASE Restarted
  BY <1>0, <1>3, RestartIs
<1> QED BY <1>1, <1>2, <1>3 DEF Moved

LEMMA PostAcceptedNext == LoadInv /\ Waits /\ PostAccepted /\ [Next]_vars => PostAccepted'
<1> SUFFICES ASSUME LoadInv, Waits, PostAccepted, [Next]_vars, stage' = "read", job' \in Sessions
             PROVE  served'
  BY DEF PostAccepted
<1>0. Typed /\ ControlTyped /\ out \in Seq(Tokens) /\ served \in BOOLEAN
  BY DEF LoadInv, Typed, AnswerTyped, ControlTyped
<1>1. stage = "read" /\ job \in Sessions => served
  BY DEF PostAccepted
<1>2. CASE Stays
  BY <1>1, <1>2 DEF Stays
<1>3. CASE Send
  <2>1. PICK q, r : Sent(q, r)
    BY <1>0, <1>3, SendIs
  <2>2. CASE \E s : Moved("sent", s)
    <3>1. Calling
      BY <1>0, <1>3, SendIs
    <3>2. PICK s : Moved("sent", s)
      BY <2>2
    <3>3. \/ stage = "read" /\ job \in Sessions
          \/ InPost /\ pc = 9 /\ "sent" \in DOMAIN step.to
      BY <1>0, <3>2, ToRead
    <3>4. InPost /\ pc = 9 => DOMAIN step.to = {"200"}
      BY <1>0, PostStepIs DEF InPost
    <3> QED BY <1>0, <1>1, <3>2, <3>3, <3>4, ToRead
  <2> QED BY <1>2, <2>1, <2>2 DEF Sent
<1>4. CASE Hear
  <2> DEFINE o == Heard(Head(out))
  <2>1. out # <<>>
    BY <1>0, <1>4, HearIs
  <2>2. CASE Moved(o, sim)
    <3>1. /\ (served' <=> served)
          /\ \/ stage = "read" /\ job \in Sessions
             \/ InPost /\ pc = 9 /\ o \in DOMAIN step.to
      BY <1>0, <2>2, ToRead
    <3>2. CASE InPost /\ pc = 9 /\ o \in DOMAIN step.to
      <4>1. step.wait = "line" /\ DOMAIN step.to = {"200"}
        BY <1>0, <3>2, PostStepIs DEF InPost
      <4>2. ReadLine(Head(out)) = "200"
        BY <3>2, <4>1 DEF Heard
      <4>3. Head(out).v = "200"
        BY <4>2 DEF ReadLine
      <4>4. Head(out) \in Held(out)
        BY <1>0, <2>1, HeldIs
      <4> QED BY <3>1, <3>2, <4>3, <4>4 DEF Waits
    <3> QED BY <1>1, <3>1, <3>2
  <2>3. Stays \/ Moved(o, sim)
    BY <1>0, <1>4, HearIs
  <2> QED BY <1>2, <2>2, <2>3
<1>5. CASE TimeOut
  <2>1. CASE Moved("none", sim)
    <3>1. /\ (served' <=> served)
          /\ \/ stage = "read" /\ job \in Sessions
             \/ InPost /\ pc = 9 /\ "none" \in DOMAIN step.to
      BY <1>0, <2>1, ToRead
    <3>2. InPost /\ pc = 9 => DOMAIN step.to = {"200"}
      BY <1>0, PostStepIs DEF InPost
    <3> QED BY <1>1, <3>1, <3>2
  <2> QED BY <1>0, <1>2, <1>5, <2>1, TimeOutIs
<1>6. CASE Start
  <2>1. stage' \in {"open", "post"} \cup Others
    BY <1>0, <1>6, StartIs
  <2> QED BY <2>1, ModemAssumption
<1>7. CASE ActionEnds
  <2>1. UNCHANGED <<job, stage>> /\ (served => served')
    BY <1>0, <1>7, ActionEndsIs DEF Acted
  <2> QED BY <1>1, <2>1
<1>8. CASE Modem \/ ModemResets
  <2>1. UNCHANGED <<job, stage, served>>
    BY <1>0, <1>8, ModemIs, ModemResetsIs
  <2> QED BY <1>1, <2>1
<1>9. CASE ControllerResets
  <2>1. stage' = "init"
    BY <1>0, <1>9, ControllerResetsIs
  <2> QED BY <2>1
<1>10. CASE UNCHANGED vars
  <2>1. UNCHANGED <<job, stage, served>>
    BY <1>10 DEF vars, control, history
  <2> QED BY <1>1, <2>1
<1> QED BY <1>3, <1>4, <1>5, <1>6, <1>7, <1>8, <1>9, <1>10 DEF Next

LEMMA PostInit ==
  Init => Own /\ DataIn /\ DataHeard /\ Ready /\ PostHeard /\ Waits /\ PostAccepted
<1> SUFFICES ASSUME Init
             PROVE  Own /\ DataIn /\ DataHeard /\ Ready /\ PostHeard /\ Waits /\ PostAccepted
  OBVIOUS
<1>1. ~InPost /\ stage # "read"
  BY DEF Init, InPost
<1> QED BY <1>1, OwnInit DEF DataIn, DataHeard, Ready, PostHeard, Waits, PostAccepted

\* sim900_http_post reports success only when the server has answered 200 to the data of
\* this very call, whatever is lost at the flushes and however often modem and controller
\* are reset, if at most one answer was late.  (With two that are late it is not so: the
\* hypothesis is needed.)
THEOREM PostsAreAccepted ==
  ASSUME MaxLate <= 1
  PROVE  Spec => []PostAccepted
<1> DEFINE Believed == Own /\ DataIn /\ DataHeard /\ Ready /\ PostHeard /\ Waits /\ PostAccepted
<1>1. Init => LoadInv /\ Believed
  BY TypedInit, LoadInit, PostInit DEF LoadInv
<1>2. LoadInv /\ Believed /\ [Next]_vars => LoadInv' /\ Believed'
  BY LoadNext, OwnNext, DataInNext, DataHeardNext, ReadyNext, PostHeardNext, WaitsNext,
     PostAcceptedNext
<1>3. Believed => PostAccepted
  OBVIOUS
<1> QED BY <1>1, <1>2, <1>3, PTL DEF Spec
=============================================================================
