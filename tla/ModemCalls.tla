----------------------------- MODULE ModemCalls -----------------------------
(***************************************************************************)
(* The calls of the modem driver sim900.c, each as the table of its steps. *)
(* A step sends a command (or nothing), flushes the receive ring and waits *)
(* for something, in all at most tries times while nothing comes.  What    *)
(* comes of it is an outcome, and "to" says where each outcome leads:      *)
(*   next, skip    to the step after it, or to the one after that;         *)
(*   done          the call returns 0;                                     *)
(*   again         back by as many steps as "back" says, at most "turns"   *)
(*                 times, and then to where "over" leads;                  *)
(*   restart       to the first step (goto init_sim);                      *)
(* every other outcome makes the call return an error.  "soon" marks the   *)
(* steps that wait for the rest of an answer that has begun, without the   *)
(* LITTLE_DELAY of 100 ms that the others have before them.                *)
(***************************************************************************)
EXTENDS Naturals, Sequences

CONSTANTS
  BearerTurns,   \* how often the bearer is asked whether it is open, 10
  NetworkTurns   \* how often sim900_init asks for network and GPRS, 18

ASSUME ModemCallsAssumption ==
  BearerTurns \in Nat \ {0} /\ NetworkTurns \in Nat \ {0}

Answered == {"OK", "ERROR"}
AnyReturn == Answered \cup {"none"}
Lines == {"other", "sapbr", "registered", "searching", "attached", "detached",
          "quality", "imei", "address", "0.0.0.0", "200", "404", "length", "body", "cut"}

To(S, where) == [o \in S |-> where]
\* Two ways out of a step.
Either(f, g) == [o \in DOMAIN f \cup DOMAIN g |-> IF o \in DOMAIN f THEN f[o] ELSE g[o]]

Step(cmd, wait, tries, to) ==
  [cmd |-> cmd, wait |-> wait, tries |-> tries, to |-> to, soon |-> FALSE,
   back |-> 0, turns |-> 0, over |-> "fail"]
Soon(step) == [step EXCEPT !.soon = TRUE]
Loop(step, back, turns, over) ==
  [step EXCEPT !.back = back, !.turns = turns, !.over = over]

\* sim900_cmd_with_retstring, which sends again only when nothing comes, and
\* its one-shot form put_string, wait_retstring.
Command(cmd, pass) == Step(cmd, "return", 2, To(pass, "next"))
Once(cmd, pass) == Step(cmd, "return", 1, To(pass, "next"))
\* put_string, sim900_wait_string.
Text(cmd, text) == Step(cmd, text, 1, To({"match"}, "next"))
\* put_string, sim900_read_string, and sim900_cmd_with_read_string.
Line(cmd, pass) == Step(cmd, "line", 1, To(pass, "next"))
LineTwice(cmd, pass) == Step(cmd, "line", 2, To(pass, "next"))

-----------------------------------------------------------------------------
\* sim900_GPRS_init.  The bearer is "closed", "closing" or "open" by what
\* AT+SAPBR=2,1 has left in szBuf.
Open ==
  << LineTwice("SAPBR?", Lines),
     Soon(Step("", "bearer", 1, Either(To({"closed"}, "next"), To({"open"}, "done")))),
     Command("CONTYPE", Answered),
     Command("APN", {"OK", "none"}),
     Command("SAPBR=1", {"OK"}),
     LineTwice("SAPBR?", Lines),
     Loop(Soon(Step("", "digit", 1, Either(To({"1"}, "done"), To({"0", "x"}, "again")))),
          1, BearerTurns, "done") >>

Shut == <<Command("SAPBR=0", {"OK"})>>

\* Up to the URL, post and get are the same.
Begin ==
  << Command("AT", Answered), Command("HTTPINIT", {"OK"}), Command("CID", {"OK"}),
     Once("URL", AnyReturn) >>

\* (Variant: the rest of the line with the length is not read.)
HttpReadUnread == << Text("HTTPREAD", "+HTTPREAD:"), Soon(Line("", Lines)) >>

\* sim900_http_read: the rest of the line is read, then the line of the body.
HttpRead ==
  << Text("HTTPREAD", "+HTTPREAD:"), Soon(Line("", Lines)), Soon(Line("", Lines)) >>

HttpGetPrepare ==
  Begin \o << Command("GET", {"OK"}), Soon(Text("", "+HTTPACTION:")),
              Soon(Line("", {"200"})) >>

HttpGet == HttpGetPrepare \o HttpRead

\* (Variant: the status of the answer is not looked at.)
StatusUnread == Soon(Line("", Lines))
Status == Soon(Line("", {"200"}))

\* (Variant: the data is not sent.)
HttpPostEmpty ==
  Begin \o << Text("HTTPDATA", "DOWNLOAD"), Command("POST", {"OK"}),
              Soon(Step("", "+HTTPACTION:", 3, To({"match"}, "next"))), Status >>

HttpPost ==
  Begin \o << Text("HTTPDATA", "DOWNLOAD"), Once("DATA", AnyReturn),
              Command("POST", {"OK"}),
              Soon(Step("", "+HTTPACTION:", 3, To({"match"}, "next"))), Status >>

HttpClose == <<Command("HTTPTERM", {"OK"})>>

-----------------------------------------------------------------------------
\* sim900_init after the power switch: up to three AT for each of the two
\* times the modem is switched on,
SwitchOn ==
  << Step("TOGGLE", "nothing", 1, To({"sent"}, "next")),
     Loop(Step("AT", "return", 1, Either(To({"OK"}, "next"), To({"ERROR", "none"}, "again"))),
          0, 3, "hardReset") >>

\* the commands whose answers do not matter, among them that for the IMEI,
Identify ==
  << Command("ATE0", AnyReturn),
     Command("CREG=0", AnyReturn),
     Command("GSN=?", AnyReturn),
     LineTwice("GSN", Lines \cup {"none"}),
     Soon(Once("", AnyReturn)) >>

\* the SIM and its PIN,
Unlock ==
  << Once("CPIN=?", {"OK"}),
     Step("CPIN?", "pin", 1, Either(To({"SIM PIN"}, "next"),
                                    To({"OK", "ERROR", "READY", "none"}, "skip"))),
     Once("PIN", {"OK"}) >>

\* and network and GPRS: another answer than +CREG: starts all over again.
Register ==
  << Loop(Step("CREG?", "line", 1,
               Either(Either(To({"registered"}, "next"), To({"searching"}, "again")),
                      To((Lines \cup {"none"}) \ {"registered", "searching"}, "restart"))),
          0, NetworkTurns, "next"),
     Loop(Step("CGATT?", "line", 1,
               Either(To({"attached"}, "next"), To((Lines \cup {"none"}) \ {"attached"}, "again"))),
          0, NetworkTurns, "next") >>

Init900 == SwitchOn \o Identify \o Unlock \o Register

CheckLine ==
  << Command("AT", Answered),
     Step("CPIN?", "pin", 1, To({"READY"}, "next")),
     Line("CREG?", {"registered"}), Command("AT", Answered),
     Line("CGATT?", {"attached"}), Command("AT", Answered),
     Line("CSQ", {"quality"}) >>

SendSms ==
  << Command("CMGF", {"OK"}), Text("CMGS", ">"),
     Step("TEXT", "nothing", 1, To({"sent"}, "next")) >>

TcpInit ==
  << Command("AT", Answered), Command("CIPSHUT", Answered),
     Command("CSTT", {"OK", "none"}) >>

TcpConnect ==
  <<Command("AT", Answered)>> \o CheckLine \o
  << Command("CIICR", Answered),
     Step("CIFSR", "line", 2, To((Lines \cup {"none"}) \ {"0.0.0.0"}, "next")),
     Command("AT", Answered),
     Once("CIPSTART", Answered), Soon(Text("", "CONNECT OK")) >>

TcpSend ==
  << Command("AT", Answered), Text("CIPSEND", ">"),
     Step("DATA", "nothing", 1, To({"sent"}, "next")) >>

\* sim900_ftp_init, sim900_ftp_put: commands without a look at the answers.
Ftp == <<Step("FTP", "nothing", 1, To({"sent"}, "next"))>>

Steps ==
  [init |-> Init900, open |-> Open, shut |-> Shut, get |-> HttpGet, post |-> HttpPost,
   read |-> HttpRead, term |-> HttpClose, check |-> CheckLine, sms |-> SendSms,
   tcp_init |-> TcpInit, tcp_connect |-> TcpConnect, tcp_send |-> TcpSend, ftp |-> Ftp]
=============================================================================
