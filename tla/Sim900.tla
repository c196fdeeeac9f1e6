------------------------------- MODULE Sim900 -------------------------------
(***************************************************************************)
(* The SIM900 modem as its driver uses it.  The module is external: it is  *)
(* no part of the sources, only what the commands of sim900.c expect of    *)
(* it.  A modem is a record, a command takes it to one of several next     *)
(* states and answers with a sequence of tokens; a token is one of the     *)
(* texts the driver looks for, or a line it reads.                         *)
(***************************************************************************)
EXTENDS Sequences

Tok(t, v) == [t |-> t, v |-> v]
OK == Tok("OK", "")
ERROR == Tok("ERROR", "")

\* load: it takes what it receives as the data of AT+HTTPDATA.  data is "new"
\* when the data is that of the running sim900_http_post, and "old" when it is
\* anything else.
Off == [on |-> FALSE, http |-> FALSE, data |-> "none", load |-> FALSE,
        action |-> "none", bearer |-> "closed"]
On == [Off EXCEPT !.on = TRUE]

BearerDigit == [connecting |-> "0", connected |-> "1", closing |-> "2", closed |-> "3"]

Says(s, tokens) == {<<s, tokens>>}

\* What answers nothing but OK.
Plain == {"AT", "ATE0", "CREG=0", "GSN=?", "CPIN=?", "PIN", "CONTYPE", "APN",
          "CMGF", "CIPSHUT", "CSTT", "CIICR"}

\* The commands that need the HTTP service.
Http(s, c) ==
  CASE c = "HTTPINIT" -> Says([s EXCEPT !.http = TRUE, !.data = "none"], <<OK>>)
    [] c \in {"CID", "URL"} -> Says(s, <<OK>>)
    [] c = "HTTPDATA" -> Says([s EXCEPT !.load = TRUE], <<Tok("DOWNLOAD", "")>>)
    [] c \in {"GET", "POST"} ->
         IF s.action # "none" THEN Says(s, <<ERROR>>)
         ELSE Says([s EXCEPT !.action = c], <<OK>>)
    [] c = "HTTPREAD" ->
         Says(s, <<Tok("+HTTPREAD:", ""), Tok("line", "length"),
                   Tok("line", "body"), OK>>)
    [] c = "HTTPTERM" -> Says([s EXCEPT !.http = FALSE, !.action = "none"], <<OK>>)

HttpCommands == {"HTTPINIT", "CID", "URL", "HTTPDATA", "GET", "POST", "HTTPREAD", "HTTPTERM"}

\* AT+SAPBR: the query, opening and closing.
Bearer(s, c) ==
  CASE c = "SAPBR?" -> Says(s, <<Tok("+SAPBR:", BearerDigit[s.bearer]), OK>>)
    [] c = "SAPBR=1" ->
         IF s.bearer = "closed"
         THEN Says([s EXCEPT !.bearer = "connecting"], <<OK>>) \cup Says(s, <<ERROR>>)
         ELSE Says(s, <<ERROR>>)
    [] c = "SAPBR=0" ->
         IF s.bearer \in {"connected", "connecting"}
         THEN Says([s EXCEPT !.bearer = "closing"], <<OK>>)
         ELSE Says(s, <<ERROR>>)

BearerCommands == {"SAPBR?", "SAPBR=1", "SAPBR=0"}

\* The queries of the SIM and the network, with the answers the driver tells
\* apart; a modem that is on owes none of them: it may say ERROR, which
\* sim900_read_string takes for a line as it does any other text, or nothing.
Refuses(s) == Says(s, <<ERROR>>) \cup Says(s, <<>>)
Query(s, c) ==
  CASE c = "CPIN?" ->
         {<<s, <<Tok("+CPIN:", v), OK>>>> : v \in {"READY", "SIM PIN", "SIM PUK"}} \cup Refuses(s)
    [] c = "CREG?" ->
         {<<s, <<Tok("+CREG:", v), OK>>>> : v \in {"registered", "searching"}} \cup Refuses(s)
    [] c = "CGATT?" ->
         {<<s, <<Tok("+CGATT:", v), OK>>>> : v \in {"attached", "detached"}} \cup Refuses(s)
    [] c = "CSQ" -> Says(s, <<Tok("+CSQ:", ""), OK>>)
    [] c = "GSN" -> Says(s, <<Tok("line", "imei"), OK>>)
    [] c = "CIFSR" -> {<<s, <<Tok("line", v)>>>> : v \in {"address", "0.0.0.0"}}
    [] c \in {"CMGS", "CIPSEND"} -> Says(s, <<Tok(">", "")>>) \cup Says(s, <<ERROR>>)
    [] c = "CIPSTART" -> Says(s, <<OK, Tok("CONNECT OK", "")>>) \cup Says(s, <<OK>>)

Queries == {"CPIN?", "CREG?", "CGATT?", "CSQ", "GSN", "CIFSR", "CMGS", "CIPSEND", "CIPSTART"}

\* Bytes that are no command: outside of AT+HTTPDATA nothing answers them.
Bytes == {"DATA", "TEXT", "FTP"}

Replies(s, c) ==
  IF ~s.on \/ c = "" THEN Says(s, <<>>)
  ELSE IF s.load
       THEN IF c = "DATA" THEN Says([s EXCEPT !.load = FALSE, !.data = "new"], <<OK>>)
            ELSE Says(s, <<>>)
       ELSE IF c \in Plain THEN Says(s, <<OK>>)
       ELSE IF c \in HttpCommands
       THEN IF s.http # (c = "HTTPINIT") THEN Http(s, c) ELSE Says(s, <<ERROR>>)
       ELSE IF c \in BearerCommands THEN Bearer(s, c)
       ELSE IF c \in Queries THEN Query(s, c)
       ELSE Says(s, <<>>)

\* AT+HTTPDATA=n,30000: after thirty seconds the data is what came in, commands.
LoadEnds(s) == IF s.load THEN {[s EXCEPT !.load = FALSE, !.data = "old"]} ELSE {}

\* The network and the bearer.
Drifts(s) ==
  CASE s.bearer = "connecting" -> {[s EXCEPT !.bearer = b] : b \in {"connected", "closed"}}
    [] s.bearer = "closing" -> {[s EXCEPT !.bearer = "closed"]}
    [] s.bearer = "connected" -> {[s EXCEPT !.bearer = "closed"]}
    [] OTHER -> {}
=============================================================================
