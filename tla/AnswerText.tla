----------------------------- MODULE AnswerText -----------------------------
(***************************************************************************)
(* The readers of sim900.c, symbol by symbol: the search for a word of a   *)
(* dictionary (sim900_wait4dictionary, and sim900_wait_string with one     *)
(* word), the line of sim900_read_string and the bytes of                  *)
(* sim900_read_data.  Each first flushes the receive ring: the first       *)
(* symbols of the answer may be lost.                                      *)
(***************************************************************************)
EXTENDS Naturals, Sequences, SequencesExt

CONSTANTS
  Dictionary,  \* the words looked for, none empty
  Answers,     \* texts the modem may answer with
  Replies,     \* the lines after "+HTTPACTION:", [code, line]
  Capacity,    \* the size of the caller's buffer, at least 2
  Break,       \* the line break, \r or \n
  Lost         \* a bound: symbols that come before a flush

Line == Seq(STRING)

\* A reply is "1,", the status, "," and the length, in one line.
ASSUME AnswerTextAssumption ==
  /\ Dictionary \in Seq(Line \ {<<>>})
  /\ Answers \subseteq Line
  /\ \A a \in Replies :
       /\ a.line \in Line /\ Len(a.line) >= 6
       /\ SubSeq(a.line, 3, 5) = a.code /\ a.line[6] = ","
       /\ \A i \in 1..6 : a.line[i] # Break
  /\ Capacity \in Nat /\ Capacity >= 2
  /\ Lost \in Nat

VARIABLES
  reader,   \* "word", "line" or "data"
  words,    \* the words looked for
  code,     \* the status in a reply, for the property
  text,     \* what comes from now on
  n,        \* symbols taken
  p,        \* per word, the symbols matched
  buf,      \* szBuf
  result    \* "" while the call runs

readerVars == <<reader, words, code, text, n, p, buf, result>>

Flushed(t) == {SubSeq(t, k + 1, Len(t)) : k \in 0..(IF Lost < Len(t) THEN Lost ELSE Len(t))}

Start(r, t) ==
  /\ reader = r
  /\ text \in Flushed(t)
  /\ n = 0 /\ p = [i \in DOMAIN words |-> 0] /\ buf = <<>> /\ result = ""

ReaderInit ==
  \/ /\ words \in {Dictionary} \cup {<<Dictionary[i]>> : i \in DOMAIN Dictionary}
     /\ code = <<>>
     /\ \E t \in Answers : Start("word", t)
  \/ /\ words = <<>>
     /\ \E a \in Replies : code = a.code /\ Start("line", a.line)
  \/ /\ words = <<>> /\ code = <<>>
     /\ \E t \in Answers : Start("data", t)

fixed == <<reader, words, code, text>>

\* (Variant: a symbol that does not fit leaves the pointer where it is.)
MatchedKept(i, c) ==
  IF words[i][p[i] + 1] = c THEN p[i] + 1 ELSE p[i]

\* What is matched of word i after symbol c: one that does not fit sets the
\* pointer back and is not looked at again as the first of the word.
Matched(i, c) ==
  IF words[i][p[i] + 1] = c THEN p[i] + 1 ELSE 0

Complete(i, c) == Matched(i, c) = Len(words[i])

\* A symbol against every word, the first complete one is the answer.
TakeWord ==
  /\ reader = "word" /\ result = "" /\ n < Len(text)
  /\ LET c == text[n + 1]
         Done == {i \in DOMAIN words : Complete(i, c)}
     IN /\ p' = [i \in DOMAIN words |-> Matched(i, c)]
        /\ result' = (IF Done = {} THEN "" ELSE "found")
  /\ n' = n + 1
  /\ UNCHANGED <<fixed, buf>>

-----------------------------------------------------------------------------
\* The line breaks before a line are skipped.
TakeBreak ==
  /\ reader = "line" /\ result = "" /\ n < Len(text)
  /\ text[n + 1] = Break /\ buf = <<>>
  /\ n' = n + 1
  /\ UNCHANGED <<fixed, p, buf, result>>

\* A full buffer loses its last symbol to the terminating zero.
Ended(b) == IF Len(b) = Capacity THEN Front(b) ELSE b

\* A symbol of the line.
TakeSymbol ==
  /\ reader = "line" /\ result = "" /\ n < Len(text)
  /\ text[n + 1] # Break /\ Len(buf) < Capacity
  /\ buf' = Append(buf, text[n + 1])
  /\ n' = n + 1
  /\ UNCHANGED <<fixed, p, result>>

\* (Variant: from the first digit on.)
StatusShort(b) == Len(b) >= 3 /\ SubSeq(b, 3, 3) = <<"2">>

\* szBuf[2], szBuf[3] and szBuf[4] are "200".
StatusOK(b) == Len(b) >= 5 /\ SubSeq(b, 3, 5) = <<"2", "0", "0">>

\* The break after the line, or the symbol after a full buffer, which is lost; the
\* caller looks at the status.
EndLine ==
  /\ reader = "line" /\ result = "" /\ buf # <<>> /\ n < Len(text)
  /\ Len(buf) = Capacity \/ text[n + 1] = Break
  /\ n' = n + 1
  /\ buf' = Ended(buf)
  /\ result' = (IF StatusOK(Ended(buf)) THEN "200" ELSE "other")
  /\ UNCHANGED <<fixed, p>>

-----------------------------------------------------------------------------
\* sim900_read_data: so many bytes, whatever they are.
TakeByte ==
  /\ reader = "data" /\ result = "" /\ n < Len(text) /\ Len(buf) < Capacity
  /\ buf' = Append(buf, text[n + 1])
  /\ n' = n + 1
  /\ UNCHANGED <<fixed, p, result>>

EndData ==
  /\ reader = "data" /\ result = "" /\ Len(buf) = Capacity
  /\ result' = "found"
  /\ UNCHANGED <<fixed, n, p, buf>>

\* sim900_wait_data_on_usart gives up: nothing comes for ten or twenty seconds,
\* after the text or in it.  The post goes on with what its buffer holds; behind
\* that lies what is left of its AT+HTTPDATA, no status.
TimeOut ==
  /\ result = ""
  /\ reader = "data" => Len(buf) < Capacity
  /\ buf' = (IF reader = "line" THEN Ended(buf) ELSE buf)
  /\ result' = (IF reader = "line" /\ StatusOK(Ended(buf)) THEN "200" ELSE "timeout")
  /\ UNCHANGED <<fixed, n, p>>

ReaderNext == TakeWord \/ TakeBreak \/ TakeSymbol \/ EndLine \/ TakeByte \/ EndData \/ TimeOut

ReaderSpec == ReaderInit /\ [][ReaderNext]_readerVars

-----------------------------------------------------------------------------
\* The symbols of the words, and a word that stands in the text from symbol j on
\* and has come.
Symbols == UNION {ToSet(words[i]) : i \in DOMAIN words}
StandsAt(w, j) == j + Len(w) - 1 <= n /\ SubSeq(text, j, j + Len(w) - 1) = w

\* A word after a symbol that occurs in no word, as a line break or a space, is
\* never missed, though the search looks at no symbol twice; and what is found
\* has just come in full.
FoundAfterLineBreak ==
  reader = "word" =>
    /\ result = "timeout" =>
         \A i \in DOMAIN words, j \in 2..Len(text) :
           text[j - 1] \notin Symbols => ~StandsAt(words[i], j)
    /\ result = "found" =>
         \E i \in DOMAIN words :
           Len(words[i]) <= n /\ StandsAt(words[i], n - Len(words[i]) + 1)

\* A post is taken for accepted only when the status of the answer is 200: no
\* loss of up to three symbols at the flush makes another line read so.
StatusNotForged == result = "200" => code = <<"2", "0", "0">>
=============================================================================
