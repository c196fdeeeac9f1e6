------------------------------ MODULE MCReceive ------------------------------
(***************************************************************************)
(* The receive path of the modem's serial line: the ring, and behind it    *)
(* the readers of what GetByte returns.  A reader takes the bytes as       *)
(* DeliveredInOrder gives them, so the two need not be interleaved: a      *)
(* behaviour is one of the ring or one of a reader.                        *)
(***************************************************************************)
EXTENDS UsartRing, AnswerText

MCDictionary == << <<"O", "K">>, <<"S", "P">>, <<"S", "O", "K">> >>
MCAnswers == BoundedSeq({"O", "K", "S", "P", Break}, 5)

Codes == [1..3 -> {"2", "0", "4"}]
Lengths == {<<"0">>, <<"2">>, <<"2", "0">>, <<"2", "0", "0">>, <<"4", "2", "0">>, <<"2", "0", "0", "0">>}
MCReplies ==
  {[code |-> c, line |-> <<"1", ",">> \o c \o <<",">> \o l \o e] :
     c \in Codes, l \in Lengths, e \in {<<Break>>, <<>>}}

NoReader ==
  /\ reader = "none" /\ words = <<>> /\ code = <<>> /\ text = <<>>
  /\ n = 0 /\ p = <<>> /\ buf = <<>> /\ result = "none"

PathInit == Init /\ (NoReader \/ ReaderInit)

RingStep == reader = "none" /\ Next /\ UNCHANGED readerVars
ReaderStep == reader # "none" /\ ReaderNext /\ UNCHANGED vars

PathSpec == PathInit /\ [][RingStep \/ ReaderStep]_<<vars, readerVars>>
=============================================================================
