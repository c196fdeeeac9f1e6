---------------------------- MODULE MCIterators ----------------------------
(***************************************************************************)
(* What is looked for in the EEPROM: the saved iterators, and in the log   *)
(* the date of a range.  The search has its own copies of the iterators in *)
(* RAM and the two need not be interleaved: a behaviour is one of the      *)
(* iterators or one of the search.                                         *)
(*                                                                         *)
(* Three places of LOG_END tell the value that is stored from the one that *)
(* is being stored and from one that is stored next.                       *)
(***************************************************************************)
EXTENDS Iterators, MCDateSearch

VARIABLE sought

NoSearch ==
  /\ log = Log(0, [k \in {0} |-> Blank]) /\ dt = 0 /\ place = 0 /\ skip = 0
  /\ forward = FALSE /\ search = "idle" /\ found = FALSE

SoughtInit ==
  /\ Init
  /\ \/ sought = "iterator" /\ NoSearch
     \/ sought = "date" /\ SearchInit

IteratorStep == sought = "iterator" /\ Next /\ UNCHANGED <<sought, searchVars>>
SearchStep == sought = "date" /\ SearchNext /\ UNCHANGED <<sought, vars>>

SoughtSpec ==
  /\ SoughtInit /\ [][IteratorStep \/ SearchStep]_<<sought, vars, searchVars>>
  /\ WF_searchVars(Look)
=============================================================================
