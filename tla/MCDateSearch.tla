---------------------------- MODULE MCDateSearch ----------------------------
(***************************************************************************)
(* Logs for the search: sorted ones of up to 20 records, with every        *)
(* position of the date between and on them, and all short ones, as a      *)
(* clock that is set back may leave them.                                  *)
(***************************************************************************)
EXTENDS DateSearch

MCDates == 0..43
Blank == 1000

Log(n, f) == [count |-> n, time |-> f]

SortedLogs ==
  {Log(n, [k \in 0..n |-> IF k = n THEN Blank ELSE 2 * k + 1]) : n \in 0..20}

ShortLogs(ends) ==
  UNION {{Log(n, [k \in 0..n |-> IF k = n THEN e ELSE f[k]]) :
            f \in [0..n-1 -> {2, 4, 6}], e \in ends} : n \in 1..4}

MCBlankLogs == SortedLogs \cup ShortLogs({Blank})

\* Memory that was in use before: the place behind the newest record still holds
\* an older one.
MCUsedLogs == ShortLogs({1})
=============================================================================
