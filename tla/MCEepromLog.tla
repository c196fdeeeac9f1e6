---------------------------- MODULE MCEepromLog ----------------------------
(***************************************************************************)
(* A small log: pages of 8 bytes, three pages, records of 5.  5 and 24     *)
(* have no common factor, so END takes every place of the ring.            *)
(***************************************************************************)
EXTENDS EepromLog
=============================================================================
