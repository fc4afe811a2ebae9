----------------------------- MODULE MCSettings ------------------------------
(***************************************************************************)
(* Instances of Settings: up to three options.                             *)
(***************************************************************************)
EXTENDS Settings

\* 2009-09-21, 1970-01-01, a number of days, and a word.
Arguments ==
  {[date |-> 1253491200, number |-> 2009], [date |-> 0, number |-> 1970],
   [date |-> NoDate, number |-> 5], [date |-> NoDate, number |-> 0]}
=============================================================================
