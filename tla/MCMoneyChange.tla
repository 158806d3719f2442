--------------------------- MODULE MCMoneyChange ---------------------------
(***************************************************************************)
(* Four calls deep: a change, its inner Trans, a change made by a listener *)
(* or a callback meanwhile, and the inner Trans of that one.  Add and Set  *)
(* stand for the three hooks that share one body.                          *)
(***************************************************************************)
EXTENDS MoneyChange

=============================================================================
