---------------------------- MODULE MCRecalculation ----------------------------
(* Instances of Recalculation: two requests that edit, one periodic check.    *)
EXTENDS Recalculation

CONSTANTS e1, e2, c1
===============================================================================
