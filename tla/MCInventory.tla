------------------------------ MODULE MCInventory ------------------------------
(* Instances of Inventory: two terminals of one source, one exclusion rule.   *)
EXTENDS Inventory

CONSTANTS t1, t2, r1, s1, s2, c1, c2, o1
================================================================================
