----------------------------- MODULE MCAccounts -----------------------------
(* Instances of Accounts: one user from the start, one to come, three roles. *)
EXTENDS Accounts

CONSTANTS q1, q2, q3, q4, u1, u2, default, superadmin, custom, p1

Symmetry == Permutations(Request)
=============================================================================
