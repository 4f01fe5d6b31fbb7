----------------------------- MODULE MCAccounts -----------------------------
EXTENDS Accounts, TLC

CONSTANTS u1, u2

MCUsers == {u1, u2}

(* The users are interchangeable: no action tells one from another. *)
Symmetry == Permutations(MCUsers)
=============================================================================
