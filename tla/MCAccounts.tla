----------------------------- MODULE MCAccounts -----------------------------
(* Finite instances of Accounts for TLC. *)
EXTENDS Accounts, TLC

CONSTANTS u1, u2, d1, d2, c1, r1, r2

Change(active, must, verified, pass, d, year) ==
    [active |-> active, must |-> must, verified |-> verified, pass |-> pass, dept |-> d,
     year |-> year]

MCUpdates == {Change(None, FALSE, TRUE, None, None, None), Change(None, TRUE, None, "own", None, 3),
              Change(None, None, None, None, d1, None),
              Change(None, None, None, None, d2, None)}

Symmetry == Permutations(Departments) \cup Permutations(Requests)
=============================================================================
