----------------------------- MODULE MCPostFiles -----------------------------
(* Finite instances of PostFiles for TLC. *)
EXTENDS PostFiles, TLC

CONSTANTS u1, u2, p1, p2, f1, f2, f3, r1, r2, r3, d1

(* An author and an admin of the department d1, whose posts these are. *)
MCDepartment == [x \in Users \cup Posts |-> d1]
MCContext == [f \in Files |-> "POST"]
MCType == [f \in Files |-> IF f = f3 THEN "gif" ELSE "jpeg"]
MCOwner == [x \in StoredPosts \cup StoredFiles |-> u1]

Symmetry == Permutations(Requests)
=============================================================================
