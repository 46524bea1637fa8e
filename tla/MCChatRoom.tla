----------------------------- MODULE MCChatRoom -----------------------------
(* Finite instances of ChatRoom for TLC. *)
EXTENDS ChatRoom, TLC

CONSTANTS b1, b2, u1, u2,  m1, m2, m3, r1, r2

(* An admin and a member. *)
MCInitRole == [u \in Users |-> IF u = u1 THEN "ADMIN" ELSE "MEMBER"]
(* An admin alone: the others must be invited. *)
MCAdminOnly == [u \in Users |-> IF u = u1 THEN "ADMIN" ELSE "NONE"]

MessageSymmetry == Permutations(Messages) \cup Permutations(Requests)
=============================================================================
