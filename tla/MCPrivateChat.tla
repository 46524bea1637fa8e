---------------------------- MODULE MCPrivateChat ----------------------------
(* Finite instances of PrivateChat for TLC. *)
EXTENDS PrivateChat, TLC

CONSTANTS u1, u2, s1, s2, s3, r1, r2, m1, m2, h1, h2

(* The first user has two sockets. *)
MCOwner == [s \in Sockets |-> CASE s = s3 -> u2 [] OTHER -> u1]

Symmetry == Permutations(Messages) \cup Permutations(Rooms) \cup Permutations(Handlers)
            \cup Permutations({s1, s2})
=============================================================================
