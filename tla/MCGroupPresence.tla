-------------------------- MODULE MCGroupPresence --------------------------
(* Finite instances of GroupPresence for TLC. *)
EXTENDS GroupPresence, TLC

CONSTANTS u1, u2, s1, s2, s3, rA, rB, h1

(* A user with two sockets, and a user with one. *)
MCOwner == [s \in Sockets |-> IF s = s3 THEN u2 ELSE u1]
(* Everyone has a row in both rooms; u2 has lost the academic tie to rB.   *)
MCMembers == Users \X Rooms
MCAccess == MCMembers \ {<<u2, rB>>}

MCRemovals == {<<u1, rA>>}
MCNoRemovals == {}

SocketSymmetry == Permutations({s1, s2})
=============================================================================
