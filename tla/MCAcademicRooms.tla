-------------------------- MODULE MCAcademicRooms --------------------------
(* Finite instances of AcademicRooms for TLC. *)
EXTENDS AcademicRooms, TLC

CONSTANTS c1, sec1, sec2, stu1, prof1, ta1, ta2, k1, k2, rm1, rm2, rm3, rm4

Symmetry == Permutations({sec1, sec2}) \cup Permutations({ta1, ta2}) \cup Permutations({k1, k2})
=============================================================================
