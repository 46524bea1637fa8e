--------------------------- MODULE MCPostAudience ---------------------------
(* Finite instances of PostAudience for TLC. *)
EXTENDS PostAudience, TLC

CONSTANTS u1, u2, p1, p2, p3, d1, r1

Person(role, d, year, active) == [role |-> role, dept |-> d, year |-> year, active |-> active]
Text(scope, d, year, prio, published) ==
    [scope |-> scope, dept |-> d, year |-> year, prio |-> prio, type |-> "EVENT",
     published |-> published, pinned |-> None, text |-> TRUE]
Query(scope, sortBy, desc) ==
    [scope |-> scope, dept |-> None, year |-> None, prio |-> None, type |-> None,
     pinned |-> None, author |-> None, search |-> FALSE, sortBy |-> sortBy, desc |-> desc]

MCProfiles == {Person("TA", d1, None, TRUE), Person("STUDENT", d1, 1, FALSE),
               Person("STUDENT", None, 1, TRUE)}
MCContents == {Text("DEPARTMENT", d1, 1, "LOW", 1),
               Text("YEAR", None, 1, "HIGH", 1)}
MCFilters == {Query(None, "priority", TRUE)}

Symmetry == Permutations(Users) \cup Permutations(Posts)
=============================================================================
