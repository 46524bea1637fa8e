----------------------- MODULE MCNotificationPipeline -----------------------
(* Finite instances of NotificationPipeline for TLC. *)
EXTENDS NotificationPipeline, TLC

CONSTANTS u1, u2, t1, t2, j1, j2, j3, c1

MCChatType == [c \in Chats |-> "group"]

(* Everything on, all off, and a range over midnight. *)
Pref(on, types, from, to) == [on |-> on, types |-> types, from |-> from, to |-> to]
MCPreferences == {DefaultPreferences, Pref(FALSE, Types, None, None),
                  Pref(TRUE, {"PRIVATE_MESSAGE"}, None, None), Pref(TRUE, Types, 2, 0)}

Symmetry == Permutations(Jobs) \cup Permutations(Tokens) \cup Permutations(Users)
=============================================================================
