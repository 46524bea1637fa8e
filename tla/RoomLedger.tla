----------------------------- MODULE RoomLedger -----------------------------
(***************************************************************************)
(* What a group room promises to whoever looks at its history, with the    *)
(* requests, the permissions and the database calls left out:              *)
(*                                                                         *)
(*   - a message, once posted, keeps its author and is never unposted;     *)
(*   - a retracted message stays retracted;                                *)
(*   - only posted messages are shown to clients or pinned;                *)
(*   - there are never more than PinCap pins;                              *)
(*   - a pin goes only when it was asked to go while it was there: who asks *)
(*     for one that is gone by then takes no later pin of the message.      *)
(*                                                                         *)
(* ChatRoom implements this specification (see Ledger in ChatRoom).        *)
(***************************************************************************)
EXTENDS FiniteSets, Integers

CONSTANTS Messages, Users, None, PinCap

VARIABLES status, author, pinned, shown,
          asked     \* the pins that someone found and is about to remove

vars == <<status, author, pinned, shown, asked>>

Statuses == {"absent", "live", "deleted"}

Init == /\ status \in [Messages -> {"absent", "live"}]
        /\ author \in [Messages -> Users \cup {None}]
        /\ pinned = {} /\ asked = {}
        /\ shown = {m \in Messages : status[m] = "live"}

Post(m, u) == /\ status[m] = "absent"
              /\ status' = [status EXCEPT ![m] = "live"]
              /\ author' = [author EXCEPT ![m] = u]
              /\ UNCHANGED <<pinned, shown, asked>>

Retract(m) == /\ status[m] = "live"
              /\ status' = [status EXCEPT ![m] = "deleted"]
              /\ UNCHANGED <<author, pinned, shown, asked>>

Pin(m) == /\ status[m] # "absent"
          /\ Cardinality(pinned) < PinCap
          /\ pinned' = pinned \cup {m}
          /\ UNCHANGED <<status, author, shown, asked>>

Ask(m) == /\ m \in pinned
          /\ asked' = asked \cup {m}
          /\ UNCHANGED <<status, author, pinned, shown>>

Withdraw(m) == /\ asked' = asked \ {m}
               /\ UNCHANGED <<status, author, pinned, shown>>

(* All who asked asked for this pin. *)
Unpin(m) == /\ m \in asked
            /\ pinned' = pinned \ {m} /\ asked' = asked \ {m}
            /\ UNCHANGED <<status, author, shown>>

Show(m) == /\ status[m] # "absent"
           /\ shown' = shown \cup {m}
           /\ UNCHANGED <<status, author, pinned, asked>>

Next == \E m \in Messages : \/ \E u \in Users : Post(m, u)
                            \/ Retract(m)
                            \/ Pin(m) \/ Ask(m) \/ Withdraw(m) \/ Unpin(m)
                            \/ Show(m)

Spec == Init /\ [][Next]_vars
=============================================================================
