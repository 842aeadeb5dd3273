------------------------------ MODULE PasteLife ------------------------------
(***************************************************************************)
(* What the service promises about the life of a paste, whatever the       *)
(* interleaving of its handlers: a paste is created once, its views are    *)
(* counted one by one, the view that reaches the burn limit removes it,    *)
(* and a paste that is gone never comes back.                              *)
(***************************************************************************)
EXTENDS Naturals

CONSTANTS IDs, Limits

VARIABLES
    state,  \* "absent", "live" or "gone"
    limit,  \* burn_after, 0 = none
    count   \* counted views

vars == <<state, limit, count>>

Init ==
    /\ state = [i \in IDs |-> "absent"]
    /\ limit = [i \in IDs |-> 0]
    /\ count = [i \in IDs |-> 0]

Create(i) ==
    /\ state[i] = "absent"
    /\ state' = [state EXCEPT ![i] = "live"]
    /\ \E b \in Limits : limit' = [limit EXCEPT ![i] = b]
    /\ count' = [count EXCEPT ![i] = 0]

LastView(i) == limit[i] > 0 /\ count[i] + 1 >= limit[i]

View(i) ==
    /\ state[i] = "live"
    /\ count' = [count EXCEPT ![i] = @ + 1]
    /\ state' = [state EXCEPT ![i] = IF LastView(i) THEN "gone" ELSE "live"]
    /\ UNCHANGED limit

\* Deletion, expiry or a sweep; a sweep takes several pastes at once.
Remove(S) ==
    /\ \A i \in S : state[i] = "live"
    /\ state' = [i \in IDs |-> IF i \in S THEN "gone" ELSE state[i]]
    /\ UNCHANGED <<limit, count>>

Next ==
    \/ \E i \in IDs : Create(i) \/ View(i)
    \/ \E S \in SUBSET IDs : Remove(S)

Spec == Init /\ [][Next]_vars
=============================================================================
