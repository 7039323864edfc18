------------------------------ MODULE Gateway ------------------------------
(***************************************************************************)
(* What the adapters of scripts/thinking.py promise to the model server:   *)
(* each has at most Slots requests there, a request gets there once, and   *)
(* none gets there after the session has ended.                            *)
(***************************************************************************)
EXTENDS Naturals, FiniteSets

CONSTANTS Sessions, Requests, Home, Slots

VARIABLES
    session,  \* of each session: not begun, open, ended
    busy,     \* requests that are at the model server
    seen      \* requests that ever got there

Init ==
    /\ session = [s \in Sessions |-> "none"]
    /\ busy = {}
    /\ seen = {}

Of(s, S) == {r \in S : Home[r] = s}

Open(s) ==
    /\ session[s] = "none"
    /\ session' = [session EXCEPT ![s] = "open"]
    /\ UNCHANGED <<busy, seen>>

Begin(r) ==
    /\ session[Home[r]] = "open"
    /\ r \notin seen
    /\ Cardinality(Of(Home[r], busy)) < Slots
    /\ busy' = busy \union {r}
    /\ seen' = seen \union {r}
    /\ UNCHANGED session

Finish(r) ==
    /\ r \in busy
    /\ busy' = busy \ {r}
    /\ UNCHANGED <<session, seen>>

\* Whatever is still at the model server is given up, at once or before the end.
End(s) ==
    /\ session' = [session EXCEPT ![s] = "ended"]
    /\ busy' = busy \ Of(s, busy)
    /\ UNCHANGED seen

Next ==
    \/ \E s \in Sessions : Open(s) \/ End(s)
    \/ \E r \in Requests : Begin(r) \/ Finish(r)

Spec == Init /\ [][Next]_<<session, busy, seen>>
=============================================================================
