----------------------------- MODULE Supervisor -----------------------------
(***************************************************************************)
(* What a process that runs a model server and a client promises about the *)
(* two process groups, in benchmarks/server_runner.py and in the three     *)
(* scripts/run-*.py alike: each group is started at most once, the client  *)
(* after the server; a group that was dealt with stays dealt with; nobody  *)
(* touches the server before the client has been dealt with, and nobody    *)
(* starts a client afterwards; and the runner ends when both are.  It may  *)
(* be excused, and then it may stop the server or end too early, but it    *)
(* starts nothing anew even so.                                            *)
(***************************************************************************)
VARIABLES
    group,    \* each group: not started, started, released (nobody in it goes on)
    asked,    \* the server's group was sent a signal
    over,     \* the runner has ended
    excused   \* something happened after which it promises less

Groups == {"server", "client"}

Init ==
    /\ group = [g \in Groups |-> "none"]
    /\ asked = FALSE /\ over = FALSE /\ excused = FALSE

Started(g) == group[g] = "started"

Start(g) ==
    /\ group[g] = "none" /\ ~asked /\ ~over
    /\ g = "client" => group["server"] # "none"
    /\ group' = [group EXCEPT ![g] = "started"]
    /\ UNCHANGED <<asked, over, excused>>

\* Some of the groups, or none, end or are killed.
Releases ==
    \E R \in SUBSET Groups :
        group' = [g \in Groups |-> IF g \in R /\ Started(g) THEN "released" ELSE group[g]]

Release == Releases /\ UNCHANGED <<asked, over, excused>>

AskServer ==
    /\ ~over
    /\ Started("client") => excused
    /\ asked' = TRUE
    /\ UNCHANGED <<group, over, excused>>

Excuse == excused' = TRUE /\ ~over /\ UNCHANGED <<group, asked, over>>

End ==
    /\ ~over /\ over' = TRUE
    /\ Releases
    /\ excused' \in {excused, TRUE}
    /\ excused' \/ \A g \in Groups : group'[g] # "started"
    /\ UNCHANGED asked

Next == (\E g \in Groups : Start(g)) \/ Release \/ AskServer \/ Excuse \/ End

Spec == Init /\ [][Next]_<<group, asked, over, excused>>
=============================================================================
