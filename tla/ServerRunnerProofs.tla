------------------------- MODULE ServerRunnerProofs -------------------------
(***************************************************************************)
(* The teardown of benchmarks/server_runner.py is right whatever the       *)
(* children do and whichever of them may hang (any MayHang).               *)
(***************************************************************************)
EXTENDS ServerRunner, Integers, TLAPS

\* The inductive invariant: what the runner has established at each place.

Watching == {"open", "startup", "probe", "launch", "watch", "check"}

Stopping == {"signal", "grace", "kill", "reap"}

PlaceInv ==
    /\ pc \in Watching => stage = "none"
    /\ pc \in Stopping => stage # "none"
    /\ pc # "ended" => ~gaveUp
    /\ pc = "ended" => gaveUp \/ stage = "server"
    /\ pc \in {"grace", "kill", "reap"} => leader[Group] # "none"
    /\ pc \in {"open", "startup", "probe", "launch"} => leader["client"] = "none"
    /\ pc = "open" => leader["server"] = "none"

\* A group without a leader has nobody, and nobody is signalled before his turn.
GroupInv ==
    /\ \A g \in Groups : leader[g] = "none" => worker[g] = "none"
    /\ stage = "none" => sent["client"] = {}
    /\ stage # "server" => sent["server"] = {}

\* The two places where SIGKILL must have done its work.
ReleaseInv ==
    /\ pc = "reap" =>
          /\ leader[Group] = "running" => "SIGKILL" \in sent[Group]
          /\ worker[Group] = "running" => "SIGKILL" \in sent[Group]
    /\ stage = "server" => Released("client")
    /\ pc = "ended" /\ ~gaveUp => Released("server")

\* Why a client that still runs is being stopped.
AskInv ==
    /\ stage = "loop" => signum = "SIGINT" \/ leader["server"] = "reaped"
    /\ stage = "loop" /\ pc \in {"grace", "kill", "reap"} => signum \in sent["client"]
    /\ stage \in {"client", "server"} /\ leader["client"] = "running" =>
           "SIGINT" \in sent["client"] \/ leader["server"] = "reaped"

IInv == TypeOK /\ PlaceInv /\ GroupInv /\ ReleaseInv /\ AskInv /\ ClientIsAsked

----------------------------------------------------------------------------
LEMMA InitIInv == Init => IInv
BY DEF Init, IInv, TypeOK, PlaceInv, GroupInv, ReleaseInv, AskInv, ClientIsAsked, Groups,
       Signals, Watching, Stopping, Group

LEMMA StepIInv == IInv /\ [Next]_vars => IInv'
<1> SUFFICES ASSUME IInv, [Next]_vars PROVE IInv'
    OBVIOUS
<1> USE DEF IInv, TypeOK, PlaceInv, GroupInv, ReleaseInv, AskInv, ClientIsAsked, Groups,
            Signals, Watching, Stopping, Released, Group, children, control
<1>1. CASE Launch("server", "open", "startup")
    BY <1>1 DEF Launch, GoOn
<1>2. CASE Launch("client", "launch", "watch")
    BY <1>2 DEF Launch, GoOn
<1>3. CASE StartFails
  <2>1. TypeOK'
      BY <1>3 DEF StartFails, Finally, StopOwned
  <2>2. PlaceInv'
      BY <1>3 DEF StartFails, Finally, StopOwned
  <2>3. GroupInv'
      BY <1>3 DEF StartFails, Finally, StopOwned
  <2>4. ReleaseInv'
      BY <1>3 DEF StartFails, Finally, StopOwned
  <2>5. AskInv'
      BY <1>3 DEF StartFails, Finally, StopOwned
  <2>6. ClientIsAsked'
      BY <1>3 DEF StartFails, Finally, StopOwned
  <2> QED
      BY <2>1, <2>2, <2>3, <2>4, <2>5, <2>6
<1>4. CASE StartupInterrupted
    BY <1>4 DEF StartupInterrupted, Finally, StopOwned
<1>5. CASE ServerExitsEarly
    BY <1>5 DEF ServerExitsEarly, Reap, Finally, StopOwned
<1>6. CASE StartupPoll
    BY <1>6 DEF StartupPoll, GoOn
<1>7. CASE Probe
    BY <1>7 DEF Probe, GoOn
<1>8. CASE ClientExited
  <2>1. TypeOK'
      BY <1>8 DEF ClientExited, Reap, Finally, StopOwned
  <2>2. PlaceInv'
      BY <1>8 DEF ClientExited, Reap, Finally, StopOwned
  <2>3. GroupInv'
      BY <1>8 DEF ClientExited, Reap, Finally, StopOwned
  <2>4. ReleaseInv'
      BY <1>8 DEF ClientExited, Reap, Finally, StopOwned
  <2>5. AskInv'
      BY <1>8 DEF ClientExited, Reap, Finally, StopOwned
  <2>6. ClientIsAsked'
      BY <1>8 DEF ClientExited, Reap, Finally, StopOwned
  <2> QED
      BY <2>1, <2>2, <2>3, <2>4, <2>5, <2>6
<1>9. CASE ClientRuns
    BY <1>9 DEF ClientRuns, GoOn
<1>10. CASE Interrupted
  <2>1. TypeOK'
      BY <1>10 DEF Interrupted, StopOwned
  <2>2. PlaceInv'
      BY <1>10 DEF Interrupted, StopOwned
  <2>3. GroupInv'
      BY <1>10 DEF Interrupted, StopOwned
  <2>4. ReleaseInv'
      BY <1>10 DEF Interrupted, StopOwned
  <2>5. AskInv'
      BY <1>10 DEF Interrupted, StopOwned
  <2>6. ClientIsAsked'
      BY <1>10 DEF Interrupted, StopOwned
  <2> QED
      BY <2>1, <2>2, <2>3, <2>4, <2>5, <2>6
<1>11. CASE ServerExited
  <2>1. TypeOK'
      BY <1>11 DEF ServerExited, Reap, StopOwned
  <2>2. PlaceInv'
      BY <1>11 DEF ServerExited, Reap, StopOwned
  <2>3. GroupInv'
      BY <1>11 DEF ServerExited, Reap, StopOwned
  <2>4. ReleaseInv'
      BY <1>11 DEF ServerExited, Reap, StopOwned
  <2>5. AskInv'
      BY <1>11 DEF ServerExited, Reap, StopOwned
  <2>6. ClientIsAsked'
      BY <1>11 DEF ServerExited, Reap, StopOwned
  <2> QED
      BY <2>1, <2>2, <2>3, <2>4, <2>5, <2>6
<1>12. CASE ServerRuns
    BY <1>12 DEF ServerRuns, GoOn
<1>13. CASE NothingToStop
  <2>1. TypeOK'
      BY <1>13 DEF NothingToStop, Exists, Proceed, Finally, StopOwned, GoOn
  <2>2. PlaceInv'
      BY <1>13 DEF NothingToStop, Exists, Proceed, Finally, StopOwned, GoOn
  <2>3. GroupInv'
      BY <1>13 DEF NothingToStop, Exists, Proceed, Finally, StopOwned, GoOn
  <2>4. ReleaseInv'
      BY <1>13 DEF NothingToStop, Exists, Proceed, Finally, StopOwned, GoOn
  <2>5. AskInv'
      BY <1>13 DEF NothingToStop, Exists, Proceed, Finally, StopOwned, GoOn
  <2>6. ClientIsAsked'
      BY <1>13 DEF NothingToStop, Exists, Proceed, Finally, StopOwned, GoOn
  <2> QED
      BY <2>1, <2>2, <2>3, <2>4, <2>5, <2>6
<1>14. CASE SendGraceful
    BY <1>14 DEF SendGraceful, Exists, Send
<1>15. CASE LeaderGone
    BY <1>15 DEF LeaderGone, Reap, GoOn
<1>16. CASE GraceExpires
    BY <1>16 DEF GraceExpires, GoOn
<1>17. CASE SendKill
    BY <1>17 DEF SendKill, Exists, Send
<1>18. CASE NothingToKill
    BY <1>18 DEF NothingToKill, Exists, GoOn
<1>19. CASE Stopped
  <2>1. TypeOK'
      BY <1>19 DEF Stopped, Reap, Proceed, Finally, StopOwned, GoOn
  <2>2. PlaceInv'
      BY <1>19 DEF Stopped, Reap, Proceed, Finally, StopOwned, GoOn
  <2>3. GroupInv'
      BY <1>19 DEF Stopped, Reap, Proceed, Finally, StopOwned, GoOn
  <2>4. ReleaseInv'
      BY <1>19 DEF Stopped, Reap, Proceed, Finally, StopOwned, GoOn
  <2>5. AskInv'
      BY <1>19 DEF Stopped, Reap, Proceed, Finally, StopOwned, GoOn
  <2>6. ClientIsAsked'
      BY <1>19 DEF Stopped, Reap, Proceed, Finally, StopOwned, GoOn
  <2> QED
      BY <2>1, <2>2, <2>3, <2>4, <2>5, <2>6
<1>20. CASE StopTimesOut
  <2>1. TypeOK'
      BY <1>20 DEF StopTimesOut, Finally, StopOwned
  <2>2. PlaceInv'
      BY <1>20 DEF StopTimesOut, Finally, StopOwned
  <2>3. GroupInv'
      BY <1>20 DEF StopTimesOut, Finally, StopOwned
  <2>4. ReleaseInv'
      BY <1>20 DEF StopTimesOut, Finally, StopOwned
  <2>5. AskInv'
      BY <1>20 DEF StopTimesOut, Finally, StopOwned
  <2>6. ClientIsAsked'
      BY <1>20 DEF StopTimesOut, Finally, StopOwned
  <2> QED
      BY <2>1, <2>2, <2>3, <2>4, <2>5, <2>6
<1>21. CASE HandleSignal
    BY <1>21 DEF HandleSignal
<1>22. CASE BecomesReady
    BY <1>22 DEF BecomesReady
<1>23. ASSUME NEW g \in Groups, LeaderExits(g) PROVE IInv'
    BY <1>23 DEF LeaderExits
<1>24. ASSUME NEW g \in Groups, Forks(g) PROVE IInv'
    BY <1>24 DEF Forks
<1>25. ASSUME NEW g \in Groups, WorkerExits(g) PROVE IInv'
    BY <1>25 DEF WorkerExits
<1>26. CASE UNCHANGED vars
    BY <1>26 DEF vars
<1> QED
    BY <1>1, <1>2, <1>3, <1>4, <1>5, <1>6, <1>7, <1>8, <1>9, <1>10, <1>11, <1>12, <1>13, <1>14,
       <1>15, <1>16, <1>17, <1>18, <1>19, <1>20, <1>21, <1>22, <1>23, <1>24, <1>25, <1>26 DEF Next, Runner

LEMMA Inductive == Spec => []IInv
<1>1. Init => IInv
    BY InitIInv
<1>2. IInv /\ [Next]_vars => IInv'
    BY StepIInv
<1> QED
    BY <1>1, <1>2, PTL DEF Spec

\* Every variable keeps to its values.
THEOREM TypeCorrect == Spec => []TypeOK
<1>1. IInv => TypeOK
    BY DEF IInv
<1> QED
    BY <1>1, Inductive, PTL

\* The server is signalled only after the whole client group is dead or dying: the
\* finally block gets to its second stop_owned through the first one only.
THEOREM ServerIsStoppedLast == Spec => []ServerStopsLast
<1>1. IInv => ServerStopsLast
    BY DEF IInv, GroupInv, ReleaseInv, ServerStopsLast
<1> QED
    BY <1>1, Inductive, PTL

\* main returns, or raises anything but the TimeoutExpired of its finally block, with
\* both leaders reaped and nobody left that was not sent SIGKILL.
THEOREM NothingIsLeft == Spec => []NothingLeftRunning
<1>1. IInv => NothingLeftRunning
    BY DEF IInv, PlaceInv, ReleaseInv, NothingLeftRunning, Groups
<1> QED
    BY <1>1, Inductive, PTL

\* A client that still runs gets SIGINT, on which it records its task, before any
\* SIGTERM, unless the server is lost.
THEOREM ClientIsInterruptedFirst == Spec => []ClientIsAsked
<1>1. IInv => ClientIsAsked
    BY DEF IInv
<1> QED
    BY <1>1, Inductive, PTL

\* Who has been started, and that a group which is being stopped was sent a signal.
TurnInv ==
    /\ pc \in Watching \ {"open"} => leader["server"] # "none"
    /\ pc \in {"watch", "check"} => leader["client"] # "none"
    /\ pc \in {"grace", "kill", "reap"} => sent[Group] # {}

LEMMA StepTurnInv == IInv /\ TurnInv /\ [Next]_vars => TurnInv'
<1> SUFFICES ASSUME IInv, TurnInv, [Next]_vars PROVE TurnInv'
    OBVIOUS
<1> USE DEF IInv, TypeOK, PlaceInv, TurnInv, Watching, Stopping, Groups, Group, children,
            control
<1>1. CASE Launch("server", "open", "startup") \/ Launch("client", "launch", "watch")
    BY <1>1 DEF Launch, GoOn
<1>2. CASE StartFails \/ StartupInterrupted \/ ServerExitsEarly \/ ClientExited
    BY <1>2 DEF StartFails, StartupInterrupted, ServerExitsEarly, ClientExited, Reap, Finally,
                StopOwned
<1>3. CASE StartupPoll \/ Probe \/ ClientRuns \/ ServerRuns
    BY <1>3 DEF StartupPoll, Probe, ClientRuns, ServerRuns, GoOn
<1>4. CASE Interrupted \/ ServerExited
    BY <1>4 DEF Interrupted, ServerExited, Reap, StopOwned
<1>5. CASE NothingToStop
    BY <1>5 DEF NothingToStop, Proceed, Finally, StopOwned, GoOn
<1>6. CASE SendGraceful
  <2>1. sent'[Group] = sent[Group] \union {signum} /\ Group' = Group
      BY <1>6 DEF SendGraceful, Send
  <2>2. pc' = "grace" /\ sent'[Group] # {}
      BY <1>6, <2>1 DEF SendGraceful
  <2> QED
      BY <2>1, <2>2
<1>7. CASE LeaderGone \/ GraceExpires \/ NothingToKill
    BY <1>7 DEF LeaderGone, GraceExpires, NothingToKill, Reap, GoOn
<1>8. CASE SendKill
    BY <1>8 DEF SendKill, Send
<1>9. CASE Stopped
  <2>1. pc' = "signal" \/ pc' = "ended"
      BY <1>9 DEF Stopped, Proceed, Finally, StopOwned, GoOn
  <2> QED
      BY <2>1
<1>10. CASE StopTimesOut
    BY <1>10 DEF StopTimesOut, Finally, StopOwned
<1>11. CASE HandleSignal \/ BecomesReady
    BY <1>11 DEF HandleSignal, BecomesReady
<1>12. ASSUME NEW g \in Groups, LeaderExits(g) \/ Forks(g) \/ WorkerExits(g) PROVE TurnInv'
    BY <1>12 DEF LeaderExits, Forks, WorkerExits
<1>13. CASE UNCHANGED vars
    BY <1>13 DEF vars
<1> QED
    BY <1>1, <1>2, <1>3, <1>4, <1>5, <1>6, <1>7, <1>8, <1>9, <1>10, <1>11, <1>12, <1>13
       DEF Next, Runner

----------------------------------------------------------------------------
\* The life of a group goes one way.

Ages(g) == Life(g)' = Life(g) \/ (Life(g) = "started" /\ Life(g)' = "released")

LEMMA GroupsAge ==
    ASSUME TypeOK, NEW g \in Groups,
           \/ leader'[g] = leader[g]
           \/ leader[g] = "running" /\ leader'[g] = "zombie"
           \/ leader[g] \in {"zombie", "reaped"} /\ leader'[g] = "reaped",
           \/ worker'[g] = "running" => worker[g] = "running"
           \/ leader[g] = "running",
           sent[g] \subseteq sent'[g]
    PROVE  Ages(g)
BY DEF TypeOK, Ages, Life, Released

\* A step in which nobody is started and the server not signalled for the first time.
LEMMA LifeGoesOn ==
    ASSUME IInv', \A g \in Groups : Ages(g), sent'["server"] = {} <=> sent["server"] = {},
           \/ (pc' = "ended" <=> pc = "ended") /\ gaveUp' = gaveUp
           \/ pc # "ended" /\ pc' = "ended" /\ gaveUp' \in {gaveUp, TRUE}
    PROVE  Supervised!Next
<1>1. Supervised!Releases
  <2> DEFINE R == {g \in Groups : Life(g)' = "released"}
  <2>1. [g \in Groups |-> Life(g)]' =
            [g \in Groups |-> IF g \in R /\ Life(g) = "started" THEN "released" ELSE Life(g)]
      BY DEF Ages
  <2>2. \A g \in Groups : [h \in Groups |-> Life(h)][g] = Life(g)
      OBVIOUS
  <2> QED
      BY <2>1, <2>2 DEF Supervised!Releases, Supervised!Started, Supervised!Groups, Groups
<1>2. CASE (pc' = "ended" <=> pc = "ended") /\ gaveUp' = gaveUp
    BY <1>1, <1>2 DEF Supervised!Next, Supervised!Release
<1>3. CASE pc # "ended" /\ pc' = "ended" /\ gaveUp' \in {gaveUp, TRUE}
  <2>1. gaveUp' \/ \A g \in Groups : Life(g)' # "started"
      BY <1>3 DEF IInv, PlaceInv, ReleaseInv, Life, Groups
  <2>2. Supervised!End
      BY <1>1, <1>3, <2>1 DEF Supervised!End, Supervised!Groups, Groups
  <2> QED
      BY <2>2 DEF Supervised!Next
<1> QED
    BY <1>2, <1>3
Supervision == <<[g \in Groups |-> Life(g)], sent["server"] # {}, pc = "ended", gaveUp>>

\* Every step of the runner and of the children is one of the life of the groups.
LEMMA StepSupervised ==
    ASSUME IInv, TurnInv, [Next]_vars
    PROVE  [Supervised!Next]_Supervision
<1> USE DEF Groups
<1>0. IInv'
    BY StepIInv
<1>1. /\ TypeOK /\ Group \in Groups
      /\ pc \in {"grace", "kill", "reap"} => leader[Group] # "none" /\ sent[Group] # {}
    BY DEF IInv, TypeOK, PlaceInv, TurnInv, Stopping, Group
<1>2. CASE Launch("server", "open", "startup")
  <2>1. /\ leader["server"] = "none" /\ leader' = [leader EXCEPT !["server"] = "running"]
        /\ sent["server"] = {} /\ pc = "open" /\ pc' = "startup"
        /\ UNCHANGED <<worker, sent, gaveUp>>
      BY <1>2 DEF Launch, GoOn, IInv, PlaceInv, GroupInv, Watching
  <2>2. /\ Life("server") = "none" /\ Life("server")' = "started"
        /\ Life("client")' = Life("client")
      BY <1>1, <2>1 DEF TypeOK, Life, Released
  <2>3. Supervised!Start("server")
      BY <2>1, <2>2 DEF Supervised!Start, Supervised!Groups
  <2> QED
      BY <2>3 DEF Supervised!Next, Supervised!Groups
<1>3. CASE Launch("client", "launch", "watch")
  <2>1. /\ leader["client"] = "none" /\ leader' = [leader EXCEPT !["client"] = "running"]
        /\ leader["server"] # "none"
        /\ sent["server"] = {} /\ pc = "launch" /\ pc' = "watch"
        /\ UNCHANGED <<worker, sent, gaveUp>>
      BY <1>3 DEF Launch, GoOn, IInv, PlaceInv, GroupInv, TurnInv, Watching
  <2>2. /\ Life("client") = "none" /\ Life("client")' = "started"
        /\ Life("server")' = Life("server") /\ Life("server") # "none"
      BY <1>1, <2>1 DEF TypeOK, Life, Released
  <2>3. Supervised!Start("client")
      BY <2>1, <2>2 DEF Supervised!Start, Supervised!Groups
  <2> QED
      BY <2>3 DEF Supervised!Next, Supervised!Groups
<1>4. ASSUME UNCHANGED <<leader, worker, sent, pc, gaveUp>> PROVE UNCHANGED Supervision
    BY <1>4 DEF Supervision, Life, Released
\* Steps that leave the children and their signals alone, or reap a leader.
<1>5. ASSUME UNCHANGED <<worker, sent>>,
             \/ leader' = leader
             \/ \E g \in Groups : leader[g] # "none" /\ Reap(g),
             pc # "ended", gaveUp' \in {gaveUp, TRUE}, pc' # "ended" => gaveUp' = gaveUp
      PROVE  Supervised!Next
  <2>1. ASSUME NEW g \in Groups PROVE Ages(g)
      BY <1>1, <1>5, GroupsAge DEF Reap, TypeOK
  <2>2. sent'["server"] = {} <=> sent["server"] = {}
      BY <1>5
  <2>3. CASE pc' = "ended"
      BY <1>0, <1>5, <2>1, <2>2, <2>3, LifeGoesOn
  <2>4. CASE pc' # "ended"
      BY <1>0, <1>5, <2>1, <2>2, <2>4, LifeGoesOn
  <2> QED
      BY <2>3, <2>4
<1>6. CASE \/ StartFails \/ StartupInterrupted \/ ServerExitsEarly \/ StartupPoll \/ Probe
           \/ ClientExited \/ ClientRuns \/ Interrupted \/ ServerExited \/ ServerRuns
  <2>1. /\ pc # "ended" /\ pc' # "ended" /\ gaveUp' = gaveUp
        /\ UNCHANGED <<worker, sent>>
        /\ leader' = leader \/ \E g \in Groups : leader[g] # "none" /\ Reap(g)
      BY <1>6 DEF StartFails, StartupInterrupted, ServerExitsEarly, StartupPoll, Probe,
                  ClientExited, ClientRuns, Interrupted, ServerExited, ServerRuns, Finally,
                  StopOwned, GoOn, Reap, TurnInv, Watching
  <2> QED
      BY <1>5, <2>1
<1>7. CASE NothingToStop \/ LeaderGone \/ GraceExpires \/ NothingToKill \/ Stopped \/ StopTimesOut
  <2>1. stage \in {"loop", "client", "server"}
      BY <1>7 DEF IInv, TypeOK, PlaceInv, Stopping, NothingToStop, LeaderGone, GraceExpires,
                  NothingToKill, Stopped, StopTimesOut
  <2>2. /\ pc # "ended" /\ gaveUp' \in {gaveUp, TRUE}
        /\ pc' # "ended" => gaveUp' = gaveUp
        /\ UNCHANGED <<worker, sent>>
      BY <1>7, <2>1 DEF NothingToStop, LeaderGone, GraceExpires, NothingToKill, Stopped,
                  StopTimesOut, Proceed, Finally, StopOwned, GoOn
  <2>3. leader' = leader \/ \E g \in Groups : leader[g] # "none" /\ Reap(g)
      BY <1>1, <1>7 DEF NothingToStop, LeaderGone, GraceExpires, NothingToKill, Stopped,
                  StopTimesOut
  <2> QED
      BY <1>5, <2>2, <2>3
<1>8. CASE SendGraceful
  <2>1. /\ pc = "signal" /\ pc' = "grace" /\ UNCHANGED <<leader, worker, gaveUp, stage>>
        /\ sent' = [sent EXCEPT ![Group] = @ \union {signum}] /\ signum # "SIGKILL"
      BY <1>1, <1>8 DEF SendGraceful, Send, TypeOK
  <2>2. \A g \in Groups : Life(g)' = Life(g)
      BY <1>1, <2>1 DEF TypeOK, Life, Released
  <2>3. CASE Group = "server"
    <3>1. stage = "server"
        BY <2>3 DEF Group
    <3>2. Life("client") # "started"
        BY <3>1 DEF IInv, ReleaseInv, Life
    <3>3. sent'["server"] # {}
        BY <1>1, <2>1, <2>3 DEF TypeOK
    <3>4. Supervised!AskServer
        BY <2>1, <2>2, <3>2, <3>3 DEF Supervised!AskServer, Supervised!Started
    <3> QED
        BY <3>4 DEF Supervised!Next
  <2>4. CASE Group = "client"
    <3>1. sent'["server"] = sent["server"]
        BY <1>1, <2>1, <2>4 DEF TypeOK
    <3> QED
        BY <1>0, <2>1, <2>2, <3>1, LifeGoesOn DEF Ages
  <2> QED
      BY <1>1, <2>3, <2>4
<1>9. CASE SendKill
  <2>1. /\ pc = "kill" /\ pc' = "reap" /\ UNCHANGED <<leader, worker, gaveUp>>
        /\ sent' = [sent EXCEPT ![Group] = @ \union {"SIGKILL"}]
      BY <1>9 DEF SendKill, Send
  <2>2. \A g \in Groups : sent[g] \subseteq sent'[g] /\ (sent'[g] = {} <=> sent[g] = {})
      BY <1>1, <2>1 DEF TypeOK
  <2>3. \A g \in Groups : Ages(g)
      BY <1>1, <2>1, <2>2, GroupsAge
  <2> QED
      BY <1>0, <2>1, <2>2, <2>3, LifeGoesOn
<1>10. CASE HandleSignal \/ BecomesReady
    BY <1>4, <1>10 DEF HandleSignal, BecomesReady, children, control
<1>11. ASSUME NEW h \in Groups, LeaderExits(h) \/ Forks(h) \/ WorkerExits(h)
       PROVE  Supervised!Next
  <2>1. UNCHANGED <<sent, pc, gaveUp>>
      BY <1>11 DEF LeaderExits, Forks, WorkerExits, control
  <2>2. ASSUME NEW g \in Groups PROVE Ages(g)
    <3>1. \/ leader'[g] = leader[g]
          \/ leader[g] = "running" /\ leader'[g] = "zombie"
        BY <1>1, <1>11 DEF LeaderExits, Forks, WorkerExits, TypeOK
    <3>2. \/ worker'[g] = "running" => worker[g] = "running"
          \/ leader[g] = "running"
        BY <1>1, <1>11 DEF LeaderExits, Forks, WorkerExits, TypeOK
    <3> QED
        BY <1>1, <2>1, <3>1, <3>2, GroupsAge
  <2> QED
      BY <1>0, <2>1, <2>2, LifeGoesOn
<1>12. CASE UNCHANGED vars
    BY <1>4, <1>12 DEF vars
<1> QED
    BY <1>2, <1>3, <1>6, <1>7, <1>8, <1>9, <1>10, <1>11, <1>12 DEF Next, Runner

\* The runner implements the supervisor: a client only next to its server, the server only
\* after its client, an end only when both are dealt with, and nobody started afterwards.
THEOREM SupervisorKept == Spec => ImplementsSupervisor
<1>1. Init => Supervised!Init /\ TurnInv
    BY DEF Init, Supervised!Init, Supervised!Groups, Groups, Life, TurnInv, Watching
<1>2. IInv /\ TurnInv /\ [Next]_vars => TurnInv'
    BY StepTurnInv
<1> QED
    BY <1>1, <1>2, StepSupervised, Inductive, PTL
       DEF Spec, ImplementsSupervisor, Supervised!Spec, Supervision

----------------------------------------------------------------------------
\* How long the teardown can take, counted in steps of the runner.

\* The calls of stop_owned still to come, the present one included, and the rest of this one.
CallsLeft == CASE stage = "loop" -> 3 [] stage = "client" -> 2 [] stage = "server" -> 1

StepsOfCall == CASE pc = "signal" -> 4 [] pc = "grace" -> 3 [] pc = "kill" -> 2 [] pc = "reap" -> 1

StepsLeft == IF pc = "ended" THEN 0 ELSE 4 * (CallsLeft - 1) + StepsOfCall

LEMMA AtMostTwelve ==
    ASSUME TypeOK, PlaceInv, pc \in Stopping
    PROVE  StepsLeft \in 1..12
BY DEF TypeOK, PlaceInv, Stopping, StepsLeft, CallsLeft, StepsOfCall

Advances == pc # "ended" /\ (pc \in Stopping => StepsLeft \in 1..12 /\ StepsLeft' \in 0..StepsLeft - 1)

LEMMA StepAdvances == IInv /\ [Next]_vars => [Advances]_control
<1> SUFFICES ASSUME IInv, Next PROVE Advances \/ UNCHANGED control
    BY DEF vars, control
<1> SUFFICES ASSUME TypeOK, PlaceInv PROVE Advances \/ UNCHANGED control
    BY DEF IInv
<1>1. pc \in Stopping => StepsLeft \in 1..12
    BY AtMostTwelve
<1>2. CASE \/ Launch("server", "open", "startup") \/ Launch("client", "launch", "watch")
           \/ StartFails \/ StartupInterrupted \/ ServerExitsEarly \/ StartupPoll \/ Probe
           \/ ClientExited \/ ClientRuns \/ Interrupted \/ ServerExited \/ ServerRuns
  <2>1. pc \notin Stopping /\ pc # "ended"
      BY <1>2 DEF Launch, StartFails, StartupInterrupted, ServerExitsEarly, StartupPoll, Probe,
                  ClientExited, ClientRuns, Interrupted, ServerExited, ServerRuns, Stopping
  <2> QED
      BY <2>1 DEF Advances
<1>3. CASE SendGraceful \/ LeaderGone \/ GraceExpires \/ SendKill \/ NothingToKill
  <2>1. \/ pc = "signal" /\ pc' = "grace"
        \/ pc = "grace" /\ pc' = "kill"
        \/ pc = "kill" /\ pc' = "reap"
      BY <1>3 DEF SendGraceful, LeaderGone, GraceExpires, SendKill, NothingToKill, GoOn
  <2>2. stage' = stage
      BY <1>3 DEF SendGraceful, LeaderGone, GraceExpires, SendKill, NothingToKill, GoOn, Send
  <2>3. pc \in Stopping /\ stage \in {"loop", "client", "server"}
      BY <2>1 DEF Stopping, TypeOK, PlaceInv
  <2>4. StepsLeft' < StepsLeft /\ StepsLeft' \in 0..12
      BY <2>1, <2>2, <2>3 DEF StepsLeft, CallsLeft, StepsOfCall
  <2> QED
      BY <1>1, <2>1, <2>3, <2>4 DEF Advances, Stopping
<1>4. CASE NothingToStop \/ Stopped \/ StopTimesOut
  <2>1. pc \in {"signal", "reap"} /\ pc \in Stopping /\ pc # "ended"
      BY <1>4 DEF NothingToStop, Stopped, StopTimesOut, Stopping
  <2>2. \/ stage = "loop" /\ stage' = "client" /\ pc' = "signal"
        \/ stage = "client" /\ stage' = "server" /\ pc' = "signal"
        \/ pc' = "ended"
      BY <1>4, <2>1 DEF NothingToStop, Stopped, StopTimesOut, Proceed, Finally, StopOwned, GoOn,
                        Stopping, TypeOK, PlaceInv
  <2>3. CASE stage = "loop" /\ stage' = "client" /\ pc' = "signal"
      BY <1>1, <2>1, <2>3 DEF Advances, StepsLeft, CallsLeft, StepsOfCall
  <2>4. CASE stage = "client" /\ stage' = "server" /\ pc' = "signal"
      BY <1>1, <2>1, <2>4 DEF Advances, StepsLeft, CallsLeft, StepsOfCall
  <2>5. CASE pc' = "ended"
      BY <1>1, <2>1, <2>5 DEF Advances, StepsLeft
  <2> QED
      BY <2>2, <2>3, <2>4, <2>5
<1>5. CASE HandleSignal \/ BecomesReady
    BY <1>5 DEF HandleSignal, BecomesReady
<1>6. ASSUME NEW g \in Groups, LeaderExits(g) \/ Forks(g) \/ WorkerExits(g)
      PROVE  UNCHANGED control
    BY <1>6 DEF LeaderExits, Forks, WorkerExits
<1> QED
    BY <1>2, <1>3, <1>4, <1>5, <1>6 DEF Next, Runner

\* Once it stops somebody, the runner takes at most twelve more steps: nothing the children do
\* and no signal, however many come, prolongs a teardown, and nothing follows its end.
TeardownAdvances == [][Advances]_control

\* The teardown is finite for any children, hung ones included; that each of its steps is
\* eventually possible is what the run adds (Ends).
THEOREM TeardownIsFinite == Spec => TeardownAdvances
<1> QED
    BY StepAdvances, Inductive, PTL DEF Spec, TeardownAdvances
=============================================================================
