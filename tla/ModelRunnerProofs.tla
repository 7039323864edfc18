------------------------- MODULE ModelRunnerProofs -------------------------
(***************************************************************************)
(* The run-*.py scripts: readiness, teardown and exit code are right       *)
(* whatever the children, the other users of the port and the signals do.  *)
(***************************************************************************)
EXTENDS ModelRunner, Integers, TLAPS

Teardown == {"stop", "grace", "kill", "reap"}

ServerOnly == {"startup", "deadline", "health", "models", "confirm", "ready"}

WithClient == {"client", "watch", "limit"}

\* Which children there are at each place, and which of them main knows.
PlaceInv ==
    /\ pc \in {"open", "server forked"} => bound = {} /\ leader["client"] = "none"
    /\ pc = "open" => leader["server"] = "none"
    /\ pc = "server forked" => leader["server"] # "none"
    /\ pc = "client forked" => leader["client"] # "none"
    /\ pc \in ServerOnly => bound = {"server"} /\ leader["client"] = "none"
    /\ pc = "client forked" => bound = {"server"} /\ command
    /\ pc \in WithClient => bound = Groups /\ command
    /\ ~abandoned /\ pc \notin {"server forked", "client forked"} =>
           \A g \in Groups : leader[g] = "none" \/ g \in bound
    /\ \A g \in bound : leader[g] # "none"

\* Signals are heeded until the teardown begins, and nobody is signalled before his turn.
StageInv ==
    /\ pc \in Teardown <=> stage # "none"
    /\ stage # "none" => heeded = {}
    /\ pc \in {"grace", "kill", "reap"} => stage \in bound
    /\ stage = "none" /\ pc # "ended" => sent["client"] = {} /\ sent["server"] = {}
    /\ stage = "client" => sent["server"] = {}

ReleaseInv ==
    /\ \A g \in Groups : leader[g] = "none" => worker[g] = "none"
    /\ pc = "reap" =>
          /\ leader[stage] = "running" => "SIGKILL" \in sent[stage]
          /\ worker[stage] = "running" => "SIGKILL" \in sent[stage]
    /\ stage = "server" /\ ~abandoned => Released("client")

\* As long as the server that was found listening runs, nobody else can answer.
ProbeInv ==
    /\ port = "own" => leader["server"] = "running"
    /\ pc \in {"health", "models", "confirm"} /\ leader["server"] = "running" =>
           port = "own" /\ answered \subseteq {"own"}
    /\ pc \in {"models", "confirm"} => answered # {}

OutcomeInv == \A g \in Groups : leader[g] \in {"none", "running"} <=> outcome[g] = "none"

IInv ==
    /\ TypeOK /\ PlaceInv /\ StageInv /\ ReleaseInv /\ ProbeInv /\ OutcomeInv
    /\ ReadyIsOwn /\ NothingLeft /\ ServerStopsLast /\ ZeroMeansDone
----------------------------------------------------------------------------
LEMMA OnlyOne == ASSUME NEW S, NEW e, S \subseteq {e}, S # {} PROVE S = {e}
OBVIOUS

LEMMA Unions == ASSUME NEW a, NEW b PROVE {} \union {a} = {a} /\ {a} \union {b} = {a, b}
OBVIOUS

LEMMA InitIInv == Init => IInv
BY DEF Init, IInv, TypeOK, PlaceInv, StageInv, ReleaseInv, ProbeInv, OutcomeInv, ReadyIsOwn,
       NothingLeft, ServerStopsLast, ZeroMeansDone, Groups, Signals, Teardown, ServerOnly,
       WithClient, Released

LEMMA StepIInv == IInv /\ [Next]_vars => IInv'
<1> SUFFICES ASSUME IInv, [Next]_vars PROVE IInv'
    OBVIOUS
<1> USE DEF IInv, TypeOK, PlaceInv, StageInv, ReleaseInv, ProbeInv, OutcomeInv, ReadyIsOwn,
            NothingLeft, ServerStopsLast, ZeroMeansDone, Groups, Signals, Teardown,
            ServerOnly, WithClient, Released, fixed, world
<1>1. CASE CannotStart /\ UNCHANGED <<fixed, world>>
    BY <1>1 DEF CannotStart, Leave, Finish
<1>2. CASE StartServer /\ UNCHANGED <<fixed, world>>
  <2>1. TypeOK'
      BY <1>2 DEF StartServer, Fork, Assign, Go
  <2>2. PlaceInv'
    <3>1. CASE Fork("server", "open", "server forked")
          BY <1>2, <3>1 DEF Fork, Go
    <3>2. CASE Assign("server", "server forked", "startup")
      <4>1. bound = {} /\ bound' = bound \union {"server"}
          BY <1>2, <3>2 DEF Assign, Go
      <4>2. bound' = {"server"}
          BY <4>1, Unions
      <4> QED
          BY <1>2, <3>2, <4>2 DEF Assign, Go
    <3> QED
        BY <1>2, <3>1, <3>2 DEF StartServer
  <2>3. StageInv'
      BY <1>2 DEF StartServer, Fork, Assign, Go
  <2>4. ReleaseInv'
      BY <1>2 DEF StartServer, Fork, Assign, Go
  <2>5. ProbeInv'
      BY <1>2 DEF StartServer, Fork, Assign, Go
  <2>6. OutcomeInv'
      BY <1>2 DEF StartServer, Fork, Assign, Go
  <2>7. ReadyIsOwn'
      BY <1>2 DEF StartServer, Fork, Assign, Go
  <2>8. NothingLeft'
      BY <1>2 DEF StartServer, Fork, Assign, Go
  <2>9. ServerStopsLast'
      BY <1>2 DEF StartServer, Fork, Assign, Go
  <2>10. ZeroMeansDone'
      BY <1>2 DEF StartServer, Fork, Assign, Go
  <2> QED
      BY <2>1, <2>2, <2>3, <2>4, <2>5, <2>6, <2>7, <2>8, <2>9, <2>10
<1>3. CASE ServerDies /\ UNCHANGED <<fixed, world>>
  <2>1. TypeOK'
      BY <1>3 DEF ServerDies, Leave, Finish, Ended
  <2>2. PlaceInv'
      BY <1>3 DEF ServerDies, Leave, Finish, Ended
  <2>3. StageInv'
      BY <1>3 DEF ServerDies, Leave, Finish, Ended
  <2>4. ReleaseInv'
      BY <1>3 DEF ServerDies, Leave, Finish, Ended
  <2>5. ProbeInv'
      BY <1>3 DEF ServerDies, Leave, Finish, Ended
  <2>6. OutcomeInv'
      BY <1>3 DEF ServerDies, Leave, Finish, Ended
  <2>7. ReadyIsOwn'
      BY <1>3 DEF ServerDies, Leave, Finish, Ended
  <2>8. NothingLeft'
      BY <1>3 DEF ServerDies, Leave, Finish, Ended
  <2>9. ServerStopsLast'
      BY <1>3 DEF ServerDies, Leave, Finish, Ended
  <2>10. ZeroMeansDone'
      BY <1>3 DEF ServerDies, Leave, Finish, Ended
  <2> QED
      BY <2>1, <2>2, <2>3, <2>4, <2>5, <2>6, <2>7, <2>8, <2>9, <2>10
<1>4. CASE StillStarting /\ UNCHANGED <<fixed, world>>
    BY <1>4 DEF StillStarting, Go, Alive
<1>5. CASE StartupExpires /\ UNCHANGED <<fixed, world>>
    BY <1>5 DEF StartupExpires, Leave, Finish
<1>6. CASE owns_listener /\ UNCHANGED <<fixed, world>>
    BY <1>6 DEF owns_listener, Go
<1>7. CASE Health /\ UNCHANGED <<fixed, world>>
    BY <1>7 DEF Health, Probe, Go
<1>8. CASE ModelsListed /\ UNCHANGED <<fixed, world>>
    BY <1>8 DEF ModelsListed, Probe, Go
<1>9. CASE Confirm /\ UNCHANGED <<fixed, world>>
  <2>1. TypeOK'
      BY <1>9 DEF Confirm, Go, Alive, Ended
  <2>2. PlaceInv'
      BY <1>9 DEF Confirm, Go, Alive, Ended
  <2>3. StageInv'
      BY <1>9 DEF Confirm, Go, Alive, Ended
  <2>4. ReleaseInv'
      BY <1>9 DEF Confirm, Go, Alive, Ended
  <2>5. ProbeInv'
      BY <1>9 DEF Confirm, Go, Alive, Ended
  <2>6. OutcomeInv'
      BY <1>9 DEF Confirm, Go, Alive, Ended
  <2>7. ReadyIsOwn'
    <3>1. CASE Go("confirm", "ready") /\ Alive("server")
      <4>1. answered \subseteq {"own"} /\ answered # {} /\ answered' = answered
          BY <1>9, <3>1 DEF Confirm, Go, Alive
      <4>2. answered = {"own"}
          BY <4>1, OnlyOne
      <4> QED
          BY <4>1, <4>2
    <3>2. CASE Go("confirm", "startup") /\ Ended("server")
          BY <1>9, <3>2 DEF Go
    <3> QED
        BY <1>9, <3>1, <3>2 DEF Confirm
  <2>8. NothingLeft'
      BY <1>9 DEF Confirm, Go, Alive, Ended
  <2>9. ServerStopsLast'
      BY <1>9 DEF Confirm, Go, Alive, Ended
  <2>10. ZeroMeansDone'
      BY <1>9 DEF Confirm, Go, Alive, Ended
  <2> QED
      BY <2>1, <2>2, <2>3, <2>4, <2>5, <2>6, <2>7, <2>8, <2>9, <2>10
<1>10. CASE StartClient /\ UNCHANGED <<fixed, world>>
  <2>1. TypeOK'
    <3>1. CASE Fork("client", "ready", "client forked")
          BY <1>10, <3>1 DEF Fork, Go
    <3>2. CASE Assign("client", "client forked", "client")
          BY <1>10, <3>2 DEF Assign, Go
    <3>3. CASE Leave("ready", "bad") /\ UNCHANGED leader
          BY <1>10, <3>3 DEF Leave, Finish
    <3> QED
        BY <1>10, <3>1, <3>2, <3>3 DEF StartClient
  <2>2. PlaceInv'
    <3>1. CASE Fork("client", "ready", "client forked")
          BY <1>10, <3>1 DEF Fork, Go, StartClient
    <3>2. CASE Assign("client", "client forked", "client")
      <4>1. bound = {"server"} /\ bound' = bound \union {"client"}
          BY <1>10, <3>2 DEF Assign, Go
      <4>2. bound' = Groups
          BY <4>1, Unions
      <4> QED
          BY <1>10, <3>2, <4>2 DEF Assign, Go
    <3>3. CASE Leave("ready", "bad") /\ UNCHANGED leader
          BY <1>10, <3>3 DEF Leave, Finish
    <3> QED
        BY <1>10, <3>1, <3>2, <3>3 DEF StartClient
  <2>3. StageInv'
      BY <1>10 DEF StartClient, Fork, Assign, Leave, Finish, Go
  <2>4. ReleaseInv'
      BY <1>10 DEF StartClient, Fork, Assign, Leave, Finish, Go
  <2>5. ProbeInv'
      BY <1>10 DEF StartClient, Fork, Assign, Leave, Finish, Go
  <2>6. OutcomeInv'
      BY <1>10 DEF StartClient, Fork, Assign, Leave, Finish, Go
  <2>7. ReadyIsOwn'
      BY <1>10 DEF StartClient, Fork, Assign, Leave, Finish, Go
  <2>8. NothingLeft'
      BY <1>10 DEF StartClient, Fork, Assign, Leave, Finish, Go
  <2>9. ServerStopsLast'
      BY <1>10 DEF StartClient, Fork, Assign, Leave, Finish, Go
  <2>10. ZeroMeansDone'
      BY <1>10 DEF StartClient, Fork, Assign, Leave, Finish, Go
  <2> QED
      BY <2>1, <2>2, <2>3, <2>4, <2>5, <2>6, <2>7, <2>8, <2>9, <2>10
<1>11. CASE ClientEnds /\ UNCHANGED <<fixed, world>>
  <2>1. TypeOK'
      BY <1>11 DEF ClientEnds, Leave, Finish, Ended
  <2>2. PlaceInv'
      BY <1>11 DEF ClientEnds, Leave, Finish, Ended
  <2>3. StageInv'
      BY <1>11 DEF ClientEnds, Leave, Finish, Ended
  <2>4. ReleaseInv'
      BY <1>11 DEF ClientEnds, Leave, Finish, Ended
  <2>5. ProbeInv'
      BY <1>11 DEF ClientEnds, Leave, Finish, Ended
  <2>6. OutcomeInv'
      BY <1>11 DEF ClientEnds, Leave, Finish, Ended
  <2>7. ReadyIsOwn'
      BY <1>11 DEF ClientEnds, Leave, Finish, Ended
  <2>8. NothingLeft'
      BY <1>11 DEF ClientEnds, Leave, Finish, Ended
  <2>9. ServerStopsLast'
      BY <1>11 DEF ClientEnds, Leave, Finish, Ended
  <2>10. ZeroMeansDone'
      BY <1>11 DEF ClientEnds, Leave, Finish, Ended
  <2> QED
      BY <2>1, <2>2, <2>3, <2>4, <2>5, <2>6, <2>7, <2>8, <2>9, <2>10
<1>12. CASE ClientRuns /\ UNCHANGED <<fixed, world>>
    BY <1>12 DEF ClientRuns, Go, Alive
<1>13. CASE ServerLost /\ UNCHANGED <<fixed, world>>
  <2>1. TypeOK'
      BY <1>13 DEF ServerLost, Leave, Finish, Ended
  <2>2. PlaceInv'
      BY <1>13 DEF ServerLost, Leave, Finish, Ended
  <2>3. StageInv'
      BY <1>13 DEF ServerLost, Leave, Finish, Ended
  <2>4. ReleaseInv'
      BY <1>13 DEF ServerLost, Leave, Finish, Ended
  <2>5. ProbeInv'
      BY <1>13 DEF ServerLost, Leave, Finish, Ended
  <2>6. OutcomeInv'
      BY <1>13 DEF ServerLost, Leave, Finish, Ended
  <2>7. ReadyIsOwn'
      BY <1>13 DEF ServerLost, Leave, Finish, Ended
  <2>8. NothingLeft'
      BY <1>13 DEF ServerLost, Leave, Finish, Ended
  <2>9. ServerStopsLast'
      BY <1>13 DEF ServerLost, Leave, Finish, Ended
  <2>10. ZeroMeansDone'
      BY <1>13 DEF ServerLost, Leave, Finish, Ended
  <2> QED
      BY <2>1, <2>2, <2>3, <2>4, <2>5, <2>6, <2>7, <2>8, <2>9, <2>10
<1>14. CASE BothRun /\ UNCHANGED <<fixed, world>>
    BY <1>14 DEF BothRun, Go, Alive
<1>15. CASE ClientExpires /\ UNCHANGED <<fixed, world>>
    BY <1>15 DEF ClientExpires, Leave, Finish
<1>16. CASE Sleep /\ UNCHANGED <<fixed, world>>
    BY <1>16 DEF Sleep, Go
<1>17. CASE ServerEnds /\ UNCHANGED <<fixed, world>>
  <2>1. TypeOK'
      BY <1>17 DEF ServerEnds, Leave, Finish, Ended
  <2>2. PlaceInv'
      BY <1>17 DEF ServerEnds, Leave, Finish, Ended
  <2>3. StageInv'
      BY <1>17 DEF ServerEnds, Leave, Finish, Ended
  <2>4. ReleaseInv'
      BY <1>17 DEF ServerEnds, Leave, Finish, Ended
  <2>5. ProbeInv'
      BY <1>17 DEF ServerEnds, Leave, Finish, Ended
  <2>6. OutcomeInv'
      BY <1>17 DEF ServerEnds, Leave, Finish, Ended
  <2>7. ReadyIsOwn'
      BY <1>17 DEF ServerEnds, Leave, Finish, Ended
  <2>8. NothingLeft'
      BY <1>17 DEF ServerEnds, Leave, Finish, Ended
  <2>9. ServerStopsLast'
      BY <1>17 DEF ServerEnds, Leave, Finish, Ended
  <2>10. ZeroMeansDone'
      BY <1>17 DEF ServerEnds, Leave, Finish, Ended
  <2> QED
      BY <2>1, <2>2, <2>3, <2>4, <2>5, <2>6, <2>7, <2>8, <2>9, <2>10
<1>18. CASE IgnoreSignals /\ UNCHANGED <<fixed, world>>
  <2>1. TypeOK'
      BY <1>18 DEF IgnoreSignals, Stopping
  <2>2. PlaceInv'
      BY <1>18 DEF IgnoreSignals, Stopping
  <2>3. StageInv'
      BY <1>18 DEF IgnoreSignals, Stopping
  <2>4. ReleaseInv'
      BY <1>18 DEF IgnoreSignals, Stopping
  <2>5. ProbeInv'
      BY <1>18 DEF IgnoreSignals, Stopping
  <2>6. OutcomeInv'
      BY <1>18 DEF IgnoreSignals, Stopping
  <2>7. ReadyIsOwn'
      BY <1>18 DEF IgnoreSignals, Stopping
  <2>8. NothingLeft'
      BY <1>18 DEF IgnoreSignals, Stopping
  <2>9. ServerStopsLast'
      BY <1>18 DEF IgnoreSignals, Stopping
  <2>10. ZeroMeansDone'
      BY <1>18 DEF IgnoreSignals, Stopping
  <2> QED
      BY <2>1, <2>2, <2>3, <2>4, <2>5, <2>6, <2>7, <2>8, <2>9, <2>10
<1>19. CASE StopNone /\ UNCHANGED <<fixed, world>>
  <2>1. TypeOK'
      BY <1>19 DEF StopNone, NextStage, Stopping
  <2>2. PlaceInv'
      BY <1>19 DEF StopNone, NextStage, Stopping
  <2>3. StageInv'
      BY <1>19 DEF StopNone, NextStage, Stopping
  <2>4. ReleaseInv'
      BY <1>19 DEF StopNone, NextStage, Stopping
  <2>5. ProbeInv'
      BY <1>19 DEF StopNone, NextStage, Stopping
  <2>6. OutcomeInv'
      BY <1>19 DEF StopNone, NextStage, Stopping
  <2>7. ReadyIsOwn'
      BY <1>19 DEF StopNone, NextStage, Stopping
  <2>8. NothingLeft'
      BY <1>19 DEF StopNone, NextStage, Stopping
  <2>9. ServerStopsLast'
      BY <1>19 DEF StopNone, NextStage, Stopping
  <2>10. ZeroMeansDone'
      BY <1>19 DEF StopNone, NextStage, Stopping
  <2> QED
      BY <2>1, <2>2, <2>3, <2>4, <2>5, <2>6, <2>7, <2>8, <2>9, <2>10
<1>20. CASE Term /\ UNCHANGED <<fixed, world>>
  <2>1. TypeOK'
      BY <1>20 DEF Term, Killpg, Stopping
  <2>2. PlaceInv'
      BY <1>20 DEF Term, Killpg, Stopping
  <2>3. StageInv'
      BY <1>20 DEF Term, Killpg, Stopping
  <2>4. ReleaseInv'
      BY <1>20 DEF Term, Killpg, Stopping
  <2>5. ProbeInv'
      BY <1>20 DEF Term, Killpg, Stopping
  <2>6. OutcomeInv'
      BY <1>20 DEF Term, Killpg, Stopping
  <2>7. ReadyIsOwn'
      BY <1>20 DEF Term, Killpg, Stopping
  <2>8. NothingLeft'
      BY <1>20 DEF Term, Killpg, Stopping
  <2>9. ServerStopsLast'
      BY <1>20 DEF Term, Killpg, Stopping
  <2>10. ZeroMeansDone'
      BY <1>20 DEF Term, Killpg, Stopping
  <2> QED
      BY <2>1, <2>2, <2>3, <2>4, <2>5, <2>6, <2>7, <2>8, <2>9, <2>10
<1>21. CASE Grace /\ UNCHANGED <<fixed, world>>
  <2>1. TypeOK'
      BY <1>21 DEF Grace, Stopping, Ended, Alive
  <2>2. PlaceInv'
      BY <1>21 DEF Grace, Stopping, Ended, Alive
  <2>3. StageInv'
      BY <1>21 DEF Grace, Stopping, Ended, Alive
  <2>4. ReleaseInv'
      BY <1>21 DEF Grace, Stopping, Ended, Alive
  <2>5. ProbeInv'
      BY <1>21 DEF Grace, Stopping, Ended, Alive
  <2>6. OutcomeInv'
      BY <1>21 DEF Grace, Stopping, Ended, Alive
  <2>7. ReadyIsOwn'
      BY <1>21 DEF Grace, Stopping, Ended, Alive
  <2>8. NothingLeft'
      BY <1>21 DEF Grace, Stopping, Ended, Alive
  <2>9. ServerStopsLast'
      BY <1>21 DEF Grace, Stopping, Ended, Alive
  <2>10. ZeroMeansDone'
      BY <1>21 DEF Grace, Stopping, Ended, Alive
  <2> QED
      BY <2>1, <2>2, <2>3, <2>4, <2>5, <2>6, <2>7, <2>8, <2>9, <2>10
<1>22. CASE Kill /\ UNCHANGED <<fixed, world>>
  <2>1. TypeOK'
      BY <1>22 DEF Kill, Killpg, Stopping
  <2>2. PlaceInv'
      BY <1>22 DEF Kill, Killpg, Stopping
  <2>3. StageInv'
      BY <1>22 DEF Kill, Killpg, Stopping
  <2>4. ReleaseInv'
      BY <1>22 DEF Kill, Killpg, Stopping
  <2>5. ProbeInv'
      BY <1>22 DEF Kill, Killpg, Stopping
  <2>6. OutcomeInv'
      BY <1>22 DEF Kill, Killpg, Stopping
  <2>7. ReadyIsOwn'
      BY <1>22 DEF Kill, Killpg, Stopping
  <2>8. NothingLeft'
      BY <1>22 DEF Kill, Killpg, Stopping
  <2>9. ServerStopsLast'
      BY <1>22 DEF Kill, Killpg, Stopping
  <2>10. ZeroMeansDone'
      BY <1>22 DEF Kill, Killpg, Stopping
  <2> QED
      BY <2>1, <2>2, <2>3, <2>4, <2>5, <2>6, <2>7, <2>8, <2>9, <2>10
<1>23. CASE LastWait /\ UNCHANGED <<fixed, world>>
  <2>1. TypeOK'
      BY <1>23 DEF LastWait, NextStage, Stopping, Ended
  <2>2. PlaceInv'
      BY <1>23 DEF LastWait, NextStage, Stopping, Ended
  <2>3. StageInv'
      BY <1>23 DEF LastWait, NextStage, Stopping, Ended
  <2>4. ReleaseInv'
      BY <1>23 DEF LastWait, NextStage, Stopping, Ended
  <2>5. ProbeInv'
      BY <1>23 DEF LastWait, NextStage, Stopping, Ended
  <2>6. OutcomeInv'
      BY <1>23 DEF LastWait, NextStage, Stopping, Ended
  <2>7. ReadyIsOwn'
      BY <1>23 DEF LastWait, NextStage, Stopping, Ended
  <2>8. NothingLeft'
      BY <1>23 DEF LastWait, NextStage, Stopping, Ended
  <2>9. ServerStopsLast'
      BY <1>23 DEF LastWait, NextStage, Stopping, Ended
  <2>10. ZeroMeansDone'
      BY <1>23 DEF LastWait, NextStage, Stopping, Ended
  <2> QED
      BY <2>1, <2>2, <2>3, <2>4, <2>5, <2>6, <2>7, <2>8, <2>9, <2>10
<1>24. CASE interrupted
  <2>1. TypeOK'
      BY <1>24 DEF interrupted, Finish
  <2>2. PlaceInv'
      BY <1>24 DEF interrupted, Finish
  <2>3. StageInv'
      BY <1>24 DEF interrupted, Finish
  <2>4. ReleaseInv'
      BY <1>24 DEF interrupted, Finish
  <2>5. ProbeInv'
      BY <1>24 DEF interrupted, Finish
  <2>6. OutcomeInv'
      BY <1>24 DEF interrupted, Finish
  <2>7. ReadyIsOwn'
      BY <1>24 DEF interrupted, Finish
  <2>8. NothingLeft'
      BY <1>24 DEF interrupted, Finish
  <2>9. ServerStopsLast'
      BY <1>24 DEF interrupted, Finish
  <2>10. ZeroMeansDone'
      BY <1>24 DEF interrupted, Finish
  <2> QED
      BY <2>1, <2>2, <2>3, <2>4, <2>5, <2>6, <2>7, <2>8, <2>9, <2>10
<1>25. CASE Listens /\ UNCHANGED <<fixed, bound, heeded, pc, stage, answered, exit, abandoned>>
  <2>1. TypeOK'
      BY <1>25 DEF Listens
  <2>2. PlaceInv'
      BY <1>25 DEF Listens
  <2>3. StageInv'
      BY <1>25 DEF Listens
  <2>4. ReleaseInv'
      BY <1>25 DEF Listens
  <2>5. ProbeInv'
      BY <1>25 DEF Listens
  <2>6. OutcomeInv'
      BY <1>25 DEF Listens
  <2>7. ReadyIsOwn'
      BY <1>25 DEF Listens
  <2>8. NothingLeft'
      BY <1>25 DEF Listens
  <2>9. ServerStopsLast'
      BY <1>25 DEF Listens
  <2>10. ZeroMeansDone'
      BY <1>25 DEF Listens
  <2> QED
      BY <2>1, <2>2, <2>3, <2>4, <2>5, <2>6, <2>7, <2>8, <2>9, <2>10
<1>26. ASSUME NEW g \in Groups, LeaderExits(g),
             UNCHANGED <<fixed, bound, heeded, pc, stage, answered, exit, abandoned>>
      PROVE  IInv'
  <2>1. TypeOK'
    <3>1. PICK o \in {"ok", "bad"} : outcome' = [outcome EXCEPT ![g] = o]
        BY <1>26 DEF LeaderExits
    <3>2. outcome' \in [Groups -> {"none", "ok", "bad"}]
        BY <3>1
    <3> QED
        BY <1>26, <3>2 DEF LeaderExits
  <2>2. PlaceInv'
      BY <1>26 DEF LeaderExits
  <2>3. StageInv'
      BY <1>26 DEF LeaderExits
  <2>4. ReleaseInv'
      BY <1>26 DEF LeaderExits
  <2>5. ProbeInv'
      BY <1>26 DEF LeaderExits
  <2>6. OutcomeInv'
      BY <1>26 DEF LeaderExits
  <2>7. ReadyIsOwn'
      BY <1>26 DEF LeaderExits
  <2>8. NothingLeft'
      BY <1>26 DEF LeaderExits
  <2>9. ServerStopsLast'
      BY <1>26 DEF LeaderExits
  <2>10. ZeroMeansDone'
      BY <1>26 DEF LeaderExits
  <2> QED
      BY <2>1, <2>2, <2>3, <2>4, <2>5, <2>6, <2>7, <2>8, <2>9, <2>10
<1>27. ASSUME NEW g \in Groups, Forks(g),
             UNCHANGED <<fixed, bound, heeded, pc, stage, answered, exit, abandoned>>
      PROVE  IInv'
  <2>1. TypeOK'
      BY <1>27 DEF Forks
  <2>2. PlaceInv'
      BY <1>27 DEF Forks
  <2>3. StageInv'
      BY <1>27 DEF Forks
  <2>4. ReleaseInv'
      BY <1>27 DEF Forks
  <2>5. ProbeInv'
      BY <1>27 DEF Forks
  <2>6. OutcomeInv'
      BY <1>27 DEF Forks
  <2>7. ReadyIsOwn'
      BY <1>27 DEF Forks
  <2>8. NothingLeft'
      BY <1>27 DEF Forks
  <2>9. ServerStopsLast'
      BY <1>27 DEF Forks
  <2>10. ZeroMeansDone'
      BY <1>27 DEF Forks
  <2> QED
      BY <2>1, <2>2, <2>3, <2>4, <2>5, <2>6, <2>7, <2>8, <2>9, <2>10
<1>28. ASSUME NEW g \in Groups, WorkerExits(g),
             UNCHANGED <<fixed, bound, heeded, pc, stage, answered, exit, abandoned>>
      PROVE  IInv'
  <2>1. TypeOK'
      BY <1>28 DEF WorkerExits
  <2>2. PlaceInv'
      BY <1>28 DEF WorkerExits
  <2>3. StageInv'
      BY <1>28 DEF WorkerExits
  <2>4. ReleaseInv'
      BY <1>28 DEF WorkerExits
  <2>5. ProbeInv'
      BY <1>28 DEF WorkerExits
  <2>6. OutcomeInv'
      BY <1>28 DEF WorkerExits
  <2>7. ReadyIsOwn'
      BY <1>28 DEF WorkerExits
  <2>8. NothingLeft'
      BY <1>28 DEF WorkerExits
  <2>9. ServerStopsLast'
      BY <1>28 DEF WorkerExits
  <2>10. ZeroMeansDone'
      BY <1>28 DEF WorkerExits
  <2> QED
      BY <2>1, <2>2, <2>3, <2>4, <2>5, <2>6, <2>7, <2>8, <2>9, <2>10
<1>29. CASE UNCHANGED vars
  <2>1. TypeOK'
      BY <1>29 DEF vars
  <2>2. PlaceInv'
      BY <1>29 DEF vars
  <2>3. StageInv'
      BY <1>29 DEF vars
  <2>4. ReleaseInv'
      BY <1>29 DEF vars
  <2>5. ProbeInv'
      BY <1>29 DEF vars
  <2>6. OutcomeInv'
      BY <1>29 DEF vars
  <2>7. ReadyIsOwn'
      BY <1>29 DEF vars
  <2>8. NothingLeft'
      BY <1>29 DEF vars
  <2>9. ServerStopsLast'
      BY <1>29 DEF vars
  <2>10. ZeroMeansDone'
      BY <1>29 DEF vars
  <2> QED
      BY <2>1, <2>2, <2>3, <2>4, <2>5, <2>6, <2>7, <2>8, <2>9, <2>10
<1> QED
    BY <1>1, <1>2, <1>3, <1>4, <1>5, <1>6, <1>7, <1>8, <1>9, <1>10, <1>11, <1>12, <1>13, <1>14, <1>15, <1>16, <1>17, <1>18, <1>19, <1>20, <1>21, <1>22, <1>23, <1>24, <1>25, <1>26, <1>27, <1>28, <1>29 DEF Next, Runner, Stop, Environment

----------------------------------------------------------------------------
LEMMA Inductive == Spec => []IInv
BY InitIInv, StepIInv, PTL DEF Spec

\* The places, the children and what is known of them are as declared.
THEOREM TypeCorrect == Spec => []TypeOK
BY Inductive, PTL DEF IInv

\* A runner that has declared its server ready was answered by that server only, in spite of
\* whoever takes the port in between.
THEOREM ReadyServerIsOwn == Spec => []ReadyIsOwn
BY Inductive, PTL DEF IInv

\* Unless a signal fell into one of the two gaps, both process groups are gone or killed when
\* the runner ends.
THEOREM NobodyLeft == Spec => []NothingLeft
BY Inductive, PTL DEF IInv

\* The server is signalled only when nothing of its client can run any more.
THEOREM ClientGoesFirst == Spec => []ServerStopsLast
BY Inductive, PTL DEF IInv

\* Exit code 0 means that the client command itself ended with 0.
THEOREM ZeroIsTheClients == Spec => []ZeroMeansDone
BY Inductive, PTL DEF IInv

\* A group that is being stopped was sent a signal, unless it was gone by then.
TurnInv ==
    pc \in {"grace", "kill", "reap"} =>
        sent[stage] # {} \/ (leader[stage] = "reaped" /\ worker[stage] # "running")

LEMMA StepTurnInv == IInv /\ TurnInv /\ [Next]_vars => TurnInv'
<1> SUFFICES ASSUME IInv, TurnInv, [Next]_vars PROVE TurnInv'
    OBVIOUS
<1>1. /\ leader \in [Groups -> {"none", "running", "zombie", "reaped"}]
      /\ worker \in [Groups -> {"none", "running", "gone"}]
      /\ sent \in [Groups -> SUBSET {"SIGTERM", "SIGKILL"}]
      /\ pc \in {"stop", "grace", "kill", "reap"} => stage \in Groups /\ heeded = {}
    BY DEF IInv, TypeOK, StageInv, Teardown
<1>2. CASE Term /\ UNCHANGED <<fixed, world>>
    BY <1>1, <1>2 DEF Term, Killpg, Stopping, TurnInv, world
<1>3. CASE Kill /\ UNCHANGED <<fixed, world>>
    BY <1>1, <1>3 DEF Kill, Killpg, Stopping, TurnInv, world
<1>4. CASE Grace /\ UNCHANGED <<fixed, world>>
    BY <1>1, <1>4 DEF Grace, Ended, Alive, Stopping, TurnInv, world
<1>5. CASE LastWait \/ StopNone \/ IgnoreSignals \/ interrupted
  <2>1. pc' \notin {"grace", "kill", "reap"}
      BY <1>5 DEF LastWait, StopNone, NextStage, IgnoreSignals, Stopping, interrupted, Finish
  <2> QED
      BY <2>1 DEF TurnInv
<1>6. CASE \/ CannotStart \/ StartServer \/ ServerDies \/ StillStarting \/ StartupExpires
           \/ owns_listener \/ Health \/ ModelsListed \/ Confirm \/ StartClient \/ ClientEnds
           \/ ClientRuns \/ ServerLost \/ BothRun \/ ClientExpires \/ Sleep \/ ServerEnds
  <2>1. pc' \notin {"grace", "kill", "reap"}
      BY <1>6 DEF CannotStart, StartServer, ServerDies, StillStarting, StartupExpires,
                  owns_listener, Health, ModelsListed, Probe, Confirm, StartClient, ClientEnds,
                  ClientRuns, ServerLost, BothRun, ClientExpires, Sleep, ServerEnds, Leave, Go,
                  Finish, Fork, Assign
  <2> QED
      BY <2>1 DEF TurnInv
<1>7. CASE Environment
  <2>1. UNCHANGED <<pc, stage>>
      BY <1>7 DEF Environment
  <2>2. CASE Listens
      BY <1>1, <2>1, <2>2 DEF Listens, TurnInv
  <2>3. ASSUME NEW g \in Groups, LeaderExits(g) PROVE TurnInv'
      BY <1>1, <2>1, <2>3 DEF LeaderExits, TurnInv
  <2>4. ASSUME NEW g \in Groups, Forks(g) PROVE TurnInv'
      BY <1>1, <2>1, <2>4 DEF Forks, TurnInv
  <2>5. ASSUME NEW g \in Groups, WorkerExits(g) PROVE TurnInv'
      BY <1>1, <2>1, <2>5 DEF WorkerExits, TurnInv
  <2> QED
      BY <1>7, <2>2, <2>3, <2>4, <2>5 DEF Environment
<1>8. CASE UNCHANGED vars
    BY <1>8 DEF vars, world, TurnInv
<1> QED
    BY <1>2, <1>3, <1>4, <1>5, <1>6, <1>7, <1>8 DEF Next, Runner, Stop

----------------------------------------------------------------------------
\* The life of a group goes one way.

Ages(g) == Life(g)' = Life(g) \/ (Life(g) = "started" /\ Life(g)' = "released")

LEMMA GroupsAge ==
    ASSUME TypeOK, NEW g \in Groups,
           \/ leader'[g] = leader[g]
           \/ leader[g] = "running" /\ leader'[g] = "zombie"
           \/ leader[g] \in {"zombie", "reaped"} /\ leader'[g] = "reaped",
           \/ worker'[g] = "running" => worker[g] = "running"
           \/ leader[g] = "running",
           sent[g] \subseteq sent'[g]
    PROVE  Ages(g)
BY DEF TypeOK, Ages, Life, Released

\* A step in which nobody is started and the server not signalled for the first time.
LEMMA LifeGoesOn ==
    ASSUME IInv', \A g \in Groups : Ages(g), sent'["server"] = {} <=> sent["server"] = {},
           \/ (pc' = "ended" <=> pc = "ended") /\ abandoned' = abandoned
           \/ pc # "ended" /\ pc' = "ended" /\ abandoned' \in {abandoned, TRUE}
    PROVE  Supervised!Next
<1>1. Supervised!Releases
  <2> DEFINE R == {g \in Groups : Life(g)' = "released"}
  <2>1. [g \in Groups |-> Life(g)]' =
            [g \in Groups |-> IF g \in R /\ Life(g) = "started" THEN "released" ELSE Life(g)]
      BY DEF Ages
  <2>2. \A g \in Groups : [h \in Groups |-> Life(h)][g] = Life(g)
      OBVIOUS
  <2> QED
      BY <2>1, <2>2 DEF Supervised!Releases, Supervised!Started, Supervised!Groups, Groups
<1>2. CASE (pc' = "ended" <=> pc = "ended") /\ abandoned' = abandoned
    BY <1>1, <1>2 DEF Supervised!Next, Supervised!Release
<1>3. CASE pc # "ended" /\ pc' = "ended" /\ abandoned' \in {abandoned, TRUE}
  <2>1. abandoned' \/ \A g \in Groups : Life(g)' # "started"
      BY <1>3 DEF IInv, NothingLeft, Life, Groups
  <2>2. Supervised!End
      BY <1>1, <1>3, <2>1 DEF Supervised!End, Supervised!Groups, Groups
  <2> QED
      BY <2>2 DEF Supervised!Next
<1> QED
    BY <1>2, <1>3

Supervision == <<[g \in Groups |-> Life(g)], sent["server"] # {}, pc = "ended", abandoned>>

\* Every step of the runner, the children and the signals is one of the life of the groups.
LEMMA StepSupervised ==
    ASSUME IInv, TurnInv, [Next]_vars
    PROVE  [Supervised!Next]_Supervision
<1> USE DEF Groups
<1>0. IInv'
    BY StepIInv
<1>1. /\ TypeOK
      /\ pc \in {"stop", "grace", "kill", "reap"} => stage \in Groups /\ heeded = {}
    BY DEF IInv, TypeOK, StageInv, Teardown
<1>2. ASSUME Fork("server", "open", "server forked"), UNCHANGED <<fixed, world>>
      PROVE  Supervised!Next
  <2>1. /\ leader["server"] = "none" /\ leader' = [leader EXCEPT !["server"] = "running"]
        /\ sent["server"] = {} /\ pc = "open" /\ pc' = "server forked"
        /\ UNCHANGED <<worker, sent, abandoned>>
      BY <1>2 DEF Fork, Go, IInv, PlaceInv, StageInv, Teardown, world
  <2>2. /\ Life("server") = "none" /\ Life("server")' = "started"
        /\ Life("client")' = Life("client")
      BY <1>1, <2>1 DEF TypeOK, Life, Released
  <2>3. Supervised!Start("server")
      BY <2>1, <2>2 DEF Supervised!Start, Supervised!Groups
  <2> QED
      BY <2>3 DEF Supervised!Next, Supervised!Groups
<1>3. ASSUME Fork("client", "ready", "client forked"), UNCHANGED <<fixed, world>>
      PROVE  Supervised!Next
  <2>1. /\ leader["client"] = "none" /\ leader' = [leader EXCEPT !["client"] = "running"]
        /\ leader["server"] # "none"
        /\ sent["server"] = {} /\ pc = "ready" /\ pc' = "client forked"
        /\ UNCHANGED <<worker, sent, abandoned>>
      BY <1>3 DEF Fork, Go, IInv, PlaceInv, StageInv, Teardown, ServerOnly, world
  <2>2. /\ Life("client") = "none" /\ Life("client")' = "started"
        /\ Life("server")' = Life("server") /\ Life("server") # "none"
      BY <1>1, <2>1 DEF TypeOK, Life, Released
  <2>3. Supervised!Start("client")
      BY <2>1, <2>2 DEF Supervised!Start, Supervised!Groups
  <2> QED
      BY <2>3 DEF Supervised!Next, Supervised!Groups
<1>4. ASSUME UNCHANGED <<leader, worker, sent, pc, abandoned>> PROVE UNCHANGED Supervision
    BY <1>4 DEF Supervision, Life, Released
\* Steps that leave the children and their signals alone, or reap a leader.
<1>5. ASSUME UNCHANGED <<worker, sent, abandoned>>, pc # "ended",
             leader' = leader \/ \E g \in Groups : Ended(g)
      PROVE  Supervised!Next
  <2>1. ASSUME NEW g \in Groups PROVE Ages(g)
      BY <1>1, <1>5, GroupsAge DEF Ended, TypeOK
  <2>2. sent'["server"] = {} <=> sent["server"] = {}
      BY <1>5
  <2>3. CASE pc' = "ended"
      BY <1>0, <1>5, <2>1, <2>2, <2>3, LifeGoesOn
  <2>4. CASE pc' # "ended"
      BY <1>0, <1>5, <2>1, <2>2, <2>4, LifeGoesOn
  <2> QED
      BY <2>3, <2>4
<1>6. ASSUME UNCHANGED <<fixed, world>>,
             \/ CannotStart \/ ServerDies \/ StillStarting \/ StartupExpires
             \/ owns_listener \/ Health \/ ModelsListed \/ Confirm \/ ClientEnds
             \/ ClientRuns \/ ServerLost \/ BothRun \/ ClientExpires \/ Sleep \/ ServerEnds
             \/ Assign("server", "server forked", "startup")
             \/ Assign("client", "client forked", "client")
             \/ Leave("ready", "bad") /\ UNCHANGED leader
      PROVE  Supervised!Next
  <2>1. /\ pc # "ended" /\ UNCHANGED <<worker, sent, abandoned>>
        /\ leader' = leader \/ \E g \in Groups : Ended(g)
      BY <1>6 DEF CannotStart, ServerDies, StillStarting, StartupExpires, owns_listener, Health,
                  ModelsListed, Probe, Confirm, ClientEnds, ClientRuns, ServerLost, BothRun,
                  ClientExpires, Sleep, ServerEnds, Assign, Leave, Go, Finish, Alive, world
  <2> QED
      BY <1>5, <2>1
<1>7. ASSUME UNCHANGED <<fixed, world>>, IgnoreSignals \/ StopNone \/ Grace \/ LastWait
      PROVE  Supervised!Next
  <2>1. /\ pc # "ended" /\ UNCHANGED <<worker, sent, abandoned>>
        /\ leader' = leader \/ \E g \in Groups : Ended(g)
      BY <1>1, <1>7 DEF IgnoreSignals, StopNone, Grace, LastWait, NextStage, Stopping, Alive,
                  world
  <2> QED
      BY <1>5, <2>1
<1>8. CASE Term /\ UNCHANGED <<fixed, world>>
  <2>1. /\ pc = "stop" /\ pc' = "grace" /\ UNCHANGED <<leader, worker, abandoned>>
        /\ sent' = sent \/ sent' = [sent EXCEPT ![stage] = @ \union {"SIGTERM"}]
      BY <1>1, <1>8 DEF Term, Killpg, Stopping, world, TypeOK
  <2>2. \A g \in Groups : Life(g)' = Life(g)
      BY <1>1, <2>1 DEF TypeOK, Life, Released
  <2>3. CASE stage = "server" /\ sent' # sent
    <3>1. ~abandoned => Life("client") # "started"
        BY <2>3 DEF IInv, ReleaseInv, Life
    <3>2. sent'["server"] # {}
        BY <1>1, <2>1, <2>3 DEF TypeOK
    <3>3. Supervised!AskServer
        BY <2>1, <2>2, <3>1, <3>2 DEF Supervised!AskServer, Supervised!Started
    <3> QED
        BY <3>3 DEF Supervised!Next
  <2>4. CASE stage = "client" \/ sent' = sent
    <3>1. sent'["server"] = sent["server"]
        BY <1>1, <2>1, <2>4 DEF TypeOK
    <3> QED
        BY <1>0, <2>1, <2>2, <3>1, LifeGoesOn DEF Ages
  <2> QED
      BY <1>1, <2>1, <2>3, <2>4
<1>9. CASE Kill /\ UNCHANGED <<fixed, world>>
  <2>1. /\ pc = "kill" /\ pc' = "reap" /\ UNCHANGED <<leader, worker, abandoned>>
        /\ \/ sent' = sent
           \/ sent[stage] # {} /\ sent' = [sent EXCEPT ![stage] = @ \union {"SIGKILL"}]
      BY <1>1, <1>9 DEF Kill, Killpg, Stopping, world, TypeOK, TurnInv
  <2>2. \A g \in Groups : sent[g] \subseteq sent'[g] /\ (sent'[g] = {} <=> sent[g] = {})
      BY <1>1, <2>1 DEF TypeOK
  <2>3. \A g \in Groups : Ages(g)
      BY <1>1, <2>1, <2>2, GroupsAge
  <2> QED
      BY <1>0, <2>1, <2>2, <2>3, LifeGoesOn
<1>10. CASE interrupted
  <2>1. /\ UNCHANGED <<leader, worker, sent>> /\ pc # "ended"
        /\ abandoned' \in {abandoned, TRUE}
      BY <1>10 DEF interrupted, Finish, world, IInv, TypeOK
  <2>2. \A g \in Groups : Life(g)' = Life(g)
      BY <2>1 DEF Life, Released
  <2>3. CASE pc' = "ended"
      BY <1>0, <2>1, <2>2, <2>3, LifeGoesOn DEF Ages
  <2>4. CASE pc' # "ended" /\ abandoned' = abandoned
      BY <1>0, <2>1, <2>2, <2>4, LifeGoesOn DEF Ages
  <2>5. CASE pc' # "ended" /\ abandoned' = TRUE
    <3>1. Supervised!Excuse
        BY <2>1, <2>2, <2>5 DEF Supervised!Excuse
    <3> QED
        BY <3>1 DEF Supervised!Next
  <2> QED
      BY <2>1, <2>3, <2>4, <2>5
<1>11. CASE Environment
  <2>1. UNCHANGED <<sent, pc, abandoned>>
      BY <1>11 DEF Environment, Listens, LeaderExits, Forks, WorkerExits
  <2>2. ASSUME NEW g \in Groups PROVE Ages(g)
    <3>1. \/ leader'[g] = leader[g]
          \/ leader[g] = "running" /\ leader'[g] = "zombie"
        BY <1>1, <1>11 DEF Environment, Listens, LeaderExits, Forks, WorkerExits, TypeOK
    <3>2. \/ worker'[g] = "running" => worker[g] = "running"
          \/ leader[g] = "running"
        BY <1>1, <1>11 DEF Environment, Listens, LeaderExits, Forks, WorkerExits, TypeOK
    <3> QED
        BY <1>1, <2>1, <3>1, <3>2, GroupsAge
  <2> QED
      BY <1>0, <2>1, <2>2, LifeGoesOn
<1>12. CASE UNCHANGED vars
    BY <1>4, <1>12 DEF vars, world
<1> QED
    BY <1>2, <1>3, <1>6, <1>7, <1>8, <1>9, <1>10, <1>11, <1>12
       DEF Next, Runner, Stop, StartServer, StartClient

\* The scripts implement the supervisor: a client only next to its server, the server only
\* after its client, an end only when both are dealt with, and nobody started afterwards.
THEOREM SupervisorKept == Spec => ImplementsSupervisor
<1>1. Init => Supervised!Init /\ TurnInv
    BY DEF Init, Supervised!Init, Supervised!Groups, Groups, Life, TurnInv
<1>2. IInv /\ TurnInv /\ [Next]_vars => TurnInv'
    BY StepTurnInv
<1> QED
    BY <1>1, <1>2, StepSupervised, Inductive, PTL
       DEF Spec, ImplementsSupervisor, Supervised!Spec, Supervision

----------------------------------------------------------------------------
\* How long the finally block can take, counted in steps of the runner.

Closing == {"finally", "stop", "grace", "kill", "reap"}

StepsOfStop == CASE pc = "stop" -> 4 [] pc = "grace" -> 3 [] pc = "kill" -> 2 [] pc = "reap" -> 1

StepsLeft ==
    CASE pc = "ended"   -> 0
      [] pc = "finally" -> IF "SIGTERM" \in heeded THEN 10 ELSE 9
      [] OTHER          -> IF stage = "client" THEN 4 + StepsOfStop ELSE StepsOfStop

Advances == pc # "ended" /\ (pc \in Closing => StepsLeft \in 1..10 /\ StepsLeft' \in 0..StepsLeft - 1)

LEMMA StepAdvances == IInv /\ [Next]_vars => [Advances]_<<pc, stage, heeded, exit>>
<1> SUFFICES ASSUME IInv, Next PROVE Advances \/ UNCHANGED <<pc, stage, heeded, exit>>
    BY DEF vars
<1>1. /\ pc \in {"finally"} => heeded \subseteq Signals
      /\ pc \in Teardown => stage \in Groups /\ heeded = {}
      /\ pc \notin Teardown => stage = "none"
    BY DEF IInv, TypeOK, StageInv
<1>2. pc \in Closing => StepsLeft \in 1..10
    BY <1>1 DEF Closing, Teardown, Groups, StepsLeft, StepsOfStop
<1>3. CASE \/ CannotStart \/ StartServer \/ ServerDies \/ StillStarting \/ StartupExpires
           \/ owns_listener \/ Health \/ ModelsListed \/ Confirm \/ StartClient \/ ClientEnds
           \/ ClientRuns \/ ServerLost \/ BothRun \/ ClientExpires \/ Sleep \/ ServerEnds
  <2>1. pc \notin Closing /\ pc # "ended"
      BY <1>3 DEF CannotStart, StartServer, ServerDies, StillStarting, StartupExpires,
                  owns_listener, Health, ModelsListed, Probe, Confirm, StartClient, ClientEnds,
                  ClientRuns, ServerLost, BothRun, ClientExpires, Sleep, ServerEnds, Leave, Go,
                  Fork, Assign, Closing
  <2> QED
      BY <2>1 DEF Advances
<1>4. CASE IgnoreSignals
  <2>1. pc = "finally" /\ pc \in Closing
      BY <1>4 DEF IgnoreSignals, Closing
  <2>2. \/ "SIGTERM" \in heeded /\ pc' = "finally" /\ "SIGTERM" \notin heeded'
        \/ pc' = "stop" /\ stage' = "client"
      BY <1>4 DEF IgnoreSignals, Stopping
  <2>3. StepsLeft' < StepsLeft /\ StepsLeft' \in 8..9
      BY <2>1, <2>2 DEF StepsLeft, StepsOfStop
  <2> QED
      BY <1>2, <2>1, <2>3 DEF Advances
<1>5. CASE Term \/ Grace \/ Kill
  <2>1. stage' = stage
        /\ \/ pc = "stop" /\ pc' = "grace"
           \/ pc = "grace" /\ pc' = "kill"
           \/ pc = "kill" /\ pc' = "reap"
      BY <1>5 DEF Term, Grace, Kill, Stopping
  <2>2. pc \in Closing /\ pc # "ended" /\ StepsLeft' < StepsLeft /\ StepsLeft' \in 0..10
      BY <2>1 DEF Closing, StepsLeft, StepsOfStop
  <2> QED
      BY <1>2, <2>2 DEF Advances
<1>6. CASE StopNone \/ LastWait
  <2>1. pc \in {"stop", "reap"} /\ NextStage
      BY <1>6 DEF StopNone, LastWait
  <2>2. \/ stage = "client" /\ pc' = "stop" /\ stage' = "server"
        \/ pc' = "ended"
      BY <2>1 DEF NextStage, Stopping
  <2>3. pc \in Closing /\ pc # "ended" /\ StepsLeft' < StepsLeft /\ StepsLeft' \in 0..4
      BY <1>2, <2>1, <2>2 DEF Closing, StepsLeft, StepsOfStop
  <2> QED
      BY <1>2, <2>3 DEF Advances
<1>7. CASE interrupted
  <2>1. heeded # {} /\ pc # "ended" /\ (pc = "finally" => pc' = "ended")
      BY <1>7 DEF interrupted
  <2>2. pc \in Closing => pc = "finally"
      BY <1>1, <2>1 DEF Closing, Teardown
  <2>3. pc = "finally" => StepsLeft' = 0
      BY <2>1 DEF StepsLeft
  <2> QED
      BY <1>2, <2>1, <2>2, <2>3 DEF Advances
<1>8. CASE Environment
    BY <1>8 DEF Environment
<1> QED
    BY <1>3, <1>4, <1>5, <1>6, <1>7, <1>8 DEF Next, Runner, Stop

\* Once in its finally block, a script takes at most ten more steps: signals cannot start it
\* anew, nor can what the children do, and nothing follows its end.
TeardownAdvances == [][Advances]_<<pc, stage, heeded, exit>>

\* The teardown is finite for any children; that each of its steps is eventually possible is
\* what the run adds (Ends).
THEOREM TeardownIsFinite == Spec => TeardownAdvances
<1> QED
    BY StepAdvances, Inductive, PTL DEF Spec, TeardownAdvances
=============================================================================
