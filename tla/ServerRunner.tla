---------------------------- MODULE ServerRunner ----------------------------
(***************************************************************************)
(* benchmarks/server_runner.py: one process that starts a model server,    *)
(* waits for its endpoint, runs a benchmark client against it and stops    *)
(* both.  Each child leads a process group of its own; the runner is the   *)
(* parent of the leaders only, the other members of a group come and go by *)
(* themselves.                                                             *)
(***************************************************************************)
CONSTANT MayHang   \* groups whose leader may outlive a SIGKILL by 20 seconds or more

Groups == {"server", "client"}

ASSUME MayHangAssumption == MayHang \subseteq Groups

VARIABLES
    leader,       \* each child: not started, running, exited and unreaped, reaped
    worker,       \* the other members of its group, taken together
    sent,         \* the signals its group was sent
    ready,        \* the server answers at its endpoint
    interrupted,  \* handle_signal was called
    pc,           \* where the runner is
    stage,        \* whom it stops: client in the loop, then both in the finally block
    signum,       \* graceful_signal of that stop_owned
    gaveUp        \* a TimeoutExpired left a stop_owned of the finally block

vars == <<leader, worker, sent, ready, interrupted, pc, stage, signum, gaveUp>>

children == <<leader, worker, sent, ready>>

control == <<pc, stage, signum, gaveUp>>

Signals == {"SIGINT", "SIGTERM", "SIGKILL"}

Init ==
    /\ leader = [g \in Groups |-> "none"]
    /\ worker = [g \in Groups |-> "none"]
    /\ sent = [g \in Groups |-> {}]
    /\ ready = FALSE
    /\ interrupted = FALSE
    /\ pc = "open"
    /\ stage = "none"
    /\ signum = "SIGTERM"
    /\ gaveUp = FALSE

----------------------------------------------------------------------------
\* The children.  Whatever makes a process exit, its own end, a crash or a signal it
\* obeys, it may do so at any time; a signal other than SIGKILL may be ignored.

LeaderExits(g) ==
    /\ leader[g] = "running"
    /\ leader' = [leader EXCEPT ![g] = "zombie"]
    /\ ready' = (ready /\ g # "server")
    /\ UNCHANGED <<worker, sent, interrupted, control>>

Forks(g) ==
    /\ leader[g] = "running" /\ worker[g] = "none"
    /\ "SIGKILL" \notin sent[g]
    /\ worker' = [worker EXCEPT ![g] = "running"]
    /\ UNCHANGED <<leader, sent, ready, interrupted, control>>

WorkerExits(g) ==
    /\ worker[g] = "running"
    /\ worker' = [worker EXCEPT ![g] = "gone"]
    /\ UNCHANGED <<leader, sent, ready, interrupted, control>>

BecomesReady ==
    /\ leader["server"] = "running"
    /\ ready' = TRUE
    /\ UNCHANGED <<leader, worker, sent, interrupted, control>>

\* SIGINT or SIGTERM reaches the runner: it only takes note.
HandleSignal ==
    /\ pc # "ended"
    /\ interrupted' = TRUE
    /\ UNCHANGED <<children, control>>

----------------------------------------------------------------------------
\* main.

GoOn(place) ==
    /\ pc' = place
    /\ UNCHANGED <<worker, sent, ready, interrupted, stage, signum, gaveUp>>

\* stop_owned is called in the loop or, for one child after the other, in `finally'.
StopOwned(whom, s) ==
    /\ pc' = "signal" /\ stage' = whom /\ signum' = s
    /\ UNCHANGED <<worker, sent, ready, interrupted, gaveUp>>

\* Mutant: the finally block stops the server only.
ServerOnly == StopOwned("server", "SIGTERM")

\* Mutant: the finally block does not let anybody end by itself.
KillAtOnce == StopOwned("client", "SIGKILL")

Finally == StopOwned("client", "SIGTERM")

Launch(g, from, to) ==
    /\ pc = from
    /\ leader' = [leader EXCEPT ![g] = "running"]
    /\ GoOn(to)

Reap(g) == leader[g] # "running" /\ leader' = [leader EXCEPT ![g] = "reaped"]

\* server.log exists already, the endpoint is not there at the deadline, the server
\* manifest cannot be written or a command cannot be executed.
StartFails ==
    /\ pc \in {"open", "probe", "launch"} /\ (pc = "probe" => ~ready)
    /\ Finally
    /\ UNCHANGED leader

StartupInterrupted == pc = "startup" /\ interrupted /\ Finally /\ UNCHANGED leader

ServerExitsEarly == pc = "startup" /\ ~interrupted /\ Reap("server") /\ Finally

StartupPoll ==
    /\ pc = "startup" /\ ~interrupted
    /\ leader["server"] = "running"
    /\ GoOn("probe") /\ UNCHANGED leader

\* check_endpoint, after which the loop is left or sleeps.
Probe ==
    /\ pc = "probe"
    /\ GoOn(IF ready THEN "launch" ELSE "startup") /\ UNCHANGED leader

\* The loop: client.poll(), then interrupted, then server.poll().
ClientExited == pc = "watch" /\ Reap("client") /\ Finally

ClientRuns ==
    /\ pc = "watch"
    /\ leader["client"] = "running"
    /\ GoOn("check") /\ UNCHANGED leader

\* Mutant: the interrupted client is stopped with the default signal.
Terminated ==
    pc = "check" /\ interrupted /\ StopOwned("loop", "SIGTERM") /\ UNCHANGED leader

Interrupted ==
    pc = "check" /\ interrupted /\ StopOwned("loop", "SIGINT") /\ UNCHANGED leader

ServerExited ==
    pc = "check" /\ ~interrupted /\ Reap("server") /\ StopOwned("loop", "SIGTERM")

ServerRuns ==
    /\ pc = "check" /\ ~interrupted
    /\ leader["server"] = "running"
    /\ GoOn("watch") /\ UNCHANGED leader

----------------------------------------------------------------------------
\* stop_owned(process, graceful_signal).

Group == IF stage = "server" THEN "server" ELSE "client"

\* A group exists as long as it has a member, an unreaped leader included.
Exists(g) == leader[g] \in {"running", "zombie"} \/ worker[g] = "running"

\* After a stop_owned that returned: the loop leaves main through the finally block,
\* which stops the client once more and then the server.
Proceed ==
    CASE stage = "loop"   -> Finally
      [] stage = "client" -> StopOwned("server", "SIGTERM")
      [] stage = "server" -> GoOn("ended")

\* process is None, or ProcessLookupError.
NothingToStop == pc = "signal" /\ ~Exists(Group) /\ Proceed /\ UNCHANGED leader

Send(s) ==
    /\ sent' = [sent EXCEPT ![Group] = @ \union {s}]
    /\ UNCHANGED <<leader, worker, ready, interrupted, stage, signum, gaveUp>>

SendGraceful == pc = "signal" /\ Exists(Group) /\ Send(signum) /\ pc' = "grace"

\* process.wait(timeout=20) returns as soon as the leader is gone ...
LeaderGone == pc = "grace" /\ Reap(Group) /\ GoOn("kill")

\* Mutant: process.wait() without a timeout.
NoTimeout == pc = "grace" /\ leader[Group] = "zombie" /\ GoOn("kill") /\ UNCHANGED leader

\* ... or after 20 seconds.
GraceExpires ==
    pc = "grace" /\ leader[Group] = "running" /\ GoOn("kill") /\ UNCHANGED leader

\* The leader can exit before workers that ignored SIGTERM.
SendKill == pc = "kill" /\ Exists(Group) /\ Send("SIGKILL") /\ pc' = "reap"

\* Mutant: SIGKILL is only for a leader that ignored the first signal.
LeaderIsGone == pc = "kill" /\ leader[Group] # "running" /\ GoOn("reap") /\ UNCHANGED leader

NothingToKill == pc = "kill" /\ ~Exists(Group) /\ GoOn("reap") /\ UNCHANGED leader

Stopped == pc = "reap" /\ Reap(Group) /\ Proceed

\* Mutant: a TimeoutExpired of the second wait is caught and the next child is stopped.
TimeoutSwallowed ==
    /\ pc = "reap"
    /\ leader[Group] = "running" /\ Group \in MayHang
    /\ Proceed
    /\ UNCHANGED leader

\* The second wait expires as well, and its TimeoutExpired is not caught: in the loop it
\* leads to the finally block, in the finally block it ends the runner at once.
StopTimesOut ==
    /\ pc = "reap"
    /\ leader[Group] = "running" /\ Group \in MayHang
    /\ IF stage = "loop"
       THEN Finally
       ELSE /\ pc' = "ended" /\ gaveUp' = TRUE
            /\ UNCHANGED <<worker, sent, ready, interrupted, stage, signum>>
    /\ UNCHANGED leader

----------------------------------------------------------------------------
Runner ==
    \/ Launch("server", "open", "startup") \/ Launch("client", "launch", "watch")
    \/ StartFails \/ StartupInterrupted \/ ServerExitsEarly \/ StartupPoll \/ Probe
    \/ ClientExited \/ ClientRuns \/ Interrupted \/ ServerExited \/ ServerRuns
    \/ NothingToStop \/ SendGraceful \/ LeaderGone \/ GraceExpires
    \/ SendKill \/ NothingToKill \/ Stopped \/ StopTimesOut

Next ==
    \/ Runner
    \/ HandleSignal
    \/ BecomesReady
    \/ \E g \in Groups : LeaderExits(g) \/ Forks(g) \/ WorkerExits(g)

Spec == Init /\ [][Next]_vars

\* What SIGKILL does: a process that was sent it goes away, a leader that can hang excepted.
KilledExits(g) ==
    /\ "SIGKILL" \in sent[g]
    /\ \/ g \notin MayHang /\ LeaderExits(g)
       \/ WorkerExits(g)

\* The runner is scheduled; nothing makes a child do anything except SIGKILL.
FairSpec == Spec /\ WF_vars(Runner) /\ \A g \in Groups : WF_vars(KilledExits(g))

----------------------------------------------------------------------------
TypeOK ==
    /\ leader \in [Groups -> {"none", "running", "zombie", "reaped"}]
    /\ worker \in [Groups -> {"none", "running", "gone"}]
    /\ sent \in [Groups -> SUBSET Signals]
    /\ ready \in BOOLEAN /\ interrupted \in BOOLEAN /\ gaveUp \in BOOLEAN
    /\ pc \in {"open", "startup", "probe", "launch", "watch", "check", "signal", "grace",
               "kill", "reap", "ended"}
    /\ stage \in {"none", "loop", "client", "server"}
    /\ signum \in {"SIGINT", "SIGTERM"}

\* Nobody of a group is left that was not sent SIGKILL, and its leader is reaped.
Released(g) ==
    /\ leader[g] \in {"none", "reaped"}
    /\ worker[g] = "running" => "SIGKILL" \in sent[g]

\* The server is never pulled from under a client that still uses it: when the runner
\* signals the server, the whole client group is dead or dying.  (the order in `finally')
ServerStopsLast == sent["server"] # {} => Released("client")

\* A runner that returns has dealt with both groups, whichever of them crashed, ignored
\* its signal, left workers behind or was interrupted, at whatever moment.
NothingLeftRunning == pc = "ended" /\ ~gaveUp => \A g \in Groups : Released(g)

\* SIGTERM, which makes the Python client drop its task without a record, is the first
\* signal to a running client only when the server is lost.
ClientIsAsked ==
    leader["client"] = "running" /\ "SIGTERM" \in sent["client"] =>
        "SIGINT" \in sent["client"] \/ leader["server"] = "reaped"

\* The runner keeps to the life of the two groups, step by step; it is excused when it gives
\* up on a leader that outlives SIGKILL.
Life(g) == IF leader[g] = "none" THEN "none" ELSE IF Released(g) THEN "released" ELSE "started"

Supervised == INSTANCE Supervisor WITH
                  group <- [g \in Groups |-> Life(g)], asked <- sent["server"] # {},
                  over <- pc = "ended", excused <- gaveUp

ImplementsSupervisor == Supervised!Spec

\* An interrupt, the client's end and the server's death each end the runner, even if no
\* child obeys a signal other than SIGKILL or one of them hangs.
Ends == (interrupted \/ leader["client"] = "zombie" \/ leader["server"] = "zombie")
            ~> pc = "ended"
=============================================================================
