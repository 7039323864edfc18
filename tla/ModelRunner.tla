---------------------------- MODULE ModelRunner ----------------------------
(***************************************************************************)
(* scripts/run-gemma-qat.py, run-nemotron-lightning.py, run-muse-gguf.py:  *)
(* one process that starts a model server on a port others may want too,   *)
(* waits until its own server answers there, runs a client command and     *)
(* stops both.  A signal raises SystemExit wherever main happens to be.    *)
(***************************************************************************)
VARIABLES
    script,     \* which probes: "muse" asks /health, "gemma" also /v1/models
    command,    \* a client command was given
    leader,     \* each child: not started, running, exited and unreaped, reaped
    worker,     \* the other members of its process group, taken together
    outcome,    \* "ok" when its return code is 0
    sent,       \* the signals its group was sent
    port,       \* who listens: nobody, the own server, somebody else
    bound,      \* children that are in the variables `server' and `client'
    heeded,     \* signals that are not ignored yet
    pc,         \* where main is
    stage,      \* whom the finally block is stopping
    answered,   \* who answered since owns_listener was true (history)
    exit,       \* how the runner ends: "ok" is exit code 0
    abandoned   \* a signal came between a fork and its assignment or in the finally block (history)

Groups == {"server", "client"}

Signals == {"SIGTERM", "SIGINT"}

fixed == <<script, command>>

world == <<worker, outcome, port>>

vars == <<fixed, leader, sent, world, bound, heeded, pc, stage, answered, exit, abandoned>>

Init ==
    /\ script \in {"muse", "gemma"} /\ command \in BOOLEAN
    /\ leader = [g \in Groups |-> "none"]
    /\ worker = [g \in Groups |-> "none"]
    /\ outcome = [g \in Groups |-> "none"]
    /\ sent = [g \in Groups |-> {}]
    /\ port \in {"free", "foreign"}
    /\ bound = {} /\ heeded = Signals
    /\ pc = "open" /\ stage = "none"
    /\ answered = {} /\ exit = "none" /\ abandoned = FALSE

----------------------------------------------------------------------------
\* The children and the other users of the node.

LeaderExits(g) ==
    /\ leader[g] = "running"
    /\ leader' = [leader EXCEPT ![g] = "zombie"]
    /\ \E o \in {"ok", "bad"} : outcome' = [outcome EXCEPT ![g] = o]
    /\ port' = IF g = "server" /\ port = "own" THEN "free" ELSE port
    /\ UNCHANGED <<sent, worker>>

Forks(g) ==
    /\ leader[g] = "running" /\ worker[g] # "running" /\ "SIGKILL" \notin sent[g]
    /\ worker' = [worker EXCEPT ![g] = "running"]
    /\ UNCHANGED <<leader, outcome, sent, port>>

WorkerExits(g) ==
    /\ worker[g] = "running"
    /\ worker' = [worker EXCEPT ![g] = "gone"]
    /\ UNCHANGED <<leader, outcome, sent, port>>

\* Whoever comes first; the own server listens until it exits.
Listens ==
    /\ \/ port = "free" /\ leader["server"] = "running" /\ port' = "own"
       \/ port = "free" /\ port' = "foreign"
       \/ port = "foreign" /\ port' = "free"
    /\ UNCHANGED <<leader, worker, outcome, sent>>

Environment ==
    /\ Listens \/ \E g \in Groups : LeaderExits(g) \/ Forks(g) \/ WorkerExits(g)
    /\ UNCHANGED <<fixed, bound, heeded, pc, stage, answered, exit, abandoned>>

----------------------------------------------------------------------------
\* main.

Go(from, to) == pc = from /\ pc' = to /\ UNCHANGED <<sent, heeded, stage, exit, abandoned>>

\* main returns or raises: the finally block comes next.
Finish(code) ==
    pc' = "finally" /\ exit' = code /\ UNCHANGED <<sent, bound, heeded, stage, answered>>

Leave(from, code) == pc = from /\ Finish(code) /\ UNCHANGED abandoned

\* poll() and wait() reap a child that has exited.
Ended(g) ==
    /\ leader[g] \in {"zombie", "reaped"}
    /\ leader' = [leader EXCEPT ![g] = "reaped"]

Alive(g) == leader[g] = "running" /\ UNCHANGED leader

\* subprocess.Popen forks; it returns, and the variable is assigned.
Fork(g, from, to) ==
    /\ Go(from, to)
    /\ leader' = [leader EXCEPT ![g] = "running"]
    /\ UNCHANGED <<bound, answered>>

Assign(g, from, to) ==
    /\ Go(from, to)
    /\ bound' = bound \union {g}
    /\ UNCHANGED <<leader, answered>>

\* The log cannot be opened, or the server not be executed.
CannotStart == Leave("open", "bad") /\ UNCHANGED leader

StartServer ==
    Fork("server", "open", "server forked") \/ Assign("server", "server forked", "startup")

ServerDies == Leave("startup", "bad") /\ Ended("server")

StillStarting == Go("startup", "deadline") /\ Alive("server") /\ UNCHANGED <<bound, answered>>

StartupExpires == Leave("deadline", "bad") /\ UNCHANGED leader

owns_listener ==
    /\ Go("deadline", IF port = "own" THEN "health" ELSE "startup")
    /\ answered' = {}
    /\ UNCHANGED <<leader, bound>>

\* A probe reaches whoever listens now, and takes 200, the status or the model for an answer.
Probe(from, to) ==
    /\ \/ port # "free" /\ Go(from, to) /\ answered' = answered \union {port}
       \/ Go(from, "startup") /\ UNCHANGED answered
    /\ UNCHANGED <<leader, bound>>

Health == Probe("health", IF script = "gemma" THEN "models" ELSE "confirm")

ModelsListed == Probe("models", "confirm")

\* Mutant: the server is not polled again.
ConfirmBlindly == Go("confirm", "ready") /\ UNCHANGED <<leader, bound, answered>>

Confirm ==
    /\ \/ Go("confirm", "ready") /\ Alive("server")
       \/ Go("confirm", "startup") /\ Ended("server")
    /\ UNCHANGED <<bound, answered>>

StartClient ==
    /\ command
    /\ \/ Fork("client", "ready", "client forked")
       \/ Assign("client", "client forked", "client")
       \/ Leave("ready", "bad") /\ UNCHANGED leader

\* Mutant: the return code of a client that has not been waited for.
ReturnUnreaped == Leave("client", outcome["client"]) /\ UNCHANGED leader

ClientEnds == Leave("client", outcome["client"]) /\ Ended("client")

ClientRuns == Go("client", "watch") /\ Alive("client") /\ UNCHANGED <<bound, answered>>

ServerLost == Leave("watch", "bad") /\ Ended("server")

BothRun == Go("watch", "limit") /\ Alive("server") /\ UNCHANGED <<bound, answered>>

ClientExpires == Leave("limit", "bad") /\ UNCHANGED leader

Sleep == Go("limit", "client") /\ UNCHANGED <<leader, bound, answered>>

\* Mutant: the return code as it is.
ReturnItsCode == ~command /\ Leave("ready", outcome["server"]) /\ Ended("server")

\* server.wait(); 0 becomes 1.
ServerEnds == ~command /\ Leave("ready", "bad") /\ Ended("server")

----------------------------------------------------------------------------
\* The finally block and stop.

Stopping(to, g) ==
    pc' = to /\ stage' = g /\ UNCHANGED <<bound, answered, exit, abandoned>>

\* Mutant: the client is not stopped before the server.
ServerFirst ==
    /\ pc = "finally"
    /\ IF "SIGTERM" \in heeded
       THEN heeded' = heeded \ {"SIGTERM"} /\ Stopping("finally", "none")
       ELSE heeded' = {} /\ Stopping("stop", "server")
    /\ UNCHANGED <<leader, sent>>

\* SIGTERM, then SIGINT is ignored; then the client comes.
IgnoreSignals ==
    /\ pc = "finally"
    /\ IF "SIGTERM" \in heeded
       THEN heeded' = heeded \ {"SIGTERM"} /\ Stopping("finally", "none")
       ELSE heeded' = {} /\ Stopping("stop", "client")
    /\ UNCHANGED <<leader, sent>>

\* stop(client) is followed by stop(server), and that by the end.
NextStage ==
    IF stage = "client" THEN Stopping("stop", "server") ELSE Stopping("ended", "none")

\* A group that is gone is a ProcessLookupError.
Killpg(signal) ==
    sent' = [sent EXCEPT ![stage] =
                IF leader[stage] = "reaped" /\ worker[stage] # "running" THEN @ ELSE @ \union {signal}]

StopNone ==
    pc = "stop" /\ stage \notin bound /\ NextStage /\ UNCHANGED <<leader, sent, heeded>>

Term ==
    /\ pc = "stop" /\ stage \in bound
    /\ Killpg("SIGTERM") /\ Stopping("grace", stage)
    /\ UNCHANGED <<leader, heeded>>

\* Mutant: wait without a timeout.
Patience == pc = "grace" /\ Stopping("kill", stage) /\ Ended(stage) /\ UNCHANGED <<sent, heeded>>

\* wait(timeout=15)
Grace ==
    /\ pc = "grace" /\ Stopping("kill", stage)
    /\ Ended(stage) \/ Alive(stage)
    /\ UNCHANGED <<sent, heeded>>

\* Mutant: only a leader that still runs is killed, its group is not.
KillLeader ==
    /\ pc = "kill" /\ Stopping("reap", stage)
    /\ IF leader[stage] = "running" THEN Killpg("SIGKILL") ELSE UNCHANGED sent
    /\ UNCHANGED <<leader, heeded>>

Kill == pc = "kill" /\ Killpg("SIGKILL") /\ Stopping("reap", stage) /\ UNCHANGED <<leader, heeded>>

\* Mutant: SIGKILL is not waited for.
KilledIsGone == pc = "reap" /\ NextStage /\ UNCHANGED <<leader, sent, heeded>>

LastWait == pc = "reap" /\ Ended(stage) /\ NextStage /\ UNCHANGED <<sent, heeded>>

Stop == IgnoreSignals \/ StopNone \/ Term \/ Grace \/ Kill \/ LastWait

\* SystemExit from wherever main is; out of the finally block, it ends the process.
interrupted ==
    /\ heeded # {}
    /\ IF pc = "finally"
       THEN /\ pc' = "ended" /\ exit' = "bad" /\ abandoned' = TRUE
            /\ UNCHANGED <<sent, bound, heeded, stage, answered>>
       ELSE /\ pc # "ended" /\ Finish("bad")
            /\ abandoned' = (abandoned \/ pc \in {"server forked", "client forked"})
    /\ UNCHANGED <<leader, fixed, world>>

Runner ==
    /\ \/ CannotStart \/ StartServer \/ ServerDies \/ StillStarting \/ StartupExpires
       \/ owns_listener \/ Health \/ ModelsListed \/ Confirm \/ StartClient \/ ClientEnds
       \/ ClientRuns \/ ServerLost \/ BothRun \/ ClientExpires \/ Sleep \/ ServerEnds \/ Stop
    /\ UNCHANGED <<fixed, world>>

Next == Runner \/ interrupted \/ Environment

Spec == Init /\ [][Next]_vars

KilledExits(g) == "SIGKILL" \in sent[g] /\ LeaderExits(g) /\ Environment

\* main is scheduled, probes end, time passes the deadlines and SIGKILL works.
FairSpec ==
    /\ Spec
    /\ WF_vars(Runner)
    /\ SF_vars(StartupExpires /\ Runner) /\ SF_vars(ClientExpires /\ Runner)
    /\ \A g \in Groups : WF_vars(KilledExits(g))

----------------------------------------------------------------------------
TypeOK ==
    /\ script \in {"muse", "gemma"} /\ command \in BOOLEAN
    /\ leader \in [Groups -> {"none", "running", "zombie", "reaped"}]
    /\ worker \in [Groups -> {"none", "running", "gone"}]
    /\ outcome \in [Groups -> {"none", "ok", "bad"}]
    /\ sent \in [Groups -> SUBSET {"SIGTERM", "SIGKILL"}]
    /\ port \in {"free", "own", "foreign"}
    /\ bound \subseteq Groups /\ heeded \subseteq Signals
    /\ pc \in {"open", "server forked", "startup", "deadline", "health", "models", "confirm",
               "ready", "client forked", "client", "watch", "limit", "finally", "stop", "grace",
               "kill", "reap", "ended"}
    /\ stage \in {"none"} \union Groups
    /\ answered \subseteq {"own", "foreign"}
    /\ exit \in {"none", "ok", "bad"} /\ abandoned \in BOOLEAN
    /\ exit # "none" <=> pc \in {"finally", "stop", "grace", "kill", "reap", "ended"}

\* From "Server ready" on, every probe since the listener was found was answered by the own
\* server: never by somebody who took the port when it died, though the port, the answers and
\* the process are looked at one after the other.
ReadyIsOwn ==
    pc \in {"ready", "client forked", "client", "watch", "limit"} => answered = {"own"}

\* No process that may still run: its leader is reaped, its group gone or killed.
Released(g) ==
    /\ leader[g] \in {"none", "reaped"}
    /\ worker[g] = "running" => "SIGKILL" \in sent[g]

\* "Owned server/client processes stopped": when the runner ends, no process of either group
\* is left, descendants of a leader that exited long ago included.
NothingLeft == pc = "ended" /\ ~abandoned => \A g \in Groups : Released(g)

\* The server is not taken away from a client that may still use it.
ServerStopsLast == sent["server"] # {} /\ ~abandoned => Released("client")

\* Exit code 0 is the client's: a server that ends by itself, even with code 0, is a failure.
ZeroMeansDone == exit = "ok" => command /\ leader["client"] = "reaped" /\ outcome["client"] = "ok"

\* The runner keeps to the life of the two groups, step by step; a signal in one of the two
\* gaps is its excuse.
Life(g) == IF leader[g] = "none" THEN "none" ELSE IF Released(g) THEN "released" ELSE "started"

Supervised == INSTANCE Supervisor WITH
                  group <- [g \in Groups |-> Life(g)], asked <- sent["server"] # {},
                  over <- pc = "ended", excused <- abandoned

ImplementsSupervisor == Supervised!Spec

\* With a client command the runner always ends; without one, when its server has exited or
\* the runner was interrupted, though both children may ignore SIGTERM.
Ends == command \/ exit # "none" \/ leader["server"] = "zombie" ~> pc = "ended"
=============================================================================
