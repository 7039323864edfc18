--------------------------- MODULE OpenCodeRunner ---------------------------
(***************************************************************************)
(* run_opencode_in_container of benchmarks/opencode_runner.py: one OpenCode *)
(* in a container of its own, and the runner that reads its events until   *)
(* OpenCode ends or reaches a limit, takes the patch and removes the       *)
(* container.  The runner holds the docker exec client only; the client    *)
(* relays what OpenCode prints through a pipe.                             *)
(*                                                                         *)
(* Two things lie between a line that OpenCode prints and its event: the   *)
(* pipe, which is what select looks at, and the buffer of process.stdout,  *)
(* which is what readline looks at first.  A line may arrive in two parts. *)
(***************************************************************************)
EXTENDS Naturals, SequencesExt

CONSTANTS
    Events,          \* the lines OpenCode may print
    MaxRequests, MaxTools, MaxTokens,  \* the limits of a trajectory
    MaxLines,        \* its size limit (MAX_TRAJECTORY_BYTES), in lines
    MayStall,        \* OpenCode may stop in the middle of a line for ever
    MaxWritten,      \* bound: lines OpenCode prints
    MaxSignals       \* bound: interrupts

Types == {"step_finish", "tool_use", "text", "malformed", "oversized"}

Event == [type : Types, tokens : Nat]

\* The first part of a line whose end is still to come.
Part == [type |-> "part", tokens |-> 0]

ASSUME OpenCodeAssumption ==
    /\ Events \subseteq Event
    /\ \A e \in Events : e.type # "step_finish" => e.tokens = 0
    /\ {MaxRequests, MaxTools, MaxTokens, MaxLines} \subseteq Nat \ {0}
    /\ MayStall \in BOOLEAN
    /\ MaxWritten \in Nat /\ MaxSignals \in Nat

VARIABLES
    pc,         \* where the runner is
    container,  \* the state of its container
    opencode,   \* OpenCode in the container
    client,     \* the docker exec client
    code,       \* the exit code of the client, zero or not
    pipe,       \* what the client wrote and nobody has read
    buffer,     \* what was read from the pipe and not returned by readline
    half,       \* OpenCode is in the middle of a line
    written,    \* the lines OpenCode printed (history)
    saved,      \* the lines in trajectory.jsonl
    reason,     \* termination_reason
    late,       \* the deadline has passed
    signals,    \* interrupts so far
    left        \* docker rm was interrupted or failed (history)

docker == <<container, opencode, client, code>>
stream == <<pipe, buffer, half, written>>
vars == <<pc, docker, stream, saved, reason, late, signals, left>>

Places ==
    {"create", "start", "spawn", "poll", "deadline", "select", "read", "midline", "kill",
     "wait", "reap", "restart", "patch", "clean", "unwind", "done", "raised"}

InTry == Places \ {"clean", "unwind", "done", "raised"}

Count(type, lines) == Cardinality({n \in DOMAIN lines : lines[n].type = type})

Tokens(lines) ==
    LET sum[n \in 0..Len(lines)] == IF n = 0 THEN 0 ELSE sum[n - 1] + lines[n].tokens
    IN  sum[Len(lines)]

Goto(from, to) == pc = from /\ pc' = to

----------------------------------------------------------------------------
Init ==
    /\ pc = "create"
    /\ container = "absent" /\ opencode = "none" /\ client = "none" /\ code = 0
    /\ pipe = <<>> /\ buffer = <<>> /\ half = FALSE /\ written = <<>>
    /\ saved = <<>> /\ reason = "none"
    /\ late = FALSE /\ signals = 0 /\ left = FALSE

Create ==
    /\ Goto("create", "start")
    /\ container' = "created"
    /\ UNCHANGED <<opencode, client, code, stream, saved, reason, late, signals, left>>

\* The client of the daemon was killed by its timeout, or by an interrupt: the daemon may
\* create the container nevertheless, and not before the removal below.
CreateRaises ==
    /\ Goto("create", "unwind")
    /\ container' \in {"absent", "creating"}
    /\ UNCHANGED <<opencode, client, code, stream, saved, reason, late, signals, left>>

\* Two copies, the start of the container, one exec.
Start ==
    /\ Goto("start", "spawn")
    /\ container' = "running"
    /\ UNCHANGED <<opencode, client, code, stream, saved, reason, late, signals, left>>

Spawn ==
    /\ Goto("spawn", "poll")
    /\ client' = "running"
    /\ opencode' = IF container = "running" THEN "running" ELSE "killed"
    /\ UNCHANGED <<container, code, stream, saved, reason, late, signals, left>>

----------------------------------------------------------------------------
\* The event loop.

unread == <<docker, stream, saved, late, signals, left>>

Poll ==
    /\ pc = "poll"
    /\ pc' = IF client = "exited" THEN "wait" ELSE "deadline"
    /\ UNCHANGED <<unread, reason>>

\* The loop ends with a reason.
Break(why) ==
    /\ reason' = why
    /\ pc' = "kill"

Deadline ==
    /\ pc = "deadline"
    /\ IF late THEN Break("wall_time_limit") ELSE pc' = "select" /\ UNCHANGED reason
    /\ UNCHANGED unread

\* Mutant: select waits without a timeout.
SelectForever ==
    /\ pc = "select"
    /\ pipe # <<>> \/ client = "exited"
    /\ pc' = "read"
    /\ UNCHANGED <<unread, reason>>

\* The pipe is ready when something is in it or nobody can write to it; select does not
\* see the buffer.
Select ==
    /\ pc = "select"
    /\ pc' = IF pipe # <<>> \/ client = "exited" THEN "read" ELSE "poll"
    /\ UNCHANGED <<unread, reason>>

\* The limit that a trajectory has reached: the counters are those of its events.
Reached(lines) ==
    IF Count("step_finish", lines) >= MaxRequests THEN "model_request_limit"
    ELSE IF Count("tool_use", lines) >= MaxTools THEN "tool_event_limit"
    ELSE IF Tokens(lines) >= MaxTokens THEN "generated_token_limit"
    ELSE "none"

\* Mutant: the limits are tested before the line is counted.
VerdictBefore(line) ==
    IF line.type = "oversized" THEN "event_line_size_limit"
    ELSE IF Len(saved) >= MaxLines THEN "trajectory_size_limit"
    ELSE IF line.type = "part" THEN "truncated_event"
    ELSE IF line.type = "malformed" THEN "malformed_event"
    ELSE Reached(saved)

\* What becomes of a line that readline returned.
Verdict(line) ==
    IF line.type = "oversized" THEN "event_line_size_limit"
    ELSE IF Len(saved) >= MaxLines THEN "trajectory_size_limit"
    ELSE IF line.type = "part" THEN "truncated_event"
    ELSE IF line.type = "malformed" THEN "malformed_event"
    ELSE Reached(Append(saved, line))

Handle(line) ==
    LET why == Verdict(line) IN
    /\ saved' = IF why \in {"event_line_size_limit", "trajectory_size_limit"} THEN saved
                ELSE Append(saved, line)
    /\ IF why = "none" THEN pc' = "poll" /\ UNCHANGED reason ELSE Break(why)

\* readline takes what the buffer has.
ReadBuffer ==
    /\ pc \in {"read", "midline"}
    /\ buffer # <<>>
    /\ buffer' = Tail(buffer)
    /\ IF Head(buffer) = Part THEN pc' = "midline" /\ UNCHANGED <<saved, reason>>
       ELSE Handle(Head(buffer))
    /\ UNCHANGED <<docker, pipe, half, written, late, signals, left>>

\* Mutant: every read starts a buffer of its own.
FreshBuffer ==
    /\ pc \in {"read", "midline"}
    /\ pipe # <<>>
    /\ \E n \in 1..Len(pipe) :
           /\ buffer' = SubSeq(pipe, 1, n)
           /\ pipe' = SubSeq(pipe, n + 1, Len(pipe))
    /\ UNCHANGED <<pc, docker, half, written, saved, reason, late, signals, left>>

\* Only then it reads from the pipe, as much as there is and fits.
FillBuffer ==
    /\ pc \in {"read", "midline"}
    /\ buffer = <<>> /\ pipe # <<>>
    /\ \E n \in 1..Len(pipe) :
           /\ buffer' = SubSeq(pipe, 1, n)
           /\ pipe' = SubSeq(pipe, n + 1, Len(pipe))
    /\ UNCHANGED <<pc, docker, half, written, saved, reason, late, signals, left>>

EndOfFile ==
    /\ buffer = <<>> /\ pipe = <<>> /\ client = "exited"
    /\ \/ Goto("read", "poll") /\ UNCHANGED <<saved, reason>>
       \/ pc = "midline" /\ Handle(Part)
    /\ UNCHANGED <<docker, stream, late, signals, left>>

----------------------------------------------------------------------------
\* After the loop.

Stopped(c) == IF c = "running" THEN "killed" ELSE c

\* Mutant: the client is killed instead of the container.
KillClient ==
    /\ Goto("kill", "wait")
    /\ client' = IF client = "running" THEN "signalled" ELSE client
    /\ UNCHANGED <<container, opencode, code, stream, saved, reason, late, signals, left>>

\* docker kill, which refuses a container that is not running.
KillContainer ==
    /\ container = "running"
    /\ Goto("kill", "wait")
    /\ container' = "killed" /\ opencode' = Stopped(opencode)
    /\ UNCHANGED <<client, code, stream, saved, reason, late, signals, left>>

Ending ==
    IF reason # "none" THEN reason
    ELSE IF code # 0 THEN "client_nonzero_exit"
    ELSE IF Count("step_finish", saved) = 0 THEN "missing_completion_event"
    ELSE "none"

\* process.wait, the first or the second.
Wait ==
    /\ pc \in {"wait", "reap"}
    /\ client = "exited"
    /\ reason' = Ending
    /\ pc' = IF Ending = "none" THEN "patch" ELSE "restart"
    /\ UNCHANGED <<docker, stream, saved, late, signals, left>>

WaitExpires ==
    /\ client # "exited"
    /\ Goto("wait", "reap")
    /\ client' = "signalled"
    /\ UNCHANGED <<container, opencode, code, stream, saved, reason, late, signals, left>>

Restart ==
    /\ Goto("restart", "patch")
    /\ container' = "running"
    /\ UNCHANGED <<opencode, client, code, stream, saved, reason, late, signals, left>>

\* git diff in the container, and the patch is saved.
Diff ==
    /\ container = "running"
    /\ Goto("patch", "clean")
    /\ UNCHANGED <<docker, stream, saved, reason, late, signals, left>>

\* A docker command fails or expires, a file exists, a wait expires twice.
Raise ==
    /\ \/ pc \in {"start", "spawn", "kill", "restart", "patch"}
       \/ pc = "reap" /\ client # "exited"
    /\ pc' = "unwind"
    /\ UNCHANGED <<unread, reason>>

Leave == pc' = IF pc = "clean" THEN "done" ELSE "raised"

\* Mutant: docker rm without --force, which leaves a running container alone.
RemoveUnforced ==
    /\ pc \in {"clean", "unwind"}
    /\ Leave
    /\ container' = IF container \in {"creating", "running"} THEN container ELSE "absent"
    /\ UNCHANGED <<opencode, client, code, stream, saved, reason, late, signals, left>>

\* The finally clause: docker rm --force.
RemoveContainer ==
    /\ pc \in {"clean", "unwind"}
    /\ Leave
    /\ container' = IF container = "creating" THEN container ELSE "absent"
    /\ opencode' = Stopped(opencode)
    /\ UNCHANGED <<client, code, stream, saved, reason, late, signals, left>>

\* Its exit code is not looked at.
RemoveFails ==
    /\ pc \in {"clean", "unwind"}
    /\ Leave
    /\ left' = TRUE
    /\ UNCHANGED <<docker, stream, saved, reason, late, signals>>

Runner ==
    \/ Create \/ CreateRaises \/ Start \/ Spawn
    \/ Poll \/ Deadline \/ Select \/ ReadBuffer \/ FillBuffer \/ EndOfFile
    \/ KillContainer \/ Wait \/ WaitExpires \/ Restart \/ Diff
    \/ Raise \/ RemoveContainer \/ RemoveFails

\* KeyboardInterrupt, which the finally clause answers too, unless it is what was interrupted.
Interrupt ==
    /\ signals < MaxSignals
    /\ signals' = signals + 1
    /\ \/ /\ pc \in InTry
          /\ pc' = "unwind"
          /\ container' \in IF pc = "create" THEN {container, "creating"} ELSE {container}
          /\ UNCHANGED left
       \/ /\ pc \in {"clean", "unwind"}
          /\ pc' = "raised"
          /\ left' = TRUE
          /\ UNCHANGED container
    /\ UNCHANGED <<opencode, client, code, stream, saved, reason, late>>

----------------------------------------------------------------------------
\* OpenCode, its container, the daemon and the clock.

runner == <<pc, buffer, saved, reason, signals, left>>

Relay(line) ==
    /\ pipe' = IF client = "running" THEN Append(pipe, line) ELSE pipe
    /\ UNCHANGED <<docker, runner, late>>

WriteLine ==
    /\ opencode = "running" /\ ~half /\ Len(written) < MaxWritten
    /\ \E e \in Events : Relay(e) /\ written' = Append(written, e)
    /\ UNCHANGED half

BeginLine ==
    /\ opencode = "running" /\ ~half /\ Len(written) < MaxWritten
    /\ Relay(Part)
    /\ half' = TRUE
    /\ UNCHANGED written

EndLine ==
    /\ opencode = "running" /\ half
    /\ \E e \in Events : Relay(e) /\ written' = Append(written, e)
    /\ half' = FALSE

OpenCodeEnds ==
    /\ opencode = "running"
    /\ opencode' \in {"finished", "failed"}
    /\ UNCHANGED <<container, client, code, stream, runner, late>>

ClientExits ==
    /\ client = "signalled" \/ (client = "running" /\ opencode # "running")
    /\ client' = "exited"
    /\ code' = IF client = "running" /\ opencode = "finished" THEN 0 ELSE 1
    /\ UNCHANGED <<container, opencode, stream, runner, late>>

\* The client loses the daemon, or is killed: OpenCode goes on without it.
ClientLost ==
    /\ client = "running"
    /\ client' = "exited" /\ code' = 1
    /\ UNCHANGED <<container, opencode, stream, runner, late>>

ContainerDies ==
    /\ container = "running"
    /\ container' = "killed" /\ opencode' = Stopped(opencode)
    /\ UNCHANGED <<client, code, stream, runner, late>>

DaemonCreates ==
    /\ container = "creating"
    /\ container' = "created"
    /\ UNCHANGED <<opencode, client, code, stream, runner, late>>

Clock ==
    /\ ~late
    /\ late' = TRUE
    /\ UNCHANGED <<docker, stream, runner>>

Environment ==
    \/ WriteLine \/ BeginLine \/ EndLine \/ OpenCodeEnds \/ ClientExits \/ ClientLost
    \/ ContainerDies \/ DaemonCreates \/ Clock

Next == Runner \/ Interrupt \/ Environment

Spec == Init /\ [][Next]_vars

\* Docker commands end by their timeouts; a client ends when OpenCode has or when it was
\* sent SIGKILL; the deadline passes; and OpenCode ends its lines, unless it may stall.
Fairness ==
    /\ WF_vars(Runner) /\ WF_vars(ClientExits) /\ WF_vars(Clock)
    /\ WF_vars(~MayStall /\ EndLine)

FairSpec == Spec /\ Fairness

----------------------------------------------------------------------------
\* The status of an attempt (execution.py); "patch" is graded by its content.
Status(why) ==
    CASE why = "wall_time_limit" -> "timeout"
      [] why \in {"client_nonzero_exit", "missing_completion_event", "event_line_size_limit",
                  "trajectory_size_limit", "truncated_event", "malformed_event"} -> "infra_error"
      [] OTHER -> "patch"

Reasons ==
    {"none", "wall_time_limit", "event_line_size_limit", "trajectory_size_limit",
     "truncated_event", "malformed_event", "model_request_limit", "tool_event_limit",
     "generated_token_limit", "client_nonzero_exit", "missing_completion_event"}

TypeOK ==
    /\ pc \in Places
    /\ container \in {"absent", "creating", "created", "running", "killed"}
    /\ opencode \in {"none", "running", "finished", "failed", "killed"}
    /\ client \in {"none", "running", "signalled", "exited"}
    /\ code \in {0, 1}
    /\ {pipe, buffer, saved} \subseteq Seq(Events \union {Part})
    /\ written \in Seq(Events) /\ Len(written) =< MaxWritten
    /\ reason \in Reasons
    /\ half \in BOOLEAN /\ late \in BOOLEAN /\ left \in BOOLEAN
    /\ signals \in 0..MaxSignals

\* A patch that is graded was taken from a container in which OpenCode was no longer
\* working.  (docker kill before git diff)
PatchIsFinal ==
    pc = "patch" /\ Status(reason) # "infra_error" => opencode # "running"

\* No event is taken after the one that reaches a limit, whatever was waiting in the pipe
\* and the buffer, and the attempt is charged with that limit.
LimitsHold ==
    /\ \A n \in 1..Len(saved) - 1 : Reached(SubSeq(saved, 1, n)) = "none"
    /\ Reached(saved) # "none" => reason = Reached(saved)

\* What was saved is what OpenCode printed, in its order and without a gap, though it came
\* in parts and through two buffers; only the last line may be a part.  (trajectory.jsonl)
TrajectoryIsGenuine ==
    LET lines == IF saved # <<>> /\ Last(saved) = Part THEN Front(saved) ELSE saved
    IN  IsPrefix(lines, written)

\* When the runner is done or has raised, nothing of OpenCode is running.  (the finally
\* clause, and the order of docker create and its removal)
NothingRuns ==
    pc \in {"done", "raised"} /\ ~left => container # "running" /\ opencode # "running"

\* "Bounded execution of the pinned OpenCode CLI": the runner ends, whatever OpenCode, its
\* container and docker do.
Bounded == <>(pc \in {"done", "raised"})
=============================================================================
