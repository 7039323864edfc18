# A TLA+ model of the launchers and the benchmark harness

The repository serves open models on a Slurm cluster, puts Codex in front of them
through an HTTP adapter that speaks each model's thinking levels (`scripts/`) and
measures them with a benchmark harness (`benchmarks/`). This directory specifies
both: what the adapter, the launchers, the journals, the run directory and the
process supervision promise, and whether the code keeps it when threads and
processes overlap, are interrupted or killed, when a port is taken, a write falls
short or the node loses power. TLC checks the models on small instances; TLAPS
proves the central invariants for every value of the constants.

All paths below are relative to the repository root.

## The system

| Component | Source | State it keeps | Operations | Model |
|---|---|---|---|---|
| Journals | `benchmarks/state.py` | `trials.jsonl`, `generations.jsonl`, their locks | append, scan, read | `Journal` |
| Generation | `benchmarks/execution.py:220-633` | run directory: manifest, attempt artifacts, generation records | create or resume a manifest, run an attempt, record it | `RunDirectory`, `Generation` |
| Evaluation | `benchmarks/execution.py:636-904` | trial records | check coverage, check hashes, grade, record | `Evaluation` |
| Reporting | `benchmarks/reporting.py` | `summary.json`, `summary.csv`, `report.md` | compute, publish | `Evaluation` |
| Command line | `benchmarks/run.py` | none | generate, evaluate, report, prepare, preflight, catalog | `Campaign` |
| Server runner | `benchmarks/server_runner.py` | two process groups, pending signals | start, probe, watch, stop | `ServerRunner` |
| OpenCode runner | `benchmarks/opencode_runner.py` | container, event stream, counters | run one trajectory under limits | `OpenCodeRunner` |
| Model transport | `benchmarks/transport.py` | one HTTP stream | chat with deadlines | `Transport` |
| Thinking adapter | `scripts/thinking.py` | slots, registered upstream sockets, its listener | translate a level, admit, forward, stream, close | `Thinking`, `Adapter`; promise in `Gateway` |
| Codex launcher | `scripts/launch-codex.py` | catalogs in the state directory, one Codex process | check, inspect the server, write a catalog, run a session | `LaunchCodex` |
| Model runners | `scripts/run-gemma-qat.py`, `run-nemotron-lightning.py`, `run-muse-gguf.py` | two process groups, signal handlers | start, probe, run a client, stop | `ModelRunner` |
| Telemetry | `benchmarks/telemetry.py` | sampler thread, sums and peaks | start, sample, stop, summary | not modelled |
| Preparation | `benchmarks/preparation.py` | evaluator checkout, preparation manifest | prepare, revalidate | not modelled |
| Preflight, planning, contracts | `preflight.py`, `planning.py`, `contracts.py` | none | validate, plan | not modelled |
| Suite adapters | `benchmarks/adapters/`, `swe_evaluator_runner.py` | none | parse, grade | a choice of answers in `Evaluation` |
| Downloads | `scripts/download-*.py` | none | one call of `huggingface_hub` | not modelled |

How they interact. A model runner starts a model server on a port which anybody
on the node may have or take, waits until its own server answers there and runs a
client command next to it. The Codex launcher is a client of that port: it asks
`GET /models` what the server's limit is, writes a catalog for Codex into a
directory that all sessions of all profiles share, opens an adapter, and runs
Codex against the adapter. The adapter handles each request of Codex in a thread
of its own; the main thread closes it while those threads may be anywhere. Codex
and its launcher share the terminal, so one Ctrl-C reaches both.

The harness has a runner of its own. The server runner starts the model server and, once its
endpoint answers, the client, which is usually `run.py generate`; it talks to the
client by signals only. `generate`, `evaluate` and `report` are separate programs
and share nothing but the files of a run directory. There is no lock on the
directory: the flock of a journal is held during one append, everything between
two accesses can be interleaved with another program. `generate` asks the model
through the transport or runs OpenCode in a container, saves what came back and
appends one record per attempt. `evaluate` checks the hashes of the saved files, reads
them (or, for terminal-bench, runs a verifier in the attempt's directory without
checking anything) and appends one trial per task. `report` needs one trial for every
scheduled task.

What makes each part correct:

- *Adapter.* At most eight requests of a session at the model server, none twice and
  none after the session; no slot is lost; one status line per request that the handler
  has an answer to; the model thinks at the level that was asked for.
- *Codex launcher.* Codex has its adapter and its catalog as long as it lives, and the
  session always ends.
- *Model runners.* "Ready" is said of the own server, not of somebody else on the
  port; the client goes first, the server second, nobody is left; exit code 0 is
  the client's; the runner always gets there.
- *Journals.* One line per attempt id, a torn line only at the end, nothing that
  was acknowledged is lost, no append waits for ever.
- *Run directory.* One run per directory, one outcome and one verdict per attempt,
  never revised; no grading before the generations are complete; the graded
  content is the recorded content, in the suites that compare its hash; an attempt
  that fails is recorded.
- *OpenCode runner.* The limits of a trajectory hold whatever waits in the buffers, what
  is saved is what OpenCode printed, the patch is taken when OpenCode has stopped, the
  container is gone afterwards, and the runner always gets there.
- *Model transport.* A call returns the whole answer or an error, asks the model once,
  keeps its deadline and ends.
- *Report.* Complete, and not contradicted by anything that happens later.
- *Server runner.* The client goes first and is asked politely, the server goes
  second, nobody is left, and the runner always gets there.

## The modules

| Module | What it is |
|---|---|
| `UniqueLog` | what a journal promises: a log of distinct records of which only an unacknowledged tail may go |
| `Journal` | the append protocol, step by step, with kills, short writes and power losses; refines `UniqueLog` |
| `JournalProofs` | its inductive invariant; eight theorems, the refinement among them |
| `TaskLedger` | what a run promises about its scores |
| `RunDirectory` | the files, the memory of a process, the checks that the commands share |
| `Generation`, `Evaluation` | the actions of `generate`, and those of `evaluate` and `report` |
| `Campaign` | any number of those commands at once on one directory; refines `TaskLedger` |
| `CampaignProofs` | the invariant of a run directory; nine theorems, the refinement among them |
| `Supervisor` | what a runner promises about its two process groups |
| `ServerRunner` | the runner, its two process groups and the signals between them; refines `Supervisor` |
| `ServerRunnerProofs` | its inductive invariant and six theorems, the refinement among them |
| `Thinking` | the levels, the template arguments that select them, the rewriting of a request |
| `Gateway` | what the adapters promise to the model server |
| `Adapter` | the adapter: one handler per request, and the main thread that closes it |
| `AdapterProofs` | the adapter's invariant, its preservation by every step, the steps of `Gateway` they map to |
| `LaunchCodex` | any number of launchers, each with its adapter and its Codex; refines `Gateway` |
| `LaunchCodexProofs` | the invariant of the whole and seven theorems, the refinement among them |
| `ModelRunner` | one runner, its two process groups and the port; refines `Supervisor` too |
| `ModelRunnerProofs` | its inductive invariant and seven theorems, the refinement among them |
| `OpenCodeRunner` | one trajectory: the runner, its container, the docker client, the pipe and the buffer between |
| `OpenCodeRunnerProofs` | its inductive invariant and six theorems |
| `Transport` | one streaming call, line by line, under its three timeouts |
| `TransportProofs` | its inductive invariant and four theorems |
| `MCJournal`, `MCCampaign`, `MCLaunchCodex`, `MCOpenCode`, `MCTransport` | model values for TLC |

Definitions whose comment begins with *Mutant* belong to no specification. Each
is a plausible mistake in the definition below it; with it in the place of that
definition TLC refutes the property that is there to catch it (`PROJECT.json`,
"mutants").

### Journal and the code

`kind` chooses between `append_trial` and `append_json_record`, which follow the
same protocol and differ in three ways that matter: only the second refuses an
oversized record (`state.py:163-170`); only the second ignores the count that
`os.write` returns (`192`, action `ShortWrite`); only the first writes through a
buffer that the end of its `with` block flushes when the call fails
(`AbortFlushes`). A record is its attempt id; a line is that id and whether its
terminator is there, which is all the readers use to recognise an interrupted
append. Places of `pc` are the steps of the code: lock, scan, write, fsync, fsync
of the directory, close. `synced` and `linked` say how much of the file and
whether its directory entry has reached the disk. A power loss keeps the synced
lines, any further prefix, possibly with its last line cut, or, while the entry
is not synced, no file at all.

### Campaign and the code

A process is idle or at a place between two accesses to the run directory. A
place therefore lies between `path.exists()` and `os.replace` of the manifest,
between the orphan check and the writes of an attempt, between those writes and
the hashes, between the hashes and the append, and in `evaluate` between the
coverage check, the reading of the trials, the hash check, the reading of the
content and the append. Two writes of one attempt, `response.txt` and
`solution.py`, are one step, since no other command reads one without the other.
Content is named by the invocation that wrote it, a hash by the content, a run id
by the invocation that created the manifest. What is pending is a set, worked through
in the order of the schedule (`First`), which is the list of the code.

An append is one step: that is what `Journal` shows of it (`AppendIsAtomic`,
`ImplementsUniqueLog`), with the errors it may return. A SIGINT within the `try` around
an attempt is `AttemptInterrupted`, which records and re-raises; a SIGINT anywhere else,
a SIGTERM and a SIGKILL are `Stop`. A loop over tasks may end before any task for want
of time (`_has_task_time`).

`Suite` is the suite of the run, and two things depend on it. In the two container
suites the trajectory and the patch are opened for creation
(`opencode_runner.py:212`, `307`), so that an attempt fails where others would write
over what is there (`WriteArtifacts`). And `HashFresh`, the comparison before a
verdict, is made in every suite but terminal-bench (`ChecksHash`): there the verifier
runs in the live directory of the attempt (`execution.py:810-833`), nothing is
compared, and the verifier itself may change what it, another evaluation or a later one
grades (`VerifierWrites`; `Touched` stands for the result). In the other suites a file
that is missing is not compared either, and an empty answer is graded; no program of
the repository removes one, so the case occurs in no state (`HasSaved` in
`CampaignProofs`). `GradedWhatWasSaved` therefore promises nothing for terminal-bench.

The graders' results are a choice, except that an attempt
without an answer cannot pass: every suite that knows the status `unsolved` (all but
terminal-bench) extracts an empty answer from it, which its grader fails. Two history variables, `overlap` and
`raced`, say whether two generations were ever active at once and whether a file was
rewritten between a hash check and the reading of the file.

### ServerRunner and the code

Each group has a leader, of which the runner is the parent, and other members,
taken together as `worker`. A leader that exits is a zombie until `poll` or `wait`
reaps it, and `killpg` finds a group as long as it has any member, a zombie
included. The children are the environment: they may exit, fork or become ready
whenever they like and need not obey any signal except SIGKILL. A leader in
`MayHang` may even survive SIGKILL for the 20 seconds of the second wait (a
process in an uninterruptible system call). `stop_owned` is called in the loop
and twice in the `finally` block; `stage` says which call it is. Exit codes and
the contents of the server manifest are left out.

`Supervisor` is what this runner and the model runners have in common: each group goes
from not started to started to released, never back, the server is signalled only after
its client was released, and the runner ends when nobody is left. A group is released
when its leader is reaped, or was never there, and every other member is gone or was
sent SIGKILL (`Life`). A runner may be excused, and then it may end early or signal the
server early, but still starts nothing after that. The excuse of the server runner is
`gaveUp`, a leader that outlives SIGKILL in the finally block; that of the model runners
is `abandoned`.

### Adapter, LaunchCodex and the code

A session is one launcher: a main thread, a Codex, and in between an adapter with
one handler thread per request. `Adapter` has no specification of its own, since
only its main thread, which is the launcher's, says when it opens and closes;
`LaunchCodex` composes the two. The places of a handler are the calls of `do_POST`
that can block or raise, and those between which the main thread can get in:
between `connect` and the registration of the socket, between the registration and
the request, between the close of the connection, its removal from `connections`
and the return of the slot. The lock is held for more than one step only by the
closing main thread (`Unlocked`). `status` lists the status lines a client was sent;
`gone` says that nobody is there to read them.

A request body is what `translate` looks at: the effort, the reasoning
fields by name, and the template arguments. `body` keeps what each client posted and
`payload` what `translate` made of it, which is what the model server gets.
`SelectedLevelArrives` reads the payload as the chat templates do (`TemplateLevel`, the
one part that is not in the code) and compares the level with the one that the request
asked for; it also says that the effort is gone and that what is not about thinking is
still there. Two bodies have no answer (`Muted`): one nested deeper than `json.loads`
follows raises a `RecursionError` that no except clause is for (`thinking.py:107`), and
an effort with a character that Latin-1 lacks (`Foreign`) is quoted in the status line
of the 400, which `send_error` then cannot encode (`thinking.py:37`, `129`). In both
only the finally clause runs (`Unanswered`). A chunk of a reply has no content. The
model server is the environment: it may refuse, fail or be silent at any step, and
what it has sent can still be read from a socket that was shut down meanwhile.

In `LaunchCodex` the places of `launch` are the steps of `main`. A signal raises
`KeyboardInterrupt` wherever the main thread is once its handlers are installed
(line 234); before that a SIGTERM ends the process and leaves what it has written.
The name of a catalog is a digest of its content; in one profile only the limit can
differ, so the limit stands for the digest. When the launcher's process ends, its
daemon threads and their sockets end with it (`Vanish`). The history variable
`abandoned` marks the two places where an interrupt gets past the code that stops
Codex: between the fork inside `Popen` and the assignment (237), and inside the
finally block itself (249-252).

### ModelRunner and the code

The three scripts are copies of one program that differ in their probes: `muse` asks
`/health` only, the two others (`gemma`) `/v1/models` as well. Groups, leaders and
workers are as in `ServerRunner`; two things are not. First, the port: it is free,
owned or somebody else's, changes hands whenever its holder exits, and each of
`owns_listener`, the probes and the poll of the server is a step of its own, so that
the port can change hands in between. The own server listens until it exits, because
the `serve-*.sh` scripts `exec` it. Secondly, signals: the handler raises
`SystemExit` wherever `main` is, and is removed for one signal after the other at
the beginning of the finally block. `abandoned` marks the gap between a fork and its
assignment and the one before both signals are ignored.

### OpenCodeRunner and the code

`pc` walks through `run_opencode_in_container`; every docker command is one step that
may fail or expire (`_run`), and an interrupt may come at any place. What the runner
holds is the client of `docker exec`, not OpenCode: the client may die without it, or
it may go on for a while after OpenCode has ended. A `docker create` whose client was
killed may be carried out by the daemon later, even after the removal
(`DaemonCreates`).

A line of output is a type and a number of tokens. The counters of the code are
functions of the saved lines (`Count`, the number of lines of a type, and `Tokens`, a
sum over them), and `MaxLines` stands for the size
limit in bytes. `pipe` is what `select` looks at, `buffer` what `readline` looks at
first: a `FillBuffer` takes as much of the pipe as there is, so that the lines behind
the first are invisible to `select` until the next comes. A line may come in two
writes (`BeginLine`, `EndLine`); `readline` then waits at `midline`, where nothing but
the rest of the line or the end of the client helps.

### Transport and the code

The places are those of `_chat_stream` at which the socket is waited for (`connect`,
`head`, `read`), and the top of the loop, where the deadline is tested. Time is
counted from the beginning of an attempt, passes only in those waits, and never beyond
the end of one (`limit`), which is when the socket raises. A line is a kind and the
event it belongs to; an event is its data line and an empty line, and the last one is
`[DONE]`. The model server is the environment. `wire` is a reliable sequence, as TCP
is, that may end by a close or a reset at any point. A part of a line ends one wait of
the socket without ending the `readline`, which waits as long again (`ReadPart`). The
status line and the headers are one wait: they fit into one segment.

## What TLC checks

| Run | Result | Distinct states | What it shows |
|---|---|---|---|
| `journal` | holds | 22,824 | `UniqueKeys`, `OnlyTailTorn`, `AckedKept`, `AppendIsAtomic`, refinement of `UniqueLog`, `CallEnds` |
| `journal_oversized` | violated | | `AcceptedIsReadable`: one oversized trial makes the journal unreadable |
| `campaign_generate` | holds | 2.6 million | `OneRunPerDirectory`, `GradedWhatWasSaved`, `FailedAttemptIsJournaled`, `SavedStays` |
| `campaign_grade` | holds | 2.1 million | `GradedAfterCoverage`, `ReportIsFinal`, refinement of `TaskLedger` |
| `campaign_orphan` | violated | | `ResumeNotBlocked`: a kill at the wrong moment blocks `--resume` |
| `server_runner` | holds | 2,056 | `ServerStopsLast`, `NothingLeftRunning`, `ClientIsAsked`, refinement of `Supervisor`, `Ends` |
| `codex_session` | holds | 208,293 | `SlotsAddUp`, `AdapterOutlivesCodex`, `AnsweredOnce`, `SelectedLevelArrives`, refinement of `Gateway`, `SessionEnds` |
| `codex_catalogs` | holds | 904,772 | `CatalogsIntact` |
| `model_runner` | holds | 20,690 | `ReadyIsOwn`, `NothingLeft`, `ServerStopsLast`, `ZeroMeansDone`, refinement of `Supervisor`, `Ends` |
| `opencode` | holds | 1,985,387 | `PatchIsFinal`, `LimitsHold`, `NothingRuns`, `TrajectoryIsGenuine`, `Bounded` |
| `opencode_stall` | violated | | `Bounded`: an OpenCode that stops in mid-line is never timed out |
| `transport` | holds | 1,104,016 | `OnlyWholeAnswers`, `AskedOnce`, `DeadlineKept`, `CallEnds` |

The type invariants are theorems (`TypeCorrect`), which no run repeats.

### Bounds

- `journal`: two writers, three attempt ids of which one is oversized, three calls,
  one power loss. Two calls make a duplicate or a tail that the next append must
  refuse, the third comes after a kill or the power loss. A file of three lines
  has a first, a middle and a last one.
- `campaign_generate`: two generators and one evaluator, three invocations, a
  schedule of two tasks and a pilot of one, one SIGINT and one other end. Three
  invocations are enough for two generations and an evaluation in any order and
  overlap, or for a generation that is killed, resumed and resumed again. Attempts
  end as `generated`, `cancelled` or `infra_error`; the other failures are treated
  alike by the code. The suite is livecodebench, one of those that write over old
  files and compare hashes.
- `campaign_grade`: one generator, two evaluators, one reporter, four invocations,
  one kill, both verdicts, attempts that are graded and attempts that failed. The suite
  is terminal-bench, where verifiers write into the directories they grade. An answer
  that is empty (`unsolved`) is left to `ScoresAreFinal`. Four is the least with
  which a report is published while a second evaluation is still running.
- Processes of one kind are symmetric; invocations are numbered and not symmetric.
  No liveness is checked under symmetry.
- `server_runner`: one worker per group and a client that may hang; the signal to
  the runner, the crashes and the forks are not bounded. The state space is finite
  without further bounds.
- `codex_session`: one launcher, two requests, one slot, three signals. Sessions
  share nothing but the state directory, so one is enough for everything about
  requests; two requests compete for one slot, and while one is at any place of its
  handler the other can be refused, admitted after it or cut off. Three signals are
  the except clause, the wait in it and the finally clause. One request sets a
  level against a template argument that contradicts it or posts an effort that is not
  Latin-1, the other leaves the level out; the model is the one with three levels.
- `codex_catalogs`: three launchers without requests, of which one runs `--check` and
  one has no `--thinking`; a model server that changes its limit once, to one of
  three that differ or that cannot be used; two signals to each launcher. Three are
  needed for a catalog that is written between another's write and its use, while a
  third still reads the first.
- `model_runner`: no bound. Its state space is finite.
- `opencode`: three lines of short and long steps, of tools and of what is no JSON,
  limits of two requests, two tools, three tokens and two lines, one interrupt. Each
  limit is reached by a line that is not the first and has others behind it, in the
  pipe or the buffer.
- `transport`: two events, hence six lines, one retry, one comment, and lines that come
  in at most two parts. A total timeout of 3 is shorter than two reads of 2: it is
  reached while lines still arrive.

Deadlock is not checked: each of these systems stops when the bounds are used up or
the runner has returned.

### Fairness

- `Journal`: every process that is not killed goes on, and `flock` wakes one waiter
  when the lock is free (weak fairness of `Proceed(w)`). Failures are never forced.
- `ServerRunner`: the runner goes on (weak fairness of `Runner`; its waits have
  timeouts, so some step is always possible), and a process that was sent SIGKILL
  goes away, hanging leaders excepted. Nothing is assumed of SIGINT or SIGTERM, of
  the readiness of the server or of the end of the client.
- `LaunchCodex`: the main thread goes on (`Launcher(s)`), and a Codex that was sent
  SIGKILL ends. Nothing is assumed of the model server, of the handlers, which may be
  stuck in a read for ever, or of Codex, which need not heed SIGTERM: `SessionEnds`
  holds because the main thread waits for no handler.
- `ModelRunner`: `main` goes on, and SIGKILL works. Strong fairness of the two
  deadlines: their tests are reached again and again, and `time.monotonic` has passed
  them sooner or later. Probes have timeouts, so that each of them ends.
- `OpenCodeRunner`: the runner goes on (docker commands have timeouts), a client ends
  once OpenCode has or once it was sent SIGKILL, the deadline passes, and OpenCode ends
  a line that it has begun, unless `MayStall`. OpenCode need not print, end or heed
  anything else.
- `Transport`: the client goes on and time passes while it waits. Nothing is assumed of
  the model server.
- `Campaign` states safety only.

### Findings

1. `append_trial` accepts a record that `read_trials` refuses (`state.py:77`, `105`):
   run `journal_oversized`.
2. A generation that is killed between its artifacts and its record cannot be resumed
   without manual work (`execution.py:384`), although `benchmarks/README.md:113`
   offers `--resume` for interrupted generations: run `campaign_orphan`. The server
   runner causes such a kill itself when the server exits: it sends SIGTERM, which the
   Python client does not handle (`server_runner.py:129`).
3. An OpenCode that stops in the middle of a line keeps the runner in `readline`, past
   every deadline (`opencode_runner.py:229`), although the module is called "Bounded
   execution" (`opencode_runner.py:1`): run `opencode_stall`.

Met while modelling, without a run; where a property of a passing run excludes such a
case, it says so:

- `append_json_record` returns after a short write (`state.py:192`). `AckedKept`
  allows such a record to be the torn tail; the theorem `AcknowledgedIsDurable` is
  about disks that do not fill up.
- Two generations that start on one fresh directory overwrite each other's manifest
  (`execution.py:253`, `294`), which `benchmarks/README.md:73` excludes.
  `OneRunPerDirectory` excludes overlapping generations by `overlap`.
- `stop_owned` returns when the leader is reaped, not when the group is gone, as its
  comment says (`server_runner.py:57-63`): a worker that was just sent SIGKILL may
  outlive the runner. `NothingLeftRunning` allows it.
- Lines that are still in the pipe or in the buffer when the docker client has exited
  are neither saved nor counted (`opencode_runner.py:222`): requests and tokens are
  missing from the "measured metadata" (`opencode_runner.py:134`).
  `TrajectoryIsGenuine` asks for a prefix only.
- A line that arrives in parts overshoots the deadline of a call (`transport.py:554`)
  that the comment in `transport.py:545` promises to keep. `DeadlineKept` excludes it
  by `dripped`.
- A chat call that times out is recorded as `infra_error` (`execution.py:618`), not in
  the `timeout` category of `benchmarks/README.md:151`.
- An expired second wait for the client skips the stop of the server
  (`server_runner.py:63`, `134-135`; the state `gaveUp` of the model).
- `run.py generate --dry-run --resume` plans from the trials (`planning.py:46`), the
  generation resumes from the generations (`execution.py:326`).
- A signal between the fork and the assignment of its result, or at the beginning of
  the finally block, leaves a child that nobody stops (`launch-codex.py:237`,
  `249-252`; `run-gemma-qat.py:81`, `123-124`, the same lines of
  `run-nemotron-lightning.py`, and `run-muse-gguf.py:83`, `118-119`). The properties
  exclude these cases by `abandoned`.
- A SIGTERM before `launch-codex.py:234` leaves the temporary file of the catalog.
- The server's limit is read once (`launch-codex.py:209`): a server that is restarted
  with a lower limit later serves a Codex that knows the higher one.
- A request with an effort that is not Latin-1, or nested too deeply, gets no status
  line (`thinking.py:129`, `107`). `AnsweredOnce` excludes these two by `Muted`; the
  slot is given back all the same (`SlotsAddUp`).
- terminal-bench is graded without a look at the journaled hashes, in the live
  directory of the attempt (`execution.py:810-833`): a changed artifact is graded, and
  an evaluation that is repeated after a kill verifies what its predecessor's verifier
  left behind. A saved file that is missing skips the comparison in the other suites
  (`execution.py:710`, `747`, `787`, `838`).
- A reply that the model server cuts short ends like a complete one: HTTP/1.0 without
  a length, closed in the finally clause (`thinking.py:124`).
- A 404 or 503 is sent before the body is read (`thinking.py:88-93`); closing a socket
  with unread data resets it, and the client may lose the answer.
- A request without an effort gets the model's default, not the level of `--thinking`
  (`thinking.py:52-54`).
- After SIGKILL the runners wait without a limit (`process.wait()` in `stop`), unlike
  the server runner.

## What is proved

`JournalProofs`, from `JournalAssumption` (the constants have their types and
`NoWriter` is no writer), for any number of writers, keys, calls and power losses:
`TypeCorrect`, `KeysAreUnique`, `TornLineIsLast`, `AcknowledgedIsKept`, when writes are
never cut short `AcknowledgedIsDurable`, `LogKept`, `AppendsAreAtomic` and
`GenericRecordsAreReadable`.

None of the first four is inductive alone. That no key has two lines needs to know that a
writer about to write has found no such line *and that nobody has written since*;
hence `LockInv`, which says that a writer holds the flock exactly between the scan
and the close, and `CallInv`, which says for each place in between what the writer
has established: no line of that key and no torn tail before the write, its own line
last after it, all lines synced after the fsync, the entry synced before it returns.
A step of another writer cannot disturb `CallInv` since it is outside the critical
section; a power loss resets all writers. `AckedKept` is then what `CallInv` leaves
behind at `Return`, and only a cut of the unsynced part can follow.

`LogKept` is the refinement of `UniqueLog`. The log is what the readers get, the keys
of the lines before a torn tail (`KeyLog`). The first bytes of a line do not change it,
the last ones add a record, and so does a failing call that flushes; each is an `Add`
because the key is new (`UniqueKeys`) and not promised yet (`AckedKept`). A return after
a short write is a stutter, and a power loss leaves a prefix of the log that holds
all that was promised (`PowerLossView`).

`AppendsAreAtomic` says more of the steps between two power losses: the only thing a
reader can notice is one whole record at the end, and it is that of the writer that holds
the lock. It is the step that `RunDirectory` takes an append for. Two lemmas do the work:
a line that is begun behind a whole line is invisible (`BegunLine`), and one that is ended
becomes a record (`EndedLine`). `GenericRecordsAreReadable` is the other side of finding 1:
the early check of `append_json_record` keeps every record that its reader would refuse
away from the file, from the call on (`LengthInv`); `append_trial` has no such theorem.

`ServerRunnerProofs`, for any `MayHang`: `TypeCorrect`, `ServerIsStoppedLast`,
`NothingIsLeft`, `ClientIsInterruptedFirst`, `SupervisorKept` and `TeardownIsFinite`.
The invariant says where the runner can be in each stage (`PlaceInv`), that a group
without a leader is empty and that the server is sent nothing before its stage
(`GroupInv`), that at the second wait every member of the group has been sent SIGKILL,
so that a stage is left only with a released group (`ReleaseInv`), and why a client that
still runs is being stopped (`AskInv`, which has to remember the signal of the loop
through the stage after it).

`SupervisorKept`, here and in `ModelRunnerProofs`, is the refinement of `Supervisor`. At
its centre is that a group ages: no step makes a released group a started one again. A
step of the children cannot, since only a running leader forks; a step of the runner
cannot, since signals only add to `sent` (`GroupsAge`). What is left is to say which step
of `Supervisor` each step of the runner is (`LifeGoesOn`, `StepSupervised`). That needs
who was started at each place, and that a group which is being stopped was sent a signal
already, so that SIGKILL is no first signal (`TurnInv`). `TeardownIsFinite`, in both
modules, bounds the teardown: each step the runner takes in it decreases `StepsLeft`,
which begins at twelve or ten at most, and no child and no signal can change it. With the
fairness of the runner, which is TLC's part, that is what makes `Ends` true.

`AdapterProofs` and `LaunchCodexProofs`, from `AdapterAssumption` (finitely many
requests, each with a session) and `LaunchAssumption` (the numbers are naturals and
the least limit is positive), for any number of sessions, requests, slots, signals and
restarts: `TypeCorrect`, `AdapterStays`, `CatalogsStay`, `OneAnswer`, `LevelArrives`,
`SlotsAreCounted`,
`GatewayKept`, and of the levels themselves `LevelsAreDistinguished`: two levels of one
model never become the same template arguments. `LevelArrives` rests on what `translate`
does to a body it accepts, for every model, effort and set of template arguments
(`TranslateSelects`), and on that the payload of a handler past `Read` is that of its own
body (`LevelInv`). `OneAnswer` needs to know of a handler without an answer that it came
by way of `Unanswered` (`StatusInv`). At the centre of the others is `SlotInv`: the value
of a session's semaphore and the number of its requests between `Admit` and `Release`
add up to `Slots`. It is what bounds the requests at the model server, and each step of
a handler changes both sides by the same amount (`SlotTaken`, `SlotReturned`);
`SlotsAreCounted` is what a user has of it, no slot lost and none given back twice. For the
refinement one also needs to know that an open socket which is not registered has sent
nothing, and that behind a closed door all registered sockets are shut (`DoorInv`,
`ForwardInv`): only then does `Closed` leave nothing at the model server. `PlaceInv`
ties the place of the launcher to its Codex and its adapter, `CatalogInv` each catalog
to its name.

`ModelRunnerProofs`, without assumptions: `TypeCorrect`, `ReadyServerIsOwn`,
`NobodyLeft`, `ClientGoesFirst`, `ZeroIsTheClients`, `SupervisorKept` and
`TeardownIsFinite`. `ReadyIsOwn` is the subtle one.
While the probes run, the answers may come from somebody else, but only if the own
server has exited since `owns_listener`; `ProbeInv` says so, and the poll in `Confirm`
excludes it.

`CampaignProofs`, from `RunDirectoryAssumption` (schedules are nonempty sequences of
tasks, the outcomes are those of the code, `None` is none of the values it stands next
to), for any number of commands, tasks and invocations and any interrupts and kills:
`TypeCorrect`, `OneRun`, `GradedIsJournaled`, `FailureIsJournaled`, `CoverageComesFirst`,
`ReportStays`, `SavedIsKept`, `RecordsStayTrue`, and `ScoresAreFinal`, the refinement of
`TaskLedger`. The programs share
files and no lock, so the invariant must say what a program still knows of a file it
read some steps ago (`OwnInv`): that the coverage it checked still holds (`CoverInv`),
that the generation it grades is still there and allows the verdict in its memory
(`GradeInv`), that the report it computed is still the last word (`DraftInv`). All of
these survive because the other programs only add records, and only under a key that is
not there yet: that is what an append checks, and `KeyOnce` what it ensures. Two
properties need more. `RunInv` ties every program to the manifest and holds only while
two generations do not overlap; `OrphanInv` names the program that is still at work on
an artifact without a record, and a kill ends it. The order of a schedule enters once:
the task a program is at is one it still has to do (`FirstIsToDo`).

`SavedIsKept` says that what an attempt saved is neither made again nor overwritten by a
resume after a kill: the orphan that finding 2 complains of is at least left alone.
In the suites that compare hashes, `SavedInv` strengthens it on top of `IInv`: a program
that begins a task has found nothing saved, a hash on its way into the journal is that of
the file, so is every hash in the journal, and no file was written between its check and
its reading. The first of these is what a second generation could break, and `RunInv`
leaves room for one only (`Alone`). In terminal-bench, where verifiers change what they
grade, it is the exclusive creation of the trajectory that keeps what was saved from a
second attempt. `RecordsStayTrue` is what an evaluation has
of it: without overlapping generations no artifact differs from its record.
`GradedIsJournaled` puts both invariants together. A verdict is about the content that its
generation names (`Faithful`): the comparison sees to it, since a recorded answer is never
missing (`HasSaved`), and what is written behind the comparison needs two generations at
once, whose writes `raced` remembers.

`TransportProofs`, from `TransportAssumption` (the bounds are naturals, the timeouts are
positive, and two connection timeouts fit into the total), for an answer of any length:
`TypeCorrect`, `AnswersAreWhole`, `OneRequest`, `DeadlineIsKept`. That `got` is a
beginning of the answer is not inductive: one has to know what is still to come.
`OrderInv` says that the lines on the wire can be numbered so that each line of the
answer has the number after that of the line before it, comments and parts repeat a
number, the numbers begin where `got` and `pending` end, and the last is `sent`. A write
appends a number (`WireGrows`), a read drops the first (`WireShrinks`), and the parity
of a number tells whether `pending` is empty (`AnswerLines`). At `[DONE]` the number is
that of the last line, so that `got` is everything. `TimeInv` bounds the limit of each
wait.

`OpenCodeRunnerProofs`, from `OpenCodeAssumption`, for any lines, limits and interrupts:
`TypeCorrect`, `PatchStays`, `NothingLeft`, `TrajectoryStays`, `LimitsAreKept` and
`TrajectoryStaysBounded`. `StopInv` joins the two
ways in which a patch can be final: an exit code of 0 is OpenCode's own, and a limit that
was reached has killed the container. `OrderInv` numbers what lies in the buffer and the
pipe together (`Way`), so that a `FillBuffer` changes nothing, and a line that is taken is
the one that was printed after the last saved one (`LineIsGenuine`); the numbers reach the
last printed line as long as the client relays. After the loop only the prefix remains.

`LimitsHold` is about counts and a sum over the saved lines. What a step needs to know of
them is what one more line does to them: `CountAppend` adds one to the number of lines of
its type, `TokensAppend` its tokens to the sum. The first is a fact about the cardinality
of a set of positions. The second is about a function defined by recursion, for which the
library's induction theorems cannot be used; it rests on `Least` instead, that a set of
numbers with a member has a least one (`WFMin`). Two functions that follow the recursion
agree, since there is no least number at which they do not (`SumsUnique`), and one exists
for each length (`SumsExist`). A line is taken only while nothing is reached, so that
every proper beginning of what was saved reaches nothing (`BeginningsOfAppend`), and the
line that reaches a limit decides the reason in the same step (`HandleKeepsLimits`).
`TrajectoryStaysBounded` draws the consequence: no trajectory has more lines, requests or
tool events than its limits.

Only model-checked: the liveness properties `CallEnds` (of `Journal` and of `Transport`),
`SessionEnds`, `Bounded` and `Ends` of the two kinds of runner, since TLAPS proves nothing
about fairness or `ENABLED`.

## Plan

1. Artifacts and power losses: `Campaign` with unsynced artifacts next to a synced
   journal.
2. `Preparation` and `Telemetry`; the statistics of the report as pure operators
   against reference definitions.

## What is not modelled

Contents of prompts and answers, formatting of reports, the validation of checked-in
JSON, the digest of a catalog, the content of streamed replies and tool calls, the
transport's non-streaming call and its cancellation check (the harness uses neither),
preflight's reading of `/proc` and `nvidia-smi`, the third-party evaluators and the
shell scripts that start the servers. The report over several run directories is one run
at a time. A terminal-bench verifier that outlives a killed evaluation is not followed
further. A SIGKILL of the server runner itself is left to Slurm, which kills the whole
job step.
