---------------------------- MODULE LaunchCodex ----------------------------
(***************************************************************************)
(* scripts/launch-codex.py: each session checks the endpoint, publishes a  *)
(* model catalog in the state directory its profile shares with other      *)
(* sessions, opens an adapter and keeps it for as long as its Codex runs.  *)
(* A terminal sends SIGINT, Slurm sends SIGTERM; after line 234 both raise *)
(* KeyboardInterrupt wherever the launcher happens to be.                  *)
(***************************************************************************)
EXTENDS Adapter, FiniteSetsExt

CONSTANTS
    Profile,       \* the context limit of the profile
    Args,          \* command lines: [thinking, check, url]; url is --base-url or the profile's
    Adverts,       \* what GET /models may list: [copies, max_model_len, n_ctx]
    MinContext,    \* 8192
    MaxRestarts,   \* bound: changes of the model server's configuration
    MaxSignals     \* bound: signals to one launcher

ASSUME LaunchAssumption ==
    /\ Profile \in Nat /\ MinContext \in Nat \ {0}
    /\ \A a \in Adverts : a.max_model_len \in Nat /\ a.n_ctx \in Nat
    /\ MaxRestarts \in Nat /\ MaxSignals \in Nat

VARIABLES
    launch,     \* place of its launcher
    context,    \* the context length it has settled on
    catalogs,   \* the state directory: the catalogs in it, by file name
    temps,      \* and the temporary files, by session
    child,      \* its Codex: not started, running, exited, reaped
    killed,     \* sessions whose Codex was sent SIGKILL
    abandoned,  \* sessions interrupted where nobody looks after Codex (history)
    advert,     \* what the model server lists now
    restarts,   \* how often that has changed
    signals     \* signals to each launcher so far

codex == <<child, killed, abandoned>>

files == <<context, catalogs, temps>>

world == <<advert, restarts>>

vars == <<adapterVars, launch, files, codex, world, signals>>

Absent == 0  \* the server lists no such limit

\* What Codex learns of the model from the catalog, and what from its command line.
model_catalog(limit) ==
    [slug |-> Model, default_reasoning_level |-> default_effort(Model),
     supported_reasoning_levels |-> levels(Model), context_window |-> limit]

codex_command(limit, effort, catalog) ==
    [model |-> Model, model_reasoning_effort |-> effort, model_context_window |-> limit,
     model_auto_compact_token_limit |-> (limit * 3) \div 4, model_catalog_json |-> catalog]

Init ==
    /\ AdapterInit
    /\ launch = [s \in Sessions |-> "arguments"]
    /\ context = [s \in Sessions |-> Profile]
    /\ catalogs = <<>>
    /\ temps = {}
    /\ child = [s \in Sessions |-> "none"]
    /\ killed = {}
    /\ abandoned = {}
    /\ advert \in Adverts
    /\ restarts = 0
    /\ signals = [s \in Sessions |-> 0]

Step(s, from, to) == launch[s] = from /\ launch' = [launch EXCEPT ![s] = to]

\* A step within main that touches nothing else.
Pass(s, from, to) ==
    Step(s, from, to) /\ UNCHANGED <<adapterVars, files, codex, world, signals>>

----------------------------------------------------------------------------
\* What is checked before anything is written.

\* `plain': no user, password, query or fragment.
validate_url(url) ==
    /\ url.scheme = "http" /\ url.hostname \in {"127.0.0.1", "localhost", "::1"}
    /\ url.plain /\ url.path = "/v1" /\ url.port >= 1

load_profile == Profile >= MinContext

InitialEffort(s) == IF Args[s].thinking = Unset THEN default_effort(Model) ELSE Args[s].thinking

CheckArguments(s) ==
    /\ load_profile
    /\ InitialEffort(s) \in levels(Model)
    /\ validate_url(Args[s].url)
    /\ Pass(s, "arguments", "inspect")

Limits(a) == {a.max_model_len, a.n_ctx} \ {Absent}

\* The model is listed once, and no limit is below 8192.
inspect_endpoint(a) == a.copies = 1 /\ \A limit \in Limits(a) : limit >= MinContext

\* The profile's limit is never raised.
Inspect(s) ==
    /\ inspect_endpoint(advert)
    /\ Step(s, "inspect", "write")
    /\ context' = [context EXCEPT ![s] = Min({Profile} \union Limits(advert))]
    /\ UNCHANGED <<adapterVars, catalogs, temps, codex, world, signals>>

----------------------------------------------------------------------------
\* write_catalog and --check.

\* Mutant: every session of the profile writes the same file.
OneName(limit) == 1

\* The name is a digest of the catalog, of which only the limit differs in one profile.
CatalogName(limit) == limit

WriteTemporary(s) ==
    /\ Step(s, "write", "replace")
    /\ temps' = temps \union {s}
    /\ UNCHANGED <<adapterVars, context, catalogs, codex, world, signals>>

Replace(s) ==
    /\ Step(s, "replace", IF Args[s].check THEN "verify" ELSE "enter")
    /\ LET path == CatalogName(context[s]) IN
       catalogs' = [name \in DOMAIN catalogs \union {path} |->
                       IF name = path THEN model_catalog(context[s]) ELSE catalogs[name]]
    /\ temps' = temps \ {s}
    /\ UNCHANGED <<adapterVars, context, codex, world, signals>>

Command(s) == codex_command(context[s], InitialEffort(s), CatalogName(context[s]))

\* Codex loads the catalog and lists this model with its levels.
Verified(s) ==
    /\ Pass(s, "verify", "exited")
    /\ LET loaded == catalogs[Command(s).model_catalog_json] IN
       loaded.slug = Model /\ loaded.supported_reasoning_levels = levels(Model)

\* Until there is an adapter, an error or a KeyboardInterrupt just ends the launcher.
Preparing == {"arguments", "inspect", "write", "replace", "verify", "enter"}

GiveUp(s) ==
    /\ \E place \in Preparing : Step(s, place, "exited")
    /\ temps' = temps \ {s}
    /\ UNCHANGED <<adapterVars, context, catalogs, codex, world, signals>>

----------------------------------------------------------------------------
\* The session: responses_adapter is entered, Codex runs, responses_adapter is left.

OpenAdapter(s) ==
    /\ Step(s, "enter", "popen")
    /\ Door(s, "none", "open")
    /\ UNCHANGED <<free, connections, pc, sock, status, gone, forwarded>>
    /\ UNCHANGED <<files, codex, world, signals>>

\* The with block is left: stopping.set().
Leave(s, from) ==
    /\ Step(s, from, "leave")
    /\ Door(s, "open", "stopping")
    /\ UNCHANGED <<free, connections, pc, sock, status, gone, forwarded>>
    /\ UNCHANGED <<files, world>>

PopenForks(s) ==
    /\ Step(s, "popen", "bind")
    /\ child' = [child EXCEPT ![s] = "running"]
    /\ UNCHANGED <<adapterVars, files, killed, abandoned, world, signals>>

PopenFails(s) == Leave(s, "popen") /\ UNCHANGED <<codex, signals>>

PopenReturns(s) == Pass(s, "bind", "wait")

Reap(s) ==
    /\ child[s] \in {"zombie", "reaped"}
    /\ child' = [child EXCEPT ![s] = "reaped"]
    /\ UNCHANGED <<killed, abandoned, signals>>

\* child.wait(), the first one and those of the except clause.
ChildEnded(s) ==
    /\ \E place \in {"wait", "grace", "reap"} : Step(s, place, "finally")
    /\ Reap(s)
    /\ UNCHANGED <<adapterVars, files, world>>

\* child.terminate(), which Codex may ignore.
Terminate(s) == Pass(s, "terminate", "grace")

Kill(s, from, to) ==
    /\ child[s] = "running"
    /\ Step(s, from, to)
    /\ killed' = killed \union {s}
    /\ UNCHANGED <<adapterVars, files, child, abandoned, world, signals>>

\* Mutant: child.wait() without a timeout.
NoTimeout(s) == child[s] # "running" /\ Pass(s, "grace", "finally")

\* child.wait(timeout=5) expires.
GraceExpires(s) == Kill(s, "grace", "reap")

\* Mutant: the finally clause relies on the except clause.
LeaveAtOnce(s) == Leave(s, "finally") /\ UNCHANGED <<codex, signals>>

\* The finally clause: poll() reaps, or finds Codex alive and kills it.
FoundEnded(s) == Leave(s, "finally") /\ Reap(s)

FoundAlive(s) == Kill(s, "finally", "last")

LastWait(s) == Leave(s, "last") /\ Reap(s)

\* The adapter is closed, sys.exit.
Exit(s) ==
    /\ door[s] = "closed"
    /\ Step(s, "leave", "exited")
    /\ Vanish(s)
    /\ UNCHANGED <<files, codex, world, signals>>

----------------------------------------------------------------------------
\* Signals, at any place.

Signal(s) ==
    /\ signals[s] < MaxSignals
    /\ signals' = [signals EXCEPT ![s] = @ + 1]

\* SIGTERM before its handler is installed: no cleanup at all.
TerminatedEarly(s) ==
    /\ Signal(s)
    /\ \E place \in Preparing \ {"enter"} : Step(s, place, "exited")
    /\ UNCHANGED <<adapterVars, files, codex, world>>

\* The except clause is entered, or left for the finally clause.
InterruptWait(s) ==
    /\ Signal(s)
    /\ \/ Step(s, "wait", "terminate")
       \/ \E place \in {"terminate", "grace", "reap"} : Step(s, place, "finally")
    /\ UNCHANGED <<adapterVars, files, codex, world>>

\* Popen has forked and `child' is not bound yet, or the finally clause itself is left.
InterruptOutside(s) ==
    /\ Signal(s)
    /\ \E place \in {"popen", "bind", "finally", "last"} : Leave(s, place)
    /\ abandoned' = IF child[s] \in {"none", "reaped"} THEN abandoned ELSE abandoned \union {s}
    /\ UNCHANGED <<child, killed>>

InterruptLeave(s) ==
    /\ Signal(s)
    /\ Step(s, "leave", "exited")
    /\ Vanish(s)
    /\ UNCHANGED <<files, codex, world>>

Interrupt(s) ==
    TerminatedEarly(s) \/ InterruptWait(s) \/ InterruptOutside(s) \/ InterruptLeave(s)

----------------------------------------------------------------------------
\* Codex and the model server.

\* Codex ends for whatever reason, and hangs up.
CodexEnds(s) ==
    /\ child[s] = "running"
    /\ child' = [child EXCEPT ![s] = "zombie"]
    /\ gone' = gone \union {r \in Of(s) : pc[r] \notin {"idle", "done"}}
    /\ UNCHANGED <<door, free, connections, pc, sock, status, forwarded, data>>
    /\ UNCHANGED <<launch, files, killed, abandoned, world, signals>>

CodexPosts(r) ==
    /\ child[Home[r]] = "running"
    /\ Post(r)
    /\ UNCHANGED <<launch, files, codex, world, signals>>

ServerRestarts ==
    /\ restarts < MaxRestarts
    /\ advert' \in Adverts
    /\ restarts' = restarts + 1
    /\ UNCHANGED <<adapterVars, launch, files, codex, signals>>

----------------------------------------------------------------------------
Handlers ==
    /\ \E r \in Requests : Handle(r) \/ Disconnect(r)
    /\ UNCHANGED <<launch, files, codex, world, signals>>

Closing(s) == CloseAdapter(s) /\ UNCHANGED <<launch, files, codex, world, signals>>

Launcher(s) ==
    \/ CheckArguments(s) \/ Inspect(s) \/ WriteTemporary(s) \/ Replace(s) \/ Verified(s)
    \/ GiveUp(s) \/ OpenAdapter(s) \/ PopenForks(s) \/ PopenFails(s) \/ PopenReturns(s)
    \/ ChildEnded(s) \/ Terminate(s) \/ GraceExpires(s) \/ FoundEnded(s) \/ FoundAlive(s)
    \/ LastWait(s) \/ Closing(s) \/ Exit(s)

Next ==
    \/ \E s \in Sessions : Launcher(s) \/ Interrupt(s) \/ CodexEnds(s)
    \/ \E r \in Requests : CodexPosts(r)
    \/ Handlers
    \/ ServerRestarts

Spec == Init /\ [][Next]_vars

KilledEnds(s) == s \in killed /\ CodexEnds(s)

\* The launcher is scheduled and Codex does not survive SIGKILL.  Nothing is assumed of the
\* model server, of the threads that handle requests or of Codex while it runs.
FairSpec == Spec /\ \A s \in Sessions : WF_vars(Launcher(s)) /\ WF_vars(KilledEnds(s))

----------------------------------------------------------------------------
LaunchTypeOK ==
    /\ advert \in Adverts
    /\ launch \in [Sessions -> {"arguments", "inspect", "write", "replace", "verify", "enter",
                                "popen", "bind", "wait", "terminate", "grace", "reap", "finally",
                                "last", "leave", "exited"}]
    /\ context \in [Sessions -> 0..Profile]
    /\ DOMAIN catalogs \subseteq MinContext..Profile
    /\ child \in [Sessions -> {"none", "running", "zombie", "reaped"}]
    /\ temps \subseteq Sessions /\ killed \subseteq Sessions /\ abandoned \subseteq Sessions
    /\ restarts \in 0..MaxRestarts /\ signals \in [Sessions -> 0..MaxSignals]

TypeOK == AdapterTypeOK /\ LaunchTypeOK

\* A catalog and a command line that tell Codex the same.
Agree(catalog, command) ==
    /\ catalog.slug = command.model
    /\ catalog.context_window = command.model_context_window
    /\ command.model_reasoning_effort \in catalog.supported_reasoning_levels

\* Codex finds in its catalog the limit its own launcher settled on, whatever other sessions
\* of the profile have found and written since; only a launcher that was killed leaves its
\* temporary file.  (write_catalog: "Content-addressed paths avoid races between sessions")
CatalogsIntact ==
    /\ \A s \in Sessions :
          child[s] = "running" \/ launch[s] = "verify" =>
              /\ Command(s).model_catalog_json \in DOMAIN catalogs
              /\ Agree(catalogs[Command(s).model_catalog_json], Command(s))
    /\ \A s \in temps : launch[s] = "replace" \/ signals[s] > 0

\* The requests that were admitted and have not given their slot back.
Admitted(s) == {r \in Of(s) : pc[r] \notin {"idle", "backlog", "post", "done"}}

\* As long as a session's process lives no slot of it is lost and none is made, whichever way
\* a request is refused, fails, is cut off or ends, and however late the session closes: what
\* is free and what is in use add up.  (BoundedSemaphore(8), acquire, the finally clause)
SlotsAddUp ==
    \A s \in Sessions :
        door[s] # "gone" => free[s] \in 0..Slots /\ free[s] + Cardinality(Admitted(s)) = Slots

\* Codex loses its adapter only when it has ended and is reaped, however often the launcher is
\* interrupted in between; the two places where an interrupt gets past are the exceptions.
AdapterOutlivesCodex ==
    \A s \in Sessions :
        door[s] \notin {"none", "open"} /\ s \notin abandoned => child[s] \in {"none", "reaped"}

\* A session whose Codex has ended, or whose launcher was interrupted, comes to its end,
\* though Codex may ignore SIGTERM and handlers may be stuck on a silent model server.
SessionEnds ==
    \A s \in Sessions : (child[s] = "zombie" \/ signals[s] > 0) ~> launch[s] = "exited"
=============================================================================
