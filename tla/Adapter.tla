------------------------------ MODULE Adapter ------------------------------
(***************************************************************************)
(* responses_adapter of scripts/thinking.py: the loopback HTTP server that *)
(* the launcher keeps between one Codex and the model server.  A thread of *)
(* its own handles each request; the main thread opens the adapter and, on *)
(* the way out of the `with' block, closes it while those threads run.     *)
(***************************************************************************)
EXTENDS Thinking, Naturals, Sequences, FiniteSets

CONSTANTS
    Sessions,  \* launchers, each with an adapter of its own
    Requests,  \* HTTP requests of the Codex processes
    Home,      \* the session of a request
    Slots,     \* BoundedSemaphore(8)
    Model,     \* the model of the sessions, one that thinking.py knows
    Bodies,    \* what each request may post
    None

ASSUME AdapterAssumption ==
    /\ IsFiniteSet(Requests) /\ Home \in [Requests -> Sessions]
    /\ Slots \in Nat /\ Model \in Models

VARIABLES
    door,         \* each adapter, from "none" over "open" to "closed"; "gone": its process is
    free,         \* value of its semaphore
    connections,  \* requests whose upstream socket it has registered
    pc,           \* place of each request's handler
    sock,         \* upstream socket of the handler
    status,       \* the status lines sent for a request
    gone,         \* requests whose client has hung up or reads no more
    forwarded,    \* requests that were sent to the model server
    body,         \* what its client has posted
    payload       \* what its handler has made of that

data == <<body, payload>>

adapterVars == <<door, free, connections, pc, sock, status, gone, forwarded, data>>

AdapterInit ==
    /\ door = [s \in Sessions |-> "none"]
    /\ free = [s \in Sessions |-> Slots]
    /\ connections = {} /\ gone = {} /\ forwarded = {}
    /\ pc = [r \in Requests |-> "idle"]
    /\ sock = [r \in Requests |-> "none"]
    /\ status = [r \in Requests |-> <<>>]
    /\ body = [r \in Requests |-> None] /\ payload = [r \in Requests |-> None]

Of(s) == {r \in Requests : Home[r] = s}

\* A step of a handler, and one that does nothing else.
Place(r, from, to) == pc[r] = from /\ pc' = [pc EXCEPT ![r] = to]

Go(r, from, to) == Place(r, from, to) /\ UNCHANGED <<door, gone, data>>

Move(r, from, to) ==
    Go(r, from, to) /\ UNCHANGED <<free, connections, sock, status, forwarded>>

----------------------------------------------------------------------------
\* The client connects as long as the socket listens; serve_forever starts a thread.

Post(r) ==
    /\ door[Home[r]] \in {"open", "stopping", "stopped"}
    /\ Place(r, "idle", "backlog")
    /\ \E b \in Bodies[r] : body' = [body EXCEPT ![r] = b]
    /\ UNCHANGED <<door, free, connections, sock, status, gone, forwarded, payload>>

Accept(r) == door[Home[r]] \in {"open", "stopping"} /\ Move(r, "backlog", "post")

Disconnect(r) ==
    /\ pc[r] \notin {"idle", "done"}
    /\ gone' = gone \union {r}
    /\ UNCHANGED <<door, free, connections, pc, sock, status, forwarded, data>>

----------------------------------------------------------------------------
\* do_POST.

Answer(r, code) ==
    status' = [status EXCEPT ![r] = IF r \in gone THEN @ ELSE Append(@, code)]

Acquire(r) == free' = [free EXCEPT ![Home[r]] = @ - 1]

Admit(r) ==
    /\ free[Home[r]] > 0
    /\ Go(r, "post", "read")
    /\ Acquire(r)
    /\ UNCHANGED <<connections, sock, status, forwarded>>

\* Mutant: the slot is asked for inside the try block, whose finally clause gives it back.
RefusalReleases(r) ==
    /\ Go(r, "post", IF free[Home[r]] = 0 THEN "release" ELSE "done")
    /\ Answer(r, "404") \/ (free[Home[r]] = 0 /\ Answer(r, "503"))
    /\ UNCHANGED <<free, connections, sock, forwarded>>

\* Another path, or no slot is free.
Refuse(r) ==
    /\ Go(r, "post", "done")
    /\ Answer(r, "404") \/ (free[Home[r]] = 0 /\ Answer(r, "503"))
    /\ UNCHANGED <<free, connections, sock, forwarded>>

\* The body has arrived and translate accepts it.
Read(r) ==
    /\ Place(r, "read", "connect")
    /\ Acceptable(body[r], Model)
    /\ payload' = [payload EXCEPT ![r] = translate(body[r], Model)]
    /\ UNCHANGED <<door, free, connections, sock, status, gone, forwarded, body>>

Connect(r) ==
    /\ Go(r, "connect", "register")
    /\ sock' = [sock EXCEPT ![r] = "open"]
    /\ UNCHANGED <<free, connections, status, forwarded>>

\* Only the closing main thread holds the lock for more than one step.
Unlocked(s) == door[s] # "closing"

Stopping(s) == door[s] # "open"

\* Mutant: the socket is registered without a look at `stopping'.
RegisterBlindly(r) ==
    /\ Unlocked(Home[r])
    /\ Go(r, "register", "request")
    /\ connections' = connections \union {r}
    /\ UNCHANGED <<free, sock, status, forwarded>>

Register(r) ==
    /\ Unlocked(Home[r]) /\ ~Stopping(Home[r])
    /\ Go(r, "register", "request")
    /\ connections' = connections \union {r}
    /\ UNCHANGED <<free, sock, status, forwarded>>

Request(r) ==
    /\ sock[r] = "open"
    /\ Go(r, "request", "response")
    /\ forwarded' = forwarded \union {r}
    /\ UNCHANGED <<free, connections, sock, status>>

\* What has arrived can be read from a socket that was shut down since.
GetResponse(r) == Move(r, "response", "head")

\* end_headers sends the status of the model server.
SendHead(r) ==
    /\ Go(r, "head", "stream")
    /\ Answer(r, "upstream")
    /\ UNCHANGED <<free, connections, sock, forwarded>>

Chunk(r) == Move(r, "stream", "write")

Write(r) == Move(r, "write", "stream")

\* The reply ends, or the main thread has shut the socket down.
EndOfReply(r) == Move(r, "stream", "cleanup")

----------------------------------------------------------------------------
\* Its except clauses, and its finally clause.

\* Mutant: an error status is sent into a reply that has begun.
AlwaysTells(r) == TRUE

\* not started
MayTell(r) == pc[r] \notin {"stream", "write"}

Raise(r, from, code) ==
    /\ Go(r, from, IF from = "read" THEN "release" ELSE "cleanup")
    /\ IF MayTell(r) THEN Answer(r, code) ELSE UNCHANGED status
    /\ UNCHANGED <<free, connections, sock, forwarded>>

\* A header or the length is not accepted, the body is truncated, or translate raises.
Invalid(r) == Raise(r, "read", "400")

\* send_error raises UnicodeEncodeError, or no except clause is for the RecursionError.
Unanswered(r) == Move(r, "read", "release") /\ Muted(body[r], Model)

\* "Session is closing"
TooLate(r) == Unlocked(Home[r]) /\ Stopping(Home[r]) /\ Raise(r, "register", "502")

\* The model server refuses, fails, goes away or is silent for 180 seconds, the socket was
\* closed by the main thread, or the client sends nothing or takes nothing for 180 seconds.
Fail(r) ==
    /\ pc[r] \in {"head", "write"} => r \in gone
    /\ \E p \in {"read", "connect", "request", "response", "head", "stream", "write"} :
          Raise(r, p, "502")

Close(r) ==
    /\ Go(r, "cleanup", "discard")
    /\ sock' = [sock EXCEPT ![r] = IF @ = "open" THEN "shut" ELSE @]
    /\ UNCHANGED <<free, connections, status, forwarded>>

Discard(r) ==
    /\ Unlocked(Home[r])
    /\ Go(r, "discard", "release")
    /\ connections' = connections \ {r}
    /\ UNCHANGED <<free, sock, status, forwarded>>

Release(r) ==
    /\ Go(r, "release", "done")
    /\ free' = [free EXCEPT ![Home[r]] = @ + 1]
    /\ UNCHANGED <<connections, sock, status, forwarded>>

Handle(r) ==
    \/ Accept(r) \/ Admit(r) \/ Refuse(r) \/ Read(r) \/ Connect(r) \/ Register(r)
    \/ Request(r) \/ GetResponse(r) \/ SendHead(r) \/ Chunk(r) \/ Write(r) \/ EndOfReply(r)
    \/ Invalid(r) \/ Unanswered(r) \/ TooLate(r) \/ Fail(r) \/ Close(r) \/ Discard(r) \/ Release(r)

----------------------------------------------------------------------------
\* The main thread: the finally clause of responses_adapter, after stopping.set().

Door(s, from, to) == door[s] = from /\ door' = [door EXCEPT ![s] = to] /\ UNCHANGED data

\* shutdown() returns when serve_forever has left its loop.
Shutdown(s) ==
    /\ Door(s, "stopping", "stopped")
    /\ UNCHANGED <<free, connections, pc, sock, status, gone, forwarded>>

\* Requests of these are over: their client is cut off, or there is no thread any more.
Cut(cut) ==
    /\ pc' = [r \in Requests |-> IF r \in cut THEN "done" ELSE pc[r]]
    /\ gone' = gone \union cut

\* server_close() resets who was not accepted and joins no daemon thread; then the lock.
ServerClose(s) ==
    /\ Door(s, "stopped", "closing")
    /\ Cut({r \in Of(s) : pc[r] = "backlog"})
    /\ UNCHANGED <<free, connections, sock, status, forwarded>>

CloseConnection(s, r) ==
    /\ door[s] = "closing"
    /\ r \in connections /\ sock[r] = "open"
    /\ sock' = [sock EXCEPT ![r] = "shut"]
    /\ UNCHANGED <<door, free, connections, pc, status, gone, forwarded, data>>

\* The lock is released; the server thread, which has ended, is joined.
Closed(s) ==
    /\ \A r \in connections \intersect Of(s) : sock[r] # "open"
    /\ Door(s, "closing", "closed")
    /\ UNCHANGED <<free, connections, pc, sock, status, gone, forwarded>>

CloseAdapter(s) ==
    Shutdown(s) \/ ServerClose(s) \/ Closed(s) \/ \E r \in Of(s) : CloseConnection(s, r)

\* The process ends, its daemon threads and its sockets with it.
Vanish(s) ==
    /\ door' = [door EXCEPT ![s] = "gone"]
    /\ Cut({r \in Of(s) : pc[r] # "idle"})
    /\ sock' = [r \in Requests |-> IF r \in Of(s) /\ sock[r] = "open" THEN "shut" ELSE sock[r]]
    /\ connections' = connections \ Of(s)
    /\ UNCHANGED <<free, status, forwarded, data>>
----------------------------------------------------------------------------
Posts == UNION {Bodies[r] : r \in Requests}

AdapterTypeOK ==
    /\ door \in [Sessions -> {"none", "open", "stopping", "stopped", "closing", "closed", "gone"}]
    /\ free \in [Sessions -> 0..Slots]
    /\ connections \subseteq Requests /\ gone \subseteq Requests /\ forwarded \subseteq Requests
    /\ pc \in [Requests -> {"idle", "backlog", "post", "read", "connect", "register", "request",
                            "response", "head", "stream", "write", "cleanup", "discard",
                            "release", "done"}]
    /\ sock \in [Requests -> {"none", "open", "shut"}]
    /\ status \in [Requests -> Seq({"400", "404", "502", "503", "upstream"})]
    /\ body \in [Requests -> Posts \union {None}]
    /\ payload \in [Requests -> {translate(b, Model) : b \in Posts} \union {None}]

\* A client gets at most one status line, never an error in the middle of a reply, and it gets
\* one unless it hung up, the launcher's end cut it off or the handler has no answer to it.
AnsweredOnce ==
    \A r \in Requests :
        /\ Len(status[r]) <= 1
        /\ pc[r] = "done" /\ r \notin gone /\ ~Muted(body[r], Model) => Len(status[r]) = 1

\* Whoever's request reaches the model server, and whatever template arguments came with it:
\* the model will think at the level this client selected, or at the default, no effort is left
\* for the server to read otherwise, and all that is not about thinking arrives as it was sent.
SelectedLevelArrives ==
    \A r \in forwarded :
        LET sent == payload[r]
            kept == DOMAIN body[r].kwargs \ Controls
        IN  /\ Effort(body[r], Model) \in levels(Model)
            /\ TemplateLevel(Model, sent.kwargs) = Effort(body[r], Model)
            /\ sent.reasoning = body[r].reasoning \ {"effort"}
            /\ \A k \in kept : k \in DOMAIN sent.kwargs /\ sent.kwargs[k] = body[r].kwargs[k]

\* The promise to the model server: a session is over when its adapter has let go of all
\* connections, and a request is there as long as its socket is open.
Session ==
    [s \in Sessions |-> IF door[s] = "none" THEN "none"
                       ELSE IF door[s] \in {"closed", "gone"} THEN "ended" ELSE "open"]

Busy == {r \in forwarded : sock[r] = "open"}

Promise == INSTANCE Gateway WITH session <- Session, busy <- Busy, seen <- forwarded

ImplementsGateway == Promise!Spec
=============================================================================
