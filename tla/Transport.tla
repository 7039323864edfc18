------------------------------ MODULE Transport ------------------------------
(***************************************************************************)
(* One streaming call of benchmarks/transport.py: connect with bounded     *)
(* retries, send one request, read server-sent events line by line until   *)
(* [DONE], under a timeout for every wait of the socket and a deadline for *)
(* the whole.  The model server is the environment: it may refuse, stop at *)
(* any line, close or reset the connection.                                *)
(*                                                                         *)
(* Time is counted from the beginning of an attempt and passes only while  *)
(* the client waits, never past the end of the wait.                       *)
(***************************************************************************)
EXTENDS Naturals, SequencesExt

CONSTANTS
    Deltas,          \* how many events the answer has before [DONE]
    MaxRetries,      \* of the connection
    ConnectTimeout, ReadTimeout, TotalTimeout,
    Grain,           \* the least wait of a read, 0.1 s
    MaxLines,        \* max_response_bytes, in lines
    MaxParts,        \* bound: parts of one line before its end
    MaxComments      \* bound: lines beside the answer

ASSUME TransportAssumption ==
    /\ {Deltas, MaxRetries, MaxParts, MaxComments} \subseteq Nat
    /\ {ConnectTimeout, ReadTimeout, TotalTimeout, Grain, MaxLines} \subseteq Nat \ {0}
    /\ 2 * ConnectTimeout =< TotalTimeout

VARIABLES
    pc,        \* where the call is
    attempt,   \* connections tried
    clock,     \* time since this attempt began
    limit,     \* when the present wait of the socket is over
    wait,      \* how long a wait of the present readline may be
    pending,   \* event_data_lines
    got,       \* the events that were processed
    lines,     \* lines read
    dripped,   \* the present line came in parts (history)
    error,     \* the exception of a call that failed
    posted,    \* requests that were sent (history)
    server,    \* the other end of the connection
    wire,      \* what it sent and nobody has read
    sent,      \* how much of the answer that is
    parts,     \* parts sent of the present line
    comments   \* lines it sent beside the answer

request == <<attempt, posted>>
reading == <<pending, got, lines>>
timing == <<clock, limit, wait, dripped>>
remote == <<server, wire, sent, parts, comments>>
vars == <<pc, request, timing, reading, error, remote>>

Least(a, b) == IF a < b THEN a ELSE b
Greatest(a, b) == IF a < b THEN b ELSE a

Done == Deltas + 1

\* The lines of the answer: each event is a data line and an empty one.
Answer(i) == IF i % 2 = 1 THEN [kind |-> "data", event |-> (i + 1) \div 2]
             ELSE [kind |-> "empty", event |-> 0]

Other == [kind : {"comment", "malformed", "part"}, event : {0}]

Line == [kind : {"data"}, event : 1..Done] \union [kind : {"empty"}, event : {0}] \union Other

Fail(exception) ==
    /\ pc' = "failed"
    /\ error' = exception

----------------------------------------------------------------------------
Init ==
    /\ pc = "connect" /\ attempt = 1
    /\ clock = 0 /\ limit = ConnectTimeout /\ wait = 0 /\ dripped = FALSE
    /\ pending = <<>> /\ got = <<>> /\ lines = 0
    /\ error = "none" /\ posted = 0
    /\ server = "none" /\ wire = <<>> /\ sent = 0 /\ parts = 0 /\ comments = 0

\* Connected; the request goes out.
Connect ==
    /\ pc = "connect"
    /\ pc' = "head"
    /\ posted' = posted + 1
    /\ server' = "asked"
    /\ limit' = clock + ConnectTimeout
    /\ UNCHANGED <<attempt, clock, wait, dripped, reading, error, wire, sent, parts, comments>>

\* Refused or timed out: nothing was sent, the attempt is repeated after a pause.
ConnectFails ==
    /\ pc = "connect"
    /\ IF attempt <= MaxRetries
       THEN /\ attempt' = attempt + 1
            /\ clock' = 0 /\ limit' = ConnectTimeout
            /\ UNCHANGED <<pc, error>>
       ELSE Fail("TransportError") /\ UNCHANGED <<attempt, clock, limit>>
    /\ UNCHANGED <<posted, wait, dripped, reading, remote>>

Head200 ==
    /\ pc = "head" /\ server = "streaming"
    /\ pc' = "loop"
    /\ UNCHANGED <<request, timing, reading, error, remote>>

\* Mutant: an error of the response counts as an error of the connection.
HeadRetries ==
    /\ pc = "head" /\ server \in {"refused", "closed", "reset"}
    /\ IF attempt <= MaxRetries
       THEN /\ pc' = "connect" /\ attempt' = attempt + 1
            /\ clock' = 0 /\ limit' = ConnectTimeout
            /\ UNCHANGED error
       ELSE Fail("TransportError") /\ UNCHANGED <<attempt, clock, limit>>
    /\ UNCHANGED <<posted, wait, dripped, reading, remote>>

\* Another status, or no response at all: the request was sent, there is no retry.
HeadFails ==
    /\ pc = "head" /\ server \in {"refused", "closed", "reset"}
    /\ Fail(IF server = "refused" THEN "ModelRequestError" ELSE "OSError")
    /\ UNCHANGED <<request, timing, reading, remote>>

HeadExpires ==
    /\ pc = "head" /\ server = "asked" /\ clock = limit
    /\ Fail("TimeoutError")
    /\ UNCHANGED <<request, timing, reading, remote>>

----------------------------------------------------------------------------
\* The loop over lines.

TotalExpires ==
    /\ pc = "loop" /\ clock > TotalTimeout
    /\ Fail("StreamTimeoutError")
    /\ UNCHANGED <<request, timing, reading, remote>>

\* Mutant: the timeout of the socket stays what it was.
StaticTimeout ==
    /\ pc = "loop" /\ clock =< TotalTimeout
    /\ pc' = "read"
    /\ wait' = ReadTimeout
    /\ dripped' = FALSE
    /\ limit' = clock + wait'
    /\ UNCHANGED <<request, clock, reading, error, remote>>

\* "Dynamic read timeout to not overshoot deadline"
StartRead ==
    /\ pc = "loop" /\ clock =< TotalTimeout
    /\ pc' = "read"
    /\ wait' = Least(ReadTimeout, Greatest(Grain, TotalTimeout - clock))
    /\ dripped' = FALSE
    /\ limit' = clock + wait'
    /\ UNCHANGED <<request, clock, reading, error, remote>>

\* A part of a line ends a wait of the socket, not the readline, which waits again.
ReadPart ==
    /\ pc = "read" /\ wire # <<>> /\ Head(wire).kind = "part"
    /\ wire' = Tail(wire)
    /\ limit' = clock + wait
    /\ dripped' = TRUE
    /\ UNCHANGED <<pc, request, clock, wait, reading, error, server, sent, parts, comments>>

\* An empty line ends an event; two data lines without one make no JSON.
EndEvent ==
    /\ lines' = lines + 1
    /\ CASE pending = <<>> -> pc' = "loop" /\ UNCHANGED <<pending, got, error>>
         [] pending = <<Done>> -> pc' = "done" /\ pending' = <<>> /\ UNCHANGED <<got, error>>
         [] Len(pending) > 1 -> Fail("StreamMalformedError") /\ UNCHANGED <<pending, got>>
         [] OTHER -> /\ pc' = "loop"
                     /\ got' = got \o pending /\ pending' = <<>>
                     /\ UNCHANGED error

ReadLine ==
    /\ pc = "read" /\ wire # <<>> /\ Head(wire).kind # "part"
    /\ wire' = Tail(wire)
    /\ LET line == Head(wire) IN
       CASE lines >= MaxLines -> Fail("ResponseTooLargeError") /\ UNCHANGED reading
         [] lines < MaxLines /\ line.kind = "empty" -> EndEvent
         [] lines < MaxLines /\ line.kind = "malformed" ->
                Fail("StreamMalformedError") /\ UNCHANGED reading
         [] OTHER -> /\ pc' = "loop" /\ lines' = lines + 1
                     /\ pending' = IF line.kind = "data" THEN Append(pending, line.event)
                                   ELSE pending
                     /\ UNCHANGED <<got, error>>
    /\ UNCHANGED <<request, timing, server, sent, parts, comments>>

\* Mutant: the end of the connection ends the answer.
EndIsDone ==
    /\ pc = "read" /\ wire = <<>> /\ server = "closed"
    /\ IF pending = <<>> THEN pc' = "done" /\ UNCHANGED error
       ELSE Fail("StreamMalformedError")
    /\ UNCHANGED <<request, timing, reading, remote>>

\* The end of the connection before [DONE], in a line, an event or between two events.
EndOfStream ==
    /\ pc = "read" /\ wire = <<>> /\ server = "closed"
    /\ Fail("StreamMalformedError")
    /\ UNCHANGED <<request, timing, reading, remote>>

ReadBreaks ==
    /\ pc = "read" /\ wire = <<>> /\ server = "reset"
    /\ Fail("TransportError")
    /\ UNCHANGED <<request, timing, reading, remote>>

\* Mutant: only a server that has not said anything is given up.
ReadExpiresFirst ==
    /\ pc = "read" /\ wire = <<>> /\ server = "streaming" /\ clock = limit
    /\ lines = 0
    /\ Fail("StreamTimeoutError")
    /\ UNCHANGED <<request, timing, reading, remote>>

ReadExpires ==
    /\ pc = "read" /\ wire = <<>> /\ server = "streaming" /\ clock = limit
    /\ Fail("StreamTimeoutError")
    /\ UNCHANGED <<request, timing, reading, remote>>

Client ==
    \/ Connect \/ ConnectFails \/ Head200 \/ HeadFails \/ HeadExpires
    \/ TotalExpires \/ StartRead \/ ReadPart \/ ReadLine
    \/ EndOfStream \/ ReadBreaks \/ ReadExpires

----------------------------------------------------------------------------
\* The model server and the clock.

local == <<pc, request, timing, reading, error>>

Respond ==
    /\ server = "asked"
    /\ server' \in {"streaming", "refused"}
    /\ UNCHANGED <<local, wire, sent, parts, comments>>

Send(line) ==
    /\ server = "streaming"
    /\ wire' = Append(wire, line)
    /\ UNCHANGED <<local, server>>

SendLine ==
    /\ sent < 2 * Done
    /\ Send(Answer(sent + 1))
    /\ sent' = sent + 1 /\ parts' = 0
    /\ UNCHANGED comments

SendOther ==
    /\ comments < MaxComments /\ parts = 0
    /\ \E line \in Other : line.kind # "part" /\ Send(line)
    /\ comments' = comments + 1
    /\ UNCHANGED <<sent, parts>>

SendPart ==
    /\ parts < MaxParts /\ sent < 2 * Done
    /\ Send([kind |-> "part", event |-> 0])
    /\ parts' = parts + 1
    /\ UNCHANGED <<sent, comments>>

Close ==
    /\ server \in {"asked", "streaming"}
    /\ server' \in {"closed", "reset"}
    /\ UNCHANGED <<local, wire, sent, parts, comments>>

Tick ==
    /\ \/ pc \in {"connect", "head"}
       \/ pc = "read" /\ wire = <<>>
    /\ clock < limit
    /\ clock' = clock + 1
    /\ UNCHANGED <<pc, request, limit, wait, dripped, reading, error, remote>>

Next == Client \/ Respond \/ SendLine \/ SendOther \/ SendPart \/ Close \/ Tick

Spec == Init /\ [][Next]_vars

\* The client goes on, and a wait that nothing ends expires.
Fairness == WF_vars(Client) /\ WF_vars(Tick)

FairSpec == Spec /\ Fairness

----------------------------------------------------------------------------
TypeOK ==
    /\ pc \in {"connect", "head", "loop", "read", "done", "failed"}
    /\ attempt \in 1..MaxRetries + 1
    /\ {clock, limit, wait, lines, posted} \subseteq Nat
    /\ pending \in Seq(1..Done) /\ got \in Seq(1..Deltas)
    /\ error \in {"none", "TransportError", "ModelRequestError", "OSError", "TimeoutError",
                  "StreamTimeoutError", "StreamMalformedError", "ResponseTooLargeError"}
    /\ server \in {"none", "asked", "streaming", "refused", "closed", "reset"}
    /\ wire \in Seq(Line) /\ dripped \in BOOLEAN
    /\ sent \in 0..2 * Done /\ parts \in 0..MaxParts /\ comments \in 0..MaxComments

\* An answer that is returned is the whole answer: every event of it once, in order, and
\* the server had said that it was all.  A stream that ends anywhere before is an error.
OnlyWholeAnswers ==
    pc = "done" => got = [i \in 1..Deltas |-> i] /\ sent = 2 * Done

\* The model server is asked once for each attempt of a task, although connections are
\* tried again.  (_TransientConnectionError)
AskedOnce == posted =< 1

\* "Dynamic read timeout to not overshoot deadline": a call that reads goes on for no longer
\* than the total timeout and the least wait.  Only a line that comes in parts defeats it,
\* since the timeout of the socket begins anew with each of them.
DeadlineKept == pc \in {"loop", "read"} /\ ~dripped => clock =< TotalTimeout + Grain

\* Every call ends, though the server may go silent anywhere.
CallEnds == <>(pc \in {"done", "failed"})
===============================================================================
