------------------------------ MODULE Journal ------------------------------
(***************************************************************************)
(* One JSON-lines journal of benchmarks/state.py and the processes that    *)
(* append to it.  trials.jsonl is written by append_trial ("trial"),       *)
(* generations.jsonl by append_json_record ("generic"); both take an       *)
(* exclusive flock, scan the file, write one line, fsync the file and then *)
(* its directory.  The model keeps every step of that protocol, because a  *)
(* process can be killed and the node can lose power between any two.      *)
(*                                                                         *)
(* The file is a sequence of lines.  A line is whole when its terminator   *)
(* is there: that is all the readers look at.  What is on disk lags behind *)
(* what the page cache shows: the first `synced' lines are safe, the rest  *)
(* may be cut anywhere by a power loss, and until the directory entry is   *)
(* synced the whole file may vanish.                                       *)
(***************************************************************************)
EXTENDS Naturals, Sequences

CONSTANTS
    Writers,        \* processes that append to this journal
    NoWriter,       \* nobody holds the lock
    Keys,           \* attempt ids
    Oversized,      \* keys whose record is longer than MAX_TRIAL_RECORD_BYTES
    DiskMayFill,    \* os.write may accept only part of a record
    MaxCalls,       \* bound: append calls in a behaviour
    MaxPowerLosses  \* bound: power losses in a behaviour

ASSUME JournalAssumption ==
    /\ NoWriter \notin Writers
    /\ Oversized \subseteq Keys
    /\ DiskMayFill \in BOOLEAN
    /\ MaxCalls \in Nat
    /\ MaxPowerLosses \in Nat

VARIABLES
    kind,    \* which append function this journal is written with
    file,    \* the lines as a reader of the file sees them
    synced,  \* how many of them are known to be on disk
    linked,  \* the directory entry of the file is known to be on disk
    lock,    \* the writer that holds the flock
    pc,      \* where each writer stands in its append call
    arg,     \* the attempt id of its record
    acked,   \* attempt ids whose append call returned (history)
    calls,   \* append calls so far
    losses   \* power losses so far

vars == <<kind, file, synced, linked, lock, pc, arg, acked, calls, losses>>

Line == [key : Keys, whole : BOOLEAN]

\* The places at which a writer holds the lock, in the order of the code.
Holding == {"scan", "write", "writing", "fsync", "fsyncdir", "return"}

----------------------------------------------------------------------------
\* What the scan under the lock, and every reader, looks for.

EndsTorn == file # <<>> /\ ~file[Len(file)].whole

HasKey(k) == \E i \in 1..Len(file) : file[i].key = k

HasOversized == \E i \in 1..Len(file) : file[i].key \in Oversized

\* read_trials and read_json_records return the records before a torn tail.
Returned == IF EndsTorn THEN SubSeq(file, 1, Len(file) - 1) ELSE file

Release(w) ==
    /\ lock' = IF lock = w THEN NoWriter ELSE lock
    /\ pc' = [pc EXCEPT ![w] = "idle"]

Step(w, from, to) ==
    /\ pc[w] = from
    /\ pc' = [pc EXCEPT ![w] = to]

----------------------------------------------------------------------------
Init ==
    /\ kind \in {"trial", "generic"}
    /\ file = <<>>
    /\ synced = 0
    /\ linked = FALSE
    /\ lock = NoWriter
    /\ pc = [w \in Writers |-> "idle"]
    /\ arg \in [Writers -> Keys]
    /\ acked = {}
    /\ calls = 0
    /\ losses = 0

\* append_json_record refuses an oversized record at once; append_trial has no such check.
Call(w, k) ==
    /\ calls < MaxCalls
    /\ kind = "generic" => k \notin Oversized
    /\ Step(w, "idle", "lock")
    /\ arg' = [arg EXCEPT ![w] = k]
    /\ calls' = calls + 1
    /\ UNCHANGED <<kind, file, synced, linked, lock, acked, losses>>

AcquireLock(w) ==
    /\ lock = NoWriter
    /\ Step(w, "lock", "scan")
    /\ lock' = w
    /\ UNCHANGED <<kind, file, synced, linked, arg, acked, calls, losses>>

\* Mutant: the scan does not look for the attempt id.
NoDuplicateCheck(w) == EndsTorn \/ HasOversized

\* Mutant: the scan does not look at the last line.
NoTornCheck(w) == HasKey(arg[w]) \/ HasOversized

Rejected(w) == EndsTorn \/ HasKey(arg[w]) \/ HasOversized

\* Mutant: the descriptor of the scan, and with it the lock, is closed before the write.
ScanUnlocks(w) ==
    /\ ~Rejected(w)
    /\ Step(w, "scan", "write")
    /\ lock' = NoWriter
    /\ UNCHANGED <<kind, file, synced, linked, arg, acked, calls, losses>>

\* The scan finds nothing against the record.
ScanAccepts(w) ==
    /\ ~Rejected(w)
    /\ Step(w, "scan", "write")
    /\ UNCHANGED <<kind, file, synced, linked, lock, arg, acked, calls, losses>>

\* Mutant: the descriptor is not closed when the scan raises.
ScanKeepsLock(w) ==
    /\ Rejected(w)
    /\ Step(w, "scan", "idle")
    /\ UNCHANGED <<kind, file, synced, linked, lock, arg, acked, calls, losses>>

\* ContractError: the finally clause closes the descriptor and with it the lock.
ScanRejects(w) ==
    /\ pc[w] = "scan"
    /\ Rejected(w)
    /\ Release(w)
    /\ UNCHANGED <<kind, file, synced, linked, arg, acked, calls, losses>>

\* Mutant: the file is opened with O_TRUNC.
OpenTruncates(w) ==
    /\ Step(w, "write", "writing")
    /\ file' = <<[key |-> arg[w], whole |-> FALSE]>>
    /\ UNCHANGED <<kind, synced, linked, lock, arg, acked, calls, losses>>

\* The first bytes of the line reach the file (O_APPEND).
BeginWrite(w) ==
    /\ Step(w, "write", "writing")
    /\ file' = Append(file, [key |-> arg[w], whole |-> FALSE])
    /\ UNCHANGED <<kind, synced, linked, lock, arg, acked, calls, losses>>

EndWrite(w) ==
    /\ Step(w, "writing", "fsync")
    /\ file' = [file EXCEPT ![Len(file)].whole = TRUE]
    /\ UNCHANGED <<kind, synced, linked, lock, arg, acked, calls, losses>>

\* append_json_record drops the count os.write returns and goes on.
ShortWrite(w) ==
    /\ DiskMayFill
    /\ kind = "generic"
    /\ Step(w, "writing", "fsync")
    /\ UNCHANGED <<kind, file, synced, linked, lock, arg, acked, calls, losses>>

\* Mutant: flush without fsync.
FlushOnly(w) ==
    /\ Step(w, "fsync", "fsyncdir")
    /\ UNCHANGED <<kind, file, synced, linked, lock, arg, acked, calls, losses>>

Fsync(w) ==
    /\ Step(w, "fsync", "fsyncdir")
    /\ synced' = Len(file)
    /\ UNCHANGED <<kind, file, linked, lock, arg, acked, calls, losses>>

\* Mutant: the directory is not synced.
NoDirectoryFsync(w) ==
    /\ Step(w, "fsyncdir", "return")
    /\ UNCHANGED <<kind, file, synced, linked, lock, arg, acked, calls, losses>>

FsyncDirectory(w) ==
    /\ Step(w, "fsyncdir", "return")
    /\ linked' = TRUE
    /\ UNCHANGED <<kind, file, synced, lock, arg, acked, calls, losses>>

Return(w) ==
    /\ pc[w] = "return"
    /\ Release(w)
    /\ acked' = acked \union {arg[w]}
    /\ UNCHANGED <<kind, file, synced, linked, arg, calls, losses>>

\* The call raises (OSError, KeyboardInterrupt) or its process is killed: either
\* way the descriptor is closed, the lock goes with it and the lines stay.
Abort(w) ==
    /\ pc[w] # "idle"
    /\ Release(w)
    /\ UNCHANGED <<kind, file, synced, linked, arg, acked, calls, losses>>

\* append_trial raises with the record in its BufferedWriter: leaving the with
\* statement flushes the buffer, so the record is written although the call fails.
AbortFlushes(w) ==
    /\ kind = "trial"
    /\ pc[w] \in {"write", "writing"}
    /\ Release(w)
    /\ file' = IF pc[w] = "writing" THEN [file EXCEPT ![Len(file)].whole = TRUE]
                ELSE Append(file, [key |-> arg[w], whole |-> TRUE])
    /\ UNCHANGED <<kind, synced, linked, arg, acked, calls, losses>>

----------------------------------------------------------------------------
\* The node loses power and comes back: every process is gone, the disk holds the
\* synced lines and some of the others, the last of which may be cut short.

Cut(n) == Append(SubSeq(file, 1, n - 1), [file[n] EXCEPT !.whole = FALSE])

OnDisk ==
    {SubSeq(file, 1, n) : n \in synced..Len(file)}
    \union {Cut(n) : n \in synced + 1..Len(file)}
    \union (IF linked THEN {} ELSE {<<>>})

PowerLoss ==
    /\ losses < MaxPowerLosses
    /\ losses' = losses + 1
    /\ file' \in OnDisk
    /\ synced' = Len(file')
    /\ linked' = (linked \/ file' # <<>>)
    /\ lock' = NoWriter
    /\ pc' = [w \in Writers |-> "idle"]
    /\ UNCHANGED <<kind, arg, acked, calls>>

----------------------------------------------------------------------------
Proceed(w) ==
    \/ AcquireLock(w)
    \/ ScanAccepts(w)
    \/ ScanRejects(w)
    \/ BeginWrite(w)
    \/ EndWrite(w)
    \/ ShortWrite(w)
    \/ Fsync(w)
    \/ FsyncDirectory(w)
    \/ Return(w)

Fail(w) == Abort(w) \/ AbortFlushes(w)

Next ==
    \/ \E w \in Writers : (\E k \in Keys : Call(w, k)) \/ Proceed(w) \/ Fail(w)
    \/ PowerLoss

\* A live process keeps executing, and flock wakes a waiter once the lock is free.
\* Nothing is assumed about failures.
Fairness == \A w \in Writers : WF_vars(Proceed(w))

Spec == Init /\ [][Next]_vars

FairSpec == Spec /\ Fairness

----------------------------------------------------------------------------
TypeOK ==
    /\ kind \in {"trial", "generic"}
    /\ file \in Seq(Line)
    /\ synced \in 0..Len(file)
    /\ linked \in BOOLEAN
    /\ lock \in Writers \union {NoWriter}
    /\ pc \in [Writers -> Holding \union {"idle", "lock"}]
    /\ arg \in [Writers -> Keys]
    /\ acked \subseteq Keys
    /\ calls \in 0..MaxCalls
    /\ losses \in 0..MaxPowerLosses

\* No attempt id has two lines, whole or torn, whatever interleaving of writers,
\* kills and power losses came before: the duplicate check and the write are one
\* critical section.  (append_trial, append_json_record)
UniqueKeys ==
    \A i, j \in 1..Len(file) : file[i].key = file[j].key => i = j

\* A torn line is the last line of the file, so a reader takes it for an interrupted
\* append and never meets invalid JSON in the middle.  (read_trials, read_json_records)
OnlyTailTorn ==
    \A i \in 1..Len(file) : file[i].whole \/ i = Len(file)

\* Every write of a call is complete before its fsync: append_trial writes through
\* a BufferedWriter, which goes on until the whole record is written or raises.
WritesComplete == kind = "trial" \/ ~DiskMayFill

\* A record whose append returned is on disk, in a file that is on disk: no kill and
\* no power loss takes it back.  Its line is whole, unless append_json_record ignored
\* a short write; then it is the torn tail that stops every later append, and is never
\* lost without a trace.  (the two fsyncs of both append functions)
AckedKept ==
    \A k \in acked :
        /\ linked
        /\ \E i \in 1..synced :
               /\ file[i].key = k
               /\ file[i].whole \/ (i = Len(file) /\ ~WritesComplete)

\* A record whose append returned is a whole line on disk ("Append a generic fsynced
\* JSON object", append_json_record).
AckedDurable ==
    \A k \in acked :
        /\ linked
        /\ \E i \in 1..synced : file[i].key = k /\ file[i].whole

\* Until the power fails, all that a reader can notice between two looks at the file is one
\* whole record more, of the writer that holds the lock: nobody sees a part of an append, an
\* append of a call that does not hold the lock, or a record that is gone.  RunDirectory takes
\* an append for such a step.  (append_trial, append_json_record and the two readers)
AppendIsAtomic ==
    [][losses' = losses =>
          \/ Returned' = Returned
          \/ \E w \in Writers :
                 /\ lock = w
                 /\ Returned' = Append(Returned, [key |-> arg[w], whole |-> TRUE])]_vars

\* What an append call accepted, the readers accept: they never refuse a record for
\* its length.  (read_trials limits a line to MAX_TRIAL_RECORD_BYTES)
AcceptedIsReadable ==
    \A i \in 1..Len(Returned) : Returned[i].key \notin Oversized

----------------------------------------------------------------------------
\* The parts of the inductive invariant (JournalProofs).

\* Mutual exclusion: to hold the flock is to be between the scan and the close.
LockInv == \A w \in Writers : pc[w] \in Holding <=> lock = w

\* What a writer inside the critical section may rely on.
CallInv(w) ==
    /\ pc[w] = "write" => ~EndsTorn /\ ~HasKey(arg[w])
    /\ pc[w] \in {"writing", "fsync", "fsyncdir", "return"} =>
           file # <<>> /\ file[Len(file)].key = arg[w]
    /\ pc[w] = "writing" => synced < Len(file) /\ ~file[Len(file)].whole
    /\ pc[w] \in {"fsync", "fsyncdir", "return"} =>
           (WritesComplete => file[Len(file)].whole)
    /\ pc[w] \in {"fsyncdir", "return"} => synced = Len(file)
    /\ pc[w] = "return" => linked

\* The early check of append_json_record: nothing oversized gets near a generic journal.
LengthInv ==
    kind = "generic" =>
        /\ \A w \in Writers : pc[w] # "idle" => arg[w] \notin Oversized
        /\ ~HasOversized

IInv ==
    /\ TypeOK
    /\ LockInv
    /\ UniqueKeys
    /\ OnlyTailTorn
    /\ \A w \in Writers : CallInv(w)
    /\ AckedKept

----------------------------------------------------------------------------
\* The journal implements the log the harness relies on: the records a reader gets
\* appear once, in order, and only a tail that was never acknowledged can go.
Log == INSTANCE UniqueLog WITH
           log <- [i \in 1..Len(Returned) |-> Returned[i].key],
           acked <- {k \in acked : \E i \in 1..Len(Returned) : Returned[i].key = k}

ImplementsUniqueLog == Log!Spec

\* A process that waits for the lock gets an answer: every append call ends, even
\* when the calls before it raised or their processes were killed.
CallEnds ==
    \A w \in Writers : pc[w] # "idle" ~> pc[w] = "idle"
=============================================================================
