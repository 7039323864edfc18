----------------------------- MODULE UniqueLog -----------------------------
(***************************************************************************)
(* What a journal of benchmarks/state.py promises to the harness: a list   *)
(* of records with distinct keys that only grows, except that a power loss *)
(* may drop a tail nobody was told about.  A key is acknowledged when the  *)
(* append call that wrote it has returned; from then on the record stays.  *)
(***************************************************************************)
EXTENDS Naturals, Sequences

CONSTANT Keys

VARIABLES log,     \* the keys of the complete records, in file order
          acked    \* the keys whose append call returned normally

Present(l) == {l[i] : i \in 1..Len(l)}

Init == log = <<>> /\ acked = {}

Add(k) ==
    /\ k \notin Present(log)
    /\ log' = Append(log, k)
    /\ UNCHANGED acked

Acknowledge(k) ==
    /\ k \in Present(log)
    /\ acked' = acked \union {k}
    /\ UNCHANGED log

DropTail ==
    \E n \in 0..Len(log) :
        /\ log' = SubSeq(log, 1, n)
        /\ acked \subseteq Present(log')
        /\ UNCHANGED acked

Next ==
    \/ \E k \in Keys : Add(k) \/ Acknowledge(k)
    \/ DropTail

Spec == Init /\ [][Next]_<<log, acked>>
=============================================================================
