----------------------------- MODULE MCTransport -----------------------------
(* A call in which every timeout can be the one that ends it: a connection   *)
(* takes one unit of time at most, a read two, the least wait is one.        *)
EXTENDS Transport

MCConnectTimeout == 1
MCReadTimeout == 2
MCGrain == 1
=============================================================================
