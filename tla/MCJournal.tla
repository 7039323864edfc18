----------------------------- MODULE MCJournal -----------------------------
(* Two processes that append to one journal, three attempt ids of which one *)
(* has a record over the size limit.                                        *)
EXTENDS Journal, TLC

CONSTANTS w1, w2, k1, k2, k3

MCWriters == {w1, w2}
MCKeys == {k1, k2, k3}
MCOversized == {k3}
=============================================================================
