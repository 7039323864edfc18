----------------------------- MODULE MCCampaign -----------------------------
EXTENDS Campaign, TLC

CONSTANTS g1, g2, e1, e2, r1, t1, t2

MCAllTasks == <<t1, t2>>
MCPilotTasks == <<t2>>

\* Processes of one kind are interchangeable; RunId and Tasks are left alone.
Interchangeable == Permutations({g1, g2}) \union Permutations({e1, e2})
=============================================================================
