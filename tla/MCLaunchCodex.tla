--------------------------- MODULE MCLaunchCodex ---------------------------
EXTENDS LaunchCodex, TLC

CONSTANTS s1, s2, s3, r1, r2

MCHome == [r \in Requests |-> s1]

Local == [scheme |-> "http", hostname |-> "127.0.0.1", plain |-> TRUE, path |-> "/v1", port |-> 8000]

Chat == [thinking |-> "low", check |-> FALSE, url |-> Local]

MCArgs == [s \in Sessions |-> Chat]

\* Two that chat, one of them at the default level, and one with --check.
MCOtherArgs == (s1 :> Chat) @@ (s2 :> [Chat EXCEPT !.thinking = Unset])
                @@ (s3 :> [Chat EXCEPT !.check = TRUE])

Advert(n, len, ctx) == [copies |-> n, max_model_len |-> len, n_ctx |-> ctx]

\* Servers that differ in their limit, one of which cannot be used.
MCAdverts == {Advert(1, 2, 0), Advert(1, 4, 3), Advert(1, 1, 0)}

MCUsable == {Advert(1, 2, 0)}

\* A level with an argument that contradicts it, the default against one that switches
\* thinking off, and an effort that cannot be quoted.
Low == [objects |-> TRUE, deep |-> FALSE, model |-> Model, effort |-> "low",
        kwargs |-> [low_effort |-> FALSE, other |-> TRUE], reasoning |-> {"summary", "effort"}]

Default == [Low EXCEPT !.effort = Unset, !.kwargs = [enable_thinking |-> FALSE],
                       !.reasoning = {"summary"}]

MCBodies == [r \in Requests |-> IF r = r1 THEN {Low, [Low EXCEPT !.effort = Foreign]} ELSE {Default}]
=============================================================================
