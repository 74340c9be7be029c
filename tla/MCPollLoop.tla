------------------------------ MODULE MCPollLoop ------------------------------
(* PollLoop for model checking: two feeds of an agency with a rate limit,   *)
(* polled at different intervals, and one of another agency.                *)
EXTENDS PollLoop

CONSTANTS f1, f2, f3, limited, other

ThreeFeeds == {f1, f2, f3}

Agencies == [f \in {f1, f2, f3} |-> IF f = f3 THEN other ELSE limited]

\* The intervals of the configuration differ by up to two orders of magnitude.
Intervals == [f \in Feeds |-> IF f = f1 THEN 1 ELSE IF f = f2 THEN 2 ELSE 6]

OneClient == {limited}
LimitedAgencies == {limited}

=============================================================================
