----------------------------- MODULE MCPollWriter -----------------------------
(* PollWriter on two feeds with two contents each, across one midnight.    *)
EXTENDS PollWriter, TLC

CONSTANTS f1, f2, a, b

MCFeeds == {f1, f2}
MCDigests == {a, b}

\* Feeds and contents are interchangeable; no property of a run names one.
Symmetric == Permutations(MCFeeds) \cup Permutations(MCDigests)

=============================================================================
