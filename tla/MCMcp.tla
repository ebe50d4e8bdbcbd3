------------------------------- MODULE MCMcp -------------------------------
(* Small instances of Mcp for TLC.                                          *)
EXTENDS Mcp, TLC

\* Users, calls, sessions and jobs are interchangeable.
Symmetry == Permutations(Users) \cup Permutations(Calls) \cup Permutations(Streams)
              \cup Permutations(Jobs)

NoJobs    == \A j \in Jobs : job[j] = NoJob
NoHints   == reading = NoHint /\ \A u \in Users : text[u] = 0 /\ cache[u] = NoHint
NoStreams == \A s \in Streams : stream[s] = "new"

\* Bound: a behaviour uses one of jobs, instructions and sessions besides calls to
\* /mcp; the three have no variable in common, and sessions do not read the clock.
\* Two of the calls use the instructions, and no key is revoked then.
OneService ==
    \/ NoJobs /\ NoHints /\ clock = 0
    \/ NoStreams /\ NoHints
    \/ NoStreams /\ NoJobs /\ accounts = Users /\ \E c \in Calls : call[c] = NoCall
=============================================================================
