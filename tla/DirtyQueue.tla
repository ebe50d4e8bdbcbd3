----------------------------- MODULE DirtyQueue -----------------------------
(***************************************************************************)
(* What the knowledge queue promises, whatever its table looks like: a     *)
(* path once marked stays dirty until an execution that STARTS after the   *)
(* mark takes it; an execution that ends badly or never ends gives its     *)
(* path back, unless it is given up and reported as failed.  In particular *)
(* a mark that arrives while the path is being executed survives the end   *)
(* of that execution.                                                      *)
(***************************************************************************)
CONSTANT Paths

VARIABLES
    dirty,   \* paths that some execution still to be started must refresh
    busy,    \* paths taken by the execution under way
    failed   \* paths given up until they are marked again

qvars == <<dirty, busy, failed>>

Init == dirty = {} /\ busy = {} /\ failed = {}

Mark(p) ==
    /\ dirty' = dirty \cup {p}
    /\ failed' = failed \ {p}
    /\ UNCHANGED busy

Take(S) ==
    /\ S # {} /\ S \subseteq dirty
    /\ busy = {}
    /\ dirty' = dirty \ S
    /\ busy' = S
    /\ UNCHANGED failed

Done(p) ==
    /\ p \in busy
    /\ busy' = busy \ {p}
    /\ UNCHANGED <<dirty, failed>>

Retry(p) ==
    /\ p \in busy
    /\ busy' = busy \ {p}
    /\ dirty' = dirty \cup {p}
    /\ UNCHANGED failed

GiveUp(p) ==
    /\ p \in busy \ dirty
    /\ busy' = busy \ {p}
    /\ failed' = failed \cup {p}
    /\ UNCHANGED dirty

\* The execution dies: what it had taken is dirty again.
Die ==
    /\ busy # {}
    /\ busy' = {}
    /\ dirty' = dirty \cup busy
    /\ UNCHANGED failed

Finish == \E p \in Paths : Done(p) \/ Retry(p) \/ GiveUp(p)

Next ==
    \/ \E p \in Paths : Mark(p)
    \/ \E S \in SUBSET Paths : Take(S)
    \/ Finish
    \/ Die

Spec == Init /\ [][Next]_qvars

\* Dirty paths are taken sooner or later, and executions end.
Fairness ==
    /\ WF_qvars(\E S \in SUBSET Paths : Take(S))
    /\ WF_qvars(Finish \/ Die)
=============================================================================
