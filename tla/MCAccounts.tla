----------------------------- MODULE MCAccounts -----------------------------
(* Small instances of Accounts, and of Sessions in it, for TLC.            *)
EXTENDS Accounts, TLC

CONSTANTS u1

Symmetry == Permutations(Tokens)

\* Bound: once a session is handed out, only the account of one user changes.
OneAccount ==
    used # {} => \A u \in Users \ {u1} : /\ file[u] = NoRole /\ builtin[u] = NoRole
                                         /\ u \notin space
=============================================================================
