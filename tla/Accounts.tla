------------------------------ MODULE Accounts ------------------------------
(***************************************************************************)
(* Where the accounts come from that Sessions speaks of: KIWIKI_USERS and  *)
(* users.yaml (app/user_store.py), and the workspaces that are made for    *)
(* them (app/tenancy.py, app/main.py).                                     *)
(*                                                                         *)
(* Entries of KIWIKI_USERS hide entries of users.yaml with their name.     *)
(* users.yaml is replaced as a whole; when it cannot be read it counts as  *)
(* empty.  An account is created in two steps, first its workspace, then   *)
(* its entry; the process may die between them, and each may fail.  Keys   *)
(* are left out: a user has one, and no two users the same.                *)
(***************************************************************************)
EXTENDS Sessions

VARIABLES
    builtin, \* builtin[u]: role of u in KIWIKI_USERS
    file,    \* file[u]: role of u in users.yaml
    broken,  \* users.yaml is there but cannot be read
    space,   \* users with a directory
    making,  \* the user whose workspace is made and whose entry is not
    fresh,   \* did _init_user_workspace create the directory of that user?
    acked,   \* history: acked[u] is the role that POST /api/users confirmed
    owners   \* history: users who have had an account and used it

accountVars == <<builtin, file, broken, space, making, fresh, acked, owners>>
allVars == <<vars, accountVars>>

RoleMaps == [Users -> Roles \cup {NoRole}]

\* _load_local_users: what cannot be read is empty.
Local == IF broken THEN [u \in Users |-> NoRole] ELSE file

\* users_by_key.
Merged == [u \in Users |-> IF builtin[u] # NoRole THEN builtin[u] ELSE Local[u]]

AccountsTypeOK ==
    /\ TypeOK
    /\ builtin \in RoleMaps /\ file \in RoleMaps /\ broken \in BOOLEAN
    /\ space \subseteq Users /\ making \in Users \cup {NoUser} /\ fresh \in BOOLEAN
    /\ acked \in RoleMaps /\ owners \subseteq Users
    \* One handler at a time; the accounts are those of the two sources.
    /\ making # NoUser => Idle
    /\ account = Merged

AccountsInit ==
    /\ Init
    /\ builtin \in RoleMaps
    /\ file = [u \in Users |-> NoRole] /\ broken = FALSE
    /\ account = Merged
    /\ space = {} /\ making = NoUser /\ fresh = FALSE
    /\ acked = [u \in Users |-> NoRole] /\ owners = {}

\* The accounts follow a change of their sources.
Follows == account' = Merged' /\ ChangeAccounts

\* No handler is between its steps.
Quiet == Idle /\ making = NoUser

\* ensure_user_workspace.
Ensures(u) == space' = space \cup {u}

-----------------------------------------------------------------------------
(* Sessions, with what their handlers do to workspaces.                     *)

\* POST /login calls ensure_user_workspace.
Enters(u, t) ==
    /\ Quiet /\ Login(u, t)
    /\ Ensures(u)
    /\ owners' = owners \cup {u}
    /\ UNCHANGED <<builtin, file, broken, making, fresh, acked>>

\* The other steps of Sessions; revoking is a step of a handler, too.
SessionStep ==
    /\ making = NoUser
    /\ \/ \E t \in Tokens : Accept(t) \/ RejectChanged(t) \/ RejectExpired(t) \/ Logout(t)
       \/ Load \/ LoadFails \/ RevokeAll \/ Tick
    /\ UNCHANGED accountVars

\* GET /readyz makes the workspaces of all accounts, in a thread.
Ready(u) ==
    /\ account[u] # NoRole
    /\ Ensures(u)
    /\ UNCHANGED vars
    /\ UNCHANGED <<builtin, file, broken, making, fresh, acked, owners>>

-----------------------------------------------------------------------------
(* POST /api/users.                                                         *)

\* _check_user_collisions and _init_user_workspace.
BeginCreate(u) ==
    /\ Quiet /\ account[u] = NoRole
    /\ making' = u
    /\ fresh' = (u \notin space)
    /\ Ensures(u)
    /\ UNCHANGED vars
    /\ UNCHANGED <<builtin, file, broken, acked, owners>>

\* Mutant: the entries are those of users_by_key, without the hidden ones.
EntriesInForce == [u \in Users |-> IF builtin[u] # NoRole THEN NoRole ELSE Local[u]]

\* The entries that a handler reads to write them back with its change.
Entries == Local

\* _write_local_users.
Writes(f) == file' = f /\ broken' = FALSE

\* The answers that what is written keeps: all, unless the file was unreadable.
Kept == IF broken THEN [u \in Users |-> NoRole] ELSE acked

\* create_local_user: the account and its answer.
Persist(r) ==
    LET u == making
    IN  /\ u # NoUser /\ Local[u] = NoRole
        /\ Writes([Entries EXCEPT ![u] = r])
        /\ CreateUser(u, r)
        /\ acked' = [Kept EXCEPT ![u] = r]
        /\ owners' = owners \cup {u}
        /\ making' = NoUser
        /\ UNCHANGED <<builtin, space, fresh>>

\* Mutant: the workspace is removed whoever made it.
RollbackAlways == space \ {making}

\* _rollback_workspace, for a workspace that this creation made.
Rollback == IF fresh THEN space \ {making} ELSE space

\* create_local_user raises: the name was added by hand meanwhile, the file cannot
\* be written, or it was written and cannot be given its mode.
PersistFails ==
    /\ making # NoUser
    /\ \/ UNCHANGED <<file, broken, acked>>
       \/ /\ Local[making] = NoRole /\ account[making] = NoRole
          /\ \E r \in Roles : Writes([Entries EXCEPT ![making] = r])
          /\ acked' = Kept
    /\ space' = Rollback
    /\ making' = NoUser
    /\ UNCHANGED <<builtin, fresh, owners>>
    /\ Follows

-----------------------------------------------------------------------------
(* DELETE /api/users/{username}.                                            *)

Erases(u) ==
    /\ builtin[u] = NoRole /\ Local[u] # NoRole
    /\ Writes([Entries EXCEPT ![u] = NoRole])
    /\ acked' = [Kept EXCEPT ![u] = NoRole]
    /\ UNCHANGED <<builtin, space, making, fresh, owners>>

\* delete_local_user; RevokeAll follows.
Delete(u) == Quiet /\ DeleteUser(u) /\ Erases(u)

\* The file is replaced, then delete_local_user raises: no session is revoked.
DeleteFails(u) == Quiet /\ Erases(u) /\ Follows

-----------------------------------------------------------------------------
(* What happens to the sources from outside.                                *)

\* Somebody edits users.yaml, damages it, or repairs it.
Edit(u) ==
    /\ \/ /\ ~broken
          /\ \E r \in Roles \cup {NoRole} : file' = [file EXCEPT ![u] = r]
          /\ acked' = [acked EXCEPT ![u] = NoRole]
          /\ UNCHANGED broken
       \/ /\ broken' = ~broken
          /\ UNCHANGED <<file, acked>>
    /\ UNCHANGED <<builtin, space, making, fresh, owners>>
    /\ Follows

\* The process dies; the creation under way leaves its directory.  KIWIKI_USERS may
\* be another one when it is back, before the first request.
Dies ==
    /\ Crash
    /\ making' = NoUser
    /\ UNCHANGED <<builtin, file, broken, space, fresh, acked, owners>>

Reconfigure(u) ==
    /\ ~loaded /\ Quiet
    /\ \E r \in Roles \cup {NoRole} : builtin' = [builtin EXCEPT ![u] = r]
    /\ UNCHANGED <<file, broken, space, making, fresh, acked, owners>>
    /\ Follows

AccountsNext ==
    \/ \E u \in Users, t \in Tokens : Enters(u, t)
    \/ SessionStep
    \/ \E u \in Users : \/ Ready(u) \/ BeginCreate(u) \/ Delete(u) \/ DeleteFails(u)
                        \/ Edit(u) \/ Reconfigure(u)
    \/ \E r \in Roles : Persist(r)
    \/ PersistFails \/ Dies

AccountsSpec == AccountsInit /\ [][AccountsNext]_allVars

-----------------------------------------------------------------------------
(* Correctness.                                                             *)

\* A confirmed account is in users.yaml with its role until it is deleted or the
\* file is changed by hand, also while KIWIKI_USERS hides it, and whatever else is
\* created, deleted, fails or dies meanwhile; only a write while the file cannot be
\* read loses it.  The workspace of somebody who has had an account is never rolled
\* back, not even by the failed creation of a new account of that name.
AccountsKept ==
    /\ \A u \in Users : acked[u] # NoRole => file[u] = acked[u]
    /\ owners \subseteq space
=============================================================================
