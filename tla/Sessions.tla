------------------------------ MODULE Sessions ------------------------------
(***************************************************************************)
(* Browser sessions (app/session_store.py), the accounts they belong to    *)
(* (app/user_store.py) and the handlers that use both.                     *)
(*                                                                         *)
(* The dictionary in memory is the truth while the process runs; the file  *)
(* sessions.json is its backup, replaced atomically and as a whole.  A     *)
(* failed save is logged and swallowed.  Each use of a session moves its   *)
(* expiry, but the file is only written when the gain since the last save  *)
(* exceeds a debounce interval.  The handlers run on the event loop and do *)
(* not await, so each is one step; only a crash can fall between two       *)
(* writes of one of them.  Tokens stand for their hashes.                  *)
(***************************************************************************)
EXTENDS Naturals

CONSTANTS
    Tokens,    \* session tokens that logins hand out, each once
    Users,     \* user names
    Roles,     \* "read", "write", "admin"
    NoRole,    \* the role of a name that has no account
    NoUser,    \* no name
    TTL,       \* KIWIKI_SESSION_TTL_SECONDS
    Debounce,  \* _SESSION_SAVE_DEBOUNCE_SECONDS
    MaxTime,   \* bound: time that passes in a behaviour
    MaxFaults  \* bound: failed saves, failed loads and crashes in a behaviour

ASSUME SessionsAssumption ==
    /\ NoRole \notin Roles /\ NoUser \notin Users
    /\ TTL \in Nat \ {0} /\ Debounce \in Nat
    /\ MaxTime \in Nat /\ MaxFaults \in Nat

VARIABLES
    clock,    \* the time
    account,  \* account[u]: role of user u, from KIWIKI_USERS and users.yaml
    memory,   \* _sessions: per token a session or NoSession
    disk,     \* sessions.json: the same
    loaded,   \* has this process read sessions.json?
    revoking, \* the user just deleted whose sessions are about to be revoked
    used,     \* history: tokens handed out
    revoked,  \* history: tokens a logout, deletion or role change revoked
    unsaved,  \* history: did the last save fail?
    lost,     \* history: did a crash hit while the last save had failed?
    faults    \* number of faults so far

vars == <<clock, account, memory, disk, loaded, revoking, used, revoked, unsaved, lost,
          faults>>

Session(user, role, exp, saved) ==
    [user |-> user, role |-> role, exp |-> exp, saved |-> saved]
NoSession == Session(NoUser, NoRole, 0, 0)

Times == 0..(MaxTime + TTL)

\* saved is persisted_expires_at, the expiry the file is known to hold.
SessionSet == [user : Users \cup {NoUser}, role : Roles \cup {NoRole},
               exp : Times, saved : Times]

TypeOK ==
    /\ clock \in 0..MaxTime
    /\ account \in [Users -> Roles \cup {NoRole}]
    /\ memory \in [Tokens -> SessionSet] /\ disk \in [Tokens -> SessionSet]
    /\ loaded \in BOOLEAN
    /\ revoking \in Users \cup {NoUser}
    /\ used \subseteq Tokens /\ revoked \subseteq Tokens
    /\ unsaved \in BOOLEAN /\ lost \in BOOLEAN
    /\ faults \in 0..MaxFaults

Nobody == [t \in Tokens |-> NoSession]

Init ==
    /\ clock = 0
    /\ account \in [Users -> Roles \cup {NoRole}]
    /\ memory = Nobody /\ disk = Nobody
    /\ loaded = FALSE
    /\ revoking = NoUser
    /\ used = {} /\ revoked = {}
    /\ unsaved = FALSE /\ lost = FALSE
    /\ faults = 0

-----------------------------------------------------------------------------
(* session_store.                                                           *)

\* Every session with the marker that its expiry is on disk.
Marked(s) ==
    [t \in Tokens |-> Session(s[t].user, s[t].role, s[t].exp, s[t].exp)]

\* The operation leaves s in memory and does not save.
Keeps(s) ==
    /\ memory' = s
    /\ loaded' = TRUE
    /\ UNCHANGED <<disk, unsaved, faults>>

\* The operation leaves s in memory and ends with _save_to_disk, which may fail.
\* earlier: what an earlier save of the same operation may have written; the file
\* may also be replaced and its chmod fail.
Saves(s, earlier) ==
    /\ loaded' = TRUE
    /\ \/ /\ memory' = Marked(s) /\ disk' = Marked(s)
          /\ unsaved' = FALSE
          /\ UNCHANGED faults
       \/ /\ faults < MaxFaults
          /\ faults' = faults + 1
          /\ memory' = s
          /\ disk' \in {disk} \cup {Marked(e) : e \in {s} \cup earlier}
          /\ unsaved' = TRUE

NoHistory == UNCHANGED <<used, revoked>>

StoreOnly == UNCHANGED <<clock, account, revoking, lost>>

\* _load_from_disk, which every operation begins with; the lookup of a token that
\* is no session does nothing else.  Expired entries are dropped and the file is
\* then rewritten.
Load ==
    LET live == [t \in Tokens |-> IF disk[t].exp > clock THEN disk[t] ELSE NoSession]
    IN  /\ ~loaded
        /\ IF live = disk THEN Keeps(live) ELSE Saves(live, {})
        /\ NoHistory
        /\ StoreOnly

\* The file cannot be read or has an entry that is none: only the sessions before
\* it are loaded, if any, and the file stays until the next save replaces it.
LoadFails ==
    /\ ~loaded
    /\ faults < MaxFaults
    /\ faults' = faults + 1
    /\ \E S \in SUBSET Tokens :
          memory' = [t \in Tokens |-> IF t \in S /\ disk[t].exp > clock THEN disk[t]
                                      ELSE NoSession]
    /\ loaded' = TRUE
    /\ UNCHANGED <<disk, unsaved>>
    /\ NoHistory
    /\ StoreOnly

Without(S) == [t \in Tokens |-> IF t \in S THEN NoSession ELSE memory[t]]

Expired == {t \in Tokens : memory[t] # NoSession /\ memory[t].exp < clock}

\* No deletion of a user is between its two writes.
Idle == revoking = NoUser

Serving == Idle /\ loaded

\* POST /login and create_session, which first removes what has expired.
Login(u, t) ==
    LET rest == Without(Expired)
        new  == Session(u, account[u], clock + TTL, 0)
    IN  /\ Serving
        /\ account[u] # NoRole
        /\ t \notin used
        /\ Saves([rest EXCEPT ![t] = new], IF Expired = {} THEN {} ELSE {rest})
        /\ used' = used \cup {t}
        /\ UNCHANGED revoked
        /\ StoreOnly

\* Mutant: the lifetime is added to the expiry instead of to the present.
RenewedFromExpiry(t) ==
    LET r == memory[t]
    IN  [memory EXCEPT ![t] = Session(r.user, r.role, r.exp + TTL, r.saved)]

\* The session after a use of token t.
Renewed(t) ==
    LET r == memory[t]
    IN  [memory EXCEPT ![t] = Session(r.user, r.role, clock + TTL, r.saved)]

\* Mutant: the gain is measured from the expiry in memory.
WorthSavingInMemory(t) == clock + TTL > memory[t].exp + Debounce

WorthSaving(t) == clock + TTL > memory[t].saved + Debounce

Valid(t) == memory[t] # NoSession /\ memory[t].exp >= clock

RoleUnchanged(t) == account[memory[t].user] = memory[t].role

\* lookup_session and the role check of get_current_user, WebAuthMiddleware and
\* _session_user: the request is served as the session's user.
Accept(t) ==
    /\ Serving
    /\ Valid(t) /\ RoleUnchanged(t)
    /\ IF WorthSaving(t) THEN Saves(Renewed(t), {}) ELSE Keeps(Renewed(t))
    /\ NoHistory
    /\ StoreOnly

\* The user is gone or has another role: the session is revoked.
RejectChanged(t) ==
    /\ Serving
    /\ Valid(t) /\ ~RoleUnchanged(t)
    /\ Saves(Without({t}), IF WorthSaving(t) THEN {Renewed(t)} ELSE {})
    /\ revoked' = revoked \cup {t}
    /\ UNCHANGED used
    /\ StoreOnly

RejectExpired(t) ==
    /\ Serving
    /\ t \in Expired
    /\ Saves(Without({t}), {})
    /\ NoHistory
    /\ StoreOnly

\* Mutant: the session is removed from memory only.
LogoutInMemory(t) ==
    /\ Serving
    /\ memory[t] # NoSession
    /\ Keeps(Without({t}))
    /\ revoked' = revoked \cup {t}
    /\ UNCHANGED used
    /\ StoreOnly

\* GET /logout, revoke_session.
Logout(t) ==
    /\ Serving
    /\ memory[t] # NoSession
    /\ Saves(Without({t}), {})
    /\ revoked' = revoked \cup {t}
    /\ UNCHANGED used
    /\ StoreOnly

-----------------------------------------------------------------------------
(* Accounts.                                                                *)

SessionsOnly == UNCHANGED <<clock, memory, disk, loaded, used, revoked, unsaved, lost,
                            faults>>

\* POST /api/users, once the workspace exists: create_local_user.
CreateUser(u, r) ==
    /\ Idle
    /\ account[u] = NoRole
    /\ account' = [account EXCEPT ![u] = r]
    /\ UNCHANGED revoking
    /\ SessionsOnly

\* users.yaml is edited or damaged by hand, a handler fails after it has written
\* it, or KIWIKI_USERS was changed for a restart.
ChangeAccounts ==
    /\ account' \in [Users -> Roles \cup {NoRole}]
    /\ UNCHANGED revoking
    /\ SessionsOnly

\* DELETE /api/users/{username}: delete_local_user ...
DeleteUser(u) ==
    /\ Idle
    /\ account[u] # NoRole
    /\ account' = [account EXCEPT ![u] = NoRole]
    /\ revoking' = u
    /\ SessionsOnly

\* ... then revoke_all_for_user.
RevokeAll ==
    LET mine == {t \in Tokens : memory[t].user = revoking}
    IN  /\ ~Idle /\ loaded
        /\ IF mine = {} THEN Keeps(memory) ELSE Saves(Without(mine), {})
        /\ revoking' = NoUser
        /\ revoked' = revoked \cup mine
        /\ UNCHANGED <<clock, account, used, lost>>

Tick ==
    /\ Idle
    /\ clock < MaxTime
    /\ clock' = clock + 1
    /\ UNCHANGED <<account, memory, disk, loaded, revoking, used, revoked, unsaved,
                   lost, faults>>

\* The process dies; the files survive.
Crash ==
    /\ faults < MaxFaults
    /\ faults' = faults + 1
    /\ memory' = Nobody /\ loaded' = FALSE
    /\ revoking' = NoUser
    /\ lost' = (lost \/ unsaved)
    /\ UNCHANGED <<clock, account, disk, used, revoked, unsaved>>

Next ==
    \/ \E u \in Users, t \in Tokens : Login(u, t)
    \/ \E t \in Tokens : \/ Accept(t) \/ RejectChanged(t) \/ RejectExpired(t)
                         \/ Logout(t)
    \/ \E u \in Users, r \in Roles : CreateUser(u, r)
    \/ ChangeAccounts
    \/ \E u \in Users : DeleteUser(u)
    \/ Load \/ LoadFails
    \/ RevokeAll
    \/ Tick
    \/ Crash

Spec == Init /\ [][Next]_vars

-----------------------------------------------------------------------------
(* Correctness.                                                             *)

\* A restart that can read the file costs a session at most the debounce interval
\* of its lifetime: as long as the last save went through, the file holds every
\* session, with an expiry that lags behind memory by at most Debounce, however
\* its uses are spaced.  (Many uses, each with a small gain, must not postpone the save.)
RestartKeepsSessions ==
    loaded /\ ~unsaved =>
        \A t \in Tokens : memory[t] # NoSession =>
            /\ disk[t].user = memory[t].user /\ disk[t].role = memory[t].role
            /\ memory[t].exp <= disk[t].exp + Debounce

\* A revoked session stays revoked across restarts, and no later save of another
\* session brings it back, unless a crash followed a failed save.
RevokedStaysRevoked == loaded /\ ~lost => \A t \in revoked : memory[t] = NoSession
=============================================================================
