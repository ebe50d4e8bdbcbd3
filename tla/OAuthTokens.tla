---------------------------- MODULE OAuthTokens ----------------------------
(***************************************************************************)
(* Authorization codes and refresh tokens (app/mcp_server.py).             *)
(*                                                                         *)
(* A user who enters an API key gets a code; a code is exchanged, at most  *)
(* once and within its time, for an access and a refresh token; a refresh  *)
(* token is exchanged, at most once, for a new pair.  Codes and the ids of *)
(* spent refresh tokens are in memory only and have caps.  The tokens are  *)
(* signed and carry their data themselves: they survive a restart, and any *)
(* client may present any of them at any time.  All handlers await their   *)
(* form first and nothing after it, so each is one step.                   *)
(*                                                                         *)
(* Codes expire by the clock itself.  Tokens carry whole seconds and are   *)
(* compared with the clock rounded down, but the list of spent ids is      *)
(* pruned by the clock itself: time is counted in parts of a second.       *)
(*                                                                         *)
(* redirect_uri, resource and the PKCE verifier are checked against the    *)
(* code like the client id; a request that fails one of these is           *)
(* ExchangeRefused.  The resource of a token is bound like its client.     *)
(***************************************************************************)
EXTENDS Naturals, FiniteSets

CONSTANTS
    Keys,       \* API keys of users
    Clients,    \* client ids
    NoClient,   \* a request or token without client id
    Codes,      \* authorization codes, each handed out once
    NoCode,     \* the grant of a token that has not been issued
    Ids,        \* ids (jti) of refresh tokens, each issued once
    Second,     \* parts of a second that are told apart
    CodeTTL,    \* _OAUTH_CODE_TTL_SECONDS, in parts of a second
    RefreshTTL, \* _OAUTH_REFRESH_TOKEN_TTL_SECONDS
    MaxCodes,   \* _OAUTH_MAX_CODES
    MaxSeen,    \* _OAUTH_REFRESH_SEEN_MAX
    MaxTime     \* bound: time that passes in a behaviour, in parts of a second

ASSUME OAuthAssumption ==
    /\ NoClient \notin Clients /\ NoCode \notin Codes
    /\ Second \in Nat \ {0} /\ CodeTTL \in Nat /\ RefreshTTL \in Nat
    /\ MaxCodes \in Nat \ {0} /\ MaxSeen \in Nat
    /\ MaxTime \in Nat

VARIABLES
    now,       \* time.time()
    valid,     \* the API keys that parse_users() knows
    code,      \* code[c]: what _oauth_codes has for c
    token,     \* token[i]: the refresh token with id i that is in the world
    seen,      \* the ids in _oauth_refresh_seen
    used,      \* history: codes handed out so far
    owner,     \* owner[c]: the API key of code c and of the tokens it leads to
    spent,     \* history: ids of tokens that have been exchanged
    forgotten, \* history: ids that a restart or the cap removed from seen
    replayed   \* history: codes with a token that was exchanged twice

vars == <<now, valid, code, token, seen, used, owner, spent, forgotten, replayed>>

AnyClient == Clients \cup {NoClient}

CodeRecord(pending, client, expires) ==
    [client |-> client, expires |-> expires, pending |-> pending]
Gone == CodeRecord(FALSE, NoClient, 0)

\* The grant of a token is the code its chain of exchanges began with.  Its API
\* key is that of the grant.
Token(grant, client, exp) == [client |-> client, grant |-> grant, exp |-> exp]
Unissued == Token(NoCode, NoClient, 0)
Issued(i) == token[i].grant # NoCode

\* time.time() in whole seconds, and the expiry of a token as a point in time.
Seconds == now \div Second
Expiry(i) == token[i].exp * Second

TypeOK ==
    /\ now \in 0..MaxTime
    /\ valid \subseteq Keys
    /\ code \in [Codes -> [client : AnyClient, expires : Nat, pending : BOOLEAN]]
    /\ token \in [Ids -> [client : AnyClient, grant : Codes \cup {NoCode}, exp : Nat]]
    /\ used \subseteq Codes /\ \A c \in Codes : code[c].pending => c \in used
    /\ owner \in [Codes -> Keys]
    /\ spent \subseteq {i \in Ids : Issued(i)}
    /\ seen \subseteq spent /\ forgotten \subseteq spent
    /\ replayed \subseteq Codes

Init ==
    /\ now = 0
    /\ valid = Keys
    /\ code = [c \in Codes |-> Gone]
    /\ token = [i \in Ids |-> Unissued]
    /\ seen = {} /\ used = {}
    /\ owner \in [Codes -> Keys]
    /\ spent = {} /\ forgotten = {} /\ replayed = {}

-----------------------------------------------------------------------------
(* POST /oauth/authorize.                                                   *)

\* The records that _prune_oauth_codes keeps.
Fresh == {c \in Codes : code[c].pending /\ code[c].expires >= now}
Pruned == [c \in Codes |-> IF c \in Fresh THEN code[c] ELSE Gone]

Authorize(c, client) ==
    /\ c \notin used /\ owner[c] \in valid
    /\ Cardinality(Fresh) < MaxCodes
    /\ code' = [Pruned EXCEPT ![c] = CodeRecord(TRUE, client, now + CodeTTL)]
    /\ used' = used \cup {c}
    /\ UNCHANGED <<now, valid, token, seen, owner, spent, forgotten, replayed>>

\* 503: too many codes are pending.
AuthorizeFull ==
    /\ valid # {}
    /\ Cardinality(Fresh) >= MaxCodes
    /\ code' = Pruned
    /\ UNCHANGED <<now, valid, token, seen, used, owner, spent, forgotten, replayed>>

-----------------------------------------------------------------------------
(* POST /oauth/token with a code.                                           *)

Popped(c) == [code EXCEPT ![c] = Gone]

\* _make_oauth_token for a refresh token.
Issue(i, grant, client) ==
    /\ ~Issued(i)
    /\ token' = [token EXCEPT ![i] = Token(grant, client, Seconds + RefreshTTL)]

\* The client id is compared only when the code and the request have one.
ClientFits(c, client) ==
    code[c].client # NoClient /\ client # NoClient => client = code[c].client

\* Mutant: the API key of the code is not looked up again.
ExchangeTrustsCode(c, client, i) ==
    /\ code[c].pending /\ code[c].expires >= now
    /\ ClientFits(c, client)
    /\ code' = Popped(c)
    /\ Issue(i, c, client)
    /\ UNCHANGED <<now, valid, seen, used, owner, spent, forgotten, replayed>>

\* Mutant: the code is read and not popped.
ExchangeKeepsCode(c, client, i) ==
    /\ code[c].pending /\ code[c].expires >= now
    /\ ClientFits(c, client)
    /\ owner[c] \in valid
    /\ Issue(i, c, client)
    /\ UNCHANGED <<now, valid, code, seen, used, owner, spent, forgotten, replayed>>

Exchange(c, client, i) ==
    /\ code[c].pending /\ code[c].expires >= now
    /\ ClientFits(c, client)
    /\ owner[c] \in valid
    /\ code' = Popped(c)
    /\ Issue(i, c, client)
    /\ UNCHANGED <<now, valid, seen, used, owner, spent, forgotten, replayed>>

\* Expired, bound to something else, or of a removed key: the code is gone too.
ExchangeRefused(c) ==
    /\ code[c].pending
    /\ code' = Popped(c)
    /\ UNCHANGED <<now, valid, token, seen, used, owner, spent, forgotten, replayed>>

-----------------------------------------------------------------------------
(* POST /oauth/token with a refresh token.                                  *)

\* _signed_token_record and the binding to the client.
Accepted(i, client) ==
    /\ Issued(i)
    /\ token[i].exp >= Seconds
    /\ owner[token[i].grant] \in valid
    /\ token[i].client # NoClient => client = token[i].client

\* Mutant: an id is dropped in the last moment before its expiry.
UnexpiredShort == {i \in seen : Expiry(i) > now}

\* What _prune_oauth_refresh_seen may keep: the ids that have not expired, of
\* these the MaxSeen that expire last.  Python breaks ties by age, here any may go.
Unexpired == {i \in seen : Expiry(i) >= now}
MayKeep ==
    {K \in SUBSET Unexpired :
        /\ IF Cardinality(Unexpired) <= MaxSeen
           THEN K = Unexpired ELSE Cardinality(K) = MaxSeen
        /\ \A i \in K, j \in Unexpired \ K : token[j].exp <= token[i].exp}

\* Mutant: the id of the new token is remembered in place of the spent one.
RefreshRecordsNew(i, client, j) ==
    /\ Accepted(i, client)
    /\ \E K \in MayKeep :
         /\ i \notin K
         /\ seen' = K \cup {j}
         /\ forgotten' = forgotten \cup (Unexpired \ K)
    /\ Issue(j, token[i].grant, token[i].client)
    /\ spent' = spent \cup {i}
    /\ replayed' = IF i \in spent THEN replayed \cup {token[i].grant} ELSE replayed
    /\ UNCHANGED <<now, valid, code, used, owner>>

Refresh(i, client, j) ==
    /\ Accepted(i, client)
    /\ \E K \in MayKeep :
         /\ i \notin K
         /\ seen' = K \cup {i}
         /\ forgotten' = forgotten \cup (Unexpired \ K)
    /\ Issue(j, token[i].grant, token[i].client)
    /\ spent' = spent \cup {i}
    /\ replayed' = IF i \in spent THEN replayed \cup {token[i].grant} ELSE replayed
    /\ UNCHANGED <<now, valid, code, used, owner>>

\* The id has been seen: invalid_grant, after the pruning.
RefreshRefused(i, client) ==
    /\ Accepted(i, client)
    /\ \E K \in MayKeep :
         /\ i \in K
         /\ seen' = K
         /\ forgotten' = forgotten \cup (Unexpired \ K)
    /\ UNCHANGED <<now, valid, code, token, used, owner, spent, replayed>>

-----------------------------------------------------------------------------
(* The surroundings.                                                        *)

\* An API key is rotated or its account deleted.
Revoke(k) ==
    /\ valid' = valid \ {k}
    /\ UNCHANGED <<now, code, token, seen, used, owner, spent, forgotten, replayed>>

\* The process ends and starts: what is in memory only is gone.
Restart ==
    /\ code' = [c \in Codes |-> Gone]
    /\ seen' = {}
    /\ forgotten' = forgotten \cup seen
    /\ UNCHANGED <<now, valid, token, used, owner, spent, replayed>>

Tick ==
    /\ now < MaxTime
    /\ now' = now + 1
    /\ UNCHANGED <<valid, code, token, seen, used, owner, spent, forgotten, replayed>>

Next ==
    \/ \E c \in Codes, client \in AnyClient :
         \/ Authorize(c, client)
         \/ \E i \in Ids : Exchange(c, client, i)
    \/ AuthorizeFull
    \/ \E c \in Codes : ExchangeRefused(c)
    \/ \E i \in Ids, client \in AnyClient :
         \/ \E j \in Ids : Refresh(i, client, j)
         \/ RefreshRefused(i, client)
    \/ \E k \in Keys : Revoke(k)
    \/ Restart
    \/ Tick

Spec == Init /\ [][Next]_vars

-----------------------------------------------------------------------------
(* Properties.                                                              *)

\* Reuse of a refresh token is noticed while its expiry has not been reached,
\* unless a restart or the cap on remembered ids has intervened: a spent id is in
\* _oauth_refresh_seen as long as the pruning and the expiry check must agree.
SpentIsRemembered ==
    \A i \in spent \ forgotten : Expiry(i) >= now => i \in seen

\* The rotation does not multiply access: of all refresh tokens that descend from
\* one authorization code at most one can still be exchanged, however codes,
\* exchanges, retries and restarts interleave, unless a spent one was honoured.
OneTokenPerGrant ==
    \A i, j \in Ids \ spent :
        Issued(i) /\ Issued(j) /\ token[i].grant = token[j].grant =>
            i = j \/ token[i].grant \in replayed

\* An API key that has been removed gets nothing more: neither a code handed out
\* before the removal nor a refresh token is exchanged ("API-key rotation to
\* revoke access", README).
RevokedKeyGetsNothing ==
    [][\A i \in Ids : ~Issued(i) /\ Issued(i)' => owner[token'[i].grant] \in valid]_vars
=============================================================================
