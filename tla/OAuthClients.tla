---------------------------- MODULE OAuthClients ----------------------------
(***************************************************************************)
(* Dynamic client registration (POST /oauth/register) and the redirect     *)
(* check of the authorization form (app/mcp_server.py), composed with the  *)
(* codes and tokens of OAuthTokens.                                        *)
(*                                                                         *)
(* A registration prunes both tables, checks the cap on clients and the    *)
(* cap of its source, then awaits the request body, and only then enters   *)
(* the client and books itself to the source: with the list of bookings    *)
(* that it read before the await.  Everything else is one step.            *)
(*                                                                         *)
(* A redirect URI is a value that _is_valid_redirect_uri accepts; the ones *)
(* whose host is on the whitelist (or loopback) are Trusted.  A client id  *)
(* that is the URL of a metadata document is never registered.             *)
(***************************************************************************)
EXTENDS OAuthTokens, Sequences, SequencesExt

CONSTANTS
    Uris,         \* redirect URIs
    Trusted,      \* the ones with an allowed host, _redirect_host_is_allowed
    Sources,      \* addresses that registrations come from
    Requests,     \* registrations that can be in progress at a time
    ClientTTL,    \* _OAUTH_CLIENT_TTL_SECONDS, in parts of a second
    Window,       \* _OAUTH_REGISTER_PER_IP_WINDOW, in parts of a second
    MaxClients,   \* _OAUTH_MAX_CLIENTS
    MaxPerSource, \* _OAUTH_REGISTER_PER_IP_MAX
    MaxSources    \* _OAUTH_REGISTER_SOURCES_MAX

ASSUME ClientsAssumption ==
    /\ Trusted \subseteq Uris
    /\ ClientTTL \in Nat /\ Window \in Nat /\ ClientTTL >= Window
    /\ MaxClients \in Nat \ {0} /\ MaxPerSource \in Nat /\ MaxSources \in Nat

VARIABLES
    registered, \* registered[c]: what _oauth_clients has for c
    hits,       \* hits[s]: _oauth_register_hits of s; <<>> is no entry
    waiting,    \* waiting[r]: a registration that awaits its body
    origin,     \* history: source and booking time of the client ids handed out
    peak,       \* history: how many registrations have waited at the same time
    excused     \* history: sources with two registrations waiting at the same
                \* time, or forgotten by the cap on sources

clientVars == <<registered, hits, waiting, origin, peak, excused>>

ClientRecord(uris, expires) == [uris |-> uris, expires |-> expires]
NotRegistered == ClientRecord({}, 0)

\* A registration in progress: its source, the bookings it read, and their time.
Suspended(source, read, at) == [source |-> source, read |-> read, at |-> at, active |-> TRUE]
Idle == [active |-> FALSE]

Listed == {c \in Clients : registered[c] # NotRegistered}
Waiting == {r \in Requests : waiting[r].active}

ClientsInit ==
    /\ Init
    /\ registered = [c \in Clients |-> NotRegistered]
    /\ hits = [s \in Sources |-> <<>>]
    /\ waiting = [r \in Requests |-> Idle]
    /\ origin = <<>>
    /\ peak = 0 /\ excused = {}

-----------------------------------------------------------------------------
(* The redirect check, on the form and on its submission.                   *)

Overdue(c) == c \in Listed /\ registered[c].expires < now

\* _is_registered_redirect: an unknown, missing or expired client id has the
\* redirects of the whitelist, a registered one its own and no other.
MayRedirect(id, uri) ==
    IF id \in Listed /\ ~Overdue(id) THEN uri \in registered[id].uris
                                     ELSE uri \in Trusted

\* It also drops the registration it has found expired.
LooksUp(id) ==
    /\ registered' = IF Overdue(id) THEN [registered EXCEPT ![id] = NotRegistered]
                                    ELSE registered
    /\ UNCHANGED <<hits, waiting, origin, peak, excused>>

\* GET /oauth/authorize, or a submission refused for its redirect, PKCE or resource.
ShowForm(id) == Overdue(id) /\ LooksUp(id) /\ UNCHANGED vars

SubmitForm(id) ==
    /\ \E uri \in Uris : MayRedirect(id, uri)
    /\ AuthorizeFull \/ \E c \in Codes : Authorize(c, id)
    /\ LooksUp(id)

-----------------------------------------------------------------------------
(* POST /oauth/register.                                                    *)

\* _prune_oauth_clients
CurrentClients ==
    [c \in Clients |-> IF Overdue(c) THEN NotRegistered ELSE registered[c]]

\* _prune_oauth_register_hits: bookings of the window, of at most MaxSources
\* sources; the ones whose last booking is oldest go.  Bookings are appended in the
\* order of time, so that the ones of the window are the last ones.
InWindow(bookings) ==
    LET first == SelectInSeq(bookings, LAMBDA at : at + Window > now)
    IN  IF first = 0 THEN <<>> ELSE SubSeq(bookings, first, Len(bookings))
Active == {s \in Sources : InWindow(hits[s]) # <<>>}
KeptSources ==
    {K \in SUBSET Active :
        /\ IF Cardinality(Active) <= MaxSources
           THEN K = Active ELSE Cardinality(K) = MaxSources
        /\ \A s \in K, t \in Active \ K : Last(hits[t]) <= Last(hits[s])}
CurrentHits(K) == [s \in Sources |-> IF s \in K THEN InWindow(hits[s]) ELSE <<>>]

\* 503: too many clients; the bookings are not looked at.
RegisterFull ==
    /\ Cardinality(Listed \ {c \in Clients : Overdue(c)}) >= MaxClients
    /\ registered' = CurrentClients
    /\ UNCHANGED <<hits, waiting, origin, peak, excused>>

Prunes(K) ==
    /\ Cardinality(Listed \ {c \in Clients : Overdue(c)}) < MaxClients
    /\ registered' = CurrentClients
    /\ hits' = CurrentHits(K)

\* 429: too many registrations of this source.
RegisterThrottled(s) ==
    \E K \in KeptSources :
        /\ Prunes(K)
        /\ Len(CurrentHits(K)[s]) >= MaxPerSource
        /\ excused' = excused \cup (Active \ K)
        /\ UNCHANGED <<waiting, origin, peak>>

\* Both caps allow it; the bookings are read and the body is awaited.
RegisterBegin(r, s) ==
    \E K \in KeptSources :
        /\ r \notin Waiting
        /\ Prunes(K)
        /\ Len(CurrentHits(K)[s]) < MaxPerSource
        /\ waiting' = [waiting EXCEPT ![r] = Suspended(s, CurrentHits(K)[s], now)]
        /\ peak' = IF Cardinality(Waiting) + 1 > peak THEN peak + 1 ELSE peak
        /\ excused' = excused \cup (Active \ K)
                        \cup {t \in {s} : \E q \in Waiting : waiting[q].source = s}
        /\ UNCHANGED origin

\* Mutant: a registration is entered and not booked.
BookedNever(r) == waiting[r].read

\* The bookings of the source as it found them, with its own.
Booked(r) == Append(waiting[r].read, waiting[r].at)

\* The body has arrived and is accepted.
RegisterEnd(r, c, uris) ==
    /\ r \in Waiting
    /\ c \notin DOMAIN origin
    /\ registered' = [registered EXCEPT ![c] = ClientRecord(uris, now + ClientTTL)]
    /\ hits' = [hits EXCEPT ![waiting[r].source] = Booked(r)]
    /\ waiting' = [waiting EXCEPT ![r] = Idle]
    /\ origin' = [d \in DOMAIN origin \cup {c} |->
                     IF d = c THEN [source |-> waiting[r].source, at |-> waiting[r].at]
                              ELSE origin[d]]
    /\ UNCHANGED <<peak, excused>>

\* 400, or the client has gone: nothing is booked.
RegisterFails(r) ==
    /\ r \in Waiting
    /\ waiting' = [waiting EXCEPT ![r] = Idle]
    /\ UNCHANGED <<registered, hits, origin, peak, excused>>

Registration ==
    /\ \/ RegisterFull
       \/ \E s \in Sources : RegisterThrottled(s)
       \/ \E r \in Requests :
            \/ \E s \in Sources : RegisterBegin(r, s)
            \/ \E c \in Clients, uris \in (SUBSET Uris) \ {{}} : RegisterEnd(r, c, uris)
            \/ RegisterFails(r)
    /\ UNCHANGED vars

-----------------------------------------------------------------------------

\* Clients and bookings are in memory only, and requests end with the process.
ClientsRestart ==
    /\ Restart
    /\ registered' = [c \in Clients |-> NotRegistered]
    /\ hits' = [s \in Sources |-> <<>>]
    /\ waiting' = [r \in Requests |-> Idle]
    /\ peak' = 0 /\ excused' = {}
    /\ UNCHANGED origin

\* What OAuthTokens does without looking at the registrations.
TokenStep ==
    \/ \E c \in Codes :
         \/ ExchangeRefused(c)
         \/ \E client \in AnyClient, i \in Ids : Exchange(c, client, i)
    \/ \E i \in Ids, client \in AnyClient :
         \/ \E j \in Ids : Refresh(i, client, j)
         \/ RefreshRefused(i, client)
    \/ \E k \in Keys : Revoke(k)
    \/ Tick

ClientsNext ==
    \/ \E id \in AnyClient :
         \/ ShowForm(id)
         \/ SubmitForm(id)
    \/ Registration
    \/ ClientsRestart
    \/ TokenStep /\ UNCHANGED clientVars

ClientsSpec == ClientsInit /\ [][ClientsNext]_<<vars, clientVars>>

-----------------------------------------------------------------------------
(* Properties.                                                              *)

\* Registration "is intentionally open but bounded twice" (docs/architecture.md).
\* With requests that await their bodies between check and entry, both tables
\* exceed their caps by no more than the requests that have waited at the same
\* time; and a source whose registrations did not overlap, and that the cap on
\* sources did not forget, keeps to its number within the window of its bookings.
RegistrationsBounded ==
    /\ Cardinality(Listed) <= MaxClients - 1 + peak
    /\ Cardinality({s \in Sources : hits[s] # <<>>}) <= MaxSources + peak
    /\ \A s \in Sources \ excused :
         Cardinality({c \in Listed : origin[c].source = s /\ origin[c].at + Window > now})
             <= MaxPerSource
=============================================================================
