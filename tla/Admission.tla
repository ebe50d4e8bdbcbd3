----------------------------- MODULE Admission -----------------------------
(***************************************************************************)
(* What stands before every request: the rate-limiting middleware          *)
(* (app/rate_limiter.py) with its sliding windows, one for each source and *)
(* tier, and behind it the budget of failed keys (app/rate_limit_store.py) *)
(* that the two forms which take an API key share.                         *)
(*                                                                         *)
(* The middleware awaits the handler: other requests are dispatched        *)
(* between the check, the handler and what the middleware does after it.   *)
(***************************************************************************)
EXTENDS Naturals, Sequences, FiniteSets, FiniteSetsExt, SequencesExt

CONSTANTS
    Requests,     \* requests that may be under way at the same time
    Sources,      \* client addresses
    Source,       \* Source[r]: where request r comes from
    Tiers,        \* tiers of the middleware
    Tier,         \* Tier[r]
    Limit,        \* Limit[t]: KIWIKI_LOGIN_LIMIT and so on
    Window,       \* Window[t]: seconds
    CleanUp,      \* _cleanup_threshold: keys and buckets before pruning
    Everyone,     \* the scope of the budget of all sources
    FailWindow,   \* KIWIKI_KEY_ATTEMPT_WINDOW_SECONDS
    SourceBudget, \* KIWIKI_KEY_ATTEMPT_LIMIT
    GlobalBudget, \* KIWIKI_KEY_ATTEMPT_GLOBAL_LIMIT
    MaxTime,      \* bound: time that passes
    MaxFails      \* bound: failed keys within a window

KeyTiers == {"login", "oauth"} \* tiers of the forms that take a key
WinKeys  == Sources \X Tiers
Scopes   == Sources \cup {Everyone}

ASSUME AdmissionAssumption ==
    /\ Source \in [Requests -> Sources] /\ Tier \in [Requests -> Tiers]
    /\ Limit \in [Tiers -> Nat \ {0}] /\ Window \in [Tiers -> Nat \ {0}]
    /\ \E t \in Tiers : \A u \in Tiers : Window[u] <= Window[t] \* one is the longest
    /\ Everyone \notin Sources
    /\ FailWindow \in Nat \ {0} /\ CleanUp \in Nat
    /\ SourceBudget \in Nat /\ GlobalBudget \in Nat
    /\ MaxTime \in Nat /\ MaxFails \in Nat

VARIABLES
    clock,   \* the time
    shared,  \* KIWIKI_RATE_LIMIT_STORE is sqlite, not memory
    window,  \* window[k]: times of counted requests; <<>>: no entry
    req,     \* req[r]: where request r is
    tries,   \* tries[s]: failed keys booked for scope s
    counted, \* history: times of admissions for a key since its release
    failed,  \* history: times of keys answered as wrong since the scope's reset
    freed    \* history: requests whose window was emptied under them

vars == <<clock, shared, window, req, tries, counted, failed, freed>>

Key(r) == <<Source[r], Tier[r]>>

\* The entries of s younger than w at some time.  Entries are appended in the order
\* of time, so that the ones which are kept are the last ones.
YoungAt(s, w, now) ==
    LET first == SelectInSeq(s, LAMBDA t : t + w > now)
    IN  IF first = 0 THEN <<>> ELSE SubSeq(s, first, Len(s))

Young(s, w) == YoungAt(s, w, clock)

Times == 0..MaxTime

TypeOK ==
    /\ clock \in Times /\ shared \in BOOLEAN
    /\ window \in [WinKeys -> Seq(Times)] /\ tries \in [Scopes -> Seq(Times)]
    /\ req \in [Requests -> {"out", "counted", "extra", "accepted", "denied", "refused"}]
    \* A login is let through beyond the limit only while it is a login.
    /\ \A r \in Requests :
          /\ req[r] \in {"extra", "accepted", "denied"} => Tier[r] = "login"
          /\ req[r] = "refused" => Tier[r] = "oauth"

Init ==
    /\ clock = 0 /\ shared \in BOOLEAN
    /\ window = [k \in WinKeys |-> <<>>]
    /\ req = [r \in Requests |-> "out"]
    /\ tries = [s \in Scopes |-> <<>>]
    /\ counted = [k \in WinKeys |-> <<>>]
    /\ failed = [s \in Scopes |-> <<>>]
    /\ freed = {}

-----------------------------------------------------------------------------
(* RateLimitMiddleware.dispatch, up to the handler.                         *)

Recent(r) == Young(window[Key(r)], Window[Tier[r]])

\* Mutant: the window of the request's own tier decides what is stale.
PruneOwn(win, r) ==
    IF Cardinality({k \in WinKeys : win[k] # <<>>}) > CleanUp
    THEN [k \in WinKeys |-> Young(win[k], Window[Tier[r]])] ELSE win

\* _prune_stale: above the threshold, entries older than every window go.
Prune(win, r) ==
    IF Cardinality({k \in WinKeys : win[k] # <<>>}) > CleanUp
    THEN [k \in WinKeys |-> Young(win[k], Max({Window[t] : t \in Tiers}))] ELSE win

InFlight(k) == {r \in Requests : Key(r) = k /\ req[r] # "out"}

\* Requests under way whose window a change to win leaves without an entry.
Emptied(win) == UNION {InFlight(k) : k \in {j \in WinKeys : win[j] = <<>>}}

Admit(r) ==
    /\ req[r] = "out" /\ Len(Recent(r)) < Limit[Tier[r]]
    /\ window' = Prune([window EXCEPT ![Key(r)] = Append(Recent(r), clock)], r)
    /\ counted' = [counted EXCEPT ![Key(r)] = Append(@, clock)]
    /\ req' = [req EXCEPT ![r] = "counted"]
    /\ freed' = (freed \cup Emptied(window')) \ {r}
    /\ UNCHANGED <<clock, shared, tries, failed>>

\* Mutant: the tier is not asked for.
LetAllThrough(r) ==
    /\ req[r] = "out" /\ Len(Recent(r)) >= Limit[Tier[r]]
    /\ window' = [window EXCEPT ![Key(r)] = Recent(r)]
    /\ req' = [req EXCEPT ![r] = "extra"]
    /\ freed' = freed \ {r}
    /\ UNCHANGED <<clock, shared, tries, counted, failed>>

\* A login form at the limit goes on to the handler, without being counted.
LetThrough(r) ==
    /\ req[r] = "out" /\ Len(Recent(r)) >= Limit[Tier[r]] /\ Tier[r] = "login"
    /\ window' = [window EXCEPT ![Key(r)] = Recent(r)]
    /\ req' = [req EXCEPT ![r] = "extra"]
    /\ freed' = freed \ {r}
    /\ UNCHANGED <<clock, shared, tries, counted, failed>>

\* 429; also a login that is not a form.
Refuse(r) ==
    /\ req[r] = "out" /\ Len(Recent(r)) >= Limit[Tier[r]]
    /\ window' = [window EXCEPT ![Key(r)] = Recent(r)]
    /\ UNCHANGED <<clock, shared, req, tries, counted, failed, freed>>

-----------------------------------------------------------------------------
(* The handlers of the forms, and the budget of failed keys.                *)

\* record of MemoryAttemptStore: the bucket without what is old, and the
\* attempt; with many buckets the ones without a young entry go.
Booked(s) ==
    LET b == [tries EXCEPT ![s] = Append(Young(tries[s], FailWindow), clock)]
    IN  IF Cardinality({x \in Scopes : b[x] # <<>>}) > CleanUp
        THEN [x \in Scopes |-> IF Young(b[x], FailWindow) = <<>> THEN <<>> ELSE b[x]]
        ELSE b

\* record of SqliteAttemptStore: old rows of all scopes are deleted.
BookedShared(s) ==
    [x \in Scopes |-> LET y == Young(tries[x], FailWindow)
                      IN  IF x = s THEN Append(y, clock) ELSE y]

\* A second row for one scope and time violates the primary key.
Clashes == shared /\ Contains(tries[Everyone], clock)

\* register_failed_key_attempt books for everyone first, then for the source.
Book(s) == [IF shared THEN BookedShared(s) ELSE Booked(s)
              EXCEPT ![Everyone] = Append(Young(tries[Everyone], FailWindow), clock)]

\* One of the two counts it is given back is over its limit.
Blocked(t, s) ==
    \/ Len(Young(t[Everyone], FailWindow)) > GlobalBudget
    \/ Len(Young(t[s], FailWindow)) > SourceBudget

\* Mutant: a right key frees the budget of everyone.
ResetAll(s) == tries' = [x \in Scopes |-> <<>>]

Reset(s) == tries' = [tries EXCEPT ![s] = <<>>]

\* What the handler was reached with decides what follows its answer.
Answered(r, ok) ==
    req' = [req EXCEPT ![r] = IF @ = "counted" THEN "out"
                               ELSE IF ok THEN "accepted" ELSE "denied"]

\* The handler raises, and so does the middleware: an answer of 500.
Raised(r) == req' = [req EXCEPT ![r] = "out"]

\* The key is one of a user: login_submit, oauth_authorize_submit.  What follows
\* the reset (an invalid name, the session) may still refuse it.
RightKey(r) ==
    /\ req[r] \in {"counted", "extra"} /\ Tier[r] \in KeyTiers
    /\ Reset(Source[r])
    /\ failed' = [failed EXCEPT ![Source[r]] = <<>>]
    /\ Raised(r) \/ \E ok \in BOOLEAN : Answered(r, ok)
    /\ UNCHANGED <<clock, shared, window, counted, freed>>

\* It is not: the attempt is booked.  The form of /oauth/authorize answers 429 when
\* that shows a budget to be exceeded; login_submit does not look at the result.
WrongKey(r) ==
    /\ req[r] \in {"counted", "extra"} /\ Tier[r] \in KeyTiers
    /\ ~Clashes
    /\ Len(Young(failed[Everyone], FailWindow)) < MaxFails
    /\ tries' = Book(Source[r])
    /\ failed' = [s \in Scopes |-> IF s \in {Everyone, Source[r]}
                                    THEN Append(failed[s], clock) ELSE failed[s]]
    /\ IF Tier[r] = "oauth" /\ Blocked(tries', Source[r])
       THEN req' = [req EXCEPT ![r] = "refused"]
       ELSE Answered(r, FALSE)
    /\ UNCHANGED <<clock, shared, window, counted, freed>>

\* The handler raises; with a wrong key it must when the booking clashes.
Raises(r) ==
    /\ req[r] \in {"counted", "extra"}
    /\ Raised(r)
    /\ UNCHANGED <<clock, shared, window, tries, counted, failed, freed>>

\* The 429 of /oauth/authorize goes out.
SendRefusal(r) ==
    /\ req[r] = "refused"
    /\ req' = [req EXCEPT ![r] = "out"]
    /\ UNCHANGED <<clock, shared, window, tries, counted, failed, freed>>

\* Any other handler, and a login refused for its form (400).
Handle(r) ==
    /\ req[r] \in {"counted", "extra"}
    /\ Answered(r, FALSE)
    /\ UNCHANGED <<clock, shared, window, tries, counted, failed, freed>>

-----------------------------------------------------------------------------
(* What the middleware does with the answer to a login beyond the limit.    *)

\* Mutant: the window is emptied whatever the answer is.
ReleaseAlways(r) ==
    /\ req[r] \in {"accepted", "denied"}
    /\ window' = [window EXCEPT ![Key(r)] = <<>>]
    /\ req' = [req EXCEPT ![r] = "out"]
    /\ counted' = IF req[r] = "accepted" THEN [counted EXCEPT ![Key(r)] = <<>>]
                  ELSE counted
    /\ freed' = IF req[r] = "accepted" THEN freed \cup InFlight(Key(r)) ELSE freed
    /\ UNCHANGED <<clock, shared, tries, failed>>

\* A redirect: the source has logged in, its window is given up.
Release(r) ==
    /\ req[r] = "accepted"
    /\ window' = [window EXCEPT ![Key(r)] = <<>>]
    /\ counted' = [counted EXCEPT ![Key(r)] = <<>>]
    /\ req' = [req EXCEPT ![r] = "out"]
    /\ freed' = freed \cup InFlight(Key(r))
    /\ UNCHANGED <<clock, shared, tries, failed>>

\* 429, with the time that is left of the oldest entry.
Deny(r) ==
    /\ req[r] = "denied" /\ window[Key(r)] # <<>>
    /\ req' = [req EXCEPT ![r] = "out"]
    /\ UNCHANGED <<clock, shared, window, tries, counted, failed, freed>>

\* There is no oldest entry: IndexError, an answer of 500.
Break(r) ==
    /\ req[r] = "denied" /\ window[Key(r)] = <<>>
    /\ req' = [req EXCEPT ![r] = "out"]
    /\ UNCHANGED <<clock, shared, window, tries, counted, failed, freed>>

Tick ==
    /\ clock < MaxTime
    /\ clock' = clock + 1
    /\ counted' = [k \in WinKeys |-> YoungAt(counted[k], Window[k[2]], clock')]
    /\ failed' = [s \in Scopes |-> YoungAt(failed[s], FailWindow, clock')]
    /\ UNCHANGED <<shared, window, req, tries, freed>>

\* The process ends: the windows are lost, a shared store is kept.
Restart ==
    /\ window' = [k \in WinKeys |-> <<>>]
    /\ counted' = [k \in WinKeys |-> <<>>]
    /\ req' = [r \in Requests |-> "out"]
    /\ tries' = IF shared THEN tries ELSE [s \in Scopes |-> <<>>]
    /\ failed' = IF shared THEN failed ELSE [s \in Scopes |-> <<>>]
    /\ freed' = {}
    /\ UNCHANGED <<clock, shared>>

Next ==
    \/ \E r \in Requests :
          \/ Admit(r) \/ LetThrough(r) \/ Refuse(r)
          \/ RightKey(r) \/ WrongKey(r) \/ Handle(r) \/ Raises(r) \/ SendRefusal(r)
          \/ Release(r) \/ Deny(r) \/ Break(r)
    \/ Tick \/ Restart

Spec == Init /\ [][Next]_vars

-----------------------------------------------------------------------------
(* Correctness.                                                             *)

\* Within a window no more requests of a source are counted in a tier than its
\* limit, except after a login that gave the window up, and although windows are
\* cut and pruned on the way, by requests of other sources and tiers too.  What is
\* beyond the limit never reaches a handler, but for login forms: they do, any
\* number of them and uncounted, and only the answer to a wrong key is replaced
\* (rate_limiter.py:269).  This bounds no attempts at keys: see KeyAttemptsLimited.
AdmittedWithinLimit ==
    \A k \in WinKeys : Len(Young(counted[k], Window[k[2]])) <= Limit[k[2]]

\* The budget of a source holds its failures of the window since its last right
\* key, the budget of everyone holds all failures, and no right key frees it.  A
\* wrong key that cannot be booked is not answered as one: its handler raises.
BudgetHolds ==
    \A s \in Scopes : Young(tries[s], FailWindow) = Young(failed[s], FailWindow)

\* A wrong key at /oauth/authorize is answered with 429 exactly when the source has
\* had more of them than its budget since its last right key, at this form and at
\* /login together, or all sources have had more than theirs, however the stores
\* are cut, pruned, reset or lost meanwhile (rate_limit_store.py:230).
RefusedOverBudget ==
    [][\A r \in Requests : Tier[r] = "oauth" /\ WrongKey(r) =>
          (req'[r] = "refused" <=>
             \/ Len(Young(failed'[Everyone], FailWindow)) > GlobalBudget
             \/ Len(Young(failed'[Source[r]], FailWindow)) > SourceBudget)]_vars

\* README.md:86-88 limits the attempts at keys in a minute, at /login and of a source
\* and of all sources.  The code breaks this: a budget is looked at after the key,
\* and login_submit not even then, while forms beyond the limit of /login go on to
\* it; so more keys are tried than the one that shows the budget to be exceeded.
KeyAttemptsLimited ==
    \A s \in Scopes :
        Len(failed[s]) <= (IF s = Everyone THEN GlobalBudget ELSE SourceBudget) + 1

\* A login beyond the limit whose handler answers is denied with 429, whatever
\* other requests did while it was awaited; only if another login gave the window
\* up, or the window was pruned as a whole, there is none.  (A handler that raises
\* ends the request with 500 and is not denied.)
BreaksOnlyWhenFreed ==
    \A r \in Requests : req[r] = "denied" /\ window[Key(r)] = <<>> => r \in freed
=============================================================================
