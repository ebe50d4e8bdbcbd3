-------------------------------- MODULE Mcp --------------------------------
(***************************************************************************)
(* The MCP transports and what stands behind them in memory                *)
(* (app/mcp_server.py, app/mcp_tools/search.py): SSE sessions with their   *)
(* bounded queues of answers, POSTs that are authenticated before or after *)
(* their body is awaited, batches, background grep jobs and the cache of   *)
(* the initialize instructions.                                            *)
(*                                                                         *)
(* Everything runs on the event loop.  A call has the loop until it awaits *)
(* something that suspends: its body, or a grep, which waits for threads.  *)
(* What the other tools do to the notes is in Notes, ChunkedUpload and     *)
(* Knowledge; here they only have an answer.                               *)
(***************************************************************************)
EXTENDS Naturals, Sequences, FiniteSets, FiniteSetsExt, SequencesExt

CONSTANTS
    Users,       \* users, each with its tenant
    Calls,       \* POST requests, each made once
    Streams,     \* SSE sessions, each opened once (uuid4)
    Jobs,        \* ids of grep jobs, each used once
    Http,        \* what a call to /mcp has in place of a session
    Nobody,      \* no call, no user
    MaxSessions, \* KIWIKI_MCP_MAX_SSE_SESSIONS
    QueueMax,    \* KIWIKI_MCP_SSE_QUEUE_MAX_MESSAGES
    BatchMax,    \* _MCP_MAX_JSONRPC_BATCH
    JobsMax,     \* _GREP_JOBS_MAX
    JobTTL,      \* _GREP_JOB_TTL
    ScanMax,     \* GREP_TIMEOUT_S
    CacheTTL,    \* _INITIALIZE_CACHE_TTL
    Never,       \* no time
    Broken,      \* the text of instructions that were not read as one version
    MaxTime,     \* bound: time that passes
    MaxEdits     \* bound: changes to the instructions of one tenant

ASSUME McpAssumption ==
    /\ Http \notin Streams /\ Nobody \notin Calls \cup Users
    /\ {MaxSessions, QueueMax, JobsMax, BatchMax} \subseteq Nat \ {0}
    /\ {JobTTL, ScanMax, CacheTTL, MaxTime, MaxEdits} \subseteq Nat
    /\ ScanMax <= JobTTL /\ Never \notin Nat /\ Broken \notin Nat

VARIABLES
    clock,     \* the time
    accounts,  \* users whose key is accepted
    stream,    \* stream[s]: where the session and its stream are
    owner,     \* owner[s]: the user who opened session s
    queue,     \* queue[s]: answers waiting to be sent, as the calls they answer
    delivered, \* history: answers sent on the stream
    accepted,  \* history: calls of the session answered with 202 that have an answer
    call,      \* call[c]: where request c is
    turn,      \* the call that has the event loop
    job,       \* _grep_jobs
    tasks,     \* jobs whose task has not ended
    shown,     \* history: pairs <<u, j>>: user u was given the result of job j
    text,      \* text[u]: version of AGENTS.md and index.md of tenant u
    cache,     \* _initialize_cache
    reading,   \* an initialize between its look at the cache and its store
    since      \* history: since when cache[u] is out of date

vars == <<clock, accounts, stream, owner, queue, delivered, accepted, call, turn,
          job, tasks, shown, text, cache, reading, since>>

sseVars == <<stream, owner, queue, delivered, accepted>>
jobVars == <<job, tasks, shown>>
hintVars == <<text, cache, reading, since>>

Call(phase, via, user, left, outs) ==
    [phase |-> phase, via |-> via, user |-> user, left |-> left, outs |-> outs]
Job(status, who, created) == [status |-> status, who |-> who, created |-> created]
Hint(at, version) == [at |-> at, version |-> version]

NoCall == Call("new", Http, Nobody, 0, FALSE)
NoJob  == Job("none", Nobody, 0)
NoHint == Hint(Never, 0)

Times == 0..MaxTime

CallSet == [phase : {"new", "body", "run", "scan", "done"}, via : Streams \cup {Http},
            user : Users \cup {Nobody}, left : 0..BatchMax, outs : BOOLEAN]
JobSet  == [status : {"none", "running", "completed", "gone"},
            who : Users \cup {Nobody}, created : Times]
HintSet == [at : Times \cup {Never}, version : (0..MaxEdits) \cup {Broken}]

TypeOK ==
    /\ clock \in Times /\ accounts \subseteq Users
    /\ stream \in [Streams -> {"new", "registered", "first", "open", "over", "stray"}]
    /\ owner \in [Streams -> Users \cup {Nobody}]
    /\ queue \in [Streams -> Seq(Calls)] /\ delivered \in [Streams -> Seq(Calls)]
    /\ accepted \in [Streams -> Seq(Calls)]
    /\ call \in [Calls -> CallSet] /\ turn \in Calls \cup {Nobody}
    /\ job \in [Jobs -> JobSet] /\ tasks \subseteq Jobs /\ shown \subseteq Users \X Jobs
    /\ text \in [Users -> 0..MaxEdits] /\ cache \in [Users -> HintSet]
    /\ reading \in HintSet /\ since \in [Users -> Times \cup {Never}]
    \* Only the call that has the loop runs, and it runs for a user.
    /\ \A c \in Calls : /\ call[c].phase = "run" <=> turn = c
                        /\ call[c].phase # "new" => call[c].user \in Users

Init ==
    /\ clock = 0 /\ accounts = Users
    /\ stream = [s \in Streams |-> "new"] /\ owner = [s \in Streams |-> Nobody]
    /\ queue = [s \in Streams |-> <<>>] /\ delivered = [s \in Streams |-> <<>>]
    /\ accepted = [s \in Streams |-> <<>>]
    /\ call = [c \in Calls |-> NoCall] /\ turn = Nobody
    /\ job = [j \in Jobs |-> NoJob] /\ tasks = {} /\ shown = {}
    /\ text = [u \in Users |-> 0] /\ cache = [u \in Users |-> NoHint]
    /\ reading = NoHint /\ since = [u \in Users |-> Never]

\* The event loop is free for the next callback.
Free == turn = Nobody

-----------------------------------------------------------------------------
(* GET /mcp/sse: mcp_sse and its event_stream.                              *)

\* _sse_sessions.
Registered == {s \in Streams : stream[s] \in {"registered", "first", "open", "stray"}}

\* With _SSE_MAX_SESSIONS registered ones the answer is 503.
Connect(s, u) ==
    /\ Free /\ stream[s] = "new" /\ u \in accounts
    /\ Cardinality(Registered) < MaxSessions
    /\ stream' = [stream EXCEPT ![s] = "registered"]
    /\ owner' = [owner EXCEPT ![s] = u]
    /\ UNCHANGED <<clock, accounts, queue, delivered, accepted, call, turn>>
    /\ UNCHANGED jobVars /\ UNCHANGED hintVars

\* The stream moves: its first event, then its loop inside the try, and at the
\* end the finally that removes the session.
Moves(s, from, to) ==
    /\ Free /\ stream[s] = from
    /\ stream' = [stream EXCEPT ![s] = to]
    /\ UNCHANGED <<clock, accounts, owner, queue, delivered, accepted, call, turn>>
    /\ UNCHANGED jobVars /\ UNCHANGED hintVars

FirstEvent(s) == Moves(s, "registered", "first")

Enter(s) == Moves(s, "first", "open")

\* Mutant: a stream that is dropped later leaves its session behind, too.
LeaveStray(s) == Moves(s, "open", "stray")

Leave(s) == Moves(s, "open", "over")

\* The client is gone before the stream has entered its try: the stream never
\* starts, or it is dropped at its first yield.  The session stays registered.
Abandon(s) == Moves(s, "registered", "stray") \/ Moves(s, "first", "stray")

Deliver(s) ==
    /\ Free /\ stream[s] = "open" /\ queue[s] # <<>>
    /\ queue' = [queue EXCEPT ![s] = Tail(@)]
    /\ delivered' = [delivered EXCEPT ![s] = Append(@, Head(queue[s]))]
    /\ UNCHANGED <<clock, accounts, stream, owner, accepted, call, turn>>
    /\ UNCHANGED jobVars /\ UNCHANGED hintVars

-----------------------------------------------------------------------------
(* The POSTs.                                                               *)

Becomes(c, r) == call' = [call EXCEPT ![c] = r]

\* POST /mcp/messages looks the session up before it awaits the body; the caller
\* is not yet known to be u.
PostMessage(c, s, u) ==
    /\ Free /\ call[c].phase = "new" /\ s \in Registered
    /\ Becomes(c, Call("body", s, u, 0, FALSE))
    /\ UNCHANGED <<clock, accounts, turn>>
    /\ UNCHANGED sseVars /\ UNCHANGED jobVars /\ UNCHANGED hintVars

\* POST /mcp authenticates before it awaits the body.
PostHttp(c, u) ==
    /\ Free /\ call[c].phase = "new" /\ u \in accounts
    /\ Becomes(c, Call("body", Http, u, 0, FALSE))
    /\ UNCHANGED <<clock, accounts, turn>>
    /\ UNCHANGED sseVars /\ UNCHANGED jobVars /\ UNCHANGED hintVars

\* Mutant: any user may send to any session.
AdmitsAnyUser(c) == call[c].user \in accounts

\* The session was opened by the user who now sends a message to it.
Admits(c) == call[c].user \in accounts /\ call[c].user = owner[call[c].via]

\* 400 for a body that is no JSON, 401 or 403 for a user the session is not of.
Refuse(c) ==
    /\ Free /\ call[c].phase = "body"
    /\ Becomes(c, Call("done", call[c].via, call[c].user, 0, FALSE))
    /\ UNCHANGED <<clock, accounts, turn>>
    /\ UNCHANGED sseVars /\ UNCHANGED jobVars /\ UNCHANGED hintVars

\* _handle_payload: n messages, or nothing but an error for an empty or too large
\* batch and for what is no message (n = 0).
Begin(c) ==
    /\ Free /\ call[c].phase = "body"
    /\ call[c].via # Http => Admits(c)
    /\ \E n \in 0..BatchMax : Becomes(c, Call("run", call[c].via, call[c].user, n, n = 0))
    /\ turn' = c
    /\ UNCHANGED <<clock, accounts>>
    /\ UNCHANGED sseVars /\ UNCHANGED jobVars /\ UNCHANGED hintVars

-----------------------------------------------------------------------------
(* _handle_message: the next message of call c.                             *)

\* Mutant: a full queue is not noticed, the answer is lost.
PutSilently(c) ==
    LET s == call[c].via
    IN  /\ queue' = [queue EXCEPT ![s] = IF Len(@) < QueueMax THEN Append(@, c) ELSE @]
        /\ accepted' = [accepted EXCEPT ![s] = Append(@, c)]

\* put_nowait; QueueFull: 429, although the messages were handled.  The session
\* may have ended since the lookup: its queue is then read by nobody.
Put(c) ==
    LET s == call[c].via
    IN  IF Len(queue[s]) < QueueMax
        THEN /\ queue' = [queue EXCEPT ![s] = Append(@, c)]
             /\ accepted' = [accepted EXCEPT ![s] = Append(@, c)]
        ELSE UNCHANGED <<queue, accepted>>

\* All messages are handled: the answers, if any, go to the caller or the queue.
Answer(c) ==
    /\ turn = c /\ call[c].left = 0
    /\ IF call[c].via # Http /\ call[c].outs THEN Put(c) ELSE UNCHANGED <<queue, accepted>>
    /\ Becomes(c, Call("done", call[c].via, call[c].user, 0, call[c].outs))
    /\ turn' = Nobody
    /\ UNCHANGED <<clock, accounts, stream, owner, delivered>>
    /\ UNCHANGED jobVars /\ UNCHANGED hintVars

\* c, which has the loop, has handled its next message.
Finishes(c, outs) ==
    /\ turn = c /\ call[c].left > 0
    /\ Becomes(c, Call("run", call[c].via, call[c].user, call[c].left - 1,
                       call[c].outs \/ outs))
    /\ UNCHANGED <<clock, accounts, turn>> /\ UNCHANGED sseVars

\* It does so without awaiting anything that suspends, in one step.
Handles(c, outs) == reading = NoHint /\ Finishes(c, outs)

\* Notifications without an id, and what needs no more than an answer: ping, the
\* lists, resources, prompts, unknown methods and the other tools.
Message(c) ==
    /\ \E outs \in BOOLEAN : Handles(c, outs)
    /\ UNCHANGED jobVars /\ UNCHANGED hintVars

\* What is handled outside the try of tools/call raises: the call ends with 500,
\* and with it the answers to the messages handled before.
Raises(c) ==
    /\ turn = c /\ call[c].left > 0 /\ reading = NoHint
    /\ Becomes(c, Call("done", call[c].via, call[c].user, 0, FALSE))
    /\ turn' = Nobody
    /\ UNCHANGED <<clock, accounts>>
    /\ UNCHANGED sseVars /\ UNCHANGED jobVars /\ UNCHANGED hintVars

\* The entry of u is taken for the instructions.
Cached(u) == cache[u].at # Never /\ clock - cache[u].at < CacheTTL

\* What an initialize of u would be answered with now, if it read at once.
Served(u) == IF Cached(u) THEN cache[u].version ELSE text[u]

InitializeCached(c) ==
    /\ Handles(c, TRUE) /\ Cached(call[c].user)
    /\ UNCHANGED jobVars /\ UNCHANGED hintVars

\* No entry, or an old one: the time is taken, and the reads begin.
ReadHint(c) ==
    /\ turn = c /\ call[c].left > 0
    /\ reading = NoHint /\ ~Cached(call[c].user)
    /\ reading' = Hint(clock, text[call[c].user])
    /\ UNCHANGED <<clock, accounts, call, turn, text, cache, since>>
    /\ UNCHANGED sseVars /\ UNCHANGED jobVars

\* The reads end, and what they gave is stored: one of the versions there were
\* meanwhile, parts of several, or nothing when a read failed.
StoreHint(c) ==
    LET u == call[c].user
    IN  /\ reading # NoHint /\ Finishes(c, TRUE)
        /\ \E v \in (reading.version..text[u]) \cup {Broken} :
              /\ cache' = [cache EXCEPT ![u] = Hint(reading.at, v)]
              /\ since' = [since EXCEPT ![u] = IF v = text[u] THEN Never ELSE reading.at]
        /\ reading' = NoHint
        /\ UNCHANGED text /\ UNCHANGED jobVars

Edited(u) ==
    /\ text[u] < MaxEdits
    /\ text' = [text EXCEPT ![u] = @ + 1]

\* The entry that the new version of u makes out of date.
Outdated(u) ==
    /\ since' = [since EXCEPT ![u] = IF cache[u].at # Never /\ @ = Never THEN clock ELSE @]
    /\ UNCHANGED <<cache, reading>>

\* Mutant: the cache is not cleared.
ClearsNothing == UNCHANGED <<cache, reading, since>>

\* _write_markdown_content clears the cache of all tenants.
Clears ==
    /\ cache' = [u \in Users |-> NoHint]
    /\ since' = [u \in Users |-> Never]
    /\ UNCHANGED reading

\* write_file, append_file, write_many and chunked_write of the two files.
WriteHint(c) ==
    /\ Handles(c, TRUE) /\ Edited(call[c].user) /\ Clears
    /\ UNCHANGED jobVars

\* The same, when the read after the write or the indexing raises before the cache
\* is cleared, or the path is written another way ("./index.md").  build_index and
\* the tools that write or delete notes by other ways clear nothing at all.
WriteUncleared(c) ==
    /\ Handles(c, TRUE) /\ Edited(call[c].user) /\ Outdated(call[c].user)
    /\ UNCHANGED jobVars

\* Neither do the REST API, the web pages, a deletion thread and a change by hand,
\* none of which waits for the loop.
EditElsewhere(u) ==
    /\ Edited(u) /\ Outdated(u)
    /\ UNCHANGED <<clock, accounts, call, turn>> /\ UNCHANGED sseVars
    /\ UNCHANGED jobVars

-----------------------------------------------------------------------------
(* grep, grep_status and the tasks of background jobs.                      *)

InTable(b) == {j \in Jobs : b[j].status \in {"running", "completed"}}

\* Without the jobs of J.
Drop(b, J) == [j \in Jobs |-> IF j \in J THEN Job("gone", b[j].who, b[j].created) ELSE b[j]]

\* _prune_grep_jobs: old results go, and above the cap the oldest jobs.
Prunes(b) ==
    LET old  == {j \in Jobs : b[j].status = "completed" /\ clock - b[j].created > JobTTL}
        rest == Drop(b, old)
        over == Cardinality(InTable(rest)) - JobsMax
    IN  IF Cardinality(InTable(rest)) <= JobsMax THEN {rest}
        ELSE {Drop(rest, J) : J \in
                {K \in kSubset(over, InTable(rest)) :
                    \A j \in K, k \in InTable(rest) \ K : rest[j].created <= rest[k].created}}

\* Mutant: one job too many.
FullLate(b) == Cardinality(InTable(b)) > JobsMax

\* Too many jobs: the tool answers with an error.
Full(b) == Cardinality(InTable(b)) >= JobsMax

\* grep with background: the job is registered and its task created.
StartJob(c, j) ==
    /\ Handles(c, TRUE)
    /\ job[j].status = "none"
    /\ \E b \in Prunes(job) :
          IF Full(b) THEN job' = b /\ UNCHANGED tasks
          ELSE /\ job' = [b EXCEPT ![j] = Job("running", call[c].user, clock)]
               /\ tasks' = tasks \cup {j}
    /\ UNCHANGED shown /\ UNCHANGED hintVars

\* The task ends, by its result, its timeout or an exception.  If its job were
\* gone, it would fail and there would be no result.
JobEnds(j) ==
    /\ Free /\ j \in tasks
    /\ tasks' = tasks \ {j}
    /\ job' = IF j \in InTable(job)
              THEN [job EXCEPT ![j] = Job("completed", @.who, @.created)] ELSE job
    /\ UNCHANGED <<clock, accounts, call, turn, shown>> /\ UNCHANGED sseVars
    /\ UNCHANGED hintVars

\* grep_status: the jobs of others are not found.
Poll(c, j) ==
    LET u == call[c].user
    IN  /\ Handles(c, TRUE)
        /\ \E b \in Prunes(job) :
              /\ job' = b
              /\ shown' = IF b[j].status = "completed" /\ b[j].who = u
                          THEN shown \cup {<<u, j>>} ELSE shown
        /\ UNCHANGED tasks /\ UNCHANGED hintVars

\* Mutant: the scan does not run in threads but keeps the loop, and it is
\* counted as suspended all the same.
ScanInTurn(c) ==
    /\ turn = c /\ call[c].left > 0 /\ reading = NoHint
    /\ Becomes(c, Call("scan", call[c].via, call[c].user, call[c].left - 1, TRUE))
    /\ UNCHANGED <<clock, accounts, turn>>
    /\ UNCHANGED sseVars /\ UNCHANGED jobVars /\ UNCHANGED hintVars

\* grep without background awaits its scan: others have the loop meanwhile.
Scan(c) ==
    /\ turn = c /\ call[c].left > 0 /\ reading = NoHint
    /\ Becomes(c, Call("scan", call[c].via, call[c].user, call[c].left - 1, TRUE))
    /\ turn' = Nobody
    /\ UNCHANGED <<clock, accounts>>
    /\ UNCHANGED sseVars /\ UNCHANGED jobVars /\ UNCHANGED hintVars

ScanEnds(c) ==
    /\ Free /\ call[c].phase = "scan"
    /\ Becomes(c, Call("run", call[c].via, call[c].user, call[c].left, call[c].outs))
    /\ turn' = c
    /\ UNCHANGED <<clock, accounts>>
    /\ UNCHANGED sseVars /\ UNCHANGED jobVars /\ UNCHANGED hintVars

-----------------------------------------------------------------------------
\* A key is revoked or an account deleted.
Revoke(u) ==
    /\ Free /\ u \in accounts
    /\ accounts' = accounts \ {u}
    /\ UNCHANGED <<clock, call, turn>>
    /\ UNCHANGED sseVars /\ UNCHANGED jobVars /\ UNCHANGED hintVars

\* Time passes during the turn of a call, too; no scan outlasts its timeout.
Tick ==
    /\ clock < MaxTime
    /\ \A j \in tasks : clock < job[j].created + ScanMax
    /\ clock' = clock + 1
    /\ UNCHANGED <<accounts, call, turn>>
    /\ UNCHANGED sseVars /\ UNCHANGED jobVars /\ UNCHANGED hintVars

StreamStep(s) ==
    \/ \E u \in Users : Connect(s, u)
    \/ FirstEvent(s) \/ Enter(s) \/ Leave(s) \/ Abandon(s) \/ Deliver(s)

CallStep(c) ==
    \/ \E u \in Users : PostHttp(c, u) \/ \E s \in Streams : PostMessage(c, s, u)
    \/ Refuse(c) \/ Begin(c) \/ Answer(c)
    \/ Message(c) \/ Raises(c)
    \/ InitializeCached(c) \/ ReadHint(c) \/ StoreHint(c)
    \/ WriteHint(c) \/ WriteUncleared(c)
    \/ Scan(c) \/ ScanEnds(c)
    \/ \E j \in Jobs : StartJob(c, j) \/ Poll(c, j)

Next ==
    \/ \E s \in Streams : StreamStep(s)
    \/ \E c \in Calls : CallStep(c)
    \/ \E j \in Jobs : JobEnds(j)
    \/ \E u \in Users : EditElsewhere(u) \/ Revoke(u)
    \/ Tick

Spec == Init /\ [][Next]_vars

-----------------------------------------------------------------------------
(* Correctness.                                                             *)

\* On the stream of a session the answers to its messages are sent, in the order
\* in which the calls ended, each once, and nobody else's: whatever was answered
\* with 202 and has an answer is sent or waits.  Calls of several users end in any
\* order, look their session up before they await their body, and suspend.
AnswersAccounted ==
    \A s \in Streams :
        /\ delivered[s] \o queue[s] = accepted[s]
        /\ IsInjective(accepted[s])
        /\ \A i \in DOMAIN accepted[s] :
              LET c == accepted[s][i]
              IN  call[c].via = s /\ call[c].user = owner[s] /\ call[c].phase = "done"

\* The sessions that count against the limit are those with a running stream; only
\* one whose client left before the stream entered its try is never removed.
SlotsHold ==
    /\ Cardinality(Registered) <= MaxSessions
    /\ \A s \in Streams : stream[s] = "stray" => delivered[s] = <<>>

\* A job stays in the table until its task has ended, and its result until its
\* time is over, although other users start and poll jobs in a full table; the
\* task always finds its job, and no other user is given the result.
JobsKept ==
    /\ \A j \in tasks : job[j].status = "running"
    /\ \A j \in Jobs \ tasks :
          \/ job[j].status \in {"none", "completed"}
          \/ job[j].status = "gone" /\ clock - job[j].created > JobTTL
    /\ \A p \in shown : job[p[2]].who = p[1]

\* The cached instructions that initialize answers with are other than the two
\* files only when one of these is known to have happened: the files were changed
\* past the line that clears the cache (WriteUncleared, EditElsewhere), or while
\* they were read, or a read failed.  That ends within the lifetime of an entry,
\* counted from the first of them; a write that ends with the clearing (WriteHint)
\* is seen by the next initialize of every session, whatever went before.
HintFresh ==
    \A u \in Users : Served(u) # text[u] =>
        since[u] # Never /\ clock - since[u] < CacheTTL
=============================================================================
