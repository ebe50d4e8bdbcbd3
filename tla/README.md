# kiwiki in TLA+

kiwiki is a wiki of Markdown files for people and for AI agents. One Python
process (FastAPI on one event loop, plus the thread pool of the server) serves
the web pages, a REST API and the MCP tools; each account owns a workspace, a
directory of Markdown files, and everything else is derived from these files or
kept beside them. This directory holds TLA+ modules of that program, the TLC
configurations that check them on small instances, and theorems about them that
TLAPS proves for all values of the constants.

Paths below are relative to the repository. The map from every definition to the
lines it stands for is in `PROJECT.json`.

## 1. Inventory

The process has one event loop. A handler declared `async` runs on it and is
interrupted only where it awaits; most handlers read the request body first and
then run to their end without another await, so they are atomic with regard to
each other. A handler declared `def`, and what is passed to
`asyncio.to_thread`, runs in a thread and interleaves with everything.
Everything else that is concurrent is outside the process: clients that repeat
and reorder their calls, other programs that edit the mounted volume, and the
operating system that may end the process between any two system calls.

| Component | State | Operations | Hard part | What makes it correct |
|---|---|---|---|---|
| Markdown storage (`app/storage.py`) | files of a workspace, path locks, list cache, usage cache | create, write, append, edit, frontmatter, move, delete, folder operations | revision checks, locks held by threads, two caches, quota | no confirmed write is lost to a writer who checked a revision; caches agree with the files |
| Knowledge engine (`app/knowledge/`, `app/indexing.py`) | tables `documents`, `knowledge_jobs` of `.kiwiki/knowledge.sqlite` | enqueue, reconcile, claim, execute, complete, fail, recover | five kinds of process ordered only by SQLite transactions; crashes; swallowed failures | no stale document is forgotten; the index converges |
| Full-text index (`app/search.py`) | tables `files` and `search_history`, `.last_reindex`; a pooled connection per thread | index, deindex, search, reindex at start | lock contention, transactions left open, swallowed failures | a file is found with its present content or the index is known to owe it |
| Chunked uploads (`app/mcp_tools/files.py`) | `_chunked_writes`: chunks staged in memory | one call that stages, checks and finalizes | shared keys, repeated and reordered calls, refused calls with effects, expiry, restart | acknowledged chunks stay; the file becomes exactly the document; limits hold |
| Browser sessions (`app/session_store.py`) | `_sessions` in memory, `sessions.json` | load, create, lookup, revoke, revoke all | debounced and failing saves, crash, account changes | a restart costs little; what is revoked stays revoked |
| Accounts and tenancy (`app/user_store.py`, `app/tenancy.py`) | `users.yaml` and a cache of it, `KIWIKI_USERS`, workspace directories | create, delete, look up a key | two-phase creation, read-modify-write of one file | one name, one workspace; no account without a workspace |
| OAuth server (`app/mcp_server.py`) | registered clients, codes, used refresh tokens, registrations per source; all in memory | register, authorize, exchange, refresh | an await between check and booking, expiry, caps, restart | a grant has one live token; registrations are bounded |
| MCP transports (`app/mcp_server.py`) | SSE sessions and their queues | open, post a message, stream, close | a tool has run before its answer finds the queue full | slots are returned; answers in order |
| MCP tools (`app/mcp_tools/`) | none, but grep jobs in a table | file, link, tag, search, git and admin tools | batches that fail half-way, background jobs | a batch reports what it did |
| Rate limiting (`app/rate_limiter.py`, `app/rate_limit_store.py`) | attempts per source, in memory or SQLite | count, reset, prune | an await between check and booking, two stores, logins that are let through | no more than the limit of counted requests within a window; a refusal when and only when a budget is exceeded |
| REST and pages (`app/main.py`) | none of its own | handlers that call storage and then both indexes | the order of calls, failures between them | as of the components it calls |
| Browser client, audit log, localisation, deployment | drafts; an append-only log; tables; configuration | | | not modelled, see section 7 |

How they interact: a handler authenticates (sessions, keys, tokens), passes the
rate limiter, changes files through storage, then updates the full-text index and
queues the path for the knowledge engine through `app/indexing.py`. There is no
transaction around these; each step can fail or be the last one before a crash,
and the later steps must be recoverable from the files. The worker of the
knowledge engine polls the queues of all tenants. The hazards that follow from
this are listed with their lines in `PROJECT.json`.

## 2. Modules

| Module | Models | Extended by |
|---|---|---|
| `DirtyQueue` | what a queue of dirty paths promises, without tables, batches or crashes | (instance of `Knowledge`) |
| `Knowledge` | files, handlers, deletion threads, reconcile, queue and worker of one tenant | `MCKnowledge`, `Knowledge_proofs` |
| `SearchIndex` | the full-text index with SQLite's locks and transactions | `MCSearchIndex`, `SearchIndex_proofs` |
| `ChunkedUpload` | the tool `chunked_write` and the clients that use it | `MCChunkedUpload`, `ChunkedUpload_proofs` |
| `Sessions` | the session store, the accounts and the handlers between them | `Accounts`, `Sessions_proofs` |
| `Accounts` | `users.yaml`, `KIWIKI_USERS` and the workspaces, composed with the sessions | `MCAccounts`, `Sessions_proofs` |
| `OAuthTokens` | authorization codes and refresh tokens | `OAuthClients` |
| `OAuthClients` | registration of clients and the consent form, composed with the tokens | `MCOAuthClients`, `OAuthTokens_proofs` |
| `Notes` | the notes of a workspace with every operation that changes them, alone or in batches | `MCNotes`, `Notes_proofs` |
| `NoteRegister` | what a revision promises to readers who write back, whatever it is made of | (instance of `Notes`) |
| `Admission` | the rate limiter around each handler and the budget of failed keys | `MCAdmission`, `Admission_proofs` |
| `Mcp` | SSE sessions, calls and batches, grep jobs, the cached instructions | `MCMcp`, `Mcp_proofs` |

A definition whose comment begins with "Mutant" is a plausible mistake in the
code next to it; nothing in the specification uses it. Replacing the definition it
belongs to by the mutant makes the property named in `PROJECT.json` fail, which
shows that the property depends on that line of the code.

### Knowledge and DirtyQueue

State: `file` and `clock` (the files, each with its `st_mtime_ns` as a revision
that also stands for the content), `doc` (table `documents`), `job` (table
`knowledge_jobs`; the state "none" is the absence of the row), and the progress of
each process: `loop` (the index calls the present handler still has to make),
`thread` (deletions in the thread pool with the path locks they hold), `scan`
(runs of `reconcile_workspace`) and `worker`; and `room`, whether the database is
below its ceiling and the disk has space to spare. Two history variables never guard a
step of the program: `owed` records that the queue has missed the last change of a
path, and since when, and `faults` bounds the faults.

| Code | Actions |
|---|---|
| `write_file`, `append_file`, `edit_file`, `create_note` and callers | `Write`, then `LoopIndex`, `LoopEnqueue` |
| `delete_file` (MCP), `move_file`, `/api/move`, `/ui/rename`, `DELETE /api/folder` | `Delete`, `Move`, `MoveFolder`, `DeleteFolder`, then the index calls |
| `read_file(dst)` at the end of `move_file`, after its locks are released | `MoveReads`, `MoveReadRaises` |
| `_queue_knowledge` swallowing an error; `deindex_document` raising | `LoopSwallow`, `LoopAbandon` |
| `DELETE /api/file`, `/api/files` in a thread | `ThreadDelete`, `ThreadEnqueue`, `ThreadAbandon`, `ThreadRelease` |
| `reconcile_workspace` | `ScanList`, `ScanStat`, `ScanCompare`, `ScanEnqueue`, `ScanEnd` |
| `recover_running_jobs`, `claim_jobs` | `Recover`, `Claim` |
| `process_pending_current_workspace`, `upsert_document`, `delete_document` | `Pick`, `Stat`, `Read`, `Commit`, `Drop`, `BatchDone` |
| `complete_job`, `fail_job`, exceptions in them | `Complete`, `Fail`, `StepRaises`, `PassRaises` |
| `KIWIKI_KNOWLEDGE_MAX_DB_BYTES`, `KIWIKI_KNOWLEDGE_MIN_FREE_BYTES` | `room`, which `Space` changes: without it `Recover` and all that follows wait |
| another program edits the volume; the process ends | `External`, `Crash` |

Each SQLite transaction and each access to a file is one step. Entities,
relations and links are written in the transaction of their document and follow
it. The column `knowledge_jobs.revision` is written and never read. A file that
the extractor refuses has a revision in `BadRevs`.

`DirtyQueue` has three sets, `dirty`, `busy` and `failed`: a mark is put, taken,
given back, finished or failed, and a mark that is put during an execution
survives its end. `Knowledge` implements it under the mapping
`dirty <- pending rows and running rows the worker has lost`, `busy <- paths the
worker holds`, `failed <- failed rows`.

### SearchIndex

State: `file`, `clock`, `row` (the FTS5 table `files`), `writer` (who holds SQLite's
write lock), `txn` (the transaction of the event loop's pooled connection:
closed, open, with a snapshot that is current, or stale), the calls in progress
(`calls`, `work`, `thread`), the startup pass (`boot`, `todo`, `stamp`, `since`)
and the histories `owed` and `faults`. A move is `Move`, then `MoveReads` or
`MoveReadRaises`, then the calls. `index_file` is `IndexRead`, `IndexStat`,
`IndexWrite`, `IndexCommit`, with the failures `IndexUnreadable` and `IndexBusy`;
`deindex_files` is `DropStart`, `Drop`, `DropBusy` on the loop and `ThreadWrite`,
`ThreadCommit`, `ThreadBusy` in a thread; `search` is `SearchTag`,
`SearchRecorded`, `SearchBusy`; `reindex_changed` is `BootList`, `BootSkip`, the
index actions and `BootEnd`. SQLite itself is modelled from the way the code uses
it: WAL mode, one writer, a busy timeout that ends in an error, and Python's
implicit `BEGIN` before the first statement that changes data.

### ChunkedUpload

State: `upload` (what is staged per key), `clock`, `file`, and two histories:
`acked`, the chunks whose storage an answer has acknowledged to a client since its
upload was opened, and `unmeasured`, the chunks that a call refused for its
`total_chunks` has stored and that no call of the upload has measured since. A size
is the number of elements of a set with one element for each byte. A call of
`chunked_write` is one step, since it does not await;
its outcomes are `RefuseFull`, `RefuseChunk`, `RefuseTotal`, `RefuseSize`,
`Stage`, `FinalizeFails` and `Finalize`, in the order of the checks of the code,
each with the part of the state that has been changed by the time of the return.
`_prune_chunked_writes` is part of every call. Any client may send any chunk of
its document at any time: this covers repetition, reordering, a client that goes
on after expiry, and two clients with one `upload_id`.

### Sessions

State: `memory` (`_sessions`), `disk` (`sessions.json`), `loaded`, `account` (role
per name), `revoking` (the middle of `api_delete_user`), `clock`, and the
histories `used`, `revoked`, `unsaved`, `lost`, `faults`. The
operator `Saves` is `_save_to_disk` with its swallowed failure, after which the
file may be the old or the new one. `LoadFails` is a file that cannot be read, or
not to its end: the process starts with the sessions before that place, mostly
none, and the next save replaces the file. `Load`, `Login`, `Accept`, `RejectChanged`,
`RejectExpired` and `Logout` are the operations of the store together with the
role check of their callers; `CreateUser`, `ChangeAccounts`, `DeleteUser`,
`RevokeAll` are those of the accounts; `Tick` and `Crash` come from outside.

### OAuthTokens

State: `code` (`_oauth_codes`), `seen` (`_oauth_refresh_seen`), `valid` (the keys of
`parse_users()`), `token` (the signed refresh tokens in the world, which no
restart takes away), `now` in parts of a second, and the histories `used`,
`spent`, `forgotten` and `replayed`. `POST /oauth/authorize` is `Authorize` and
`AuthorizeFull`; `POST /oauth/token` is `Exchange` and `ExchangeRefused` for a code,
`Refresh` and `RefreshRefused` for a refresh token; a request refused before it
changes anything is no step. `Expiry`, `Seconds` and `MayKeep` are the three
comparisons with time and the cap of the code. `Restart`, `Revoke` and `Tick` come
from outside.

### Accounts

State: `builtin` (`KIWIKI_USERS`), `file` and `broken` (`users.yaml`, and whether it
can be read), `space` (directories of workspaces), `making` and `fresh` (the middle
of `POST /api/users`), and the histories `acked` and `owners`; beside them the
state of `Sessions`, whose variable `account` is the merge of the two sources.
`BeginCreate`, then `Persist` or `PersistFails` are `POST /api/users`; `Delete` and
`DeleteFails` are `DELETE /api/users/{username}`; `Enters` is a login, which makes
the workspace again, and `Ready` the same done by `/readyz` in a thread. `Edit`
(by hand, or damage), `Reconfigure` (another `KIWIKI_USERS` at a start) and `Dies`
come from outside. The steps of `Sessions` are those of the same name, joined with
what they do to the accounts, so `AccountsSpec` implements `Sessions!Spec` without
a mapping.

### OAuthClients

State: `registered` (`_oauth_clients` with redirects and times), `origin`
(the source of each client id), `hits` (`_oauth_register_hits`),
`waiting` (requests that await their body), and the histories `peak` and `excused`; beside
them the state of `OAuthTokens`. `RegisterBegin` and `RegisterEnd` are the two
halves of `POST /oauth/register` around the awaited body: the list of the source is
read and cut in the first and written back, from the first half's copy, in the
second. `RegisterFull`, `RegisterThrottled` and `RegisterFails` are its refusals.
`ShowForm` and `SubmitForm` are the consent page and its form, which check client
and redirect at their own times. `TokenStep` is any step of the tokens.

### Notes

State: `note` (revision, words, links and title of each path; the revision is the
mtime), `dirs`, `clock` (of the file system, which may stand still between two
writes), `base` (what a client has read and will refer to in `expected_revision`),
`job` (the one operation of the event loop that is under way, with the rest of its
work), `del` and `held` (threads that delete, and who holds which stripe of
`_PATH_LOCKS`), `cache` (`_list_cache`), and the histories `acked`, `top`, `ghosts`.

| Code | Actions |
|---|---|
| `PUT /api/file` with and without a revision, `write_file`, `append_file`, `edit_file`, frontmatter | `Put`, `Overwrite`, `AppendFile`, `Edit`, `UpdateFrontmatter` |
| `create_note`, the template tool, `create_folder` | `CreateNote`, `Template`, `CreateFolder` |
| `move_file`, `sort`, `move_folder`, under several locks | `Move`, `Sort`, `MoveFolder`, then `Acquire`, then `DoMove`, `SortNext` and `DoSort`, `DoMoveFolder` or `Refused` |
| `rename` | `Rename`, `DoRename`, then `LookAt` and `Rewrite` for each note |
| `replace_many`, `write_many` | `Batch`, then `LookAt` and `Rewrite`, or `WriteItem`; `EndBatch` |
| `upsert_note` | `Upsert`, `EndList`, then `UpsertInto` or `UpsertNew` |
| `list_all_files` and its cache | `List`, `EndList`, `Expire` |
| `DELETE /api/file`, `/api/files` in a thread; `delete_file` on the loop | `DeleteFiles`, `Acquire`, `DeleteOne`, `Clear`, `EndDelete`; `DeleteFile` |
| `delete_folder` with `shutil.rmtree` | `DeleteFolder`, `DoDeleteFolder`, `Unlink`, `EndDeleteFolder` |

`rename` replaces the file name not in the link but where the text of the link
occurs first (`Relinked`). `Masks` says which words, titles and names have a file name
in them: if nothing else in a note has it, its links are rewritten as meant, otherwise
any of them may stay and any of the others may change (`Masked`). A note that cannot
be read is passed over (`LookAt`), and `job.old` keeps both kinds. When the moved note
cannot be read at its new place, the rename ends before the first link (`DoRename`).

Handlers on the loop do not interleave with each other, as none of them awaits
between its accesses; what falls between two accesses is a thread. A text is a set
of words: a writer adds or removes words, and `acked` remembers the words a client
was told are stored.

`NoteRegister` has no revisions: a read links its reader to the note, every change
of the note breaks the link, and only a linked reader writes (load-linked,
store-conditional). `Notes` implements it, with clients and the rewriting batches as
readers, a batch's reads being those between `LookAt` and `Rewrite`, under the
mapping `linked <- readers whose note still has the revision they have read`. Two
versions of a note with one mtime blur it (`blurred <- notes whose stamp came
twice`), and from then on the register promises clients nothing about that note. A
batch is `Exact`: nobody else writes while it runs, so it needs no such exception.

### Admission

State: `window` (`RateLimitMiddleware._windows`), `tries` (the attempt store,
`shared` if it is the SQLite one), `req` (where a request is), `clock`, and the
histories `counted`, `failed`, `freed`. A request is `Admit`, `LetThrough` (a login
beyond the limit, which the middleware lets pass uncounted) or `Refuse`; then its
handler runs (`RightKey`, `WrongKey`, `Handle`, or `Raises`, which ends the request
with 500), and for a login that was let through the middleware acts on its answer:
`Release`, `Deny`, or `Break` if the window it reads is gone. After a wrong key the
form of `/oauth/authorize` compares both budgets with their limits (`Blocked`) and
refuses (`SendRefusal`); `/login` does not. Any other request may come between these steps. Entries
are appended in the order of time, so what the code filters by age is the end of
the list from its first young entry (`YoungAt`; `InWindow` in `OAuthClients`).

### Mcp

State: `stream`, `owner`, `queue` of the SSE sessions, `call` and `turn` (the POSTs,
and which of them has the loop), `job` and `tasks` (`_grep_jobs`, `_grep_tasks`),
`text`, `cache` and `reading` (the versions of the two instruction files,
`_initialize_cache`, and a read of the files that is under way), `accounts`, `clock`,
and the histories `delivered`, `accepted`, `shown`, `since`. A session is `Connect`,
`FirstEvent`, `Enter`, `Deliver`, `Leave`; `Abandon` is a client that leaves before
the stream has entered its `try`. `PostMessage` looks the session up, awaits the
body and then authenticates; `PostHttp` authenticates first. `Begin` to `Answer` are
`_handle_payload`: the messages of a batch are handled one by one (`Message`,
`StartJob`, `Poll`, `Scan` and those below), all of it in one turn except for a `grep`,
which waits for threads; one that raises ends the payload with 500 (`Raises`).
`initialize` answers from the cache (`InitializeCached`) or reads the files
(`ReadHint`, `StoreHint`): edits by hand and deletion threads (`EditElsewhere`) fall
between the reads and wait for no turn, so that the entry may be of an older version,
of a mixture, or the empty text that a failed read leaves (`Broken`). A tool that writes
one of the files clears the cache (`WriteHint`), unless the read or the indexing before
that line raises, the path is spelled another way, or the tool writes by other means
(`WriteUncleared`).

## 3. Runs

Every passing run is exhaustive within its bounds. `CHECK_DEADLOCK FALSE` is set
only where a behaviour may really come to rest: the revisions, the operations, the
calls or the time of the bound are used up and no process has work left
(`Knowledge*`, `Accounts`, `Notes`, `Mcp`). The others are checked for deadlock.

| Run | Question | Bounds |
|---|---|---|
| `KnowledgeCore` | Is a stale document ever forgotten (`StaleIsAccounted`)? Does the reconcile after a restart repair what a crash left (`RestartRepairs`)? | 2 paths, one of them skipped by reconcile, a deletion thread, folder moves and deletions, batches of 2, 2 revisions, 1 fault or crash |
| `KnowledgeLive` | Are attempts counted (`AttemptsCounted`)? Does each step of the worker leave it less to do (`EachStepIsProgress`)? Does the table implement the queue (`ImplementsDirtyQueue`), are dirty paths served (`ServesDirtyQueue`), does the index converge (`Converges`)? | 1 path, a thread, a concurrent reindex request, a refused revision, 2 attempts, 3 revisions, 1 fault |
| `KnowledgeRace` | Are concurrent changes safe during a reconcile, as the plan of the engine says? Violated, see section 6 | 1 path, no faults |
| `SearchCore` | Is a file found with its content, and a deleted one not found, unless that is known to be owed (`SearchableOrOwed`)? Is it repaired at a restart (`RestartReindexes`), and does `deindex_files` give up only under contention (`GivesUpOnlyUnderContention`)? | 2 paths, one of them left out by a reindex, 2 threads, 3 attempts, 3 revisions, 2 faults |
| `SearchStuck` | Does an index write fail only while somebody else writes? Violated | 2 paths, 1 thread, no faults |
| `ChunkedCore` | Do acknowledged chunks stay (`AckedIsStaged`), is the document written exactly (`WritesWhatWasAcked`), do the counts (`CapsHold`) and the sizes (`BytesHold`) stay within their limits? | 5 clients on 3 keys, 3 of them on one; 2 uploads, 2 chunks, sizes that exceed each limit; 2 units of time with a TTL of 1 |
| `AccountsCore` | Does a restart cost at most the debounce interval (`RestartKeepsSessions`), does a revoked session stay revoked (`RevokedStaysRevoked`), are confirmed accounts and used workspaces kept (`AccountsKept`)? | 2 tokens, 2 users with 2 roles, TTL 3, debounce 1, 4 units of time, 2 faults; once a session is handed out, only one user's account changes (`OneAccount`) |
| `OAuthCore` | Is a spent refresh token remembered until its expiry (`SpentIsRemembered`), does a grant have one live token (`OneTokenPerGrant`), does a removed API key get nothing (`RevokedKeyGetsNothing`), are registrations bounded (`RegistrationsBounded`)? | 3 clients, 2 redirects, 2 codes, 3 refresh tokens, half seconds up to 2.5 s, caps of 1 and 2, 2 sources, 2 requests at a time (`OneHalf`, `InOrder`) |
| `NotesCore` | Is what was acknowledged kept (`KeepsAcked`), does a rename leave a link to the old path only in notes where the name stands elsewhere too or that it could not read (`RenameKeepsLinks`), is there no circle of waiting (`NoCircularWait`), are listings fresh (`ListingFresh`), does an upsert find its note (`UpsertFinds`), are notes registers with conditional writes, so that no write replaces what its writer has not read and no batch brings a deleted note back (`ImplementsRegister`)? | 2 folders, 2 names, 2 words, one of them with a file name in it, 4 links, 1 client with a revision, 1 thread, 2 paths sharing a stripe; 3 operations, 2 readings of the clock, 3 files at most |
| `AdmissionCore` | Do the limits of counted requests hold in every window (`AdmittedWithinLimit`), is a wrong key at `/oauth/authorize` refused exactly when a budget is exceeded (`RefusedOverBudget`), is a denied login answered (`BreaksOnlyWhenFreed`)? | 2 sources, 3 requests at a time, 2 tiers with different limits and windows, both stores, budgets of 1 and 2, 2 units of time, 3 failures within a window |
| `AdmissionKeys` | Do the limit of `/login` and the budgets bound the attempts at keys, as the configuration table says? Violated, see section 6 | the same, 3 units of time |
| `McpCore` | Do answers reach their own session once and in order (`AnswersAccounted`), are slots returned (`SlotsHold`), are jobs and results kept (`JobsKept`), are instructions out of date only for a known reason and a bounded time (`HintFresh`)? | 2 users, 3 calls (2 with instructions), 2 sessions, 2 jobs, batches of 2, and caps of 1 on sessions, queue and jobs (`OneService`) |

Why the bounds are enough to be interesting. The races of `Knowledge` and
`SearchIndex` are races about one path: each property speaks of one path at a
time, and paths meet only in a move (two paths), in a batch (two jobs suffice for
"the rest of the batch") and in the plan of a scan. Two revisions beyond the
initial one give a write before, during and after an execution. In `SearchCore`
two faults let a failure meet a crash; in `KnowledgeLive` there are fewer faults
than attempts, as `Converges` requires, and the refused revision exhausts the
attempts. In `ChunkedCore` three clients share a key, one with another
total, one without any, another key appends, a third fills the cap on uploads. In
`AccountsCore` time is long enough for a session to be renewed with small gains,
to be saved, to expire and to be handed out again, and the second user makes the
name hidden by `KIWIKI_USERS` and the bystander of a rewritten file. In `OAuthCore`
a second has two parts, so that the rounded and the exact comparison can differ,
time runs past the expiry of a rotated token, caps of 1 are met, and two requests of
one source overlap at their body. In `NotesCore` a rename inside a folder and one
into another folder meet a deletion of the note that is read, one of the note that
is moved, and one that waits for the same stripe; the word that has the old name in it
is in no note at the start and comes with the first write. In `AdmissionCore` the windows of
the two tiers differ, which is what pruning across tiers could get wrong, and the
threshold of pruning is low enough to be passed. In `McpCore` three calls fill and
overfill a queue of one, and two jobs meet a table of one.

Four constraints cut behaviours that combine things which do not touch each other.
`OneService`: jobs, instructions and sessions have no variable in common; only
sharing the loop relates them. Jobs and sessions are explored together with all calls,
instructions with two of them and without revoked keys, which they do not look at.
`OneAccount`: a session belongs to one user, and the accounts of others reach it
only through the file, which is explored without sessions for all users.
`OneHalf`: a behaviour either registers clients or spends tokens; a code and one
registration meet in it at the check of the redirect. `InOrder`: identifiers are
interchangeable and used in one order (a symmetry stated as a constraint).

## 4. Fairness

Only `KnowledgeLive` needs it (`FairSpec`). A handler on the event loop and a
thread of the pool run to their end (weak fairness of `LoopStep` and
`ThreadStep`): neither waits for anything but a path lock, and the holder of a
path lock never waits. A scan runs to its end. The worker is a loop around a sleep,
started by the lifespan of the application and kept for as long as the process
lives (weak fairness of `WorkerStep`), and runs its first reconcile on the first
pass (weak fairness of `ScanList(Startup)`). That the worker keeps polling is all
that this gives: a pass that finds the database at its ceiling or too little free
space returns before it recovers or claims anything (service.py:75-77), which is a
guard of `Recover`. The condition may last for ever, or come and go and hold at every
poll, so no fairness is assumed about `room`, and both liveness properties have the
premise that there is room from some time on (`<>[]room`). Without it nothing is
promised; not even queued deletions, which would free space, are carried out.
Requests, edits from outside, faults
and crashes may or may not happen. Nothing is assumed about the order in which
rows are claimed: `claim_jobs` orders by time, which only adds fairness among
paths that the properties do not need.

## 5. Theorems

All proofs are checked by TLAPS for arbitrary constants that satisfy the ASSUME
of the module; no finiteness of paths, threads, tokens or clients is assumed, and
the bounds on revisions, time and faults are arbitrary too.

`Knowledge_proofs`:
- `TypeCorrect`: `TypeOK` together with `WorkerShape`.
- `StaleAccounted`: `StaleIsAccounted`. By itself it is not inductive: whether
  removing a row is right depends on what the worker has read, that on what the
  job asked for when it was claimed, and that on the files when it was queued. The
  inductive invariant is `NothingOvertaken`, a conjunction with one part for each
  of these: `WorkerShape`, `TakenRows` (what the worker holds has a row),
  `BatchOps` (the operation it was claimed with is that of the row, unless the
  row was renewed), `DeleteRows` (a row that asks for a deletion speaks of a
  missing file, or the path is excused), `WorkerFresh` (what the worker has read
  is current, unless the row was renewed) and the property itself. The steps fall
  into four kinds, each with a lemma: steps that change files, steps that queue
  rows, steps of the worker, and the crash.
- `AttemptsAreCounted`: `AttemptsCounted`, with `Counted` (a row that the worker may
  still claim has been tried less often than one that it has in hand) and
  `StartupFirst` (the scan of the start is over before the first batch, so that no
  claim falls between the two halves of a recovery).
- `WorkerNeverSpins`: `EachStepIsProgress`, from the same invariant. A claim takes an
  execution from each row it claims (`Counted` keeps the number of that execution
  within the range of `Executions`), the end of an execution takes none or all that
  are left, a pick takes a job of the batch, and every other step keeps executions
  and batch and lowers `Stage`. The order is lexicographic and all its parts are
  finite, so a worker that is not disturbed comes to rest; that a scheduled worker
  therefore serves what is dirty is the liveness that TLC checks.
- `RestartIsRepaired`: `RestartRepairs`, with `Repairs`: before the first pass is
  over, a path that is still owed from before the start may also be on its way in
  the scan (`Awaits`: not yet looked at, seen as it is, or in the plan).
- `QueueRefinement`: `Spec` implements `Queue!Spec`; every action maps to an
  action of `DirtyQueue` or to a stutter.

`SearchIndex_proofs`: every property that `SearchCore` checks, for any number of paths,
threads and tries above one (`SearchAssumption`; the code has three).
- `TypeCorrect`, `SearchIsTrue` (`SearchableOrOwed`), `RestartRepairsIndex`
  (`RestartReindexes`), from one inductive invariant `Inv`. `Fine` says for each path
  what its wrong row is owed to in each phase of the process: a call in progress, the
  startup pass that has not come to it, or a stamp that hides it. It rests on what
  the steps in progress may take for granted: `WorkShape` (what `index_file` has read
  is what the file holds, or the change is known, and no thread holds its lock),
  `DropShape` and `ThreadShape` (what is about to be deleted has no file), `InTime`
  (no file is newer than the clock) and `BootIsAlone`.
- `DeletionRecovers`: the action property `GivesUpOnlyUnderContention`; the transaction
  is closed whenever `deindex_files` tries again, so no try fails for its age.

`ChunkedUpload_proofs`:
- `AckedStaysStaged`: `AckedIsStaged`, inductive together with `StagingType`; one
  lemma (`ReplacesPreserves`) covers every outcome that replaces the upload of a
  key, so a step only has to say what it puts there.
- `AckedIsWritten`: the action property `WritesWhatWasAcked`, from that invariant.
- `CapsAreKept`: `CapsHold`, with `CapsInv`: each upload has a finite staging within
  the cap, and finitely many uploads are open. A step that opens an upload has found
  the table below its cap after the pruning; one that stages a new index has found
  the staging below its own.
- `BytesAreBounded`: `BytesHold`, from `BytesInv`. A step either measures, and then
  finds all bytes within both limits (`MeasuringStep`), or adds no measured byte
  (`UnmeasuredStep`): the bytes that `RefuseTotal` adds are those of its own chunk,
  unless the chunk was there before. Sizes are cardinalities, so that the theorems on
  finite sets apply and no sum has to be reasoned about by induction.
- `TypeCorrect`: `TypeOK`. An upload without a declared total joins what it has up to
  its last staged chunk; that there is a last one follows from the cap.

`Sessions_proofs`:
- `RestartIsCheap` and `RevocationHolds`, from one inductive invariant `Inv`:
  `Shape` (types, and that no session is stored under no user), `Owned` (sessions
  belong to tokens handed out), `BackedUp` (the marker of a session is the expiry
  in the file unless the last save failed, and expiry exceeds it by at most the
  debounce interval) and `Gone` (a revoked token is in neither place unless a save
  failed). One lemma for each way an operation ends: `SavesPreserves`,
  `KeepsPreserves`, `RemovalPreserves`, `LoadPreserves`, `LoadFailsPreserves`.
- `AccountsAreKept`: `AccountsKept`. Inductive together with `Making`: the user
  whose creation is under way has a workspace, and one that this creation made
  itself is not that of somebody who has had an account, so a rollback removes
  nobody's notes. It needs the types of the sources (`Sources`) and that the
  accounts in force are the merge of both.
- `AccountsTypes`: `AccountsTypeOK`, with `OneHandler`: no creation overlaps a deletion.
- `AccountsImplementSessions`: `AccountsSpec` implements the specification of
  `Sessions`, with the same variables; every step of the accounts is one of its
  steps or a stutter.
- `ComposedSessions`: by this refinement the two guarantees of the sessions hold in
  the composition as well.

`OAuthTokens_proofs`:
- `TypeCorrect`, `ReuseIsNoticed` (`SpentIsRemembered`) and `RotationIsAChain`
  (`OneTokenPerGrant`), from one inductive invariant `Inv`. The chain needs two
  facts beside: a code that is pending has led to no token (`PendingIsUnspent`),
  and the grant of a token has been handed out (`GrantsAreUsed`).
- `RevocationIsFinal`: the action property `RevokedKeyGetsNothing`.
- `ClientsImplementTokens` and `ComposedTokens`: `ClientsSpec` implements `Spec`, so
  all of these hold in the composition that `OAuthCore` checks.
- `RegistrationsAreBounded`: `RegistrationsBounded`, from `Registry`. The two tables are
  bounded together with what waits to enter them (`Few`). The bound for a source is a
  statement about the future of three things that change at different times: the
  clients, the bookings, and the copy of the bookings that a waiting registration has
  read. The invariant gives each client within the window a booking of its own, no
  older than the client (`Covers`, an injection), in what is booked (`HitsCover`) and
  in the copy that will be written over it (`ReadCovers`); a source that is not
  excused has one such copy at most (`Alone`). Cutting the list to the window takes
  no booking that a client needs (`CoversInWindow`), and appending adds one for the
  client that is entered (`CoversOneMore`).

`Notes_proofs`: every property that `NotesCore` checks, for any folders, names, words,
links, threads and locks, from one inductive invariant `Inv` in two halves.
- `Sound` speaks of the notes: `TypeCorrect`, and `AcknowledgedStays` (`KeepsAcked`).
  Conditional writes rest on `Valid`: as long as no two versions of a note have had one
  mtime (`top`, `Twin`), a note with the revision of a view is the note that was read.
- `Steady` speaks of what is under way: `SnapFresh` (between reading a note and writing
  it nothing comes but a deletion), `FolderSeen` (a folder gets no notes while it is
  listed or removed), `LinksSeen` (a note that still leads to the old path is still to
  be gone through, or is one of those in `job.old`; what a rewriting makes of any other
  note is `RelinkedFacts`), `CacheCovers`, `DelShape`, `LocksOrdered`. From it
  `ListingsAreFresh` (`ListingFresh`), `RenameIsFollowed` (`RenameKeepsLinks`),
  `NothingComesBack` (`NoResurrection`) and `UpsertIsUnique` (`UpsertFinds`).
- `NobodyWaitsInACircle`: `NoCircularWait`. Locks are taken in the order of their
  numbers, so in a circle of agents the one that waits for the greatest lock would
  wait for a holder that waits for a greater one.
- `RegisterRefinement`: `Spec` implements `Register!Spec`. Stamps of a note only grow
  or end in `Twin` (`StampGrows`), so a note that has the revision of a view either
  had it before the step, with the same text, or is blurred (`LinksKept`); for the
  batch on the loop `SnapFresh` takes the place of the stamps. What is left is to say
  for each action whether a reader reads, writes, gives up or is not concerned
  (`LoadStep`, `StoreStep`, `ForgetStep`, `ChangeStep`).
- Assumptions: the stripes are `1..Locks`, what a rename makes of a link is one of
  `Links`, `None` is neither a path nor a text, and the notes at the start are
  well-formed.

`Admission_proofs`:
- `DenialIsAnswered`: `BreaksOnlyWhenFreed`, from `ExtraHadWindow`: a login that was
  let through found a window at its limit, which is at least one, and every step that
  empties a window counts the requests under way in it as `freed`.
- `LimitsHold` (`AdmittedWithinLimit`, which counts admissions and not the logins
  that are let through), `BudgetIsKept` (`BudgetHolds`) and `TypeCorrect`,
  from `Counts`: all lists are in the order of time (`InOrder`), and what is young of a
  window is what is young of everything admitted for its key, and no more than the
  limit (`CountsAll`). Lemmas about `YoungAt`: what is young of a list is what follows
  some place of it (`CutPoint`), cutting twice is cutting once (`YoungOfYoung`), and
  an entry of now is kept (`YoungOfAppend`). Pruning cuts every window by the longest
  of all tiers; that one is the longest is an assumption, true of any finite number.
- `RefusesOverBudget`: the action property `RefusedOverBudget`. By `BudgetHolds` after
  the step, what the code counts is what has failed.

`Mcp_proofs`: every property that `McpCore` checks, from one inductive invariant with
a part for each service; a lemma per part first says which steps touch it.
- `TypeCorrect`. All steps of a call are of one form (`Changes`), which also says what
  the other parts need of them.
- `AnswersReachTheirSession`: `AnswersAccounted` with `Opened`: a call that has looked
  its session up knows one that exists, so its owner is fixed, and is the owner's
  call once it runs. An answer is of a call that is done, and no step changes such a
  call.
- `SlotsAreBounded`: `SlotsHold` with the finiteness of the slots in use.
- `JobsAreKept`: `JobsKept` with the bound on the table. A job is registered only
  below the cap, so the cut above the cap never has anything to remove.
- `InstructionsAreFresh`: `HintFresh` with `HintInv`: an entry that differs from the
  instructions has been so since a recorded time, not before the entry's own, which is
  when its reads began; so it ends with the lifetime of the entry. A read under way
  began at a version that was there, and a clearing leaves nothing to differ.

Only proved: `TypeOK` of `Knowledge` and of `SearchIndex`, `BudgetHolds` of `Admission`, on which
`RefusedOverBudget` rests, the property `NoResurrection` of `Notes`, a consequence of
`ImplementsRegister` that is worth stating by itself, and that
`OAuthClients` and `Accounts` implement what they compose.

Only model-checked: liveness (`ServesDirtyQueue`, `Converges`), which TLAPS does
not reach; `WorkerNeverSpins` is the part of it that needs no fairness. Every
invariant and every action property of the passing runs is a
theorem; the three properties of the violated runs are false of the code.

## 6. Where the code and its documents disagree

Each of these is a run that TLC finds violated; the counterexamples are short.

- `KnowledgeRace`: a reindex request lists the workspace, a note is created, queued
  and indexed by the worker, and the comparison then finds its row in `documents`, but
  not its path in the listing, and queues a `delete`. The worker trusts the operation
  and removes the document of a note that exists. docs/knowledge-engine-plan.md:334 says that the
  batched reconcile keeps concurrent changes safe.
- `SearchStuck`: `index_file` and `search` swallow a locked database without a
  rollback, the pooled connection stays in its transaction, and after a later
  snapshot has become stale every further `index_file` fails at once.
- `AdmissionKeys`: no limit bounds the attempts at keys. `login_submit` ignores what the
  booking of a wrong key returns (app/main.py:641), the other form looks at it after the
  key has been checked, and a login form beyond the limit of its tier goes on to the
  handler without being counted (rate_limiter.py:269-270). A wrong key may be answered
  with 429 in place of 401; a right one always passes. README.md:86-88 describes the
  limit of `/login` and the budgets as limits of attempts, and app/main.py:634 says that
  both limits take effect. What holds is what the passing run checks.

Others that the models contain and that have no run of their own. The properties
name them as their exceptions or premises.

- While `knowledge.sqlite` is at its ceiling or the disk is low the worker does nothing
  at all, deletions included, and the index differs from the files for as long as that
  lasts (`room`). README.md:122-123 names both limits, not this consequence.
- `rename` replaces the first textual occurrence of a link, not the link (admin.py:104).
  With `[n.md](n.md)`, the name in the prose or an earlier `sub/n.md` other text changes
  and a link to the old path stays, as does one with a blank before its fragment
  (admin.py:102); a note that cannot be read keeps its links
  (admin.py:82), and a moved note that cannot be read ends the rename before it has looked
  at any (storage.py:599). `RenameKeepsLinks` names these notes as its exceptions. The
  name is replaced and the folder of the link kept, so after a rename into another folder
  the links lead to no note; the property speaks of the old path only. An old path
  that is given in another spelling matches no link; the model has one spelling. The
  description of the tool (app/mcp_server.py:1314) says that all internal links are updated.
- A startup pass of the full-text index stamps its time whatever it could index
  (search.py:481-494), so a file whose indexing failed in it is not tried at the next start
  unless it has changed: `RestartReindexes` excepts files no newer than the stamp
  (`since`), be they moved there or failed.

- `move_file` releases its locks and then reads the file at its new place; a
  deletion thread that comes first makes that read raise, the handler ends, and the
  index calls for the old path are skipped (`MoveReadRaises`), although
  docs/knowledge-engine-plan.md:275 treats a move as atomic or as a deletion and an
  upsert. The document of the old path goes at the next reconcile.
- `RestartRepairs` excepts a `delete` row that survives a crash which swallowed the
  queue write of the move that brought the file back (`owed` = "undone"). The
  reconcile at start compares revisions only, sees nothing to do, and the old row
  removes the document; docs/knowledge-engine-plan.md:257 promises more.
- `RestartRepairs` speaks of revisions, not of content (`UpToDate`). A worker that
  stats one version of a file and reads the next leaves a document with the revision
  of the first and the content of the second. Usually the change is queued and the
  document is made again. If the first version is moved back to the path and a crash
  takes the index calls of that move, the revisions agree and the content does not,
  and no later reconcile finds it (reconcile.py:26). docs/knowledge-engine-plan.md:257
  says that the comparison at start repairs the gap, and line 328 has it look at
  mtime and size. It takes two paths and three faults, more than `KnowledgeCore` has.
- A call of `chunked_write` that is refused because its `total_chunks` differs has
  stored its chunk already, and the size of that chunk is not looked at
  (`RefuseTotal`). README.md:118 calls `KIWIKI_MCP_MAX_STAGED_BYTES` the "Maximum
  aggregate bytes held by staged uploads"; three calls suffice to hold
  more. `BytesHold` says what is true: the excess is what such calls have left, at
  most the chunks that `CapsHold` allows.
- An account is deleted before its sessions are revoked. A crash or a failure
  in between leaves them in the file, where a later account of the same name and
  role makes them valid.
- A spent refresh token is pruned from the list by the clock, while its own expiry
  is compared in whole seconds: in the last part of a second it is accepted again
  (`replayed`). docs/architecture.md:267 says that it is refused.
- Registrations of one source that wait for their bodies at the same time
  overwrite each other's booking, so that a source is held to its limit only if it
  does not overlap (`excused`). docs/architecture.md:270-272 names a bound for each
  source.
- A creation whose file was written and could not be given its mode removes the
  workspace and leaves the account, although app/main.py:1381-1384 says that neither
  exists (`PersistFails`). A new account inherits the workspace that a deleted
  account of its name left behind, and a write while `users.yaml` cannot be read
  replaces it as if it had been empty.
- A message to an SSE session whose queue is full is answered with 429 after its
  tools have run, and a message that was accepted while its session ended is
  answered to nobody (`Put`).
- A client that leaves before its stream has entered its `try` keeps a slot of
  `KIWIKI_MCP_MAX_SSE_SESSIONS` until the process ends (`Abandon`).
- `POST /mcp` authenticates before it awaits the body and does not look again:
  a key revoked meanwhile still has its call carried out.
- The REST interface, `build_index`, a tool that raises between its write and the clearing
  (fileutil.py:157), and one that is given the path in another spelling change `index.md`
  and `AGENTS.md` without clearing the cached instructions; a change while they are read
  is lost on the entry; and when a read raises, the empty text is cached although the
  files are there (mcp_server.py:355-357). All of this lasts until the lifetime of
  the entry is over (`HintFresh`).
- When `sessions.json` cannot be read, the process starts without its sessions
  (`LoadFails`), and the file stays as it was until the next save. A logout or the deletion
  of an account then finds nothing to revoke and does not write, so after another
  restart that can read the file these sessions are back; `RevokedStaysRevoked` speaks
  of what was revoked.
- A login beyond the limit whose window another login has given up, or a pruning
  has removed, ends in an exception in place of a 429 (`Break`), and so does one whose
  handler raises, as it must when two failures clash in the shared store (`Raises`).

## 7. Not modelled, and why

Extraction, parsing, ranking, rendering, export and the reading tools have no
state to go wrong. The git tools run an external program. The audit log is only
appended to, and its failures are deliberately silent. The browser client is
presentation; where it reads, changes and writes back it is a client of `Notes`.
Localisation and deployment have no behaviour. The conversion of session
files of older versions changes the encoding of keys only. Tenants share nothing
but the worker and the pool of threads, so each module has one tenant; that a slow
tenant delays the others is visible only across tenants. The quota in bytes counts
like the limit on files, and its cached sum is not modelled. The cache of
`users.yaml` is compared with the stat of the file at each use. `reindex_all` on
request and the migrations of the two databases rebuild what can be derived.

## 8. Open

1. The same for the other processes that `FairSpec` schedules: each step of a handler,
   a thread or a scan leaves it fewer index calls, paths or jobs of its plan.

To repeat a run: `tlc -workers 2 -config KnowledgeCore.cfg MCKnowledge`; to check
the proofs of a module: `tlapm Knowledge_proofs.tla`.
