----------------------------- MODULE Knowledge -----------------------------
(***************************************************************************)
(* The knowledge engine of one tenant: Markdown files are the source of    *)
(* truth, the table "documents" of .kiwiki/knowledge.sqlite is a copy      *)
(* derived from them, and the table "knowledge_jobs" is the durable queue  *)
(* of paths whose copy must be refreshed.                                  *)
(*                                                                         *)
(* Four kinds of process touch them.  The event loop runs one mutation     *)
(* handler at a time (REST, MCP and UI handlers never await between their  *)
(* file operation and their index calls).  Thread-pool threads run the     *)
(* REST deletions, holding the path locks until the job is queued.         *)
(* Scanners run reconcile_workspace: the worker once after each start, and *)
(* POST /api/knowledge/reindex on request.  The worker claims batches of   *)
(* jobs and executes them.  Nothing but SQLite's own transactions orders   *)
(* them, so every transaction and every file access is a step of its own.  *)
(*                                                                         *)
(* A revision is the st_mtime_ns of a file and stands for its content as   *)
(* well: each write has a fresh one, a rename keeps it.  The column        *)
(* knowledge_jobs.revision is left out: it is written and never read.      *)
(* Entities, relations and links follow their document row in the same     *)
(* transaction and are left out too.                                       *)
(***************************************************************************)
EXTENDS Naturals, FiniteSets

CONSTANTS
    Paths,       \* Markdown paths of the workspace
    Special,     \* the paths reconcile skips: AGENTS.md and index.md
    Threads,     \* thread-pool threads that run REST deletions
    Requests,    \* concurrent POST /api/knowledge/reindex requests
    Startup,     \* the scanner of the worker's own first reconcile
    NoPath,      \* no path: the worker is between two jobs
    FolderMoves, \* injective maps old path -> new path of folder renames
    Folders,     \* sets of paths one DELETE /api/folder removes
    BadRevs,     \* revisions the extractor refuses (too large, not UTF-8)
    Batch,       \* KIWIKI_KNOWLEDGE_BACKFILL_BATCH_SIZE
    MaxAttempts, \* executions after which a job is given up
    MaxRev,      \* bound: revisions written in a behaviour
    MaxFaults    \* bound: faults and crashes in a behaviour

Scanners == Requests \cup {Startup}

ASSUME KnowledgeAssumption ==
    /\ Special \subseteq Paths
    /\ Startup \notin Requests
    /\ NoPath \notin Paths
    /\ \A m \in FolderMoves : /\ DOMAIN m \subseteq Paths
                              /\ \A p \in DOMAIN m : m[p] \in Paths \ DOMAIN m
                              /\ \A p, q \in DOMAIN m : m[p] = m[q] => p = q
    /\ \A f \in Folders : f \subseteq Paths
    /\ Batch \in Nat \ {0}
    /\ MaxAttempts \in Nat \ {0}
    /\ MaxRev \in Nat \ {0}
    /\ MaxFaults \in Nat

VARIABLES
    file,    \* file[p]: revision of the Markdown file, 0 when there is none
    clock,   \* the last revision handed out
    doc,     \* doc[p]: row of table documents, revision and content indexed
    job,     \* job[p]: row of table knowledge_jobs
    loop,    \* index calls the event loop's handler still has to make
    thread,  \* per thread: the path locks it holds, the index calls to make
    scan,    \* per scanner: progress of reconcile_workspace
    worker,  \* the background worker
    room,    \* is the database below its ceiling, with disk space to spare?
    owed,    \* history: has the queue missed the last change of a path?
    faults   \* number of faults so far

vars == <<file, clock, doc, job, loop, thread, scan, worker, room, owed, faults>>

Revs   == 0..MaxRev
Ops    == {"upsert", "delete"}
Call   == [path : Paths, op : Ops]
LoopCall == [path : Paths, op : Ops \cup {"index", "moved"}]
NoDoc  == [rev |-> 0, body |-> 0]

Row(op, state, attempts) == [op |-> op, state |-> state, attempts |-> attempts]
NoJob == Row("delete", "none", 0)

Thread(held, todo) == [held |-> held, todo |-> todo]
IdleThread == Thread({}, {})

Scan(pc, list, seen, plan) ==
    [pc |-> pc, list |-> list, seen |-> seen, plan |-> plan]
Unseen   == [p \in Paths |-> 0]
IdleScan == Scan("idle", {}, Unseen, {})

Worker(pc, batch, path, rev, body) ==
    [path |-> path, rev |-> rev, body |-> body, pc |-> pc, batch |-> batch]
IdleWorker(pc) == Worker(pc, {}, NoPath, 0, 0)

TypeOK ==
    /\ file \in [Paths -> Revs]
    /\ clock \in Revs
    /\ doc \in [Paths -> [rev : Revs, body : Revs]]
    /\ job \in [Paths -> [op : Ops, state : {"none", "pending", "running", "failed"},
                          attempts : Nat]]
    /\ loop \in SUBSET LoopCall
    /\ thread \in [Threads -> [held : SUBSET Paths, todo : SUBSET Paths]]
    /\ scan \in [Scanners -> [pc : {"idle", "stat", "queue"},
                              list : SUBSET Paths, seen : [Paths -> Revs],
                              plan : SUBSET Call]]
    /\ worker \in [path : Paths \cup {NoPath}, rev : Revs, body : Revs,
                   pc : {"start", "idle", "claim", "next", "drop", "stat",
                         "read", "commit", "complete", "fail"},
                   batch : SUBSET Call]
    /\ room \in BOOLEAN
    /\ owed \in [Paths -> {"no", "now", "old", "undone"}]
    /\ faults \in 0..MaxFaults

\* Before the first start with the engine enabled there are files and no index.
Init ==
    /\ file \in [Paths -> {0, 1}]
    /\ clock = 1
    /\ doc = [p \in Paths |-> NoDoc]
    /\ job = [p \in Paths |-> NoJob]
    /\ loop = {}
    /\ thread = [t \in Threads |-> IdleThread]
    /\ scan = [r \in Scanners |-> IdleScan]
    /\ worker = IdleWorker("start")
    /\ room = TRUE
    /\ owed = [p \in Paths |-> IF file[p] = 0 THEN "no" ELSE "old"]
    /\ faults = 0

-----------------------------------------------------------------------------
(* The queue.  An enqueue replaces the row of its path whatever its state.  *)
(* It settles what was owed unless it asks for the deletion of a file that  *)
(* is there.                                                                *)

HasRow(p)  == job[p].state # "none"
Rows(s)    == {p \in Paths : job[p].state = s}

\* Mutant: the upsert keeps the attempts of the row it replaces.
EnqueueKeepsAttempts(p, op) ==
    /\ job' = [job EXCEPT ![p] = Row(op, "pending", @.attempts)]
    /\ owed' = [owed EXCEPT ![p] = IF op = "delete" /\ file[p] # 0
                                   THEN "now" ELSE "no"]

Enqueue(p, op) ==
    /\ job' = [job EXCEPT ![p] = Row(op, "pending", 0)]
    /\ owed' = [owed EXCEPT ![p] = IF op = "delete" /\ file[p] # 0
                                   THEN "now" ELSE "no"]

\* A fault that leaves the paths in S unqueued.
Miss(S) ==
    /\ faults < MaxFaults
    /\ faults' = faults + 1
    /\ owed' = [p \in Paths |-> IF p \in S THEN "now" ELSE owed[p]]

-----------------------------------------------------------------------------
(* Mutation handlers on the event loop.                                     *)

Locked(p) == \E t \in Threads : p \in thread[t].held

LoopOnly == UNCHANGED <<doc, job, thread, scan, worker, room, owed, faults>>

\* write_file, append_file, edit_file and update_frontmatter hold the path lock
\* of the file; create_note holds that of its folder only and takes a free name.
Write(p) ==
    /\ loop = {}
    /\ Locked(p) => file[p] = 0
    /\ clock < MaxRev
    /\ clock' = clock + 1
    /\ file' = [file EXCEPT ![p] = clock + 1]
    /\ loop' = {[path |-> p, op |-> "index"]}
    /\ LoopOnly

\* The MCP tool delete_file.
Delete(p) ==
    /\ loop = {}
    /\ ~Locked(p)
    /\ file[p] # 0
    /\ file' = [file EXCEPT ![p] = 0]
    /\ loop' = {[path |-> p, op |-> "delete"]}
    /\ UNCHANGED clock
    /\ LoopOnly

\* POST /api/move of a file, /ui/rename and the MCP moves.
Move(p, q) ==
    /\ loop = {}
    /\ ~Locked(p) /\ ~Locked(q)
    /\ file[p] # 0 /\ file[q] = 0
    /\ file' = [file EXCEPT ![p] = 0, ![q] = file[p]]
    /\ loop' = {[path |-> p, op |-> "delete"], [path |-> q, op |-> "moved"]}
    /\ UNCHANGED clock
    /\ LoopOnly

\* move_file has yet to read the file at its new place, without a path lock.
Moving == \E x \in loop : x.op = "moved"

MoveReads(x) ==
    /\ x \in loop /\ x.op = "moved"
    /\ file[x.path] # 0
    /\ loop' = (loop \ {x}) \cup {[path |-> x.path, op |-> "index"]}
    /\ UNCHANGED <<file, clock>>
    /\ LoopOnly

\* The file is gone again or cannot be parsed: read_file raises, and the handler
\* ends without an index call for either path.
MoveReadRaises(x) ==
    /\ x \in loop /\ x.op = "moved"
    /\ file[x.path] \in BadRevs \cup {0}
    /\ loop' = {}
    /\ owed' = [p \in Paths |-> IF \E y \in loop : y.path = p THEN "now" ELSE owed[p]]
    /\ UNCHANGED <<file, clock, doc, job, thread, scan, worker, room, faults>>

\* DELETE /api/folder: no lock of a contained file is taken.
DeleteFolder(F) ==
    /\ loop = {}
    /\ \E p \in F : file[p] # 0
    /\ file' = [p \in Paths |-> IF p \in F THEN 0 ELSE file[p]]
    /\ loop' = {[path |-> p, op |-> "delete"] : p \in {q \in F : file[q] # 0}}
    /\ UNCHANGED clock
    /\ LoopOnly

\* The files after the folder rename m; a rename keeps the revision.
Renamed(m) ==
    [q \in Paths |->
        IF q \in DOMAIN m THEN 0
        ELSE IF \E p \in DOMAIN m : m[p] = q
             THEN file[CHOOSE p \in DOMAIN m : m[p] = q]
             ELSE file[q]]

\* Mutant: the moved files are deindexed but not indexed at their new path.
MoveFolderForgetsTargets(m) ==
    LET moved == {p \in DOMAIN m : file[p] # 0}
    IN  /\ loop = {}
        /\ moved # {}
        /\ \A p \in DOMAIN m : file[m[p]] = 0
        /\ file' = Renamed(m)
        /\ loop' = {[path |-> p, op |-> "delete"] : p \in moved}
        /\ UNCHANGED clock
        /\ LoopOnly

\* POST /api/move of a folder; the target must not exist.
MoveFolder(m) ==
    LET moved == {p \in DOMAIN m : file[p] # 0}
    IN  /\ loop = {}
        /\ moved # {}
        /\ \A p \in DOMAIN m : file[m[p]] = 0
        /\ file' = Renamed(m)
        /\ loop' = {[path |-> p, op |-> "delete"] : p \in moved}
                     \cup {[path |-> m[p], op |-> "index"] : p \in moved}
        /\ UNCHANGED clock
        /\ LoopOnly

\* index_document first updates the FTS row, under the path lock of the file.
LoopIndex(x) ==
    /\ x \in loop /\ x.op = "index"
    /\ ~Locked(x.path)
    /\ loop' = (loop \ {x}) \cup {[path |-> x.path, op |-> "upsert"]}
    /\ UNCHANGED <<file, clock>>
    /\ LoopOnly

\* The queue call at the end of index_document and deindex_document.
LoopEnqueue(x) ==
    /\ x \in loop /\ x.op \in Ops
    /\ ~Moving
    /\ loop' = loop \ {x}
    /\ Enqueue(x.path, x.op)
    /\ UNCHANGED <<file, clock, doc, thread, scan, worker, room, faults>>

\* queue_upsert or queue_delete raises: logged and swallowed.
LoopSwallow(x) ==
    /\ x \in loop /\ x.op \in Ops
    /\ ~Moving
    /\ loop' = loop \ {x}
    /\ Miss({x.path})
    /\ UNCHANGED <<file, clock, doc, job, thread, scan, worker, room>>

\* The FTS half of deindex_document raises: the handler's other calls are lost.
LoopAbandon ==
    /\ \E x \in loop : x.op = "delete"
    /\ ~Moving
    /\ loop' = {}
    /\ Miss({x.path : x \in loop})
    /\ UNCHANGED <<file, clock, doc, job, thread, scan, worker, room>>

-----------------------------------------------------------------------------
(* DELETE /api/file and /api/files in a thread, under the path locks.       *)

ThreadDelete(t, S) ==
    LET found == {p \in S : file[p] # 0}
    IN  /\ thread[t] = IdleThread
        /\ found # {}
        /\ \A p \in S : ~Locked(p)
        /\ file' = [p \in Paths |-> IF p \in found THEN 0 ELSE file[p]]
        /\ thread' = [thread EXCEPT ![t] = Thread(S, found)]
        /\ UNCHANGED <<clock, doc, job, loop, scan, worker, room, owed, faults>>

ThreadEnqueue(t, p) ==
    /\ p \in thread[t].todo
    /\ thread' = [thread EXCEPT ![t] = Thread(@.held, @.todo \ {p})]
    /\ Enqueue(p, "delete")
    /\ UNCHANGED <<file, clock, doc, loop, scan, worker, room, faults>>

\* deindex_files raises before the queue is reached: "index_cleanup" pending.
ThreadAbandon(t) ==
    /\ thread[t].todo # {}
    /\ thread' = [thread EXCEPT ![t] = Thread(@.held, {})]
    /\ Miss(thread[t].todo)
    /\ UNCHANGED <<file, clock, doc, job, loop, scan, worker, room>>

ThreadRelease(t) ==
    /\ thread[t].held # {}
    /\ thread[t].todo = {}
    /\ thread' = [thread EXCEPT ![t] = IdleThread]
    /\ UNCHANGED <<file, clock, doc, job, loop, scan, worker, room, owed, faults>>

\* The mounted volume is edited by another program: nothing is queued.
External(p) ==
    /\ \/ /\ clock < MaxRev
          /\ clock' = clock + 1
          /\ file' = [file EXCEPT ![p] = clock + 1]
       \/ /\ file[p] # 0
          /\ file' = [file EXCEPT ![p] = 0]
          /\ UNCHANGED clock
    /\ Miss({p})
    /\ UNCHANGED <<doc, job, loop, thread, scan, worker, room>>

-----------------------------------------------------------------------------
(* reconcile_workspace.                                                     *)

ScanOnly == UNCHANGED <<file, clock, doc, job, loop, thread, room, owed, faults>>

\* sorted(workspace.rglob("*.md")) lists the files that exist now.
ScanList(r) ==
    /\ scan[r].pc = "idle"
    /\ r = Startup => worker.pc = "start"
    /\ scan' = [scan EXCEPT ![r] =
                  Scan("stat", {p \in Paths \ Special : file[p] # 0}, Unseen, {})]
    /\ UNCHANGED worker
    /\ ScanOnly

\* stat of one listed file; if it is gone by now the scan raises and ends.
ScanStat(r, p) ==
    /\ scan[r].pc = "stat"
    /\ p \in scan[r].list
    /\ scan' = [scan EXCEPT ![r] =
                  IF file[p] = 0 THEN IdleScan
                  ELSE Scan("stat", scan[r].list \ {p},
                            [scan[r].seen EXCEPT ![p] = file[p]], {})]
    /\ UNCHANGED worker
    /\ ScanOnly

\* Mutant: documents whose file is gone are not looked for.
ScanCompareFilesOnly(r) ==
    /\ scan[r].pc = "stat"
    /\ scan[r].list = {}
    /\ LET seen == scan[r].seen
           stale == {p \in Paths : seen[p] # 0 /\ doc[p].rev # seen[p]}
       IN  scan' = [scan EXCEPT ![r] =
                      Scan("queue", {}, Unseen, [path : stale, op : {"upsert"}])]
    /\ UNCHANGED worker
    /\ ScanOnly

\* The documents table is read and compared with what was seen on disk.
ScanCompare(r) ==
    /\ scan[r].pc = "stat"
    /\ scan[r].list = {}
    /\ LET seen == scan[r].seen
           stale == {p \in Paths : seen[p] # 0 /\ doc[p].rev # seen[p]}
           gone  == {p \in Paths : seen[p] = 0 /\ doc[p].rev # 0}
       IN  scan' = [scan EXCEPT ![r] =
                      Scan("queue", {}, Unseen,
                           [path : stale, op : {"upsert"}]
                             \cup [path : gone, op : {"delete"}])]
    /\ UNCHANGED worker
    /\ ScanOnly

\* One enqueue_job of the scan; the deletions come last.
ScanEnqueue(r, x) ==
    /\ scan[r].pc = "queue"
    /\ x \in scan[r].plan
    /\ x.op = "delete" => \A y \in scan[r].plan : y.op = "delete"
    /\ scan' = [scan EXCEPT ![r] = Scan("queue", {}, Unseen, @.plan \ {x})]
    /\ Enqueue(x.path, x.op)
    /\ UNCHANGED <<file, clock, doc, loop, thread, worker, room, faults>>

\* The worker adds the tenant to "reconciled" once its own scan went through.
ScanEnd(r) ==
    /\ scan[r].pc = "queue"
    /\ scan[r].plan = {}
    /\ scan' = [scan EXCEPT ![r] = IdleScan]
    /\ worker' = IF r = Startup THEN IdleWorker("idle") ELSE worker
    /\ ScanOnly

-----------------------------------------------------------------------------
(* process_pending_current_workspace.                                       *)

WorkerOnly == UNCHANGED <<file, clock, loop, thread, scan, room>>

\* The worker turns to the next job of its batch.
NextJob == worker' = Worker("next", worker.batch, NoPath, 0, 0)

\* The worker goes on with its current job.
GoTo(pc, rev, body) ==
    worker' = Worker(pc, worker.batch, worker.path, rev, body)

\* Mutant: rows left "running" by a dead worker are not recovered.
RecoverNothing ==
    /\ worker.pc = "idle"
    /\ room
    /\ Rows("pending") # {}
    /\ worker' = IdleWorker("claim")
    /\ UNCHANGED <<doc, job, owed, faults>>
    /\ WorkerOnly

\* A pass begins, unless the database is at its ceiling or the disk nearly full:
\* then it ends at once, whatever is queued.  recover_running_jobs comes first.
Recover ==
    /\ worker.pc = "idle"
    /\ room
    /\ Rows("pending") \cup Rows("running") # {}
    /\ job' = [p \in Paths |-> IF p \in Rows("running")
                               THEN Row(job[p].op, "pending", job[p].attempts)
                               ELSE job[p]]
    /\ worker' = IdleWorker("claim")
    /\ UNCHANGED <<doc, owed, faults>>
    /\ WorkerOnly

\* claim_jobs: the oldest pending rows, at most Batch; which is any of them.
Claim(S) ==
    /\ worker.pc = "claim"
    /\ S \subseteq Rows("pending")
    /\ S # {}
    /\ Cardinality(S) <= Batch
    /\ Cardinality(S) = Batch \/ S = Rows("pending")
    /\ job' = [p \in Paths |-> IF p \in S
                               THEN Row(job[p].op, "running", job[p].attempts + 1)
                               ELSE job[p]]
    /\ worker' = Worker("next", {[path |-> p, op |-> job[p].op] : p \in S},
                        NoPath, 0, 0)
    /\ UNCHANGED <<doc, owed, faults>>
    /\ WorkerOnly

\* Mutant: an "upsert" is executed without asking whether the file exists.
PickTrustsOp(x) ==
    /\ worker.pc = "next"
    /\ x \in worker.batch
    /\ worker' = Worker(IF x.op = "delete" THEN "drop" ELSE "stat",
                        worker.batch \ {x}, x.path, 0, 0)
    /\ UNCHANGED <<doc, job, owed, faults>>
    /\ WorkerOnly

\* The next job of the batch, by the operation it was claimed with.  A "delete"
\* that outlived a crash may meet a file that is back: it is carried out.
Pick(x) ==
    /\ worker.pc = "next"
    /\ x \in worker.batch
    /\ worker' = Worker(IF x.op = "delete" \/ file[x.path] = 0
                        THEN "drop" ELSE "stat",
                        worker.batch \ {x}, x.path, 0, 0)
    /\ owed' = IF x.op = "delete" /\ file[x.path] # 0 /\ owed[x.path] = "old"
               THEN [owed EXCEPT ![x.path] = "undone"] ELSE owed
    /\ UNCHANGED <<doc, job, faults>>
    /\ WorkerOnly

BatchDone ==
    /\ worker.pc = "next"
    /\ worker.batch = {}
    /\ worker' = IdleWorker("idle")
    /\ UNCHANGED <<doc, job, owed, faults>>
    /\ WorkerOnly

\* delete_document.
Drop ==
    /\ worker.pc = "drop"
    /\ doc' = [doc EXCEPT ![worker.path] = NoDoc]
    /\ GoTo("complete", 0, 0)
    /\ UNCHANGED <<job, owed, faults>>
    /\ WorkerOnly

\* upsert_document: stat, then read, then one transaction.
Stat ==
    /\ worker.pc = "stat"
    /\ GoTo(IF file[worker.path] = 0 THEN "fail" ELSE "read", file[worker.path], 0)
    /\ UNCHANGED <<doc, job, owed, faults>>
    /\ WorkerOnly

Read ==
    /\ worker.pc = "read"
    /\ GoTo(IF file[worker.path] \in BadRevs \cup {0} THEN "fail" ELSE "commit",
            worker.rev, file[worker.path])
    /\ UNCHANGED <<doc, job, owed, faults>>
    /\ WorkerOnly

Commit ==
    /\ worker.pc = "commit"
    /\ doc' = [doc EXCEPT ![worker.path] =
                 [rev |-> worker.rev, body |-> worker.body]]
    /\ GoTo("complete", 0, 0)
    /\ UNCHANGED <<job, owed, faults>>
    /\ WorkerOnly

\* Mutant: the unconditional DELETE the docstring of complete_job warns of.
CompleteAlways ==
    /\ worker.pc = "complete"
    /\ job' = [job EXCEPT ![worker.path] = NoJob]
    /\ NextJob
    /\ UNCHANGED <<doc, owed, faults>>
    /\ WorkerOnly

\* complete_job removes the row unless it was queued again in the meantime.
Complete ==
    /\ worker.pc = "complete"
    /\ job' = IF job[worker.path].state = "running"
              THEN [job EXCEPT ![worker.path] = NoJob] ELSE job
    /\ NextJob
    /\ UNCHANGED <<doc, owed, faults>>
    /\ WorkerOnly

\* Mutant: a failing job is put back without a limit on its attempts.
FailAlwaysRetries ==
    /\ worker.pc = "fail"
    /\ job' = IF job[worker.path].state = "running"
              THEN [job EXCEPT ![worker.path] = Row(@.op, "pending", @.attempts)]
              ELSE job
    /\ NextJob
    /\ UNCHANGED <<doc, owed, faults>>
    /\ WorkerOnly

\* fail_job.
Fail ==
    /\ worker.pc = "fail"
    /\ job' = IF job[worker.path].state = "running"
              THEN [job EXCEPT ![worker.path] =
                      Row(@.op, IF @.attempts >= MaxAttempts
                                THEN "failed" ELSE "pending", @.attempts)]
              ELSE job
    /\ NextJob
    /\ UNCHANGED <<doc, owed, faults>>
    /\ WorkerOnly

\* A transaction of delete_document, upsert_document or complete_job raises.
StepRaises ==
    /\ worker.pc \in {"drop", "commit", "complete"}
    /\ faults < MaxFaults
    /\ faults' = faults + 1
    /\ GoTo("fail", 0, 0)
    /\ UNCHANGED <<doc, job, owed>>
    /\ WorkerOnly

\* fail_job raises: the pass ends, its rows stay "running".
PassRaises ==
    /\ worker.pc = "fail"
    /\ faults < MaxFaults
    /\ faults' = faults + 1
    /\ worker' = IdleWorker("idle")
    /\ UNCHANGED <<doc, job, owed>>
    /\ WorkerOnly

-----------------------------------------------------------------------------
(* Index calls a handler has not yet made.                                  *)
InFlight(p) ==
    \/ \E x \in loop : x.path = p
    \/ \E t \in Threads : p \in thread[t].todo

\* The process dies and is started again; files and database survive.
Crash ==
    /\ faults < MaxFaults
    /\ faults' = faults + 1
    /\ loop' = {}
    /\ thread' = [t \in Threads |-> IdleThread]
    /\ scan' = [r \in Scanners |-> IdleScan]
    /\ worker' = IdleWorker("start")
    /\ owed' = [p \in Paths |-> IF InFlight(p) \/ owed[p] # "no"
                                THEN "old" ELSE "no"]
    /\ UNCHANGED <<file, clock, doc, job, room>>

\* The database or the disk reaches its limit, or comes below it again; only
\* what the next pass of the worker will find matters.
Space ==
    /\ worker.pc = "idle"
    /\ room' = ~room
    /\ UNCHANGED <<file, clock, doc, job, loop, thread, scan, worker, owed, faults>>

LoopStep ==
    \E x \in loop : \/ MoveReads(x) \/ MoveReadRaises(x)
                    \/ LoopIndex(x) \/ LoopEnqueue(x)

ThreadStep(t) ==
    \/ \E p \in Paths : ThreadEnqueue(t, p)
    \/ ThreadRelease(t)

ScanStep(r) ==
    \/ \E p \in Paths : ScanStat(r, p)
    \/ ScanCompare(r)
    \/ \E x \in scan[r].plan : ScanEnqueue(r, x)
    \/ ScanEnd(r)

WorkerStep ==
    \/ Recover
    \/ \E S \in SUBSET Paths : Claim(S)
    \/ \E x \in worker.batch : Pick(x)
    \/ BatchDone \/ Drop \/ Stat \/ Read \/ Commit \/ Complete \/ Fail

Next ==
    \/ \E p \in Paths : Write(p) \/ Delete(p) \/ External(p)
    \/ \E p, q \in Paths : Move(p, q)
    \/ \E F \in Folders : DeleteFolder(F)
    \/ \E m \in FolderMoves : MoveFolder(m)
    \/ LoopStep
    \/ \E x \in loop : LoopSwallow(x)
    \/ LoopAbandon
    \/ \E t \in Threads, S \in SUBSET Paths : ThreadDelete(t, S)
    \/ \E t \in Threads : ThreadStep(t) \/ ThreadAbandon(t)
    \/ \E r \in Scanners : ScanList(r) \/ ScanStep(r)
    \/ WorkerStep \/ StepRaises \/ PassRaises
    \/ Crash
    \/ Space

Spec == Init /\ [][Next]_vars

\* Handlers, threads and scans run to their end, the worker keeps polling and
\* starts its first reconcile; requests, faults and crashes may never come.  That
\* is a promise about the polling only: a pass does nothing while room is lacking.
FairSpec ==
    /\ Spec
    /\ WF_vars(LoopStep)
    /\ \A t \in Threads : WF_vars(ThreadStep(t))
    /\ \A r \in Scanners : WF_vars(ScanStep(r))
    /\ WF_vars(ScanList(Startup))
    /\ WF_vars(WorkerStep)

-----------------------------------------------------------------------------
(* Correctness.                                                             *)

\* The indexed copy of p is what the file holds.
Match(p) == doc[p].rev = file[p] /\ doc[p].body = file[p]

\* A stale copy is never forgotten: whenever the index differs from the file,
\* a row of the queue still names the path, or a handler is about to queue it,
\* or the queue has missed that change for a known reason (a swallowed enqueue,
\* a move that raised, an external edit, a crash, a scan that overtook a file).
\* Guards against a job completed, failed or replaced after its file changed.
StaleIsAccounted ==
    \A p \in Paths : Match(p) \/ HasRow(p) \/ InFlight(p) \/ owed[p] # "no"

\* The inductive invariant behind it, in named parts.
Excused(p) == InFlight(p) \/ owed[p] # "no"

WorkerShape ==
    /\ worker.pc \in {"start", "idle", "claim"} => worker.batch = {}
    /\ worker.pc \in {"drop", "stat", "read", "commit", "complete", "fail"}
         <=> worker.path # NoPath

\* A claimed job that was not queued again still is what the table says.
BatchOps ==
    \A x \in worker.batch :
        job[x.path].state = "running" => job[x.path].op = x.op

\* The paths the worker has claimed and not yet finished.
Taken == {x.path : x \in worker.batch} \cup ({worker.path} \ {NoPath})

\* Each of them once, and with a row: nobody but the worker removes rows.
TakenRows ==
    /\ \A p \in Taken : job[p].state \in {"pending", "running"}
    /\ \A x, y \in worker.batch : x.path = y.path => x = y
    /\ \A x \in worker.batch : x.path # worker.path

\* A row that asks for a deletion speaks of a missing file.
DeleteRows ==
    \A p \in Paths : HasRow(p) /\ job[p].op = "delete"
                        => file[p] = 0 \/ Excused(p)

\* The last change of p since the start is about to be queued, or was missed.
Noticed(p) == InFlight(p) \/ owed[p] \in {"now", "undone"}

\* What the worker has read so far is current unless the row was renewed.
WorkerFresh ==
    LET p == worker.path
    IN  p # NoPath /\ job[p].state = "running" =>
            \/ Noticed(p)
            \/ /\ worker.pc = "drop" => file[p] = 0
               /\ worker.pc \in {"read", "commit"} => worker.rev = file[p]
               /\ worker.pc = "commit" => worker.body = file[p]
               /\ worker.pc = "complete" => Match(p)

\* Together: nothing of what the worker holds has been overtaken unnoticed, so
\* removing a "running" row (complete_job) never forgets a stale document.
NothingOvertaken ==
    /\ WorkerShape /\ TakenRows /\ BatchOps
    /\ DeleteRows /\ WorkerFresh /\ StaleIsAccounted

\* What reconcile asks of a document: that it has the revision of the file.  It
\* is less than Match: a worker that stats one version and reads the next leaves a
\* document that a crash can make permanent (the first version is moved back and
\* the index calls of the move are lost), since no later comparison tells.
UpToDate(p) == doc[p].rev = file[p]

\* What a crash, an external edit or the state before the first start left
\* stale is found by the reconcile that follows each start: once it is over,
\* only paths missed since then can be out of date without a row.  The exception
\* is a "delete" row older than the crash that meets a file that is back
\* ("undone").  (Plan 6.6; reconcile.py and the "reconciled" set of worker.py.)
RestartRepairs ==
    worker.pc # "start" =>
        \A p \in Paths \ Special :
            owed[p] = "old" => UpToDate(p) \/ InFlight(p) \/ HasRow(p)

\* A job given up has really been tried MaxAttempts times since it was last
\* queued, and only a crash or a failing queue write adds an execution.
AttemptsCounted ==
    \A p \in Paths :
        /\ job[p].state = "failed" => job[p].attempts >= MaxAttempts
        /\ job[p].attempts <= MaxAttempts + faults

\* Plan 7.4: reconcile keeps "Abbruch, Neustart und gleichzeitige Aenderungen
\* sicher".  Without any fault, a note that exists is indexed or queued once
\* the first reconcile is over.  The code breaks this: a scan that listed the
\* workspace before the note was created, and compares after the worker indexed
\* it, queues a "delete" (reconcile.py); the worker then removes the existing note.
ConcurrentChangesSafe ==
    worker.pc # "start" =>
        \A p \in Paths \ Special :
            file[p] # 0 => doc[p].rev # 0 \/ HasRow(p) \/ InFlight(p)

\* Once the files stop changing and there is room for good, the index agrees with
\* every file, and stays so, unless the queue has missed the file or the extractor
\* refuses it; there are fewer faults than the attempts after which a job is given
\* up.  At the ceiling (service.py, KIWIKI_KNOWLEDGE_MAX_DB_BYTES) nothing converges:
\* not even a queued deletion is carried out.
Converges ==
    <>[][file' = file]_vars /\ <>[]room =>
        <>[](\A p \in Paths \ Special :
               Match(p) \/ owed[p] # "no" \/ file[p] \in BadRevs)

-----------------------------------------------------------------------------
(* The queue as DirtyQueue describes it.  A "running" row is busy while the *)
(* worker's batch has it and dirty again once the worker has lost it; a row *)
(* queued again during its execution is both busy and dirty.                *)

Dirty == Rows("pending") \cup (Rows("running") \ Taken)

Queue == INSTANCE DirtyQueue WITH
             dirty  <- Dirty,
             busy   <- Taken,
             failed <- Rows("failed")

\* The table, with its upserts, state guards and recovery, implements the
\* dirty queue: no mark is lost to the completion or failure of an execution
\* that started before it, to a crash or to an aborted pass.
ImplementsDirtyQueue == Queue!Spec

\* And dirty paths are executed again and again until they are clean, if there is
\* room from some time on; room that comes and goes may be gone at every poll.
ServesDirtyQueue == <>[]room => Queue!Fairness

\* The executions the row of p may still start: the next one while the row is
\* dirty, and the retries up to the limit while it has not been given up.
Executions(p) ==
    {k \in 1..(MaxAttempts + faults + 1) :
        /\ k > job[p].attempts
        /\ \/ p \in Dirty /\ k = job[p].attempts + 1
           \/ p \in Rows("pending") \cup Rows("running") /\ k <= MaxAttempts}

\* What the worker has still to do before it takes its next job.
Stage == [start |-> 0, claim |-> 1, idle |-> 2, next |-> 3, complete |-> 4, fail |-> 4,
          drop |-> 5, commit |-> 5, read |-> 6, stat |-> 7]

WorkerAdvances ==
    /\ \A p \in Paths : Executions(p)' \subseteq Executions(p)
    /\ \/ \E p \in Paths : Executions(p)' # Executions(p)
       \/ worker'.batch # worker.batch /\ worker'.batch \subseteq worker.batch
       \/ worker'.batch = worker.batch /\ Stage[worker'.pc] < Stage[worker.pc]

\* The worker never spins: each of its steps uses up an execution some row was
\* entitled to, else a job of its batch, else a stage of the job in hand, and gives
\* no row an execution it did not have.  So between two marks, faults or starts it
\* comes to rest, whatever the files do meanwhile: no job is retried for ever, and
\* no recovery feeds the next pass by itself (jobs.py, fail_job, claim_jobs).
EachStepIsProgress == [][WorkerStep => WorkerAdvances]_vars
=============================================================================
