---------------------------- MODULE SearchIndex ----------------------------
(***************************************************************************)
(* The full-text index of one tenant (app/search.py) and the files it      *)
(* copies (app/storage.py).                                                *)
(*                                                                         *)
(* The handlers of the event loop change a file and then call index_file   *)
(* and deindex_file; they never await in between, so one of them runs at a *)
(* time.  Thread-pool threads run the REST deletions and hold the path     *)
(* locks of their files until the rows are gone.  Each thread has one      *)
(* SQLite connection that lives as long as the process.  SQLite has one    *)
(* write lock; who does not get it within the busy timeout fails with      *)
(* SQLITE_BUSY, and so does, at once, a transaction that has read a        *)
(* snapshot older than the last commit.                                    *)
(*                                                                         *)
(* index_file swallows such a failure without a rollback, so the loop's    *)
(* connection keeps the transaction Python opened for it: variable txn.    *)
(* deindex_files rolls back and tries three times.                         *)
(*                                                                         *)
(* A revision is the st_mtime_ns of a file, which also stands for its      *)
(* content and for the time it was written; a rename keeps it.             *)
(***************************************************************************)
EXTENDS Naturals, FiniteSets

CONSTANTS
    Paths,      \* Markdown paths of the workspace
    Special,    \* AGENTS.md and index.md, which a reindex leaves out
    Threads,    \* thread-pool threads that run REST deletions
    Loop,       \* the event loop's thread
    Nobody,     \* neither
    NoPath,     \* no path
    Tries,      \* attempts of deindex_files
    MaxRev,     \* bound: revisions written in a behaviour
    MaxFaults   \* bound: faults and crashes in a behaviour

ASSUME SearchAssumption ==
    /\ Special \subseteq Paths
    /\ NoPath \notin Paths
    /\ Loop \notin Threads /\ Nobody \notin Threads \cup {Loop}
    /\ Tries \in Nat /\ Tries > 1
    /\ MaxRev \in Nat \ {0}
    /\ MaxFaults \in Nat

VARIABLES
    file,    \* file[p]: revision of the file, 0 when there is none
    clock,   \* time of the last write
    row,     \* row[p]: committed FTS row, revision and content; 0 for none
    writer,  \* the thread whose connection holds SQLite's write lock
    txn,     \* transaction of the loop's connection, see below
    calls,   \* index calls the loop's handler still has to make
    work,    \* the index_file or deindex_file call the loop is in
    thread,  \* per thread: path locks held, paths to deindex, failed attempts
    boot,    \* startup: reindex_changed still runs ("list", "index") or "up"
    todo,    \* paths the startup pass still has to look at
    stamp,   \* contents of .last_reindex, 0 when there is none
    since,   \* the stamp that the last startup pass compared with
    owed,    \* history: has the index missed the last change of a path?
    faults   \* number of faults so far

vars == <<file, clock, row, writer, txn, calls, work, thread, boot, todo, stamp,
          since, owed, faults>>

Revs == 0..MaxRev
Call == [path : Paths, op : {"upsert", "delete", "moved"}]
NoRow == [rev |-> 0, body |-> 0]

Work(pc, path, rev, body, tries) ==
    [path |-> path, rev |-> rev, body |-> body, pc |-> pc, tries |-> tries]
NoWork == Work("idle", NoPath, 0, 0, 0)

Thread(held, paths, tries) == [tries |-> tries, held |-> held, paths |-> paths]
IdleThread == Thread({}, {}, 0)

\* txn: "closed" outside a transaction; "open" after a BEGIN whose first
\* statement failed; "current" once a SELECT has read in it; "stale" when
\* another connection has committed since that SELECT.
TypeOK ==
    /\ file \in [Paths -> Revs] /\ clock \in Revs
    /\ row \in [Paths -> [rev : Revs, body : Revs]]
    /\ writer \in Threads \cup {Loop, Nobody}
    /\ txn \in {"closed", "open", "current", "stale"}
    /\ calls \in SUBSET Call
    /\ work \in [path : Paths \cup {NoPath}, rev : Revs, body : Revs,
                 pc : {"idle", "stat", "write", "commit", "drop"},
                 tries : 0..(Tries - 1)]
    /\ thread \in [Threads -> [tries : 0..(Tries - 1),
                               held : SUBSET Paths, paths : SUBSET Paths]]
    /\ boot \in {"list", "index", "up"} /\ todo \in SUBSET Paths
    /\ stamp \in Revs /\ since \in Revs
    /\ owed \in [Paths -> {"no", "now", "old"}]
    /\ faults \in 0..MaxFaults

Init ==
    /\ file \in [Paths -> {0, 1}]
    /\ clock = 1
    /\ row = [p \in Paths |-> NoRow]
    /\ writer = Nobody /\ txn = "closed"
    /\ calls = {} /\ work = NoWork
    /\ thread = [t \in Threads |-> IdleThread]
    /\ boot = "list" /\ todo = {}
    /\ stamp = 0 /\ since = 0
    /\ owed = [p \in Paths |-> IF file[p] = 0 THEN "no" ELSE "old"]
    /\ faults = 0

-----------------------------------------------------------------------------
(* The files.                                                               *)

\* _path_lock and _locked_paths; index_file holds the lock of its own path.
Locked(p) == (\E t \in Threads : p \in thread[t].held) \/ work.path = p

Ready == boot = "up" /\ calls = {} /\ work = NoWork

FilesOnly == UNCHANGED <<row, writer, txn, work, thread, boot, todo, stamp, since,
                         owed, faults>>

\* write_file, append_file, edit_file and update_frontmatter hold the path lock
\* of the file; create_note holds that of its folder only and takes a free name.
Write(p) ==
    /\ Ready
    /\ Locked(p) => file[p] = 0
    /\ clock < MaxRev
    /\ clock' = clock + 1
    /\ file' = [file EXCEPT ![p] = clock + 1]
    /\ calls' = {[path |-> p, op |-> "upsert"]}
    /\ FilesOnly

\* delete_file on the event loop (MCP).
Delete(p) ==
    /\ Ready /\ ~Locked(p)
    /\ file[p] # 0
    /\ file' = [file EXCEPT ![p] = 0]
    /\ calls' = {[path |-> p, op |-> "delete"]}
    /\ UNCHANGED clock
    /\ FilesOnly

\* move_file and its callers.
Move(p, q) ==
    /\ Ready /\ ~Locked(p) /\ ~Locked(q)
    /\ file[p] # 0 /\ file[q] = 0
    /\ file' = [file EXCEPT ![p] = 0, ![q] = file[p]]
    /\ calls' = {[path |-> p, op |-> "delete"], [path |-> q, op |-> "moved"]}
    /\ UNCHANGED clock
    /\ FilesOnly

\* move_file has yet to read the file at its new place, without a path lock.
MoveReads(x) ==
    /\ x \in calls /\ x.op = "moved"
    /\ file[x.path] # 0
    /\ calls' = (calls \ {x}) \cup {[path |-> x.path, op |-> "upsert"]}
    /\ UNCHANGED <<file, clock>>
    /\ FilesOnly

\* It is gone again: the read raises, no index call is made for either path.
MoveReadRaises(x) ==
    /\ x \in calls /\ x.op = "moved"
    /\ file[x.path] = 0
    /\ calls' = {}
    /\ owed' = [p \in Paths |-> IF \E y \in calls : y.path = p THEN "now"
                                ELSE owed[p]]
    /\ UNCHANGED <<file, clock, row, writer, txn, work, thread, boot, todo, stamp,
                   since, faults>>

\* The rows of the paths in S are deleted; the index then agrees with a missing file.
Removes(S) ==
    /\ row' = [p \in Paths |-> IF p \in S THEN NoRow ELSE row[p]]
    /\ owed' = [p \in Paths |-> IF p \in S /\ file[p] = 0 THEN "no" ELSE owed[p]]

\* A fault after which the index may differ from the files in S.
Miss(S) ==
    /\ faults < MaxFaults
    /\ faults' = faults + 1
    /\ owed' = [p \in Paths |-> IF p \in S THEN "now" ELSE owed[p]]

\* The mounted volume is edited by another program.
External(p) ==
    /\ \/ /\ clock < MaxRev
          /\ clock' = clock + 1
          /\ file' = [file EXCEPT ![p] = clock + 1]
       \/ /\ file[p] # 0
          /\ file' = [file EXCEPT ![p] = 0]
          /\ UNCHANGED clock
    /\ Miss({p})
    /\ UNCHANGED <<row, writer, txn, calls, work, thread, boot, todo, stamp, since>>

-----------------------------------------------------------------------------
(* index_file on the loop, called by a handler or by the startup pass.      *)

\* The call is over, however it went; the handler goes on with the next one.
Finished(p) ==
    /\ work' = NoWork
    /\ calls' = calls \ {[path |-> p, op |-> "upsert"]}
    /\ todo' = todo \ {p}

IndexOnly == UNCHANGED <<file, clock, thread, boot, stamp, since>>

\* May the loop call index_file(p) now?  Deletions of a move come first.
Indexes(p) ==
    /\ work = NoWork
    /\ \/ /\ [path |-> p, op |-> "upsert"] \in calls
          /\ \A x \in calls : x.op = "upsert"
       \/ /\ boot = "index" /\ p \in todo
          /\ file[p] > stamp

\* The path lock is taken; the file is read, unless it is gone.
IndexRead(p) ==
    /\ Indexes(p) /\ ~Locked(p)
    /\ IF file[p] = 0
       THEN Finished(p)
       ELSE /\ work' = Work("stat", p, 0, file[p], 0)
            /\ UNCHANGED <<calls, todo>>
    /\ UNCHANGED <<row, writer, txn, owed, faults>>
    /\ IndexOnly

\* Reading fails (not UTF-8, broken frontmatter): logged and swallowed.
IndexUnreadable(p) ==
    /\ Indexes(p) /\ ~Locked(p)
    /\ file[p] # 0
    /\ Finished(p)
    /\ Miss({p})
    /\ UNCHANGED <<row, writer, txn>>
    /\ IndexOnly

\* stat().st_mtime_ns; raises when an external edit has removed the file.
IndexStat ==
    /\ work.pc = "stat"
    /\ IF file[work.path] = 0
       THEN Finished(work.path)
       ELSE /\ work' = Work("write", work.path, file[work.path], work.body, 0)
            /\ UNCHANGED <<calls, todo>>
    /\ UNCHANGED <<row, writer, txn, owed, faults>>
    /\ IndexOnly

\* BEGIN and DELETE: the write lock is obtained.
IndexWrite ==
    /\ work.pc = "write"
    /\ writer = Nobody /\ txn # "stale"
    /\ writer' = Loop
    /\ work' = Work("commit", work.path, work.rev, work.body, 0)
    /\ UNCHANGED <<row, txn, calls, todo, owed, faults>>
    /\ IndexOnly

\* SQLITE_BUSY or SQLITE_BUSY_SNAPSHOT: logged, swallowed, not rolled back.
IndexBusy ==
    /\ work.pc = "write"
    /\ writer \in Threads \/ txn = "stale"
    /\ txn' = IF txn = "closed" THEN "open" ELSE txn
    /\ owed' = [owed EXCEPT ![work.path] = "now"]
    /\ Finished(work.path)
    /\ UNCHANGED <<row, writer, faults>>
    /\ IndexOnly

\* INSERT and commit.  An external edit during the call stays owed.
IndexCommit ==
    LET p == work.path IN
    /\ work.pc = "commit"
    /\ row' = [row EXCEPT ![p] = [rev |-> work.rev, body |-> work.body]]
    /\ writer' = Nobody /\ txn' = "closed"
    /\ owed' = IF work.body = file[p] THEN [owed EXCEPT ![p] = "no"] ELSE owed
    /\ Finished(p)
    /\ UNCHANGED faults
    /\ IndexOnly

-----------------------------------------------------------------------------
(* deindex_file on the loop: no path lock, three attempts.                  *)

DropStart(x) ==
    /\ work = NoWork
    /\ x \in calls /\ x.op = "delete"
    /\ \A y \in calls : y.op # "moved"
    /\ work' = Work("drop", NoPath, 0, 0, 0)
    /\ UNCHANGED <<row, writer, txn, calls, todo, owed, faults>>
    /\ IndexOnly

\* The one deletion of the handler is executed and committed.
Drop ==
    /\ work.pc = "drop"
    /\ writer = Nobody /\ txn # "stale"
    /\ Removes({x.path : x \in {y \in calls : y.op = "delete"}})
    /\ txn' = "closed"
    /\ calls' = {x \in calls : x.op # "delete"}
    /\ work' = NoWork
    /\ UNCHANGED <<writer, todo, faults>>
    /\ IndexOnly

\* Mutant: the failed attempt is not rolled back.
DropBusyKeepsTxn ==
    /\ work.pc = "drop"
    /\ writer \in Threads \/ txn = "stale"
    /\ txn' = IF txn = "closed" THEN "open" ELSE txn
    /\ IF work.tries + 1 = Tries
       THEN /\ work' = NoWork /\ calls' = {}
            /\ owed' = [p \in Paths |-> IF \E x \in calls : x.path = p
                                        THEN "now" ELSE owed[p]]
       ELSE /\ work' = Work("drop", NoPath, 0, 0, work.tries + 1)
            /\ UNCHANGED <<calls, owed>>
    /\ UNCHANGED <<row, writer, todo, faults>>
    /\ IndexOnly

\* A failed attempt is rolled back; the last one raises, and the handler's
\* other index calls are not made.
DropBusy ==
    /\ work.pc = "drop"
    /\ writer \in Threads \/ txn = "stale"
    /\ txn' = "closed"
    /\ IF work.tries + 1 = Tries
       THEN /\ work' = NoWork /\ calls' = {}
            /\ owed' = [p \in Paths |-> IF \E x \in calls : x.path = p
                                        THEN "now" ELSE owed[p]]
       ELSE /\ work' = Work("drop", NoPath, 0, 0, work.tries + 1)
            /\ UNCHANGED <<calls, owed>>
    /\ UNCHANGED <<row, writer, todo, faults>>
    /\ IndexOnly

-----------------------------------------------------------------------------
(* search on the loop.                                                      *)

SearchOnly == UNCHANGED <<file, clock, row, writer, calls, work, thread, boot, todo,
                          stamp, since, owed, faults>>

\* A SELECT inside a transaction left open takes its snapshot now.
AfterSelect == IF txn = "open" THEN "current" ELSE txn

\* "tag:" queries only read; other queries add a row to search_history.
SearchTag ==
    /\ Ready
    /\ txn' = AfterSelect
    /\ SearchOnly

SearchRecorded ==
    /\ Ready
    /\ writer = Nobody /\ txn # "stale"
    /\ txn' = "closed"
    /\ SearchOnly

\* The history row cannot be written: logged, swallowed, not rolled back.
SearchBusy ==
    /\ Ready
    /\ writer \in Threads \/ txn = "stale"
    /\ txn' = IF txn = "closed" THEN "open" ELSE AfterSelect
    /\ SearchOnly

-----------------------------------------------------------------------------
(* DELETE /api/file and /api/files in a thread.                             *)

ThreadOnly == UNCHANGED <<clock, calls, work, boot, todo, stamp, since, faults>>

\* Mutant: the path locks are released before the rows are deleted.
ThreadDeleteUnlocked(t, S) ==
    LET found == {p \in S : file[p] # 0}
    IN  /\ boot = "up"
        /\ thread[t] = IdleThread
        /\ found # {}
        /\ \A p \in S : ~Locked(p)
        /\ file' = [p \in Paths |-> IF p \in found THEN 0 ELSE file[p]]
        /\ thread' = [thread EXCEPT ![t] = Thread({}, found, 0)]
        /\ UNCHANGED <<row, writer, txn, owed>>
        /\ ThreadOnly

ThreadDelete(t, S) ==
    LET found == {p \in S : file[p] # 0}
    IN  /\ boot = "up"
        /\ thread[t] = IdleThread
        /\ found # {}
        /\ \A p \in S : ~Locked(p)
        /\ file' = [p \in Paths |-> IF p \in found THEN 0 ELSE file[p]]
        /\ thread' = [thread EXCEPT ![t] = Thread(S, found, 0)]
        /\ UNCHANGED <<row, writer, txn, owed>>
        /\ ThreadOnly

ThreadWrite(t) ==
    /\ thread[t].paths # {}
    /\ writer = Nobody
    /\ writer' = t
    /\ UNCHANGED <<file, row, txn, thread, owed>>
    /\ ThreadOnly

ThreadCommit(t) ==
    /\ writer = t
    /\ Removes(thread[t].paths)
    /\ writer' = Nobody
    /\ txn' = IF txn = "current" THEN "stale" ELSE txn
    /\ thread' = [thread EXCEPT ![t] = IdleThread]
    /\ UNCHANGED file
    /\ ThreadOnly

\* The last failed attempt raises: "index_cleanup" pending, rows stay behind.
ThreadBusy(t) ==
    /\ thread[t].paths # {}
    /\ writer \notin {t, Nobody}
    /\ thread' = [thread EXCEPT ![t] =
                    IF @.tries + 1 = Tries THEN IdleThread
                    ELSE Thread(@.held, @.paths, @.tries + 1)]
    /\ owed' = [p \in Paths |-> IF thread[t].tries + 1 = Tries
                                   /\ p \in thread[t].paths THEN "now" ELSE owed[p]]
    /\ UNCHANGED <<file, row, writer, txn>>
    /\ ThreadOnly

-----------------------------------------------------------------------------
(* Crash and restart; reindex_changed runs before requests are served.      *)

InFlight(p) == (\E x \in calls : x.path = p) \/ (\E t \in Threads : p \in thread[t].paths)

Crash ==
    /\ faults < MaxFaults
    /\ faults' = faults + 1
    /\ writer' = Nobody /\ txn' = "closed"
    /\ calls' = {} /\ work' = NoWork
    /\ thread' = [t \in Threads |-> IdleThread]
    /\ boot' = "list" /\ todo' = {}
    /\ owed' = [p \in Paths |-> IF InFlight(p) \/ owed[p] # "no"
                                THEN "old" ELSE "no"]
    /\ UNCHANGED <<file, clock, row, stamp, since>>

\* Rows of paths that are gone, or Special, are removed; without a stamp all.
BootList ==
    /\ boot = "list"
    /\ LET current == {p \in Paths \ Special : file[p] # 0}
       IN  /\ row' = [p \in Paths |-> IF p \in current /\ stamp > 0
                                      THEN row[p] ELSE NoRow]
           /\ todo' = current
    /\ boot' = "index"
    /\ UNCHANGED <<file, clock, writer, txn, calls, work, thread, stamp, since, owed,
                   faults>>

\* Mutant: files that have a row are skipped, whatever its revision.
BootSkipIndexed(p) ==
    /\ boot = "index" /\ work = NoWork
    /\ p \in todo
    /\ file[p] <= stamp \/ row[p].rev # 0
    /\ todo' = todo \ {p}
    /\ UNCHANGED <<file, clock, row, writer, txn, calls, work, thread, boot, stamp,
                   since, owed, faults>>

\* A listed file that is not newer than the stamp is left alone.
BootSkip(p) ==
    /\ boot = "index" /\ work = NoWork
    /\ p \in todo
    /\ file[p] <= stamp
    /\ todo' = todo \ {p}
    /\ UNCHANGED <<file, clock, row, writer, txn, calls, work, thread, boot, stamp,
                   since, owed, faults>>

BootEnd ==
    /\ boot = "index" /\ work = NoWork
    /\ todo = {}
    /\ boot' = "up"
    /\ stamp' = clock
    /\ since' = stamp
    /\ UNCHANGED <<file, clock, row, writer, txn, calls, work, thread, todo, owed,
                   faults>>

LoopStep ==
    \/ \E p \in Paths : IndexRead(p) \/ BootSkip(p)
    \/ IndexStat \/ IndexWrite \/ IndexBusy \/ IndexCommit
    \/ \E x \in calls : DropStart(x)
    \/ Drop \/ DropBusy
    \/ BootList \/ BootEnd

ThreadStep(t) == ThreadWrite(t) \/ ThreadCommit(t) \/ ThreadBusy(t)

Next ==
    \/ \E p \in Paths : Write(p) \/ Delete(p) \/ External(p) \/ IndexUnreadable(p)
    \/ \E p, q \in Paths : Move(p, q)
    \/ \E x \in calls : MoveReads(x) \/ MoveReadRaises(x)
    \/ LoopStep
    \/ SearchTag \/ SearchRecorded \/ SearchBusy
    \/ \E t \in Threads, S \in SUBSET Paths : ThreadDelete(t, S)
    \/ \E t \in Threads : ThreadStep(t)
    \/ Crash

Spec == Init /\ [][Next]_vars

-----------------------------------------------------------------------------
(* Correctness.                                                             *)

\* The row of p is found by search and shows what the file holds.
Match(p) == row[p].rev = file[p] /\ row[p].body = file[p]

\* While requests are served, search shows a file with its present content and
\* none that is gone, or an index call is about to see to it, or the index has
\* missed the change for a reason that was logged or reported.  Guards against a
\* deletion that removes the row of a file written after it, against content stored
\* under the revision of a later edit, and against rows of deleted files.
SearchableOrOwed ==
    boot = "up" =>
        \A p \in Paths \ Special : Match(p) \/ InFlight(p) \/ owed[p] # "no"

\* What the index missed before a restart is repaired by it, with one exception: a
\* file no newer than the stamp the last startup compared with is not looked at.
\* A moved file keeps its revision, so a move whose index call was lost stays unfound,
\* and so does a file whose indexing failed in an earlier startup pass, which stamps
\* its time all the same (search.py:476-494).
RestartReindexes ==
    boot = "up" =>
        \A p \in Paths \ Special :
            owed[p] = "old" =>
                Match(p) \/ InFlight(p) \/ (file[p] # 0 /\ file[p] <= since)

\* deindex_files gives up only while another thread holds the write lock: its
\* rollback also gets rid of a transaction that index_file or search left behind.
GivesUpOnlyUnderContention == [][DropBusy /\ work' = NoWork => writer \in Threads]_vars

\* An index write fails only while another connection writes; "nur ein Schreiber
\* zur Zeit. Wer den Lock nicht bekommt, muss warten" (test_sqlite_timeouts.py),
\* and the write paths of the index retry (search.py, _get_pooled_conn).  The code
\* breaks this: one collision leaves the loop's transaction open, the next tag
\* search takes its snapshot, the next deletion makes it stale, and from then on
\* every index_file of the loop fails with nobody else writing.
FailsOnlyUnderContention == [][IndexBusy => writer \in Threads]_vars
=============================================================================
