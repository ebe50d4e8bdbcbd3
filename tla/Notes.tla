------------------------------- MODULE Notes -------------------------------
(***************************************************************************)
(* The Markdown notes of one workspace (app/storage.py) with the REST      *)
(* handlers and MCP tools that write them.  Handlers and tools run on the  *)
(* event loop, one at a time; only the two DELETE handlers of the REST     *)
(* interface run in threads, and a thread's steps fall between any two     *)
(* file accesses of an operation that makes several: a scan of a folder, a *)
(* batch, a rename that rewrites links, the removal of a folder.           *)
(*                                                                         *)
(* A note is what the properties tell apart: its revision (the mtime of    *)
(* its file), the words of its text, its links and its title.              *)
(***************************************************************************)
EXTENDS Naturals, Sequences, FiniteSets, FiniteSetsExt

CONSTANTS
    Dirs, Names, \* folders and file names; a note's path is <<dir, name>>
    Slots,       \* names that a title gives: slug, slug-2, ... in order
    Title,       \* the title notes are created and looked for with
    NoTitle,     \* any other title
    Words, New,  \* words of notes; the ones that calls bring
    Edited,      \* notes that calls on a single note name
    Here,        \* the folder of the note a relative link stands in
    Links,       \* links that occur, <<dir or Here, name>>
    Masks,       \* <<x, n>>: the word, title or name x has the file name n in it
    Seeds,       \* the workspace at the start: a function on some paths
    Batches,     \* sets of paths that one call names
    Moves,       \* moves and renames, pairs of paths
    Sorts,       \* sets of them that one call names
    Clients,     \* clients that write with the revision they have read
    Threads,     \* threads that run DELETE /api/file and /api/files
    Loop,        \* the event loop
    None,        \* no value
    Locks,       \* number of locks, len(_PATH_LOCKS)
    Stripe,      \* the lock of a path or folder, in the order of their ids
    MaxFiles,    \* KIWIKI_MAX_TENANT_FILES
    MaxClock,    \* bound: readings of the file system's clock
    MaxOps       \* bound: operations that begin

Paths == Dirs \X Names

ASSUME NotesAssumption ==
    /\ Slots \in Seq(Names) /\ Links \subseteq (Dirs \cup {Here}) \X Names
    /\ Moves \subseteq Paths \X Paths
    /\ Masks \subseteq ({Title, NoTitle} \cup Words \cup Names) \X Names
    /\ New \subseteq Words /\ Edited \subseteq Paths
    /\ Batches \subseteq SUBSET Paths /\ Sorts \subseteq SUBSET (Paths \X Paths)
    /\ Loop \notin Threads \cup Clients /\ Here \notin Dirs /\ Title # NoTitle
    /\ None \notin Paths \cup Dirs
    /\ None \notin {Title, NoTitle} \X (SUBSET Words) \X (SUBSET Links)
    \* what a rename makes of a link occurs, too
    /\ \A l \in Links, m \in Moves : <<l[1], m[2][2]>> \in Links
    /\ Locks \in Nat /\ Stripe \in [Paths \cup Dirs -> 1..Locks]
    /\ MaxFiles \in Nat /\ MaxClock \in Nat \ {0} /\ MaxOps \in Nat

VARIABLES
    note,   \* note[p]: what is stored at p
    dirs,   \* directories that exist
    clock,  \* the clock of the file system, as coarse as its mtimes
    base,   \* base[c]: what client c has read last
    job,    \* the operation the event loop is in
    del,    \* del[t]: the deletion thread t makes
    held,   \* held[a]: locks that the loop or a thread holds
    cache,  \* cache[d]: the cached listing of d, or None
    ops,    \* number of operations that have begun
    acked,  \* history: <<p, w>>, w was acknowledged as written to p
    top,    \* history: last stamp p has carried; Twin if one came twice
    ghosts  \* history: notes that vanished while a folder was listed or removed

vars == <<note, dirs, clock, base, job, del, held, cache, ops, acked, top, ghosts>>

Note(r, ws, ls, t) == [title |-> t, rev |-> r, words |-> ws, links |-> ls]
Absent == Note(0, {}, {}, NoTitle)
View(p, n) == [note |-> n, path |-> p]
Unread == View(None, Absent)

\* todo: what is left to do.  src, dst: paths or folders.  old, word: what is
\* replaced by what; in a rename, old is history: notes that may keep their links.
\* snap: a note as it was read.
Job(o, todo, src, dst, old, w, snap) ==
    [todo |-> todo, src |-> src, dst |-> dst, old |-> old, snap |-> snap, op |-> o,
     word |-> w]
Idle == Job("none", {}, None, None, None, None, Unread)
Del(phase, all, todo) == [todo |-> todo, phase |-> phase, all |-> all]
NoDel == Del("idle", {}, {})

Agents == Threads \cup {Loop}
Twin   == MaxClock + 1
Titles == {Title, NoTitle}

NoteType == [title : Titles, rev : 0..MaxClock, words : SUBSET Words,
             links : SUBSET Links]
ViewType == [note : NoteType, path : Paths \cup {None}]

\* The workspace at the start holds notes.
ASSUME SeedsAssumption ==
    /\ DOMAIN Seeds \subseteq Paths
    /\ \A p \in DOMAIN Seeds : Seeds[p] \in NoteType /\ Seeds[p].rev \in 1..MaxClock

TypeOK ==
    /\ note \in [Paths -> NoteType] /\ dirs \subseteq Dirs /\ clock \in 1..MaxClock
    /\ base \in [Clients -> ViewType]
    /\ job.op \in {"none", "move", "rename", "links", "sort", "move_folder",
                   "write_many", "replace_many", "delete_folder", "rmtree", "list",
                   "upsert_list", "upsert"}
    /\ job.snap \in ViewType
    /\ del \in [Threads -> [todo : SUBSET Paths,
                            phase : {"idle", "delete", "clear"},
                            all : SUBSET Paths]]
    /\ \A a \in Agents : held[a] \subseteq {Stripe[x] : x \in Paths \cup Dirs}
    /\ \A a, b \in Agents : a # b => held[a] \cap held[b] = {}
    /\ acked \subseteq Paths \X Words /\ top \in [Paths -> 0..Twin]
    /\ \A d \in Dirs : cache[d] = None \/ cache[d] \subseteq Paths \X Titles

Init ==
    /\ note = [p \in Paths |-> IF p \in DOMAIN Seeds THEN Seeds[p] ELSE Absent]
    /\ dirs = {p[1] : p \in DOMAIN Seeds}
    /\ clock = 1
    /\ base = [c \in Clients |-> Unread]
    /\ job = Idle
    /\ del = [t \in Threads |-> NoDel]
    /\ held = [a \in Agents |-> {}]
    /\ cache = [d \in Dirs |-> None]
    /\ ops = 0
    /\ acked = {x \in Paths \X Words : x[2] \in note[x[1]].words}
    /\ top = [p \in Paths |-> note[p].rev]
    /\ ghosts = {}

-----------------------------------------------------------------------------
(* Files and locks.                                                         *)

Exists(p) == note[p].rev # 0
Files     == {p \in Paths : Exists(p)}
In(d)     == {p \in Files : p[1] = d}

\* _path_lock: the loop can take the lock of x (it waits otherwise).
Free(x) == \A t \in Threads : Stripe[x] \notin held[t]

\* _enforce_tenant_quota, for the number of files.
Fits(p) == Cardinality(Files \cup {p}) <= MaxFiles

NoLists == [d \in Dirs |-> None]

Seen(p, r) == IF r = 0 THEN top[p] ELSE IF r <= top[p] THEN Twin ELSE r

\* Mutant: the caches are cleared only when notes come or go.
StoreLazily(S, n) ==
    /\ note' = [p \in Paths |-> IF p \in S THEN n[p] ELSE note[p]]
    /\ dirs' = dirs \cup {p[1] : p \in {q \in S : n[q].rev # 0}}
    /\ top' = [p \in Paths |-> IF p \in S THEN Seen(p, n[p].rev) ELSE top[p]]
    /\ cache' = IF \E p \in S : (n[p].rev = 0) # (note[p].rev = 0) THEN NoLists ELSE cache
    /\ ghosts' = {}

\* The notes of S now are as n says; the caches are cleared.
Store(S, n) ==
    /\ note' = [p \in Paths |-> IF p \in S THEN n[p] ELSE note[p]]
    /\ dirs' = dirs \cup {p[1] : p \in {q \in S : n[q].rev # 0}}
    /\ top' = [p \in Paths |-> IF p \in S THEN Seen(p, n[p].rev) ELSE top[p]]
    /\ cache' = NoLists
    /\ ghosts' = {}

\* _atomic_write_text: the whole note is replaced, with the present mtime.
\* saw are words whose loss the writer knows of.
Writes(p, ws, ls, t, added, saw) ==
    /\ Fits(p)
    /\ Store({p}, [q \in {p} |-> Note(clock, ws, ls, t)])
    /\ acked' = (acked \ ({p} \X saw)) \cup ({p} \X added)

\* Nothing that is stored changes.
Keeps == UNCHANGED <<note, dirs, top, cache, acked, ghosts>>

\* The notes of S are gone: their words are, too.
Drops(S) ==
    /\ Store(S, [p \in S |-> Absent])
    /\ acked' = {x \in acked : x[1] \notin S}

\* An operation begins on the loop: at once complete, or job j.
Calls == job = Idle /\ ops < MaxOps /\ ops' = ops + 1
         /\ UNCHANGED <<clock, del, held>>
Whole == Calls /\ UNCHANGED job
Begin(j) == Calls /\ job' = j /\ Keeps /\ UNCHANGED base

\* The operation in progress makes a step; j is what remains of it.
Goes(j) == job' = j /\ UNCHANGED <<clock, base, del, held, ops>>

-----------------------------------------------------------------------------
(* Operations on one note, each under the lock of its path.                 *)

\* read_file: the text and its revision.
Read(c, p) ==
    /\ job = Idle /\ Exists(p)
    /\ base' = [base EXCEPT ![c] = View(p, note[p])]
    /\ Keeps /\ UNCHANGED <<clock, job, del, held, ops>>

\* Two versions of the note had the same mtime: the comparison may be deceived.
Deceived(p) == IF top[p] = Twin THEN Words ELSE {}

\* Mutant: the revision the client has read is not compared.
PutBlindly(c, ws) ==
    LET b == base[c]
    IN  /\ Whole
        /\ b.path # None /\ Free(b.path)
        /\ Writes(b.path, b.note.words \cup ws, b.note.links, b.note.title,
                  ws, Deceived(b.path))
        /\ base' = [base EXCEPT ![c] = Unread]

\* PUT /api/file with expected_revision; refused when the revision differs.
Put(c, ws) ==
    LET b == base[c]
    IN  /\ Whole
        /\ b.path # None /\ Free(b.path)
        /\ note[b.path].rev = b.note.rev
        /\ Writes(b.path, b.note.words \cup ws, b.note.links, b.note.title,
                  ws, Deceived(b.path))
        /\ base' = [base EXCEPT ![c] = Unread]

\* PUT without a revision, write_file: a new text, whatever was there.
Overwrite(p, w) ==
    /\ Whole /\ Free(p)
    /\ Writes(p, {w}, {}, NoTitle, {w}, Words)
    /\ UNCHANGED base

AppendFile(p, w) ==
    /\ Whole /\ Free(p) /\ Exists(p)
    /\ Writes(p, note[p].words \cup {w}, note[p].links, note[p].title, {w}, {})
    /\ UNCHANGED base

\* edit_file: the caller names the text that is replaced.
Edit(p, old, w) ==
    /\ Whole /\ Free(p) /\ old \in note[p].words
    /\ Writes(p, (note[p].words \ {old}) \cup {w}, note[p].links, note[p].title,
              {w}, {old})
    /\ UNCHANGED base

UpdateFrontmatter(p, t) ==
    /\ Whole /\ Free(p) /\ Exists(p)
    /\ Writes(p, note[p].words, note[p].links, t, {}, {})
    /\ UNCHANGED base

\* The first free name for the title.
Taken(d, i) == \A j \in 1..(i - 1) : Exists(<<d, Slots[j]>>)
NewPaths(d) == {<<d, Slots[i]>> : i \in {j \in DOMAIN Slots :
                                    Taken(d, j) /\ ~Exists(<<d, Slots[j]>>)}}

\* create_note holds the folder's lock; the template tool holds the path's.
CreateNote(d, w) ==
    /\ Whole /\ Free(d)
    /\ \E p \in NewPaths(d) : Writes(p, {w}, {}, Title, {w}, {})
    /\ UNCHANGED base

Template(d, w) ==
    /\ Whole
    /\ \E p \in NewPaths(d) : Free(p) /\ Writes(p, {w}, {}, Title, {w}, {})
    /\ UNCHANGED base

\* The MCP tool delete_file runs on the loop.
DeleteFile(p) ==
    /\ Whole /\ Free(p) /\ Exists(p)
    /\ Drops({p})
    /\ UNCHANGED base

CreateFolder(d) ==
    /\ Whole /\ Free(d)
    /\ dirs' = dirs \cup {d}
    /\ cache' = NoLists /\ ghosts' = {}
    /\ UNCHANGED <<note, top, acked, base>>

-----------------------------------------------------------------------------
(* Locks of several paths, taken in one order (_locked_paths).              *)

Need(a) ==
    IF a # Loop THEN {Stripe[p] : p \in del[a].all}
    ELSE IF job.op \in {"move", "rename", "sort", "move_folder", "delete_folder", "rmtree"}
    THEN {Stripe[x] : x \in {job.src, job.dst} \ {None}}
    ELSE {}

Lacks(a) == Need(a) \ held[a]

\* Mutant: the locks are taken in the order of the arguments.
NextLockUnsorted(a) == IF a = Loop THEN Min(Lacks(a)) ELSE Max(Lacks(a))

NextLock(a) == Min(Lacks(a))

Waits(a, b) == a # b /\ Lacks(a) # {} /\ NextLock(a) \in held[b]

\* Mutant: a lock that somebody holds is taken.
AcquireAnyway(a) ==
    /\ Lacks(a) # {}
    /\ held' = [held EXCEPT ![a] = @ \cup {NextLock(a)}]
    /\ Keeps /\ UNCHANGED <<clock, base, job, del, ops>>

Acquire(a) ==
    /\ Lacks(a) # {}
    /\ ~\E b \in Agents : Waits(a, b)
    /\ held' = [held EXCEPT ![a] = @ \cup {NextLock(a)}]
    /\ Keeps /\ UNCHANGED <<clock, base, job, del, ops>>

-----------------------------------------------------------------------------
(* move_file, and the tools that use it.                                    *)

Move(p, q)       == Begin(Job("move", {}, p, q, None, None, Unread))
Rename(p, q)     == Begin(Job("rename", {}, p, q, None, None, Unread))
Sort(moves)      == Begin(Job("sort", moves, None, None, None, None, Unread))
MoveFolder(d, e) == Begin(Job("move_folder", {}, d, e, None, None, Unread))

Ready(o) == job.op = o /\ job.src # None /\ Lacks(Loop) = {}

Movable == Exists(job.src) /\ ~Exists(job.dst)

\* The note keeps its mtime; acknowledged words move with it.
Moved(p, q) ==
    /\ Store({p, q}, [x \in {p, q} |-> IF x = q THEN note[p] ELSE Absent])
    /\ acked' = {x \in acked : x[1] # p} \cup ({q} \X {w \in Words : <<p, w>> \in acked})

Releases(j) == /\ held' = [held EXCEPT ![Loop] = {}]
               /\ job' = j
               /\ UNCHANGED <<clock, base, del, ops>>

Fails(j) == Releases(j) /\ Keeps

DoMove == Ready("move") /\ Movable /\ Moved(job.src, job.dst) /\ Releases(Idle)

\* sort: every move is tried, an error is recorded and the next one follows.
SortNext == /\ job.op = "sort" /\ job.src = None
            /\ \/ job.todo = {} /\ Goes(Idle)
               \/ \E m \in job.todo :
                     Goes(Job("sort", job.todo \ {m}, m[1], m[2], None, None, Unread))
            /\ Keeps

Rest == Job("sort", job.todo, None, None, None, None, Unread)
DoSort == Ready("sort") /\ Movable /\ Moved(job.src, job.dst) /\ Releases(Rest)

DoMoveFolder ==
    /\ Ready("move_folder")
    /\ job.src \in dirs /\ job.dst \notin dirs
    /\ LET to(p) == <<job.dst, p[2]>>
           from(q) == <<job.src, q[2]>>
       IN  /\ note' = [p \in Paths |-> IF p[1] = job.dst THEN note[from(p)]
                                       ELSE IF p[1] = job.src THEN Absent
                                       ELSE note[p]]
           /\ top' = [p \in Paths |-> IF p[1] = job.dst
                                      THEN Seen(p, note[from(p)].rev) ELSE top[p]]
           /\ acked' = {<<IF x[1][1] = job.src THEN to(x[1]) ELSE x[1], x[2]>> :
                           x \in acked}
    /\ dirs' = (dirs \ {job.src}) \cup {job.dst}
    /\ cache' = NoLists /\ ghosts' = {}
    /\ Releases(Idle)

Refused ==
    \/ (Ready("move") \/ Ready("rename")) /\ ~Movable /\ Fails(Idle)
    \/ Ready("sort") /\ ~Movable /\ Fails(Rest)
    \/ Ready("move_folder") /\ (job.src \notin dirs \/ job.dst \in dirs) /\ Fails(Idle)
    \/ Ready("delete_folder") /\ job.src \notin dirs /\ Fails(Idle)

\* rename: moves the note, then goes through all notes (job "links").  It ends here
\* when the moved note cannot be read or indexed, and finds no link at all when the
\* old path is written another way than links resolve to ("./a.md").
DoRename ==
    /\ Ready("rename") /\ Movable
    /\ Moved(job.src, job.dst)
    /\ \/ Releases(Job("links", {p \in Paths : note'[p].rev # 0}, job.src, job.dst,
                       {}, None, Unread))
       \/ Releases(Idle)

\* _resolve_local_link.
Target(p, l) == <<IF l[1] = Here THEN p[1] ELSE l[1], l[2]>>

\* The links in note n, at p, that lead to the old path.
Hits(p, n) == {l \in n.links : Target(p, l) = job.src}

\* What has the old name in it besides them: the new name, and in n a word, the
\* title or another link.  (A link with a blank before its fragment counts, too.)
Masked(p, n) ==
    /\ Hits(p, n) # {}
    /\ \/ \E l \in n.links \ Hits(p, n) : l[2] = job.src[2]
       \/ \E x \in n.words \cup {n.title, job.dst[2]} \cup {l[2] : l \in n.links} :
             <<x, job.src[2]>> \in Masks

Renamed(l) == <<l[1], job.dst[2]>>
Replacing(t, ws, ls) == [title |-> t, words |-> ws, links |-> ls]

\* Mutant: links are compared by name, without their folder.
RelinkedByName(p, n) ==
    {Replacing(n.title, n.words,
               {IF l = <<Here, job.src[2]>> THEN Renamed(l) ELSE l : l \in n.links})}

\* The texts a rename can make of n.  The name in a link is replaced and the folder
\* kept, but not in the link: where its text occurs first.  If that can be elsewhere
\* the link may stay, and a word, the title or a link to another folder change.
Relinked(p, n) ==
    LET named == {l \in n.links : l[2] = job.src[2]}
        masks == {w \in n.words : <<w, job.src[2]>> \in Masks}
    IN  IF Masked(p, n)
        THEN [title : IF <<n.title, job.src[2]>> \in Masks THEN Titles ELSE {n.title},
              words : {n.words \ ws : ws \in SUBSET masks},
              links : {(n.links \ named) \cup ls :
                         ls \in {ls \in SUBSET (named \cup {Renamed(l) : l \in named}) :
                                   \A l \in named : l \in ls \/ Renamed(l) \in ls}}]
        ELSE {Replacing(n.title, n.words,
                        {IF l \in Hits(p, n) THEN Renamed(l) ELSE l : l \in n.links})}

After(p, left, v) == Job(job.op, job.todo \ {p}, job.src, job.dst, left, job.word, v)

\* The mtime and text of the next note, read without a lock.  A note that cannot be
\* read, be it deleted or no UTF-8, is passed over by a rename; it ends a batch.
LookAt(p) ==
    /\ job.op \in {"links", "replace_many"} /\ job.snap = Unread
    /\ p \in job.todo
    /\ \/ Exists(p) /\ Goes(After(p, job.old, View(p, note[p])))
       \/ Goes(IF job.op = "links" THEN After(p, job.old \cup {p}, Unread) ELSE Idle)
    /\ Keeps

\* What is made of the note that was read.
SnapTexts ==
    LET n == job.snap.note
    IN  IF job.op = "links" THEN Relinked(job.snap.path, n)
        ELSE {Replacing(n.title,
                        IF job.old \in n.words THEN (n.words \ {job.old}) \cup {job.word}
                        ELSE n.words,
                        n.links)}

NextNote ==
    Job(job.op, job.todo, job.src, job.dst,
        IF job.op = "links" /\ Masked(job.snap.path, job.snap.note)
        THEN job.old \cup {job.snap.path} ELSE job.old,
        job.word, Unread)

\* Mutant: the text is written without the revision it was read with.
UnchangedAlways(p) == TRUE
UnchangedSince(p) == note[p].rev = job.snap.note.rev

\* write_file with the revision of the text; an error (the note was deleted
\* meanwhile, or the quota) ends the whole call.
Rewrite(p) ==
    /\ job.snap.path = p /\ job.op \in {"links", "replace_many"}
    /\ \E t \in SnapTexts :
          LET n == job.snap.note
              same == t = Replacing(n.title, n.words, n.links)
          IN  \/ same /\ Goes(NextNote) /\ Keeps
              \/ /\ ~same /\ Free(p) /\ UnchangedSince(p)
                 /\ Writes(p, t.words, t.links, t.title,
                           t.words \ n.words, n.words \ t.words)
                 /\ Goes(NextNote)
              \/ ~same /\ Free(p) /\ ~UnchangedSince(p) /\ Goes(Idle) /\ Keeps

-----------------------------------------------------------------------------
(* Batches.                                                                 *)

Batch(o, S, old, w) == Begin(Job(o, S, None, None, old, w, Unread))

\* Nothing is left: the call answers.
EndBatch ==
    /\ job.op \in {"links", "replace_many", "write_many"}
    /\ job.todo = {} /\ job.snap = Unread
    /\ Goes(Idle) /\ Keeps

Remaining(p) == Job(job.op, job.todo \ {p}, None, None, job.old, job.word, Unread)

\* write_many replaces, appends to or makes every note; an item that fails
\* (no such note and not to be made, quota) is passed over.
WriteItem(p) ==
    /\ job.op = "write_many" /\ p \in job.todo /\ Free(p)
    /\ \/ Writes(p, note[p].words \cup {job.word}, note[p].links, note[p].title,
                 {job.word}, {})
       \/ Writes(p, {job.word}, {}, NoTitle, {job.word}, Words)
       \/ ~Exists(p) /\ Keeps
    /\ Goes(Remaining(p))

-----------------------------------------------------------------------------
(* DELETE /api/file and /api/files, in a thread.                            *)

DeleteFiles(t, S) ==
    /\ del[t] = NoDel /\ ops < MaxOps
    /\ ops' = ops + 1
    /\ del' = [del EXCEPT ![t] = Del("delete", S, S)]
    /\ Keeps /\ UNCHANGED <<clock, base, job, held>>

Listing == job.op \in {"list", "upsert_list"}

\* The note is unlinked; the caches are cleared after that.  What the loop is
\* listing meanwhile may include the note.
DeleteOne(t, p) ==
    /\ del[t].phase = "delete" /\ Lacks(t) = {} /\ p \in del[t].todo
    /\ IF Exists(p)
       THEN /\ note' = [note EXCEPT ![p] = Absent]
            /\ acked' = {x \in acked : x[1] # p}
            /\ del' = [del EXCEPT ![t] = Del("clear", @.all, @.todo \ {p})]
            /\ ghosts' = IF Listing THEN ghosts \cup {p} ELSE ghosts
       ELSE /\ del' = [del EXCEPT ![t] = Del("delete", @.all, @.todo \ {p})]
            /\ UNCHANGED <<note, acked, ghosts>>
    /\ UNCHANGED <<dirs, clock, base, job, held, cache, ops, top>>

\* Mutant: a deletion in a thread leaves the caches alone.
ClearNothing(t) ==
    /\ del[t].phase = "clear"
    /\ del' = [del EXCEPT ![t] = Del("delete", @.all, @.todo)]
    /\ Keeps /\ UNCHANGED <<clock, base, job, held, ops>>

Clear(t) ==
    /\ del[t].phase = "clear"
    /\ cache' = NoLists
    /\ ghosts' = IF Listing THEN ghosts ELSE {}
    /\ del' = [del EXCEPT ![t] = Del("delete", @.all, @.todo)]
    /\ UNCHANGED <<note, dirs, clock, base, job, held, ops, acked, top>>

\* The index is cleaned and the locks are released.
EndDelete(t) ==
    /\ del[t].phase = "delete" /\ del[t].todo = {} /\ Lacks(t) = {}
    /\ del' = [del EXCEPT ![t] = NoDel]
    /\ held' = [held EXCEPT ![t] = {}]
    /\ Keeps /\ UNCHANGED <<clock, base, job, ops>>

-----------------------------------------------------------------------------
(* delete_folder: rmtree unlinks note by note, under the folder's lock only. *)

DeleteFolder(d) == Begin(Job("delete_folder", {}, d, None, None, None, Unread))

DoDeleteFolder ==
    /\ Ready("delete_folder") /\ job.src \in dirs
    /\ Goes(Job("rmtree", In(job.src), job.src, None, None, None, Unread))
    /\ Keeps

\* A note that a thread has deleted since raises: the rest stays, and the
\* caches are not cleared.
Unlink(p) ==
    /\ job.op = "rmtree" /\ p \in job.todo
    /\ IF Exists(p)
       THEN /\ note' = [note EXCEPT ![p] = Absent]
            /\ acked' = {x \in acked : x[1] # p}
            /\ ghosts' = ghosts \cup {p}
            /\ Goes(Job("rmtree", job.todo \ {p}, job.src, None, None, None, Unread))
            /\ UNCHANGED <<dirs, cache, top>>
       ELSE Fails(Idle)

EndDeleteFolder ==
    /\ job.op = "rmtree" /\ job.todo = {}
    /\ dirs' = dirs \ {job.src}
    /\ cache' = NoLists /\ ghosts' = {}
    /\ Releases(Idle)
    /\ UNCHANGED <<note, top, acked>>

-----------------------------------------------------------------------------
(* list_all_files and upsert_note.                                          *)

List(d)      == cache[d] = None /\ Begin(Job("list", In(d), d, None, None, None, Unread))

\* path is missing or names no note: the title is looked up in the listing.
Upsert(d, w) == Begin(IF cache[d] = None
                      THEN Job("upsert_list", In(d), d, None, None, w, Unread)
                      ELSE Job("upsert", cache[d], d, None, None, w, Unread))

\* The titles read from the notes of S: the frontmatter of a note that has
\* vanished is empty, unless it was read before.
Known(S) == {t \in [S -> Titles] : \A p \in S : Exists(p) => t[p] = note[p].title}

\* The entries are those that the folder had when the scan began.
Scanned(t) == {<<p, t[p]>> : p \in job.todo}

EndList ==
    /\ Listing
    /\ \E t \in Known(job.todo) :
          /\ cache' = [cache EXCEPT ![job.src] = Scanned(t)]
          /\ Goes(IF job.op = "list" THEN Idle
                  ELSE Job("upsert", Scanned(t), job.src, None, None, job.word, Unread))
    /\ UNCHANGED <<note, dirs, top, acked, ghosts>>

Matches == {i \in job.todo : i[2] = Title}

\* A note with the title: append, or read and replace its text.
UpsertInto(p) ==
    /\ job.op = "upsert" /\ <<p, Title>> \in Matches /\ Free(p)
    /\ \/ Exists(p) /\ Writes(p, note[p].words \cup {job.word}, note[p].links,
                              note[p].title, {job.word}, {})
       \/ Exists(p) /\ Writes(p, {job.word}, {}, note[p].title, {job.word}, Words)
       \/ ~Exists(p) /\ Keeps
    /\ Goes(Idle)

UpsertNew ==
    /\ job.op = "upsert" /\ Matches = {} /\ Free(job.src)
    /\ \/ \E p \in NewPaths(job.src) :
             Writes(p, {job.word}, {}, Title, {job.word}, {})
       \/ (\A p \in NewPaths(job.src) : ~Fits(p)) /\ Keeps
    /\ Goes(Idle)

\* _LIST_CACHE_TTL passes.
Expire(d) ==
    /\ cache[d] # None
    /\ cache' = [cache EXCEPT ![d] = None]
    /\ UNCHANGED <<note, dirs, clock, base, job, del, held, ops, acked, top, ghosts>>

-----------------------------------------------------------------------------
Tick ==
    /\ clock < MaxClock
    /\ clock' = clock + 1
    /\ Keeps /\ UNCHANGED <<base, job, del, held, ops>>

\* The process ends in the middle of anything; a file is either old or new.
Restart ==
    /\ job # Idle \/ \E t \in Threads : del[t] # NoDel
    /\ job' = Idle
    /\ del' = [t \in Threads |-> NoDel]
    /\ held' = [a \in Agents |-> {}]
    /\ cache' = NoLists
    /\ ghosts' = {}
    /\ UNCHANGED <<note, dirs, clock, base, ops, acked, top>>

NoteOps ==
    \/ \E c \in Clients, p \in Edited : Read(c, p)
    \/ \E c \in Clients, ws \in SUBSET New : Put(c, ws)
    \/ \E p \in Edited, w \in New : Overwrite(p, w) \/ AppendFile(p, w)
    \/ \E p \in Edited, v \in Words, w \in New : v # w /\ Edit(p, v, w)
    \/ \E p \in Edited, t \in Titles : UpdateFrontmatter(p, t)
    \/ \E p \in Edited : DeleteFile(p)

FolderOps ==
    \/ \E d \in Dirs, w \in New : CreateNote(d, w) \/ Template(d, w) \/ Upsert(d, w)
    \/ \E d \in Dirs : CreateFolder(d) \/ DeleteFolder(d) \/ List(d) \/ Expire(d)
    \/ \E d, e \in Dirs : d # e /\ MoveFolder(d, e)

BatchOps ==
    \/ \E m \in Moves : Move(m[1], m[2]) \/ Rename(m[1], m[2])
    \/ \E moves \in Sorts : Sort(moves)
    \/ \E S \in Batches, w \in New :
          \/ Batch("write_many", S, None, w)
          \/ \E v \in Words \ {w} : Batch("replace_many", S, v, w)
    \/ \E t \in Threads, S \in Batches : DeleteFiles(t, S)

Steps ==
    \/ \E a \in Agents : Acquire(a)
    \/ DoMove \/ SortNext \/ DoSort \/ DoMoveFolder \/ DoRename \/ Refused
    \/ \E p \in Paths : LookAt(p) \/ Rewrite(p) \/ WriteItem(p) \/ Unlink(p)
                        \/ UpsertInto(p)
    \/ EndBatch \/ DoDeleteFolder \/ EndDeleteFolder \/ EndList \/ UpsertNew
    \/ \E t \in Threads : Clear(t) \/ EndDelete(t) \/ \E p \in Paths : DeleteOne(t, p)

Next == NoteOps \/ FolderOps \/ BatchOps \/ Steps \/ Tick \/ Restart

Spec == Init /\ [][Next]_vars

-----------------------------------------------------------------------------
(* Correctness.                                                             *)

\* What a call acknowledged as written stays in the note, also when the note is
\* moved or renamed, until a call that saw it removes it or the note is deleted
\* or overwritten: no write based on an older text, no new note and no move
\* takes its place.  (Only two writes within one mtime of the file system can
\* deceive the comparison of revisions.)
KeepsAcked ==
    \A x \in acked : x[2] \in note[x[1]].words

\* A batch that rewrites notes never brings a note back that was deleted since
\* the batch read it.
NoResurrection ==
    [][\A p \in Paths : Rewrite(p) /\ ~Exists(p) => note'[p].rev = 0]_vars

\* A rename within a folder that ran to its end has left no link to the old path,
\* relative or not, with deletions going on, but in notes that could not be read or
\* have the old name in another place, too.
RenameKeepsLinks ==
    job.op = "links" /\ job.todo = {} /\ job.snap = Unread /\ job.src[1] = job.dst[1]
    => \A p \in Files \ job.old : \A l \in note[p].links : Target(p, l) # job.src

\* Moves on the loop and batches of deletions never wait for each other in a circle.
NoCircularWait ==
    \A A \in (SUBSET Agents) \ {{}} :
        \E a \in A : \A b \in A : ~Waits(a, b)

\* A cached listing shows a note that does not exist only if the note vanished
\* while that folder was being listed or removed, or a thread is about to clear it.
ListingFresh ==
    \A d \in Dirs : cache[d] # None =>
        \A i \in cache[d] :
            \/ Exists(i[1]) \/ i[1] \in ghosts
            \/ \E t \in Threads : del[t].phase = "clear" /\ i[1] \in del[t].all

\* upsert_note makes a note only if the folder has none with the title.
UpsertFinds ==
    [][UpsertNew /\ note' # note =>
          \A p \in In(job.src) : note[p].title # Title]_vars

-----------------------------------------------------------------------------
(* The notes as NoteRegister describes them.  Clients with a revision and    *)
(* the batch on the loop write back what they have read.  Their link is that *)
(* the revision of the note is still the one they have read.                 *)

Text(n) == IF n.rev = 0 THEN None ELSE <<n.title, n.words, n.links>>

ViewOf(r) == IF r = Loop THEN job.snap ELSE base[r]

Linked(v) == v # Unread /\ note[v.path].rev = v.note.rev

Register == INSTANCE NoteRegister WITH
                Readers <- Clients \cup {Loop},
                Exact   <- {Loop},
                Gone    <- None,
                text    <- [p \in Paths |-> Text(note[p])],
                view    <- [r \in Clients \cup {Loop} |->
                               <<ViewOf(r).path, Text(ViewOf(r).note)>>],
                linked  <- {r \in Clients \cup {Loop} : Linked(ViewOf(r))},
                blurred <- {p \in Paths : top[p] = Twin}

\* expected_revision makes the notes registers with load-linked and
\* store-conditional: a write with a revision replaces the text its writer has read,
\* and nobody wrote, moved or deleted the note in between, not even to put the same
\* text back.  For clients this ends with two writes within one mtime, for the
\* rewriting batches it does not.
ImplementsRegister == Register!Spec
=============================================================================
