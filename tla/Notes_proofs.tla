---------------------------- MODULE Notes_proofs ----------------------------
(***************************************************************************)
(* What a client was told is stored stays stored, listings are fresh,      *)
(* batches do what they promise and the locks of paths do not deadlock,    *)
(* for all folders, names, words, links, clients, threads and bounds.      *)
(***************************************************************************)
EXTENDS Notes, TLAPS, WellFoundedInduction

(* The parts of the inductive invariant.                                    *)

\* What has been read of a note: as long as no two versions of it have had one
\* mtime, a note with the revision of the view is the note that was read.
Valid(v) ==
    /\ v.path \in Paths /\ v.note \in NoteType /\ v.note.rev # 0
    /\ v.note.rev <= top[v.path]
    /\ top[v.path] # Twin /\ note[v.path].rev = v.note.rev => note[v.path] = v.note

\* The notes, and what is known of them.
Sound ==
    /\ note \in [Paths -> NoteType] /\ top \in [Paths -> 0..Twin]
    /\ dirs \subseteq Dirs /\ clock \in 1..MaxClock
    /\ \A p \in Paths : /\ note[p].rev <= top[p]
                        /\ note[p].rev = 0 => note[p] = Absent
                        /\ note[p].rev # 0 => p[1] \in dirs
    /\ acked \subseteq Paths \X Words /\ KeepsAcked
    /\ base \in [Clients -> ViewType]
    /\ \A c \in Clients : base[c] # Unread => Valid(base[c])

OfPaths == {"links", "write_many", "replace_many", "rmtree", "list", "upsert_list"}
OfFolder == {"delete_folder", "rmtree", "list", "upsert_list", "upsert"}
WithWord == {"write_many", "replace_many", "upsert_list", "upsert"}
JobOps  == {"none", "move", "rename", "sort", "move_folder", "delete_folder", "upsert"}
           \cup OfPaths

\* The fields of the operation in progress.
JobShape ==
    /\ job = Job(job.op, job.todo, job.src, job.dst, job.old, job.word, job.snap)
    /\ job.op \in JobOps /\ (job.op = "none" => job = Idle)
    /\ job.op \in {"move", "rename", "links"} => <<job.src, job.dst>> \in Moves
    /\ job.op = "sort" => /\ job.todo \subseteq Paths \X Paths
                          /\ \/ job.src = None /\ job.dst = None
                             \/ job.src \in Paths /\ job.dst \in Paths
    /\ job.op = "move_folder" => job.src \in Dirs /\ job.dst \in Dirs /\ job.src # job.dst
    /\ job.op \in OfFolder => job.src \in Dirs /\ job.dst = None
    /\ job.op \in OfPaths => job.todo \subseteq Paths
    /\ job.op = "upsert" => job.todo \subseteq Paths \X Titles
    /\ job.op \in WithWord => job.word \in Words

\* Nothing but a deletion comes between reading a note and writing it.
SnapFresh ==
    /\ job.op \notin {"links", "replace_many"} => job.snap = Unread
    /\ job.snap # Unread =>
          /\ job.snap = View(job.snap.path, job.snap.note)
          /\ job.snap.path \in Paths /\ job.snap.note \in NoteType
          /\ job.snap.note.rev # 0
          /\ note[job.snap.path] \in {job.snap.note, Absent}

\* A folder gets no notes while it is listed, removed or looked through for a title.
FolderSeen ==
    /\ job.op \in {"rmtree", "list", "upsert_list"} => In(job.src) \subseteq job.todo
    /\ Listing => \A p \in job.todo : Exists(p) \/ p \in ghosts
    /\ job.op = "upsert" => \A p \in In(job.src) : <<p, note[p].title>> \in job.todo

\* A note that still leads to the old path has not been gone through, or is one of
\* those that may keep their links.
LinksSeen ==
    job.op = "links" =>
        /\ job.src # job.dst
        /\ \A p \in Files : \/ p \in job.todo \/ p = job.snap.path \/ p \in job.old
                            \/ job.src[1] = job.dst[1] =>
                                  \A l \in note[p].links : Target(p, l) # job.src

\* A cached listing holds every note of the folder, and only notes or what is
\* known to have vanished.
CacheCovers ==
    /\ cache = [d \in Dirs |-> cache[d]]
    /\ \A d \in Dirs : cache[d] # None =>
          /\ cache[d] \subseteq Paths \X Titles
          /\ \A p \in In(d) : <<p, note[p].title>> \in cache[d]
    /\ ListingFresh

DelShape ==
    /\ del \in [Threads -> [todo : SUBSET Paths,
                            phase : {"idle", "delete", "clear"},
                            all : SUBSET Paths]]
    /\ \A t \in Threads : del[t].todo \subseteq del[t].all

\* An agent holds locks that it needs, those it took before being smaller than
\* those it lacks, and no lock has two holders.
LocksOrdered ==
    /\ held = [a \in Agents |-> held[a]]
    /\ \A a \in Agents : /\ held[a] \subseteq Need(a)
                         /\ \A k \in held[a], l \in Lacks(a) : k < l
    /\ \A a, b \in Agents : a # b => held[a] \cap held[b] = {}

\* What the operation in progress relies on.
JobSound == JobShape /\ SnapFresh /\ FolderSeen /\ LinksSeen

Steady == JobSound /\ CacheCovers /\ DelShape /\ LocksOrdered

\* The inductive invariant.
Inv == Sound /\ Steady

-----------------------------------------------------------------------------
(* The locks of paths.                                                      *)

\* The natural numbers are well-ordered.
LEMMA LeastNat ==
  ASSUME NEW S \in SUBSET Nat, S # {}
  PROVE  \E x \in S : \A y \in S : x <= y
<1>1. IsWellFoundedOn({xy \in Nat \X Nat : xy[1] < xy[2]}, Nat)
  BY NatLessThanWellFounded DEF OpToRel
<1>2. PICK x \in S : \A y \in S : <<y, x>> \notin {xy \in Nat \X Nat : xy[1] < xy[2]}
  BY <1>1, WFMin
<1>3. ASSUME NEW y \in S PROVE x <= y
  <2>1. <<y, x>> \notin {xy \in Nat \X Nat : xy[1] < xy[2]} BY <1>2
  <2>2. <<y, x>> \in Nat \X Nat /\ <<y, x>>[1] = y /\ <<y, x>>[2] = x OBVIOUS
  <2>3. ~(y < x) BY <2>1, <2>2
  <2> QED BY <2>3
<1> QED BY <1>3

LEMMA MinFact ==
  ASSUME NEW S \in SUBSET Nat, S # {}
  PROVE  Min(S) \in S /\ \A y \in S : Min(S) <= y
BY LeastNat DEF Min

\* Operations of the loop that hold locks from one step to the next.
LockOps == {"move", "rename", "sort", "move_folder", "delete_folder", "rmtree"}

LEMMA LoopNeed ==
  Need(Loop) = IF job.op \in LockOps THEN {Stripe[x] : x \in {job.src, job.dst} \ {None}}
               ELSE {}
BY DEF Need, LockOps

LEMMA ThreadNeed ==
  ASSUME NEW t \in Threads PROVE Need(t) = {Stripe[p] : p \in del[t].all}
BY NotesAssumption DEF Need

LEMMA NeedType == ASSUME Inv, NEW a \in Agents PROVE Need(a) \subseteq 1..Locks
<1>1. CASE a \in Threads
  <2>1. del[a].all \subseteq Paths BY <1>1 DEF Inv, Steady, DelShape
  <2> QED BY <1>1, <2>1, ThreadNeed, NotesAssumption
<1>2. CASE a = Loop
  <2>1. job.op \in LockOps => {job.src, job.dst} \ {None} \subseteq Paths \cup Dirs
    BY NotesAssumption DEF Inv, Steady, JobSound, JobShape, LockOps, OfFolder
  <2> QED BY <1>2, <2>1, LoopNeed, NotesAssumption
<1> QED BY <1>1, <1>2 DEF Agents

\* The next lock that an agent takes is the least one that it lacks.
LEMMA NextLockFact ==
  ASSUME Inv, NEW a \in Agents, Lacks(a) # {}
  PROVE  /\ NextLock(a) \in Lacks(a) /\ NextLock(a) \in 1..Locks
         /\ \A l \in Lacks(a) : NextLock(a) <= l
<1>1. Lacks(a) \in SUBSET Nat /\ Lacks(a) \subseteq 1..Locks BY NeedType DEF Lacks
<1> QED BY <1>1, MinFact DEF NextLock

LEMMA AcquireLocks == ASSUME Inv, NEW a \in Agents, Acquire(a) PROVE LocksOrdered'
<1>1. held' = [held EXCEPT ![a] = @ \cup {NextLock(a)}] /\ UNCHANGED <<job, del>>
  BY DEF Acquire
<1>2. \A b \in Agents : Need(b)' = Need(b) BY <1>1 DEF Need
<1>3. /\ NextLock(a) \in Lacks(a) /\ NextLock(a) \in 1..Locks
      /\ \A l \in Lacks(a) : NextLock(a) <= l
  BY NextLockFact DEF Acquire
<1>4. \A b \in Agents : Lacks(b) \subseteq 1..Locks BY NeedType DEF Lacks
<1>5. /\ held' = [b \in Agents |-> held'[b]]
      /\ held'[a] = held[a] \cup {NextLock(a)}
      /\ \A b \in Agents \ {a} : held'[b] = held[b]
  BY <1>1 DEF Inv, Steady, LocksOrdered
<1>6. /\ Lacks(a)' = Lacks(a) \ {NextLock(a)}
      /\ \A b \in Agents \ {a} : Lacks(b)' = Lacks(b)
  BY <1>2, <1>5 DEF Lacks
<1>7. ASSUME NEW b \in Agents
      PROVE  held'[b] \subseteq Need(b)' /\ \A k \in held'[b], l \in Lacks(b)' : k < l
  <2>1. CASE b = a
    <3>1. held'[a] \subseteq Need(a)' BY <1>2, <1>3, <1>5 DEF Inv, Steady, LocksOrdered, Lacks
    <3>2. ASSUME NEW k \in held'[a], NEW l \in Lacks(a)' PROVE k < l
      <4>1. l \in Lacks(a) /\ l # NextLock(a) BY <1>6
      <4>2. CASE k \in held[a] BY <4>1, <4>2 DEF Inv, Steady, LocksOrdered
      <4>3. CASE k = NextLock(a) BY <1>3, <1>4, <4>1, <4>3
      <4> QED BY <1>5, <4>2, <4>3
    <3> QED BY <2>1, <3>1, <3>2
  <2>2. CASE b # a BY <1>2, <1>5, <1>6, <2>2 DEF Inv, Steady, LocksOrdered
  <2> QED BY <2>1, <2>2
<1>8. \A b \in Agents : b # a => NextLock(a) \notin held[b]
  BY DEF Acquire, Waits
<1>9. ASSUME NEW b \in Agents, NEW c \in Agents, b # c PROVE held'[b] \cap held'[c] = {}
  BY <1>5, <1>8, <1>9 DEF Inv, Steady, LocksOrdered
<1> QED BY <1>5, <1>7, <1>9 DEF LocksOrdered

\* A step keeps the order if what an agent needs only changes when it holds nothing.
LEMMA LocksKept ==
  ASSUME Inv, held' = [a \in Agents |-> held'[a]],
         \A t \in Threads :
            \/ held'[t] = {}
            \/ held'[t] = held[t] /\ del[t].all \in {del'[t].all, {}},
         \/ held'[Loop] = {}
         \/ /\ held'[Loop] = held[Loop]
            /\ \/ job' = job \/ job.op \notin LockOps
               \/ job.src = None /\ job.dst = None
               \/ job'.op \in LockOps /\ job'.src = job.src /\ job'.dst = job.dst
  PROVE  LocksOrdered'
<1>1. ASSUME NEW a \in Agents
      PROVE  held'[a] = {} \/ (held'[a] = held[a] /\ Need(a)' = Need(a))
  <2>1. held[a] \subseteq Need(a) BY DEF Inv, Steady, LocksOrdered
  <2>2. CASE a \in Threads
    <3>1. Need(a)' = {Stripe[p] : p \in del'[a].all}
      BY <2>2, NotesAssumption DEF Need
    <3> QED BY <2>1, <2>2, <3>1, ThreadNeed
  <2>3. CASE a = Loop
    <3>1. Need(Loop)' = IF job'.op \in LockOps
                        THEN {Stripe[x] : x \in {job'.src, job'.dst} \ {None}} ELSE {}
      BY DEF Need, LockOps
    <3>2. CASE held'[Loop] = {} BY <2>3, <3>2
    <3>3. CASE held'[Loop] = held[Loop] /\ job' = job BY <2>3, <3>1, <3>3, LoopNeed
    <3>4. CASE held'[Loop] = held[Loop] /\ job.op \notin LockOps
      BY <2>1, <2>3, <3>4, LoopNeed
    <3>5. CASE held'[Loop] = held[Loop] /\ job.src = None /\ job.dst = None
      BY <2>1, <2>3, <3>5, LoopNeed
    <3>6. CASE /\ held'[Loop] = held[Loop] /\ job'.op \in LockOps
               /\ job'.src = job.src /\ job'.dst = job.dst
      BY <2>1, <2>3, <3>1, <3>6, LoopNeed
    <3> QED BY <3>2, <3>3, <3>4, <3>5, <3>6
  <2> QED BY <2>2, <2>3 DEF Agents
<1>2. \A a \in Agents : Lacks(a)' = Need(a)' \ held'[a] BY DEF Lacks
<1> QED BY <1>1, <1>2 DEF Inv, Steady, LocksOrdered, Lacks

\* Of the agents that wait, one waits for the greatest lock; its holder waits for
\* none, since it would have taken a smaller one before.
LEMMA SomeoneGoes == Inv => NoCircularWait
<1> SUFFICES ASSUME Inv, NEW A \in (SUBSET Agents) \ {{}}, \A a \in A : \E b \in A : Waits(a, b)
             PROVE  FALSE
  BY DEF NoCircularWait
<1> DEFINE Left == {Locks - NextLock(a) : a \in A}
<1>1. ASSUME NEW a \in A
      PROVE  a \in Agents /\ Lacks(a) # {} /\ NextLock(a) \in 1..Locks
             /\ Locks - NextLock(a) \in Nat
  <2>1. a \in Agents /\ Lacks(a) # {} BY DEF Waits
  <2>2. NextLock(a) \in 1..Locks BY <2>1, NextLockFact
  <2>3. \A n \in 1..Locks : Locks - n \in Nat
    <3>1. Locks \in Nat BY NotesAssumption
    <3> QED BY <3>1
  <2>4. Locks - NextLock(a) \in Nat BY <2>2, <2>3
  <2> QED BY <2>1, <2>2, <2>4
<1>2. Left \in SUBSET Nat /\ Left # {} BY <1>1
<1>3. PICK n \in Left : \A m \in Left : n <= m BY <1>2, LeastNat
<1>4. PICK a \in A : n = Locks - NextLock(a) BY <1>3
<1>5. PICK b \in A : Waits(a, b) OBVIOUS
<1>6. NextLock(a) \in held[b] /\ NextLock(b) \in Lacks(b) BY <1>1, <1>5, NextLockFact DEF Waits
<1>7. NextLock(a) < NextLock(b) BY <1>1, <1>6 DEF Inv, Steady, LocksOrdered
<1>8. Locks - NextLock(b) \in Left OBVIOUS
<1>9. n <= Locks - NextLock(b) BY <1>3, <1>8
<1> QED BY <1>1, <1>4, <1>7, <1>9, NotesAssumption

-----------------------------------------------------------------------------
(* What a step does to the operation in progress, the cache and the threads. *)

LEMMA JobFields ==
  ASSUME NEW o, NEW todo, NEW src, NEW dst, NEW old, NEW w, NEW snap
  PROVE  LET j == Job(o, todo, src, dst, old, w, snap)
         IN  /\ j.op = o /\ j.todo = todo /\ j.src = src /\ j.dst = dst
             /\ j.old = old /\ j.word = w /\ j.snap = snap
BY DEF Job

LEMMA IdleFields == Idle.op = "none" /\ Idle.snap = Unread
BY JobFields DEF Idle

LEMMA ViewFields ==
  ASSUME NEW p, NEW n
  PROVE  View(p, n).path = p /\ View(p, n).note = n /\ (p \in Paths => View(p, n) # Unread)
BY NotesAssumption DEF View, Unread

LEMMA NoteFields ==
  ASSUME NEW r, NEW ws, NEW ls, NEW t
  PROVE  /\ Note(r, ws, ls, t).rev = r /\ Note(r, ws, ls, t).words = ws
         /\ Note(r, ws, ls, t).links = ls /\ Note(r, ws, ls, t).title = t
         /\ r \in 0..MaxClock /\ ws \subseteq Words /\ ls \subseteq Links /\ t \in Titles
            => Note(r, ws, ls, t) \in NoteType
BY DEF Note, NoteType

LEMMA AbsentFields ==
  Absent.rev = 0 /\ Absent.words = {} /\ Absent.links = {} /\ Absent \in NoteType
BY NotesAssumption, NoteFields DEF Absent, Titles

LEMMA IdleJob == ASSUME Inv, job' = Idle PROVE JobSound'
<1>1. job' = Job("none", {}, None, None, None, None, Unread) BY DEF Idle
<1>2. job'.op = "none" /\ job'.snap = Unread BY IdleFields
<1>3. JobShape'
  BY <1>1, <1>2, JobFields DEF JobShape, JobOps, OfPaths, OfFolder, WithWord
<1> QED BY <1>2, <1>3 DEF JobSound, SnapFresh, FolderSeen, LinksSeen, Listing

\* Nothing but deletions happens: what is listed keeps track of them.
LEMMA SameJob ==
  ASSUME Inv, UNCHANGED job, \A p \in Paths : note'[p] \in {note[p], Absent},
         Listing => /\ ghosts \subseteq ghosts'
                    /\ \A p \in Paths : note'[p] = note[p] \/ p \in ghosts'
  PROVE  JobSound'
<1>1. \A p \in Paths : Exists(p)' => note'[p] = note[p] /\ Exists(p)
  BY AbsentFields DEF Exists
<1>2. JobShape' BY DEF Inv, Steady, JobSound, JobShape
<1>3. SnapFresh' BY DEF Inv, Steady, JobSound, SnapFresh
<1>4. \A d : \A p \in In(d)' : p \in In(d) /\ note'[p] = note[p]
  BY <1>1 DEF In, Files
<1>5. (job.op \in {"rmtree", "list", "upsert_list"} => In(job.src) \subseteq job.todo)'
  BY <1>4 DEF Inv, Steady, JobSound, FolderSeen
<1>6. (Listing => \A p \in job.todo : Exists(p) \/ p \in ghosts)'
  <2> SUFFICES ASSUME Listing, NEW p \in job.todo PROVE Exists(p)' \/ p \in ghosts'
    BY DEF Listing
  <2>1. p \in Paths BY DEF Inv, Steady, JobSound, JobShape, Listing, OfPaths
  <2>2. Exists(p) \/ p \in ghosts BY DEF Inv, Steady, JobSound, FolderSeen
  <2> QED BY <2>1, <2>2 DEF Exists
<1>7. (job.op = "upsert" => \A p \in In(job.src) : <<p, note[p].title>> \in job.todo)'
  BY <1>4 DEF Inv, Steady, JobSound, FolderSeen
<1>8. \A p \in Files' : p \in Files /\ note'[p] = note[p] BY <1>1 DEF Files
<1>9. LinksSeen' BY <1>8 DEF Inv, Steady, JobSound, LinksSeen, Target
<1> QED BY <1>2, <1>3, <1>5, <1>6, <1>7, <1>9 DEF JobSound, FolderSeen

LEMMA CacheCleared == ASSUME cache' = NoLists PROVE CacheCovers'
BY DEF NoLists, CacheCovers, ListingFresh

\* The cache is as it was, or less; what it shows beside notes stays known.
LEMMA CacheKept ==
  ASSUME Inv, cache' = [d \in Dirs |-> cache'[d]],
         \A d \in Dirs : cache'[d] \in {cache[d], None},
         \A p \in Paths : note'[p] \in {note[p], Absent}, ghosts \subseteq ghosts',
         \A t \in Threads : del[t].phase = "clear" =>
            del'[t].phase = "clear" /\ del'[t].all = del[t].all,
         \A p \in Paths : \/ note'[p] = note[p] \/ p \in ghosts'
                          \/ \E t \in Threads : del'[t].phase = "clear" /\ p \in del'[t].all
  PROVE  CacheCovers'
<1>1. \A p \in Paths : Exists(p)' => note'[p] = note[p] /\ Exists(p)
  BY AbsentFields DEF Exists
<1>2. ASSUME NEW d \in Dirs, cache'[d] # None
      PROVE  /\ cache'[d] \subseteq Paths \X Titles
             /\ \A p \in In(d)' : <<p, note'[p].title>> \in cache'[d]
             /\ \A i \in cache'[d] :
                   \/ Exists(i[1])' \/ i[1] \in ghosts'
                   \/ \E t \in Threads : del'[t].phase = "clear" /\ i[1] \in del'[t].all
  <2>1. cache'[d] = cache[d] /\ cache[d] # None BY <1>2
  <2>2. cache[d] \subseteq Paths \X Titles BY <2>1 DEF Inv, Steady, CacheCovers
  <2>3. \A p \in In(d)' : p \in In(d) /\ note'[p] = note[p] BY <1>1 DEF In, Files
  <2>4. \A p \in In(d) : <<p, note[p].title>> \in cache[d] BY <2>1 DEF Inv, Steady, CacheCovers
  <2>5. ASSUME NEW i \in cache[d]
        PROVE  \/ Exists(i[1])' \/ i[1] \in ghosts'
               \/ \E t \in Threads : del'[t].phase = "clear" /\ i[1] \in del'[t].all
    <3>1. i[1] \in Paths BY <2>2
    <3>2. \/ Exists(i[1]) \/ i[1] \in ghosts
          \/ \E t \in Threads : del[t].phase = "clear" /\ i[1] \in del[t].all
      BY <2>1 DEF Inv, Steady, CacheCovers, ListingFresh
    <3> QED BY <3>1, <3>2 DEF Exists
  <2> QED BY <2>1, <2>2, <2>3, <2>4, <2>5
<1> QED BY <1>2 DEF CacheCovers, ListingFresh

LEMMA SameDel == ASSUME Inv, UNCHANGED del PROVE DelShape'
BY DEF Inv, Steady, DelShape

LEMMA HeldFcn ==
  ASSUME Inv
  PROVE  /\ UNCHANGED held => held' = [a \in Agents |-> held'[a]]
         /\ held' = [held EXCEPT ![Loop] = {}] =>
               /\ held' = [a \in Agents |-> held'[a]] /\ held'[Loop] = {}
               /\ \A t \in Threads : held'[t] = held[t]
<1>1. held = [a \in Agents |-> held[a]] BY DEF Inv, Steady, LocksOrdered
<1>2. Loop \in Agents /\ \A t \in Threads : t \in Agents /\ t # Loop
  BY NotesAssumption DEF Agents
<1> QED BY <1>1, <1>2

\* The operations that are complete at once.
LEMMA WholeRest == ASSUME Inv, Whole, cache' = NoLists PROVE Steady'
<1>1. job = Idle /\ UNCHANGED <<job, del, held>> BY DEF Whole, Calls
<1>2. LocksOrdered' BY <1>1, LocksKept, HeldFcn
<1> QED BY <1>1, <1>2, IdleJob, CacheCleared, SameDel DEF Steady

\* Reading, time, and the locks.
LEMMA QuietRest ==
  ASSUME Inv, Keeps, UNCHANGED <<job, del>>, LocksOrdered'
  PROVE  Steady'
<1>1. \A p \in Paths : note'[p] = note[p] BY DEF Keeps
<1>2. JobSound' BY <1>1, SameJob DEF Keeps
<1>3. CacheCovers' BY <1>1, CacheKept DEF Keeps, Inv, Steady, CacheCovers
<1> QED BY <1>2, <1>3, SameDel DEF Steady

LEMMA BeginRest == ASSUME Inv, NEW j, Begin(j), (job' = j => JobSound') PROVE Steady'
<1>1. /\ job = Idle /\ job' = j /\ UNCHANGED <<del, held, note, cache, ghosts>>
  BY DEF Begin, Calls, Keeps
<1>2. LocksOrdered' BY <1>1, LocksKept, HeldFcn, IdleFields DEF LockOps
<1>3. CacheCovers' BY <1>1, CacheKept DEF Inv, Steady, CacheCovers
<1> QED BY <1>1, <1>2, <1>3, SameDel DEF Steady

LEMMA SortJob ==
  ASSUME Inv, NEW todo \in SUBSET (Paths \X Paths), NEW s, NEW d,
         (s = None /\ d = None) \/ (s \in Paths /\ d \in Paths),
         job' = Job("sort", todo, s, d, None, None, Unread)
  PROVE  JobSound'
BY JobFields DEF JobSound, JobShape, JobOps, OfPaths, OfFolder, WithWord, SnapFresh,
                 FolderSeen, LinksSeen, Listing

LEMMA MovesBegin ==
  ASSUME Inv,
         \/ \E m \in Moves : Move(m[1], m[2]) \/ Rename(m[1], m[2])
         \/ \E moves \in Sorts : Sort(moves)
         \/ \E d, e \in Dirs : d # e /\ MoveFolder(d, e)
         \/ \E S \in Batches, w \in New :
               \/ Batch("write_many", S, None, w)
               \/ \E v \in Words \ {w} : Batch("replace_many", S, v, w)
         \/ \E d \in Dirs : DeleteFolder(d)
  PROVE  Steady'
<1>1. ASSUME NEW m \in Moves, NEW o \in {"move", "rename"},
             Begin(Job(o, {}, m[1], m[2], None, None, Unread))
      PROVE  Steady'
  <2>1. PICK p, q : p = m[1] /\ q = m[2] OBVIOUS
  <2>2. m = <<p, q>> BY <2>1, NotesAssumption
  <2>3. PICK j : j = Job(o, {}, p, q, None, None, Unread) OBVIOUS
  <2>4. job' = j => JobSound'
    BY <2>2, <2>3, JobFields
       DEF JobSound, JobShape, JobOps, OfPaths, OfFolder, WithWord, SnapFresh,
           FolderSeen, LinksSeen, Listing
  <2> QED BY <1>1, <2>1, <2>3, <2>4, BeginRest
<1>2. ASSUME NEW moves \in Sorts, Sort(moves) PROVE Steady'
  <2>1. PICK j : j = Job("sort", moves, None, None, None, None, Unread) OBVIOUS
  <2>2. moves \in SUBSET (Paths \X Paths) BY NotesAssumption
  <2>3. job' = j => JobSound' BY <2>1, <2>2, SortJob
  <2> QED BY <1>2, <2>1, <2>3, BeginRest DEF Sort
<1>3. ASSUME NEW d \in Dirs, NEW e \in Dirs, d # e, MoveFolder(d, e) PROVE Steady'
  <2>1. PICK j : j = Job("move_folder", {}, d, e, None, None, Unread) OBVIOUS
  <2>2. job' = j => JobSound'
    BY <1>3, <2>1, JobFields
       DEF JobSound, JobShape, JobOps, OfPaths, OfFolder, WithWord, SnapFresh,
           FolderSeen, LinksSeen, Listing
  <2> QED BY <1>3, <2>1, <2>2, BeginRest DEF MoveFolder
<1>4. ASSUME NEW S \in Batches, NEW w \in New, NEW v, NEW o \in {"write_many", "replace_many"},
             Batch(o, S, v, w)
      PROVE  Steady'
  <2>1. PICK j : j = Job(o, S, None, None, v, w, Unread) OBVIOUS
  <2>2. S \subseteq Paths /\ w \in Words BY NotesAssumption
  <2>3. job' = j => JobSound'
    BY <2>1, <2>2, JobFields
       DEF JobSound, JobShape, JobOps, OfPaths, OfFolder, WithWord, SnapFresh,
           FolderSeen, LinksSeen, Listing
  <2> QED BY <1>4, <2>1, <2>3, BeginRest DEF Batch
<1>5. ASSUME NEW d \in Dirs, DeleteFolder(d) PROVE Steady'
  <2>1. PICK j : j = Job("delete_folder", {}, d, None, None, None, Unread) OBVIOUS
  <2>2. job' = j => JobSound'
    BY <2>1, JobFields
       DEF JobSound, JobShape, JobOps, OfPaths, OfFolder, WithWord, SnapFresh,
           FolderSeen, LinksSeen, Listing
  <2> QED BY <1>5, <2>1, <2>2, BeginRest DEF DeleteFolder
<1> QED BY <1>1, <1>2, <1>3, <1>4, <1>5 DEF Move, Rename

LEMMA UpsertJob ==
  ASSUME NEW todo \in SUBSET (Paths \X Titles), NEW d \in Dirs, NEW w \in Words,
         job' = Job("upsert", todo, d, None, None, w, Unread),
         \A p \in In(d)' : <<p, note'[p].title>> \in todo
  PROVE  JobSound'
BY JobFields DEF JobSound, JobShape, JobOps, OfPaths, OfFolder, WithWord, SnapFresh,
                 FolderSeen, LinksSeen, Listing

LEMMA CachedUpsert ==
  ASSUME Inv, NEW d \in Dirs, NEW w \in New, Upsert(d, w), cache[d] # None PROVE Steady'
<1>1. PICK S, j : S = cache[d] /\ j = Job("upsert", S, d, None, None, w, Unread)
  OBVIOUS
<1>2. Begin(j) BY <1>1 DEF Upsert
<1>3. UNCHANGED note BY <1>2 DEF Begin, Keeps
<1>4. In(d)' = In(d) BY <1>3 DEF In, Files, Exists
<1>5. S \subseteq Paths \X Titles /\ \A p \in In(d) : <<p, note[p].title>> \in S
  BY <1>1 DEF Inv, Steady, CacheCovers
<1>6. w \in Words /\ S \in SUBSET (Paths \X Titles) BY <1>5, NotesAssumption
<1>7. \A p \in In(d)' : <<p, note'[p].title>> \in S BY <1>3, <1>4, <1>5
<1>8. job' = j => JobSound' BY <1>1, <1>6, <1>7, UpsertJob
<1> QED BY <1>2, <1>8, BeginRest

LEMMA ListsBegin ==
  ASSUME Inv, NEW d \in Dirs, List(d) \/ \E w \in New : Upsert(d, w) PROVE Steady'
<1> USE NotesAssumption, JobFields
        DEF JobSound, JobShape, JobOps, OfPaths, OfFolder, WithWord, SnapFresh,
            FolderSeen, LinksSeen, Listing
<1>1. In(d) \subseteq Paths /\ \A p \in In(d) : Exists(p) BY DEF In, Files
<1>2. ASSUME NEW o \in {"list", "upsert_list"}, NEW v \in Words \cup {None},
             o = "upsert_list" => v \in Words,
             Begin(Job(o, In(d), d, None, None, v, Unread))
      PROVE  Steady'
  <2>1. UNCHANGED <<note, ghosts>> BY <1>2 DEF Begin, Keeps
  <2>2. In(d)' = In(d) /\ \A p \in Paths : Exists(p)' = Exists(p)
    BY <2>1 DEF In, Files, Exists
  <2> QED BY <1>1, <1>2, <2>2, BeginRest
<1> QED BY <1>2, CachedUpsert DEF List, Upsert

\* Moves: the notes have moved and the cache is cleared, or nothing has happened.
LEMMA MovesSteady ==
  ASSUME Inv, DoMove \/ DoSort \/ DoMoveFolder \/ Refused \/ SortNext PROVE Steady'
<1>1. job.op = "sort" => job.todo \subseteq Paths \X Paths
  BY DEF Inv, Steady, JobSound, JobShape
<1>2. ASSUME job' = Idle \/ (job.op = "sort" /\ job' = Rest) PROVE JobSound'
  <2>1. CASE job' = Idle BY <2>1, IdleJob
  <2>2. CASE job.op = "sort" /\ job' = Rest
    <3>1. PICK todo : todo = job.todo OBVIOUS
    <3>2. todo \in SUBSET (Paths \X Paths) BY <1>1, <2>2, <3>1
    <3>3. job' = Job("sort", todo, None, None, None, None, Unread) BY <2>2, <3>1 DEF Rest
    <3> QED BY <3>2, <3>3, SortJob
  <2> QED BY <1>2, <2>1, <2>2
<1>3. CASE cache' = NoLists /\ (Releases(Idle) \/ (job.op = "sort" /\ Releases(Rest)))
  <2>1. LocksOrdered' BY <1>3, HeldFcn, LocksKept DEF Releases
  <2>2. JobSound' /\ UNCHANGED del BY <1>2, <1>3 DEF Releases
  <2> QED BY <1>3, <2>1, <2>2, CacheCleared, SameDel DEF Steady
<1>4. CASE Keeps /\ (Releases(Idle) \/ (job.op = "sort" /\ Releases(Rest)))
  <2>1. LocksOrdered' BY <1>4, HeldFcn, LocksKept DEF Releases
  <2>2. JobSound' /\ UNCHANGED del BY <1>2, <1>4 DEF Releases
  <2>3. CacheCovers' BY <1>4, <2>2, CacheKept DEF Keeps, Inv, Steady, CacheCovers
  <2> QED BY <2>1, <2>2, <2>3, SameDel DEF Steady
<1>5. CASE SortNext
  <2>1. /\ job.op = "sort" /\ job.src = None /\ job.dst = None
        /\ Keeps /\ UNCHANGED <<del, held>>
    BY <1>5, NotesAssumption DEF SortNext, Goes, Inv, Steady, JobSound, JobShape
  <2>2. job' = Idle => JobSound' BY IdleJob
  <2>3. ASSUME NEW m \in job.todo,
               job' = Job("sort", job.todo \ {m}, m[1], m[2], None, None, Unread)
        PROVE  JobSound'
    <3>1. PICK todo, s, d : todo = job.todo \ {m} /\ s = m[1] /\ d = m[2] OBVIOUS
    <3>2. todo \in SUBSET (Paths \X Paths) /\ s \in Paths /\ d \in Paths
      BY <1>1, <2>1, <3>1
    <3>3. job' = Job("sort", todo, s, d, None, None, Unread) BY <2>3, <3>1
    <3> QED BY <3>2, <3>3, SortJob
  <2>4. JobSound' BY <1>5, <2>2, <2>3 DEF SortNext, Goes
  <2>5. LocksOrdered' BY <2>1, HeldFcn, LocksKept
  <2>6. CacheCovers' BY <2>1, CacheKept DEF Keeps, Inv, Steady, CacheCovers
  <2> QED BY <2>1, <2>4, <2>5, <2>6, SameDel DEF Steady
<1> QED BY <1>3, <1>4, <1>5
        DEF DoMove, DoSort, DoMoveFolder, Refused, Fails, Moved, Store, Ready

-----------------------------------------------------------------------------
(* The calls that rewrite notes.                                            *)

\* A note is written, its words and links being ws and ls.
LEMMA WritesNote ==
  ASSUME Sound, NEW p \in Paths, NEW ws \in SUBSET Words, NEW ls \in SUBSET Links,
         NEW t \in Titles, NEW added, NEW saw, Writes(p, ws, ls, t, added, saw)
  PROVE  /\ note'[p] = Note(clock, ws, ls, t) /\ note'[p] \in NoteType
         /\ note'[p].rev = clock /\ note'[p].rev # 0 /\ note'[p].words = ws
         /\ note'[p].links = ls /\ note'[p].title = t
         /\ \A q \in Paths \ {p} : note'[q] = note[q]
         /\ note' \in [Paths -> NoteType]
         /\ cache' = NoLists
<1>1. PICK n : n = Note(clock, ws, ls, t) OBVIOUS
<1>2. clock \in 1..MaxClock BY DEF Sound
<1>3. clock \in 0..MaxClock /\ clock # 0 BY <1>2, NotesAssumption
<1>4. /\ n \in NoteType /\ n.rev = clock /\ n.words = ws /\ n.links = ls /\ n.title = t
  BY <1>1, <1>3, NoteFields
<1>5. /\ note' = [q \in Paths |-> IF q \in {p} THEN [r \in {p} |-> n][q] ELSE note[q]]
      /\ cache' = NoLists
  BY <1>1 DEF Writes, Store
<1>6. note'[p] = n /\ \A q \in Paths \ {p} : note'[q] = note[q] BY <1>5
<1>7. note' \in [Paths -> NoteType] BY <1>4, <1>5 DEF Sound
<1> QED BY <1>1, <1>3, <1>4, <1>5, <1>6, <1>7

LEMMA TextFields ==
  ASSUME NEW t, NEW ws, NEW ls
  PROVE  /\ Replacing(t, ws, ls).title = t /\ Replacing(t, ws, ls).words = ws
         /\ Replacing(t, ws, ls).links = ls
BY DEF Replacing

\* What a rename makes of a note is text; none of its links leads to the old path if
\* the folder stays the same and the old name stands nowhere else.
LEMMA RelinkedFacts ==
  ASSUME <<job.src, job.dst>> \in Moves, job.src # job.dst, NEW p \in Paths,
         NEW n \in NoteType, NEW x \in Relinked(p, n)
  PROVE  /\ x.title \in Titles /\ x.words \in SUBSET Words /\ x.links \in SUBSET Links
         /\ job.src[1] = job.dst[1] /\ ~Masked(p, n) =>
               \A l \in x.links : Target(p, l) # job.src
<1>1. /\ job.src = <<job.src[1], job.src[2]>> /\ job.dst = <<job.dst[1], job.dst[2]>>
      /\ <<job.src, job.dst>>[2][2] = job.dst[2]
  BY NotesAssumption DEF Paths
<1>2. \A l \in Links : Renamed(l) \in Links BY <1>1, NotesAssumption DEF Renamed
<1>3. n.words \in SUBSET Words /\ n.links \in SUBSET Links /\ n.title \in Titles
  BY DEF NoteType
<1>4. CASE Masked(p, n)
  <2>1. /\ x.title \in IF <<n.title, job.src[2]>> \in Masks THEN Titles ELSE {n.title}
        /\ x.words \subseteq n.words
    BY <1>4 DEF Relinked
  <2>2. x.links \subseteq n.links \cup {Renamed(l) : l \in n.links}
    BY <1>4 DEF Relinked
  <2> QED BY <1>2, <1>3, <1>4, <2>1, <2>2
<1>5. CASE ~Masked(p, n)
  <2>1. PICK ls : ls = {IF l \in Hits(p, n) THEN Renamed(l) ELSE l : l \in n.links}
    OBVIOUS
  <2>2. x = Replacing(n.title, n.words, ls) BY <1>5, <2>1 DEF Relinked
  <2>3. ASSUME NEW l \in n.links
        PROVE  job.src[1] = job.dst[1] =>
                 Target(p, IF l \in Hits(p, n) THEN Renamed(l) ELSE l) # job.src
    <3>1. CASE l \in Hits(p, n)
      <4>1. Target(p, Renamed(l))[2] = job.dst[2] BY DEF Target, Renamed
      <4>2. job.src[1] = job.dst[1] => job.dst[2] # job.src[2] BY <1>1
      <4> QED BY <3>1, <4>1, <4>2
    <3>2. CASE l \notin Hits(p, n) BY <3>2 DEF Hits
    <3> QED BY <3>1, <3>2
  <2>4. ls \in SUBSET Links BY <1>2, <1>3, <2>1
  <2>5. job.src[1] = job.dst[1] => \A l \in ls : Target(p, l) # job.src BY <2>1, <2>3
  <2> QED BY <1>3, <2>2, <2>4, <2>5, TextFields
<1> QED BY <1>4, <1>5

\* A call that holds no lock between its steps goes on.
LEMMA CallSteady ==
  ASSUME Inv, JobSound', UNCHANGED <<del, held>>, job.op \notin LockOps,
         cache' = NoLists \/ Keeps
  PROVE  Steady'
<1>1. LocksOrdered' BY LocksKept, HeldFcn
<1>2. CASE cache' = NoLists BY <1>1, <1>2, CacheCleared, SameDel DEF Steady
<1>3. CASE Keeps
  <2>1. CacheCovers' BY <1>3, CacheKept DEF Keeps, Inv, Steady, CacheCovers
  <2> QED BY <1>1, <2>1, SameDel DEF Steady
<1> QED BY <1>2, <1>3

\* The notes have been moved; all that there are are gone through.
LEMMA RenameSteady == ASSUME Inv, DoRename PROVE Steady'
<1>1. PICK todo, s, d : todo = Files' /\ s = job.src /\ d = job.dst OBVIOUS
<1>2. /\ job' = Job("links", todo, s, d, {}, None, Unread) \/ job' = Idle
      /\ held' = [held EXCEPT ![Loop] = {}] /\ UNCHANGED del /\ cache' = NoLists
  BY <1>1 DEF DoRename, Moved, Store, Releases, Files, Exists
<1>3. <<s, d>> \in Moves /\ s # d /\ todo \subseteq Paths
  BY <1>1 DEF DoRename, Ready, Movable, Inv, Steady, JobSound, JobShape, Files
<1>4. JobSound'
  <2>1. CASE job' = Idle BY <2>1, IdleJob
  <2>2. CASE job' = Job("links", todo, s, d, {}, None, Unread)
    BY <1>1, <1>3, <2>2, JobFields
       DEF JobSound, JobShape, JobOps, OfPaths, OfFolder, WithWord, SnapFresh,
           FolderSeen, LinksSeen, Listing
  <2> QED BY <1>2, <2>1, <2>2
<1>5. LocksOrdered' BY <1>2, HeldFcn, LocksKept
<1> QED BY <1>2, <1>4, <1>5, CacheCleared, SameDel DEF Steady

\* The next step of a call that goes through notes, with what it has read.
LEMMA ThroughNotes ==
  ASSUME Inv, job.op \in {"links", "replace_many"},
         NEW todo \in SUBSET job.todo, NEW old, NEW v,
         job' = Job(job.op, todo, job.src, job.dst, old, job.word, v),
         v = Unread \/ (/\ v = View(v.path, v.note) /\ v.path \in Paths
                        /\ v.note \in NoteType /\ v.note.rev # 0
                        /\ note'[v.path] = v.note),
         job.op = "links" =>
            \A p \in Files' :
               \/ p \in todo \/ p = v.path \/ p \in old
               \/ job.src[1] = job.dst[1] => \A l \in note'[p].links : Target(p, l) # job.src
  PROVE  JobSound'
<1>1. PICK o, s, d, w : o = job.op /\ s = job.src /\ d = job.dst /\ w = job.word
  OBVIOUS
<1>2. job' = Job(o, todo, s, d, old, w, v) BY <1>1
<1>3. /\ job'.op = o /\ job'.todo = todo /\ job'.src = s /\ job'.dst = d
      /\ job'.old = old /\ job'.word = w /\ job'.snap = v
  BY <1>2, JobFields
<1>4. JobShape'
  BY <1>1, <1>2, <1>3
     DEF Inv, Steady, JobSound, JobShape, JobOps, OfPaths, OfFolder, WithWord
<1>5. SnapFresh' BY <1>1, <1>3 DEF SnapFresh
<1>6. FolderSeen' BY <1>1, <1>3 DEF FolderSeen, Listing
<1>7. LinksSeen' BY <1>1, <1>3 DEF LinksSeen, Target, Inv, Steady, JobSound
<1> QED BY <1>4, <1>5, <1>6, <1>7 DEF JobSound

LEMMA LookAtSteady == ASSUME Inv, NEW p \in Paths, LookAt(p) PROVE Steady'
<1>1. /\ job.op \in {"links", "replace_many"} /\ job.snap = Unread /\ p \in job.todo
      /\ Keeps /\ UNCHANGED <<note, del, held>>
  BY DEF LookAt, Goes, Keeps
<1>2. Files' = Files BY <1>1 DEF Files, Exists
<1>3. Unread.path \notin Paths BY NotesAssumption DEF Unread, View
<1>4. job.op = "links" =>
         \A q \in Files : \/ q \in job.todo \/ q \in job.old
                          \/ job.src[1] = job.dst[1] =>
                                \A l \in note[q].links : Target(q, l) # job.src
  BY <1>1, <1>3 DEF Inv, Steady, JobSound, LinksSeen, Files
<1>5. PICK todo : todo = job.todo \ {p} OBVIOUS
<1>6. CASE Exists(p) /\ Goes(After(p, job.old, View(p, note[p])))
  <2>1. PICK v, old : v = View(p, note[p]) /\ old = job.old OBVIOUS
  <2>2. job' = Job(job.op, todo, job.src, job.dst, old, job.word, v)
    BY <1>5, <1>6, <2>1 DEF After, Goes
  <2>3. v.path = p /\ v.note = note[p] /\ v = View(v.path, v.note) BY <2>1, ViewFields
  <2>4. note[p] \in NoteType /\ note[p].rev # 0 BY <1>6 DEF Exists, Inv, Sound
  <2>5. job.op = "links" =>
          \A q \in Files' : \/ q \in todo \/ q = v.path \/ q \in old
                            \/ job.src[1] = job.dst[1] =>
                                  \A l \in note'[q].links : Target(q, l) # job.src
    BY <1>1, <1>2, <1>4, <1>5, <2>1, <2>3
  <2>6. JobSound' BY <1>1, <1>5, <2>2, <2>3, <2>4, <2>5, ThroughNotes
  <2> QED BY <1>1, <2>6, CallSteady DEF LockOps
<1>7. CASE job.op = "links" /\ Goes(After(p, job.old \cup {p}, Unread))
  <2>1. PICK old : old = job.old \cup {p} OBVIOUS
  <2>2. job' = Job(job.op, todo, job.src, job.dst, old, job.word, Unread)
    BY <1>5, <1>7, <2>1 DEF After, Goes
  <2>3. \A q \in Files' : \/ q \in todo \/ q \in old
                          \/ job.src[1] = job.dst[1] =>
                                \A l \in note'[q].links : Target(q, l) # job.src
    BY <1>1, <1>2, <1>4, <1>5, <1>7, <2>1
  <2>4. JobSound' BY <1>1, <1>5, <2>2, <2>3, ThroughNotes
  <2> QED BY <1>1, <2>4, CallSteady DEF LockOps
<1>8. CASE job' = Idle BY <1>1, <1>8, IdleJob, CallSteady DEF LockOps
<1> QED BY <1>6, <1>7, <1>8 DEF LookAt, Goes

\* The new text of a note is text: what a rename makes of the links is links.
LEMMA SnapTextFacts ==
  ASSUME Inv, job.op \in {"links", "replace_many"}, job.snap # Unread,
         NEW x \in SnapTexts
  PROVE  /\ x.title \in Titles /\ x.words \in SUBSET Words /\ x.links \in SUBSET Links
         /\ job.op = "links" /\ job.src[1] = job.dst[1]
               /\ ~Masked(job.snap.path, job.snap.note) =>
                  \A l \in x.links : Target(job.snap.path, l) # job.src
<1>1. PICK n, q : n = job.snap.note /\ q = job.snap.path OBVIOUS
<1>2. n \in NoteType /\ q \in Paths BY <1>1 DEF Inv, Steady, JobSound, SnapFresh
<1>3. n.words \in SUBSET Words /\ n.links \in SUBSET Links /\ n.title \in Titles
  BY <1>2 DEF NoteType
<1>4. CASE job.op = "links"
  <2>1. x \in Relinked(q, n) BY <1>1, <1>4 DEF SnapTexts
  <2>2. <<job.src, job.dst>> \in Moves /\ job.src # job.dst
    BY <1>4 DEF Inv, Steady, JobSound, JobShape, LinksSeen
  <2> QED BY <1>1, <1>2, <2>1, <2>2, RelinkedFacts
<1>5. CASE job.op = "replace_many"
  <2>1. job.word \in Words BY <1>5 DEF Inv, Steady, JobSound, JobShape, WithWord
  <2>2. PICK ws : ws = IF job.old \in n.words THEN (n.words \ {job.old}) \cup {job.word}
                       ELSE n.words
    OBVIOUS
  <2>4. job.op # "links" BY <1>5
  <2>5. SnapTexts = {Replacing(n.title, ws, n.links)} BY <1>1, <2>2, <2>4, Zenon DEF SnapTexts
  <2>3. x.title = n.title /\ x.words = ws /\ x.links = n.links BY <2>5, TextFields
  <2>6. ws \in SUBSET Words BY <1>3, <2>1, <2>2
  <2> QED BY <1>3, <2>3, <2>4, <2>6
<1> QED BY <1>4, <1>5

LEMMA RewriteSteady == ASSUME Inv, NEW p \in Paths, Rewrite(p) PROVE Steady'
<1>1. /\ job.op \in {"links", "replace_many"} /\ job.snap.path = p /\ job.snap # Unread
      /\ UNCHANGED <<del, held>>
  BY NotesAssumption DEF Rewrite, Goes, Unread, View
<1>2. /\ job.snap.note \in NoteType /\ note[p] \in {job.snap.note, Absent}
      /\ job.snap.note.rev # 0
  BY <1>1 DEF Inv, Steady, JobSound, SnapFresh
<1>3. job.op = "links" =>
         \A q \in Files : \/ q \in job.todo \/ q = p \/ q \in job.old
                          \/ job.src[1] = job.dst[1] =>
                                \A l \in note[q].links : Target(q, l) # job.src
  BY <1>1 DEF Inv, Steady, JobSound, LinksSeen
<1>4. PICK x \in SnapTexts :
        \/ /\ x = Replacing(job.snap.note.title, job.snap.note.words, job.snap.note.links)
           /\ Goes(NextNote) /\ Keeps
        \/ /\ Writes(p, x.words, x.links, x.title, x.words \ job.snap.note.words,
                     job.snap.note.words \ x.words)
           /\ Goes(NextNote)
        \/ Goes(Idle) /\ Keeps
  BY DEF Rewrite
<1>5. PICK masked, old :
        /\ masked = (job.op = "links" /\ Masked(job.snap.path, job.snap.note))
        /\ old = IF masked THEN job.old \cup {p} ELSE job.old
  OBVIOUS
<1>6. NextNote = Job(job.op, job.todo, job.src, job.dst, old, job.word, Unread)
  BY <1>1, <1>5 DEF NextNote
<1>7. job.op = "links" /\ job.src[1] = job.dst[1] /\ p \notin old =>
         \A l \in x.links : Target(p, l) # job.src
  BY <1>1, <1>5, SnapTextFacts
<1>9. CASE /\ x = Replacing(job.snap.note.title, job.snap.note.words, job.snap.note.links)
           /\ Goes(NextNote) /\ Keeps
  <2>1. job' = Job(job.op, job.todo, job.src, job.dst, old, job.word, Unread)
        /\ UNCHANGED note
    BY <1>6, <1>9 DEF Goes, Keeps
  <2>2. Files' = Files BY <2>1 DEF Files, Exists
  <2>3. p \in Files => note[p] = job.snap.note BY <1>2, AbsentFields DEF Files, Exists
  <2>4. job.op = "links" /\ p \in Files /\ job.src[1] = job.dst[1] /\ p \notin old =>
           \A l \in note[p].links : Target(p, l) # job.src
    BY <1>7, <1>9, <2>3, TextFields
  <2>5. JobSound' BY <1>1, <1>3, <1>5, <2>1, <2>2, <2>4, ThroughNotes
  <2> QED BY <1>1, <1>9, <2>5, CallSteady DEF LockOps
<1>10. CASE /\ Writes(p, x.words, x.links, x.title, x.words \ job.snap.note.words,
                      job.snap.note.words \ x.words)
            /\ Goes(NextNote)
  <2>1. job' = Job(job.op, job.todo, job.src, job.dst, old, job.word, Unread)
    BY <1>6, <1>10 DEF Goes
  <2>2. PICK ws, ls, t, a, s :
           /\ ws = x.words /\ ls = x.links /\ t = x.title
           /\ a = x.words \ job.snap.note.words
           /\ s = job.snap.note.words \ x.words
    OBVIOUS
  <2>3. ws \in SUBSET Words /\ ls \in SUBSET Links /\ t \in Titles
    BY <1>1, <2>2, SnapTextFacts
  <2>4. Writes(p, ws, ls, t, a, s) BY <1>10, <2>2
  <2>5. /\ note'[p].links = ls /\ cache' = NoLists
        /\ \A q \in Paths \ {p} : note'[q] = note[q]
    BY <2>3, <2>4, WritesNote DEF Inv
  <2>6. job.op = "links" /\ job.src[1] = job.dst[1] /\ p \notin old =>
           \A l \in note'[p].links : Target(p, l) # job.src
    BY <1>7, <2>2, <2>5
  <2>7. \A q \in Files' : q = p \/ (q \in Files /\ note'[q] = note[q])
    BY <2>5 DEF Files, Exists
  <2>8. JobSound' BY <1>1, <1>3, <1>5, <2>1, <2>6, <2>7, ThroughNotes
  <2> QED BY <1>1, <2>5, <2>8, CallSteady DEF LockOps
<1>11. CASE Goes(Idle) /\ Keeps
  <2>1. JobSound' BY <1>11, IdleJob DEF Goes
  <2> QED BY <1>1, <1>11, <2>1, CallSteady DEF LockOps
<1> QED BY <1>4, <1>9, <1>10, <1>11

LEMMA BatchSteady ==
  ASSUME Inv, EndBatch \/ \E p \in Paths : WriteItem(p) PROVE Steady'
<1>1. CASE EndBatch BY <1>1, IdleJob, CallSteady DEF EndBatch, Goes, LockOps
<1>2. ASSUME NEW p \in Paths, WriteItem(p) PROVE Steady'
  <2>1. /\ job.op = "write_many" /\ job.snap = Unread /\ UNCHANGED <<del, held>>
        /\ cache' = NoLists \/ Keeps
    BY <1>2 DEF WriteItem, Writes, Store, Goes, Inv, Steady, JobSound, SnapFresh
  <2>2. PICK todo, old, w : todo = job.todo \ {p} /\ old = job.old /\ w = job.word OBVIOUS
  <2>3. job' = Job("write_many", todo, None, None, old, w, Unread)
    BY <1>2, <2>1, <2>2 DEF WriteItem, Goes, Remaining
  <2>4. todo \subseteq Paths /\ w \in Words
    BY <2>1, <2>2 DEF Inv, Steady, JobSound, JobShape, OfPaths, WithWord
  <2>5. JobSound'
    BY <2>3, <2>4, JobFields
       DEF JobSound, JobShape, JobOps, OfPaths, OfFolder, WithWord, SnapFresh,
           FolderSeen, LinksSeen, Listing
  <2> QED BY <2>1, <2>5, CallSteady DEF LockOps
<1> QED BY <1>1, <1>2

-----------------------------------------------------------------------------
(* Listings, upserts and the removal of folders.                            *)

\* The entries of a folder: all its notes, and notes known to have vanished.
LEMMA ScannedFacts ==
  ASSUME Inv, Listing, NEW t \in Known(job.todo)
  PROVE  /\ Scanned(t) \subseteq Paths \X Titles
         /\ \A p \in In(job.src) : <<p, note[p].title>> \in Scanned(t)
         /\ \A i \in Scanned(t) : Exists(i[1]) \/ i[1] \in ghosts
<1>1. /\ job.todo \subseteq Paths /\ In(job.src) \subseteq job.todo
      /\ \A p \in job.todo : Exists(p) \/ p \in ghosts
  BY DEF Inv, Steady, JobSound, JobShape, FolderSeen, Listing, OfPaths
<1>2. \A p \in job.todo : t[p] \in Titles /\ (Exists(p) => t[p] = note[p].title)
  BY DEF Known
<1>3. \A p \in In(job.src) : Exists(p) BY DEF In, Files
<1> QED BY <1>1, <1>2, <1>3 DEF Scanned

LEMMA EndListSteady == ASSUME Inv, EndList PROVE Steady'
<1>1. PICK t \in Known(job.todo) :
         /\ cache' = [cache EXCEPT ![job.src] = Scanned(t)]
         /\ Goes(IF job.op = "list" THEN Idle
                 ELSE Job("upsert", Scanned(t), job.src, None, None, job.word, Unread))
  BY DEF EndList
<1>2. Listing /\ UNCHANGED <<note, ghosts, del, held>> BY <1>1 DEF EndList, Goes
<1>3. PICK S, d, w : S = Scanned(t) /\ d = job.src /\ w = job.word OBVIOUS
<1>4. d \in Dirs /\ (job.op = "upsert_list" => w \in Words)
  BY <1>2, <1>3 DEF Inv, Steady, JobSound, JobShape, Listing, OfFolder, WithWord
<1>5. /\ S \subseteq Paths \X Titles
      /\ \A p \in In(d) : <<p, note[p].title>> \in S
      /\ \A i \in S : Exists(i[1]) \/ i[1] \in ghosts
  BY <1>2, <1>3, ScannedFacts
<1>6. \A e \in Dirs : In(e)' = In(e) BY <1>2 DEF In, Files, Exists
<1>7. JobSound'
  <2>1. CASE job.op = "list" BY <1>1, <2>1, IdleJob DEF Goes
  <2>2. CASE job.op = "upsert_list"
    <3>1. job' = Job("upsert", S, d, None, None, w, Unread) BY <1>1, <1>3, <2>2 DEF Goes
    <3>2. \A p \in In(d)' : <<p, note'[p].title>> \in S BY <1>2, <1>4, <1>5, <1>6
    <3> QED BY <1>4, <1>5, <2>2, <3>1, <3>2, UpsertJob
  <2> QED BY <1>2, <2>1, <2>2 DEF Listing
<1>8. CacheCovers'
  <2>1. cache' = [e \in Dirs |-> IF e = d THEN S ELSE cache[e]]
    BY <1>1, <1>3 DEF Inv, Steady, CacheCovers
  <2>2. ASSUME NEW e \in Dirs, cache'[e] # None
        PROVE  /\ cache'[e] \subseteq Paths \X Titles
               /\ \A p \in In(e)' : <<p, note'[p].title>> \in cache'[e]
               /\ \A i \in cache'[e] :
                     \/ Exists(i[1])' \/ i[1] \in ghosts'
                     \/ \E a \in Threads : del'[a].phase = "clear" /\ i[1] \in del'[a].all
    <3>1. CASE e = d BY <1>2, <1>5, <1>6, <2>1, <3>1 DEF Exists
    <3>2. CASE e # d
      <4>1. cache'[e] = cache[e] BY <2>1, <3>2
      <4> QED BY <1>2, <1>6, <2>2, <4>1
              DEF Exists, Inv, Steady, CacheCovers, ListingFresh
    <3> QED BY <3>1, <3>2
  <2> QED BY <2>1, <2>2 DEF CacheCovers, ListingFresh
<1>9. LocksOrdered' BY <1>2, HeldFcn, LocksKept DEF Listing, LockOps
<1> QED BY <1>2, <1>7, <1>8, <1>9, SameDel DEF Steady

LEMMA UpsertSteady ==
  ASSUME Inv, UpsertNew \/ \E p \in Paths : UpsertInto(p) PROVE Steady'
<1>1. /\ job.op = "upsert" /\ Goes(Idle) /\ (cache' = NoLists \/ Keeps)
  BY DEF UpsertNew, UpsertInto, Writes, Store
<1> QED BY <1>1, IdleJob, CallSteady DEF Goes, LockOps

LEMMA FolderJob ==
  ASSUME NEW todo \in SUBSET Paths, NEW d \in Dirs, In(d)' \subseteq todo,
         job' = Job("rmtree", todo, d, None, None, None, Unread)
  PROVE  JobSound'
BY JobFields DEF JobSound, JobShape, JobOps, OfPaths, OfFolder, WithWord, SnapFresh,
                 FolderSeen, LinksSeen, Listing

LEMMA FolderSteady ==
  ASSUME Inv, DoDeleteFolder \/ EndDeleteFolder \/ \E p \in Paths : Unlink(p)
  PROVE  Steady'
<1>1. job.op \in {"delete_folder", "rmtree"} => job.src \in Dirs /\ job.dst = None
  BY DEF Inv, Steady, JobSound, JobShape, OfFolder
<1>2. PICK d : d = job.src OBVIOUS
<1>3. CASE DoDeleteFolder
  <2>1. PICK todo : todo = In(d) OBVIOUS
  <2>2. /\ job.op = "delete_folder" /\ d \in Dirs /\ UNCHANGED <<del, held, note>> /\ Keeps
        /\ job' = Job("rmtree", todo, d, None, None, None, Unread)
    BY <1>1, <1>2, <1>3, <2>1 DEF DoDeleteFolder, Ready, Goes, Keeps
  <2>3. In(d)' = todo /\ todo \subseteq Paths BY <2>1, <2>2 DEF In, Files, Exists
  <2>4. JobSound' BY <2>2, <2>3, FolderJob
  <2>5. job'.op = "rmtree" /\ job'.src = d /\ job'.dst = None BY <2>2, JobFields
  <2>6. LocksOrdered' BY <1>1, <1>2, <2>2, <2>5, HeldFcn, LocksKept DEF LockOps
  <2>7. CacheCovers' BY <2>2, CacheKept DEF Keeps, Inv, Steady, CacheCovers
  <2> QED BY <2>2, <2>4, <2>6, <2>7, SameDel DEF Steady
<1>4. CASE EndDeleteFolder
  <2>1. job' = Idle /\ cache' = NoLists /\ UNCHANGED del
        /\ held' = [held EXCEPT ![Loop] = {}]
    BY <1>4 DEF EndDeleteFolder, Releases
  <2>2. LocksOrdered' BY <2>1, HeldFcn, LocksKept
  <2> QED BY <2>1, <2>2, IdleJob, CacheCleared, SameDel DEF Steady
<1>5. ASSUME NEW p \in Paths, Unlink(p), Exists(p) PROVE Steady'
  <2>1. PICK todo : todo = job.todo \ {p} OBVIOUS
  <2>2. /\ job.op = "rmtree" /\ d \in Dirs /\ UNCHANGED <<del, held, cache>>
        /\ job' = Job("rmtree", todo, d, None, None, None, Unread)
        /\ note' = [note EXCEPT ![p] = Absent] /\ ghosts' = ghosts \cup {p}
    BY <1>1, <1>2, <1>5, <2>1 DEF Unlink, Goes
  <2>3. note'[p] = Absent /\ \A q \in Paths \ {p} : note'[q] = note[q]
    BY <2>2 DEF Inv, Sound
  <2>4. job.todo \subseteq Paths /\ In(d) \subseteq job.todo
    BY <1>2, <2>2 DEF Inv, Steady, JobSound, JobShape, FolderSeen, OfPaths
  <2>5. In(d)' \subseteq todo BY <2>1, <2>3, <2>4, AbsentFields DEF In, Files, Exists
  <2>6. todo \in SUBSET Paths BY <2>1, <2>4
  <2>7. JobSound' BY <2>2, <2>5, <2>6, FolderJob
  <2>8. job'.op = "rmtree" /\ job'.src = d /\ job'.dst = None BY <2>2, JobFields
  <2>9. LocksOrdered' BY <1>1, <1>2, <2>2, <2>8, HeldFcn, LocksKept DEF LockOps
  <2>10. CacheCovers' BY <2>2, <2>3, CacheKept DEF Inv, Steady, CacheCovers
  <2> QED BY <2>2, <2>7, <2>9, <2>10, SameDel DEF Steady
<1>6. ASSUME NEW p \in Paths, Unlink(p), ~Exists(p) PROVE Steady'
  <2>1. job' = Idle /\ Keeps /\ UNCHANGED del /\ held' = [held EXCEPT ![Loop] = {}]
    BY <1>6 DEF Unlink, Fails, Releases
  <2>2. LocksOrdered' BY <2>1, HeldFcn, LocksKept
  <2>3. CacheCovers' BY <2>1, CacheKept DEF Keeps, Inv, Steady, CacheCovers
  <2> QED BY <2>1, <2>2, <2>3, IdleJob, SameDel DEF Steady
<1> QED BY <1>3, <1>4, <1>5, <1>6

-----------------------------------------------------------------------------
(* Deletions in threads, time and restarts.                                 *)

LEMMA ThreadHeld ==
  ASSUME Inv, NEW t \in Threads
  PROVE  held' = [held EXCEPT ![t] = {}] =>
            /\ held' = [a \in Agents |-> held'[a]] /\ held'[t] = {}
            /\ \A a \in Agents \ {t} : held'[a] = held[a]
BY DEF Inv, Steady, LocksOrdered, Agents

LEMMA DelFields ==
  ASSUME Inv, NEW t \in Threads
  PROVE  del[t].all \subseteq Paths /\ del[t].todo \subseteq del[t].all
BY DEF Inv, Steady, DelShape

LEMMA ThreadSteady ==
  ASSUME Inv, NEW t \in Threads,
         \/ \E S \in Batches : DeleteFiles(t, S)
         \/ Clear(t) \/ EndDelete(t) \/ \E p \in Paths : DeleteOne(t, p)
  PROVE  Steady'
<1>1. Loop # t /\ Loop \in Agents /\ Threads \subseteq Agents
  BY NotesAssumption DEF Agents
<1>2. CASE \E S \in Batches : DeleteFiles(t, S)
  <2>1. PICK S \in Batches : DeleteFiles(t, S) BY <1>2
  <2>2. S \subseteq Paths BY NotesAssumption
  <2>3. /\ del[t] = NoDel /\ del' = [del EXCEPT ![t] = Del("delete", S, S)]
        /\ Keeps /\ UNCHANGED <<job, held, note, cache, ghosts>>
    BY <2>1 DEF DeleteFiles, Keeps
  <2>4. /\ del'[t].phase = "delete" /\ del'[t].all = S /\ DelShape'
        /\ \A u \in Threads \ {t} : del'[u] = del[u]
    BY <2>2, <2>3 DEF Inv, Steady, DelShape, Del
  <2>5. del[t].all = {} /\ del[t].phase = "idle" BY <2>3 DEF NoDel, Del
  <2>6. LocksOrdered' BY <2>3, <2>4, <2>5, HeldFcn, LocksKept
  <2>7. JobSound' BY <2>3, SameJob
  <2>8. CacheCovers' BY <2>3, <2>4, <2>5, CacheKept DEF Inv, Steady, CacheCovers
  <2> QED BY <2>4, <2>6, <2>7, <2>8 DEF Steady
<1>3. CASE Clear(t)
  <2>0. PICK all, todo : all = del[t].all /\ todo = del[t].todo OBVIOUS
  <2>1. /\ del[t].phase = "clear" /\ cache' = NoLists /\ UNCHANGED <<note, job, held>>
        /\ del' = [del EXCEPT ![t] = Del("delete", all, todo)]
        /\ Listing => ghosts' = ghosts
    BY <1>3, <2>0 DEF Clear, Inv, Steady, DelShape
  <2>2. all \subseteq Paths /\ todo \subseteq all BY <2>0, DelFields
  <2>3. /\ del'[t].phase = "delete" /\ del'[t].all = all /\ DelShape'
        /\ \A u \in Threads \ {t} : del'[u] = del[u]
    BY <2>0, <2>1, <2>2 DEF Inv, Steady, DelShape, Del
  <2>4. LocksOrdered' BY <2>0, <2>1, <2>3, HeldFcn, LocksKept
  <2>5. JobSound' BY <2>1, SameJob
  <2> QED BY <2>1, <2>3, <2>4, <2>5, CacheCleared DEF Steady
<1>4. CASE EndDelete(t)
  <2>1. /\ del[t].phase = "delete" /\ del' = [del EXCEPT ![t] = Del("idle", {}, {})]
        /\ held' = [held EXCEPT ![t] = {}] /\ Keeps
        /\ UNCHANGED <<job, note, cache, ghosts>>
    BY <1>4 DEF EndDelete, NoDel, Keeps
  <2>2. /\ del'[t].phase = "idle" /\ del'[t].all = {} /\ DelShape'
        /\ \A u \in Threads \ {t} : del'[u] = del[u]
    BY <2>1 DEF Inv, Steady, DelShape, Del
  <2>3. /\ held' = [a \in Agents |-> held'[a]] /\ held'[t] = {}
        /\ \A a \in Agents \ {t} : held'[a] = held[a]
    BY <2>1, ThreadHeld
  <2>4. LocksOrdered' BY <1>1, <2>1, <2>2, <2>3, LocksKept
  <2>5. JobSound' BY <2>1, SameJob
  <2>6. CacheCovers' BY <2>1, <2>2, CacheKept DEF Inv, Steady, CacheCovers
  <2> QED BY <2>2, <2>4, <2>5, <2>6 DEF Steady
<1>5. ASSUME NEW p \in Paths, DeleteOne(t, p) PROVE Steady'
  <2>1. /\ del[t].phase = "delete" /\ p \in del[t].todo /\ UNCHANGED <<job, held, cache>>
    BY <1>5 DEF DeleteOne
  <2>2. PICK all, todo : all = del[t].all /\ todo = del[t].todo \ {p} OBVIOUS
  <2>3. all \subseteq Paths /\ todo \subseteq all /\ p \in all
    BY <2>1, <2>2, DelFields
  <2>4. CASE Exists(p)
    <3>1. /\ note' = [note EXCEPT ![p] = Absent]
          /\ del' = [del EXCEPT ![t] = Del("clear", all, todo)]
          /\ ghosts' = IF Listing THEN ghosts \cup {p} ELSE ghosts
      BY <1>5, <2>2, <2>4 DEF DeleteOne, Inv, Steady, DelShape
    <3>2. note'[p] = Absent /\ \A q \in Paths \ {p} : note'[q] = note[q]
      BY <3>1 DEF Inv, Sound
    <3>3. /\ del'[t].phase = "clear" /\ del'[t].all = all /\ DelShape'
          /\ \A u \in Threads \ {t} : del'[u] = del[u]
      BY <2>3, <3>1 DEF Inv, Steady, DelShape, Del
    <3>4. LocksOrdered' BY <2>1, <2>2, <3>3, HeldFcn, LocksKept
    <3>5. JobSound' BY <2>1, <3>1, <3>2, SameJob
    <3>6. CacheCovers' BY <2>1, <2>2, <2>3, <3>1, <3>2, <3>3, CacheKept
                       DEF Inv, Steady, CacheCovers
    <3> QED BY <3>3, <3>4, <3>5, <3>6 DEF Steady
  <2>5. CASE ~Exists(p)
    <3>1. /\ UNCHANGED <<note, ghosts>>
          /\ del' = [del EXCEPT ![t] = Del("delete", all, todo)]
      BY <1>5, <2>2, <2>5 DEF DeleteOne, Inv, Steady, DelShape
    <3>2. /\ del'[t].phase = "delete" /\ del'[t].all = all /\ DelShape'
          /\ \A u \in Threads \ {t} : del'[u] = del[u]
      BY <2>3, <3>1 DEF Inv, Steady, DelShape, Del
    <3>3. LocksOrdered' BY <2>1, <2>2, <3>2, HeldFcn, LocksKept
    <3>4. JobSound' BY <2>1, <3>1, SameJob
    <3>5. CacheCovers' BY <2>1, <3>1, <3>2, CacheKept DEF Inv, Steady, CacheCovers
    <3> QED BY <3>2, <3>3, <3>4, <3>5 DEF Steady
  <2> QED BY <2>4, <2>5
<1> QED BY <1>2, <1>3, <1>4, <1>5

LEMMA ExpireSteady == ASSUME Inv, NEW d \in Dirs, Expire(d) PROVE Steady'
<1>1. /\ UNCHANGED <<note, job, del, held, ghosts>>
      /\ cache' = [cache EXCEPT ![d] = None]
  BY DEF Expire
<1>2. cache' = [e \in Dirs |-> cache'[e]] /\ \A e \in Dirs : cache'[e] \in {cache[e], None}
  BY <1>1 DEF Inv, Steady, CacheCovers
<1>3. LocksOrdered' BY <1>1, HeldFcn, LocksKept
<1>4. JobSound' BY <1>1, SameJob
<1>5. CacheCovers' BY <1>1, <1>2, CacheKept
<1> QED BY <1>1, <1>3, <1>4, <1>5, SameDel DEF Steady

LEMMA RestartSteady == ASSUME Inv, Restart PROVE Steady'
<1>1. /\ job' = Idle /\ del' = [t \in Threads |-> NoDel]
      /\ held' = [a \in Agents |-> {}] /\ cache' = NoLists
  BY DEF Restart
<1>2. DelShape' BY <1>1 DEF DelShape, NoDel, Del
<1>3. LocksOrdered' BY <1>1 DEF LocksOrdered
<1> QED BY <1>1, <1>2, <1>3, IdleJob, CacheCleared DEF Steady

-----------------------------------------------------------------------------
(* What is stored and what is known of it.                                  *)

LEMMA Shapes ==
  ASSUME NEW n \in NoteType
  PROVE  /\ n.rev \in 0..MaxClock /\ n.words \subseteq Words /\ n.title \in Titles
         /\ n.links \subseteq Links
BY DEF NoteType

LEMMA PathParts ==
  ASSUME NEW p \in Paths PROVE p[1] \in Dirs /\ p[2] \in Names /\ p = <<p[1], p[2]>>
BY DEF Paths

-----------------------------------------------------------------------------
(* Changes of the notes.                                                    *)

\* A new stamp is greater than any the note has had, or marks its path as a twin.
LEMMA StampGrows ==
  ASSUME Sound, note' \in [Paths -> NoteType], NEW p \in Paths,
         \/ top'[p] = top[p] /\ (note'[p] = note[p] \/ note'[p].rev = 0)
         \/ top'[p] = Seen(p, note'[p].rev)
  PROVE  /\ top'[p] \in 0..Twin /\ note'[p].rev <= top'[p] /\ top[p] <= top'[p]
         /\ top'[p] # Twin => \/ note'[p] = note[p]
                              \/ note'[p].rev = 0 \/ note'[p].rev > top[p]
         /\ top'[p] # Twin => top[p] # Twin
<1>0. MaxClock \in Nat /\ Twin = MaxClock + 1 BY NotesAssumption DEF Twin
<1>1. /\ note'[p].rev \in 0..MaxClock /\ note[p].rev \in 0..MaxClock
      /\ note[p].rev <= top[p] /\ top[p] \in 0..Twin
  BY Shapes DEF Sound
<1>2. CASE top'[p] = top[p] /\ (note'[p] = note[p] \/ note'[p].rev = 0)
  BY <1>0, <1>1, <1>2
<1>3. CASE top'[p] = Seen(p, note'[p].rev)
  <2>1. CASE note'[p].rev = 0
    <3>1. top'[p] = top[p] BY <1>3, <2>1 DEF Seen
    <3> QED BY <1>0, <1>1, <2>1, <3>1
  <2>2. CASE note'[p].rev # 0 /\ note'[p].rev <= top[p]
    <3>1. top'[p] = Twin BY <1>3, <2>2 DEF Seen
    <3> QED BY <1>0, <1>1, <3>1
  <2>3. CASE note'[p].rev # 0 /\ ~(note'[p].rev <= top[p])
    <3>1. top'[p] = note'[p].rev BY <1>3, <2>3 DEF Seen
    <3> QED BY <1>0, <1>1, <2>3, <3>1
  <2> QED BY <2>1, <2>2, <2>3
<1> QED BY <1>2, <1>3

\* Every change of notes is of this form: what is stored anew gets a stamp.
LEMMA RestampSound ==
  ASSUME Sound, note' \in [Paths -> NoteType], top' = [p \in Paths |-> top'[p]],
         dirs' \subseteq Dirs, clock' \in 1..MaxClock,
         \A p \in Paths : /\ note'[p].rev = 0 => note'[p] = Absent
                          /\ note'[p].rev # 0 => p[1] \in dirs',
         \A p \in Paths :
            \/ top'[p] = top[p] /\ (note'[p] = note[p] \/ note'[p].rev = 0)
            \/ top'[p] = Seen(p, note'[p].rev),
         acked' \subseteq Paths \X Words, \A x \in acked' : x[2] \in note'[x[1]].words,
         base' \in [Clients -> ViewType],
         \A c \in Clients : base'[c] \in {base[c], Unread}
  PROVE  Sound'
<1>0. MaxClock \in Nat /\ Twin = MaxClock + 1 BY NotesAssumption DEF Twin
<1>1. ASSUME NEW p \in Paths
      PROVE  /\ top'[p] \in 0..Twin /\ note'[p].rev <= top'[p] /\ top[p] <= top'[p]
             /\ top'[p] # Twin => \/ note'[p] = note[p]
                                  \/ note'[p].rev = 0 \/ note'[p].rev > top[p]
             /\ top'[p] # Twin => top[p] # Twin
  BY StampGrows
<1>2. ASSUME NEW c \in Clients, base'[c] # Unread PROVE Valid(base[c])'
  <2>1. base'[c] = base[c] /\ Valid(base[c]) BY <1>2 DEF Sound
  <2>2. PICK v : v = base[c] OBVIOUS
  <2>3. /\ v.path \in Paths /\ v.note \in NoteType /\ v.note.rev # 0
        /\ v.note.rev <= top[v.path]
        /\ top[v.path] # Twin /\ note[v.path].rev = v.note.rev => note[v.path] = v.note
    BY <2>1, <2>2 DEF Valid
  <2>4. v.note.rev \in 0..MaxClock /\ top[v.path] \in 0..Twin /\ top'[v.path] \in 0..Twin
    BY <1>1, <2>3, Shapes DEF Sound
  <2>5. v.note.rev <= top'[v.path] BY <1>0, <1>1, <2>3, <2>4
  <2>6. ASSUME top'[v.path] # Twin, note'[v.path].rev = v.note.rev
        PROVE  note'[v.path] = v.note
    BY <1>0, <1>1, <2>3, <2>4, <2>6
  <2>7. base'[c] = v BY <2>1, <2>2
  <2> QED BY <2>3, <2>5, <2>6, <2>7 DEF Valid
<1>3. top' \in [Paths -> 0..Twin] BY <1>1
<1> QED BY <1>1, <1>2, <1>3 DEF Sound, KeepsAcked

\* No note changes, and no client reads one.
LEMMA SameNotesSound ==
  ASSUME Sound, UNCHANGED <<note, dirs, top, acked>>, clock' \in 1..MaxClock,
         base' \in [Clients -> ViewType],
         \A c \in Clients : base'[c] \in {base[c], Unread}
  PROVE  Sound'
BY RestampSound DEF Sound, KeepsAcked

LEMMA BaseKept ==
  ASSUME Sound, UNCHANGED base
  PROVE  /\ base' \in [Clients -> ViewType]
         /\ \A c \in Clients : base'[c] \in {base[c], Unread}
BY DEF Sound

\* A note is written: what is lost is what the writer knows of.
LEMMA WritesSound ==
  ASSUME Sound, NEW p \in Paths, NEW ws \in SUBSET Words,
         NEW ls \in SUBSET Links, NEW t \in Titles,
         NEW added \in SUBSET ws, NEW saw,
         Writes(p, ws, ls, t, added, saw), UNCHANGED clock,
         \A w \in Words \ saw : <<p, w>> \in acked => w \in ws,
         base' \in [Clients -> ViewType],
         \A c \in Clients : base'[c] \in {base[c], Unread}
  PROVE  Sound' /\ cache' = NoLists /\ ghosts' = {}
<1>1. PICK n : n = Note(clock, ws, ls, t) OBVIOUS
<1>2. clock \in 1..MaxClock BY DEF Sound
<1>3. n \in NoteType /\ n.rev = clock /\ n.words = ws
  BY <1>1, <1>2, NoteFields, NotesAssumption
<1>4. /\ note' = [q \in Paths |-> IF q \in {p} THEN [r \in {p} |-> n][q] ELSE note[q]]
      /\ dirs' = dirs \cup {q[1] : q \in {r \in {p} : [x \in {p} |-> n][r].rev # 0}}
      /\ top' = [q \in Paths |-> IF q \in {p} THEN Seen(q, [r \in {p} |-> n][q].rev) ELSE top[q]]
      /\ cache' = NoLists /\ ghosts' = {}
      /\ acked' = (acked \ ({p} \X saw)) \cup ({p} \X added)
  BY <1>1 DEF Writes, Store
<1>5. /\ note' \in [Paths -> NoteType] /\ note'[p] = n
      /\ \A q \in Paths \ {p} : note'[q] = note[q]
  BY <1>3, <1>4 DEF Sound
<1>6. top' = [q \in Paths |-> top'[q]] /\ top'[p] = Seen(p, note'[p].rev)
      /\ \A q \in Paths \ {p} : top'[q] = top[q]
  BY <1>4, <1>5
<1>7. n.rev # 0 BY <1>2, <1>3, NotesAssumption
<1>8. dirs' = dirs \cup {p[1]}
  <2>1. {q[1] : q \in {r \in {p} : [x \in {p} |-> n][r].rev # 0}} = {p[1]} BY <1>7
  <2> QED BY <1>4, <2>1
<1>9. dirs' \subseteq Dirs BY <1>8, PathParts DEF Sound
<1>10. ASSUME NEW q \in Paths
       PROVE  /\ note'[q].rev = 0 => note'[q] = Absent
              /\ note'[q].rev # 0 => q[1] \in dirs'
  BY <1>5, <1>7, <1>8 DEF Sound
<1>11. acked' \subseteq Paths \X Words BY <1>4 DEF Sound
<1>12. ASSUME NEW x \in acked' PROVE x[2] \in note'[x[1]].words
  <2>1. x \in Paths \X Words BY <1>11
  <2>2. CASE x[1] = p
    <3>1. x = <<p, x[2]>> /\ x[2] \in Words BY <2>1, <2>2
    <3>2. CASE x[2] \in added BY <1>3, <1>5, <2>2, <3>2
    <3>3. CASE x[2] \notin added
      <4>1. x \in acked /\ x[2] \notin saw BY <1>4, <3>1, <3>3
      <4>2. <<p, x[2]>> \in acked BY <3>1, <4>1
      <4>3. x[2] \in ws BY <3>1, <4>1, <4>2
      <4> QED BY <1>3, <1>5, <2>2, <4>3
    <3> QED BY <3>2, <3>3
  <2>3. CASE x[1] # p
    <3>1. x \in acked BY <1>4, <2>3
    <3>2. x[2] \in note[x[1]].words BY <3>1 DEF Sound, KeepsAcked
    <3> QED BY <1>5, <2>1, <2>3, <3>2
  <2> QED BY <2>2, <2>3
<1>13. \A q \in Paths : \/ top'[q] = top[q] /\ (note'[q] = note[q] \/ note'[q].rev = 0)
                        \/ top'[q] = Seen(q, note'[q].rev)
  BY <1>5, <1>6
<1>14. clock' \in 1..MaxClock BY <1>2
<1> QED BY <1>4, <1>5, <1>6, <1>9, <1>10, <1>11, <1>12, <1>13, <1>14, RestampSound

\* The notes of S are gone, by whatever means.
LEMMA GoneSound ==
  ASSUME Sound, NEW S \in SUBSET Paths,
         note' = [p \in Paths |-> IF p \in S THEN Absent ELSE note[p]],
         UNCHANGED <<top, base, clock>>, acked' = {x \in acked : x[1] \notin S},
         dirs' = dirs
  PROVE  Sound'
<1>1. \A p \in Paths : note'[p] = IF p \in S THEN Absent ELSE note[p] OBVIOUS
<1>2. note' \in [Paths -> NoteType] BY AbsentFields DEF Sound
<1>3. \A p \in Paths : /\ note'[p].rev = 0 => note'[p] = Absent
                       /\ note'[p].rev # 0 => p[1] \in dirs'
  BY <1>1, AbsentFields DEF Sound
<1>4. acked' \subseteq Paths \X Words /\ \A x \in acked' : x[2] \in note'[x[1]].words
  BY <1>1 DEF Sound, KeepsAcked
<1>5. top' = [p \in Paths |-> top'[p]] /\ dirs' \subseteq Dirs /\ clock' \in 1..MaxClock
  BY DEF Sound
<1>6. \A p \in Paths : top'[p] = top[p] /\ (note'[p] = note[p] \/ note'[p].rev = 0)
  BY <1>1, AbsentFields
<1> QED BY <1>2, <1>3, <1>4, <1>5, <1>6, BaseKept, RestampSound

LEMMA OneGoneSound ==
  ASSUME Sound, NEW p \in Paths, note' = [note EXCEPT ![p] = Absent],
         UNCHANGED <<top, base, clock, dirs>>, acked' = {x \in acked : x[1] # p}
  PROVE  Sound'
<1>1. note' = [q \in Paths |-> IF q \in {p} THEN Absent ELSE note[q]] BY DEF Sound
<1>2. acked' = {x \in acked : x[1] \notin {p}} OBVIOUS
<1>3. {p} \in SUBSET Paths OBVIOUS
<1> QED BY <1>1, <1>2, <1>3, GoneSound

\* A note keeps its stamp and its words on the way from p to q.
LEMMA MovedSound ==
  ASSUME Sound, NEW p \in Paths, NEW q \in Paths, Exists(p), ~Exists(q), Moved(p, q),
         UNCHANGED <<base, clock>>
  PROVE  Sound'
<1>1. p # q BY DEF Exists
<1>2. PICK n : n = note[p] OBVIOUS
<1>3. n \in NoteType /\ n.rev # 0 BY <1>2 DEF Sound, Exists
<1>4. PICK m : m = [x \in {p, q} |-> IF x = q THEN n ELSE Absent] OBVIOUS
<1>5. m[p] = Absent /\ m[q] = n BY <1>1, <1>4
<1>6. /\ note' = [x \in Paths |-> IF x \in {p, q} THEN m[x] ELSE note[x]]
      /\ dirs' = dirs \cup {x[1] : x \in {y \in {p, q} : m[y].rev # 0}}
      /\ top' = [x \in Paths |-> IF x \in {p, q} THEN Seen(x, m[x].rev) ELSE top[x]]
      /\ acked' = {x \in acked : x[1] # p} \cup ({q} \X {w \in Words : <<p, w>> \in acked})
  BY <1>2, <1>4 DEF Moved, Store
<1>7. /\ note'[p] = Absent /\ note'[q] = n /\ \A x \in Paths \ {p, q} : note'[x] = note[x]
  BY <1>5, <1>6
<1>8. note' \in [Paths -> NoteType] BY <1>3, <1>5, <1>6, AbsentFields DEF Sound
<1>9. /\ top' = [x \in Paths |-> top'[x]]
      /\ top'[p] = Seen(p, note'[p].rev) /\ top'[q] = Seen(q, note'[q].rev)
      /\ \A x \in Paths \ {p, q} : top'[x] = top[x]
  BY <1>5, <1>6, <1>7
<1>10. dirs' = dirs \cup {q[1]}
  <2>1. {y \in {p, q} : m[y].rev # 0} = {q} BY <1>3, <1>5, AbsentFields
  <2>2. {x[1] : x \in {q}} = {q[1]} OBVIOUS
  <2> QED BY <1>6, <2>1, <2>2
<1>11. dirs' \subseteq Dirs BY <1>10, PathParts DEF Sound
<1>12. ASSUME NEW x \in Paths
       PROVE  /\ note'[x].rev = 0 => note'[x] = Absent
              /\ note'[x].rev # 0 => x[1] \in dirs'
              /\ \/ top'[x] = top[x] /\ (note'[x] = note[x] \/ note'[x].rev = 0)
                 \/ top'[x] = Seen(x, note'[x].rev)
  <2>1. CASE x = p BY <1>7, <1>9, <2>1, AbsentFields
  <2>2. CASE x = q BY <1>3, <1>7, <1>9, <1>10, <2>2
  <2>3. CASE x \notin {p, q} BY <1>7, <1>9, <1>10, <2>3 DEF Sound
  <2> QED BY <2>1, <2>2, <2>3
<1>13. acked' \subseteq Paths \X Words BY <1>6 DEF Sound
<1>14. ASSUME NEW x \in acked' PROVE x[2] \in note'[x[1]].words
  <2>1. x \in Paths \X Words /\ x = <<x[1], x[2]>> BY <1>13
  <2>2. \A y \in acked : y[2] \in note[y[1]].words BY DEF Sound, KeepsAcked
  <2>3. CASE x \in acked /\ x[1] # p
    <3>1. x[2] \in note[x[1]].words BY <2>2, <2>3
    <3>2. note[q].words = {} BY AbsentFields DEF Sound, Exists
    <3>3. x[1] # q BY <3>1, <3>2
    <3> QED BY <1>7, <2>1, <2>3, <3>1, <3>3
  <2>4. CASE x[1] = q /\ <<p, x[2]>> \in acked
    <3>1. <<p, x[2]>>[2] \in note[<<p, x[2]>>[1]].words BY <2>2, <2>4
    <3>2. x[2] \in n.words BY <1>2, <3>1
    <3> QED BY <1>7, <2>4, <3>2
  <2>5. (x \in acked /\ x[1] # p) \/ (x[1] = q /\ <<p, x[2]>> \in acked) BY <1>6, <2>1
  <2> QED BY <2>3, <2>4, <2>5
<1>15. clock' \in 1..MaxClock BY DEF Sound
<1> QED BY <1>8, <1>9, <1>11, <1>12, <1>13, <1>14, <1>15, BaseKept, RestampSound

\* A folder moves with its notes to where there was none.
LEMMA FolderMovedSound ==
  ASSUME Inv, DoMoveFolder PROVE Sound'
<1> USE DEF Inv
<1>1. PICK d, e : d = job.src /\ e = job.dst OBVIOUS
<1>2. d \in Dirs /\ e \in Dirs /\ d # e /\ d \in dirs /\ e \notin dirs
  BY <1>1 DEF DoMoveFolder, Ready, Steady, JobSound, JobShape
<1>3. /\ note' = [p \in Paths |-> IF p[1] = e THEN note[<<d, p[2]>>]
                                  ELSE IF p[1] = d THEN Absent ELSE note[p]]
      /\ top' = [p \in Paths |-> IF p[1] = e THEN Seen(p, note[<<d, p[2]>>].rev) ELSE top[p]]
      /\ acked' = {<<IF x[1][1] = d THEN <<e, x[1][2]>> ELSE x[1], x[2]>> : x \in acked}
      /\ dirs' = (dirs \ {d}) \cup {e} /\ UNCHANGED <<base, clock>>
  BY <1>1 DEF DoMoveFolder, Releases
<1>4. ASSUME NEW p \in Paths PROVE <<d, p[2]>> \in Paths /\ <<e, p[2]>> \in Paths
  BY <1>2, PathParts DEF Paths
<1>5. ASSUME NEW p \in Paths
      PROVE  /\ p[1] = e => note'[p] = note[<<d, p[2]>>] /\ top'[p] = Seen(p, note'[p].rev)
             /\ p[1] = d => note'[p] = Absent /\ top'[p] = top[p]
             /\ p[1] \notin {d, e} => note'[p] = note[p] /\ top'[p] = top[p]
  BY <1>2, <1>3
<1>6. note' \in [Paths -> NoteType] BY <1>3, <1>4, AbsentFields DEF Sound
<1>7. dirs' \subseteq Dirs /\ clock' \in 1..MaxClock BY <1>2, <1>3 DEF Sound
<1>8. ASSUME NEW p \in Paths
      PROVE  /\ note'[p].rev = 0 => note'[p] = Absent
             /\ note'[p].rev # 0 => p[1] \in dirs'
             /\ \/ top'[p] = top[p] /\ (note'[p] = note[p] \/ note'[p].rev = 0)
                \/ top'[p] = Seen(p, note'[p].rev)
  <2>1. CASE p[1] = e BY <1>3, <1>4, <1>5, <2>1 DEF Sound
  <2>2. CASE p[1] = d BY <1>5, <2>2, AbsentFields
  <2>3. CASE p[1] \notin {d, e} BY <1>3, <1>5, <2>3 DEF Sound
  <2> QED BY <2>1, <2>2, <2>3
<1>9. ASSUME NEW y \in acked'
      PROVE  y \in Paths \X Words /\ y[2] \in note'[y[1]].words
  <2>1. PICK x \in acked : y = <<IF x[1][1] = d THEN <<e, x[1][2]>> ELSE x[1], x[2]>>
    BY <1>3
  <2>2. x[1] \in Paths /\ x[2] \in Words /\ x[2] \in note[x[1]].words
    BY DEF Sound, KeepsAcked
  <2>3. PICK p : p = x[1] OBVIOUS
  <2>4. p \in Paths /\ p = <<p[1], p[2]>> BY <2>2, <2>3, PathParts
  <2>5. CASE p[1] = d
    <3>1. y = <<<<e, p[2]>>, x[2]>> BY <2>1, <2>3, <2>5
    <3>2. PICK q : q = <<e, p[2]>> OBVIOUS
    <3>3. q \in Paths /\ q[1] = e /\ q[2] = p[2] BY <1>4, <2>4, <3>2
    <3>4. note'[q] = note[<<d, q[2]>>] BY <1>5, <3>3
    <3>5. <<d, q[2]>> = p BY <2>4, <2>5, <3>3
    <3> QED BY <2>2, <2>3, <3>1, <3>2, <3>3, <3>4, <3>5
  <2>6. CASE p[1] # d
    <3>1. y = <<p, x[2]>> BY <2>1, <2>3, <2>6
    <3>2. note[p].words # {} BY <2>2, <2>3
    <3>3. note[p].rev # 0 BY <2>4, <3>2, AbsentFields DEF Sound
    <3>4. p[1] # e BY <1>2, <2>4, <3>3 DEF Sound
    <3>5. note'[p] = note[p] BY <1>5, <2>4, <2>6, <3>4
    <3> QED BY <2>2, <2>3, <3>1, <3>5
  <2> QED BY <2>5, <2>6
<1>10. acked' \subseteq Paths \X Words BY <1>9
<1>11. top' = [p \in Paths |-> top'[p]] BY <1>3
<1> QED BY <1>3, <1>6, <1>7, <1>8, <1>9, <1>10, <1>11, BaseKept, RestampSound

\* Put: the comparison of revisions tells whether the client has seen the note.
LEMMA PutSound ==
  ASSUME Sound, NEW c \in Clients, NEW ws \in SUBSET New, Put(c, ws) PROVE Sound'
<1>1. PICK b : b = base[c] OBVIOUS
<1>2. PICK p, n : p = b.path /\ n = b.note OBVIOUS
<1>3. p # None BY <1>1, <1>2 DEF Put
<1>4. b # Unread BY <1>2, <1>3 DEF Unread, View
<1>5. /\ p \in Paths /\ n \in NoteType
      /\ top[p] # Twin /\ note[p].rev = n.rev => note[p] = n
  BY <1>1, <1>2, <1>4 DEF Sound, Valid
<1>6. PICK new, ls, t, saw :
         new = n.words \cup ws /\ ls = n.links /\ t = n.title /\ saw = Deceived(p)
  OBVIOUS
<1>7. /\ Writes(p, new, ls, t, ws, saw) /\ note[p].rev = n.rev /\ UNCHANGED clock
      /\ base' = [base EXCEPT ![c] = Unread]
  BY <1>1, <1>2, <1>6 DEF Put, Whole, Calls
<1>8. ws \in SUBSET new /\ new \in SUBSET Words /\ ls \in SUBSET Links /\ t \in Titles
  BY <1>5, <1>6, Shapes, NotesAssumption
<1>9. ASSUME NEW w \in Words \ saw, <<p, w>> \in acked PROVE w \in new
  <2>1. <<p, w>>[2] \in note[<<p, w>>[1]].words BY <1>9 DEF Sound, KeepsAcked
  <2>2. top[p] # Twin BY <1>6, <1>9 DEF Deceived
  <2> QED BY <1>5, <1>6, <1>7, <2>1, <2>2
<1>10. Unread \in ViewType BY AbsentFields DEF Unread, View, ViewType
<1>11. /\ base' \in [Clients -> ViewType]
       /\ \A d \in Clients : base'[d] \in {base[d], Unread}
  BY <1>7, <1>10 DEF Sound
<1> QED BY <1>5, <1>7, <1>8, <1>9, <1>11, WritesSound

\* A read gives the client a view of what is there.
LEMMA ReadSound == ASSUME Sound, NEW c \in Clients, NEW p \in Edited, Read(c, p) PROVE Sound'
<1>1. p \in Paths BY NotesAssumption
<1>2. /\ UNCHANGED <<note, dirs, top, acked, clock>> /\ note[p].rev # 0
      /\ base' = [base EXCEPT ![c] = View(p, note[p])]
  BY DEF Read, Keeps, Exists
<1>3. PICK v : v = View(p, note[p]) OBVIOUS
<1>4. v.path = p /\ v.note = note[p] /\ note[p] \in NoteType
  BY <1>1, <1>3, ViewFields DEF Sound
<1>5. v \in ViewType BY <1>1, <1>3, <1>4 DEF View, ViewType
<1>6. base' \in [Clients -> ViewType] /\ base'[c] = v
      /\ \A d \in Clients \ {c} : base'[d] = base[d]
  BY <1>2, <1>3, <1>5 DEF Sound
<1>7. ASSUME NEW d \in Clients, base'[d] # Unread PROVE Valid(base[d])'
  <2>1. Valid(base'[d]) <=> Valid(base[d])' BY <1>2 DEF Valid
  <2>2. CASE d = c BY <1>1, <1>2, <1>4, <1>6, <2>1, <2>2 DEF Valid, Sound
  <2>3. CASE d # c BY <1>6, <1>7, <2>1, <2>3 DEF Sound
  <2> QED BY <2>2, <2>3
<1> QED BY <1>2, <1>6, <1>7 DEF Sound, KeepsAcked

\* A new name is that of no note.
LEMMA NewPathFacts ==
  ASSUME Sound, NEW d \in Dirs, NEW p \in NewPaths(d)
  PROVE  p \in Paths /\ \A w : <<p, w>> \notin acked
<1>1. PICK i \in DOMAIN Slots : p = <<d, Slots[i]>> /\ ~Exists(p) BY DEF NewPaths
<1>2. Slots[i] \in Names BY <1>1, NotesAssumption
<1>3. p \in Paths BY <1>1, <1>2 DEF Paths
<1>4. note[p].words = {} BY <1>1, <1>3, AbsentFields DEF Sound, Exists
<1>5. ASSUME NEW w, <<p, w>> \in acked PROVE FALSE
  <2>1. <<p, w>>[2] \in note[<<p, w>>[1]].words BY <1>5 DEF Sound, KeepsAcked
  <2> QED BY <1>4, <2>1
<1> QED BY <1>3, <1>5

\* A write that drops nothing that was acknowledged, or knows of all words.
LEMMA WriteSound ==
  ASSUME Sound, NEW p \in Paths, NEW ws \in SUBSET Words, NEW ls \in SUBSET Links,
         NEW t \in Titles, NEW added \in SUBSET ws, NEW saw,
         Writes(p, ws, ls, t, added, saw), UNCHANGED <<clock, base>>,
         \A w \in Words \ saw : <<p, w>> \in acked => w \in ws
  PROVE  Sound'
BY BaseKept, WritesSound

LEMMA AckedFacts ==
  ASSUME Sound, NEW p \in Paths
  PROVE  /\ \A w : <<p, w>> \in acked => w \in note[p].words
         /\ note[p].words \in SUBSET Words /\ note[p].links \in SUBSET Links
         /\ note[p].title \in Titles
<1>1. note[p] \in NoteType BY DEF Sound
<1>2. ASSUME NEW w, <<p, w>> \in acked PROVE w \in note[p].words
  <2>1. <<p, w>>[2] \in note[<<p, w>>[1]].words BY <1>2 DEF Sound, KeepsAcked
  <2> QED BY <2>1
<1> QED BY <1>1, <1>2, Shapes

\* The calls on one note.
LEMMA NoteOpsSound == ASSUME Sound, NoteOps PROVE Sound'
<1> USE NotesAssumption
<1>1. ASSUME NEW p \in Edited, NEW w \in New, Overwrite(p, w) PROVE Sound'
  <2>1. PICK ws, ls, saw : ws = {w} /\ ls = {} /\ saw = Words OBVIOUS
  <2>2. Writes(p, ws, ls, NoTitle, ws, saw) /\ UNCHANGED <<clock, base>>
    BY <1>1, <2>1 DEF Overwrite, Whole, Calls
  <2>3. /\ p \in Paths /\ ws \in SUBSET Words /\ ls \in SUBSET Links
        /\ ws \in SUBSET ws /\ NoTitle \in Titles
    BY <2>1 DEF Titles
  <2> QED BY <2>1, <2>2, <2>3, WriteSound
<1>2. ASSUME NEW p \in Edited, NEW w \in New, AppendFile(p, w) PROVE Sound'
  <2>1. PICK ws, ls, t, added, saw :
           /\ ws = note[p].words \cup {w} /\ ls = note[p].links /\ t = note[p].title
           /\ added = {w} /\ saw = {}
    OBVIOUS
  <2>2. Writes(p, ws, ls, t, added, saw) /\ UNCHANGED <<clock, base>>
    BY <1>2, <2>1 DEF AppendFile, Whole, Calls
  <2>3. /\ p \in Paths /\ ws \in SUBSET Words /\ ls \in SUBSET Links /\ t \in Titles
        /\ added \in SUBSET ws /\ \A v \in Words \ saw : <<p, v>> \in acked => v \in ws
    BY <2>1, AckedFacts
  <2> QED BY <2>2, <2>3, WriteSound
<1>3. ASSUME NEW p \in Edited, NEW v \in Words, NEW w \in New, v # w, Edit(p, v, w)
      PROVE  Sound'
  <2>1. PICK ws, ls, t, added, saw :
           /\ ws = (note[p].words \ {v}) \cup {w} /\ ls = note[p].links
           /\ t = note[p].title /\ added = {w} /\ saw = {v}
    OBVIOUS
  <2>2. Writes(p, ws, ls, t, added, saw) /\ UNCHANGED <<clock, base>>
    BY <1>3, <2>1 DEF Edit, Whole, Calls
  <2>3. /\ p \in Paths /\ ws \in SUBSET Words /\ ls \in SUBSET Links /\ t \in Titles
        /\ added \in SUBSET ws /\ \A u \in Words \ saw : <<p, u>> \in acked => u \in ws
    BY <2>1, AckedFacts
  <2> QED BY <2>2, <2>3, WriteSound
<1>4. ASSUME NEW p \in Edited, NEW t \in Titles, UpdateFrontmatter(p, t) PROVE Sound'
  <2>1. PICK ws, ls, none : ws = note[p].words /\ ls = note[p].links /\ none = {} OBVIOUS
  <2>2. Writes(p, ws, ls, t, none, none) /\ UNCHANGED <<clock, base>>
    BY <1>4, <2>1 DEF UpdateFrontmatter, Whole, Calls
  <2>3. /\ p \in Paths /\ ws \in SUBSET Words /\ ls \in SUBSET Links
        /\ none \in SUBSET ws /\ \A v \in Words \ none : <<p, v>> \in acked => v \in ws
    BY <2>1, AckedFacts
  <2> QED BY <2>2, <2>3, WriteSound
<1>5. ASSUME NEW p \in Edited, DeleteFile(p) PROVE Sound'
  <2>1. p \in Paths /\ Drops({p}) /\ UNCHANGED <<base, clock>>
    BY <1>5 DEF DeleteFile, Whole, Calls
  <2>2. /\ note' = [q \in Paths |-> IF q \in {p} THEN Absent ELSE note[q]]
        /\ acked' = {x \in acked : x[1] \notin {p}}
    BY <2>1 DEF Drops, Store
  <2>3. top' = top BY <2>1, AbsentFields DEF Drops, Store, Seen, Sound
  <2>4. dirs' = dirs BY <2>1, AbsentFields DEF Drops, Store
  <2>5. {p} \in SUBSET Paths BY <2>1
  <2> QED BY <2>1, <2>2, <2>3, <2>4, <2>5, GoneSound
<1> QED BY <1>1, <1>2, <1>3, <1>4, <1>5, PutSound, ReadSound DEF NoteOps

\* No note changes, and no client has read one.
LEMMA QuietSound ==
  ASSUME Sound, Keeps, UNCHANGED base, clock' \in 1..MaxClock PROVE Sound'
BY BaseKept, SameNotesSound DEF Keeps

LEMMA FolderOpsSound == ASSUME Sound, FolderOps PROVE Sound'
<1> USE NotesAssumption
<1>1. ASSUME NEW d \in Dirs, NEW w \in New, CreateNote(d, w) \/ Template(d, w) PROVE Sound'
  <2>1. PICK p \in NewPaths(d) : Writes(p, {w}, {}, Title, {w}, {})
    BY <1>1 DEF CreateNote, Template
  <2>2. PICK ws, none : ws = {w} /\ none = {} OBVIOUS
  <2>3. Writes(p, ws, none, Title, ws, none) /\ UNCHANGED <<clock, base>>
    BY <1>1, <2>1, <2>2 DEF CreateNote, Template, Whole, Calls
  <2>4. /\ p \in Paths /\ ws \in SUBSET Words /\ none \in SUBSET Links /\ Title \in Titles
        /\ ws \in SUBSET ws /\ \A v \in Words \ none : <<p, v>> \in acked => v \in ws
    BY <2>2, NewPathFacts DEF Titles
  <2> QED BY <2>3, <2>4, WriteSound
<1>2. ASSUME NEW d \in Dirs, CreateFolder(d) PROVE Sound'
  <2>1. /\ UNCHANGED <<note, top, acked, base, clock>> /\ dirs' = dirs \cup {d}
    BY <1>2 DEF CreateFolder, Whole, Calls
  <2> QED BY <2>1 DEF Sound, Valid, KeepsAcked
<1>3. ASSUME NEW d \in Dirs, Expire(d) PROVE Sound'
  BY <1>3 DEF Expire, Sound, Valid, KeepsAcked
<1>4. ASSUME NEW j, Begin(j) PROVE Sound'
  BY <1>4, QuietSound DEF Begin, Calls, Sound
<1> QED BY <1>1, <1>2, <1>3, <1>4
        DEF FolderOps, Upsert, DeleteFolder, List, MoveFolder

\* A rewritten note: the note is still what was read, so what is lost was seen.
LEMMA RewriteSound == ASSUME Inv, NEW p \in Paths, Rewrite(p) PROVE Sound'
<1> USE DEF Inv
<1>1. UNCHANGED <<clock, base>> /\ clock' \in 1..MaxClock
  BY DEF Rewrite, Goes, Sound
<1>2. CASE Keeps BY <1>1, <1>2, QuietSound
<1>3. ASSUME NEW x \in SnapTexts, UnchangedSince(p),
             Writes(p, x.words, x.links, x.title, x.words \ job.snap.note.words,
                    job.snap.note.words \ x.words)
      PROVE  Sound'
  <2>1. /\ job.op \in {"links", "replace_many"} /\ job.snap.path = p
        /\ job.snap # Unread
    BY NotesAssumption DEF Rewrite, Unread, View
  <2>2. note[p] = job.snap.note
    BY <1>3, <2>1, AbsentFields DEF Steady, JobSound, SnapFresh, UnchangedSince
  <2>3. PICK ws, ls, t, added, saw :
           /\ ws = x.words /\ ls = x.links /\ t = x.title
           /\ added = x.words \ job.snap.note.words
           /\ saw = job.snap.note.words \ x.words
    OBVIOUS
  <2>4. Writes(p, ws, ls, t, added, saw) BY <1>3, <2>3
  <2>5. ws \in SUBSET Words /\ ls \in SUBSET Links /\ t \in Titles
    BY <2>1, <2>3, SnapTextFacts
  <2>6. added \in SUBSET ws /\ \A w \in Words \ saw : <<p, w>> \in acked => w \in ws
    BY <2>2, <2>3, AckedFacts
  <2> QED BY <1>1, <2>4, <2>5, <2>6, WriteSound
<1> QED BY <1>2, <1>3 DEF Rewrite

LEMMA WriteItemSound == ASSUME Inv, NEW p \in Paths, WriteItem(p) PROVE Sound'
<1> USE DEF Inv
<1>1. PICK w, all, none : w = job.word /\ all = Words /\ none = {} OBVIOUS
<1>2. w \in Words BY <1>1 DEF WriteItem, Steady, JobSound, JobShape, WithWord
<1>3. UNCHANGED <<clock, base>> /\ clock' \in 1..MaxClock
  BY DEF WriteItem, Goes, Sound
<1>4. PICK ws, ls, t, one :
         /\ ws = note[p].words \cup {w} /\ ls = note[p].links /\ t = note[p].title
         /\ one = {w}
  OBVIOUS
<1>5. /\ ws \in SUBSET Words /\ ls \in SUBSET Links /\ t \in Titles /\ one \in SUBSET ws
      /\ one \in SUBSET Words /\ one \in SUBSET one /\ none \in SUBSET Links
      /\ NoTitle \in Titles /\ \A v \in Words \ none : <<p, v>> \in acked => v \in ws
  BY <1>1, <1>2, <1>4, AckedFacts DEF Titles
<1>6. CASE Keeps BY <1>3, <1>6, QuietSound
<1>7. CASE Writes(p, ws, ls, t, one, none) BY <1>3, <1>5, <1>7, WriteSound
<1>8. CASE Writes(p, one, none, NoTitle, one, all) BY <1>1, <1>3, <1>5, <1>8, WriteSound
<1> QED BY <1>1, <1>4, <1>6, <1>7, <1>8 DEF WriteItem

LEMMA UpsertSound ==
  ASSUME Inv, UpsertNew \/ \E p \in Paths : UpsertInto(p) PROVE Sound'
<1> USE DEF Inv
<1>1. PICK w, all, none : w = job.word /\ all = Words /\ none = {} OBVIOUS
<1>2. job.op = "upsert" BY DEF UpsertNew, UpsertInto
<1>3. w \in Words /\ job.src \in Dirs
  BY <1>1, <1>2 DEF Steady, JobSound, JobShape, WithWord, OfFolder
<1>4. UNCHANGED <<clock, base>> /\ clock' \in 1..MaxClock
  BY DEF UpsertNew, UpsertInto, Goes, Sound
<1>5. PICK one : one = {w} OBVIOUS
<1>6. CASE Keeps BY <1>4, <1>6, QuietSound
<1>7. ASSUME NEW p \in Paths, UpsertInto(p) PROVE Sound'
  <2>1. PICK ws, ls, t :
           ws = note[p].words \cup {w} /\ ls = note[p].links /\ t = note[p].title
    OBVIOUS
  <2>2. /\ ws \in SUBSET Words /\ ls \in SUBSET Links /\ t \in Titles /\ one \in SUBSET ws
        /\ one \in SUBSET Words /\ one \in SUBSET one /\ none \in SUBSET Links
        /\ \A v \in Words \ none : <<p, v>> \in acked => v \in ws
    BY <1>1, <1>3, <1>5, <2>1, AckedFacts
  <2>3. CASE Writes(p, ws, ls, t, one, none) BY <1>4, <2>2, <2>3, WriteSound
  <2>4. CASE Writes(p, one, none, t, one, all) BY <1>1, <1>4, <2>2, <2>4, WriteSound
  <2> QED BY <1>1, <1>5, <1>6, <1>7, <2>1, <2>3, <2>4 DEF UpsertInto
<1>8. ASSUME NEW p \in NewPaths(job.src), Writes(p, {job.word}, {}, Title, {job.word}, {})
      PROVE  Sound'
  <2>1. Writes(p, one, none, Title, one, none) BY <1>1, <1>5, <1>8
  <2>2. /\ p \in Paths /\ one \in SUBSET Words /\ one \in SUBSET one
        /\ none \in SUBSET Links /\ Title \in Titles
        /\ \A v \in Words \ none : <<p, v>> \in acked => v \in one
    BY <1>1, <1>3, <1>5, NewPathFacts DEF Titles
  <2> QED BY <1>4, <2>1, <2>2, WriteSound
<1> QED BY <1>6, <1>7, <1>8 DEF UpsertNew

\* Moves and renames.
LEMMA MovesSound ==
  ASSUME Inv, DoMove \/ DoSort \/ DoRename PROVE Sound'
<1> USE DEF Inv
<1>1. PICK p, q : p = job.src /\ q = job.dst OBVIOUS
<1>2. /\ p \in Paths /\ q \in Paths
  <2>1. job.op \in {"move", "rename"} => <<p, q>> \in Moves
    BY <1>1 DEF Steady, JobSound, JobShape
  <2>2. job.op = "sort" /\ p # None => p \in Paths /\ q \in Paths
    BY <1>1 DEF Steady, JobSound, JobShape
  <2> QED BY <1>1, <2>1, <2>2, NotesAssumption DEF DoMove, DoSort, DoRename, Ready
<1>3. Exists(p) /\ ~Exists(q) /\ Moved(p, q) /\ UNCHANGED <<base, clock>>
  BY <1>1 DEF DoMove, DoSort, DoRename, Movable, Releases
<1> QED BY <1>2, <1>3, MovedSound

\* A folder is removed when no note is left in it.
LEMMA EndFolderSound == ASSUME Inv, EndDeleteFolder PROVE Sound'
<1> USE DEF Inv
<1>1. PICK d : d = job.src OBVIOUS
<1>2. In(d) = {} BY <1>1 DEF EndDeleteFolder, Steady, JobSound, FolderSeen
<1>3. UNCHANGED <<note, top, acked, base, clock>> /\ dirs' = dirs \ {d}
  BY <1>1 DEF EndDeleteFolder, Releases
<1>4. \A p \in Paths : note[p].rev # 0 => p[1] # d BY <1>2 DEF In, Files, Exists
<1>5. \A p \in Paths : note'[p].rev # 0 => p[1] \in dirs' BY <1>3, <1>4 DEF Sound
<1> QED BY <1>3, <1>5 DEF Sound, Valid, KeepsAcked

LEMMA UnlinkSound == ASSUME Inv, NEW p \in Paths, Unlink(p) PROVE Sound'
<1> USE DEF Inv
<1>1. CASE Exists(p)
  <2>1. /\ note' = [note EXCEPT ![p] = Absent] /\ acked' = {x \in acked : x[1] # p}
        /\ UNCHANGED <<dirs, top, base, clock>>
    BY <1>1 DEF Unlink, Goes
  <2> QED BY <2>1, OneGoneSound
<1>2. CASE ~Exists(p) BY <1>2, QuietSound DEF Unlink, Fails, Releases, Sound
<1> QED BY <1>1, <1>2

LEMMA ThreadSound ==
  ASSUME Inv, NEW t \in Threads,
         \/ \E S \in Batches : DeleteFiles(t, S)
         \/ Clear(t) \/ EndDelete(t) \/ \E p \in Paths : DeleteOne(t, p)
  PROVE  Sound'
<1> USE DEF Inv
<1>1. CASE (\E S \in Batches : DeleteFiles(t, S)) \/ EndDelete(t)
  BY <1>1, QuietSound DEF DeleteFiles, EndDelete, Sound
<1>2. CASE Clear(t) BY <1>2 DEF Clear, Sound, Valid, KeepsAcked
<1>3. ASSUME NEW p \in Paths, DeleteOne(t, p) PROVE Sound'
  <2>1. UNCHANGED <<dirs, top, base, clock>> BY <1>3 DEF DeleteOne
  <2>2. CASE Exists(p)
    <3>1. note' = [note EXCEPT ![p] = Absent] /\ acked' = {x \in acked : x[1] # p}
      BY <1>3, <2>2 DEF DeleteOne
    <3> QED BY <2>1, <3>1, OneGoneSound
  <2>3. CASE ~Exists(p)
    <3>1. UNCHANGED <<note, acked>> BY <1>3, <2>3 DEF DeleteOne
    <3> QED BY <2>1, <3>1 DEF Sound, Valid, KeepsAcked
  <2> QED BY <2>2, <2>3
<1> QED BY <1>1, <1>2, <1>3

\* Steps that store nothing.
LEMMA QuietSteps ==
  ASSUME Sound,
         \/ \E a \in Agents : Acquire(a)
         \/ SortNext \/ Refused \/ EndBatch \/ DoDeleteFolder \/ EndList
         \/ \E p \in Paths : LookAt(p)
         \/ Tick \/ Restart
  PROVE  Sound'
<1>1. CASE Tick
  BY <1>1, QuietSound, NotesAssumption DEF Tick, Sound
<1>2. CASE EndList \/ Restart
  BY <1>2 DEF EndList, Restart, Goes, Sound, Valid, KeepsAcked
<1>3. CASE \/ \E a \in Agents : Acquire(a)
           \/ SortNext \/ Refused \/ EndBatch \/ DoDeleteFolder
           \/ \E p \in Paths : LookAt(p)
  BY <1>3, QuietSound
     DEF Acquire, SortNext, Refused, Fails, Releases, EndBatch, DoDeleteFolder, LookAt,
         Goes, Sound
<1> QED BY <1>1, <1>2, <1>3

-----------------------------------------------------------------------------
(* The invariant.                                                           *)

LEMMA NextSound == ASSUME Inv, Next PROVE Sound'
<1>1. CASE NoteOps \/ FolderOps BY <1>1, NoteOpsSound, FolderOpsSound DEF Inv
<1>2. CASE BatchOps
  <2>1. ASSUME NEW j, Begin(j) PROVE Sound'
    BY <2>1, QuietSound DEF Begin, Calls, Sound, Inv
  <2>2. CASE \E t \in Threads, S \in Batches : DeleteFiles(t, S) BY <2>2, ThreadSound
  <2> QED BY <1>2, <2>1, <2>2 DEF BatchOps, Move, Rename, Sort, Batch
<1>3. CASE Steps
  <2>1. CASE DoMoveFolder BY <2>1, FolderMovedSound
  <2>2. CASE \E t \in Threads : Clear(t) \/ EndDelete(t) \/ \E p \in Paths : DeleteOne(t, p)
    BY <2>2, ThreadSound
  <2> QED BY <1>3, <2>1, <2>2, QuietSteps, MovesSound, RewriteSound, WriteItemSound,
             UnlinkSound, UpsertSound, EndFolderSound DEF Steps, Inv
<1>4. CASE Tick \/ Restart BY <1>4, QuietSteps DEF Inv
<1> QED BY <1>1, <1>2, <1>3, <1>4 DEF Next

LEMMA NextSteady == ASSUME Inv, Next PROVE Steady'
<1>1. ASSUME Keeps, UNCHANGED <<job, del, held>> PROVE Steady'
  BY <1>1, HeldFcn, LocksKept, QuietRest
<1>2. CASE NoteOps
  <2>1. ASSUME NEW c \in Clients, NEW p \in Edited, Read(c, p) PROVE Steady'
    BY <1>1, <2>1 DEF Read
  <2>2. CASE \E c \in Clients, ws \in SUBSET New : Put(c, ws)
    BY <2>2, WholeRest DEF Put, Writes, Store
  <2>3. CASE \E p \in Edited, w \in New : Overwrite(p, w) \/ AppendFile(p, w)
    BY <2>3, WholeRest DEF Overwrite, AppendFile, Writes, Store
  <2>4. CASE \E p \in Edited, v \in Words, w \in New : v # w /\ Edit(p, v, w)
    BY <2>4, WholeRest DEF Edit, Writes, Store
  <2>5. CASE \E p \in Edited, t \in Titles : UpdateFrontmatter(p, t)
    BY <2>5, WholeRest DEF UpdateFrontmatter, Writes, Store
  <2>6. CASE \E p \in Edited : DeleteFile(p)
    BY <2>6, WholeRest DEF DeleteFile, Drops, Store
  <2> QED BY <1>2, <2>1, <2>2, <2>3, <2>4, <2>5, <2>6 DEF NoteOps
<1>3. CASE FolderOps
  <2>1. CASE \E d \in Dirs, w \in New : CreateNote(d, w) \/ Template(d, w)
    BY <2>1, WholeRest DEF CreateNote, Template, Writes, Store
  <2>2. CASE \E d \in Dirs : CreateFolder(d) BY <2>2, WholeRest DEF CreateFolder
  <2>3. CASE \E d \in Dirs : List(d) \/ \E w \in New : Upsert(d, w) BY <2>3, ListsBegin
  <2> QED BY <1>3, <2>1, <2>2, <2>3, MovesBegin, ExpireSteady DEF FolderOps
<1>4. CASE BatchOps BY <1>4, MovesBegin, ThreadSteady DEF BatchOps
<1>5. CASE Steps
  <2>1. ASSUME NEW a \in Agents, Acquire(a) PROVE Steady'
    BY <2>1, AcquireLocks, QuietRest DEF Acquire
  <2>2. CASE \E t \in Threads : Clear(t) \/ EndDelete(t) \/ \E p \in Paths : DeleteOne(t, p)
    BY <2>2, ThreadSteady
  <2>3. CASE \E p \in Paths : LookAt(p) \/ Rewrite(p)
    BY <2>3, LookAtSteady, RewriteSteady
  <2> QED BY <1>5, <2>1, <2>2, <2>3, MovesSteady, RenameSteady, BatchSteady, EndListSteady,
             UpsertSteady, FolderSteady DEF Steps
<1>6. CASE Tick BY <1>1, <1>6 DEF Tick
<1>7. CASE Restart BY <1>7, RestartSteady
<1> QED BY <1>2, <1>3, <1>4, <1>5, <1>6, <1>7 DEF Next

\* At the start there are notes, nobody has read them and no call runs.
LEMMA Initially == Init => Inv
<1> SUFFICES ASSUME Init PROVE Inv
  OBVIOUS
<1> USE NotesAssumption, SeedsAssumption
<1>1. ASSUME NEW p \in Paths
      PROVE  /\ note[p] \in NoteType
             /\ note[p].rev = 0 => note[p] = Absent
             /\ note[p].rev # 0 => p[1] \in dirs
             /\ note[p].rev \in 0..Twin /\ note[p].rev <= note[p].rev
             /\ top[p] = note[p].rev
  <2>1. CASE p \in DOMAIN Seeds BY <2>1, Shapes DEF Init, Twin
  <2>2. CASE p \notin DOMAIN Seeds BY <2>2, AbsentFields DEF Init, Twin
  <2> QED BY <2>1, <2>2
<1>2. note \in [Paths -> NoteType] /\ top \in [Paths -> 0..Twin] BY <1>1 DEF Init
<1>3. dirs \subseteq Dirs /\ clock \in 1..MaxClock BY PathParts DEF Init
<1>4. base \in [Clients -> ViewType] /\ \A c \in Clients : base[c] = Unread
  BY AbsentFields DEF Init, Unread, View, ViewType
<1>5. acked \subseteq Paths \X Words /\ KeepsAcked BY DEF Init, KeepsAcked
<1>6. Sound BY <1>1, <1>2, <1>3, <1>4, <1>5 DEF Sound
<1>7. job = Job("none", {}, None, None, None, None, Unread) BY DEF Init, Idle
<1>8. job.op = "none" /\ job.snap = Unread /\ job = Idle BY <1>7, JobFields DEF Init
<1>9. JobShape BY <1>7, <1>8, JobFields DEF JobShape, JobOps, OfPaths, OfFolder, WithWord
<1>10. JobSound BY <1>8, <1>9 DEF JobSound, SnapFresh, FolderSeen, LinksSeen, Listing
<1>11. CacheCovers BY DEF Init, CacheCovers, ListingFresh
<1>12. DelShape BY DEF Init, DelShape, NoDel, Del
<1>13. LocksOrdered BY DEF Init, LocksOrdered
<1> QED BY <1>6, <1>10, <1>11, <1>12, <1>13 DEF Inv, Steady

LEMMA Inductive == Inv /\ [Next]_vars => Inv'
<1> SUFFICES ASSUME Inv, [Next]_vars PROVE Inv'
  OBVIOUS
<1>1. CASE Next BY <1>1, NextSound, NextSteady DEF Inv
<1>2. CASE UNCHANGED vars
  <2>1. Keeps /\ UNCHANGED <<clock, base, job, del, held>>
    BY <1>2 DEF vars, Keeps
  <2>2. Sound' BY <2>1, QuietSound DEF Inv, Sound
  <2>3. Steady' BY <2>1, HeldFcn, LocksKept, QuietRest
  <2> QED BY <2>2, <2>3 DEF Inv
<1> QED BY <1>1, <1>2

LEMMA Always == Spec => []Inv
BY Initially, Inductive, PTL DEF Spec

-----------------------------------------------------------------------------
(* The notes as registers.                                                  *)

\* A note is as it was, or gone, or has a new stamp.
Restamps ==
    \A p \in Paths :
        \/ top'[p] = top[p] /\ (note'[p] = note[p] \/ note'[p].rev = 0)
        \/ top'[p] = Seen(p, note'[p].rev)

\* The batch on the loop keeps what it has read, while others at most delete notes,
\* or it has read nothing.
LoopKeeps ==
    \/ job.snap = Unread /\ job'.snap = Unread
    \/ job'.snap = job.snap /\ \A p \in Paths : note'[p] \in {note[p], Absent}

Readers == Clients \cup {Loop}

LEMMA StoreRestamps == ASSUME NEW S, NEW n, Store(S, n) PROVE Restamps
BY DEF Store, Restamps

LEMMA WritesRestamps ==
  ASSUME NEW p, NEW ws, NEW ls, NEW t, NEW added, NEW saw, Writes(p, ws, ls, t, added, saw)
  PROVE  Restamps
<1>1. PICK n : n = [q \in {p} |-> Note(clock, ws, ls, t)] OBVIOUS
<1>2. Store({p}, n) BY <1>1 DEF Writes
<1> QED BY <1>2, StoreRestamps

LEMMA KeepsRestamps == ASSUME Keeps PROVE Restamps
BY DEF Keeps, Restamps

\* The views of the readers, one by one.
LEMMA ViewsOf ==
  /\ ViewOf(Loop) = job.snap /\ ViewOf(Loop)' = job'.snap
  /\ \A c \in Clients : ViewOf(c) = base[c] /\ ViewOf(c)' = base'[c] /\ c # Loop
BY NotesAssumption DEF ViewOf

\* What a linked reader has read is a note.
LEMMA LinkedView ==
  ASSUME Inv, NEW r \in Readers, ViewOf(r) # Unread
  PROVE  /\ ViewOf(r).path \in Paths /\ ViewOf(r).note \in NoteType
         /\ ViewOf(r).note.rev # 0
         /\ r # Loop => ViewOf(r).note.rev <= top[ViewOf(r).path]
         /\ Linked(ViewOf(r)) =>
               \/ note[ViewOf(r).path] = ViewOf(r).note
               \/ r # Loop /\ top[ViewOf(r).path] = Twin
<1>1. CASE r = Loop
  <2>1. PICK v : v = job.snap OBVIOUS
  <2>2. /\ v.path \in Paths /\ v.note \in NoteType /\ v.note.rev # 0
        /\ note[v.path] \in {v.note, Absent}
    BY <1>1, <2>1, ViewsOf DEF Inv, Steady, JobSound, SnapFresh
  <2> QED BY <1>1, <2>1, <2>2, ViewsOf, AbsentFields DEF Linked
<1>2. CASE r \in Clients
  <2>1. PICK v : v = base[r] OBVIOUS
  <2>2. Valid(v) BY <1>2, <2>1, ViewsOf DEF Inv, Sound
  <2> QED BY <1>2, <2>1, <2>2, ViewsOf DEF Valid, Linked
<1> QED BY <1>1, <1>2 DEF Readers

\* Links are as NoteRegister says if every link that is there after a step was there
\* before it, with the same text or between twins.
LEMMA LinksMean ==
  ASSUME Inv,
         \A p \in Paths : top[p] = Twin => top'[p] = Twin,
         \A r \in Readers : Linked(ViewOf(r))' =>
            /\ ViewOf(r).path \in Paths
            /\ \/ Linked(ViewOf(r)) /\ note'[ViewOf(r).path] = note[ViewOf(r).path]
               \/ r # Loop /\ top'[ViewOf(r).path] = Twin
  PROVE  Register!LinksOnlyBreak
BY DEF Register!LinksOnlyBreak, Register!Blurs, Readers, Linked, ViewOf, Text

\* Twins stay twins, and a note with the stamp of a view that was not the view's
\* note before is a twin.
LEMMA LinksKept ==
  ASSUME Inv, Inv', Restamps, NEW r \in Readers, ViewOf(r)' = ViewOf(r), Linked(ViewOf(r))',
         r = Loop => \A p \in Paths : note'[p] \in {note[p], Absent}
  PROVE  /\ ViewOf(r).path \in Paths
         /\ \/ Linked(ViewOf(r)) /\ note'[ViewOf(r).path] = note[ViewOf(r).path]
            \/ r # Loop /\ top'[ViewOf(r).path] = Twin
<1>1. PICK v : v = ViewOf(r) OBVIOUS
<1>2. v # Unread /\ note'[v.path].rev = v.note.rev BY <1>1 DEF Linked
<1>3. /\ v.path \in Paths /\ v.note \in NoteType /\ v.note.rev # 0
      /\ r # Loop => v.note.rev <= top[v.path]
  BY <1>1, <1>2, LinkedView
<1>4. note' \in [Paths -> NoteType] BY DEF Inv, Sound
<1>5. CASE r = Loop
  <2>1. note'[v.path] = note[v.path] BY <1>2, <1>3, <1>5, AbsentFields
  <2> QED BY <1>1, <1>2, <1>3, <2>1 DEF Linked
<1>6. CASE r # Loop
  <2>1. top'[v.path] # Twin => \/ note'[v.path] = note[v.path]
                               \/ note'[v.path].rev = 0 \/ note'[v.path].rev > top[v.path]
    BY <1>3, <1>4, StampGrows DEF Inv, Restamps
  <2>2. v.note.rev \in 0..MaxClock /\ top[v.path] \in 0..Twin
    BY <1>3, Shapes DEF Inv, Sound
  <2>3. ~(v.note.rev > top[v.path]) BY <1>3, <1>6, <2>2, NotesAssumption DEF Twin
  <2> QED BY <1>1, <1>2, <1>3, <1>6, <2>1, <2>3 DEF Linked
<1> QED BY <1>5, <1>6

\* Readers keep what they have read or have read nothing: links are as they should be.
LEMMA LinksStep ==
  ASSUME Inv, Inv', Restamps,
         \A r \in Readers : ViewOf(r)' # Unread =>
            /\ ViewOf(r)' = ViewOf(r)
            /\ r = Loop => \A p \in Paths : note'[p] \in {note[p], Absent}
  PROVE  Register!LinksOnlyBreak
<1>1. note' \in [Paths -> NoteType] BY DEF Inv, Sound
<1>2. \A p \in Paths : top[p] = Twin => top'[p] = Twin
  BY <1>1, StampGrows DEF Inv, Restamps
<1>3. \A r \in Readers : Linked(ViewOf(r))' => ViewOf(r)' # Unread BY DEF Linked
<1>4. \A r \in Readers : Linked(ViewOf(r))' =>
            /\ ViewOf(r).path \in Paths
            /\ \/ Linked(ViewOf(r)) /\ note'[ViewOf(r).path] = note[ViewOf(r).path]
               \/ r # Loop /\ top'[ViewOf(r).path] = Twin
  BY <1>3, LinksKept
<1> QED BY <1>2, <1>4, LinksMean

\* What changes notes without writing back what was read.
LEMMA ChangeStep ==
  ASSUME Inv, Inv', Restamps, UNCHANGED base, LoopKeeps
  PROVE  Register!Change
<1>1. \A r \in Readers : ViewOf(r)' = ViewOf(r)
  BY ViewsOf DEF LoopKeeps, Readers
<1>2. ViewOf(Loop)' # Unread => \A p \in Paths : note'[p] \in {note[p], Absent}
  BY ViewsOf DEF LoopKeeps
<1>3. Register!LinksOnlyBreak BY <1>1, <1>2, LinksStep
<1>4. [r \in Readers |-> <<ViewOf(r).path, Text(ViewOf(r).note)>>]'
         = [r \in Readers |-> <<ViewOf(r).path, Text(ViewOf(r).note)>>]
  BY <1>1 DEF Text
<1> QED BY <1>3, <1>4 DEF Register!Change, Readers

\* A note that was read is linked to its reader.
LEMMA LoadStep ==
  ASSUME Inv, NEW r \in Readers, NEW p \in Paths, Exists(p),
         UNCHANGED <<note, top>>, ViewOf(r)' = View(p, note[p]),
         \A q \in Readers \ {r} : ViewOf(q)' = ViewOf(q)
  PROVE  Register!Load(r, p)
<1>1. Text(note[p]) # None /\ note[p] \in NoteType
  BY NotesAssumption DEF Text, Exists, Inv, Sound, NoteType, Titles
<1>2. Linked(ViewOf(r))'
  BY ViewFields DEF Linked
<1>3. \A q \in Readers \ {r} : Linked(ViewOf(q))' <=> Linked(ViewOf(q)) BY DEF Linked
<1>4. {q \in Readers : Linked(ViewOf(q))}' = {q \in Readers : Linked(ViewOf(q))} \cup {r}
  BY <1>2, <1>3
<1>5. [q \in Readers |-> <<ViewOf(q).path, Text(ViewOf(q).note)>>]'
         = [[q \in Readers |-> <<ViewOf(q).path, Text(ViewOf(q).note)>>]
               EXCEPT ![r] = <<p, Text(note[p])>>]
  <2>1. ViewOf(r)'.path = p /\ ViewOf(r)'.note = note[p] BY ViewFields
  <2>2. \A q \in Readers \ {r} : /\ ViewOf(q)'.path = ViewOf(q).path
                                 /\ ViewOf(q)'.note = ViewOf(q).note
    OBVIOUS
  <2>3. PICK n : n = note[p] OBVIOUS
  <2>4. <<ViewOf(r)'.path, Text(ViewOf(r)'.note)>> = <<p, Text(n)>> BY <2>1, <2>3
  <2> QED BY <2>2, <2>3, <2>4 DEF Text
<1> QED BY <1>1, <1>4, <1>5 DEF Register!Load, Readers

\* Who has written, or gives up, has read nothing.
LEMMA ForgottenView ==
  ASSUME NEW r \in Readers, ViewOf(r)' = Unread,
         \A q \in Readers \ {r} : ViewOf(q)' = ViewOf(q)
  PROVE  [q \in Readers |-> <<ViewOf(q).path, Text(ViewOf(q).note)>>]'
            = [[q \in Readers |-> <<ViewOf(q).path, Text(ViewOf(q).note)>>]
                  EXCEPT ![r] = Register!Unread]
<1>1. Unread.path = None /\ Unread.note = Absent BY ViewFields DEF Unread
<1>2. Text(Absent) = None BY AbsentFields DEF Text
<1>3. PICK u : u = Register!Unread OBVIOUS
<1>4. <<ViewOf(r)'.path, Text(ViewOf(r)'.note)>> = u
  BY <1>1, <1>2, <1>3 DEF Register!Unread
<1>5. \A q \in Readers \ {r} : /\ ViewOf(q)'.path = ViewOf(q).path
                               /\ ViewOf(q)'.note = ViewOf(q).note
  OBVIOUS
<1> QED BY <1>3, <1>4, <1>5 DEF Text

\* A reader forgets, and nothing else happens.
LEMMA ForgetStep ==
  ASSUME Inv, NEW r \in Readers, UNCHANGED <<note, top>>, ViewOf(r)' = Unread,
         \A q \in Readers \ {r} : ViewOf(q)' = ViewOf(q)
  PROVE  Register!Forget(r)
<1>1. ~Linked(ViewOf(r))' BY DEF Linked
<1>2. \A q \in Readers \ {r} : Linked(ViewOf(q))' <=> Linked(ViewOf(q)) BY DEF Linked
<1>3. {q \in Readers : Linked(ViewOf(q))}' = {q \in Readers : Linked(ViewOf(q))} \ {r}
  BY <1>1, <1>2
<1> QED BY <1>3, ForgottenView DEF Register!Forget, Readers

\* A reader writes the note it is linked to.
LEMMA StoreStep ==
  ASSUME Inv, Inv', NEW r \in Readers, NEW p \in Paths, Linked(ViewOf(r)),
         ViewOf(r).path = p, Restamps, note'[p].rev # 0,
         \A q \in Paths \ {p} : note'[q] = note[q],
         ViewOf(r)' = Unread, \A q \in Readers \ {r} : ViewOf(q)' = ViewOf(q),
         ViewOf(Loop)' = Unread
  PROVE  Register!Store(r)
<1>1. PICK v : v = ViewOf(r) OBVIOUS
<1>2. \/ note[p] = v.note
      \/ r # Loop /\ top[p] = Twin
  BY <1>1, LinkedView DEF Linked
<1>3. ~Linked(ViewOf(r))' BY DEF Linked
<1>4. Register!LinksOnlyBreak
  <2>1. \A q \in Readers : ViewOf(q)' # Unread => ViewOf(q)' = ViewOf(q) /\ q # Loop
    OBVIOUS
  <2> QED BY <2>1, LinksStep
<1>5. Text(note'[p]) # None
  BY NotesAssumption DEF Text, Inv, Sound, NoteType, Titles
<1> QED BY <1>1, <1>2, <1>3, <1>4, <1>5, ForgottenView
        DEF Register!Store, Register!Blurs, Readers, Text

\* Who starts has read nothing: there are no links and no twins.
LEMMA InitRegisters == Init => Register!Init
<1> SUFFICES ASSUME Init PROVE Register!Init
  OBVIOUS
<1>1. \A r \in Readers : ViewOf(r) = Unread
  BY IdleFields, NotesAssumption DEF Init, ViewOf, Readers
<1>2. Unread.path = None /\ Unread.note = Absent BY ViewFields DEF Unread
<1>3. Text(Absent) = None BY AbsentFields DEF Text
<1>4. [r \in Readers |-> <<ViewOf(r).path, Text(ViewOf(r).note)>>]
         = [r \in Readers |-> <<None, None>>]
  BY <1>1, <1>2, <1>3
<1>5. {r \in Readers : Linked(ViewOf(r))} = {} BY <1>1 DEF Linked
<1>6. ASSUME NEW p \in Paths PROVE top[p] # Twin
  <2>1. note[p].rev \in 0..MaxClock
    BY Initially, Shapes DEF Inv, Sound
  <2> QED BY <2>1, NotesAssumption DEF Init, Twin
<1> QED BY <1>4, <1>5, <1>6 DEF Register!Init, Register!Unread, Readers

\* Outside a batch that rewrites notes the loop has read nothing.
LEMMA LoopIdle ==
  ASSUME Inv, job.op \notin {"links", "replace_many"} \/ job = Idle PROVE job.snap = Unread
BY IdleFields DEF Inv, Steady, JobSound, SnapFresh

LEMMA BeginChanges ==
  ASSUME Inv, Inv', NEW o, NEW todo, NEW src, NEW dst, NEW old, NEW w,
         Begin(Job(o, todo, src, dst, old, w, Unread))
  PROVE  Register!Change
<1>1. PICK j : j = Job(o, todo, src, dst, old, w, Unread) OBVIOUS
<1>2. j.snap = Unread BY <1>1, JobFields
<1>3. job = Idle /\ job' = j /\ Keeps /\ UNCHANGED base BY <1>1 DEF Begin, Calls
<1> QED BY <1>2, <1>3, LoopIdle, KeepsRestamps, ChangeStep DEF LoopKeeps

LEMMA WholeChanges ==
  ASSUME Inv, Inv', Whole, Restamps, UNCHANGED base PROVE Register!Change
BY LoopIdle, ChangeStep DEF Whole, Calls, LoopKeeps

LEMMA NoteOpsRefine == ASSUME Inv, Inv', NoteOps PROVE Register!Next
<1>1. ASSUME NEW c \in Clients, NEW p \in Edited, Read(c, p) PROVE Register!Next
  <2>1. p \in Paths /\ c \in Readers BY NotesAssumption DEF Readers
  <2>2. /\ Exists(p) /\ UNCHANGED <<note, top, job>>
        /\ base' = [base EXCEPT ![c] = View(p, note[p])]
    BY <1>1 DEF Read, Keeps
  <2>3. base'[c] = View(p, note[p]) /\ \A d \in Clients \ {c} : base'[d] = base[d]
    BY <2>2 DEF Inv, Sound
  <2>4. ViewOf(c)' = View(p, note[p]) /\ \A q \in Readers \ {c} : ViewOf(q)' = ViewOf(q)
    BY <2>2, <2>3, ViewsOf DEF Readers
  <2>5. Register!Load(c, p) BY <2>1, <2>2, <2>4, LoadStep
  <2> QED BY <2>1, <2>5 DEF Register!Next, Readers
<1>2. ASSUME NEW c \in Clients, NEW ws \in SUBSET New, Put(c, ws) PROVE Register!Next
  <2>1. PICK b, p, n : b = base[c] /\ p = b.path /\ n = b.note OBVIOUS
  <2>2. c \in Readers /\ b = ViewOf(c) BY <2>1, ViewsOf DEF Readers
  <2>3. p # None BY <1>2, <2>1 DEF Put
  <2>4. b # Unread BY <2>1, <2>3 DEF Unread, View
  <2>5. p \in Paths /\ n \in NoteType BY <2>1, <2>2, <2>4, LinkedView
  <2>6. PICK new, ls, t, saw :
           new = n.words \cup ws /\ ls = n.links /\ t = n.title /\ saw = Deceived(p)
    OBVIOUS
  <2>7. /\ Writes(p, new, ls, t, ws, saw) /\ note[p].rev = n.rev
        /\ base' = [base EXCEPT ![c] = Unread] /\ UNCHANGED job /\ job = Idle
    BY <1>2, <2>1, <2>6 DEF Put, Whole, Calls
  <2>8. new \in SUBSET Words /\ ls \in SUBSET Links /\ t \in Titles
    BY <2>5, <2>6, Shapes, NotesAssumption
  <2>9. note'[p].rev # 0 /\ \A q \in Paths \ {p} : note'[q] = note[q]
    BY <2>5, <2>7, <2>8, WritesNote DEF Inv
  <2>10. Linked(b) BY <2>1, <2>4, <2>7 DEF Linked
  <2>11. base'[c] = Unread /\ \A d \in Clients \ {c} : base'[d] = base[d]
    BY <2>7 DEF Inv, Sound
  <2>12. job.snap = Unread BY <2>7, LoopIdle
  <2>13. /\ ViewOf(c)' = Unread /\ ViewOf(Loop)' = Unread
         /\ \A q \in Readers \ {c} : ViewOf(q)' = ViewOf(q)
    BY <2>7, <2>11, <2>12, ViewsOf DEF Readers
  <2>14. Restamps BY <2>7, WritesRestamps
  <2>15. Register!Store(c)
    BY <2>1, <2>2, <2>5, <2>9, <2>10, <2>13, <2>14, StoreStep
  <2> QED BY <2>2, <2>15 DEF Register!Next, Readers
<1>3. ASSUME NEW p, NEW ws, NEW ls, NEW t, NEW added, NEW saw,
             Whole, Writes(p, ws, ls, t, added, saw), UNCHANGED base
      PROVE  Register!Change
  BY <1>3, WritesRestamps, WholeChanges
<1>4. CASE \E p \in Edited, w \in New : Overwrite(p, w) \/ AppendFile(p, w)
  BY <1>3, <1>4 DEF Overwrite, AppendFile, Register!Next
<1>5. CASE \E p \in Edited, v \in Words, w \in New : v # w /\ Edit(p, v, w)
  BY <1>3, <1>5 DEF Edit, Register!Next
<1>6. CASE \E p \in Edited, t \in Titles : UpdateFrontmatter(p, t)
  BY <1>3, <1>6 DEF UpdateFrontmatter, Register!Next
<1>7. CASE \E p \in Edited : DeleteFile(p)
  BY <1>7, StoreRestamps, WholeChanges DEF DeleteFile, Drops, Register!Next
<1> QED BY <1>1, <1>2, <1>4, <1>5, <1>6, <1>7 DEF NoteOps

LEMMA FolderOpsRefine == ASSUME Inv, Inv', FolderOps PROVE Register!Change
<1>1. CASE \E d \in Dirs, w \in New : CreateNote(d, w) \/ Template(d, w)
  <2>1. PICK p, w : Whole /\ Writes(p, {w}, {}, Title, {w}, {}) /\ UNCHANGED base
    BY <1>1 DEF CreateNote, Template
  <2> QED BY <2>1, WritesRestamps, WholeChanges
<1>2. CASE \E d \in Dirs, w \in New : Upsert(d, w)
  <2>1. PICK d \in Dirs, w \in New : Upsert(d, w) BY <1>2
  <2>2. CASE cache[d] = None
    <3>1. Begin(Job("upsert_list", In(d), d, None, None, w, Unread))
      BY <2>1, <2>2 DEF Upsert
    <3> QED BY <3>1, BeginChanges
  <2>3. CASE cache[d] # None
    <3>1. Begin(Job("upsert", cache[d], d, None, None, w, Unread))
      BY <2>1, <2>3 DEF Upsert
    <3> QED BY <3>1, BeginChanges
  <2> QED BY <2>2, <2>3
<1>3. CASE \E d \in Dirs : CreateFolder(d)
  BY <1>3, WholeChanges DEF CreateFolder, Restamps
<1>4. CASE \E d \in Dirs : DeleteFolder(d) \/ List(d)
  BY <1>4, BeginChanges DEF DeleteFolder, List
<1>5. CASE \E d \in Dirs : Expire(d)
  BY <1>5, ChangeStep DEF Expire, Restamps, LoopKeeps
<1>6. CASE \E d, e \in Dirs : d # e /\ MoveFolder(d, e)
  BY <1>6, BeginChanges DEF MoveFolder
<1> QED BY <1>1, <1>2, <1>3, <1>4, <1>5, <1>6 DEF FolderOps

\* Steps of the threads, locks and time: the loop stays where it is.
LEMMA BesidesRefine ==
  ASSUME Inv, Inv',
         \/ \E a \in Agents : Acquire(a)
         \/ \E t \in Threads, S \in Batches : DeleteFiles(t, S)
         \/ \E t \in Threads : Clear(t) \/ EndDelete(t) \/ \E p \in Paths : DeleteOne(t, p)
         \/ Tick
  PROVE  Register!Change
<1>1. CASE \E t \in Threads, p \in Paths : DeleteOne(t, p)
  <2>1. PICK p \in Paths : /\ note' \in {note, [note EXCEPT ![p] = Absent]}
                           /\ UNCHANGED <<top, base, job>>
    BY <1>1 DEF DeleteOne
  <2>2. \A q \in Paths : note'[q] \in {note[q], Absent} BY <2>1 DEF Inv, Sound
  <2> QED BY <2>1, <2>2, AbsentFields, ChangeStep DEF Restamps, LoopKeeps
<1>2. CASE \E t \in Threads : Clear(t)
  BY <1>2, ChangeStep DEF Clear, Restamps, LoopKeeps
<1>3. CASE \/ \E a \in Agents : Acquire(a)
           \/ \E t \in Threads, S \in Batches : DeleteFiles(t, S)
           \/ \E t \in Threads : EndDelete(t)
           \/ Tick
  <2>1. Keeps /\ UNCHANGED <<base, job>>
    BY <1>3 DEF Acquire, DeleteFiles, EndDelete, Tick
  <2> QED BY <2>1, KeepsRestamps, ChangeStep DEF LoopKeeps, Keeps
<1> QED BY <1>1, <1>2, <1>3

\* An operation of the loop that has read nothing to write back goes on.
LEMMA LoopChanges ==
  ASSUME Inv, Inv', Restamps, UNCHANGED base, job.snap = Unread,
         \/ job' = Idle
         \/ \E o, todo, src, dst, old, w : job' = Job(o, todo, src, dst, old, w, Unread)
  PROVE  Register!Change
<1>1. job'.snap = Unread BY IdleFields, JobFields
<1> QED BY <1>1, ChangeStep DEF LoopKeeps

LEMMA MovesRefine ==
  ASSUME Inv, Inv',
         DoMove \/ SortNext \/ DoSort \/ DoMoveFolder \/ DoRename \/ Refused
  PROVE  Register!Change
<1>1. UNCHANGED base
  BY DEF DoMove, SortNext, DoSort, DoMoveFolder, DoRename, Refused, Fails, Releases, Goes
<1>2. job.snap = Unread
  <2>1. job.op \notin {"links", "replace_many"}
    BY DEF DoMove, SortNext, DoSort, DoMoveFolder, DoRename, Refused, Ready
  <2> QED BY <2>1, LoopIdle
<1>3. \/ job' = Idle
      \/ \E o, todo, src, dst, old, w : job' = Job(o, todo, src, dst, old, w, Unread)
  <2>1. CASE DoMove \/ DoMoveFolder BY <2>1 DEF DoMove, DoMoveFolder, Releases
  <2>2. CASE SortNext BY <2>2 DEF SortNext, Goes
  <2>3. CASE DoSort BY <2>3 DEF DoSort, Releases, Rest
  <2>4. CASE DoRename
    <3>1. PICK S, p, q : S = {x \in Paths : note'[x].rev # 0} /\ p = job.src /\ q = job.dst
      OBVIOUS
    <3>2. job' = Job("links", S, p, q, {}, None, Unread) \/ job' = Idle
      BY <2>4, <3>1 DEF DoRename, Releases
    <3> QED BY <3>2
  <2>5. CASE Refused BY <2>5 DEF Refused, Fails, Releases, Rest
  <2> QED BY <2>1, <2>2, <2>3, <2>4, <2>5
<1>4. Restamps
  <2>1. CASE SortNext \/ Refused
    BY <2>1, KeepsRestamps DEF SortNext, Refused, Fails
  <2>2. CASE DoMove \/ DoSort \/ DoRename
    BY <2>2, StoreRestamps DEF DoMove, DoSort, DoRename, Moved
  <2>3. CASE DoMoveFolder
    <3>1. PICK s, d : s = job.src /\ d = job.dst OBVIOUS
    <3>2. /\ note' = [p \in Paths |-> IF p[1] = d THEN note[<<s, p[2]>>]
                                      ELSE IF p[1] = s THEN Absent ELSE note[p]]
          /\ top' = [p \in Paths |-> IF p[1] = d THEN Seen(p, note[<<s, p[2]>>].rev)
                                     ELSE top[p]]
      BY <2>3, <3>1 DEF DoMoveFolder
    <3> QED BY <3>2, AbsentFields DEF Restamps
  <2> QED BY <2>1, <2>2, <2>3
<1> QED BY <1>1, <1>2, <1>3, <1>4, LoopChanges

LEMMA FoldersRefine ==
  ASSUME Inv, Inv',
         \/ EndBatch \/ DoDeleteFolder \/ EndDeleteFolder \/ EndList \/ UpsertNew
         \/ \E p \in Paths : WriteItem(p) \/ Unlink(p) \/ UpsertInto(p)
  PROVE  Register!Change
<1>1. UNCHANGED base
  BY DEF EndBatch, DoDeleteFolder, EndDeleteFolder, EndList, UpsertNew, WriteItem, Unlink,
         UpsertInto, Fails, Releases, Goes
<1>2. job.snap = Unread
  <2>1. EndBatch \/ job.op \notin {"links", "replace_many"}
    BY DEF DoDeleteFolder, EndDeleteFolder, EndList, UpsertNew, WriteItem, Unlink,
           UpsertInto, Ready, Listing
  <2> QED BY <2>1, LoopIdle DEF EndBatch
<1>3. \/ job' = Idle
      \/ \E o, todo, src, dst, old, w : job' = Job(o, todo, src, dst, old, w, Unread)
  BY DEF EndBatch, DoDeleteFolder, EndDeleteFolder, EndList, UpsertNew, WriteItem, Unlink,
         UpsertInto, Fails, Releases, Goes, Remaining
<1>4. Restamps
  <2>1. CASE EndBatch \/ DoDeleteFolder
    BY <2>1, KeepsRestamps DEF EndBatch, DoDeleteFolder
  <2>2. CASE EndDeleteFolder \/ EndList BY <2>2 DEF EndDeleteFolder, EndList, Restamps
  <2>3. CASE UpsertNew BY <2>3, KeepsRestamps, WritesRestamps DEF UpsertNew
  <2>4. ASSUME NEW p \in Paths, WriteItem(p) \/ UpsertInto(p) PROVE Restamps
    BY <2>4, KeepsRestamps, WritesRestamps DEF WriteItem, UpsertInto
  <2>5. ASSUME NEW p \in Paths, Unlink(p) PROVE Restamps
    <3>1. CASE Exists(p)
      <4>1. note' = [note EXCEPT ![p] = Absent] /\ UNCHANGED top BY <2>5, <3>1 DEF Unlink
      <4>2. \A q \in Paths : note'[q] = note[q] \/ note'[q] = Absent
        BY <4>1 DEF Inv, Sound
      <4> QED BY <4>1, <4>2, AbsentFields DEF Restamps
    <3>2. CASE ~Exists(p) BY <2>5, <3>2, KeepsRestamps DEF Unlink, Fails
    <3> QED BY <3>1, <3>2
  <2> QED BY <2>1, <2>2, <2>3, <2>4, <2>5
<1> QED BY <1>1, <1>2, <1>3, <1>4, LoopChanges

\* The clients' views, while the loop is at work.
LEMMA LoopAlone ==
  ASSUME UNCHANGED base PROVE \A q \in Readers \ {Loop} : ViewOf(q)' = ViewOf(q)
BY ViewsOf DEF Readers

LEMMA LookAtRefines == ASSUME Inv, Inv', NEW p \in Paths, LookAt(p) PROVE Register!Next
<1>1. job.snap = Unread /\ Keeps /\ UNCHANGED <<base, note, top>>
  BY DEF LookAt, Goes, Keeps
<1>2. Loop \in Readers BY DEF Readers
<1>3. CASE Exists(p) /\ Goes(After(p, job.old, View(p, note[p])))
  <2>1. PICK v : v = View(p, note[p]) OBVIOUS
  <2>2. job' = Job(job.op, job.todo \ {p}, job.src, job.dst, job.old, job.word, v)
    BY <1>3, <2>1 DEF After, Goes
  <2>3. job'.snap = v BY <2>2, JobFields
  <2>4. ViewOf(Loop)' = View(p, note[p]) BY <2>1, <2>3, ViewsOf
  <2>5. Register!Load(Loop, p) BY <1>1, <1>2, <1>3, <2>4, LoopAlone, LoadStep
  <2> QED BY <1>2, <2>5 DEF Register!Next, Readers
<1>4. CASE Goes(IF job.op = "links" THEN After(p, job.old \cup {p}, Unread) ELSE Idle)
  <2>1. PICK old : old = job.old \cup {p} OBVIOUS
  <2>2. \/ job' = Idle
        \/ job' = Job(job.op, job.todo \ {p}, job.src, job.dst, old, job.word, Unread)
    BY <1>4, <2>1 DEF After, Goes
  <2>3. Register!Change BY <1>1, <2>2, KeepsRestamps, LoopChanges
  <2> QED BY <2>3 DEF Register!Next
<1> QED BY <1>3, <1>4 DEF LookAt

LEMMA RewriteRefines == ASSUME Inv, Inv', NEW p \in Paths, Rewrite(p) PROVE Register!Next
<1>1. /\ job.op \in {"links", "replace_many"} /\ job.snap.path = p /\ job.snap # Unread
      /\ UNCHANGED base /\ Loop \in Readers
  BY NotesAssumption DEF Rewrite, Goes, Unread, View, Readers
<1>2. job'.snap = Unread
  <2>1. job' \in {NextNote, Idle} BY DEF Rewrite, Goes
  <2>2. NextNote.snap = Unread BY DEF NextNote, Job
  <2> QED BY <2>1, <2>2, IdleFields
<1>3. ViewOf(Loop)' = Unread /\ ViewOf(Loop) = job.snap BY <1>2, ViewsOf
<1>4. CASE Keeps
  <2>1. Register!Forget(Loop) BY <1>1, <1>3, <1>4, LoopAlone, ForgetStep DEF Keeps
  <2> QED BY <1>1, <2>1 DEF Register!Next, Readers
<1>5. ASSUME NEW x \in SnapTexts, UnchangedSince(p),
             Writes(p, x.words, x.links, x.title, x.words \ job.snap.note.words,
                    job.snap.note.words \ x.words)
      PROVE  Register!Next
  <2>1. PICK ws, ls, t, a, s :
           /\ ws = x.words /\ ls = x.links /\ t = x.title
           /\ a = x.words \ job.snap.note.words
           /\ s = job.snap.note.words \ x.words
    OBVIOUS
  <2>2. ws \in SUBSET Words /\ ls \in SUBSET Links /\ t \in Titles
    BY <1>1, <2>1, SnapTextFacts
  <2>3. Writes(p, ws, ls, t, a, s) BY <1>5, <2>1
  <2>4. note'[p].rev # 0 /\ \A q \in Paths \ {p} : note'[q] = note[q]
    BY <2>2, <2>3, WritesNote DEF Inv
  <2>5. Linked(ViewOf(Loop)) BY <1>1, <1>3, <1>5 DEF Linked, UnchangedSince
  <2>6. Restamps BY <2>3, WritesRestamps
  <2>7. Register!Store(Loop)
    BY <1>1, <1>3, <2>4, <2>5, <2>6, LoopAlone, StoreStep
  <2> QED BY <1>1, <2>7 DEF Register!Next, Readers
<1> QED BY <1>4, <1>5 DEF Rewrite

LEMMA RestartRefines == ASSUME Inv, Restart PROVE Register!Next
<1>1. UNCHANGED <<note, top, base>> /\ job' = Idle BY DEF Restart
<1>2. ViewOf(Loop)' = Unread /\ Loop \in Readers
  BY <1>1, IdleFields, ViewsOf DEF Readers
<1>3. Register!Forget(Loop) BY <1>1, <1>2, LoopAlone, ForgetStep
<1> QED BY <1>2, <1>3 DEF Register!Next, Readers

LEMMA NextRefines == ASSUME Inv, Inv', Next PROVE Register!Next
<1>1. CASE NoteOps BY <1>1, NoteOpsRefine
<1>2. CASE FolderOps BY <1>2, FolderOpsRefine DEF Register!Next
<1>3. CASE BatchOps
  <2>1. CASE \E t \in Threads, S \in Batches : DeleteFiles(t, S)
    BY <2>1, BesidesRefine DEF Register!Next
  <2>2. CASE \/ \E m \in Moves : Move(m[1], m[2]) \/ Rename(m[1], m[2])
             \/ \E moves \in Sorts : Sort(moves)
             \/ \E S \in Batches, w \in New :
                   \/ Batch("write_many", S, None, w)
                   \/ \E v \in Words \ {w} : Batch("replace_many", S, v, w)
    BY <2>2, BeginChanges DEF Move, Rename, Sort, Batch, Register!Next
  <2> QED BY <1>3, <2>1, <2>2 DEF BatchOps
<1>4. CASE Steps
  <2>1. CASE \/ \E a \in Agents : Acquire(a)
             \/ \E t \in Threads :
                   Clear(t) \/ EndDelete(t) \/ \E p \in Paths : DeleteOne(t, p)
    BY <2>1, BesidesRefine DEF Register!Next
  <2>2. CASE \E p \in Paths : LookAt(p) \/ Rewrite(p)
    BY <2>2, LookAtRefines, RewriteRefines
  <2>3. CASE \/ DoMove \/ SortNext \/ DoSort \/ DoMoveFolder \/ DoRename \/ Refused
             \/ EndBatch \/ DoDeleteFolder \/ EndDeleteFolder \/ EndList \/ UpsertNew
             \/ \E p \in Paths : WriteItem(p) \/ Unlink(p) \/ UpsertInto(p)
    BY <2>3, MovesRefine, FoldersRefine DEF Register!Next
  <2> QED BY <1>4, <2>1, <2>2, <2>3 DEF Steps
<1>5. CASE Tick BY <1>5, BesidesRefine DEF Register!Next
<1>6. CASE Restart BY <1>6, RestartRefines
<1> QED BY <1>1, <1>2, <1>3, <1>4, <1>5, <1>6 DEF Next

-----------------------------------------------------------------------------
(* What follows.                                                            *)

\* The state has the types that the model declares.
THEOREM TypeCorrect == Spec => []TypeOK
<1>1. Inv => TypeOK
  <2> SUFFICES ASSUME Inv PROVE TypeOK
    OBVIOUS
  <2>1. ASSUME NEW a \in Agents PROVE held[a] \subseteq {Stripe[x] : x \in Paths \cup Dirs}
    <3>1. held[a] \subseteq Need(a) BY DEF Inv, Steady, LocksOrdered
    <3>2. CASE a \in Threads
      <4>1. del[a].all \subseteq Paths BY <3>2 DEF Inv, Steady, DelShape
      <4> QED BY <3>1, <3>2, <4>1, ThreadNeed
    <3>3. CASE a = Loop
      <4>1. job.op \in LockOps => {job.src, job.dst} \ {None} \subseteq Paths \cup Dirs
        BY NotesAssumption DEF Inv, Steady, JobSound, JobShape, LockOps, OfFolder
      <4> QED BY <3>1, <3>3, <4>1, LoopNeed
    <3> QED BY <3>2, <3>3 DEF Agents
  <2>2. job.snap \in ViewType
    <3>1. CASE job.snap = Unread BY <3>1, AbsentFields DEF Unread, View, ViewType
    <3>2. CASE job.snap # Unread
      BY <3>2 DEF Inv, Steady, JobSound, SnapFresh, View, ViewType
    <3> QED BY <3>1, <3>2
  <2>3. job.op \in {"none", "move", "rename", "links", "sort", "move_folder",
                    "write_many", "replace_many", "delete_folder", "rmtree", "list",
                    "upsert_list", "upsert"}
    BY DEF Inv, Steady, JobSound, JobShape, JobOps, OfPaths
  <2>4. \A d \in Dirs : cache[d] = None \/ cache[d] \subseteq Paths \X Titles
    BY DEF Inv, Steady, CacheCovers
  <2>5. \A a, b \in Agents : a # b => held[a] \cap held[b] = {}
    BY DEF Inv, Steady, LocksOrdered
  <2> QED BY <2>1, <2>2, <2>3, <2>4, <2>5 DEF TypeOK, Inv, Sound, Steady, DelShape
<1> QED BY <1>1, Always, PTL

\* What was acknowledged as written stays in the note, through moves, renames,
\* batches and deletions in threads, until a call that saw it removes it.
THEOREM AcknowledgedStays == Spec => []KeepsAcked
<1>1. Inv => KeepsAcked BY DEF Inv, Sound
<1> QED BY <1>1, Always, PTL

\* A cached listing shows a note that is gone only if it went while the folder was
\* listed or removed, or the thread that deleted it has yet to clear the cache.
THEOREM ListingsAreFresh == Spec => []ListingFresh
<1>1. Inv => ListingFresh BY DEF Inv, Steady, CacheCovers
<1> QED BY <1>1, Always, PTL

\* The event loop and the threads that delete never wait for each other's locks in
\* a circle, however many there are and however paths share locks.
THEOREM NobodyWaitsInACircle == Spec => []NoCircularWait
BY SomeoneGoes, Always, PTL

\* When a rename within a folder has gone through the notes, those that still lead to
\* the old path could not be read, or have the old name in a word, their title, a
\* link to another folder or the new name, where the code may have replaced it
\* instead (mcp_tools/admin.py:80-104), whatever threads deleted meanwhile.
THEOREM RenameIsFollowed == Spec => []RenameKeepsLinks
<1>1. Inv => RenameKeepsLinks
  <2>1. Unread.path \notin Paths BY NotesAssumption DEF Unread, View
  <2> QED BY <2>1 DEF Inv, Steady, JobSound, LinksSeen, RenameKeepsLinks, Files
<1> QED BY <1>1, Always, PTL

\* A rename or a replacement in many notes never brings back a note that a thread
\* has deleted since it was read.
THEOREM NothingComesBack == Spec => NoResurrection
<1>1. Inv /\ [Next]_vars =>
         [\A p \in Paths : Rewrite(p) /\ ~Exists(p) => note'[p].rev = 0]_vars
  <2> SUFFICES ASSUME Inv, NEW p \in Paths, Rewrite(p), ~Exists(p) PROVE note'[p].rev = 0
    OBVIOUS
  <2>1. job.snap # Unread BY NotesAssumption DEF Rewrite, Unread, View
  <2>2. job.snap.note.rev # 0 BY <2>1 DEF Inv, Steady, JobSound, SnapFresh
  <2>3. ~UnchangedSince(p) BY <2>2 DEF UnchangedSince, Exists
  <2>4. Keeps BY <2>3 DEF Rewrite
  <2> QED BY <2>4 DEF Keeps, Exists
<1> QED BY <1>1, Always, PTL DEF Spec, NoResurrection

\* upsert_note makes a note only if the folder has none with the title, whatever the
\* listing was taken from and whatever happened since.
THEOREM UpsertIsUnique == Spec => UpsertFinds
<1>1. Inv /\ [Next]_vars =>
         [UpsertNew /\ note' # note => \A p \in In(job.src) : note[p].title # Title]_vars
  <2> SUFFICES ASSUME Inv, UpsertNew, NEW p \in In(job.src), note[p].title = Title
               PROVE  FALSE
    OBVIOUS
  <2>1. <<p, note[p].title>> \in job.todo
    BY DEF UpsertNew, Inv, Steady, JobSound, FolderSeen
  <2> QED BY <2>1 DEF UpsertNew, Matches
<1> QED BY <1>1, Always, PTL DEF Spec, UpsertFinds

\* The notes of a workspace are registers with load-linked and store-conditional, for
\* any clients, threads, folders and locks: no write with a revision, and no rewrite
\* of a batch, replaces a text that its writer has not read or that somebody wrote in
\* between, unless two writes came within one mtime.
THEOREM RegisterRefinement == Spec => ImplementsRegister
<1>1. Init => Register!Init BY InitRegisters
<1>2. Inv /\ Inv' /\ [Next]_vars => [Register!Next]_Register!rvars
  <2> SUFFICES ASSUME Inv, Inv', [Next]_vars PROVE Register!Next \/ UNCHANGED Register!rvars
    OBVIOUS
  <2>1. CASE Next BY <2>1, NextRefines
  <2>2. CASE UNCHANGED vars
    BY <2>2 DEF vars, Register!rvars, ViewOf, Linked, Text
  <2> QED BY <2>1, <2>2
<1> QED BY <1>1, <1>2, Always, PTL DEF Spec, ImplementsRegister, Register!Spec
=============================================================================
