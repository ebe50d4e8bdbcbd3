------------------------ MODULE SearchIndex_proofs ------------------------
(***************************************************************************)
(* What a search finds, for all paths, threads and numbers of faults.      *)
(***************************************************************************)
EXTENDS SearchIndex, TLAPS

Upsert(p) == [path |-> p, op |-> "upsert"]

\* Before startup is over there are neither index calls nor deletions.
BootIsAlone ==
    boot # "up" => /\ calls = {}
                   /\ \A t \in Threads : thread[t] = IdleThread

\* A deletion of rows holds the locks of its paths; a note is there only if it
\* was made since, and then it is about to be indexed.
ThreadShape ==
    \A t \in Threads :
        /\ thread[t].paths \subseteq thread[t].held
        /\ \A p \in thread[t].paths :
              file[p] # 0 => owed[p] = "now" \/ Upsert(p) \in calls

\* A path whose row is about to be deleted has no file.
DropShape ==
    \A x \in calls : x.op = "delete" => file[x.path] = 0 \/ owed[x.path] = "now"

Indexing == work.pc \in {"stat", "write", "commit"}

\* What index_file has read is what the file holds, or the change is known.
WorkShape ==
    /\ ~Indexing => work.path = NoPath
    /\ work.pc = "idle" => work = NoWork
    /\ work.pc # "drop" => work.tries = 0
    /\ work.pc = "drop" => boot = "up" /\ (work.tries > 0 => txn = "closed")
    /\ Indexing =>
          /\ work.path \in Paths /\ work.body # 0 /\ work.body <= clock
          /\ file[work.path] = work.body \/ owed[work.path] = "now"
          /\ work.pc # "stat" /\ file[work.path] = work.body => work.rev = work.body
          /\ \A t \in Threads : work.path \notin thread[t].held
          /\ boot # "list" /\ \A x \in calls : x.op = "upsert"

\* An index call or a deletion will see to p.
Pending(p) ==
    \/ \E t \in Threads : p \in thread[t].paths
    \/ \E x \in calls : x.path = p /\ x.op # "upsert"
    \/ Upsert(p) \in calls /\ file[p] # 0

\* Startup with stamp s leaves p alone.
Tolerated(p, s) == owed[p] = "old" /\ file[p] # 0 /\ file[p] <= s

\* What is wrong with the row of p is known or being seen to, in each phase.
Fine(p) ==
    \/ Match(p) \/ owed[p] = "now"
    \/ boot = "up" /\ (Pending(p) \/ Tolerated(p, since))
    \/ boot = "index" /\ \/ Tolerated(p, stamp)
                         \/ /\ p \in todo /\ file[p] > stamp
                            /\ stamp = 0 \/ owed[p] = "old"
    \/ boot = "list" /\ (owed[p] = "old" \/ (stamp = 0 /\ file[p] # 0))

\* No file is newer than the clock.
InTime == \A p \in Paths : file[p] <= clock

\* The inductive invariant.
Inv ==
    /\ TypeOK
    /\ InTime /\ BootIsAlone /\ ThreadShape /\ DropShape /\ WorkShape
    /\ \A p \in Paths \ Special : Fine(p)

-----------------------------------------------------------------------------
(* Every step keeps the invariant.                                          *)

LEMMA OneMore ==
  ASSUME NEW n \in 0..(Tries - 1), n + 1 # Tries PROVE n + 1 \in 0..(Tries - 1)
BY SearchAssumption

\* The types, and no file is dated in the future.
LEMMA TypeStep ==
  ASSUME Inv, [Next]_vars PROVE (TypeOK /\ InTime)'
<1> USE SearchAssumption DEF TypeOK, InTime, Inv, Revs, Call, NoRow, Thread, IdleThread, NoWork, Work,
           WorkShape, Indexing
<1>1. ASSUME NEW p \in Paths, Write(p) \/ Delete(p) \/ External(p)
      PROVE  (TypeOK /\ InTime)'
  BY <1>1 DEF Write, Delete, External, Miss, FilesOnly, Ready, Locked
<1>2. ASSUME NEW p \in Paths, NEW q \in Paths, Move(p, q)
      PROVE  (TypeOK /\ InTime)'
  BY <1>2 DEF Move, FilesOnly, Ready, Locked
<1>3. ASSUME NEW x \in calls, MoveReads(x) \/ MoveReadRaises(x)
      PROVE  (TypeOK /\ InTime)'
  BY <1>3 DEF MoveReads, MoveReadRaises, FilesOnly
<1>4. ASSUME NEW p \in Paths, IndexRead(p) \/ IndexUnreadable(p)
      PROVE  (TypeOK /\ InTime)'
  BY <1>4 DEF IndexRead, IndexUnreadable, Indexes, Locked, Finished, Miss, IndexOnly
<1>5. CASE IndexStat \/ IndexWrite
  BY <1>5 DEF IndexStat, IndexWrite, Finished, IndexOnly
<1>6. CASE IndexBusy \/ IndexCommit
  <2>1. CASE IndexBusy
    BY <2>1 DEF IndexBusy, Finished, IndexOnly
  <2>2. CASE IndexCommit
    <3>1. row' \in [Paths -> [rev : Revs, body : Revs]]
      BY <2>2 DEF IndexCommit
    <3>2. owed' \in [Paths -> {"no", "now", "old"}]
      BY <2>2 DEF IndexCommit
    <3> QED BY <2>2, <3>1, <3>2 DEF IndexCommit, Finished, IndexOnly
  <2> QED BY <1>6, <2>1, <2>2
<1>7. ASSUME NEW x \in calls, DropStart(x)
      PROVE  (TypeOK /\ InTime)'
  BY <1>7 DEF DropStart, IndexOnly
<1>8. CASE Drop
  BY <1>8 DEF Drop, Removes, IndexOnly
<1>9. CASE DropBusy
  <2>1. PICK n \in 0..(Tries - 1) : n = work.tries OBVIOUS
  <2>2. n + 1 # Tries => n + 1 \in 0..(Tries - 1) BY <2>1, OneMore
  <2>3. CASE n + 1 = Tries BY <1>9, <2>1, <2>3 DEF DropBusy, IndexOnly
  <2>4. CASE n + 1 # Tries BY <1>9, <2>1, <2>2, <2>4 DEF DropBusy, IndexOnly
  <2> QED BY <2>3, <2>4
<1>10. CASE SearchTag \/ SearchRecorded \/ SearchBusy
  BY <1>10 DEF SearchTag, SearchRecorded, SearchBusy, SearchOnly, AfterSelect, Ready
<1>11. ASSUME NEW t \in Threads, NEW S \in SUBSET Paths, ThreadDelete(t, S)
      PROVE  (TypeOK /\ InTime)'
  BY <1>11 DEF ThreadDelete, ThreadOnly, Locked
<1>12. ASSUME NEW t \in Threads, ThreadWrite(t)
      PROVE  (TypeOK /\ InTime)'
  BY <1>12 DEF ThreadWrite, ThreadOnly
<1>13. ASSUME NEW t \in Threads, ThreadCommit(t)
      PROVE  (TypeOK /\ InTime)'
  <2>1. thread' \in [Threads -> [tries : 0..(Tries - 1),
                                 held : SUBSET Paths, paths : SUBSET Paths]]
    BY <1>13 DEF ThreadCommit
  <2>2. row' \in [Paths -> [rev : Revs, body : Revs]]
    BY <1>13 DEF ThreadCommit, Removes
  <2> QED BY <1>13, <2>1, <2>2 DEF ThreadCommit, Removes, ThreadOnly
<1>14. ASSUME NEW t \in Threads, ThreadBusy(t)
      PROVE  (TypeOK /\ InTime)'
  <2>1. PICK n \in 0..(Tries - 1) : n = thread[t].tries OBVIOUS
  <2>2. n + 1 # Tries => n + 1 \in 0..(Tries - 1) BY <2>1, OneMore
  <2>3. thread' \in [Threads -> [tries : 0..(Tries - 1),
                                 held : SUBSET Paths, paths : SUBSET Paths]]
    BY <1>14, <2>1, <2>2 DEF ThreadBusy
  <2> QED BY <1>14, <2>3 DEF ThreadBusy, ThreadOnly
<1>15. CASE Crash
  BY <1>15 DEF Crash, InFlight
<1>16. CASE BootList \/ BootEnd
  BY <1>16 DEF BootList, BootEnd
<1>17. ASSUME NEW p \in Paths, BootSkip(p)
      PROVE  (TypeOK /\ InTime)'
  BY <1>17 DEF BootSkip
<1>18. CASE UNCHANGED vars
  BY <1>18 DEF vars
<1> QED BY <1>1, <1>2, <1>3, <1>4, <1>5, <1>6, <1>7, <1>8, <1>9, <1>10, <1>11,
           <1>12, <1>13, <1>14, <1>15, <1>16, <1>17, <1>18
       DEF Next, LoopStep, ThreadStep

\* Startup is alone; what is deleted is locked, and gone or to be indexed again.
LEMMA ShapeStep ==
  ASSUME Inv, [Next]_vars PROVE (BootIsAlone /\ ThreadShape /\ DropShape)'
<1> USE SearchAssumption DEF TypeOK, Inv, Revs, Call, Thread, IdleThread, NoWork, Work, BootIsAlone, ThreadShape,
           DropShape, WorkShape, Indexing, Upsert
<1>1. ASSUME NEW p \in Paths, Write(p) \/ Delete(p)
      PROVE  (BootIsAlone /\ ThreadShape /\ DropShape)'
  BY <1>1 DEF Write, Delete, FilesOnly, Ready, Locked
<1>2. ASSUME NEW p \in Paths, External(p)
      PROVE  (BootIsAlone /\ ThreadShape /\ DropShape)'
  BY <1>2 DEF External, Miss
<1>3. ASSUME NEW p \in Paths, NEW q \in Paths, Move(p, q)
      PROVE  (BootIsAlone /\ ThreadShape /\ DropShape)'
  BY <1>3 DEF Move, FilesOnly, Ready, Locked
<1>4. ASSUME NEW x \in calls, MoveReads(x) \/ MoveReadRaises(x)
      PROVE  (BootIsAlone /\ ThreadShape /\ DropShape)'
  BY <1>4 DEF MoveReads, MoveReadRaises, FilesOnly
<1>5. ASSUME NEW p \in Paths, IndexRead(p)
      PROVE  (BootIsAlone /\ ThreadShape /\ DropShape)'
  BY <1>5 DEF IndexRead, Indexes, Locked, Finished, IndexOnly
<1>6. ASSUME NEW p \in Paths, IndexUnreadable(p)
      PROVE  (BootIsAlone /\ ThreadShape /\ DropShape)'
  BY <1>6 DEF IndexUnreadable, Indexes, Locked, Finished, Miss, IndexOnly
<1>7. CASE IndexStat
  BY <1>7 DEF IndexStat, Finished, IndexOnly
<1>8. CASE IndexWrite
  BY <1>8 DEF IndexWrite, IndexOnly
<1>9. CASE IndexBusy
  BY <1>9 DEF IndexBusy, Finished, IndexOnly
<1>10. CASE IndexCommit
  BY <1>10 DEF IndexCommit, Finished, IndexOnly
<1>11. ASSUME NEW x \in calls, DropStart(x)
      PROVE  (BootIsAlone /\ ThreadShape /\ DropShape)'
  BY <1>11 DEF DropStart, IndexOnly
<1>12. CASE Drop
  BY <1>12 DEF Drop, Removes, IndexOnly
<1>13. CASE DropBusy
  BY <1>13 DEF DropBusy, IndexOnly
<1>14. CASE SearchTag \/ SearchRecorded \/ SearchBusy
  BY <1>14 DEF SearchTag, SearchRecorded, SearchBusy, SearchOnly, AfterSelect, Ready
<1>15. ASSUME NEW t \in Threads, NEW S \in SUBSET Paths, ThreadDelete(t, S)
      PROVE  (BootIsAlone /\ ThreadShape /\ DropShape)'
  BY <1>15 DEF ThreadDelete, ThreadOnly, Locked
<1>16. ASSUME NEW t \in Threads, ThreadWrite(t)
      PROVE  (BootIsAlone /\ ThreadShape /\ DropShape)'
  BY <1>16 DEF ThreadWrite, ThreadOnly
<1>17. ASSUME NEW t \in Threads, ThreadCommit(t)
      PROVE  (BootIsAlone /\ ThreadShape /\ DropShape)'
  <2> USE <1>17 DEF ThreadCommit, Removes, ThreadOnly
  <2>1. BootIsAlone' OBVIOUS
  <2>2. ThreadShape' OBVIOUS
  <2>3. DropShape' OBVIOUS
  <2> QED BY <2>1, <2>2, <2>3
<1>18. ASSUME NEW t \in Threads, ThreadBusy(t)
      PROVE  (BootIsAlone /\ ThreadShape /\ DropShape)'
  BY <1>18 DEF ThreadBusy, ThreadOnly
<1>19. CASE Crash
  BY <1>19 DEF Crash, InFlight
<1>20. CASE BootList
  BY <1>20 DEF BootList
<1>21. CASE BootEnd
  BY <1>21 DEF BootEnd
<1>22. ASSUME NEW p \in Paths, BootSkip(p)
      PROVE  (BootIsAlone /\ ThreadShape /\ DropShape)'
  BY <1>22 DEF BootSkip
<1>23. CASE UNCHANGED vars
  BY <1>23 DEF vars
<1> QED BY <1>1, <1>2, <1>3, <1>4, <1>5, <1>6, <1>7, <1>8, <1>9, <1>10, <1>11,
           <1>12, <1>13, <1>14, <1>15, <1>16, <1>17, <1>18, <1>19, <1>20, <1>21,
           <1>22, <1>23
       DEF Next, LoopStep, ThreadStep

\* index_file holds what the file holds, or the change is known.
LEMMA WorkStep ==
  ASSUME Inv, [Next]_vars PROVE WorkShape'
<1> USE SearchAssumption DEF TypeOK, InTime, Inv, Revs, Call, Thread, IdleThread, NoWork, Work, BootIsAlone,
           ThreadShape, WorkShape, Indexing
<1>1. ASSUME NEW p \in Paths, Write(p) \/ Delete(p) \/ External(p)
      PROVE  WorkShape'
  BY <1>1 DEF Write, Delete, External, Miss, FilesOnly, Ready, Locked
<1>2. ASSUME NEW p \in Paths, NEW q \in Paths, Move(p, q)
      PROVE  WorkShape'
  BY <1>2 DEF Move, FilesOnly, Ready, Locked
<1>3. ASSUME NEW x \in calls, MoveReads(x) \/ MoveReadRaises(x)
      PROVE  WorkShape'
  BY <1>3 DEF MoveReads, MoveReadRaises, FilesOnly
<1>4. ASSUME NEW p \in Paths, IndexRead(p) \/ IndexUnreadable(p)
      PROVE  WorkShape'
  BY <1>4 DEF IndexRead, IndexUnreadable, Indexes, Locked, Finished, Miss, IndexOnly
<1>5. CASE IndexStat
  BY <1>5 DEF IndexStat, Finished, IndexOnly
<1>6. CASE IndexWrite
  BY <1>6 DEF IndexWrite, IndexOnly
<1>7. CASE IndexBusy \/ IndexCommit
  BY <1>7 DEF IndexBusy, IndexCommit, Finished, IndexOnly
<1>8. ASSUME NEW x \in calls, DropStart(x)
      PROVE  WorkShape'
  BY <1>8 DEF DropStart, IndexOnly
<1>9. CASE Drop
  BY <1>9 DEF Drop, Removes, IndexOnly
<1>10. CASE DropBusy
  BY <1>10 DEF DropBusy, IndexOnly
<1>11. CASE SearchTag \/ SearchRecorded \/ SearchBusy
  BY <1>11 DEF SearchTag, SearchRecorded, SearchBusy, SearchOnly, AfterSelect, Ready
<1>12. ASSUME NEW t \in Threads, NEW S \in SUBSET Paths, ThreadDelete(t, S)
      PROVE  WorkShape'
  BY <1>12 DEF ThreadDelete, ThreadOnly, Locked
<1>13. ASSUME NEW t \in Threads, ThreadWrite(t)
      PROVE  WorkShape'
  BY <1>13 DEF ThreadWrite, ThreadOnly
<1>14. ASSUME NEW t \in Threads, ThreadCommit(t)
      PROVE  WorkShape'
  BY <1>14 DEF ThreadCommit, Removes, ThreadOnly
<1>15. ASSUME NEW t \in Threads, ThreadBusy(t)
      PROVE  WorkShape'
  BY <1>15 DEF ThreadBusy, ThreadOnly
<1>16. CASE Crash
  BY <1>16 DEF Crash, InFlight
<1>17. CASE BootList \/ BootEnd
  BY <1>17 DEF BootList, BootEnd
<1>18. ASSUME NEW p \in Paths, BootSkip(p)
      PROVE  WorkShape'
  BY <1>18 DEF BootSkip
<1>19. CASE UNCHANGED vars
  BY <1>19 DEF vars
<1> QED BY <1>1, <1>2, <1>3, <1>4, <1>5, <1>6, <1>7, <1>8, <1>9, <1>10, <1>11,
           <1>12, <1>13, <1>14, <1>15, <1>16, <1>17, <1>18, <1>19
       DEF Next, LoopStep, ThreadStep

\* A row that does not match its file is known or seen to.
LEMMA FineStep ==
  ASSUME Inv, [Next]_vars, NEW r \in Paths \ Special PROVE Fine(r)'
<1> USE SearchAssumption DEF TypeOK, InTime, Inv, Revs, Call, NoRow, Thread, IdleThread, NoWork, Work, BootIsAlone,
           ThreadShape, DropShape, WorkShape, Indexing, Fine, Pending, Tolerated, Match, Upsert
<1>1. ASSUME NEW p \in Paths, Write(p)
      PROVE  Fine(r)'
  BY <1>1 DEF Write, FilesOnly, Ready, Locked
<1>2. ASSUME NEW p \in Paths, Delete(p)
      PROVE  Fine(r)'
  BY <1>2 DEF Delete, FilesOnly, Ready, Locked
<1>3. ASSUME NEW p \in Paths, External(p)
      PROVE  Fine(r)'
  BY <1>3 DEF External, Miss
<1>4. ASSUME NEW p \in Paths, NEW q \in Paths, Move(p, q)
      PROVE  Fine(r)'
  BY <1>4 DEF Move, FilesOnly, Ready, Locked
<1>5. ASSUME NEW x \in calls, MoveReads(x) \/ MoveReadRaises(x)
      PROVE  Fine(r)'
  BY <1>5 DEF MoveReads, MoveReadRaises, FilesOnly
<1>6. ASSUME NEW p \in Paths, IndexRead(p) \/ IndexUnreadable(p)
      PROVE  Fine(r)'
  BY <1>6 DEF IndexRead, IndexUnreadable, Indexes, Locked, Finished, Miss, IndexOnly
<1>7. CASE IndexStat \/ IndexWrite
  BY <1>7 DEF IndexStat, IndexWrite, Finished, IndexOnly
<1>8. CASE IndexBusy \/ IndexCommit
  BY <1>8 DEF IndexBusy, IndexCommit, Finished, IndexOnly
<1>9. ASSUME NEW x \in calls, DropStart(x)
      PROVE  Fine(r)'
  BY <1>9 DEF DropStart, IndexOnly
<1>10. CASE Drop
  BY <1>10 DEF Drop, Removes, IndexOnly
<1>11. CASE DropBusy
  BY <1>11 DEF DropBusy, IndexOnly
<1>12. CASE SearchTag \/ SearchRecorded \/ SearchBusy
  BY <1>12 DEF SearchTag, SearchRecorded, SearchBusy, SearchOnly, AfterSelect, Ready
<1>13. ASSUME NEW t \in Threads, NEW S \in SUBSET Paths, ThreadDelete(t, S)
      PROVE  Fine(r)'
  <2>1. CASE r \in S /\ file[r] # 0 BY <1>13, <2>1 DEF ThreadDelete, ThreadOnly, Locked
  <2>2. CASE ~(r \in S /\ file[r] # 0) BY <1>13, <2>2 DEF ThreadDelete, ThreadOnly, Locked
  <2> QED BY <2>1, <2>2
<1>14. ASSUME NEW t \in Threads, ThreadWrite(t)
      PROVE  Fine(r)'
  BY <1>14 DEF ThreadWrite, ThreadOnly
<1>15. ASSUME NEW t \in Threads, ThreadCommit(t)
      PROVE  Fine(r)'
  BY <1>15 DEF ThreadCommit, Removes, ThreadOnly
<1>16. ASSUME NEW t \in Threads, ThreadBusy(t)
      PROVE  Fine(r)'
  BY <1>16 DEF ThreadBusy, ThreadOnly
<1>17. CASE Crash
  <2>1. CASE boot = "up" BY <1>17, <2>1 DEF Crash, InFlight
  <2>2. CASE boot = "index" BY <1>17, <2>2 DEF Crash, InFlight
  <2>3. CASE boot = "list" BY <1>17, <2>3 DEF Crash, InFlight
  <2> QED BY <2>1, <2>2, <2>3
<1>18. CASE BootList \/ BootEnd
  BY <1>18 DEF BootList, BootEnd
<1>19. ASSUME NEW p \in Paths, BootSkip(p)
      PROVE  Fine(r)'
  BY <1>19 DEF BootSkip
<1>20. CASE UNCHANGED vars
  BY <1>20 DEF vars
<1> QED BY <1>1, <1>2, <1>3, <1>4, <1>5, <1>6, <1>7, <1>8, <1>9, <1>10, <1>11,
           <1>12, <1>13, <1>14, <1>15, <1>16, <1>17, <1>18, <1>19, <1>20
       DEF Next, LoopStep, ThreadStep

LEMMA Inductive == Inv /\ [Next]_vars => Inv'
BY TypeStep, ShapeStep, WorkStep, FineStep DEF Inv

LEMMA Initially == Init => Inv
<1> SUFFICES ASSUME Init PROVE Inv OBVIOUS
<1>1. TypeOK
  BY SearchAssumption DEF Init, TypeOK, Revs, NoRow, IdleThread, Thread, NoWork, Work
<1>2. BootIsAlone /\ ThreadShape /\ DropShape /\ WorkShape
  BY DEF Init, BootIsAlone, ThreadShape, DropShape, WorkShape, Indexing, IdleThread, Thread,
         NoWork, Work
<1>3. InTime /\ \A p \in Paths : Fine(p)
  BY DEF Init, InTime, Fine, Match, NoRow
<1> QED BY <1>1, <1>2, <1>3 DEF Inv

LEMMA Always == Spec => []Inv
BY Initially, Inductive, PTL DEF Spec

-----------------------------------------------------------------------------
(* What follows.                                                            *)

\* TypeOK in every state of the index.
THEOREM TypeCorrect == Spec => []TypeOK
<1>1. Inv => TypeOK BY DEF Inv
<1> QED BY <1>1, Always, PTL

\* SearchableOrOwed in every state: a search finds what the files hold, or an
\* index call is under way, or the miss was logged (search.py:180-230).
THEOREM SearchIsTrue == Spec => []SearchableOrOwed
<1>1. Inv => SearchableOrOwed
  BY DEF Inv, SearchableOrOwed, Fine, Pending, Tolerated, InFlight, Upsert
<1> QED BY <1>1, Always, PTL

\* RestartReindexes in every state: a restart repairs what the index had missed,
\* but for a moved file that is older than the start before (search.py:442-496).
THEOREM RestartRepairsIndex == Spec => []RestartReindexes
<1>1. Inv => RestartReindexes
  BY DEF Inv, RestartReindexes, Fine, Pending, Tolerated, InFlight, Upsert
<1> QED BY <1>1, Always, PTL

\* GivesUpOnlyUnderContention for every step: a transaction that was left open
\* costs a deletion one attempt and never its last (search.py:205-230).
THEOREM DeletionRecovers == Spec => GivesUpOnlyUnderContention
<1>1. ASSUME Inv, DropBusy, work' = NoWork PROVE writer \in Threads
  <2>1. work.tries + 1 = Tries BY <1>1 DEF DropBusy, NoWork, Work
  <2>2. work.tries > 0 BY <1>1, <2>1, SearchAssumption DEF Inv, TypeOK
  <2>3. txn = "closed" BY <1>1, <2>2 DEF Inv, WorkShape, DropBusy
  <2> QED BY <1>1, <2>3 DEF DropBusy
<1>2. Inv => (DropBusy /\ work' = NoWork => writer \in Threads) BY <1>1
<1> QED BY <1>2, Always, PTL DEF GivesUpOnlyUnderContention
=============================================================================
