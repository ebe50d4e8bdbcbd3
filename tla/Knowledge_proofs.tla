-------------------------- MODULE Knowledge_proofs --------------------------
(***************************************************************************)
(* Proofs about module Knowledge, for every set of paths, threads and      *)
(* reindex requests and every bound.                                       *)
(*                                                                         *)
(* The steps fall into four kinds with respect to the invariant: those     *)
(* that change files or forget a queue write (EnvStep), the enqueues       *)
(* (EnqueueStep), the steps that concern none of it, and the worker's.     *)
(***************************************************************************)
EXTENDS Knowledge, TLAPS

\* Types and the shape of the worker, which only hold together.
Typed == TypeOK /\ WorkerShape

\* Every step of the engine preserves the types and the worker's shape.
LEMMA TypeStep == Typed /\ [Next]_vars => Typed'
<1> SUFFICES ASSUME Typed, [Next]_vars PROVE Typed'
  OBVIOUS
<1> USE KnowledgeAssumption 
       DEF Typed, WorkerShape, TypeOK, Revs, Ops, Call, LoopCall, Row, Thread, Scan, Worker, Unseen, Scanners,
           GoTo
<1>1. ASSUME NEW p \in Paths, Write(p) PROVE Typed'
  BY <1>1 DEF Write, LoopOnly
<1>2. ASSUME NEW p \in Paths, Delete(p) PROVE Typed'
  BY <1>2 DEF Delete, LoopOnly
<1>3. ASSUME NEW p \in Paths, External(p) PROVE Typed'
  <2>1. CASE clock < MaxRev /\ clock' = clock + 1
             /\ file' = [file EXCEPT ![p] = clock + 1]
    BY <1>3, <2>1 DEF External, Miss
  <2>2. CASE file' = [file EXCEPT ![p] = 0] /\ UNCHANGED clock
    BY <1>3, <2>2 DEF External, Miss
  <2> QED BY <1>3, <2>1, <2>2 DEF External
<1>4. ASSUME NEW p \in Paths, NEW q \in Paths, Move(p, q) PROVE Typed'
  <2>1. file' \in [Paths -> Revs]
    BY <1>4 DEF Move
  <2>2. loop' \in SUBSET LoopCall
    <3>1. /\ [path |-> p, op |-> "delete"] \in LoopCall
          /\ [path |-> q, op |-> "moved"] \in LoopCall
      OBVIOUS
    <3> QED BY <1>4, <3>1 DEF Move
  <2> QED BY <1>4, <2>1, <2>2 DEF Move, LoopOnly
<1>5. ASSUME NEW F \in Folders, DeleteFolder(F) PROVE Typed'
  BY <1>5 DEF DeleteFolder, LoopOnly
<1>6. ASSUME NEW m \in FolderMoves, MoveFolder(m) PROVE Typed'
  BY <1>6 DEF MoveFolder, Renamed, LoopOnly
<1>7. ASSUME LoopStep PROVE Typed'
  <2>1. ASSUME NEW x \in loop, LoopIndex(x) PROVE Typed'
    BY <2>1 DEF LoopIndex, LoopOnly
  <2>2. ASSUME NEW x \in loop, LoopEnqueue(x) PROVE Typed'
    BY <2>2 DEF LoopEnqueue, Enqueue
  <2>3. ASSUME NEW x \in loop, MoveReads(x) PROVE Typed'
    BY <2>3 DEF MoveReads, LoopOnly
  <2>4. ASSUME NEW x \in loop, MoveReadRaises(x) PROVE Typed'
    BY <2>4 DEF MoveReadRaises
  <2> QED BY <1>7, <2>1, <2>2, <2>3, <2>4 DEF LoopStep
<1>8. ASSUME NEW x \in loop, LoopSwallow(x) PROVE Typed'
  BY <1>8 DEF LoopSwallow, Miss
<1>9. ASSUME LoopAbandon PROVE Typed'
  BY <1>9 DEF LoopAbandon, Miss
<1>10. ASSUME NEW t \in Threads, NEW S \in SUBSET Paths, ThreadDelete(t, S)
       PROVE  Typed'
  BY <1>10 DEF ThreadDelete
<1>11. ASSUME NEW t \in Threads, ThreadStep(t) PROVE Typed'
  <2>1. ASSUME NEW p \in Paths, ThreadEnqueue(t, p) PROVE Typed'
    BY <2>1 DEF ThreadEnqueue, Enqueue
  <2>2. CASE ThreadRelease(t)
    BY <2>2 DEF ThreadRelease, IdleThread
  <2> QED BY <1>11, <2>1, <2>2 DEF ThreadStep
<1>12. ASSUME NEW t \in Threads, ThreadAbandon(t) PROVE Typed'
  BY <1>12 DEF ThreadAbandon, Miss
<1>13. ASSUME NEW r \in Scanners, ScanList(r) PROVE Typed'
  BY <1>13 DEF ScanList, ScanOnly, IdleScan
<1>14. ASSUME NEW r \in Scanners, ScanStep(r) PROVE Typed'
  <2>1. ASSUME NEW p \in Paths, ScanStat(r, p) PROVE Typed'
    BY <2>1 DEF ScanStat, ScanOnly, IdleScan
  <2>2. ASSUME ScanCompare(r) PROVE Typed'
    BY <2>2 DEF ScanCompare, ScanOnly, IdleScan
  <2>3. ASSUME NEW x \in scan[r].plan, ScanEnqueue(r, x) PROVE Typed'
    BY <2>3 DEF ScanEnqueue, Enqueue
  <2>4. ASSUME ScanEnd(r) PROVE Typed'
    BY <2>4 DEF ScanEnd, ScanOnly, IdleScan, IdleWorker
  <2> QED BY <1>14, <2>1, <2>2, <2>3, <2>4 DEF ScanStep
<1>15. ASSUME WorkerStep PROVE Typed'
  <2> USE DEF WorkerOnly, NextJob, IdleWorker
  <2>1. CASE Recover BY <2>1 DEF Recover, Rows
  <2>2. ASSUME NEW S \in SUBSET Paths, Claim(S) PROVE Typed'
    BY <2>2 DEF Claim, Rows
  <2>3. ASSUME NEW x \in worker.batch, Pick(x) PROVE Typed'
    BY <2>3 DEF Pick
  <2>4. CASE BatchDone BY <2>4 DEF BatchDone
  <2>5. CASE Drop BY <2>5 DEF Drop, NoDoc
  <2>6. CASE Stat BY <2>6 DEF Stat
  <2>7. CASE Read BY <2>7 DEF Read
  <2>8. CASE Commit BY <2>8 DEF Commit
  <2>9. CASE Complete BY <2>9 DEF Complete, NoJob
  <2>10. CASE Fail BY <2>10 DEF Fail
  <2> QED BY <1>15, <2>1, <2>2, <2>3, <2>4, <2>5, <2>6, <2>7, <2>8, <2>9, <2>10
          DEF WorkerStep
<1>16. CASE StepRaises
  BY <1>16 DEF StepRaises, WorkerOnly, GoTo
<1>17. CASE PassRaises
  BY <1>17 DEF PassRaises, WorkerOnly, IdleWorker
<1>18. CASE Crash
  BY <1>18 DEF Crash, IdleThread, IdleScan, IdleWorker
<1>19. CASE Space
  BY <1>19 DEF Space
<1>20. CASE UNCHANGED vars
  BY <1>20 DEF vars
<1> QED
  BY <1>20, <1>1, <1>2, <1>3, <1>4, <1>5, <1>6, <1>7, <1>8, <1>9, <1>10, <1>11, <1>12,
     <1>13, <1>14, <1>15, <1>16, <1>17, <1>18, <1>19 DEF Next

\* The tables and process states stay within their types in every behaviour.
THEOREM TypeCorrect == Spec => []TypeOK
<1>1. Init => Typed
  BY KnowledgeAssumption
     DEF Init, Typed, WorkerShape, TypeOK, Revs, Row, Thread, Scan, Worker, Unseen, NoDoc, NoJob, Ops, IdleThread, IdleScan, IdleWorker
<1>2. Typed => TypeOK
  BY DEF Typed
<1> QED BY <1>1, <1>2, TypeStep, PTL DEF Spec

-----------------------------------------------------------------------------
\* The last change of p is about to be queued or has just been missed.
Known(p) == InFlight(p) \/ owed[p] = "now"

\* A file changes only with an index call to follow, or with the path owed;
\* index calls are only added or given up.
EnvStep ==
    /\ UNCHANGED <<doc, job, worker>>
    /\ faults' \in {faults, faults + 1}
    /\ \A p \in Paths : /\ file'[p] = file[p] \/ Known(p)'
                        /\ InFlight(p) => Known(p)'
                        /\ owed'[p] \in {owed[p], "now"}

\* The start's own scan stays as it is, or goes on without p, which is queued.
ScanWithout(p) ==
    \/ scan'[Startup] = scan[Startup]
    \/ /\ scan[Startup].pc = "queue" /\ scan'[Startup].pc = "queue"
       /\ \A x \in scan[Startup].plan : x \in scan'[Startup].plan \/ x.path = p

EnqueueStep(p, op) ==
    /\ Enqueue(p, op)
    /\ UNCHANGED <<file, doc, worker, faults>>
    /\ \A q \in Paths \ {p} : InFlight(q) => InFlight(q)'
    /\ ScanWithout(p)

\* No path stops being excused.
ExcusesStay == \A p \in Paths : Excused(p) => Excused(p)'

\* The worker drops what it holds: a crash, an aborted pass, a finished scan.
ResetStep ==
    /\ UNCHANGED <<file, doc, job>>
    /\ ExcusesStay
    /\ \E pc \in {"start", "idle"} : worker' = IdleWorker(pc)

\* The start's own scan looks at files and documents.
Looks ==
    ScanList(Startup) \/ ScanCompare(Startup) \/ \E p \in Paths : ScanStat(Startup, p)

\* A file that changes under the worker's hands is excused, so nothing the
\* worker holds is overtaken unnoticed.
LEMMA EnvPreserves ==
    ASSUME Typed, NothingOvertaken, EnvStep
    PROVE  NothingOvertaken'
<1> USE DEF NothingOvertaken, HasRow
<1>0. ExcusesStay /\ \A p \in Paths : Noticed(p) => Noticed(p)'
  BY DEF EnvStep, ExcusesStay, Excused, Known, Noticed, Typed, TypeOK
<1> USE <1>0 DEF EnvStep, ExcusesStay
<1>1. WorkerShape' /\ TakenRows' /\ BatchOps'
  BY DEF WorkerShape, TakenRows, Taken, BatchOps
<1>2. DeleteRows'
  BY DEF DeleteRows, Known, Excused
<1>3. WorkerFresh'
  BY DEF WorkerFresh, Match, Known, Noticed, Typed, TypeOK
<1>4. StaleIsAccounted'
  BY DEF StaleIsAccounted, Match, Excused, Known
<1> QED BY <1>1, <1>2, <1>3, <1>4

\* A fresh row replaces whatever the worker is doing for its path.
LEMMA EnqueuePreserves ==
    ASSUME Typed, NothingOvertaken,
           NEW p \in Paths, NEW op \in Ops, EnqueueStep(p, op)
    PROVE  NothingOvertaken'
<1> USE DEF NothingOvertaken, EnqueueStep, Enqueue, HasRow, Row
<1>1. WorkerShape'
  BY DEF WorkerShape
<1>2. /\ job'[p].state = "pending" /\ job'[p].op = op
      /\ \A q \in Paths \ {p} : job'[q] = job[q]
  BY DEF Typed, TypeOK
<1>3. op = "delete" /\ file[p] # 0 => Excused(p)'
  BY DEF Typed, TypeOK, Excused
<1>9. \A q \in Paths \ {p} : /\ Excused(q) => Excused(q)'
                             /\ Noticed(q) => Noticed(q)'
  BY DEF Excused, Noticed, Typed, TypeOK
<1> HIDE DEF Enqueue
<1>4. BatchOps'
  <2>1. worker' = worker /\ \A x \in worker.batch : x.path \in Paths
    BY DEF Typed, TypeOK, Call
  <2> QED BY <1>2, <2>1 DEF BatchOps
<1>5. DeleteRows'
  BY <1>2, <1>3, <1>9 DEF DeleteRows
<1>6. WorkerFresh'
  BY <1>2, <1>9 DEF WorkerFresh, Match, Typed, TypeOK
<1>7. StaleIsAccounted'
  BY <1>2, <1>9 DEF StaleIsAccounted, Match, Excused
<1>8. TakenRows'
  <2>1. worker' = worker BY DEF Typed
  <2>2. Taken' = Taken /\ Taken \subseteq Paths
    BY <2>1 DEF Taken, Typed, TypeOK, Call
  <2>3. \A q \in Taken : job'[q].state \in {"pending", "running"}
    BY <1>2, <2>2 DEF TakenRows
  <2> QED BY <2>1, <2>2, <2>3 DEF TakenRows
<1> QED BY <1>1, <1>4, <1>5, <1>6, <1>7, <1>8

\* A worker that holds nothing cannot be overtaken.
LEMMA ResetPreserves ==
    ASSUME Typed, NothingOvertaken, ResetStep
    PROVE  NothingOvertaken'
<1> USE DEF NothingOvertaken, ResetStep, ExcusesStay, HasRow
<1>1. WorkerShape' /\ TakenRows' /\ BatchOps' /\ WorkerFresh'
  BY DEF WorkerShape, TakenRows, Taken, BatchOps, WorkerFresh, IdleWorker, Worker
<1>2. DeleteRows'
  BY DEF DeleteRows
<1>3. StaleIsAccounted'
  BY DEF StaleIsAccounted, Match, Excused
<1> QED BY <1>1, <1>2, <1>3

-----------------------------------------------------------------------------
\* Every handler, external edit and forgotten queue write is an EnvStep.
LEMMA EnvActions ==
    ASSUME Typed,
           \/ \E p \in Paths : Write(p) \/ Delete(p) \/ External(p)
           \/ \E p, q \in Paths : Move(p, q)
           \/ \E F \in Folders : DeleteFolder(F)
           \/ \E m \in FolderMoves : MoveFolder(m)
           \/ \E x \in loop : LoopIndex(x) \/ LoopSwallow(x)
           \/ \E x \in loop : MoveReads(x) \/ MoveReadRaises(x)
           \/ LoopAbandon
           \/ \E t \in Threads, S \in SUBSET Paths : ThreadDelete(t, S)
           \/ \E t \in Threads : ThreadRelease(t) \/ ThreadAbandon(t)
           \/ Space
    PROVE  EnvStep /\ UNCHANGED scan
<1> USE KnowledgeAssumption
       DEF EnvStep, Known, InFlight, Typed, TypeOK, Call, LoopCall, Thread
<1>1. ASSUME NEW p \in Paths, Write(p) PROVE EnvStep /\ UNCHANGED scan
  BY <1>1 DEF Write, LoopOnly
<1>2. ASSUME NEW p \in Paths, Delete(p) PROVE EnvStep /\ UNCHANGED scan
  BY <1>2 DEF Delete, LoopOnly
<1>3. ASSUME NEW p \in Paths, External(p) PROVE EnvStep /\ UNCHANGED scan
  BY <1>3 DEF External, Miss
<1>4. ASSUME NEW p \in Paths, NEW q \in Paths, Move(p, q) PROVE EnvStep /\ UNCHANGED scan
  BY <1>4 DEF Move, LoopOnly
<1>5. ASSUME NEW F \in Folders, DeleteFolder(F) PROVE EnvStep /\ UNCHANGED scan
  <2>1. ASSUME NEW p \in Paths, file'[p] # file[p]
        PROVE  \E x \in loop' : x.path = p
    <3>1. p \in F /\ file[p] # 0
      BY <1>5, <2>1 DEF DeleteFolder
    <3>2. [path |-> p, op |-> "delete"] \in loop'
      BY <1>5, <3>1 DEF DeleteFolder
    <3> QED BY <3>2
  <2> QED BY <1>5, <2>1 DEF DeleteFolder, LoopOnly
<1>6. ASSUME NEW m \in FolderMoves, MoveFolder(m) PROVE EnvStep /\ UNCHANGED scan
  <2> DEFINE moved == {p \in DOMAIN m : file[p] # 0}
  <2>1. ASSUME NEW q \in Paths
        PROVE  file'[q] = file[q] \/ q \in moved \/ \E p \in moved : m[p] = q
    <3>1. CASE q \in DOMAIN m
      BY <1>6, <3>1 DEF MoveFolder, Renamed
    <3>2. ASSUME NEW p \in DOMAIN m, m[p] = q
          PROVE  file'[q] = file[q] \/ p \in moved
      <4>1. q \notin DOMAIN m /\ p = CHOOSE r \in DOMAIN m : m[r] = q
        BY <3>2
      <4> QED BY <1>6, <3>2, <4>1 DEF MoveFolder, Renamed
    <3>3. CASE ~ \E p \in DOMAIN m : m[p] = q
      BY <1>6, <3>3 DEF MoveFolder, Renamed
    <3> QED BY <3>1, <3>2, <3>3
  <2>2. ASSUME NEW p \in moved
        PROVE  /\ \E x \in loop' : x.path = p
               /\ \E x \in loop' : x.path = m[p]
    <3>1. /\ [path |-> p, op |-> "delete"] \in loop'
          /\ [path |-> m[p], op |-> "index"] \in loop'
      BY <1>6, <2>2 DEF MoveFolder
    <3> QED BY <3>1
  <2>3. ASSUME NEW q \in Paths, file'[q] # file[q]
        PROVE  \E x \in loop' : x.path = q
    <3>1. CASE q \in moved BY <2>2, <3>1
    <3>2. CASE \E p \in moved : m[p] = q BY <2>2, <3>2
    <3> QED BY <2>1, <2>3, <3>1, <3>2
  <2>4. loop = {} /\ UNCHANGED <<doc, job, thread, scan, worker, owed, faults>>
    BY <1>6 DEF MoveFolder, LoopOnly
  <2>5. \A q \in Paths : InFlight(q) => InFlight(q)'
    BY <2>4
  <2> QED BY <2>3, <2>4, <2>5
<1>7. ASSUME NEW x \in loop, LoopIndex(x) \/ LoopSwallow(x) PROVE EnvStep /\ UNCHANGED scan
  <2>1. CASE LoopIndex(x)
    <3>1. ASSUME NEW q \in Paths, InFlight(q) PROVE InFlight(q)'
      <4>1. [path |-> x.path, op |-> "upsert"] \in loop'
        BY <2>1 DEF LoopIndex
      <4>2. \A y \in loop : y \in loop' \/ y = x
        BY <2>1 DEF LoopIndex
      <4> QED BY <2>1, <3>1, <4>1, <4>2 DEF LoopIndex, LoopOnly
    <3> QED BY <2>1, <3>1 DEF LoopIndex, LoopOnly
  <2>2. CASE LoopSwallow(x)
    BY <2>2 DEF LoopSwallow, Miss
  <2> QED BY <1>7, <2>1, <2>2
<1>8. CASE LoopAbandon
  BY <1>8 DEF LoopAbandon, Miss
<1>9. ASSUME NEW t \in Threads, NEW S \in SUBSET Paths, ThreadDelete(t, S)
      PROVE  EnvStep /\ UNCHANGED scan
  <2> DEFINE found == {p \in S : file[p] # 0}
  <2>1. /\ thread' = [thread EXCEPT ![t] = Thread(S, found)]
        /\ thread[t].todo = {}
        /\ UNCHANGED <<doc, job, worker, loop, scan, owed, faults>>
        /\ \A p \in Paths : file'[p] = file[p] \/ p \in found
    BY <1>9 DEF ThreadDelete, IdleThread
  <2>2. /\ thread'[t].todo = found
        /\ \A u \in Threads \ {t} : thread'[u] = thread[u]
    BY <2>1
  <2>3. \A p \in Paths : InFlight(p) => InFlight(p)'
    BY <2>1, <2>2
  <2> QED BY <2>1, <2>2, <2>3
<1>10. ASSUME NEW t \in Threads, ThreadRelease(t) PROVE EnvStep /\ UNCHANGED scan
  BY <1>10 DEF ThreadRelease, IdleThread
<1>11. ASSUME NEW t \in Threads, ThreadAbandon(t) PROVE EnvStep /\ UNCHANGED scan
  BY <1>11 DEF ThreadAbandon, Miss
<1>12. ASSUME NEW x \in loop, MoveReads(x) PROVE EnvStep /\ UNCHANGED scan
  <2>1. ASSUME NEW q \in Paths, InFlight(q) PROVE InFlight(q)'
    <3>1. [path |-> x.path, op |-> "index"] \in loop'
      BY <1>12 DEF MoveReads
    <3>2. \A y \in loop : y \in loop' \/ y = x
      BY <1>12 DEF MoveReads
    <3>3. UNCHANGED <<job, thread, worker>> /\ x \in loop
      BY <1>12 DEF MoveReads, LoopOnly
    <3>4. \A y \in loop : y.path = q => \E z \in loop' : z.path = q
      BY <3>1, <3>2
    <3> QED BY <2>1, <3>3, <3>4
  <2> QED BY <1>12, <2>1 DEF MoveReads, LoopOnly
<1>13. ASSUME NEW x \in loop, MoveReadRaises(x) PROVE EnvStep /\ UNCHANGED scan
  BY <1>13 DEF MoveReadRaises
<1>14. ASSUME Space PROVE EnvStep /\ UNCHANGED scan
  BY <1>14 DEF Space
<1> HIDE DEF EnvStep
<1> QED
  BY <1>1, <1>2, <1>3, <1>4, <1>5, <1>6, <1>7, <1>8, <1>9, <1>10, <1>11, <1>12,
     <1>13, <1>14

\* Every queue write is an EnqueueStep of its path.
LEMMA EnqueueActions ==
    ASSUME Typed,
           \/ \E x \in loop : LoopEnqueue(x)
           \/ \E t \in Threads, p \in Paths : ThreadEnqueue(t, p)
           \/ \E r \in Scanners : \E x \in scan[r].plan : ScanEnqueue(r, x)
    PROVE  \E p \in Paths, op \in Ops : EnqueueStep(p, op)
<1> USE DEF EnqueueStep, ScanWithout, InFlight, Typed, TypeOK, Call, LoopCall
<1>1. ASSUME NEW x \in loop, LoopEnqueue(x)
      PROVE  x.path \in Paths /\ x.op \in Ops /\ EnqueueStep(x.path, x.op)
  BY <1>1 DEF LoopEnqueue, Enqueue
<1>2. ASSUME NEW t \in Threads, NEW p \in Paths, ThreadEnqueue(t, p)
      PROVE  "delete" \in Ops /\ EnqueueStep(p, "delete")
  BY <1>2 DEF ThreadEnqueue, Enqueue, Thread, Ops
<1>3. ASSUME NEW r \in Scanners, NEW x \in scan[r].plan, ScanEnqueue(r, x)
      PROVE  x.path \in Paths /\ x.op \in Ops /\ EnqueueStep(x.path, x.op)
  <2>1. x.path \in Paths /\ x.op \in Ops OBVIOUS
  <2>2. ScanWithout(x.path)
    BY <1>3 DEF ScanEnqueue, Scan, Scanners
  <2> HIDE DEF ScanWithout
  <2> QED BY <1>3, <2>1, <2>2 DEF ScanEnqueue
<1> HIDE DEF EnqueueStep
<1> QED BY <1>1, <1>2, <1>3

\* Scans change nothing the invariant speaks of, except that the worker's own
\* sets it to work.
LEMMA ScanActions ==
    ASSUME Typed,
           \E r \in Scanners : \/ ScanList(r) \/ ScanCompare(r) \/ ScanEnd(r)
                              \/ \E p \in Paths : ScanStat(r, p)
    PROVE  \/ EnvStep /\ (scan'[Startup] = scan[Startup] \/ Looks)
           \/ ScanEnd(Startup)
<1> USE DEF EnvStep, Looks, Known, InFlight, ScanOnly, Typed, TypeOK, Scanners
<1>1. ASSUME NEW r \in Scanners, ScanList(r)
      PROVE  EnvStep /\ (scan'[Startup] = scan[Startup] \/ Looks)
  BY <1>1 DEF ScanList
<1>4. ASSUME NEW r \in Scanners, ScanCompare(r)
      PROVE  EnvStep /\ (scan'[Startup] = scan[Startup] \/ Looks)
  <2>1. CASE r = Startup BY <1>4, <2>1 DEF ScanCompare
  <2>2. CASE r # Startup
    <3>1. scan'[Startup] = scan[Startup] BY <1>4, <2>2 DEF ScanCompare
    <3>2. EnvStep BY <1>4 DEF ScanCompare
    <3> QED BY <3>1, <3>2
  <2> QED BY <2>1, <2>2
<1>2. ASSUME NEW r \in Scanners, NEW p \in Paths, ScanStat(r, p)
      PROVE  EnvStep /\ (scan'[Startup] = scan[Startup] \/ Looks)
  BY <1>2 DEF ScanStat
<1>3. ASSUME NEW r \in Requests, ScanEnd(r)
      PROVE  EnvStep /\ scan'[Startup] = scan[Startup]
  BY <1>3, KnowledgeAssumption DEF ScanEnd
<1> QED BY <1>1, <1>2, <1>3, <1>4

\* The steps that leave the worker empty-handed.
Resets == Crash \/ PassRaises \/ ScanEnd(Startup)

LEMMA ResetActions ==
    ASSUME Typed, Resets
    PROVE  ResetStep
BY DEF Resets, ResetStep, ExcusesStay, Excused, InFlight, Crash, PassRaises, WorkerOnly,
       ScanEnd, ScanOnly, Typed, TypeOK

-----------------------------------------------------------------------------
\* The worker's own steps.  It removes a row only when its document agrees with
\* the file or the path is excused (Complete), which Commit and Drop see to.
LEMMA WorkerPreserves ==
    ASSUME Typed, NothingOvertaken, WorkerStep \/ StepRaises
    PROVE  NothingOvertaken'
<1> USE KnowledgeAssumption DEF NothingOvertaken
<1>1. WorkerShape'
  BY TypeStep DEF Next, Typed
<1>2. ASSUME Recover \/ \E S \in SUBSET Paths : Claim(S)
      PROVE  DeleteRows' /\ StaleIsAccounted'
  <2>1. \A p \in Paths : /\ job'[p].op = job[p].op
                         /\ HasRow(p)' <=> HasRow(p)
    <3>1. CASE Recover
      BY <3>1 DEF Recover, HasRow, Row, Rows
    <3>2. CASE \E S \in SUBSET Paths : Claim(S)
      BY <3>2 DEF Claim, HasRow, Row, Rows
    <3> QED BY <1>2, <3>1, <3>2
  <2>2. UNCHANGED <<file, doc, loop, thread, owed>>
    BY <1>2 DEF Recover, Claim, WorkerOnly
  <2> QED
    BY <2>1, <2>2 DEF DeleteRows, StaleIsAccounted, Excused, InFlight, Match
<1>3. CASE Recover
  <2>1. TakenRows' /\ BatchOps' /\ WorkerFresh'
    BY <1>3 DEF Recover, IdleWorker, Worker, TakenRows, Taken, BatchOps, WorkerFresh
  <2> QED BY <1>1, <1>2, <1>3, <2>1
<1>4. ASSUME NEW S \in SUBSET Paths, Claim(S) PROVE NothingOvertaken'
  <2>1. worker' = Worker("next", {[path |-> p, op |-> job[p].op] : p \in S},
                         NoPath, 0, 0)
    BY <1>4 DEF Claim
  <2>2. \A p \in S : job'[p].state = "running" /\ job'[p].op = job[p].op
    BY <1>4 DEF Claim, Row, Typed, TypeOK
  <2>3. TakenRows'
    BY <2>1, <2>2 DEF TakenRows, Taken, HasRow, Worker
  <2>4. BatchOps' /\ WorkerFresh'
    BY <2>1, <2>2 DEF BatchOps, WorkerFresh, Worker
  <2> QED BY <1>1, <1>2, <1>4, <2>3, <2>4
<1>5. ASSUME NEW x \in worker.batch, Pick(x) PROVE NothingOvertaken'
  <2> USE <1>5 DEF Pick, WorkerOnly, Worker
  <2>1. \A p \in Paths : Excused(p) => Excused(p)'
    BY DEF Excused, InFlight, Typed, TypeOK
  <2>2. BatchOps'
    BY DEF BatchOps
  <2>3. DeleteRows' /\ StaleIsAccounted'
    BY <2>1 DEF DeleteRows, StaleIsAccounted, Excused, HasRow, Match
  <2>4. x.path \in Paths /\ x.op \in Ops
    BY DEF Typed, TypeOK, Call
  <2>5. job[x.path].state = "running" /\ x.op = "delete"
          => file[x.path] = 0 \/ Noticed(x.path)'
    <3>1. job[x.path].state = "running" /\ x.op = "delete"
            => file[x.path] = 0 \/ Excused(x.path)
      BY <2>4 DEF BatchOps, DeleteRows, HasRow
    <3> QED BY <2>4, <3>1 DEF Excused, Noticed, InFlight, Typed, TypeOK
  <2>6. WorkerFresh'
    BY <2>1, <2>4, <2>5 DEF WorkerFresh
  <2>7. TakenRows'
    BY <2>4 DEF TakenRows, Taken, HasRow
  <2> QED BY <1>1, <2>2, <2>3, <2>6, <2>7
<1>6. CASE BatchDone
  BY <1>1, <1>6
     DEF BatchDone, WorkerOnly, IdleWorker, Worker, TakenRows, Taken, BatchOps,
         DeleteRows, WorkerFresh, StaleIsAccounted, HasRow, Match, Excused, InFlight
<1>7. ASSUME Drop \/ Stat \/ Read \/ Commit \/ StepRaises
      PROVE  NothingOvertaken'
  <2> USE DEF WorkerOnly, GoTo, Worker
  <2>1. worker.path \in Paths
    BY <1>7 DEF Drop, Stat, Read, Commit, StepRaises, WorkerShape, Typed, TypeOK
  <2>2. /\ UNCHANGED <<file, job, loop, thread, owed>>
        /\ worker'.batch = worker.batch /\ worker'.path = worker.path
        /\ \A p \in Paths \ {worker.path} : doc'[p] = doc[p]
    BY <1>7, <2>1 DEF Drop, Stat, Read, Commit, StepRaises, Typed, TypeOK
  <2>3. \A p : Excused(p)' <=> Excused(p)
    BY <2>2 DEF Excused, InFlight
  <2>8. Noticed(worker.path)' <=> Noticed(worker.path)
    BY <2>2 DEF Noticed, InFlight
  <2>4. TakenRows' /\ BatchOps' /\ DeleteRows'
    BY <2>2, <2>3 DEF TakenRows, Taken, BatchOps, DeleteRows, HasRow
  <2>5. WorkerFresh'
    BY <1>7, <2>1, <2>2, <2>8
       DEF WorkerFresh, Match, NoDoc, Drop, Stat, Read, Commit,
           StepRaises, Typed, TypeOK
  <2>6. HasRow(worker.path)
    BY <2>1 DEF TakenRows, Taken, HasRow
  <2>7. StaleIsAccounted'
    BY <2>2, <2>3, <2>6 DEF StaleIsAccounted, Excused, Match, HasRow
  <2> QED BY <1>1, <2>4, <2>5, <2>7
<1>8. ASSUME Complete \/ Fail PROVE NothingOvertaken'
  <2> USE DEF WorkerOnly, NextJob, Worker
  <2>1. PICK q \in Paths : q = worker.path
    BY <1>8 DEF Complete, Fail, WorkerShape, Typed, TypeOK
  <2>2. /\ UNCHANGED <<file, doc, loop, thread, owed>>
        /\ worker'.batch = worker.batch /\ worker'.path = NoPath
    BY <1>8 DEF Complete, Fail
  <2>3. \A p \in Paths \ {q} : job'[p] = job[p]
    BY <1>8, <2>1 DEF Complete, Fail, Typed, TypeOK
  <2>4. \A p \in Paths : /\ Excused(p)' <=> Excused(p)
                         /\ Match(p)' <=> Match(p)
    BY <2>2 DEF Excused, InFlight, Match
  <2>5. \/ job'[q].state = "none" /\ worker.pc = "complete" /\ job[q].state = "running"
        \/ HasRow(q)' /\ job'[q].op = job[q].op
    <3>1. HasRow(q)
      BY <2>1 DEF TakenRows, Taken, HasRow
    <3>2. CASE Complete
      BY <2>1, <3>1, <3>2 DEF Complete, HasRow, NoJob, Row, Typed, TypeOK
    <3>3. CASE Fail
      BY <2>1, <3>1, <3>3 DEF Fail, HasRow, Row, Typed, TypeOK
    <3> QED BY <1>8, <3>2, <3>3
  <2>6. TakenRows' /\ BatchOps'
    BY <2>1, <2>2, <2>3 DEF TakenRows, Taken, BatchOps, HasRow, Typed, TypeOK, Call
  <2>7. DeleteRows'
    BY <2>1, <2>2, <2>3, <2>4, <2>5 DEF DeleteRows, HasRow, TakenRows, Taken
  <2>8. WorkerFresh'
    BY <2>2 DEF WorkerFresh
  <2>9. StaleIsAccounted'
    <3>1. worker.pc = "complete" /\ job[q].state = "running" => Excused(q) \/ Match(q)
      BY <2>1 DEF WorkerFresh, Noticed, Excused
    <3>2. HasRow(q)' \/ Match(q)' \/ Excused(q)'
      BY <2>4, <2>5, <3>1
    <3>3. \A p \in Paths \ {q} : HasRow(p)' <=> HasRow(p)
      BY <2>3 DEF HasRow
    <3> QED BY <2>4, <3>2, <3>3 DEF StaleIsAccounted, Excused
  <2> QED BY <1>1, <2>6, <2>7, <2>8, <2>9
<1> HIDE DEF NothingOvertaken
<1> QED BY <1>3, <1>4, <1>5, <1>6, <1>7, <1>8 DEF WorkerStep

-----------------------------------------------------------------------------
\* The invariant the theorems below share.
Inv == Typed /\ NothingOvertaken

LEMMA Initially == Init => Inv
<1> SUFFICES ASSUME Init PROVE Inv
  OBVIOUS
<1>1. Typed
  BY KnowledgeAssumption
     DEF Init, Typed, WorkerShape, TypeOK, Revs, Row, Thread, Scan, Worker, Unseen,
         NoDoc, NoJob, Ops, IdleThread, IdleScan, IdleWorker
<1> QED
  BY <1>1 DEF Inv, Typed, Init, NothingOvertaken, TakenRows, Taken, BatchOps,
              DeleteRows, WorkerFresh, StaleIsAccounted, Match, HasRow, Excused,
              IdleWorker, Worker, NoJob, Row, NoDoc

\* The kinds of steps are all there are.
LEMMA StepKinds ==
    ASSUME Typed, [Next]_vars
    PROVE  \/ EnvStep /\ (scan'[Startup] = scan[Startup] \/ Looks)
           \/ \E p \in Paths, op \in Ops : EnqueueStep(p, op)
           \/ Resets
           \/ WorkerStep \/ StepRaises
<1>1. CASE UNCHANGED vars
  BY <1>1 DEF vars, EnvStep, Known, InFlight
<1> QED
  BY <1>1, EnvActions, EnqueueActions, ScanActions
     DEF Resets, Next, LoopStep, ThreadStep, ScanStep

LEMMA Inductive == Inv /\ [Next]_vars => Inv'
<1> SUFFICES ASSUME Inv, [Next]_vars PROVE NothingOvertaken'
  BY TypeStep DEF Inv
<1> QED
  BY StepKinds, EnvPreserves, EnqueuePreserves, ResetActions, ResetPreserves,
     WorkerPreserves
     DEF Inv

\* In every behaviour, whatever the interleaving, the crashes and the faults:
\* what the worker holds has not been overtaken unnoticed, and a stale document
\* is queued, about to be queued, or accounted for (jobs.py, service.py).
THEOREM StaleAccounted == Spec => [](NothingOvertaken /\ StaleIsAccounted)
<1>1. Inv => NothingOvertaken /\ StaleIsAccounted
  BY DEF Inv, NothingOvertaken
<1> QED BY <1>1, Initially, Inductive, PTL DEF Spec

-----------------------------------------------------------------------------
\* The worker's first scan runs before its first pass.
StartupFirst == scan[Startup].pc # "idle" => worker.pc = "start"

LEMMA StartupStep ==
    ASSUME Typed, StartupFirst, [Next]_vars
    PROVE  StartupFirst'
<1> USE DEF StartupFirst
<1>1. CASE EnvStep /\ scan'[Startup] = scan[Startup]
  BY <1>1 DEF EnvStep
<1>2. CASE EnvStep /\ Looks
  <2>1. worker.pc = "start" BY <1>2 DEF Looks, ScanList, ScanCompare, ScanStat
  <2> QED BY <1>2, <2>1 DEF EnvStep
<1>3. ASSUME NEW p \in Paths, NEW op \in Ops, EnqueueStep(p, op)
      PROVE  StartupFirst'
  BY <1>3 DEF EnqueueStep, ScanWithout
<1>4. CASE Resets
  <2>1. CASE Crash
    BY <2>1 DEF Crash, IdleWorker, Worker
  <2>2. CASE PassRaises
    BY <2>2 DEF PassRaises, WorkerOnly
  <2>3. CASE ScanEnd(Startup)
    BY <2>3 DEF ScanEnd, IdleScan, Scan, Typed, TypeOK, Scanners
  <2> QED BY <1>4, <2>1, <2>2, <2>3 DEF Resets
<1>5. CASE WorkerStep \/ StepRaises
  <2>1. UNCHANGED scan /\ worker.pc # "start"
    BY <1>5 DEF WorkerStep, StepRaises, Recover, Claim, Pick, BatchDone, Drop, Stat,
                Read, Commit, Complete, Fail, WorkerOnly, WorkerShape, Typed
  <2> QED BY <2>1
<1> QED BY <1>1, <1>2, <1>3, <1>4, <1>5, StepKinds

\* Between a claim and the end of an execution the worker's paths stay the same.
LEMMA TakenStays ==
    ASSUME Inv,
           \/ \E x \in worker.batch : Pick(x)
           \/ BatchDone \/ Drop \/ Stat \/ Read \/ Commit \/ StepRaises
    PROVE  Taken' = Taken
<1> USE KnowledgeAssumption DEF Inv
<1>1. ASSUME NEW x \in worker.batch, Pick(x) PROVE Taken' = Taken
  <2>1. /\ worker'.batch = worker.batch \ {x}
        /\ worker'.path = x.path
        /\ worker.path = NoPath
    BY <1>1 DEF Pick, Worker, WorkerShape, Typed, TypeOK
  <2>2. x.path # NoPath
    BY DEF Typed, TypeOK, Call
  <2> QED BY <2>1, <2>2 DEF Taken
<1>2. CASE BatchDone
  BY <1>2 DEF BatchDone, Taken, IdleWorker, Worker, WorkerShape, Typed, TypeOK
<1>3. CASE Drop \/ Stat \/ Read \/ Commit \/ StepRaises
  BY <1>3 DEF Drop, Stat, Read, Commit, StepRaises, GoTo, Worker, Taken
<1> QED BY <1>1, <1>2, <1>3

\* Who may still be executed has been claimed less often than the limit, but for
\* the executions that a fault cut short.
Counted ==
    \A p \in Paths :
        /\ job[p].state = "failed" => job[p].attempts >= MaxAttempts
        /\ job[p].attempts <= MaxAttempts + faults
        /\ \/ job[p].state = "pending"
           \/ job[p].state = "running" /\ p \notin Taken
           => job[p].attempts < MaxAttempts + faults

CountInv == Inv /\ StartupFirst /\ Counted

LEMMA CountStep ==
    ASSUME CountInv, [Next]_vars
    PROVE  Counted'
<1> USE KnowledgeAssumption DEF CountInv, Inv
<1>0. \A p \in Paths : job[p].attempts \in Nat
  BY DEF Typed, TypeOK
<1>1. CASE EnvStep
  <2>1. Taken' = Taken /\ job' = job BY <1>1 DEF EnvStep, Taken
  <2> QED BY <1>0, <1>1, <2>1 DEF Counted, EnvStep, Typed, TypeOK
<1>2. ASSUME NEW p \in Paths, NEW op \in Ops, EnqueueStep(p, op)
      PROVE  Counted'
  <2>1. Taken' = Taken /\ faults' = faults BY <1>2 DEF EnqueueStep, Taken
  <2>2. job'[p] = Row(op, "pending", 0) /\ \A q \in Paths \ {p} : job'[q] = job[q]
    BY <1>2 DEF EnqueueStep, Enqueue, Typed, TypeOK
  <2> QED BY <2>1, <2>2 DEF Counted, Row, Typed, TypeOK
<1>3. CASE Resets
  <2>1. job' = job BY <1>3 DEF Resets, Crash, PassRaises, ScanEnd, ScanOnly
  <2>2. CASE faults' = faults + 1
    BY <1>0, <2>1, <2>2 DEF Counted, Typed, TypeOK
  <2>3. CASE ScanEnd(Startup)
    <3>1. faults' = faults BY <2>3 DEF ScanEnd, ScanOnly
    <3>2. Taken = {}
      BY <2>3 DEF ScanEnd, StartupFirst, Typed, TypeOK, WorkerShape, Taken
    <3> QED BY <2>1, <3>1, <3>2 DEF Counted
  <2> QED BY <1>3, <2>2, <2>3 DEF Resets, Crash, PassRaises
<1>4. CASE WorkerStep \/ StepRaises
  <2>1. CASE Recover
    <3>1. Taken = {} /\ Taken' = {} /\ faults' = faults
      BY <2>1 DEF Recover, Taken, IdleWorker, Worker, WorkerShape, Typed, TypeOK
    <3>2. \A p \in Paths :
             /\ job'[p].attempts = job[p].attempts
             /\ job'[p].state = IF job[p].state = "running" THEN "pending" ELSE job[p].state
      BY <2>1 DEF Recover, Rows, Row
    <3> QED BY <3>1, <3>2 DEF Counted
  <2>2. ASSUME NEW S \in SUBSET Paths, Claim(S) PROVE Counted'
    <3>1. /\ S \subseteq Rows("pending")
          /\ \A p \in Paths : job'[p] = IF p \in S
                                       THEN Row(job[p].op, "running", job[p].attempts + 1)
                                       ELSE job[p]
          /\ faults' = faults
      BY <2>2 DEF Claim
    <3>2. Taken = {}
      BY <2>2 DEF Claim, Taken, WorkerShape, Typed, TypeOK
    <3>3. S \subseteq Taken'
      <4> DEFINE B == {[path |-> p, op |-> job[p].op] : p \in S}
      <4>1. worker'.batch = B
        BY <2>2 DEF Claim, Worker
      <4>2. ASSUME NEW p \in S PROVE p \in {x.path : x \in B}
        <5>1. [path |-> p, op |-> job[p].op] \in B OBVIOUS
        <5> QED BY <5>1
      <4> QED BY <4>1, <4>2 DEF Taken
    <3>4. ASSUME NEW p \in S
          PROVE  /\ job'[p].state = "running" /\ job'[p].attempts = job[p].attempts + 1
                 /\ job[p].attempts < MaxAttempts + faults
      <4>1. job'[p] = Row(job[p].op, "running", job[p].attempts + 1)
        BY <3>1
      <4>2. job[p].state = "pending"
        BY <3>1 DEF Rows
      <4> QED BY <4>1, <4>2 DEF Row, Counted
    <3> QED BY <1>0, <3>1, <3>2, <3>3, <3>4 DEF Counted, Typed, TypeOK
  <2>3. ASSUME \/ \E x \in worker.batch : Pick(x)
               \/ BatchDone \/ Drop \/ Stat \/ Read \/ Commit \/ StepRaises
        PROVE  Counted'
    <3>1. job' = job /\ faults' \in {faults, faults + 1}
      BY <2>3 DEF Pick, BatchDone, Drop, Stat, Read, Commit, StepRaises
    <3>2. Taken' = Taken BY <2>3, TakenStays
    <3> QED BY <1>0, <3>1, <3>2 DEF Counted, Typed, TypeOK
  <2>4. ASSUME Complete \/ Fail PROVE Counted'
    <3>1. PICK q \in Paths : q = worker.path
      BY <2>4 DEF Complete, Fail, WorkerShape, Typed, TypeOK
    <3>2. q \in Taken /\ job[q].state \in {"pending", "running"}
      BY <3>1, KnowledgeAssumption DEF NothingOvertaken, TakenRows, Taken
    <3>3. Taken' = Taken \ {q} /\ faults' = faults
      BY <2>4, <3>1 DEF Complete, Fail, NextJob, Worker, NothingOvertaken, TakenRows, Taken
    <3>4. \A p \in Paths \ {q} : job'[p] = job[p]
      BY <2>4, <3>1 DEF Complete, Fail, Typed, TypeOK
    <3>5. CASE Complete
      <4>1. job'[q] = IF job[q].state = "running" THEN NoJob ELSE job[q]
        BY <3>1, <3>5 DEF Complete, Typed, TypeOK
      <4> QED BY <3>2, <3>3, <3>4, <4>1 DEF Counted, NoJob, Row, Typed, TypeOK
    <3>6. CASE Fail
      <4>1. job'[q] = IF job[q].state = "running"
                      THEN Row(job[q].op, IF job[q].attempts >= MaxAttempts
                                          THEN "failed" ELSE "pending", job[q].attempts)
                      ELSE job[q]
        BY <3>1, <3>6 DEF Fail, Typed, TypeOK
      <4> QED BY <1>0, <3>2, <3>3, <3>4, <4>1 DEF Counted, Row, Typed, TypeOK
    <3> QED BY <2>4, <3>5, <3>6
  <2> QED BY <1>4, <2>1, <2>2, <2>3, <2>4 DEF WorkerStep
<1> QED BY <1>1, <1>2, <1>3, <1>4, StepKinds

\* The counting invariant holds in every behaviour.
LEMMA CountHolds == Spec => []CountInv
<1>1. Init => CountInv
  <2>1. Init => StartupFirst /\ Counted
    BY KnowledgeAssumption
       DEF Init, StartupFirst, Counted, IdleWorker, Worker, NoJob, Row
  <2> QED BY <2>1, Initially DEF CountInv
<1>2. CountInv /\ [Next]_vars => CountInv'
  BY Inductive, StartupStep, CountStep DEF CountInv, Inv
<1> QED BY <1>1, <1>2, PTL DEF Spec

\* In every behaviour a job that was given up has been tried MaxAttempts times since
\* it was last queued, and a crash or a failing write of the queue adds at most one
\* execution each (jobs.py, fail_job and recover_running_jobs).
THEOREM AttemptsAreCounted == Spec => []AttemptsCounted
<1>1. CountInv => AttemptsCounted
  BY DEF CountInv, Counted, AttemptsCounted
<1> QED BY <1>1, CountHolds, PTL

-----------------------------------------------------------------------------
\* The next comparison of files and documents will find p: it has still to begin,
\* p has still to be looked at or was seen as it is, or its job is in the plan.
Awaits(p) ==
    LET s == scan[Startup]
    IN  /\ worker.pc = "start"
        /\ s.pc = "stat" => p \in s.list \/ s.seen[p] = file[p]
        /\ s.pc = "queue" => \E x \in s.plan : x.path = p

Repairs ==
    \A p \in Paths \ Special :
        owed[p] = "old" => UpToDate(p) \/ InFlight(p) \/ HasRow(p) \/ Awaits(p)

RepairInv == Inv /\ Repairs

\* While files change: a changed path is no longer owed from before the start.
LEMMA RepairEnv ==
    ASSUME RepairInv, EnvStep, scan'[Startup] = scan[Startup] \/ Looks
    PROVE  Repairs'
<1> USE DEF RepairInv, Inv
<1> SUFFICES ASSUME NEW p \in Paths \ Special, owed'[p] = "old",
                    ~ UpToDate(p)', ~ InFlight(p)', ~ HasRow(p)'
             PROVE  Awaits(p)'
  BY DEF Repairs
<1>1. /\ owed[p] = "old" /\ file'[p] = file[p] /\ ~ InFlight(p)
      /\ UNCHANGED <<doc, job, worker>>
  BY DEF EnvStep, Known
<1>2. Awaits(p)
  BY <1>1 DEF Repairs, UpToDate, HasRow
<1>3. CASE scan'[Startup] = scan[Startup]
  BY <1>1, <1>2, <1>3 DEF Awaits
<1>4. CASE ScanList(Startup)
  BY <1>1, <1>2, <1>4 DEF ScanList, Awaits, Scan, Unseen, Typed, TypeOK, Scanners
<1>5. CASE ScanCompare(Startup)
  <2> DEFINE stale == {q \in Paths : scan[Startup].seen[q] # 0
                                      /\ doc[q].rev # scan[Startup].seen[q]}
             gone  == {q \in Paths : scan[Startup].seen[q] = 0 /\ doc[q].rev # 0}
  <2>1. /\ scan'[Startup].pc = "queue"
        /\ scan'[Startup].plan = [path : stale, op : {"upsert"}]
                                   \cup [path : gone, op : {"delete"}]
    BY <1>5 DEF ScanCompare, Scan, Typed, TypeOK, Scanners
  <2>2. scan[Startup].seen[p] = file[p] /\ doc[p].rev # file[p]
    BY <1>1, <1>2, <1>5 DEF ScanCompare, Awaits, UpToDate
  <2>3. CASE file[p] # 0
    <3>1. p \in stale BY <2>2, <2>3
    <3> HIDE DEF stale, gone
    <3>2. PICK x \in [path : stale, op : {"upsert"}] : x.path = p
      <4>1. [path |-> p, op |-> "upsert"] \in [path : stale, op : {"upsert"}]
        BY <3>1
      <4> QED BY <4>1
    <3>3. \E y \in scan'[Startup].plan : y.path = p
      BY <2>1, <3>2, Zenon
    <3> QED BY <1>1, <1>2, <2>1, <3>3 DEF Awaits
  <2>4. CASE file[p] = 0
    <3>1. p \in gone BY <2>2, <2>4
    <3> HIDE DEF stale, gone
    <3>2. PICK x \in [path : gone, op : {"delete"}] : x.path = p
      <4>1. [path |-> p, op |-> "delete"] \in [path : gone, op : {"delete"}]
        BY <3>1
      <4> QED BY <4>1
    <3>3. \E y \in scan'[Startup].plan : y.path = p
      BY <2>1, <3>2, Zenon
    <3> QED BY <1>1, <1>2, <2>1, <3>3 DEF Awaits
  <2> QED BY <2>3, <2>4
<1>6. ASSUME NEW q \in Paths, ScanStat(Startup, q) PROVE Awaits(p)'
  <2>1. CASE file[q] = 0
    BY <1>1, <1>2, <1>6, <2>1 DEF ScanStat, Awaits, IdleScan, Scan, Typed, TypeOK, Scanners
  <2>2. CASE file[q] # 0
    <3>1. scan'[Startup] = Scan("stat", scan[Startup].list \ {q},
                                [scan[Startup].seen EXCEPT ![q] = file[q]], {})
      BY <1>6, <2>2 DEF ScanStat, Typed, TypeOK, Scanners
    <3>2. scan[Startup].seen \in [Paths -> Revs]
      BY DEF Typed, TypeOK, Scanners
    <3>3. p \in scan[Startup].list \/ scan[Startup].seen[p] = file[p]
      BY <1>2, <1>6 DEF ScanStat, Awaits
    <3> QED BY <1>1, <1>2, <3>1, <3>2, <3>3 DEF Awaits, Scan
  <2> QED BY <2>1, <2>2
<1> QED BY <1>3, <1>4, <1>5, <1>6 DEF Looks

\* A crash starts the comparison anew; it ends with an empty plan.
LEMMA RepairReset ==
    ASSUME RepairInv, Resets
    PROVE  Repairs'
<1> USE DEF RepairInv, Inv
<1>1. CASE Crash
  BY <1>1 DEF Crash, Repairs, Awaits, IdleScan, Scan, IdleWorker, Worker, Scanners
<1>2. CASE PassRaises
  <2>1. \A p \in Paths : ~ Awaits(p) BY <1>2 DEF PassRaises, Awaits
  <2> QED
    BY <1>2, <2>1
       DEF PassRaises, WorkerOnly, Repairs, UpToDate, InFlight, HasRow
<1>3. CASE ScanEnd(Startup)
  <2>1. \A p \in Paths : ~ Awaits(p) BY <1>3 DEF ScanEnd, Awaits
  <2> QED
    BY <1>3, <2>1 DEF ScanEnd, ScanOnly, Repairs, UpToDate, InFlight, HasRow
<1> QED BY <1>1, <1>2, <1>3 DEF Resets

\* The worker removes a row only when its document agrees with the file, or what it
\* holds has been overtaken since the start.
LEMMA RepairWorker ==
    ASSUME RepairInv, WorkerStep \/ StepRaises
    PROVE  Repairs'
<1> USE DEF RepairInv, Inv
<1> SUFFICES ASSUME NEW p \in Paths \ Special, owed'[p] = "old",
                    ~ UpToDate(p)', ~ InFlight(p)', ~ HasRow(p)'
             PROVE  FALSE
  BY DEF Repairs
<1>1. /\ UNCHANGED <<file, loop, thread, scan>> /\ worker.pc # "start"
      /\ owed[p] = "old" /\ ~ InFlight(p)
  <2>1. UNCHANGED <<file, loop, thread, scan>> /\ worker.pc # "start"
    BY DEF WorkerStep, StepRaises, Recover, Claim, Pick, BatchDone, Drop, Stat,
           Read, Commit, Complete, Fail, WorkerOnly, WorkerShape, Typed
  <2>2. owed[p] = "old"
    <3>1. ASSUME NEW x \in worker.batch, Pick(x) PROVE owed[p] = "old"
      BY <3>1 DEF Pick, Typed, TypeOK, Call
    <3>2. CASE UNCHANGED owed
      BY <3>2
    <3> QED BY <3>1, <3>2
        DEF WorkerStep, StepRaises, Recover, Claim, BatchDone, Drop, Stat, Read,
            Commit, Complete, Fail
  <2> QED BY <2>1, <2>2 DEF InFlight
<1>2. UpToDate(p) \/ HasRow(p)
  BY <1>1 DEF Repairs, Awaits
<1>3. CASE HasRow(p)
  <2>1. Complete
    <3>1. job'[p].state = "none" /\ job[p].state # "none"
      BY <1>3 DEF HasRow
    <3>2. ~ Recover BY <3>1 DEF Recover, Row
    <3>3. ASSUME NEW S \in SUBSET Paths PROVE ~ Claim(S)
      BY <3>1 DEF Claim, Row
    <3>4. ~ Fail BY <3>1 DEF Fail, Row, Typed, TypeOK
    <3>5. job' # job BY <3>1
    <3> QED
      BY <3>2, <3>3, <3>4, <3>5
         DEF WorkerStep, StepRaises, Pick, BatchDone, Drop, Stat, Read, Commit
  <2>2. p = worker.path /\ job[p].state = "running"
    BY <1>3, <2>1 DEF Complete, HasRow, Typed, TypeOK
  <2>3. Match(p)
    BY <1>1, <2>1, <2>2, KnowledgeAssumption
       DEF Complete, NothingOvertaken, WorkerFresh, Noticed
  <2> QED BY <1>1, <2>1, <2>3 DEF Complete, Match, UpToDate
<1>4. CASE ~ HasRow(p) /\ UpToDate(p)
  <2>1. doc'[p] # doc[p] BY <1>1, <1>4 DEF UpToDate
  <2>2. p = worker.path /\ (Drop \/ Commit)
    BY <2>1 DEF WorkerStep, StepRaises, Recover, Claim, Pick, BatchDone, Drop, Stat,
                Read, Commit, Complete, Fail, Typed, TypeOK
  <2>3. HasRow(p)
    BY <2>2, KnowledgeAssumption DEF NothingOvertaken, TakenRows, Taken, HasRow
  <2> QED BY <1>4, <2>3
<1> QED BY <1>2, <1>3, <1>4

\* In every behaviour, once the comparison that follows a start is over, a path that
\* was stale before it has a row, is about to have one, or its document has the
\* revision of the file (reconcile.py, worker.py).
THEOREM RestartIsRepaired == Spec => []RestartRepairs
<1>1. Init => RepairInv
  <2>1. Init => Repairs
    BY DEF Init, Repairs, Awaits, IdleWorker, Worker, IdleScan, Scan, Scanners
  <2> QED BY <2>1, Initially DEF RepairInv
<1>2. RepairInv /\ [Next]_vars => RepairInv'
  <2> SUFFICES ASSUME RepairInv, [Next]_vars PROVE Repairs'
    BY Inductive DEF RepairInv
  <2>1. ASSUME NEW p \in Paths, NEW op \in Ops, EnqueueStep(p, op)
        PROVE  Repairs'
    <3>1. /\ HasRow(p)' /\ UNCHANGED <<file, doc, worker>>
          /\ \A q \in Paths \ {p} : /\ job'[q] = job[q] /\ owed'[q] = owed[q]
                                    /\ InFlight(q) => InFlight(q)'
      BY <2>1 DEF EnqueueStep, Enqueue, Row, HasRow, RepairInv, Inv, Typed, TypeOK
    <3>2. \A q \in Paths \ {p} : Awaits(q) => Awaits(q)'
      BY <2>1, <3>1 DEF EnqueueStep, ScanWithout, Awaits
    <3> QED BY <3>1, <3>2 DEF RepairInv, Repairs, UpToDate, HasRow
  <2> QED
    BY <2>1, StepKinds, RepairEnv, RepairReset, RepairWorker DEF RepairInv, Inv
<1>3. RepairInv => RestartRepairs
  BY DEF RepairInv, Repairs, RestartRepairs, Awaits
<1> QED BY <1>1, <1>2, <1>3, PTL DEF Spec

-----------------------------------------------------------------------------
\* What the worker drops is dirty again, whatever its row looks like.
LEMMA ResetRefines ==
    ASSUME Inv, ResetStep
    PROVE  Queue!Die \/ UNCHANGED <<Dirty, Taken, Rows("failed")>>
<1> USE DEF Inv, Dirty
<1>1. Taken' = {}
  BY DEF ResetStep, Taken, IdleWorker, Worker
<1>2. \A s : Rows(s)' = Rows(s)
  BY DEF ResetStep, Rows
<1>3. Taken \subseteq Rows("pending") \cup Rows("running")
  BY DEF NothingOvertaken, TakenRows, Taken, Rows, Typed, TypeOK, Call
<1>4. Dirty' = Dirty \cup Taken
  BY <1>1, <1>2, <1>3
<1>5. CASE Taken = {} BY <1>1, <1>2, <1>4, <1>5
<1>6. CASE Taken # {} BY <1>1, <1>2, <1>4, <1>6 DEF Queue!Die
<1> QED BY <1>5, <1>6

\* An enqueue is a mark.
LEMMA EnqueueRefines ==
    ASSUME Inv, NEW p \in Paths, NEW op \in Ops, EnqueueStep(p, op)
    PROVE  Queue!Mark(p)
<1>1. /\ job'[p].state = "pending"
      /\ \A q \in Paths \ {p} : job'[q] = job[q]
  BY DEF EnqueueStep, Enqueue, Row, Inv, Typed, TypeOK
<1>2. Taken' = Taken
  BY DEF EnqueueStep, Taken
<1>3. /\ Rows("pending")' = Rows("pending") \cup {p}
      /\ Rows("running")' = Rows("running") \ {p}
      /\ Rows("failed")' = Rows("failed") \ {p}
  BY <1>1 DEF Rows
<1> QED BY <1>2, <1>3 DEF Dirty, Queue!Mark

\* Claims take, the other steps of an execution only end it.
LEMMA WorkerRefines ==
    ASSUME Inv, WorkerStep \/ StepRaises
    PROVE  Queue!Next \/ UNCHANGED <<Dirty, Taken, Rows("failed")>>
<1> USE KnowledgeAssumption DEF Inv, NothingOvertaken
<1>1. CASE Recover
  <2>1. Taken = {} /\ Taken' = {}
    BY <1>1 DEF Recover, Taken, IdleWorker, Worker, WorkerShape, Typed, TypeOK
  <2>2. /\ Rows("pending")' = Rows("pending") \cup Rows("running")
        /\ Rows("running")' = {}
        /\ Rows("failed")' = Rows("failed")
    BY <1>1 DEF Recover, Rows, Row
  <2> QED BY <2>1, <2>2 DEF Dirty
<1>2. ASSUME NEW S \in SUBSET Paths, Claim(S) PROVE Queue!Take(S)
  <2>1. Taken = {}
    BY <1>2 DEF Claim, Taken, WorkerShape, Typed, TypeOK
  <2>2. Taken' = S
    <3> DEFINE B == {[path |-> p, op |-> job[p].op] : p \in S}
    <3>1. worker'.batch = B /\ worker'.path = NoPath
      BY <1>2 DEF Claim, Worker
    <3>2. ASSUME NEW p \in S PROVE \E x \in B : x.path = p
      <4>1. [path |-> p, op |-> job[p].op] \in B
        OBVIOUS
      <4> QED BY <4>1
    <3>3. \A x \in B : x.path \in S
      OBVIOUS
    <3> QED BY <3>1, <3>2, <3>3 DEF Taken
  <2>3. S # {} /\ S \subseteq Rows("pending")
    BY <1>2 DEF Claim
  <2>4. /\ Rows("pending")' = Rows("pending") \ S
        /\ Rows("running")' = Rows("running") \cup S
        /\ Rows("failed")' = Rows("failed")
    BY <1>2 DEF Claim, Rows, Row
  <2> QED BY <2>1, <2>2, <2>3, <2>4 DEF Dirty, Queue!Take, Rows
<1>3. ASSUME \/ \E x \in worker.batch : Pick(x)
             \/ BatchDone \/ Drop \/ Stat \/ Read \/ Commit \/ StepRaises
      PROVE  UNCHANGED <<Dirty, Taken, Rows("failed")>>
  <2>1. job' = job
    BY <1>3 DEF Pick, BatchDone, Drop, Stat, Read, Commit, StepRaises
  <2>2. Taken' = Taken BY <1>3, TakenStays
  <2> QED BY <2>1, <2>2 DEF Dirty, Rows
<1>4. ASSUME Complete \/ Fail PROVE Queue!Finish
  <2>1. PICK q \in Paths : q = worker.path
    BY <1>4 DEF Complete, Fail, WorkerShape, Typed, TypeOK
  <2>2. q \in Taken /\ job[q].state \in {"pending", "running"}
    BY <2>1 DEF TakenRows, Taken
  <2>3. Taken' = Taken \ {q}
    BY <1>4, <2>1 DEF Complete, Fail, NextJob, Worker, TakenRows, Taken
  <2>4. \A p \in Paths \ {q} : job'[p] = job[p]
    BY <1>4, <2>1 DEF Complete, Fail, Typed, TypeOK
  <2>5. \/ job'[q].state = "pending"
        \/ job[q].state = "running" /\ job'[q].state \in {"none", "failed"}
    <3>1. CASE Complete
      BY <2>1, <2>2, <3>1 DEF Complete, NoJob, Row, Typed, TypeOK
    <3>2. CASE Fail
      BY <2>1, <2>2, <3>2 DEF Fail, Row, Typed, TypeOK
    <3> QED BY <1>4, <3>1, <3>2
  <2>6. CASE job'[q].state = "pending"
    <3>1. Dirty' = Dirty \cup {q} /\ Rows("failed")' = Rows("failed")
      BY <2>2, <2>3, <2>4, <2>6 DEF Dirty, Rows
    <3> QED BY <2>2, <2>3, <3>1 DEF Dirty, Queue!Finish, Queue!Retry
  <2>7. CASE job[q].state = "running" /\ job'[q].state = "none"
    <3>1. Dirty' = Dirty /\ Rows("failed")' = Rows("failed")
      BY <2>2, <2>3, <2>4, <2>7 DEF Dirty, Rows
    <3> QED BY <2>2, <2>3, <3>1 DEF Dirty, Queue!Finish, Queue!Done
  <2>8. CASE job[q].state = "running" /\ job'[q].state = "failed"
    <3>1. /\ Dirty' = Dirty /\ q \notin Dirty
          /\ Rows("failed")' = Rows("failed") \cup {q}
      BY <2>2, <2>3, <2>4, <2>8 DEF Dirty, Rows
    <3> QED BY <2>2, <2>3, <3>1 DEF Dirty, Queue!Finish, Queue!GiveUp
  <2> QED BY <2>5, <2>6, <2>7, <2>8
<1> QED BY <1>1, <1>2, <1>3, <1>4 DEF WorkerStep, Queue!Next

\* The table implements the dirty queue for any workspace, batch size and retry
\* limit: the end of an execution, a crash or an aborted pass loses no mark.
THEOREM QueueRefinement == Spec => ImplementsDirtyQueue
<1>1. Init => Queue!Init
  BY DEF Init, Queue!Init, Dirty, Rows, Taken, NoJob, Row, IdleWorker, Worker
<1>2. Inv /\ [Next]_vars => [Queue!Next]_(Queue!qvars)
  <2> SUFFICES ASSUME Inv, [Next]_vars
               PROVE  Queue!Next \/ UNCHANGED <<Dirty, Taken, Rows("failed")>>
    BY DEF Dirty, Queue!qvars
  <2>1. CASE EnvStep
    BY <2>1 DEF EnvStep, Dirty, Taken, Rows
  <2>2. ASSUME NEW p \in Paths, NEW op \in Ops, EnqueueStep(p, op)
        PROVE  Queue!Next
    BY <2>2, EnqueueRefines DEF Queue!Next
  <2>3. CASE Resets
    BY <2>3, ResetActions, ResetRefines DEF Queue!Next, Inv
  <2>4. CASE WorkerStep \/ StepRaises
    BY <2>4, WorkerRefines
  <2> QED BY <2>1, <2>2, <2>3, <2>4, StepKinds DEF Inv
<1> QED
  BY <1>1, <1>2, Initially, Inductive, PTL DEF Spec, ImplementsDirtyQueue, Queue!Spec
-----------------------------------------------------------------------------
\* The end of an execution frees its path and keeps the batch; the row stays as it
\* is, goes away, is given up, or is pending again below the limit.
LEMMA EndOfExecution ==
    ASSUME Inv, Complete \/ Fail
    PROVE  \E q \in Taken :
               /\ Taken' = Taken \ {q}
               /\ \A p \in Paths \ {q} : job'[p] = job[p]
               /\ \/ job[q].state = "pending" /\ job'[q] = job[q]
                  \/ job[q].state = "running" /\ job'[q].state \in {"none", "failed"}
                  \/ /\ job[q].state = "running" /\ job'[q].state = "pending"
                     /\ job'[q].attempts = job[q].attempts
                     /\ job[q].attempts < MaxAttempts
<1> USE KnowledgeAssumption DEF Inv
<1>1. PICK q \in Paths : q = worker.path
  BY DEF Complete, Fail, WorkerShape, Typed, TypeOK
<1>2. q \in Taken /\ job[q].state \in {"pending", "running"}
  BY <1>1 DEF NothingOvertaken, TakenRows, Taken
<1>3. Taken' = Taken \ {q}
  BY <1>1 DEF Complete, Fail, NextJob, Worker, NothingOvertaken, TakenRows, Taken
<1>4. \A p \in Paths \ {q} : job'[p] = job[p]
  BY <1>1 DEF Complete, Fail, Typed, TypeOK
<1>5. CASE Complete
  <2>1. job'[q] = IF job[q].state = "running" THEN NoJob ELSE job[q]
    BY <1>1, <1>5 DEF Complete, Typed, TypeOK
  <2> QED BY <1>2, <1>3, <1>4, <2>1 DEF NoJob, Row
<1>6. CASE Fail
  <2>1. job'[q] = IF job[q].state = "running"
                  THEN Row(job[q].op, IF job[q].attempts >= MaxAttempts
                                      THEN "failed" ELSE "pending", job[q].attempts)
                  ELSE job[q]
    BY <1>1, <1>6 DEF Fail, Typed, TypeOK
  <2>2. job[q].attempts \in Nat
    BY DEF Typed, TypeOK
  <2> QED BY <1>2, <1>3, <1>4, <2>1, <2>2 DEF Row
<1> QED BY <1>5, <1>6

\* Each step of the worker makes (executions left, batch, stage) smaller.
LEMMA ProgressStep ==
    ASSUME CountInv, WorkerStep
    PROVE  WorkerAdvances
<1> USE KnowledgeAssumption DEF CountInv, Inv
<1>0. /\ \A p \in Paths : job[p].attempts \in Nat
      /\ faults \in Nat /\ MaxAttempts \in Nat
  BY DEF Typed, TypeOK
<1>1. CASE Recover
  <2>1. /\ Taken = {} /\ Taken' = {} /\ faults' = faults
        /\ worker.batch = {} /\ worker'.batch = {}
        /\ worker.pc = "idle" /\ worker'.pc = "claim"
    BY <1>1 DEF Recover, Taken, IdleWorker, Worker, WorkerShape, Typed, TypeOK
  <2>2. \A p \in Paths :
           /\ job'[p].attempts = job[p].attempts
           /\ job'[p].state = IF job[p].state = "running" THEN "pending" ELSE job[p].state
    BY <1>1 DEF Recover, Rows, Row
  <2>3. /\ Dirty' = Dirty
        /\ Rows("pending")' \cup Rows("running")' = Rows("pending") \cup Rows("running")
    BY <2>1, <2>2 DEF Dirty, Rows
  <2>4. \A p \in Paths : Executions(p)' = Executions(p)
    BY <2>1, <2>2, <2>3 DEF Executions
  <2> QED BY <2>1, <2>4 DEF WorkerAdvances, Stage
<1>2. ASSUME NEW S \in SUBSET Paths, Claim(S) PROVE WorkerAdvances
  <2>1. /\ S \subseteq Rows("pending") /\ S # {} /\ faults' = faults
        /\ \A p \in Paths : job'[p] = IF p \in S
                                     THEN Row(job[p].op, "running", job[p].attempts + 1)
                                     ELSE job[p]
    BY <1>2 DEF Claim
  <2>2. Taken = {}
    BY <1>2 DEF Claim, Taken, WorkerShape, Typed, TypeOK
  <2>3. Taken' = S
    <3> DEFINE B == {[path |-> p, op |-> job[p].op] : p \in S}
    <3>1. worker'.batch = B /\ worker'.path = NoPath
      BY <1>2 DEF Claim, Worker
    <3>2. ASSUME NEW p \in S PROVE \E x \in B : x.path = p
      <4>1. [path |-> p, op |-> job[p].op] \in B
        OBVIOUS
      <4> QED BY <4>1
    <3>3. \A x \in B : x.path \in S
      OBVIOUS
    <3> QED BY <3>1, <3>2, <3>3 DEF Taken
  <2>4. ASSUME NEW p \in S
        PROVE  /\ Executions(p)' \subseteq Executions(p)
               /\ Executions(p)' # Executions(p)
    <3>1. /\ job[p].state = "pending" /\ p \in Dirty
          /\ job[p].attempts < MaxAttempts + faults
      BY <2>1 DEF Rows, Dirty, Counted
    <3>2. job'[p].state = "running" /\ job'[p].attempts = job[p].attempts + 1
      <4>1. job'[p] = Row(job[p].op, "running", job[p].attempts + 1)
        BY <2>1
      <4> QED BY <4>1 DEF Row
    <3>3. p \notin Dirty'
      BY <2>3, <3>2 DEF Dirty, Rows
    <3>4. job[p].attempts + 1 \in Executions(p)
      BY <1>0, <3>1 DEF Executions
    <3>5. job[p].attempts + 1 \notin Executions(p)'
      BY <1>0, <3>2 DEF Executions
    <3>6. ASSUME NEW k \in Executions(p)' PROVE k \in Executions(p)
      BY <1>0, <2>1, <3>1, <3>2, <3>3 DEF Executions, Rows
    <3> QED BY <3>4, <3>5, <3>6
  <2>5. ASSUME NEW p \in Paths \ S PROVE Executions(p)' = Executions(p)
    <3>1. job'[p] = job[p] BY <2>1
    <3>2. p \in Dirty' <=> p \in Dirty
      BY <2>2, <2>3, <3>1 DEF Dirty, Rows
    <3> QED BY <2>1, <3>1, <3>2 DEF Executions, Rows
  <2> QED BY <2>1, <2>4, <2>5 DEF WorkerAdvances
<1>3. ASSUME \/ \E x \in worker.batch : Pick(x)
             \/ BatchDone \/ Drop \/ Stat \/ Read \/ Commit
      PROVE  WorkerAdvances
  <2>1. job' = job /\ faults' = faults
    BY <1>3 DEF Pick, BatchDone, Drop, Stat, Read, Commit
  <2>2. Taken' = Taken BY <1>3, TakenStays
  <2>3. \A p \in Paths : Executions(p)' = Executions(p)
    BY <2>1, <2>2 DEF Executions, Dirty, Rows
  <2>4. ASSUME NEW x \in worker.batch, Pick(x)
        PROVE  worker'.batch # worker.batch /\ worker'.batch \subseteq worker.batch
    BY <2>4 DEF Pick, Worker
  <2>5. ASSUME BatchDone \/ Drop \/ Stat \/ Read \/ Commit
        PROVE  worker'.batch = worker.batch /\ Stage[worker'.pc] < Stage[worker.pc]
    <3>1. CASE BatchDone
      BY <3>1 DEF BatchDone, IdleWorker, Worker, Stage
    <3>2. CASE Drop \/ Stat \/ Read \/ Commit
      BY <3>2 DEF Drop, Stat, Read, Commit, GoTo, Worker, Stage
    <3> QED BY <2>5, <3>1, <3>2
  <2> QED BY <1>3, <2>3, <2>4, <2>5 DEF WorkerAdvances
<1>4. ASSUME Complete \/ Fail PROVE WorkerAdvances
  <2>1. PICK q \in Taken :
            /\ Taken' = Taken \ {q}
            /\ \A p \in Paths \ {q} : job'[p] = job[p]
            /\ \/ job[q].state = "pending" /\ job'[q] = job[q]
               \/ job[q].state = "running" /\ job'[q].state \in {"none", "failed"}
               \/ /\ job[q].state = "running" /\ job'[q].state = "pending"
                  /\ job'[q].attempts = job[q].attempts
                  /\ job[q].attempts < MaxAttempts
    BY <1>4, EndOfExecution
  <2>2. faults' = faults
    BY <1>4 DEF Complete, Fail
  <2>3. worker'.batch = worker.batch /\ Stage[worker'.pc] < Stage[worker.pc]
    BY <1>4 DEF Complete, Fail, NextJob, Worker, Stage
  <2>4. ASSUME NEW p \in Paths \ {q} PROVE Executions(p)' = Executions(p)
    <3>1. job'[p] = job[p] /\ (p \in Taken' <=> p \in Taken)
      BY <2>1
    <3> QED BY <2>2, <3>1 DEF Executions, Dirty, Rows
  <2>5. q \in Paths
    BY DEF Taken, Typed, TypeOK, Call
  <2>6. Executions(q)' \subseteq Executions(q)
    <3>1. CASE job[q].state = "pending" /\ job'[q] = job[q]
      BY <2>2, <3>1 DEF Executions, Dirty, Rows
    <3>2. CASE job'[q].state \in {"none", "failed"}
      BY <3>2 DEF Executions, Dirty, Rows
    <3>3. CASE /\ job[q].state = "running" /\ job'[q].attempts = job[q].attempts
               /\ job[q].attempts < MaxAttempts
      BY <1>0, <2>2, <2>5, <3>3 DEF Executions, Rows
    <3> QED BY <2>1, <3>1, <3>2, <3>3
  <2> QED BY <2>3, <2>4, <2>6 DEF WorkerAdvances
<1> QED BY <1>1, <1>2, <1>3, <1>4 DEF WorkerStep

\* In every behaviour no step of the worker leaves it as much to do as before: what
\* the convergence of the index rests on beside the worker being scheduled.
THEOREM WorkerNeverSpins == Spec => EachStepIsProgress
<1>1. CountInv /\ [Next]_vars => [WorkerStep => WorkerAdvances]_vars
  BY ProgressStep
<1> QED BY <1>1, CountHolds, PTL DEF Spec, EachStepIsProgress
=============================================================================
