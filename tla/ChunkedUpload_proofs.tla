----------------------- MODULE ChunkedUpload_proofs -----------------------
(***************************************************************************)
(* What an answer acknowledges stays staged, a fully acknowledged document *)
(* is written as it is, and no more is staged than allowed, for every set  *)
(* of clients, keys, documents and limits.                                 *)
(***************************************************************************)
EXTENDS ChunkedUpload, TLAPS, FiniteSetTheorems, WellFoundedInduction

Inv == StagingType /\ AckedIsStaged

UploadRecord == [open : BOOLEAN, path : Paths, mode : Modes,
                 part : [Indices -> Chunks \cup {Nothing}],
                 total : Totals, at : 0..MaxTime]

\* Chunk i of a document exists and is one of Chunks.
LEMMA DocChunk ==
    ASSUME NEW c \in Clients, NEW i \in Indices, i < Len(Doc[c])
    PROVE  /\ Doc[c][i + 1] \in Chunks
           /\ Doc[c][i + 1] # Nothing
<1>1. Doc[c] \in Seq(Chunks) BY ChunkedAssumption
<1>2. i \in Nat BY <1>1, ChunkedAssumption DEF Indices
<1>3. i + 1 \in 1..Len(Doc[c]) BY <1>1, <1>2
<1> QED BY <1>1, <1>3, ChunkedAssumption

\* An upload that is not open is a record of the right type.
LEMMA ClosedType == Closed \in UploadRecord
<1>1. (CHOOSE p \in Paths : TRUE) \in Paths BY ChunkedAssumption
<1>2. Empty \in [Indices -> Chunks \cup {Nothing}] BY DEF Empty
<1>3. 0 \in 0..MaxTime BY ChunkedAssumption
<1>4. 0 \in Totals BY DEF Totals
<1> QED BY <1>1, <1>2, <1>3, <1>4 DEF Closed, Upload, UploadRecord, Modes

\* So are the entry of a key, and the same with a chunk stored.
LEMMA EntryType ==
    ASSUME StagingType, NEW c \in Clients
    PROVE  Entry(c) \in UploadRecord /\ Entry(c).open
<1>1. Key[c] \in Keys /\ Path[c] \in Paths /\ Mode[c] \in Modes BY ChunkedAssumption
<1>2. upload[Key[c]] \in UploadRecord BY <1>1 DEF StagingType, UploadRecord
<1>3. Total(c) \in Totals BY DEF Total, Totals
<1>4. Empty \in [Indices -> Chunks \cup {Nothing}] BY DEF Empty
<1>5. clock \in 0..MaxTime BY DEF StagingType
<1>6. Upload(TRUE, Path[c], Mode[c], Empty, Total(c), clock) \in UploadRecord
  BY <1>1, <1>3, <1>4, <1>5 DEF Upload, UploadRecord
<1>7. CASE Live(Key[c]) BY <1>2, <1>7 DEF Entry, Live
<1>8. CASE ~Live(Key[c]) BY <1>6, <1>8 DEF Entry, Upload
<1> QED BY <1>7, <1>8

LEMMA StoredType ==
    ASSUME StagingType, NEW c \in Clients, NEW i \in Indices, i < Len(Doc[c])
    PROVE  Stored(c, i) \in UploadRecord /\ Touched(c, i) \in UploadRecord
<1>1. Entry(c) \in UploadRecord BY EntryType
<1>2. Doc[c][i + 1] \in Chunks BY DocChunk
<1>3. [Entry(c).part EXCEPT ![i] = Doc[c][i + 1]] \in [Indices -> Chunks \cup {Nothing}]
  BY <1>1, <1>2 DEF UploadRecord
<1>4. Stored(c, i) \in UploadRecord
  BY <1>1, <1>3 DEF Stored, Upload, UploadRecord
<1>5. Total(c) \in Totals BY DEF Total, Totals
<1>6. clock \in 0..MaxTime BY DEF StagingType
<1>7. (IF c \in Declares THEN Total(c) ELSE Stored(c, i).total) \in Totals
  BY <1>4, <1>5 DEF UploadRecord
<1>8. Touched(c, i) \in UploadRecord
  BY <1>4, <1>6, <1>7 DEF Touched, Upload, UploadRecord
<1> QED BY <1>4, <1>8

\* Storing an acceptable chunk adds it and leaves the others as they were.
LEMMA StoredKeeps ==
    ASSUME StagingType, NEW c \in Clients, NEW i \in Indices, i < Len(Doc[c]),
           Accepts(c, i), NEW u \in {Stored(c, i), Touched(c, i)}
    PROVE  /\ u.open /\ u.path = Path[c] /\ u.mode = Mode[c]
           /\ u.part[i] = Doc[c][i + 1]
           /\ \A j \in Indices : Entry(c).part[j] # Nothing
                                    => u.part[j] = Entry(c).part[j]
<1>1. Entry(c) \in UploadRecord BY EntryType
<1>2. Entry(c).part \in [Indices -> Chunks \cup {Nothing}] BY <1>1 DEF UploadRecord
<1>3. /\ u.open /\ u.path = Entry(c).path /\ u.mode = Entry(c).mode
      /\ u.part = [Entry(c).part EXCEPT ![i] = Doc[c][i + 1]]
  BY DEF Stored, Touched, Upload
<1>4. /\ Entry(c).path = Path[c] /\ Entry(c).mode = Mode[c]
      /\ Entry(c).part[i] \in {Nothing, Doc[c][i + 1]}
  BY DEF Accepts
<1> QED BY <1>2, <1>3, <1>4

\* The entry of a key that is still alive is what was staged.
LEMMA EntryKeeps ==
    ASSUME StagingType, NEW c \in Clients, Live(Key[c])
    PROVE  Entry(c) = upload[Key[c]]
BY DEF Entry

\* Every outcome replaces the upload by nothing or by one that keeps its chunks.
LEMMA ReplacesPreserves ==
    ASSUME Inv, NEW c \in Clients, NEW u \in UploadRecord, NEW S \in SUBSET Indices,
           Replaces(c, u, S),
           \A i \in S : /\ u.open /\ u.path = Path[c] /\ u.mode = Mode[c]
                        /\ i < Len(Doc[c]) /\ u.part[i] = Doc[c][i + 1],
           u.open /\ Live(Key[c]) =>
              /\ u.path = upload[Key[c]].path /\ u.mode = upload[Key[c]].mode
              /\ \A j \in Indices : upload[Key[c]].part[j] # Nothing
                                       => u.part[j] = upload[Key[c]].part[j]
    PROVE  Inv'
<1>1. Pruned \in [Keys -> UploadRecord]
  <2>1. \A k \in Keys : upload[k] \in UploadRecord
    BY DEF Inv, StagingType, UploadRecord
  <2> QED BY <2>1, ClosedType DEF Pruned
<1>2. upload' \in [Keys -> UploadRecord]
  BY <1>1 DEF Replaces, With
<1>3. Key[c] \in Keys /\ \A d \in Clients : Key[d] \in Keys BY ChunkedAssumption
<1>4. /\ upload'[Key[c]] = u
      /\ \A k \in Keys : k # Key[c] /\ Live(k) => upload'[k] = upload[k]
  BY <1>1, <1>3 DEF Replaces, With, Pruned
<1>5. acked' \in [Clients -> SUBSET Indices]
  BY DEF Replaces, Inv, StagingType
<1>6. clock' \in 0..MaxTime BY DEF Replaces, Inv, StagingType
<1>7. StagingType' BY <1>2, <1>5, <1>6 DEF StagingType, UploadRecord
<1>8. ASSUME NEW d \in Clients, NEW i \in acked'[d]
      PROVE  /\ upload'[Key[d]].open
             /\ upload'[Key[d]].path = Path[d] /\ upload'[Key[d]].mode = Mode[d]
             /\ i < Len(Doc[d]) /\ upload'[Key[d]].part[i] = Doc[d][i + 1]
  <2>1. \/ i \in acked[d] /\ Live(Key[d]) /\ (Key[d] = Key[c] => u.open)
        \/ i \in S /\ d = c
    BY DEF Replaces
  <2>2. CASE i \in S /\ d = c BY <1>4, <2>2
  <2>3. CASE i \in acked[d] /\ Live(Key[d]) /\ (Key[d] = Key[c] => u.open)
    <3>1. i \in Indices BY <2>3 DEF Inv, StagingType
    <3>2. /\ upload[Key[d]].open
          /\ upload[Key[d]].path = Path[d] /\ upload[Key[d]].mode = Mode[d]
          /\ i < Len(Doc[d]) /\ upload[Key[d]].part[i] = Doc[d][i + 1]
      BY <2>3 DEF Inv, AckedIsStaged
    <3>3. CASE Key[d] # Key[c] BY <1>3, <1>4, <2>3, <3>2, <3>3
    <3>4. CASE Key[d] = Key[c]
      <4>1. upload[Key[c]].part[i] # Nothing BY <3>1, <3>2, <3>4, DocChunk
      <4> QED BY <1>4, <2>3, <3>1, <3>2, <3>4, <4>1
    <3> QED BY <3>3, <3>4
  <2> QED BY <2>1, <2>2, <2>3
<1>9. AckedIsStaged' BY <1>8 DEF AckedIsStaged
<1> QED BY <1>7, <1>9 DEF Inv

LEMMA Initially == Init => Inv
<1> SUFFICES ASSUME Init PROVE Inv OBVIOUS
<1>1. upload \in [Keys -> UploadRecord] BY ClosedType DEF Init
<1>2. clock \in 0..MaxTime BY ChunkedAssumption DEF Init
<1>3. acked \in [Clients -> SUBSET Indices] BY DEF Init
<1>4. AckedIsStaged BY DEF Init, AckedIsStaged
<1> QED BY <1>1, <1>2, <1>3, <1>4 DEF Inv, StagingType, UploadRecord

LEMMA Inductive == Inv /\ [Next]_vars => Inv'
<1> SUFFICES ASSUME Inv, [Next]_vars PROVE Inv' OBVIOUS
<1>0. StagingType BY DEF Inv
<1>1. ASSUME NEW c \in Clients, RefuseFull(c) PROVE Inv'
  <2>1. \A k \in Keys : upload[k] \in UploadRecord
    BY <1>0 DEF StagingType, UploadRecord
  <2>2. upload' \in [Keys -> UploadRecord]
    BY <1>1, <2>1, ClosedType DEF RefuseFull, Pruned
  <2>3. acked' \in [Clients -> SUBSET Indices] /\ clock' \in 0..MaxTime
    BY <1>0, <1>1 DEF RefuseFull, StagingType
  <2>4. \A d \in Clients : Live(Key[d]) => upload'[Key[d]] = upload[Key[d]]
    BY <1>1, ChunkedAssumption DEF RefuseFull, Pruned
  <2>5. \A d \in Clients : \A i \in acked'[d] : i \in acked[d] /\ Live(Key[d])
    BY <1>1 DEF RefuseFull
  <2>6. AckedIsStaged' BY <2>4, <2>5 DEF AckedIsStaged, Inv
  <2> QED BY <2>2, <2>3, <2>6 DEF Inv, StagingType, UploadRecord
<1>2. ASSUME NEW c \in Clients, NEW i \in Indices, RefuseChunk(c, i) PROVE Inv'
  <2>1. Entry(c) \in UploadRecord BY <1>0, EntryType
  <2>2. Replaces(c, Entry(c), {}) BY <1>2 DEF RefuseChunk
  <2>3. Live(Key[c]) => Entry(c) = upload[Key[c]] BY <1>0, EntryKeeps
  <2> QED BY <2>1, <2>2, <2>3, ReplacesPreserves
<1>3. ASSUME NEW c \in Clients, NEW i \in Indices, NEW u \in UploadRecord,
             u \in {Stored(c, i), Touched(c, i)}, NEW S \in SUBSET {i},
             i < Len(Doc[c]), Accepts(c, i), Replaces(c, u, S)
      PROVE  Inv'
  <2>1. /\ u.open /\ u.path = Path[c] /\ u.mode = Mode[c]
        /\ u.part[i] = Doc[c][i + 1]
        /\ \A j \in Indices : Entry(c).part[j] # Nothing
                                 => u.part[j] = Entry(c).part[j]
    BY <1>0, <1>3, StoredKeeps
  <2>2. Entry(c).path = Path[c] /\ Entry(c).mode = Mode[c] BY <1>3 DEF Accepts
  <2>3. Live(Key[c]) => Entry(c) = upload[Key[c]] BY <1>0, EntryKeeps
  <2>4. S \in SUBSET Indices BY <1>3
  <2>5. \A j \in S : j = i BY <1>3
  <2> QED BY <1>3, <2>1, <2>2, <2>3, <2>4, <2>5, ReplacesPreserves
<1>4. ASSUME NEW c \in Clients, Replaces(c, Closed, {}) PROVE Inv'
  <2>1. ~Closed.open BY DEF Closed, Upload
  <2> QED BY <1>4, <2>1, ClosedType, ReplacesPreserves
<1>5. ASSUME NEW c \in Clients, NEW i \in Indices, RefuseTotal(c, i) PROVE Inv'
  <2>1. i < Len(Doc[c]) /\ Accepts(c, i) /\ Replaces(c, Stored(c, i), {})
    BY <1>5 DEF RefuseTotal, Arrives
  <2> QED BY <1>0, <1>3, <2>1, StoredType
<1>6. ASSUME NEW c \in Clients, NEW i \in Indices, RefuseSize(c, i) PROVE Inv'
  BY <1>4, <1>6 DEF RefuseSize
<1>7. ASSUME NEW c \in Clients, NEW i \in Indices, Stage(c, i) PROVE Inv'
  <2>1. i < Len(Doc[c]) /\ Accepts(c, i) /\ Replaces(c, Touched(c, i), {i})
    BY <1>7 DEF Stage, Passes, Arrives
  <2> QED BY <1>0, <1>3, <2>1, StoredType
<1>8. ASSUME NEW c \in Clients, NEW i \in Indices, FinalizeFails(c, i) PROVE Inv'
  <2>1. i < Len(Doc[c]) /\ Accepts(c, i) /\ Replaces(c, Touched(c, i), {})
    BY <1>8 DEF FinalizeFails, Passes, Arrives
  <2> QED BY <1>0, <1>3, <2>1, StoredType
<1>9. ASSUME NEW c \in Clients, NEW i \in Indices, Finalize(c, i) PROVE Inv'
  BY <1>4, <1>9 DEF Finalize
<1>10. CASE Tick
  <2>1. clock' \in 0..MaxTime BY <1>0, <1>10, ChunkedAssumption DEF Tick, StagingType
  <2> QED BY <1>10, <2>1 DEF Tick, Inv, StagingType, AckedIsStaged
<1>11. CASE Restart
  <2>1. upload' \in [Keys -> UploadRecord] BY <1>11, ClosedType DEF Restart
  <2>2. acked' \in [Clients -> SUBSET Indices] /\ clock' \in 0..MaxTime
    BY <1>0, <1>11 DEF Restart, StagingType
  <2>3. AckedIsStaged' BY <1>11 DEF Restart, AckedIsStaged
  <2> QED BY <2>1, <2>2, <2>3 DEF Inv, StagingType, UploadRecord
<1>12. CASE UNCHANGED vars
  BY <1>12 DEF vars, Inv, StagingType, AckedIsStaged
<1> QED
  BY <1>1, <1>2, <1>5, <1>6, <1>7, <1>8, <1>9, <1>10, <1>11, <1>12 DEF Next

FileDomain == DOMAIN file = Paths

LEMMA FilesStay == (Init => FileDomain) /\ (FileDomain /\ [Next]_vars => FileDomain')
<1>1. Init => FileDomain BY DEF Init, FileDomain
<1>2. ASSUME FileDomain, [Next]_vars PROVE FileDomain'
  <2>1. ASSUME NEW c \in Clients, NEW i \in Indices, Finalize(c, i) PROVE FileDomain'
    BY <1>2, <2>1 DEF Finalize, FileDomain
  <2>2. CASE UNCHANGED file BY <1>2, <2>2 DEF FileDomain
  <2> QED
    BY <1>2, <2>1, <2>2 DEF Next, RefuseFull, RefuseChunk, RefuseTotal, RefuseSize,
                            Stage, FinalizeFails, Tick, Restart, vars
<1> QED BY <1>1, <1>2

\* A finalize call that completes a fully acknowledged document writes it.
LEMMA FinalizeWrites ==
    ASSUME Inv, NEW c \in Declares, NEW i \in Indices,
           Finalize(c, i), Live(Key[c]),
           0..(Len(Doc[c]) - 1) \subseteq acked[c] \cup {i},
           FileDomain
    PROVE  file'[Path[c]] = IF Mode[c] = "append" THEN file[Path[c]] \o Doc[c]
                            ELSE Doc[c]
<1>0. c \in Clients /\ StagingType BY ChunkedAssumption DEF Inv
<1> DEFINE u == Touched(c, i)
<1>1. i < Len(Doc[c]) /\ Accepts(c, i)
  BY DEF Finalize, Passes, Arrives
<1>2. /\ u.part[i] = Doc[c][i + 1]
      /\ \A j \in Indices : Entry(c).part[j] # Nothing
                               => u.part[j] = Entry(c).part[j]
  BY <1>0, <1>1, StoredKeeps
<1>3. Entry(c) = upload[Key[c]] BY <1>0, EntryKeeps
<1>4. Doc[c] \in Seq(Chunks) /\ Doc[c] # <<>> /\ Len(Doc[c]) \in Nat \ {0}
  BY <1>0, ChunkedAssumption
<1>5. Expected(u) = Len(Doc[c])
  BY <1>4 DEF Expected, Touched, Upload, Total
<1>6. ASSUME NEW j \in 0..(Len(Doc[c]) - 1) PROVE u.part[j] = Doc[c][j + 1]
  <2>1. CASE j = i BY <1>2, <2>1
  <2>2. CASE j # i
    <3>1. j \in acked[c] BY <1>6, <2>2
    <3>2. j \in Indices BY <1>0, <3>1 DEF StagingType
    <3>3. upload[Key[c]].part[j] = Doc[c][j + 1] /\ j < Len(Doc[c])
      BY <1>0, <3>1 DEF Inv, AckedIsStaged
    <3>4. Doc[c][j + 1] # Nothing BY <1>0, <3>2, <3>3, DocChunk
    <3> QED BY <1>2, <1>3, <3>2, <3>3, <3>4
  <2> QED BY <2>1, <2>2
<1>7. Content(u) = [n \in 1..Len(Doc[c]) |-> u.part[n - 1]]
  BY <1>5 DEF Content
<1>8. \A n \in 1..Len(Doc[c]) : u.part[n - 1] = Doc[c][n]
  <2> SUFFICES ASSUME NEW n \in 1..Len(Doc[c]) PROVE u.part[n - 1] = Doc[c][n]
    OBVIOUS
  <2>1. n - 1 \in 0..(Len(Doc[c]) - 1) /\ (n - 1) + 1 = n BY <1>4
  <2> QED BY <1>6, <2>1
<1>9. Doc[c] = [n \in 1..Len(Doc[c]) |-> Doc[c][n]] BY <1>4
<1>10. Content(u) = Doc[c] BY <1>7, <1>8, <1>9
<1>11. Path[c] \in Paths BY <1>0, ChunkedAssumption
<1> HIDE DEF u
<1>12. file' = [file EXCEPT ![Path[c]] =
                  IF Mode[c] = "append" THEN file[Path[c]] \o Content(u)
                  ELSE Content(u)]
  BY DEF Finalize, u
<1> QED BY <1>10, <1>11, <1>12 DEF FileDomain

\* For all clients, keys, documents and limits: an acknowledged chunk stays
\* staged until its upload ends, whatever calls other clients make.
THEOREM AckedStaysStaged == Spec => []AckedIsStaged
<1>1. Inv => AckedIsStaged BY DEF Inv
<1> QED BY <1>1, Initially, Inductive, PTL DEF Spec

\* For all of them: a document whose chunks were all acknowledged by the upload
\* that is finalized reaches the file unchanged, without a digest too.
THEOREM AckedIsWritten == Spec => WritesWhatWasAcked
<1>1. Inv /\ FileDomain /\ [Next]_vars =>
        [\A c \in Declares, i \in Indices :
            /\ 0..(Len(Doc[c]) - 1) \subseteq acked[c] \cup {i}
            /\ Live(Key[c])
            /\ Finalize(c, i)
            => file'[Path[c]] = IF Mode[c] = "append" THEN file[Path[c]] \o Doc[c]
                                ELSE Doc[c]]_vars
  BY FinalizeWrites
<1>2. Spec => [](Inv /\ FileDomain)
  BY Initially, Inductive, FilesStay, PTL DEF Spec
<1> QED BY <1>1, <1>2, PTL DEF Spec, WritesWhatWasAcked

-----------------------------------------------------------------------------
(* The counts, and the type of the files.                                    *)

\* The natural numbers are well-ordered.
LEMMA LeastNat ==
  ASSUME NEW S \in SUBSET Nat, S # {}
  PROVE  \E x \in S : \A y \in S : x <= y
<1>1. IsWellFoundedOn({xy \in Nat \X Nat : xy[1] < xy[2]}, Nat)
  BY NatLessThanWellFounded DEF OpToRel
<1>2. PICK x \in S : \A y \in S : <<y, x>> \notin {xy \in Nat \X Nat : xy[1] < xy[2]}
  BY <1>1, WFMin
<1>3. ASSUME NEW y \in S PROVE x <= y
  <2>1. <<y, x>> \notin {xy \in Nat \X Nat : xy[1] < xy[2]} BY <1>2
  <2>2. <<y, x>> \in Nat \X Nat /\ <<y, x>>[1] = y /\ <<y, x>>[2] = x OBVIOUS
  <2>3. ~(y < x) BY <2>1, <2>2
  <2> QED BY <2>3
<1> QED BY <1>3

\* A bounded set of numbers has a greatest one.
LEMMA GreatestNat ==
  ASSUME NEW S \in SUBSET Nat, S # {}, NEW b \in Nat, \A i \in S : i <= b
  PROVE  \E x \in S : \A y \in S : y <= x
<1> DEFINE U == {n \in Nat : \A i \in S : i <= n}
<1>1. U \in SUBSET Nat /\ U # {} OBVIOUS
<1>2. PICK x \in U : \A y \in U : x <= y BY <1>1, LeastNat
<1>3. x \in S
  <2> SUFFICES ASSUME x \notin S PROVE FALSE OBVIOUS
  <2>1. PICK s \in S : TRUE OBVIOUS
  <2>2. \A i \in S : i <= x /\ i # x /\ i \in Nat BY <1>2
  <2>3. x \in Nat /\ x # 0 BY <1>2, <2>1, <2>2
  <2>4. x - 1 \in U BY <2>2, <2>3
  <2> QED BY <1>2, <2>3, <2>4
<1> QED BY <1>2, <1>3

LEMMA IndicesAreNat == Indices \subseteq Nat
<1>1. \A c \in Clients : Len(Doc[c]) \in Nat BY ChunkedAssumption
<1> QED BY <1>1 DEF Indices

\* No more chunks than allowed, so that one of them is the last.
Small(u) ==
    /\ IsFiniteSet(Staged(u)) /\ Cardinality(Staged(u)) <= MaxChunks
    /\ \E b \in Nat : \A i \in Staged(u) : i <= b

Open(up) == {k \in Keys : up[k].open}

Few(up) == IsFiniteSet(Open(up)) /\ Cardinality(Open(up)) <= MaxUploads

\* The inductive invariant.
CapsInv ==
    /\ \A k \in Keys : Small(upload[k])
    /\ Few(upload)

LEMMA SmallWithout ==
  ASSUME NEW u, \A i \in Indices : u.part[i] = Nothing
  PROVE  Small(u)
<1>1. Staged(u) = {} BY DEF Staged
<1>2. 0 <= MaxChunks BY ChunkedAssumption
<1> QED BY <1>1, <1>2, FS_EmptySet DEF Small

LEMMA ClosedIsSmall == Small(Closed) /\ ~Closed.open
<1>1. Closed.part = Empty /\ ~Closed.open BY DEF Closed, Upload
<1> QED BY <1>1, SmallWithout DEF Empty

LEMMA EntryIsSmall ==
  ASSUME CapsInv, NEW c \in Clients
  PROVE  Small(Entry(c))
<1>1. Key[c] \in Keys BY ChunkedAssumption
<1>2. CASE Live(Key[c]) BY <1>1, <1>2 DEF Entry, CapsInv
<1>3. CASE ~Live(Key[c])
  <2>1. Entry(c).part = Empty BY <1>3 DEF Entry, Upload
  <2> QED BY <2>1, SmallWithout DEF Empty
<1> QED BY <1>2, <1>3

\* An accepted chunk is one of those staged, or there is room for it.
LEMMA StoredIsSmall ==
  ASSUME StagingType, CapsInv, NEW c \in Clients, NEW i \in Indices, i < Len(Doc[c]),
         Accepts(c, i), NEW u \in {Stored(c, i), Touched(c, i)}
  PROVE  Small(u) /\ i \in Staged(u)
<1>1. Entry(c) \in UploadRecord /\ Small(Entry(c)) BY EntryType, EntryIsSmall
<1>2. u.part = [Entry(c).part EXCEPT ![i] = Doc[c][i + 1]]
  BY DEF Stored, Touched, Upload
<1>3. Doc[c][i + 1] # Nothing BY DocChunk
<1>4. PICK S : S = Staged(Entry(c)) OBVIOUS
<1>5. Staged(u) = S \cup {i}
  <2>1. Entry(c).part \in [Indices -> Chunks \cup {Nothing}] BY <1>1 DEF UploadRecord
  <2> QED BY <1>2, <1>3, <1>4, <2>1 DEF Staged
<1>6. IsFiniteSet(S) /\ Cardinality(S) <= MaxChunks BY <1>1, <1>4 DEF Small
<1>7. i \in S \/ Cardinality(S) < MaxChunks BY <1>4 DEF Accepts
<1>8. Cardinality(S) \in Nat BY <1>6, FS_CardinalityType
<1>9. /\ IsFiniteSet(S \cup {i})
      /\ Cardinality(S \cup {i}) = IF i \in S THEN Cardinality(S) ELSE Cardinality(S) + 1
  BY <1>6, FS_AddElement
<1>10. Cardinality(S \cup {i}) <= MaxChunks BY <1>6, <1>7, <1>8, <1>9, ChunkedAssumption
<1>11. PICK b \in Nat : \A j \in S : j <= b BY <1>1, <1>4 DEF Small
<1>12. i \in Nat /\ S \subseteq Nat BY <1>4, IndicesAreNat DEF Staged
<1>13. \E n \in Nat : \A j \in S \cup {i} : j <= n
  <2>1. b + i \in Nat /\ \A j \in S \cup {i} : j <= b + i BY <1>11, <1>12
  <2> QED BY <2>1
<1> QED BY <1>5, <1>9, <1>10, <1>13 DEF Small

LEMMA PrunedIsFew ==
  ASSUME CapsInv
  PROVE  /\ \A k \in Keys : Small(Pruned[k])
         /\ Open(Pruned) = {k \in Keys : Live(k)}
         /\ Few(Pruned)
<1>1. \A k \in Keys : Pruned[k] = IF Live(k) THEN upload[k] ELSE Closed BY DEF Pruned
<1>2. Open(Pruned) = {k \in Keys : Live(k)} BY <1>1, ClosedIsSmall DEF Open, Live
<1>3. Open(Pruned) \subseteq Open(upload) BY <1>2 DEF Open, Live
<1>4. IsFiniteSet(Open(upload)) /\ Cardinality(Open(upload)) <= MaxUploads
  BY DEF CapsInv, Few
<1>5. /\ IsFiniteSet(Open(Pruned)) /\ Cardinality(Open(Pruned)) <= Cardinality(Open(upload))
  BY <1>3, <1>4, FS_Subset
<1>6. Cardinality(Open(Pruned)) \in Nat /\ Cardinality(Open(upload)) \in Nat
  BY <1>4, <1>5, FS_CardinalityType
<1>7. Cardinality(Open(Pruned)) <= MaxUploads BY <1>4, <1>5, <1>6, ChunkedAssumption
<1>8. \A k \in Keys : Small(Pruned[k]) BY <1>1, ClosedIsSmall DEF CapsInv
<1> QED BY <1>2, <1>5, <1>7, <1>8 DEF Few

\* An upload is opened only where there is room for it.
LEMMA ReplacesKeepsCaps ==
  ASSUME CapsInv, NEW c \in Clients, NEW u, NEW S, Small(u), u.open => ~Full(c),
         Replaces(c, u, S)
  PROVE  CapsInv'
<1>1. Key[c] \in Keys BY ChunkedAssumption
<1>2. PICK L : L = {k \in Keys : Live(k)} OBVIOUS
<1>3. /\ \A k \in Keys : Small(Pruned[k])
      /\ Open(Pruned) = L /\ IsFiniteSet(L) /\ Cardinality(L) <= MaxUploads
  BY <1>2, PrunedIsFew DEF Few
<1>4. upload' = [Pruned EXCEPT ![Key[c]] = u] /\ DOMAIN Pruned = Keys
  BY DEF Replaces, With, Pruned
<1>5. \A k \in Keys : upload'[k] = IF k = Key[c] THEN u ELSE Pruned[k] BY <1>4
<1>6. \A k \in Keys : Small(upload'[k]) BY <1>3, <1>5
<1>7. Cardinality(L) \in Nat BY <1>3, FS_CardinalityType
<1>8. PICK O : O = Open(upload') OBVIOUS
<1>9. IsFiniteSet(O) /\ Cardinality(O) <= MaxUploads
  <2>1. CASE ~u.open \/ Live(Key[c])
    <3>1. O \subseteq L BY <1>1, <1>2, <1>3, <1>5, <1>8, <2>1 DEF Open
    <3>2. IsFiniteSet(O) /\ Cardinality(O) <= Cardinality(L) BY <1>3, <3>1, FS_Subset
    <3>3. Cardinality(O) \in Nat BY <3>2, FS_CardinalityType
    <3> QED BY <1>3, <1>7, <3>2, <3>3, ChunkedAssumption
  <2>2. CASE u.open /\ ~Live(Key[c])
    <3>1. ~(Cardinality(L) >= MaxUploads) BY <1>2, <2>2 DEF Full
    <3>2. Key[c] \notin L BY <1>2, <2>2
    <3>3. O = L \cup {Key[c]} BY <1>1, <1>3, <1>5, <1>8, <2>2 DEF Open
    <3>4. IsFiniteSet(L \cup {Key[c]}) /\ Cardinality(L \cup {Key[c]}) = Cardinality(L) + 1
      BY <1>3, <3>2, FS_AddElement
    <3> QED BY <1>7, <3>1, <3>3, <3>4, ChunkedAssumption
  <2> QED BY <2>1, <2>2
<1>10. Few(upload') BY <1>8, <1>9 DEF Few
<1> QED BY <1>6, <1>10 DEF CapsInv, Few, Open, Small, Staged

LEMMA CapsInitially == Init => CapsInv
<1> SUFFICES ASSUME Init PROVE CapsInv OBVIOUS
<1>1. \A k \in Keys : upload[k] = Closed BY DEF Init
<1>2. Open(upload) = {} BY <1>1, ClosedIsSmall DEF Open
<1>3. 0 <= MaxUploads BY ChunkedAssumption
<1> QED BY <1>1, <1>2, <1>3, ClosedIsSmall, FS_EmptySet DEF CapsInv, Few

LEMMA CapsInductive == StagingType /\ CapsInv /\ [Next]_vars => CapsInv'
<1> SUFFICES ASSUME StagingType, CapsInv, [Next]_vars PROVE CapsInv' OBVIOUS
<1>1. ASSUME NEW c \in Clients, RefuseFull(c) PROVE CapsInv'
  <2>1. upload' = Pruned BY <1>1 DEF RefuseFull
  <2>2. (\A k \in Keys : Small(upload'[k])) /\ Few(upload') BY <2>1, PrunedIsFew
  <2> QED BY <2>2 DEF CapsInv, Few, Open, Small, Staged
<1>2. ASSUME NEW c \in Clients, NEW i \in Indices, RefuseChunk(c, i) PROVE CapsInv'
  <2>1. Replaces(c, Entry(c), {}) /\ ~Full(c) BY <1>2 DEF RefuseChunk, Arrives
  <2> QED BY <2>1, EntryIsSmall, ReplacesKeepsCaps
<1>3. ASSUME NEW c \in Clients, NEW i \in Indices,
             RefuseTotal(c, i) \/ Stage(c, i) \/ FinalizeFails(c, i)
      PROVE  CapsInv'
  <2>1. PICK u \in {Stored(c, i), Touched(c, i)}, S \in {{}, {i}} : Replaces(c, u, S)
    BY <1>3 DEF RefuseTotal, Stage, FinalizeFails
  <2>2. i < Len(Doc[c]) /\ Accepts(c, i) /\ ~Full(c)
    BY <1>3 DEF RefuseTotal, Stage, FinalizeFails, Passes, Arrives
  <2>3. Small(u) BY <2>1, <2>2, StoredIsSmall
  <2> QED BY <2>1, <2>2, <2>3, ReplacesKeepsCaps
<1>4. ASSUME NEW c \in Clients, NEW i \in Indices, RefuseSize(c, i) \/ Finalize(c, i)
      PROVE  CapsInv'
  <2>1. Replaces(c, Closed, {}) BY <1>4 DEF RefuseSize, Finalize
  <2> QED BY <2>1, ClosedIsSmall, ReplacesKeepsCaps
<1>5. CASE Tick \/ UNCHANGED vars
  <2>1. upload' = upload BY <1>5 DEF Tick, vars
  <2> QED BY <2>1 DEF CapsInv, Few, Open, Small, Staged
<1>6. CASE Restart
  <2>1. \A k \in Keys : upload'[k] = Closed BY <1>6 DEF Restart
  <2>2. Open(upload') = {} BY <2>1, ClosedIsSmall DEF Open
  <2>3. 0 <= MaxUploads BY ChunkedAssumption
  <2>4. Few(upload') BY <2>2, <2>3, FS_EmptySet DEF Few
  <2>5. \A k \in Keys : Small(upload'[k]) BY <2>1, ClosedIsSmall
  <2> QED BY <2>4, <2>5 DEF CapsInv, Few, Open, Small, Staged
<1> QED BY <1>1, <1>2, <1>3, <1>4, <1>5, <1>6 DEF Next

\* A document that misses nothing is a sequence of chunks.
LEMMA ContentType ==
  ASSUME NEW u \in UploadRecord, Small(u), NEW i \in Staged(u), Missing(u) = {}
  PROVE  Content(u) \in Seq(Chunks)
<1>1. PICK n : n = Expected(u) OBVIOUS
<1>2. n \in Nat
  <2>1. CASE u.total # 0
    <3>1. PICK c \in Clients : u.total = Len(Doc[c]) BY <2>1 DEF UploadRecord, Totals
    <3>2. Len(Doc[c]) \in Nat BY ChunkedAssumption
    <3> QED BY <1>1, <2>1, <3>1, <3>2 DEF Expected
  <2>2. CASE u.total = 0
    <3>1. Staged(u) \in SUBSET Nat BY IndicesAreNat DEF Staged
    <3>2. PICK b \in Nat : \A j \in Staged(u) : j <= b BY DEF Small
    <3>3. \E x \in Staged(u) : \A y \in Staged(u) : y <= x BY <3>1, <3>2, GreatestNat
    <3>4. (CHOOSE x \in Staged(u) : \A y \in Staged(u) : y <= x) \in Staged(u) BY <3>3
    <3>5. n = 1 + CHOOSE x \in Staged(u) : \A y \in Staged(u) : y <= x
      BY <1>1, <2>2 DEF Expected
    <3> QED BY <3>1, <3>4, <3>5
  <2> QED BY <2>1, <2>2
<1>3. Content(u) = [m \in 1..n |-> u.part[m - 1]] BY <1>1 DEF Content
<1>4. ASSUME NEW m \in 1..n PROVE u.part[m - 1] \in Chunks
  <2>1. m - 1 \in 0..(n - 1) BY <1>2
  <2>2. m - 1 \in Staged(u) BY <1>1, <2>1 DEF Missing
  <2>3. m - 1 \in Indices /\ u.part[m - 1] # Nothing BY <2>2 DEF Staged
  <2>4. u.part \in [Indices -> Chunks \cup {Nothing}] BY DEF UploadRecord
  <2> QED BY <2>3, <2>4
<1> QED BY <1>2, <1>3, <1>4

FilesType == file \in [Paths -> Seq(Chunks)]

LEMMA FilesInductive == StagingType /\ CapsInv /\ FilesType /\ [Next]_vars => FilesType'
<1> SUFFICES ASSUME StagingType, CapsInv, FilesType, [Next]_vars PROVE FilesType' OBVIOUS
<1>1. ASSUME NEW c \in Clients, NEW i \in Indices, Finalize(c, i) PROVE FilesType'
  <2>1. PICK u : u = Touched(c, i) OBVIOUS
  <2>2. i < Len(Doc[c]) /\ Accepts(c, i) BY <1>1 DEF Finalize, Passes, Arrives
  <2>3. u \in UploadRecord /\ Small(u) /\ i \in Staged(u)
    BY <2>1, <2>2, StoredType, StoredIsSmall
  <2>4. Missing(u) = {} BY <1>1, <2>1 DEF Finalize
  <2>5. PICK d : d = Content(u) OBVIOUS
  <2>6. d \in Seq(Chunks) BY <2>3, <2>4, <2>5, ContentType
  <2>7. Path[c] \in Paths BY ChunkedAssumption
  <2>8. file[Path[c]] \in Seq(Chunks) BY <2>7 DEF FilesType
  <2>9. file[Path[c]] \o d \in Seq(Chunks) BY <2>6, <2>8
  <2>10. file' = [file EXCEPT ![Path[c]] =
                    IF Mode[c] = "append" THEN file[Path[c]] \o d ELSE d]
    BY <1>1, <2>1, <2>5 DEF Finalize
  <2> QED BY <2>6, <2>9, <2>10 DEF FilesType
<1>2. CASE UNCHANGED file BY <1>2 DEF FilesType
<1> QED
  BY <1>1, <1>2 DEF Next, RefuseFull, RefuseChunk, RefuseTotal, RefuseSize, Stage,
                    FinalizeFails, Tick, Restart, vars

-----------------------------------------------------------------------------
(* The bytes.                                                               *)

\* A finite union of finite sets is finite.
LEMMA FiniteUnion ==
  ASSUME NEW S, IsFiniteSet(S), NEW f, \A x \in S : IsFiniteSet(f[x])
  PROVE  IsFiniteSet(UNION {f[x] : x \in S})
<1> DEFINE T == {f[x] : x \in S}
           g == [x \in S |-> f[x]]
<1>1. g \in Surjection(S, T) BY DEF Surjection
<1>2. IsFiniteSet(T) BY <1>1, FS_Surjection
<1>3. \A t \in T : IsFiniteSet(t) OBVIOUS
<1> QED BY <1>2, <1>3, FS_UNION

\* Few chunks have finitely many bytes, and so have few uploads.
LEMMA BytesFinite ==
  ASSUME NEW u \in UploadRecord, Small(u)
  PROVE  IsFiniteSet(Bytes(u))
<1> DEFINE f == [i \in Staged(u) |-> {i} \X (1..Size[u.part[i]])]
<1>1. ASSUME NEW i \in Staged(u) PROVE IsFiniteSet(f[i])
  <2>1. u.part[i] \in Chunks BY DEF Staged, UploadRecord
  <2>2. Size[u.part[i]] \in Nat BY <2>1, ChunkedAssumption
  <2>3. IsFiniteSet({i}) BY FS_Singleton
  <2>4. IsFiniteSet(1..Size[u.part[i]]) BY <2>2, FS_Interval
  <2> QED BY <2>3, <2>4, FS_Product
<1>2. IsFiniteSet(Staged(u)) BY DEF Small
<1>3. {f[i] : i \in Staged(u)} = {{i} \X (1..Size[u.part[i]]) : i \in Staged(u)}
  OBVIOUS
<1> HIDE DEF f
<1>4. IsFiniteSet(UNION {f[i] : i \in Staged(u)}) BY <1>1, <1>2, FiniteUnion
<1> QED BY <1>3, <1>4 DEF Bytes

LEMMA AllBytesFinite ==
  ASSUME NEW up \in [Keys -> UploadRecord], \A k \in Keys : Small(up[k]), Few(up)
  PROVE  IsFiniteSet(AllBytes(up))
<1> DEFINE f == [k \in Open(up) |-> {k} \X Bytes(up[k])]
<1>1. ASSUME NEW k \in Open(up) PROVE IsFiniteSet(f[k])
  <2>1. IsFiniteSet(Bytes(up[k])) BY BytesFinite DEF Open
  <2>2. IsFiniteSet({k}) BY FS_Singleton
  <2> QED BY <2>1, <2>2, FS_Product
<1>2. IsFiniteSet(Open(up)) BY DEF Few
<1>3. {f[k] : k \in Open(up)} = {{k} \X Bytes(up[k]) : k \in Open(up)} OBVIOUS
<1> HIDE DEF f
<1>4. IsFiniteSet(UNION {f[k] : k \in Open(up)}) BY <1>1, <1>2, FiniteUnion
<1> QED BY <1>3, <1>4 DEF AllBytes, Open

LEMMA InAllBytes ==
  ASSUME NEW up, NEW x
  PROVE  x \in AllBytes(up) <=>
           \E k \in Keys : up[k].open /\ \E b \in Bytes(up[k]) : x = <<k, b>>
BY DEF AllBytes

\* A set of bytes no greater than one within a bound is within it.
LEMMA WithinBound ==
  ASSUME NEW B, IsFiniteSet(B), NEW n \in Nat, Cardinality(B) <= n, NEW A \in SUBSET B
  PROVE  Cardinality(A) <= n
<1>1. IsFiniteSet(A) /\ Cardinality(A) <= Cardinality(B) BY FS_Subset
<1>2. Cardinality(A) \in Nat /\ Cardinality(B) \in Nat BY <1>1, FS_CardinalityType
<1> QED BY <1>1, <1>2

\* The measured bytes of all uploads.
AllMeasured == {x \in AllBytes(upload) : x[2] \in Measured(x[1])}

\* The inductive invariant.
BytesInv ==
    /\ unmeasured \in [Keys -> SUBSET Indices]
    /\ BytesHold

\* Where a step leaves no measured byte that was not there, the bounds stay.
LEMMA FewerBytes ==
  ASSUME StagingType, CapsInv, BytesInv, unmeasured' \in [Keys -> SUBSET Indices],
         \A k \in Keys : Measured(k)' \subseteq Measured(k),
         \A k \in Keys : Measured(k)' # {} /\ upload'[k].open => upload[k].open
  PROVE  BytesInv'
<1>1. upload \in [Keys -> UploadRecord] BY DEF StagingType, UploadRecord
<1>2. ASSUME NEW k \in Keys PROVE Cardinality(Measured(k)') <= MaxUpload
  <2>1. IsFiniteSet(Bytes(upload[k])) BY <1>1, BytesFinite DEF CapsInv
  <2>2. Measured(k) \subseteq Bytes(upload[k]) BY DEF Measured
  <2>3. IsFiniteSet(Measured(k)) BY <2>1, <2>2, FS_Subset
  <2>4. Cardinality(Measured(k)) <= MaxUpload BY DEF BytesInv, BytesHold
  <2> QED BY <2>3, <2>4, WithinBound, ChunkedAssumption
<1>3. Cardinality(AllMeasured') <= MaxStaged
  <2>1. AllMeasured' \subseteq AllMeasured
    <3> SUFFICES ASSUME NEW x \in AllMeasured' PROVE x \in AllMeasured OBVIOUS
    <3>1. x \in AllBytes(upload') /\ x[2] \in Measured(x[1])' BY DEF AllMeasured
    <3>2. PICK k \in Keys : upload'[k].open /\ \E b \in Bytes(upload'[k]) : x = <<k, b>>
      BY <3>1, InAllBytes
    <3>3. PICK b : x = <<k, b>> BY <3>2
    <3>4. b \in Measured(k) BY <3>1, <3>2, <3>3
    <3>5. upload[k].open BY <3>1, <3>2, <3>3
    <3>6. b \in Bytes(upload[k]) BY <3>4 DEF Measured
    <3>7. x \in AllBytes(upload) BY <3>3, <3>5, <3>6, InAllBytes
    <3> QED BY <3>3, <3>4, <3>7 DEF AllMeasured
  <2>2. IsFiniteSet(AllBytes(upload)) BY <1>1, AllBytesFinite DEF CapsInv
  <2>3. AllMeasured \subseteq AllBytes(upload) BY DEF AllMeasured
  <2>4. IsFiniteSet(AllMeasured) BY <2>2, <2>3, FS_Subset
  <2>5. Cardinality(AllMeasured) <= MaxStaged BY DEF BytesInv, BytesHold, AllMeasured
  <2> QED BY <2>1, <2>4, <2>5, WithinBound, ChunkedAssumption
<1> QED BY <1>2, <1>3 DEF BytesInv, BytesHold, AllMeasured

LEMMA ClosedHasNoBytes == Bytes(Closed) = {}
<1>1. Closed.part = Empty BY DEF Closed, Upload
<1>2. Staged(Closed) = {} BY <1>1 DEF Staged, Empty
<1> QED BY <1>2 DEF Bytes

LEMMA ByteOfChunk ==
  ASSUME NEW u, NEW x
  PROVE  x \in Bytes(u) <=> \E i \in Staged(u) : \E b \in 1..Size[u.part[i]] : x = <<i, b>>
BY DEF Bytes

\* What becomes of the keys in a call of client c.
LEMMA AfterReplaces ==
  ASSUME NEW c \in Clients, NEW u, NEW S, NEW M, Replaces(c, u, S), Measures(c, M)
  PROVE  /\ upload'[Key[c]] = u /\ unmeasured'[Key[c]] = M
         /\ \A k \in Keys \ {Key[c]} :
               /\ Live(k) => upload'[k] = upload[k] /\ unmeasured'[k] = unmeasured[k]
               /\ ~Live(k) => upload'[k] = Closed
<1>1. Key[c] \in Keys BY ChunkedAssumption
<1>2. upload' = [Pruned EXCEPT ![Key[c]] = u] BY DEF Replaces, With
<1>3. \A k \in Keys : upload'[k] = IF k = Key[c] THEN u ELSE Pruned[k]
  BY <1>1, <1>2 DEF Pruned
<1> QED BY <1>1, <1>3 DEF Measures, Pruned

\* A call that measures nothing adds no byte but those of its own chunk.
LEMMA UnmeasuredStep ==
  ASSUME StagingType, CapsInv, BytesInv, NEW c \in Clients, NEW u, NEW S,
         NEW M \in SUBSET Indices, Replaces(c, u, S), Measures(c, M),
         \A x \in Bytes(u) : x[1] \notin M => Live(Key[c]) /\ x \in Measured(Key[c])
  PROVE  BytesInv'
<1>1. Key[c] \in Keys BY ChunkedAssumption
<1>2. unmeasured' \in [Keys -> SUBSET Indices] BY DEF Measures, BytesInv
<1>3. ASSUME NEW k \in Keys
      PROVE  /\ Measured(k)' \subseteq Measured(k)
             /\ Measured(k)' # {} => upload[k].open
  <2>1. CASE k = Key[c]
    <3>1. upload'[k] = u /\ unmeasured'[k] = M BY <2>1, AfterReplaces
    <3>2. \A x \in Measured(k)' : x \in Bytes(u) /\ x[1] \notin M BY <3>1 DEF Measured
    <3>3. \A x \in Measured(k)' : x \in Measured(k) /\ Live(k) BY <2>1, <3>2
    <3> QED BY <3>3 DEF Live
  <2>2. CASE k # Key[c] /\ Live(k)
    <3>1. upload'[k] = upload[k] /\ unmeasured'[k] = unmeasured[k]
      BY <2>2, AfterReplaces
    <3> QED BY <2>2, <3>1 DEF Measured, Live
  <2>3. CASE k # Key[c] /\ ~Live(k)
    <3>1. upload'[k] = Closed BY <2>3, AfterReplaces
    <3>2. Measured(k)' = {} BY <3>1, ClosedHasNoBytes DEF Measured
    <3> QED BY <3>2
  <2> QED BY <2>1, <2>2, <2>3
<1> QED BY <1>2, <1>3, FewerBytes

\* A call that measures holds the upload and all of them to their bounds.
LEMMA MeasuringStep ==
  ASSUME StagingType, CapsInv, StagingType', CapsInv', BytesInv, NEW c \in Clients,
         NEW u, NEW S, Replaces(c, u, S), Measures(c, {}),
         ~(SizeOf(u) > MaxUpload), ~(TotalSize(With(c, u)) > MaxStaged)
  PROVE  BytesInv'
<1>1. Key[c] \in Keys BY ChunkedAssumption
<1>2. unmeasured' \in [Keys -> SUBSET Indices] BY DEF Measures, BytesInv
<1>3. upload' \in [Keys -> UploadRecord] /\ \A k \in Keys : Small(upload'[k])
  BY DEF StagingType, UploadRecord, CapsInv, Small, Staged
<1>4. Few(upload') BY DEF CapsInv, Few, Open
<1>5. IsFiniteSet(AllBytes(upload')) BY <1>3, <1>4, AllBytesFinite
<1>6. upload \in [Keys -> UploadRecord] BY DEF StagingType, UploadRecord
<1>7. ASSUME NEW k \in Keys PROVE Cardinality(Measured(k)') <= MaxUpload
  <2>1. IsFiniteSet(Bytes(upload'[k])) BY <1>3, BytesFinite
  <2>2. Measured(k)' \subseteq Bytes(upload'[k]) BY DEF Measured
  <2>3. CASE k = Key[c]
    <3>1. Cardinality(Bytes(upload'[k])) = SizeOf(u)
      BY <2>3, AfterReplaces DEF SizeOf
    <3>2. Cardinality(Bytes(upload'[k])) \in Nat BY <2>1, FS_CardinalityType
    <3>3. Cardinality(Bytes(upload'[k])) <= MaxUpload BY <3>1, <3>2, ChunkedAssumption
    <3> QED BY <2>1, <2>2, <3>3, WithinBound, ChunkedAssumption
  <2>4. CASE k # Key[c] /\ Live(k)
    <3>1. upload'[k] = upload[k] /\ unmeasured'[k] = unmeasured[k]
      BY <2>4, AfterReplaces
    <3>2. Measured(k)' = Measured(k) BY <3>1 DEF Measured
    <3> QED BY <3>2 DEF BytesInv, BytesHold
  <2>5. CASE k # Key[c] /\ ~Live(k)
    <3>1. upload'[k] = Closed BY <2>5, AfterReplaces
    <3>2. Measured(k)' = {} BY <3>1, ClosedHasNoBytes DEF Measured
    <3> QED BY <3>2, FS_EmptySet, ChunkedAssumption
  <2> QED BY <2>3, <2>4, <2>5
<1>8. Cardinality(AllMeasured') <= MaxStaged
  <2>1. AllMeasured' \subseteq AllBytes(upload') BY DEF AllMeasured
  <2>2. upload' = With(c, u) BY DEF Replaces
  <2>3. Cardinality(AllBytes(upload')) = TotalSize(With(c, u)) BY <2>2 DEF TotalSize
  <2>4. Cardinality(AllBytes(upload')) \in Nat BY <1>5, FS_CardinalityType
  <2>5. Cardinality(AllBytes(upload')) <= MaxStaged BY <2>3, <2>4, ChunkedAssumption
  <2> QED BY <1>5, <2>1, <2>5, WithinBound, ChunkedAssumption
<1> QED BY <1>2, <1>7, <1>8 DEF BytesInv, BytesHold, AllMeasured

\* A new entry has no bytes; the other entries are what is staged.
LEMMA EntryBytes ==
  ASSUME NEW c \in Clients, NEW x \in Bytes(Entry(c)), x[1] \notin Unmeasured(c)
  PROVE  Live(Key[c]) /\ x \in Measured(Key[c])
<1>1. CASE Live(Key[c]) BY <1>1 DEF Entry, Unmeasured, Measured
<1>2. CASE ~Live(Key[c])
  <2>1. Entry(c).part = Empty BY <1>2 DEF Entry, Upload
  <2>2. Staged(Entry(c)) = {} BY <2>1 DEF Staged, Empty
  <2> QED BY <2>2 DEF Bytes
<1> QED BY <1>1, <1>2

\* Storing a chunk adds its bytes only.
LEMMA StoredBytes ==
  ASSUME StagingType, NEW c \in Clients, NEW i \in Indices, i < Len(Doc[c]),
         Accepts(c, i), NEW x \in Bytes(Stored(c, i)),
         x[1] \notin {i} \ Staged(Entry(c))
  PROVE  x \in Bytes(Entry(c))
<1> DEFINE u == Stored(c, i)
           e == Entry(c)
<1>1. PICK j \in Staged(u) : \E b \in 1..Size[u.part[j]] : x = <<j, b>> BY ByteOfChunk
<1>2. e.part \in [Indices -> Chunks \cup {Nothing}] BY EntryType DEF UploadRecord
<1>3. u.part = [e.part EXCEPT ![i] = Doc[c][i + 1]] BY DEF Stored, Upload
<1>4. x[1] = j /\ j \in Indices BY <1>1 DEF Staged
<1>5. j = i => i \in Staged(e) BY <1>4
<1>6. j = i => e.part[i] = Doc[c][i + 1] BY <1>5 DEF Accepts, Staged
<1>7. u.part[j] = e.part[j] BY <1>2, <1>3, <1>4, <1>6
<1>8. j \in Staged(e) BY <1>1, <1>7 DEF Staged
<1> HIDE DEF u, e
<1>9. \E k \in Staged(e) : \E b \in 1..Size[e.part[k]] : x = <<k, b>> BY <1>1, <1>7, <1>8
<1> QED BY <1>9, ByteOfChunk DEF e

LEMMA BytesInitially == Init => BytesInv
<1> SUFFICES ASSUME Init PROVE BytesInv OBVIOUS
<1>1. unmeasured \in [Keys -> SUBSET Indices] BY DEF Init
<1>2. \A k \in Keys : upload[k] = Closed BY DEF Init
<1>3. \A k \in Keys : Measured(k) = {} BY <1>2, ClosedHasNoBytes DEF Measured
<1>4. AllMeasured = {} BY <1>2, ClosedIsSmall, InAllBytes DEF AllMeasured
<1>5. Cardinality({}) = 0 /\ 0 <= MaxUpload /\ 0 <= MaxStaged
  BY FS_EmptySet, ChunkedAssumption
<1>6. \A k \in Keys : Cardinality(Measured(k)) <= MaxUpload BY <1>3, <1>5
<1>7. Cardinality(AllMeasured) <= MaxStaged BY <1>4, <1>5
<1> QED BY <1>1, <1>6, <1>7 DEF BytesInv, BytesHold, AllMeasured

LEMMA BytesInductive ==
  StagingType /\ StagingType' /\ CapsInv /\ CapsInv' /\ BytesInv /\ [Next]_vars => BytesInv'
<1> SUFFICES ASSUME StagingType, StagingType', CapsInv, CapsInv', BytesInv, [Next]_vars
             PROVE  BytesInv'
  OBVIOUS
<1>0. unmeasured \in [Keys -> SUBSET Indices] BY DEF BytesInv
<1>1. ASSUME NEW c \in Clients, RefuseFull(c) PROVE BytesInv'
  <2>1. unmeasured' \in [Keys -> SUBSET Indices] BY <1>0, <1>1 DEF RefuseFull
  <2>2. ASSUME NEW k \in Keys
        PROVE  /\ Measured(k)' \subseteq Measured(k)
               /\ Measured(k)' # {} => upload[k].open
    <3>1. CASE Live(k)
      <4>1. upload'[k] = upload[k] /\ unmeasured'[k] = unmeasured[k]
        BY <1>1, <3>1 DEF RefuseFull, Pruned
      <4> QED BY <3>1, <4>1 DEF Measured, Live
    <3>2. CASE ~Live(k)
      <4>1. upload'[k] = Closed BY <1>1, <3>2 DEF RefuseFull, Pruned
      <4>2. Measured(k)' = {} BY <4>1, ClosedHasNoBytes DEF Measured
      <4> QED BY <4>2
    <3> QED BY <3>1, <3>2
  <2> QED BY <2>1, <2>2, FewerBytes
<1>2. \A c \in Clients : Unmeasured(c) \in SUBSET Indices
  BY <1>0, ChunkedAssumption DEF Unmeasured
<1>3. ASSUME NEW c \in Clients, NEW i \in Indices, RefuseChunk(c, i) PROVE BytesInv'
  <2>1. Replaces(c, Entry(c), {}) /\ Measures(c, Unmeasured(c)) BY <1>3 DEF RefuseChunk
  <2> QED BY <1>2, <2>1, EntryBytes, UnmeasuredStep
<1>4. ASSUME NEW c \in Clients, NEW i \in Indices, RefuseTotal(c, i) PROVE BytesInv'
  <2>1. PICK M : M = Unmeasured(c) \cup ({i} \ Staged(Entry(c))) OBVIOUS
  <2>2. /\ i < Len(Doc[c]) /\ Accepts(c, i)
        /\ Replaces(c, Stored(c, i), {}) /\ Measures(c, M)
    BY <1>4, <2>1 DEF RefuseTotal, Arrives
  <2>3. M \in SUBSET Indices BY <1>2, <2>1
  <2>4. ASSUME NEW x \in Bytes(Stored(c, i)), x[1] \notin M
        PROVE  Live(Key[c]) /\ x \in Measured(Key[c])
    <3>1. x \in Bytes(Entry(c)) BY <2>1, <2>2, <2>4, StoredBytes
    <3> QED BY <2>1, <2>4, <3>1, EntryBytes
  <2> QED BY <2>2, <2>3, <2>4, UnmeasuredStep
<1>5. ASSUME NEW c \in Clients, NEW i \in Indices, RefuseSize(c, i) \/ Finalize(c, i)
      PROVE  BytesInv'
  <2>1. Replaces(c, Closed, {}) /\ Measures(c, {}) BY <1>5 DEF RefuseSize, Finalize
  <2>2. {} \in SUBSET Indices OBVIOUS
  <2> QED BY <2>1, <2>2, ClosedHasNoBytes, UnmeasuredStep
<1>6. ASSUME NEW c \in Clients, NEW i \in Indices, Stage(c, i) \/ FinalizeFails(c, i)
      PROVE  BytesInv'
  <2>1. PICK S : Replaces(c, Touched(c, i), S) BY <1>6 DEF Stage, FinalizeFails
  <2>2. Measures(c, {}) /\ ~TooLarge(c, i)
    BY <1>6 DEF Stage, FinalizeFails, Passes
  <2> QED BY <2>1, <2>2, MeasuringStep DEF TooLarge
<1>7. CASE Tick \/ UNCHANGED vars
  <2>1. UNCHANGED <<upload, unmeasured>> BY <1>7 DEF Tick, vars
  <2>2. \A k \in Keys : Measured(k)' = Measured(k) BY <2>1 DEF Measured
  <2>3. unmeasured' \in [Keys -> SUBSET Indices] BY <1>0, <2>1
  <2> QED BY <2>1, <2>2, <2>3, FewerBytes
<1>8. CASE Restart
  <2>1. unmeasured' \in [Keys -> SUBSET Indices] BY <1>8 DEF Restart
  <2>2. \A k \in Keys : upload'[k] = Closed BY <1>8 DEF Restart
  <2>3. \A k \in Keys : Measured(k)' = {} BY <2>2, ClosedHasNoBytes DEF Measured
  <2> QED BY <2>1, <2>3, FewerBytes
<1> QED BY <1>1, <1>3, <1>4, <1>5, <1>6, <1>7, <1>8 DEF Next

\* For all clients, documents and limits: no sequence of calls, refused ones too,
\* gets more uploads or more chunks staged than their caps allow.
THEOREM CapsAreKept == Spec => []CapsHold
<1>1. CapsInv => CapsHold BY DEF CapsInv, Few, Open, Small, CapsHold
<1>2. Inv => StagingType BY DEF Inv
<1> QED BY <1>1, <1>2, Initially, Inductive, CapsInitially, CapsInductive, PTL DEF Spec

\* For all of them: what reaches a file is made of chunks, without a gap, also when no
\* client has declared a total; and every variable keeps its type.
THEOREM TypeCorrect == Spec => []TypeOK
<1>1. Inv => StagingType BY DEF Inv
<1>2. Init => FilesType BY DEF Init, FilesType
<1>3. StagingType /\ FilesType /\ BytesInv => TypeOK BY DEF TypeOK, FilesType, BytesInv
<1> QED
  BY <1>1, <1>2, <1>3, Initially, Inductive, CapsInitially, CapsInductive,
     FilesInductive, BytesInitially, BytesInductive, PTL DEF Spec

\* For all of them, whatever the sizes: the bytes that an upload and the process hold
\* stay within their caps, but for chunks that a call refused for its total has left.
THEOREM BytesAreBounded == Spec => []BytesHold
<1>1. Inv => StagingType BY DEF Inv
<1>2. BytesInv => BytesHold BY DEF BytesInv
<1> QED
  BY <1>1, <1>2, Initially, Inductive, CapsInitially, CapsInductive, BytesInitially,
     BytesInductive, PTL DEF Spec
=============================================================================
