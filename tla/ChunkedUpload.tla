--------------------------- MODULE ChunkedUpload ---------------------------
(***************************************************************************)
(* The MCP tool chunked_write (app/mcp_tools/files.py): a document that is *)
(* too large for one call is staged chunk by chunk in the memory of the    *)
(* process, under a key made of the user and the upload_id, and written    *)
(* when a call says "finalize".                                            *)
(*                                                                         *)
(* Each call runs to its end without an await.  What is concurrent are the *)
(* clients: nothing reserves a key (it defaults to path and mode), calls   *)
(* are repeated when an answer is lost, arrive out of order, and continue  *)
(* after the upload they belong to has expired or the server restarted.    *)
(* So any client may send any chunk of its document at any time.           *)
(***************************************************************************)
EXTENDS Naturals, Sequences, FiniteSets

CONSTANTS
    Clients,    \* uploads that clients want to make
    Keys,       \* user:upload_id
    Paths,      \* Markdown paths
    Key,        \* Key[c]: the key client c uses
    Path,       \* Path[c]: the file it writes
    Mode,       \* Mode[c]: "replace" or "append"
    Doc,        \* Doc[c]: its document, a sequence of chunks
    Declares,   \* the clients that send total_chunks with every call
    Checks,     \* the clients that finalize with expected_sha256
    Chunks,     \* contents of one chunk
    Size,       \* Size[x]: bytes of chunk x
    Nothing,    \* no chunk
    MaxUploads, \* KIWIKI_MCP_MAX_STAGED_UPLOADS
    MaxChunks,  \* KIWIKI_MCP_MAX_UPLOAD_CHUNKS
    MaxUpload,  \* KIWIKI_MCP_MAX_UPLOAD_BYTES
    MaxStaged,  \* KIWIKI_MCP_MAX_STAGED_BYTES
    TTL,        \* KIWIKI_MCP_UPLOAD_TTL_SECONDS
    MaxTime,    \* bound: time that passes in a behaviour
    MaxFile     \* bound: chunks in a file that appends make grow

Modes == {"replace", "append"}

ASSUME ChunkedAssumption ==
    /\ Paths # {}
    /\ Key \in [Clients -> Keys] /\ Path \in [Clients -> Paths]
    /\ Mode \in [Clients -> Modes]
    /\ Doc \in [Clients -> Seq(Chunks)] /\ \A c \in Clients : Doc[c] # <<>>
    /\ Declares \subseteq Clients /\ Checks \subseteq Clients
    /\ Nothing \notin Chunks /\ Size \in [Chunks -> Nat]
    /\ MaxUploads \in Nat \ {0} /\ MaxChunks \in Nat \ {0}
    /\ MaxUpload \in Nat /\ MaxStaged \in Nat
    /\ TTL \in Nat /\ MaxTime \in Nat /\ MaxFile \in Nat

VARIABLES
    upload, \* upload[k]: what is staged under key k
    clock,  \* the time
    file,   \* file[p]: content of a file, a sequence of chunks
    acked,  \* history: chunks acknowledged to a client since its upload opened
    unmeasured \* history: unmeasured[k]: chunks that a refused call has stored under
            \* key k, the size of the upload not having been looked at since

vars == <<upload, clock, file, acked, unmeasured>>

\* Chunks are counted from 0; a total of 0 means that none was declared.
Indices == UNION {0..(Len(Doc[c]) - 1) : c \in Clients}
Totals  == {0} \cup {Len(Doc[c]) : c \in Clients}
Empty   == [i \in Indices |-> Nothing]

Upload(open, path, mode, part, total, at) ==
    [open |-> open, path |-> path, mode |-> mode, part |-> part,
     total |-> total, at |-> at]
Closed == Upload(FALSE, CHOOSE p \in Paths : TRUE, "replace", Empty, 0, 0)

StagingType ==
    /\ upload \in [Keys -> [open : BOOLEAN, path : Paths, mode : Modes,
                            part : [Indices -> Chunks \cup {Nothing}],
                            total : Totals, at : 0..MaxTime]]
    /\ clock \in 0..MaxTime
    /\ acked \in [Clients -> SUBSET Indices]

TypeOK ==
    /\ StagingType
    /\ unmeasured \in [Keys -> SUBSET Indices] /\ file \in [Paths -> Seq(Chunks)]

Init ==
    /\ upload = [k \in Keys |-> Closed]
    /\ clock = 0
    /\ file = [p \in Paths |-> <<>>]
    /\ acked = [c \in Clients |-> {}]
    /\ unmeasured = [k \in Keys |-> {}]

-----------------------------------------------------------------------------
(* The parts of _stage_chunked_write.                                       *)

Staged(u) == {i \in Indices : u.part[i] # Nothing}

\* _prune_chunked_writes, at the start of every call.
Live(k) == upload[k].open /\ clock - upload[k].at <= TTL

Pruned == [k \in Keys |-> IF Live(k) THEN upload[k] ELSE Closed]

Full(c) ==
    /\ ~Live(Key[c])
    /\ Cardinality({k \in Keys : Live(k)}) >= MaxUploads

Total(c) == IF c \in Declares THEN Len(Doc[c]) ELSE 0

\* The entry of the key, made now if there is none (setdefault).
Entry(c) ==
    IF Live(Key[c]) THEN upload[Key[c]]
    ELSE Upload(TRUE, Path[c], Mode[c], Empty, Total(c), clock)

\* The upload may take chunk i of client c.
Accepts(c, i) ==
    LET u == Entry(c)
    IN  /\ u.path = Path[c] /\ u.mode = Mode[c]
        /\ i \in Staged(u) \/ Cardinality(Staged(u)) < MaxChunks
        /\ u.part[i] \in {Nothing, Doc[c][i + 1]}

TotalChanged(c) ==
    /\ c \in Declares
    /\ Entry(c).total \notin {0, Total(c)}

\* The chunk is stored first, then the total and the time of the upload.
Stored(c, i) ==
    LET u == Entry(c)
    IN  Upload(TRUE, u.path, u.mode, [u.part EXCEPT ![i] = Doc[c][i + 1]],
               u.total, u.at)

\* Mutant: the time of expiry is recorded, and the TTL added again by the pruning.
TouchedExpiry(c, i) ==
    LET u == Stored(c, i)
    IN  Upload(TRUE, u.path, u.mode, u.part,
               IF c \in Declares THEN Total(c) ELSE u.total, clock + TTL)

Touched(c, i) ==
    LET u == Stored(c, i)
    IN  Upload(TRUE, u.path, u.mode, u.part,
               IF c \in Declares THEN Total(c) ELSE u.total, clock)

\* The bytes of an upload, each with the chunk it belongs to.
Bytes(u)  == UNION {{i} \X (1..Size[u.part[i]]) : i \in Staged(u)}
SizeOf(u) == Cardinality(Bytes(u))

\* Those staged under all keys, each with its key.
AllBytes(up)  == UNION {{k} \X Bytes(up[k]) : k \in {k \in Keys : up[k].open}}
TotalSize(up) == Cardinality(AllBytes(up))

With(c, u) == [Pruned EXCEPT ![Key[c]] = u]

\* Mutant: the size is looked at before the chunk is stored.
TooLargeBefore(c, i) ==
    \/ SizeOf(Entry(c)) > MaxUpload
    \/ TotalSize(With(c, Entry(c))) > MaxStaged

TooLarge(c, i) ==
    \/ SizeOf(Touched(c, i)) > MaxUpload
    \/ TotalSize(With(c, Touched(c, i))) > MaxStaged

\* Chunks a finalize call expects; without a declared total up to the last one.
Expected(u) ==
    IF u.total # 0 THEN u.total
    ELSE 1 + CHOOSE i \in Staged(u) : \A j \in Staged(u) : j <= i

Missing(u) == {i \in 0..(Expected(u) - 1) : i \notin Staged(u)}

Content(u) == [n \in 1..Expected(u) |-> u.part[n - 1]]

DigestMatches(c, u) == c \in Checks => Content(u) = Doc[c]

-----------------------------------------------------------------------------
(* The outcomes of a call of client c with chunk i.                         *)

\* The key of c now holds u; S are the chunks the answer acknowledges.
Replaces(c, u, S) ==
    /\ upload' = With(c, u)
    /\ acked' = [d \in Clients |->
                    (IF Live(Key[d]) /\ (Key[d] = Key[c] => u.open)
                     THEN acked[d] ELSE {})
                      \cup (IF d = c THEN S ELSE {})]
    /\ UNCHANGED clock

\* The chunks of M are those of the key of c that no call has measured.
Measures(c, M) ==
    unmeasured' = [k \in Keys |-> IF k = Key[c] THEN M
                                  ELSE IF Live(k) THEN unmeasured[k] ELSE {}]

Unmeasured(c) == IF Live(Key[c]) THEN unmeasured[Key[c]] ELSE {}

Arrives(c, i) == i < Len(Doc[c]) /\ ~Full(c)

\* Stores the chunk and passes the checks of total and size.
Passes(c, i) ==
    /\ Arrives(c, i)
    /\ Accepts(c, i)
    /\ ~TotalChanged(c)
    /\ ~TooLarge(c, i)

\* MAX_STAGED_UPLOADS is reached: only the pruning takes effect.
RefuseFull(c) ==
    /\ Full(c)
    /\ upload' = Pruned
    /\ acked' = [d \in Clients |-> IF Live(Key[d]) THEN acked[d] ELSE {}]
    /\ unmeasured' = [k \in Keys |-> IF Live(k) THEN unmeasured[k] ELSE {}]
    /\ UNCHANGED <<clock, file>>

\* Another path or mode, too many chunks, or a chunk that differs.
RefuseChunk(c, i) ==
    /\ Arrives(c, i)
    /\ ~Accepts(c, i)
    /\ Replaces(c, Entry(c), {}) /\ Measures(c, Unmeasured(c))
    /\ UNCHANGED file

\* The chunk stays, without its size being looked at.
RefuseTotal(c, i) ==
    /\ Arrives(c, i)
    /\ Accepts(c, i) /\ TotalChanged(c)
    /\ Replaces(c, Stored(c, i), {})
    /\ Measures(c, Unmeasured(c) \cup ({i} \ Staged(Entry(c))))
    /\ UNCHANGED file

\* The whole upload is discarded.
RefuseSize(c, i) ==
    /\ Arrives(c, i)
    /\ Accepts(c, i) /\ ~TotalChanged(c)
    /\ TooLarge(c, i)
    /\ Replaces(c, Closed, {}) /\ Measures(c, {})
    /\ UNCHANGED file

\* Mutant: a chunk sent again replaces the one that was there.
StageOverwrites(c, i) ==
    /\ Arrives(c, i)
    /\ Entry(c).path = Path[c] /\ Entry(c).mode = Mode[c]
    /\ ~TotalChanged(c) /\ ~TooLarge(c, i)
    /\ Replaces(c, Touched(c, i), {i}) /\ Measures(c, {})
    /\ UNCHANGED file

\* Mutant: the cap on the number of chunks is not looked at.
StageUncapped(c, i) ==
    /\ Arrives(c, i)
    /\ Entry(c).path = Path[c] /\ Entry(c).mode = Mode[c]
    /\ Entry(c).part[i] \in {Nothing, Doc[c][i + 1]}
    /\ ~TotalChanged(c) /\ ~TooLarge(c, i)
    /\ Replaces(c, Touched(c, i), {i}) /\ Measures(c, {})
    /\ UNCHANGED file

\* "staged", or "missing_chunks" when the call says finalize.
Stage(c, i) ==
    /\ Passes(c, i)
    /\ Replaces(c, Touched(c, i), {i}) /\ Measures(c, {})
    /\ UNCHANGED file

\* finalize with a wrong digest, or the write raises (quota, no such file):
\* an error, and the chunks stay.
FinalizeFails(c, i) ==
    /\ Passes(c, i)
    /\ Missing(Touched(c, i)) = {}
    /\ Replaces(c, Touched(c, i), {}) /\ Measures(c, {})
    /\ UNCHANGED file

\* finalize: _write_markdown_content, then the entry is removed.
Finalize(c, i) ==
    LET u == Touched(c, i)
    IN  /\ Passes(c, i)
        /\ Missing(u) = {}
        /\ DigestMatches(c, u)
        /\ file' = [file EXCEPT ![Path[c]] =
                      IF Mode[c] = "append" THEN file[Path[c]] \o Content(u)
                      ELSE Content(u)]
        /\ Len(file'[Path[c]]) <= MaxFile
        /\ Replaces(c, Closed, {}) /\ Measures(c, {})

Tick ==
    /\ clock < MaxTime
    /\ clock' = clock + 1
    /\ UNCHANGED <<upload, file, acked, unmeasured>>

\* The process ends; what was staged is lost.
Restart ==
    /\ \E k \in Keys : upload[k].open
    /\ upload' = [k \in Keys |-> Closed]
    /\ acked' = [c \in Clients |-> {}]
    /\ unmeasured' = [k \in Keys |-> {}]
    /\ UNCHANGED <<clock, file>>

Next ==
    \/ \E c \in Clients : RefuseFull(c)
    \/ \E c \in Clients, i \in Indices :
          \/ RefuseChunk(c, i) \/ RefuseTotal(c, i) \/ RefuseSize(c, i)
          \/ Stage(c, i) \/ FinalizeFails(c, i) \/ Finalize(c, i)
    \/ Tick \/ Restart

Spec == Init /\ [][Next]_vars

-----------------------------------------------------------------------------
(* Correctness.                                                             *)

\* What an answer acknowledged stays staged, for the same file, until the
\* upload is written, refused as a whole, expired or lost: no call of another
\* client with the same upload_id, and no repeated call, changes it.
AckedIsStaged ==
    \A c \in Clients : \A i \in acked[c] :
        LET u == upload[Key[c]]
        IN  /\ u.open
            /\ u.path = Path[c] /\ u.mode = Mode[c]
            /\ i < Len(Doc[c]) /\ u.part[i] = Doc[c][i + 1]

\* A client whose other chunks have all been acknowledged by the present upload,
\* and that declares their number, writes exactly its document, whoever else
\* used the upload_id and however often calls were repeated, also without a
\* digest.  (Without a declared total another client's smaller one is used.)
WritesWhatWasAcked ==
    [][\A c \in Declares, i \in Indices :
          /\ 0..(Len(Doc[c]) - 1) \subseteq acked[c] \cup {i}
          /\ Live(Key[c])
          /\ Finalize(c, i)
          => file'[Path[c]] = IF Mode[c] = "append" THEN file[Path[c]] \o Doc[c]
                              ELSE Doc[c]]_vars

\* The number of uploads and the number of chunks of each stay within their caps,
\* after every sequence of refused calls too.
CapsHold ==
    /\ Cardinality({k \in Keys : upload[k].open}) <= MaxUploads
    /\ \A k \in Keys : Cardinality(Staged(upload[k])) <= MaxChunks

Measured(k) == {x \in Bytes(upload[k]) : x[1] \notin unmeasured[k]}

\* The bytes of an upload and those of all uploads stay within their caps, but for
\* the chunks stored by calls that were refused for another total, until a later
\* call of the same upload measures them or discards it.
BytesHold ==
    /\ \A k \in Keys : Cardinality(Measured(k)) <= MaxUpload
    /\ Cardinality({x \in AllBytes(upload) : x[2] \in Measured(x[1])}) <= MaxStaged
=============================================================================
