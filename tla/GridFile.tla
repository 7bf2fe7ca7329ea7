------------------------------ MODULE GridFile ------------------------------
(***************************************************************************)
(* Files in GridFS (gridfs.c): writers that store a file as chunks and a   *)
(* file document, readers and removers, each a process of its own with a   *)
(* connection of its own.  A step is a request to the server, or a call    *)
(* that makes none.  Nothing looks at the result of inserting a chunk, of  *)
(* a removal or of mongo_cursor_next (201, 264, 277, 307, 396, 403, 686).  *)
(*                                                                         *)
(* Every file has one writer and an id of its own; the i-th byte written   *)
(* to it is the number i.  Buffers are smaller than 4 GB, so that the cast *)
(* to unsigned int at 198 keeps its value.                                 *)
(***************************************************************************)
EXTENDS Integers, FiniteSets, SequencesExt

CONSTANTS
  Files, Readers, Removers,
  NameOf,      \* the filename of each file
  ChunkSize,   \* DEFAULT_CHUNK_SIZE
  Sizes,       \* lengths of the buffers that are written, and of the reads
  MaxBytes,    \* bound: bytes of each file
  MaxReads,    \* bound: reads and seeks of a reader
  MaxFaults,   \* bound: faults in a behaviour
  NoDoc, NoData, NoFile

ASSUME ChunksAssumption == ChunkSize \in Nat \ {0} /\ Sizes \subseteq Nat
ASSUME FileBoundsAssumption ==
  MaxBytes \in [Files -> Nat] /\ MaxReads \in Nat /\ MaxFaults \in Nat
ASSUME ActorsAssumption ==
  /\ IsFiniteSet(Files) /\ DOMAIN NameOf = Files /\ NoDoc \notin Nat
  /\ NoFile \notin Files /\ NoData \notin Seq(Nat)
  /\ Files \cap Readers = {} /\ Files \cap Removers = {} /\ Readers \cap Removers = {}

VARIABLES
  chunks,   \* the chunks collection: the data of each file, by n
  docs,     \* the files collection: "length" of each file, or NoDoc
  writer,   \* the gridfile and the thread that writes each file
  reader,   \* the gridfile and the thread of each reader
  remover,
  broken,   \* the actors whose connection is broken
  faults,
  wrote,    \* history: how many bytes were written to each file
  lossy,    \* history: the files of which a chunk was lost
  touched,  \* history: the files a remover has found
  botched   \* history: those it could not remove altogether

server == <<chunks, docs>>
history == <<lossy, touched, botched>>
vars == <<server, writer, reader, remover, broken, faults, wrote, history>>

Actors == Files \cup Readers \cup Removers
Data == Seq(Nat)

\* "todo" are the chunks the present call has still to insert, "closing" says that
\* it goes on with gridfs_insert_file.
WriterRecord == [pc : {"new", "open", "chunks", "md5", "doc", "ended", "dead"},
                 todo : Seq(Data), closing : BOOLEAN, acked : BOOLEAN,
                 chunk_num : Nat, length : Nat, pending : Data,
                 res : {"none", "OK", "ERROR"}]

\* "crashed" and "cut" are undefined behaviour after a chunk that was not there,
\* and after a request that failed.  "from" is where the bytes asked for begin, "got"
\* is what the call has put into the buffer, or the stream; "cursor" is the
\* mongo_cursor of gridfile_read: the chunks of its reply, the next n the server
\* has for it, whether it is open there, and cursor->current.
CursorRecord == [batch : Seq(Data), next : Nat, open : BOOLEAN,
                 current : Data \cup {NoData}]
ReaderRecord == [pc : {"closed", "idle", "read", "write_file", "crashed", "cut"},
                 file : Files \cup {NoFile}, length : Nat, pos : Nat, from : Nat, size : Nat,
                 bytes_left : Nat, todo : Nat, got : Data, cursor : CursorRecord,
                 calls : 0..MaxReads]

RemoverRecord == [pc : {"idle", "doc", "chunks", "done", "crashed", "dead"},
                  todo : Seq(Files)]

TypeOK ==
  /\ DOMAIN chunks = Files
  /\ \A f \in Files : /\ DOMAIN chunks[f] \subseteq 0..MaxBytes[f]
                      /\ \A n \in DOMAIN chunks[f] : chunks[f][n] \in Data
  /\ docs \in [Files -> Nat \cup {NoDoc}]
  /\ writer \in [Files -> WriterRecord]
  /\ reader \in [Readers -> ReaderRecord]
  /\ \A r \in Readers : reader[r].pos <= reader[r].length
  /\ remover \in [Removers -> RemoverRecord]
  /\ broken \subseteq Actors /\ faults \in 0..MaxFaults
  /\ \A f \in Files : wrote[f] \in 0..MaxBytes[f]
  /\ lossy \subseteq Files /\ touched \subseteq Files /\ botched \subseteq touched

NoCursor == [batch |-> <<>>, next |-> 0, open |-> FALSE, current |-> NoData]

Init ==
  /\ chunks = [f \in Files |-> <<>>]
  /\ docs = [f \in Files |-> NoDoc]
  /\ \E acked \in BOOLEAN :
       writer = [f \in Files |-> [pc |-> "new", todo |-> <<>>, closing |-> FALSE,
                                 acked |-> acked, chunk_num |-> 0, length |-> 0,
                                 pending |-> <<>>, res |-> "none"]]
  /\ reader = [r \in Readers |->
                 [pc |-> "closed", file |-> NoFile, length |-> 0, pos |-> 0, from |-> 0, size |-> 0,
                  bytes_left |-> 0, todo |-> 0, got |-> <<>>, cursor |-> NoCursor,
                  calls |-> 0]]
  /\ remover = [x \in Removers |-> [pc |-> "idle", todo |-> <<>>]]
  /\ broken = {} /\ faults = 0
  /\ wrote = [f \in Files |-> 0]
  /\ lossy = {} /\ touched = {} /\ botched = {}

Fault == faults < MaxFaults /\ faults' = faults + 1

\* A request of an actor is done by the server, or it is refused or lost.
Arrives(a) == a \notin broken /\ UNCHANGED faults
IsLost(a) == (a \in broken /\ UNCHANGED faults) \/ (a \notin broken /\ Fault)

-----------------------------------------------------------------------------
(***************************************************************************)
(* Writers                                                                 *)
(***************************************************************************)

\* Mutant: the number is always rounded up by one.
NumChunksUp(length) == (length \div ChunkSize) + 1

NumChunks(length) ==
  (length \div ChunkSize) + (IF length % ChunkSize > 0 THEN 1 ELSE 0)

\* The next k bytes that are written to f.
NewBytes(f, k) == [i \in 1..k |-> wrote[f] + i]

Gets(f, k) == wrote[f] + k <= MaxBytes[f] /\ wrote' = [wrote EXCEPT ![f] = @ + k]

\* A call goes on with the chunks in todo, or else with what follows them.
Inserting(w, todo, closing) ==
  [w EXCEPT !.todo = todo, !.closing = closing,
            !.pc = IF todo # <<>> THEN "chunks" ELSE IF closing THEN "md5" ELSE "open"]

\* The loop of gridfs_store_buffer.
ChunksOf(data) ==
  [i \in {j \in 1..Len(data) : (j - 1) * ChunkSize < Len(data)} |->
     SubSeq(data, (i - 1) * ChunkSize + 1,
            IF i * ChunkSize < Len(data) THEN i * ChunkSize ELSE Len(data))]

StoreBuffer(f, k) ==
  /\ writer[f].pc = "new" /\ Gets(f, k)
  /\ writer' = [writer EXCEPT ![f] = Inserting(@, ChunksOf(NewBytes(f, k)), TRUE)]
  /\ UNCHANGED <<server, reader, remover, broken, faults, history>>

\* gridfs_store_file reads ahead; of an empty file it makes an empty chunk.
StoreFile(f, k) ==
  /\ writer[f].pc = "new" /\ Gets(f, k)
  /\ writer' = [writer EXCEPT ![f] =
       Inserting(@, IF k = 0 THEN <<<<>>>> ELSE ChunksOf(NewBytes(f, k)), TRUE)]
  /\ UNCHANGED <<server, reader, remover, broken, faults, history>>

WriterInit(f) ==
  /\ writer[f].pc = "new"
  /\ writer' = [writer EXCEPT ![f].pc = "open"]
  /\ UNCHANGED <<server, reader, remover, broken, faults, wrote, history>>

\* data_partial_len, the bytes that complete the pending chunk.
PartialLen(pending) == IF pending = <<>> THEN 0 ELSE ChunkSize - Len(pending)

\* Mutant: data is not moved on by data_partial_len.
OffsetUnmoved(partial, i) == i * ChunkSize

\* Where the chunk after i whole ones begins in data.
Offset(partial, i) == partial + i * ChunkSize

\* gridfile_write_buffer: what goes into chunks and what stays pending.
Split(pending, data) ==
  LET to_write == Len(data) + Len(pending)
      partial == PartialLen(pending)
      first == IF pending = <<>> THEN <<>> ELSE <<pending \o SubSeq(data, 1, partial)>>
      count == (to_write \div ChunkSize) - Len(first)
      At(i) == Offset(partial, i)
  IN  IF to_write < ChunkSize
      THEN [todo |-> <<>>, pending |-> pending \o data]
      ELSE [todo |-> first \o [i \in 1..count |-> SubSeq(data, At(i - 1) + 1, At(i))],
            pending |-> SubSeq(data, At(count) + 1, At(count) + (to_write % ChunkSize))]

WriteBuffer(f, k) ==
  LET split == Split(writer[f].pending, NewBytes(f, k))
  IN  /\ writer[f].pc = "open" /\ Gets(f, k)
      /\ writer' = [writer EXCEPT ![f] =
           Inserting([@ EXCEPT !.pending = split.pending], split.todo, FALSE)]
      /\ UNCHANGED <<server, reader, remover, broken, faults, history>>

\* Mutant: the pending bytes are freed, not written.
LastPieceDropped(pending) == <<>>

LastPiece(pending) == IF pending = <<>> THEN <<>> ELSE <<pending>>

WriterDone(f) ==
  LET pending == writer[f].pending
  IN  /\ writer[f].pc = "open"
      /\ writer' = [writer EXCEPT ![f] =
           Inserting([@ EXCEPT !.pending = <<>>],
                     LastPiece(pending), TRUE)]
      /\ UNCHANGED <<server, reader, remover, broken, faults, wrote, history>>

\* Mutant: every chunk counts as a whole one.
CountedWhole(w) == [w EXCEPT !.chunk_num = @ + 1, !.length = @ + ChunkSize]

\* Mutant: chunk_num++ is forgotten.
ChunkNumKept(w) == [w EXCEPT !.length = @ + Len(Head(w.todo))]

Counted(w) == [w EXCEPT !.chunk_num = @ + 1, !.length = @ + Len(Head(w.todo))]

InsertChunk(f) ==
  LET w == writer[f]
  IN  /\ w.pc = "chunks"
      /\ writer' = [writer EXCEPT ![f] = Inserting(Counted(w), Tail(w.todo), w.closing)]
      /\ \/ /\ Arrives(f) /\ UNCHANGED lossy
            /\ chunks' = [chunks EXCEPT ![f] =
                 [n \in DOMAIN @ \cup {w.chunk_num} |->
                    IF n = w.chunk_num THEN Head(w.todo) ELSE @[n]]]
         \/ IsLost(f) /\ lossy' = lossy \cup {f} /\ UNCHANGED chunks
      /\ UNCHANGED <<docs, reader, remover, broken, wrote, touched, botched>>

\* filemd5 (external) wants the chunks 0, 1, 2, ... of a file.
Consecutive(f) == DOMAIN chunks[f] = 0..(Cardinality(DOMAIN chunks[f]) - 1)

Ended(f, res) == writer' = [writer EXCEPT ![f].pc = "ended", ![f].res = res]

\* gridfs_insert_file: the command filemd5 ...
RunMd5(f) ==
  /\ writer[f].pc = "md5"
  /\ \/ /\ Arrives(f) /\ Consecutive(f)
        /\ writer' = [writer EXCEPT ![f].pc = "doc"]
     \/ Arrives(f) /\ ~Consecutive(f) /\ Ended(f, "ERROR")
     \/ IsLost(f) /\ Ended(f, "ERROR")
  /\ UNCHANGED <<server, reader, remover, broken, wrote, history>>

\* ... and the file document.  Without a write concern only a failed send shows.
InsertDoc(f) ==
  LET w == writer[f]
  IN  /\ w.pc = "doc"
      /\ \/ /\ Arrives(f) /\ Ended(f, "OK")
            /\ docs' = [docs EXCEPT ![f] = w.length]
         \/ /\ w.acked /\ f \notin broken /\ Fault /\ Ended(f, "ERROR")
            /\ docs' = [docs EXCEPT ![f] = w.length]
         \/ /\ IsLost(f) /\ UNCHANGED docs
            /\ \E res \in {"OK", "ERROR"} : (w.acked => res = "ERROR") /\ Ended(f, res)
      /\ UNCHANGED <<chunks, reader, remover, broken, wrote, history>>

\* gridfs_store_file cannot open its input; nothing is sent.
StoreFileFails(f) ==
  /\ writer[f].pc = "new" /\ Ended(f, "ERROR")
  /\ UNCHANGED <<server, reader, remover, broken, faults, wrote, history>>

-----------------------------------------------------------------------------
(***************************************************************************)
(* Readers                                                                 *)
(***************************************************************************)

\* gridfs_find_query, with a query that selects one file.
Open(r, f) ==
  /\ reader[r].pc = "closed" /\ r \notin broken /\ docs[f] # NoDoc
  /\ reader' = [reader EXCEPT ![r].pc = "idle", ![r].file = f, ![r].length = docs[f]]
  /\ UNCHANGED <<server, writer, remover, broken, faults, wrote, history>>

\* Mutant: the offset may lie behind the end.
SeekAnywhere(g, offset) == offset

SeekTo(g, offset) == IF g.length < offset THEN g.length ELSE offset

CanCall(r) == reader[r].pc = "idle" /\ reader[r].calls < MaxReads

Seek(r, offset) ==
  /\ CanCall(r) /\ offset # reader[r].pos
  /\ reader' = [reader EXCEPT ![r].pos = SeekTo(reader[r], offset),
                              ![r].from = 0, ![r].size = 0, ![r].got = <<>>,
                              ![r].calls = @ + 1]
  /\ UNCHANGED <<server, writer, remover, broken, faults, wrote, history>>

\* Mutant: the end of the read is not the last byte read.
LastChunkEnd(pos, size) == (pos + size) \div ChunkSize

\* pos + size - 1 is unsigned: of nothing at the beginning the last chunk is -1.
LastChunk(pos, size) ==
  IF pos + size = 0 THEN -1 ELSE (pos + size - 1) \div ChunkSize

\* The numbers of a finite set in order: the i-th has i of them up to it.
Ascending(S) ==
  [i \in 1..Cardinality(S) |-> CHOOSE n \in S : Cardinality({m \in S : m <= n}) = i]

\* What the server answers a cursor that has reached the chunk n of f and may
\* return "want" more: as many as fit into a message, in order.  It knows that a
\* cursor is at its end when there was room for another chunk.
Batches(f, n, want, exact) ==
  LET ns == Ascending({m \in DOMAIN chunks[f] : IF exact THEN m = n ELSE m >= n})
      most == IF Len(ns) < want THEN Len(ns) ELSE want
      Cut(k, more) == [batch |-> [i \in 1..k |-> chunks[f][ns[i]]], open |-> more,
                       next |-> IF k = 0 THEN n ELSE ns[k] + 1, current |-> NoData]
  IN  IF most = 0 THEN {Cut(0, FALSE)}
      ELSE {Cut(k, TRUE) : k \in 1..most} \cup {Cut(most, FALSE)}

Returns(g) == [g EXCEPT !.pc = "idle", !.bytes_left = 0, !.todo = 0, !.cursor = NoCursor]

ReadSize(g, size) == IF g.length - g.pos < size THEN g.length - g.pos ELSE size

\* gridfile_read up to gridfile_get_chunks, which asks for one chunk by its number
\* and for several from the first on; a read of nothing asks too, and takes none of
\* what comes.  If mongo_find fails it returns NULL, which mongo_cursor_next does not
\* expect.
Read(r, asked) ==
  LET g == reader[r]
      size == ReadSize(g, asked)
      first == g.pos \div ChunkSize
      total == LastChunk(g.pos, size) - first + 1
      called == [g EXCEPT !.pc = "read", !.from = g.pos, !.size = size, !.todo = total,
                          !.bytes_left = size, !.got = <<>>, !.calls = @ + 1]
  IN  /\ CanCall(r)
      /\ \/ /\ total <= 0 /\ (Arrives(r) \/ IsLost(r))
            /\ reader' = [reader EXCEPT ![r] = Returns(called)]
         \/ /\ total > 0 /\ Arrives(r)
            /\ \E c \in Batches(g.file, first, total, total = 1) :
                 reader' = [reader EXCEPT ![r] = [called EXCEPT !.cursor = c]]
         \/ /\ total > 0 /\ IsLost(r)
            /\ reader' = [reader EXCEPT ![r].pc = "cut"]
      /\ UNCHANGED <<server, writer, remover, broken, wrote, history>>

\* The chunk is copied into the buffer; the first one from where the read begins.
\* An offset behind the end of the chunk makes its length wrap around.
Copied(g, c, data) ==
  LET skip == IF g.cursor.current = NoData THEN g.pos % ChunkSize ELSE 0
      rest == SubSeq(data, skip + 1, Len(data))
      all == g.bytes_left > Len(rest)
      done == SubSeq(g.got, 1, g.size - g.bytes_left)
      after == [g EXCEPT !.cursor = [c EXCEPT !.current = data],
                         !.todo = @ - 1,
                         !.bytes_left = IF all THEN @ - Len(rest) ELSE @,
                         !.got = done \o IF all THEN rest ELSE SubSeq(rest, 1, g.bytes_left)]
  IN  CASE Len(data) < skip -> [g EXCEPT !.pc = "crashed"]
        [] Len(data) >= skip /\ g.todo > 1 -> after
        [] OTHER -> Returns([after EXCEPT !.pos = @ + g.size])

\* A round of the loop of gridfile_read.  mongo_cursor_next takes a chunk from the
\* reply or asks for more; what it returns is ignored: at the end of the cursor the
\* previous chunk is copied again, and without one a null pointer, or a cursor that
\* was freed, is followed.
NextChunk(r) ==
  LET g == reader[r]
      c == g.cursor
      Now(h) == reader' = [reader EXCEPT ![r] = h]
      Crashes == Now([g EXCEPT !.pc = "crashed"])
      Takes(d) == Now(Copied(g, [d EXCEPT !.batch = Tail(@)], Head(d.batch)))
  IN  /\ g.pc = "read"
      /\ \/ c.batch # <<>> /\ Takes(c) /\ UNCHANGED faults
         \/ /\ c.batch = <<>> /\ c.open /\ Arrives(r)
            /\ \E d \in Batches(g.file, c.next, g.todo, FALSE) :
                 IF d.batch # <<>> THEN Takes(d) ELSE Crashes
         \/ c.batch = <<>> /\ c.open /\ IsLost(r) /\ Now([g EXCEPT !.pc = "cut"])
         \/ /\ c.batch = <<>> /\ ~c.open /\ UNCHANGED faults
            /\ IF c.current = NoData THEN Crashes ELSE Now(Copied(g, c, c.current))
      /\ UNCHANGED <<server, writer, remover, broken, wrote, history>>

\* gridfile_write_file asks for the chunks one by one ...
WriteFile(r) ==
  LET g == reader[r]
      called == [g EXCEPT !.pc = "write_file", !.from = 0, !.size = g.length,
                          !.todo = NumChunks(g.length), !.got = <<>>, !.calls = @ + 1]
  IN  /\ CanCall(r)
      /\ reader' = [reader EXCEPT ![r] = IF called.todo = 0 THEN Returns(called) ELSE called]
      /\ UNCHANGED <<server, writer, remover, broken, faults, wrote, history>>

\* ... and looks for the data of one that is not found in an empty document.
GetChunk(r) ==
  LET g == reader[r]
      n == NumChunks(g.length) - g.todo
      after == [g EXCEPT !.todo = @ - 1, !.got = @ \o chunks[g.file][n]]
  IN  /\ g.pc = "write_file"
      /\ \/ /\ Arrives(r) /\ n \in DOMAIN chunks[g.file]
            /\ reader' = [reader EXCEPT ![r] = IF g.todo > 1 THEN after ELSE Returns(after)]
         \/ /\ Arrives(r) /\ n \notin DOMAIN chunks[g.file]
            /\ reader' = [reader EXCEPT ![r].pc = "crashed"]
         \/ IsLost(r) /\ reader' = [reader EXCEPT ![r].pc = "cut"]
      /\ UNCHANGED <<server, writer, remover, broken, wrote, history>>

-----------------------------------------------------------------------------
(***************************************************************************)
(* gridfs_remove_filename                                                  *)
(***************************************************************************)

\* mongo_find: the files of this name, in any order.
RemoveFilename(x, name) ==
  LET found == {f \in Files : NameOf[f] = name /\ docs[f] # NoDoc}
  IN  /\ remover[x].pc = "idle"
      /\ \/ /\ Arrives(x)
            /\ \E todo \in SetToSeqs(found) :
                 remover' = [remover EXCEPT ![x] =
                              [pc |-> IF found = {} THEN "done" ELSE "doc", todo |-> todo]]
            /\ touched' = touched \cup found
         \/ /\ IsLost(x) /\ UNCHANGED touched
            /\ remover' = [remover EXCEPT ![x].pc = "crashed"]
      /\ UNCHANGED <<server, writer, reader, broken, wrote, lossy, botched>>

RemoveDoc(x) ==
  LET f == Head(remover[x].todo)
  IN  /\ remover[x].pc = "doc"
      /\ remover' = [remover EXCEPT ![x].pc = "chunks"]
      /\ \/ /\ Arrives(x) /\ docs' = [docs EXCEPT ![f] = NoDoc] /\ UNCHANGED botched
         \/ /\ IsLost(x) /\ botched' = botched \cup {f} /\ UNCHANGED docs
      /\ UNCHANGED <<chunks, writer, reader, broken, wrote, lossy, touched>>

\* Mutant: one chunk is removed.
WithoutOne(f) == [chunks EXCEPT ![f] = [n \in DOMAIN @ \ {0} |-> @[n]]]

WithoutAll(f) == [chunks EXCEPT ![f] = <<>>]

RemoveChunks(x) ==
  LET f == Head(remover[x].todo)
      rest == Tail(remover[x].todo)
  IN  /\ remover[x].pc = "chunks"
      /\ remover' = [remover EXCEPT ![x] = [pc |-> IF rest = <<>> THEN "done" ELSE "doc",
                                            todo |-> rest]]
      /\ \/ /\ Arrives(x) /\ chunks' = WithoutAll(f) /\ UNCHANGED botched
         \/ /\ IsLost(x) /\ botched' = botched \cup {f} /\ UNCHANGED chunks
      /\ UNCHANGED <<docs, writer, reader, broken, wrote, lossy, touched>>

-----------------------------------------------------------------------------
(***************************************************************************)
(* Failures                                                                *)
(***************************************************************************)

LinkBreaks(a) ==
  /\ a \notin broken /\ Fault /\ broken' = broken \cup {a}
  /\ UNCHANGED <<server, writer, reader, remover, wrote, history>>

\* Between two calls the application may call mongo_reconnect.
Reconnect(a) ==
  /\ a \in broken
  /\ a \in Files => writer[a].pc \in {"new", "open"}
  /\ a \in Readers => reader[a].pc \in {"closed", "idle"}
  /\ a \in Removers => remover[a].pc = "idle"
  /\ broken' = broken \ {a}
  /\ UNCHANGED <<server, writer, reader, remover, faults, wrote, history>>

WriterDies(f) ==
  /\ writer[f].pc \in {"open", "chunks", "md5", "doc"} /\ Fault
  /\ writer' = [writer EXCEPT ![f].pc = "dead"]
  /\ UNCHANGED <<server, reader, remover, broken, wrote, history>>

RemoverDies(x) ==
  /\ remover[x].pc \in {"doc", "chunks"} /\ Fault
  /\ remover' = [remover EXCEPT ![x].pc = "dead"]
  /\ botched' = botched \cup {Head(remover[x].todo)}
  /\ UNCHANGED <<server, writer, reader, broken, wrote, lossy, touched>>

-----------------------------------------------------------------------------
Next ==
  \/ \E f \in Files :
       \/ \E k \in Sizes : StoreBuffer(f, k) \/ StoreFile(f, k) \/ WriteBuffer(f, k)
       \/ WriterInit(f) \/ WriterDone(f) \/ StoreFileFails(f)
       \/ InsertChunk(f) \/ RunMd5(f) \/ InsertDoc(f) \/ WriterDies(f)
  \/ \E r \in Readers :
       \/ \E f \in Files : Open(r, f)
       \/ \E k \in Sizes : Seek(r, k) \/ Read(r, k)
       \/ NextChunk(r) \/ WriteFile(r) \/ GetChunk(r)
  \/ \E x \in Removers :
       \/ \E name \in Range(NameOf) : RemoveFilename(x, name)
       \/ RemoveDoc(x) \/ RemoveChunks(x) \/ RemoverDies(x)
  \/ \E a \in Actors : LinkBreaks(a) \/ Reconnect(a)

Spec == Init /\ [][Next]_vars

-----------------------------------------------------------------------------
(***************************************************************************)
(* Properties                                                              *)
(***************************************************************************)

Upto(n) == [i \in 1..n |-> i]

\* The chunks of a file one after the other.
Content(f) ==
  LET ns == Ascending(DOMAIN chunks[f])
  IN  FlattenSeq([i \in 1..Len(ns) |-> chunks[f][ns[i]]])

\* What the readers of f find; a file is gone once a remover has found it.
Shown(f) ==
  CASE f \in touched -> [state |-> "removed", bytes |-> <<>>]
    [] f \notin touched /\ docs[f] = NoDoc -> [state |-> "absent", bytes |-> <<>>]
    [] OTHER -> [state |-> "shown", bytes |-> Content(f)]

Promised == INSTANCE FileStore WITH shown <- [f \in Files |-> Shown(f)]

\* A file appears in GridFS when its document is inserted, after all its chunks
\* (136-177): with every byte in its place, or, if a chunk was lost, without its
\* end; never with a hole, and it does not change until it is removed.
FilePromise == Promised!Spec

Damaged(f) == f \in lossy \cup touched

\* A call that reads returns the bytes that were written at its place (638-709),
\* over any chunk boundaries and batches, unless the file was damaged.
ReadExact ==
  \A r \in Readers :
    LET g == reader[r]
    IN  g.pc = "idle" /\ g.file # NoFile /\ ~Damaged(g.file)
          => g.got = [i \in 1..g.size |-> g.from + i]

\* The results that are ignored in a reader (646-652, 686-690) do no harm as long as
\* its file is whole and no request of its own was cut off.
ReaderSafe ==
  \A r \in Readers : reader[r].pc = "crashed" => Damaged(reader[r].file)

\* The chunks of a file without a document are those of a writer that has not come
\* to its end or has failed, or those a remover is about to remove, or could not.
ChunksAccounted ==
  \A f \in Files : docs[f] = NoDoc /\ DOMAIN chunks[f] # {} =>
    \/ writer[f].pc # "ended" \/ writer[f].res = "ERROR" \/ ~writer[f].acked
    \/ f \in botched
    \/ \E x \in Removers : remover[x].pc = "chunks" /\ Head(remover[x].todo) = f

\* Every chunk that is stored, of whatever became of its file, has the bytes of its
\* place in the file and none else, over any writes (179-320) and lost chunks.
BytesInPlace ==
  \A f \in Files : \A n \in DOMAIN chunks[f] :
    /\ Len(chunks[f][n]) <= ChunkSize
    /\ \A i \in 1..Len(chunks[f][n]) : chunks[f][n][i] = n * ChunkSize + i

\* A file document says the truth about its chunks (136-177, 386-405): they are all
\* there until the document is removed, unless one was lost or a removal failed.
DocumentTrue ==
  \A f \in Files : docs[f] # NoDoc /\ f \notin lossy \cup botched => Content(f) = Upto(docs[f])

\* MONGO_OK from a writer with a write concern: the file is there, as long as all it
\* has written, even if a chunk was lost.
OkMeansStored ==
  \A f \in Files : writer[f].res = "OK" /\ writer[f].acked /\ f \notin touched
                     => docs[f] = wrote[f]

=============================================================================
