# A verification project for ljffi-mongo

ljffi-mongo is a LuaJIT binding (`src/src/lua/ljffi-mongo`) over a bundled copy
of the MongoDB C driver (`src/lib/mongo-c-driver/src`). This directory holds TLA+
modules that model the parts of both that keep state over several calls, several
threads or several machines, TLC configurations that check them, and proofs that
TLAPS checks. Paths below are relative to `src/lib/mongo-c-driver/src` unless they
say otherwise.

## The system

| Part | State it keeps | Operations | What is hard |
|---|---|---|---|
| Connection (`mongo.c`, `env.c`) | the `mongo` object: socket, connected flag, error, hosts, primary, timeout; the process's descriptors | connect, discover the primary, reconnect, check, disconnect, destroy | servers fail and change role during a call; threads share descriptors; 0 means "no socket"; settings must survive a reconnect |
| Wire protocol (`mongo.c` 268-344) | bytes under way on the socket | send a message, read a reply | short reads, late replies, sizes, no comparison of request and reply |
| Cursors (`mongo.c` 776-793, 1125-1413) | reply, position, rows seen, error, flags; the server's own cursor | find, next, get more, destroy | batches, limits, empty replies, failures between request and reply, memory ownership |
| Writes and last errors (`mongo.c` 795-1117, 1609-1634) | default write concern, error fields | insert, batch, update, remove, get last error | acknowledged or not, which operation an error belongs to |
| Commands (`mongo.c` 1417-1603) | none of their own | create index, capped collection, count, drop | several requests of which one fails |
| Namespaces (`mongo.c` 137-254) | none | validate | boundaries of a scan |
| GridFS (`gridfs.c`) | chunks and file documents on the server, a writer's pending bytes | store, write in pieces, read, seek, remove | a crash between chunks and file document, arithmetic at chunk boundaries |
| BSON (`bson.c`, `encoding.c`) | a buffer that grows, a stack of open sub-objects | append, start, finish | nesting bound, size overflow, use after finish |
| Object ids (`bson.c` 154-177) | a static counter and random part | generate | threads |
| BCON (`bcon.c`) | the parser's state, two stacks | array of strings and values to document | nesting, array indices, failures of embedded arrays |
| Lua BSON (`bson.lua`) | tables visited | table to document and back | arrays, key clashes, shared tables |
| Lua binding (`mongo.lua`) | connection and cursor objects owned by the garbage collector | every call of the driver | results ignored, order of finalisers |

The parts interact by calls: the Lua binding calls the driver; every request of
the driver goes through one connection, which one thread uses; GridFS and the
helpers are sequences of inserts, finds and removes. Threads meet only in the
process's descriptor table and in static variables. The servers are reached over
connections that break at any time.

## Modules

| Module | Models | Extends / uses |
|---|---|---|
| `MongoConn` | connection objects, replica set discovery, the descriptor table | - |
| `MCMongoConn` | instances of `MongoConn` | `MongoConn` |
| `MongoConnProofs` | type correctness, and every safety property of the runs, for every instance | `MongoConn`, TLAPS |
| `ResultStream` | abstract: what a cursor promises to the application | - |
| `MongoCursor` | cursors of the driver over a server's cursors | instantiates `ResultStream` |
| `MCMongoCursor` | instances of `MongoCursor` | `MongoCursor` |
| `AckedWrites` | abstract: what the end of a write tells the application | - |
| `MongoWire` | the byte streams between one connection and its server | - |
| `MongoWrites` | write functions, last errors and `find_one` on one connection | extends `MongoWire`, instantiates `AckedWrites` |
| `MCMongoWrites` | instances of `MongoWrites` | `MongoWrites` |
| `FileStore` | abstract: what GridFS promises about a file | - |
| `GridFile` | writers, readers and removers of GridFS files | instantiates `FileStore` |
| `MCGridFile` | instances of `GridFile` | `GridFile` |
| `GridFileProofs` | every property of `GridFile` and its refinement of `FileStore`, for every instance; lemmas on how bytes are cut into chunks and put together again | `GridFile`, TLAPS |
| `MongoCursorProofs` | types, order of rows, and the refinement of `ResultStream`, for every instance | `MongoCursor`, TLAPS |
| `MongoWritesProofs` | types, what is on its way, and the refinement of `AckedWrites`, for every instance | `MongoWrites`, TLAPS |
| `Encoding` | the checks of keys and strings, object ids as text | - |
| `MongoNs` | names of collections | extends `Encoding` |
| `BsonBuilder` | the `bson` object, its operations, iterators | extends `Encoding` |
| `OidGen` | `bson_oid_gen` by threads | - |
| `DocThreads` | threads, each with a job and a document | extends `BsonBuilder`, `OidGen` |
| `LuaBson` | `table_to_bson`, `bson_to_table` | extends `DocThreads` |
| `Bcon` | the parser of BCON | extends `DocThreads` |
| `Documents` | programs of all kinds, up to the message and back | extends `LuaBson`, `Bcon`, `MongoNs` |
| `MCDocuments` | instances of `Documents` | `Documents` |
| `BuilderProofs` | what the scans of keys, strings and names find in a text of any length; lemmas: each operation keeps the buffer, its elements and its flags in order | `BsonBuilder`, `MongoNs`, TLAPS |
| `DocumentProofs` | types, no byte behind a buffer, what is sent is legal and readable, reads stay inside, ids differ, the elements of arrays are numbered, for every instance | `Documents`, `BuilderProofs` |
| `TableProofs` | lemmas: what the document of a table says at every step of its conversion | `DocumentProofs` |
| `RoundTripProofs` | tables come back as they were, for every instance | `TableProofs` |

### MongoConn

`conn[c]` is the `mongo` object: `sock`, `connected`, `err`, the host list and
`primary_connected` of the replica set, `primary` and `op_timeout_ms` (as "is a
timeout set"). `ctl[c]` is where the thread that uses the object is inside a
call; a step ends where the code waits for the network or closes a descriptor, so
that other threads and the servers take steps in between. `fd` is the descriptor
table: who opened a descriptor, to which server, whether the connection works,
whether the receive timeout is set. `up` and `masters` are the servers that
accept connections and those that answer `ismaster` with true.

| Action | Code |
|---|---|
| `Client`, `CheckIsMaster` | `mongo_client`, `mongo_check_is_master` |
| `ReplicaSetInit`, `ReplicaSetClient` | `mongo_replica_set_init`, the start of `mongo_replica_set_client` |
| `TrySeed`, `CheckSeed` | the walk over the seeds, `mongo_replica_set_check_seed` |
| `TryHost`, `CheckHost`, `CloseHost` | the walk over the hosts, `mongo_replica_set_check_host`, the second `close` |
| `Disconnect`, `ReconnectSet`, `ReconnectSingle`, `Dial` | `mongo_disconnect`, `mongo_reconnect` |
| `Operation` | any request of the application that has a reply |
| `CheckConnection`, `SetOpTimeout`, `Destroy` | the functions of these names |
| `ServerFails`, `ServerRestarts`, `ServerElected`, `ServerStepsDown`, `LinkDrops` | the world |

`ctl[c].calm` and `ctl[c].sawMaster` are history variables for the properties:
whether the world kept still during the call, and which server said last in it
that it is the primary. A request ends in one of five ways (`Answers`): with what
was asked for; with `ok: 0` (`refused`, which leaves `MONGO_COMMAND_FAILED`); with a
reply in which `mongo_find_one` finds no document, that is an `$err`, no row, or a
length it does not believe (`noDocument`, which leaves `conn->err` at 0); or with a
send or receive that fails (`io`, and `epipe`, which also clears `connected`). The address list of `getaddrinfo` is one address; the
Windows and standard C variants of `env.c` are left out; the seeds
(`mongo_replica_set_add_seed`) are a constant.

### MongoCursor and ResultStream

`cur[c]` is the `mongo_cursor`; a row is its number in the result and a reply is
the interval of rows it holds, whether the server's cursor is open (`cursorID`
not 0) and whether it holds an `$err` document. `pc[c]` says whether a call waits
for a reply. `srv[c]` and `rows[c]` are the server's side. `got[c]` lists the rows
put into `cursor->current`, and `told[c]` how the application reads the last
return: `conn->err` first, then `cursor->err`.

`mongo_cursor_get_more` frees its reply and, when its send or receive fails,
destroys the cursor, which reads and frees the same reply again (1226-1236, 1391,
1407). From there on the process has no defined state: `heap` becomes `"corrupt"`
and nothing else happens. The properties therefore speak about everything up to
that point.

`ResultStream` has four variables and says: rows in order, each once, never more
than the limit; "end" only when all rows, or the limit, were given; "wait" only
for a tailable result with nothing new; nothing after "end". `Promise` is the
statement that `MongoCursor` implements it.

### MongoWire, MongoWrites and AckedWrites

`net[s]` is the s-th socket of the connection: the messages the server has not
read, the replies the driver has not read, whether a message was sent in part
(`torn`) or a reply read in part (`skewed`), and the error the server would report
to `getlasterror`. A send that times out leaves a part of a message or none; a
`recv` that times out leaves the reply for the next call that reads, because
`mongo_read_response` never compares `responseTo` (308-344). Of a socket that is
closed, the server still serves any number of the requests it had not read. Bytes
read after a reply was read in part are `Garbage`: a document in which nothing is
found. `mongo_read_response` goes on after a header it could not read, with
whatever length the stack holds, and may return `MONGO_OK` then.

`conn` is the part of the `mongo` object these functions use (`connected`, `err`,
`write_concern`); `ctl` is where the thread is, how the last call ended, and the
history the properties need (`read`, whose reply was read; `last`, the write the
next `getlasterror` speaks of); `told[w]` is what the application makes of the
end of write w.

| Action | Code |
|---|---|
| `Write` | `mongo_insert`, `mongo_insert_batch`, `mongo_update`, `mongo_remove` up to the message sent, with `mongo_choose_write_concern` |
| `CreateIndex` | the insert of `mongo_create_index`, whose result, a complaint about the name or the document included, it ignores |
| `GetLastError`, `FindOne` | `mongo_cmd_get_last_error`, `mongo_find_one` |
| `Ask`, `Answer` | the query of these and of `mongo_check_last_error`; its reply |
| `SetWriteConcern`, `Reconnect` | the functions of these names (a single server) |
| `ServeWrite`, `ServeQuery`, `HangUp`, `LinkBreaks` | the server and the network |

The application is `Careful` or not. A careful one reconnects after a call that
ended in doubt: `MONGO_IO_ERROR`, `MONGO_COMMAND_FAILED` (which
`mongo_cmd_get_error_helper` puts over an I/O error), or `mongo_create_index`,
which can hide a timeout in its insert and leaves the stream one reply behind. It takes `MONGO_OK` for "done" only when no error is left in
`conn->err`: `MONGO_OK` with `MONGO_IO_ERROR` left behind, which a read that went on
after a lost header returns, is "unknown" to it (`Verdict`). For it, `AckedWrites` is
what the driver promises: "done" and "failed" are what happened, "rejected" never
reaches the server, no write is done twice, and "unknown" promises nothing. For one
that looks at the returned value only, the promise of `write_concern.rst` 40 does not
hold (see below). Left out: continuing a batch on error and how much of
a refused batch is stored, and servers that answer `getlasterror` with an error of
the command itself.

### GridFile and FileStore

Every file has one writer, a process with a connection of its own; readers and
removers are such processes too. `chunks[f]` and `docs[f]` are the two collections
on the server: the chunks of f by their number `n`, and the `length` its document
states. The i-th byte written to a file is the number i, so that a byte that gets
lost, doubled or displaced is seen. A step is one request to the server, or a
call that makes none. A request may be lost or refused, a connection may break
and be replaced between two calls, writers and removers may die anywhere.

| Action | Code |
|---|---|
| `StoreBuffer`, `StoreFile`, `StoreFileFails` | the splitting in `gridfs_store_buffer` and `gridfs_store_file` |
| `WriterInit`, `WriteBuffer`, `WriterDone` | the `gridfile_writer_` functions and `gridfile_write_buffer` |
| `InsertChunk` | any insert of a chunk; its result is ignored |
| `RunMd5`, `InsertDoc` | the two requests of `gridfs_insert_file` |
| `Open`, `Seek` | `gridfs_find_query` with `gridfile_init`, `gridfile_seek` |
| `Read`, `NextChunk` | `gridfile_read` with `gridfile_get_chunks`; a round of its loop with `mongo_cursor_next` |
| `WriteFile`, `GetChunk` | `gridfile_write_file`, `gridfile_get_chunk` |
| `RemoveFilename`, `RemoveDoc`, `RemoveChunks` | `gridfs_remove_filename` and the two requests of its loop |

A reader takes as many chunks from a reply as the server put into it and may have
to ask for more in the middle of a read, when a remover has been there. What is
undefined in the code (a null or freed pointer followed because the result of a
request is not looked at) ends the reader: `crashed` if a chunk was missing,
`cut` if a request failed. `lossy`, `touched` and `botched` are history: the files
that lost a chunk on the way in, those a remover found, and those it could not
remove altogether.

`FileStore` says: a file appears at once and whole, does not change and
disappears; one that lost a chunk may appear without its end, never with a hole.
The last is due to the server's `filemd5`, which refuses chunks that are not
numbered 0, 1, 2, ...; a lost last chunk it cannot see. `FilePromise` is the
statement that `GridFile` implements it.

Left out: lengths of 4 GB and more, late replies to acknowledged inserts (these
are in `MongoWrites`), removers that find more files than fit into one reply,
`gridfile_writer_done` called twice. Ids are taken to be unique.

### Encoding, MongoNs and BsonBuilder

Texts are sequences of bytes. `Encoding` holds `bson_validate_string` with its
three checks, as a scan that goes from character to character, and next to it
what the checks are for: the definition of UTF-8, and the few sequences the driver
takes for characters besides. `MongoNs` holds the conditions `mongo_validate_ns`
looks for, and what a name is.

`BsonBuilder` is the `bson` object. Its buffer is a function from the offsets where
an element starts to the element, with the length of its value as an iterator
computes it; `cur`, `dataSize`, `size`, `finished`, `stack` and `err` are the fields
of the struct. An operation is a function from the object to what it returns and
the object it leaves. `EnsureSpace` computes in `int`: a sum wraps at `IntMax`, a
product that does not fit becomes the least `int`. `bad` says that the code wrote
outside of an array, after which nothing is known: `over` (the buffer), `deep` and
`under` (the stack). `slips` is history: what the caller or the code did that the
properties have to except. The length by which an iterator steps over a value is the
one the builder reserved: how `bson_iterator_next` works it out for each type
(`bson.c` 316-369) is modelled for sub-objects and for the key of length 0 only, so an
error in the length of another type would not show.

| Operator | Code |
|---|---|
| `InitBson`, `CopyBson` | `bson_init`, `bson_init_size`, `bson_copy` |
| `EnsureSpace`, `Grown` | `bson_ensure_space` |
| `Estart` | `bson_append_estart` |
| `AppendFixed`, `AppendStringBase`, `AppendCodeWScope`, `AppendBinary`, `AppendOid`, `AppendRegex`, `AppendBson` | the `bson_append_` functions |
| `AppendElementAsIs`, `AppendElement` | `bson_append_element` without and with a name |
| `StartObject`, `StartArray`, `FinishObject`, `Finish` | the functions of these names |
| `IteratorFromBuffer`, `IteratorNext` | `bson_iterator_from_buffer`, `bson_iterator_next` |

### OidGen and DocThreads

`incr` and `fuzz` are the static variables of `bson_oid_gen`. `incr++` is a read and
a write, and a thread may lose the processor between the two; the test of `fuzz`, the
drawing of a random number and the copying into the id are steps of their own.
The time does not go back; how much of it passes is open. `raced` is history: a call
read the counter while another one was about to write it. In `DocThreads` each
thread has a job, a document and a place in its program; threads share nothing but
these variables.

### LuaBson

A table is a set of pairs; `heap` maps names to tables, so that tables can share
others or contain themselves. `walk[t]` are the calls of `values_to_bson` under way:
`pairs` gives what is left of a table in any order. `it[t]` are the calls of
`iterator_to_table` and `iterator_to_array`, and `back[t]` is what they have read, a
function from paths to values.

| Action | Code |
|---|---|
| `ScalarPair`, `TablePair`, `BadPair` | a round of the loop in `values_to_bson`, with the handler of the value |
| `EndOfTable`, `EndOfRoot`, `NewId` | the end of a sub-table; the end of `table_to_bson` |
| `ReadScalar`, `ReadTable`, `ReadEnd`, `ReadError` | `iterator_to_table`, `iterator_to_array`, the handlers |

Tables are taken not to change while they are converted. Numbers are integers of one
digit, which is what `tostring` and `tonumber` are modelled for; the keys of arrays,
which the driver writes itself, have up to two.

### Bcon

The parser is a state machine over an array whose elements are strings or, behind a
type specifier, values. `parse[t]` are the calls of `bson_append_bcon_with_state`
under way; each reads one element in a step. What the parser does not look at
(whether an object could be started, whether a bracket has a partner) is not looked
at here. Left out: the 1024 places of its stacks, assertions on letters that are not
known, `bcon_print`.

### Documents

Puts these together: each thread converts a table, parses BCON, calls the builder
as a C program may, in any order, or makes ids. Then comes `mongo_insert` up to the
point where it sends (`Insert`: the name, `mongo_bson_valid`, the size), and the
document is read back as `bson_to_table` would read it.

## Runs

| Run | Question | Bounds |
|---|---|---|
| `conn_set` | does discovery find the primary, end, and keep descriptors and settings in order, whatever the servers do? | one connection, two seeds (one outside the set), three servers, three faults or role changes of any kind, three descriptors |
| `conn_pair` | do two threads keep off each other's sockets? | two connections to single servers (TCP and unix domain), two descriptors, so that each close is followed by a reuse |
| `conn_double_close` | violation, see below | two replica set connections |
| `conn_lua_name` | violation, see below | set name `""` |
| `cursor_scan` | does a cursor keep its promise over batches, limits, failures and reconnects? | two cursors, one tailable, results of one or two rows that grow to three, batches of at most two rows, one fault |
| `cursor_live` | do scans end, do tailable cursors catch up, is nothing left on the server, and does a cursor that has given a row read as exhausted only when it is? | two cursors, one tailable, results that start with no row, one or two, up to two rows, one failure of the server (a refused query, an `$err`, a forgotten cursor) |
| `cursor_timed_out` | violation, see below | one cursor, up to four rows |
| `writes_careful` | can an application that reconnects when in doubt and looks into `conn->err` after `MONGO_OK` trust what it is told of its writes? | two writes of which one is refused, four calls, three sockets, two faults (timeout, break, refused connect), concerns w=1, w=0, one not finished, and none |
| `writes_late_reply` | violation, see below | two writes, one timeout |
| `writes_lost_index` | violation, see below | a break while an index is created |
| `grid_files` | do files appear whole or not at all, and are they read as they were written, whoever dies or removes them? | two files of one name, one of up to five bytes in chunks of two, one empty; buffers of 0, 1 and 4 bytes; a reader with two calls, a remover, one fault |
| `documents` | does a document that is sent hold what the program said, in the buffer and readable, and is every other one refused? do ids differ as long as no two calls overlap at the counter, do programs end? | one thread with one of 2365 jobs (below) beside an idle one, or one that inserts a table or parses BCON beside one that makes two ids |

Why the bounds are enough: three servers give a seed outside the set, a primary
and a successor; three faults allow a failover during a call, its return, and one
more; two descriptors for two threads make every closed descriptor the next one
opened. Three rows in batches of at most two give a first, a middle and a last
batch, an empty batch behind the last row, and a limit inside, at and behind a
batch. Two writes, one of them refused, are the least for which one answer can be
taken for another's; four calls leave room for a write, a reconnect, the other
write and a question; two faults allow a timeout and then a break or a refused
connect. Five bytes in chunks of two make three chunks with a short one at the end;
buffers of 0, 1 and 4 bytes leave no byte, some and all of a chunk pending and cross
one or two boundaries; a seek and a read make a read from anywhere; one fault is
enough for a chunk that is lost before the connection is replaced. These runs stop
where all objects were destroyed or the bounds are used up; that is why deadlock is
not checked in them. In `documents` it is: a program that stops anywhere but at its
end is an error.

The jobs of `documents` are: four trees of tables with arrays, empty tables and ids,
inserted with and without a new id; thirteen tables of other kinds (deeper than the
stack, containing themselves, sharing a table, keys that clash, sparse arrays,
metatables, functions, bytes 0); every text of one and two bytes that stand for
the classes the checks of UTF-8 tell apart, and those of three and four that lie at
their boundaries, as a key and as a string; every name of up to five letters of
`.`, `$`, blank and `a`, and those around the longest; BCON arrays with every type
specifier, null pointers, nested and unmatched brackets, embedded arrays that fail, an
element there is no room for; and a C program of three calls of any kind, in any order,
with texts that fill the buffer up to `INT_MAX` and beyond. The sizes are small so that limits are met:
`InitialSize` 8 (each document grows), `StackSize` 2 (`deep` is reached by tables, BCON
and calls), `IntMax` 127 (sums wrap, `BSON_SIZE_OVERFLOW` is raised), `MaxBson` 90,
`MaxNs` 6. `MaxTime` 2 lets a second pass, `MaxIds` 2 with the id of an insert makes
three ids; `Randoms` has 0, for which the number is drawn again, and another;
`Behind` are the bytes that may lie behind a string that is too short for an id.

Fairness. `MongoConn!FairSpec`: a thread inside a call goes on. Each step inside
a call is a system call that returns: a connect or a request is answered, or
refused, or fails with its connection; without an operation timeout a silent
server is represented by its link dropping. `MongoCursor!FairSpec`: requests are
answered or fail, and the application asks each of its cursors again and again
(strong fairness, because a call on one cursor waits while the thread is inside a
call on another). `Documents!FairSpec`: a thread that has not ended goes on; no step
of a program waits for another thread or for the world. It is written without
`ENABLED`: that a thread has a step until it has ended is what the check for
deadlock in the same run shows.

### Disagreements between code and documentation

* `conn_double_close`. A host that is not the primary is closed twice (`mongo.c`
  602 and 655). Between the two, another thread may open the same descriptor, and
  the second `close` takes it. `mongo_check_connection` of the one thread is then
  answered on the socket of another.
* `conn_lua_name`. `mongo.connect_replica_set` passes `""` for the set name and
  ignores the result (`mongo.lua` 585, 598): each node fails the comparison at
  `mongo.c` 588, which leaves the socket open. The application stays connected to
  the first host of the list.
* `cursor_timed_out`. The flags of a reply are never read; a cursor the server
  has forgotten ends its result with `MONGO_CURSOR_EXHAUSTED`.
* `writes_late_reply`. After a timeout the application goes on with the same
  connection; the reply to the `getlasterror` of one write is then taken for that
  of the next, and a refused write is acknowledged.
* `writes_lost_index`. `mongo_create_index` ignores what comes of its insert, and
  `mongo_cmd_get_error_helper` returns `MONGO_OK` when its command fails: over a
  connection that breaks it returns `MONGO_OK` and no index was created.

Seen while modelling and not given a run of their own:

* `mongo_disconnect` does nothing once a send has failed with EPIPE (`env.c` 239,
  `mongo.c` 712): that descriptor is lost.
* `mongo_replica_set_client` allocates `conn->primary` on each success and
  forgets the previous one (647); called a second time after an EPIPE it finds
  `primary_connected` still set and takes any node for the primary (646).
* a unix domain socket does not get the operation timeout (`env.c` 285-313), and when
  `socket()` fails for one, `MONGO_ERROR` comes with the `conn->err` of before (293).
* `mongo_check_connection` on an object that is not connected returns
  `MONGO_ERROR` and sets no error (702).
* `errors.rst` 11-13 sends the reader of a `MONGO_ERROR` to `conn->err`. After a reply
  with `$err`, or without a row, `mongo_find_one` returns `MONGO_ERROR` with `conn->err`
  at 0 (`mongo.c` 1134, 1176-1182, 1339-1350); so do `mongo_run_command` and
  `mongo_client`, which ask through it. A length that is not believed
  (`MONGO_READ_SIZE_ERROR`, 320-321) is returned and not stored. `ErrorHasReason`
  therefore speaks of objects left without a connection.
* a failed get_more frees the reply twice, and the application frees the cursor
  once more (1226-1236).
* a query sent again after `$err` forgets the reply it holds (1168); one sent
  again without a query document reads a dead stack frame (1138).
* an `$err` document in the reply to a get_more is given as a row (1232-1239).
* `mongo.h` 65 says of `MONGO_CURSOR_PENDING` that the cursor is still alive. A
  tailable cursor whose first reply is empty is alive and reads as exhausted
  (1342-1346); one that has died after it was pending goes on reading as pending
  (1364-1372). `ExhaustedIsFinal` is what does hold of these two words.
* the failure of the first request of a cursor leaves `cursor->err` at 0, which
  is `MONGO_CURSOR_EXHAUSTED`; only `conn->err` tells, although `mongo.h` 606-607 names
  `cursor->err`. That is why the application of the model reads `conn->err` first.
* `mongo_create_index` leaves the stream one reply behind when the check of its
  insert times out; `MONGO_COMMAND_FAILED` can hide an I/O error.
* a read goes on after a header it could not read (315-343). It may then find a whole
  reply, or the rest of one, and `MONGO_OK` is returned for a write that was not done,
  with `MONGO_IO_ERROR` left in `conn->err`; `write_concern.rst` 40 gives `MONGO_OK`
  as the sign that the write was done.
* a GridFS file whose last chunk was lost is stored with `MONGO_OK`; its `length`
  is that of the whole. A read then copies the previous chunk a second time.
* the chunks of a writer that failed or died stay on the server: no function finds
  them, because removal goes by the file document.
* `gridfile_read` and `gridfile_write_file` follow a null pointer, or read behind
  an empty document, when a chunk is missing or a request fails.
* `gridfs_store_buffer` casts the rest to `unsigned int` (198): from 4 GB on it
  cuts chunks short, and a rest of exactly 4 GB is never written.
* `bson_ensure_space` stores `BSON_SIZE_OVERFLOW` over the flags (`bson.c` 636), so that
  text that is not UTF-8 may be sent. It is stored only when the sum of the two
  sizes is `INT_MAX` itself; larger ones wrap (629-635).
* nothing checks the 32 places of the stack, neither on the way up nor on the way
  down (905, 925); `bson_finish` does not look whether a sub-object is open (651).
* the parser of BCON looks at nothing the appends return: an array element for which
  there was no room is left out, the next one has the key behind its own, and
  `mongo_insert` sends the document, for it does not look at `BSON_SIZE_OVERFLOW`
  (`bcon.c` 67-139, 236, 242; `mongo.c` 744-770).
* `bson_append_element` goes on when `bson_append_estart` has failed (870), and writes
  behind the buffer then; without a name it writes into finished objects, for a copy
  over its first bytes, because `bson_copy` leaves `cur` at the start.
* `bson_copy` and `bson_append_bson` do not take the flags along: keys with dots and
  dollars pass `mongo_insert` inside of a sub-object.
* `bson_append_regex` checks the pattern when the element has been started (849), and
  leaves half an element.
* surrogates, and F4 followed by a byte below 80, are taken for characters
  (`encoding.c` 70-96); every key that starts with `$ref` is taken for a part of a
  reference.
* `mongo_ns_to_cmd_db` runs beyond a name without a dot (`mongo.c` 142); an insert
  validates the name first, an update or remove with a write concern does not.
* two processes that make their first ids in the same second draw the same random
  number and both count from 0 (`bson.c` 168).
* BCON: of an embedded array that fails, the failure is lost one level up, with the
  rest of that level; a string that is a brace or a type specifier is taken for one;
  a null pointer in an array leaves an index out.
* `bson.lua`: strings end at their first zero byte; a table that occurs twice is
  refused as recursive; `_id = false` gets a second `_id`; a text under `_id` that is
  shorter than 24 digits is read beyond its end; `bson_append_new_oid` and
  `bson_finish` may fail unnoticed.
* `mongo.lua` 395: a NULL cursor is not `nil`, so the failure of `mongo_find` is never
  reported; the iterator of `find` ends at a failure as at the end of the result.

## Proofs

`MongoConnProofs` proves, for any number of connections, servers, descriptors and
any lists and names:

* `TypeCorrect`: `Spec => []TypeOK`. The type invariant alone is not inductive:
  a step that uses the n-th node of a list needs n to be inside the list, and one
  that asks the peer of a socket needs that an owned descriptor has a peer. `TInv`
  adds these two facts.
* `DescriptorKept`: under `Documented` (a replica set connection is the only
  connection of its process and is connected again by `mongo_reconnect` only),
  `Spec => []OwnDescriptor`. The argument is that every walk over the hosts starts
  with `primary_connected` clear, so `mongo_replica_set_check_host` never closes a
  socket that `mongo_replica_set_client` goes on to report; `OInv` carries this.
  `conn_double_close` shows why the first assumption is needed.
* under `Documented` again, with `FInv`: `PrimaryIsFound`, `NoPrimaryIsClosed`,
  `NothingLeaks` and `CheckIsOwn` (`Spec => []PrimaryFound`, `[]NoPrimaryClosed`,
  `[]NoLeak`, `CheckedIsOwn`), and, without unix domain sockets, `TimeoutIsApplied`
  and `ReasonIsLeft` (`[]TimeoutApplied`, `[]ErrorHasReason`). `FInv` has three parts.
  `Standing` says where a thread is in its walk: it holds no socket between two nodes,
  and the socket it asks leads to the node of the list whose turn it is, so the node
  recorded as the primary is the one that answered. `Keeping` says that a descriptor
  that works is in use, which holds because every way out of a walk closes the
  descriptor before the object forgets it, and that its timeout is that of the object.
  `Standing` also says that the socket number kept by an object that is not connected
  is not the descriptor of another (it is its own, after an EPIPE, or none).
  `Leaving` says what the call that returned last has left; it is stated over the
  fields, not over the step, because later calls and faults must keep it.
  `ErrorHasReason` asks for a reason of `mongo_replica_set_client` and `mongo_reconnect`
  always, and of `mongo_client` and of requests when they leave no connection; a
  connected object may have none, see above. A step of
  one thread disturbs the others only through descriptors, and `Touches` (it changes
  free ones and its own) is what `FoundStep` asks of it. Unix domain sockets are left
  out because `mongo_env_unix_socket_connect` sets neither the timeout nor an error
  when `socket()` fails (`env.c` 285-313).
* `CalmSetIsFound` and `OpenMeansPrimary`: `Spec => []CalmFindsPrimary`, and
  `Spec => []ConnectedToPrimary` if no node has the name of another set
  (`RightNames`). `CInv` says what a walk that nothing has disturbed has learnt: the
  seeds before the present one gave no list, the list it follows is that of a seed
  that is up, and no host before the present one is a primary that is up. So it can
  reach neither the end of the seeds nor the end of the list while there is a primary
  to be found. `RightNames` is needed because `check_host` returns with its socket open
  when the names differ (mongo.c 589-591).

`GridFileProofs` proves, for any files, readers, removers, chunk size, lengths and
failures (the assumptions are those of `GridFile`; `Sizes` may be infinite):

* `GridTypes`: `Spec => []TypeOK`.
* `ChunksInPlace`: `Spec => []BytesInPlace`. `SplitSlices` and `ChunksSlices` show that
  `ChunksOf` and `Split` lose, double and move nothing: the chunks they give are
  the slices of their input at multiples of `ChunkSize`, and the rest is shorter
  than a chunk. `WriterInv` carries this from call to call: `length` and the
  number of bytes written are those of `chunk_num` whole chunks, the chunks still
  to insert and the pending bytes, and each chunk still to insert has the bytes of
  its place. So `insert_chunk` can only put bytes where they belong.
* `OkIsStored`: `Spec => []OkMeansStored`. By `WriterInv`, `length` is the number
  of bytes written when the document is inserted, lost chunks or not; a call that
  ends otherwise returns an error, or had no write concern.
* `NoStrayChunks`: `Spec => []ChunksAccounted`. Inductive with `WriterInv`: the end of
  a call is either its document or an error, and who removes a document goes on
  with the chunks.
* `PublishedIsStable`: a file that has its document stays as it is until a remover
  finds it. `DocumentLast` (the call has ended when the document is there) is
  needed: no late chunk of its own writer follows.
* `DocumentIsTrue`, `Spec => []DocumentTrue`, and `FilePromiseKept`,
  `Spec => FilePromise`: `FileLaid` says that the chunks of a file are those its
  `gridfile` has counted, all full but for the last, and all there if none was lost
  and no remover has got to them. `ContentOf` shows that their concatenation, a fold,
  is then the first bytes of the file, or all of them. From there each step maps to
  one of `FileStore` or a stutter. A file that lost a chunk in its middle never
  appears because the call that inserts the document asks `filemd5` first, which
  demands consecutive chunks; this is the part of `FileLaid` about `Consecutive`.
* `ReadsAreExact`, `Spec => []ReadExact`, and `ReadersAreSafe`, `Spec => []ReaderSafe`:
  in the loop of `gridfile_read` (`Reading`) the next chunk is the m-th, the buffer
  holds exactly the bytes before it, and the cursor `Holds` the chunks from the m-th
  on and does not end before the last one is taken. `LastChunkIs` shows that the
  chunks asked for are those of the bytes to be read, also for none. `Writing` says
  the like of `gridfile_write_file`, which asks for one chunk at a time. Between its
  steps an undamaged file does not change (`PublishedNext`, the lemma of
  `PublishedIsStable`).

The first part of `BuilderProofs` proves what the scans of `encoding.c` and `mongo_validate_ns` find, for
texts of any length:

* `AcceptedIs`: `CheckString` succeeds exactly on texts made of code points in UTF-8
  and of the exceptions the driver lets through (`TakenForACharacter`).
* `CleanKey`: `CheckFieldName` raises no flag exactly if the key is such a text
  without dots and has no leading dollar, names of references apart.
* `NsIs`: `ValidateNs` accepts exactly the names that are `LegalNs`.

`Scan` is a recursive function that jumps from character to character, and so is
`MadeOf` on the side of the definition. Both are first shown to satisfy their equations
(`Descent`, by well-founded recursion over the rest of the text), and then to agree
from the end to the front: the induction (`Naturals`, `Backwards`) is over the set of
the places where they agree, so no theorem with an operator for a parameter is
needed. That the two mean the same of one character is arithmetic
(`OneByte` to `FourBytes`).

`DocumentProofs` proves, for any number of threads, any jobs that hold what
`DocumentsAssumption` says (strings and names of bytes, tables and lists that are
there, tables finite and with one value for a key, number keys of one digit, lists of
at most 100 items), any sizes (`IntMax` at least
127), any texts and any number of calls:

* `WritesInBuffer`: `Spec => []InBuffer`. `GrownFits` shows that what
  `bson_ensure_space` computes, wrapped or not, is an `int` that is large enough
  whenever the sum of position and length is one; from there each operation takes
  `BufOK` (the position is inside the buffer, sizes are ints) to `BufOK`, for it writes
  no more than it asked room for. The exceptions are those of the property: documents
  longer than `INT_MAX`, and values without the start of their element.
* `SentIsReadable`: `Spec => []SentReadable`. While a document is built its last
  elements lead nowhere yet, because the lengths of open sub-objects are not written;
  that a finished one is `Readable` is not inductive. `Layout` is: every element leads
  to another or to the position (`Ahead`), an open sub-object to its first element, and
  a closed one ends with its zero byte. `bson_append_finish_object` takes the top of the
  stack to the second kind, `bson_finish` the rest. `TornFlag` covers an element
  without its value: it has left a flag that keeps `bson_finish` from finishing.
* `SentIsLegal`: `Spec => []SentIffLegal`. `Honest` relates the flags to the elements,
  both ways: each key and string that is there has left its flags, and each flag is
  that of a key that is there, or of a text that was refused. `AtOK` says what
  follows at each place of a program: what a Lua or BCON program has finished
  was not refused, and what was sent or refused had the name and the flags that
  `mongo_insert` looks at. `AcceptedIs` and `CleanKey` turn flags into words.
* `ReadsInside`: `Spec => []ReadInside`. `ReadOK`: a document that is being read is
  `Readable`, and each iterator of the recursion stands on an element of it;
  `bson_iterator_next` goes to the next one, a sub-iterator to the first one inside.
* `DocumentsTyped`: `Spec => []TypeOK`. The bounds of `BsonOK` (sizes are ints, at most
  `StackSize` open sub-objects) need `BuilderOK`, the conjunction of all of the above
  for one document.
* `IdsNeverRepeat`: `Spec => []IdsAreUnique`. `CounterInv` says, until calls race: one
  call at most is between its read of the counter and its write, and it has read the
  last value; all values given away are below the counter and differ from each other.
  That the time and the random number are the same does not matter.

* `BconNumbersArrays`: `Spec => []BconArrayKeys`. The parser numbers an element by the
  index of its own call and stack of indices, and never looks at the document; the
  property is about the elements that are there. `KeysInv` relates the two. `Levels`
  puts the states of all open calls, and those they will return to, in one row, the
  document itself in front: level `i` belongs to `call[i]`, which came there by
  `depth[i]` brackets, `array[i]` of them square. `Describes` gives for each level the
  index of its next element, `Counts` says that this is the number of elements of the
  sub-object that is open there (`Kids`, without what is nested in them), and
  `Numbered` that each element of an array has as its key the number of those in
  front. A call that ends early leaves objects open: then there are fewer levels than
  open sub-objects (`Matches`), and `bson_finish` meets an open one, which is the
  slip `early` of the property. A null pointer takes a number and leaves no element:
  the lists of the theorem, as those of the property, hold none.

The invariant of the first five is `DocInv`: `BuilderOK` and `AtOK` for the document
of every thread, and what the programs need to pass strings on (the pairs and lists
still to come are those of the job, keys are texts). `BuilderProofs` shows `Built` for
each operation, succeeding or failing: `BuilderOK` is kept, a failed one leaves the
elements and the flags before (`Kept`), and an unfinished document stays unfinished
until `bson_finish`.

`RoundTripProofs` proves `TablesComeBack`, `Spec => []RoundTrip`, under the same
assumptions and for any number of threads: the document of a plain table, read again,
is the table. Plain tables are those of the property (trees within `StackSize` levels,
keys that are plain texts, or 1, 2, ... below the top, ids in lower-case digits); by the
assumption on number keys their arrays have nine elements at most, there is no bound on
the width of the other tables or on the length of texts. What the property compares is
stated without recursion: a table is the set of the ways down from its root (`Ways`), a
table that was read the set of its paths and values. So the induction is over the steps
of the program, and no step looks at a whole tree:

* Where elements lie. `up[x]` is the sub-object that the element at `x` lies in.
  `Linked` says that each element leads to the next one of its sub-object, or into its
  own; for a document that is being built (`Unfinished`) what comes next is at `cur`, in
  the innermost of the open sub-objects, which are those on the stack. A finished one
  (`Finished`) ends at its last byte.
* What they stand for. `N[x]` is the way that the element at `x` stands for. `Walked`
  says that a way has an element exactly if it does not go through a pair that some
  open call of `table_to_bson` has left (`ToCome`), and that no table comes after what
  is in it. `Stands` says that key, value and type of the element are those of the last
  pair of its way; `Seen`, that no table of a tree is found a second time, so the check
  for circles never fails. Each of the steps of `table_to_bson` keeps the conjunction
  (`Converting`, in `TableProofs`), if the builder does what it should: it does unless
  a size exceeds `INT_MAX`, for the keys and strings of plain tables raise no flag, the
  depth is that of the stack, and a flag of `BSON_SIZE_OVERFLOW` stays (`Sticks`), so a
  document without it at the end never had it.
* At the end no pair is left: every way has its element (`Complete`), and `_id`, made by
  `bson_oid_gen`, is one element more, not below any other.
* Reading. `Reading` says that the iterators of `bson_to_table` stand in sub-objects one
  in the other, and that the table is what the elements in front of the innermost one
  say (`Heard`). An iterator stays where it is for its first call of
  `bson_iterator_next`, so the first element of each sub-object, with all that is in it,
  is read twice: what is read the second time takes away exactly what the first
  time has put there (`ReadAgain`), because assigning a key forgets what was under it.

`TripInv` says this of each thread at each place of its program, and `RoundTrip` is
what it says at the end. It rests on `DocInv`, `ReadOK` and the types of the ids.

`MongoCursorProofs` proves, for any cursors, limits, batches, results and faults:

* `CursorTypes`: `Spec => []TypeOK`.
* `ExhaustedIsTheEnd`: `Spec => []ExhaustedIsFinal`, whatever the server forgets or
  refuses. `FinalInv`: a cursor that has given a row and holds an empty reply from a
  server's cursor that lives has left `MONGO_CURSOR_EXHAUSTED`, which is also the value
  of a cursor that has no error.
* under `KeepsWord` (the server refuses queries and breaks connections, but does not
  forget a cursor or fail in the middle of a result, and a tailable result has a row
  from the start): `NothingLost`, `Spec => []NoGap`; and `PromiseKept`, `Spec => Promise`: each initial state
  maps to one of `ResultStream`, each step to a step or a stutter. `CursorInv` relates
  the two ends of a cursor: what was given are the first rows, the reply held starts
  behind them, the server goes on behind the reply; the count `seen` is that of the
  rows received, so the limit is kept; and what the application was told last is
  true of that state, which is what the promise to tell no end too early needs.
  `KeepsWord` is needed: `cursor_timed_out` shows what a forgotten cursor does, an
  `$err` in the reply to a get_more is given as a row, and a tailable result without
  a row reads as exhausted.
* `NothingLeft`: if the connection does not break, `Spec => []NoneLeftOnServer`.
  `KnownInv`: a cursor that is open on the server is named by the reply held, or by
  the one under way.

`MongoWritesProofs` proves, for any writes, concerns, sockets, faults and calls:

* `WriteTypes`: `Spec => []TypeOK`.
* `SentForACall`: `Spec => []FlightOK`, of any application, careful or not. A write is
  in at most one place of one stream, it has not been decided while it is there, and a
  write that was rejected or never called is nowhere. Each step either carries the
  requests of a stream along (it drops some in front or behind, or keeps them) or adds
  one write that was nowhere before; `Carried` says the first in one way for all steps.
* under `Careful` (the application reconnects after a call whose outcome is in doubt):
  `KeepsAckPromise`, `Spec => AckPromise` ("done" is `MONGO_OK` with no error left); `TrustsItsReplies`,
  `Spec => []TrustedReplyIsOwn`; `LastErrorIsTrue`, `Spec => []LastErrorSpeaks`.
  `FlightOK` is not enough for these: they need to know what the socket of the
  connection holds. `CareOK` says it: between calls no reply and no query is in it, and
  the last write in it, or the server's last error if there is none, is that of the
  last write of the connection (`Calm`, `EndsWith`); during a question the question
  stands last (`Asked`) or its reply stands alone (`Answered`). From there a reply
  taken without an error is the one asked for, and its verdict that of the write; the
  steps that leave anything else in the socket are exactly those after which such an
  application reconnects. `writes_late_reply` shows what happens without `Careful`.

Only model-checked: liveness, which is out of the prover's reach (`CallsReturn`,
`TailCatchesUp`, `ScanEnds`, `JobsEnd`).

## Plan

Done: all modules of the table above. What is left to do, in this order:

1. Readers of numbers and of DBREF in `BsonBuilder`, `bson_find`.
2. The order in which LuaJIT finalises cursors and connections, over `MongoConn` and
   `MongoCursor`. The binding keeps no reference from an iterator of `find` to its
   connection; what the finaliser of the one does after that of the other is
   undefined, and no document or test says anything about it.

Not modelled: `md5.c` and `numbers.c` (a digest of a third party, and the printing of
numbers: bit arithmetic without state), conversions between numeric types in the
typed iterators, `bson_find` and DBREF, printing (`bson_print`, `bcon_print`),
authentication (two commands and a digest), the C declarations in `ffi.lua`, the
Windows and standard C variants of `env.c`, which differ in system calls only,
finalisers (see the plan), build files.
