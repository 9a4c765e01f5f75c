# Verification of ZiguratIP: its storage engine and its servers

ZiguratIP is an application server: it compiles Parsi pages and procedures to
C++, serves them over HTTP and over a binary RPC protocol, and keeps their
tables in an embedded multi-version storage engine, MVCCS
(`src/MVCCS-cicili/mvccs-lib.cicili`). The hard behaviour is in two places. In the
engine there are many threads, one lock that is given back in the middle of every
statement, five isolation levels, indexes that change under the walks through
them, and a crash that may fall between any two writes. Around it there are
clients that come, hang up, time out and come back, in front of pools with limits
and a shutdown that may be called at any instant. This project models both.

| module | what it is |
|---|---|
| `Mvcc` | row versions, transactions, isolation levels, statements, row locks, commit, rollback, TRUNCATE |
| `StreamsGuard` | the store's one lock: scopes, re-entrance, callback windows, exceptions, the gate that lets writers through |
| `RWLock` | a readers-writer lock: what a thread may believe of the guard; `StreamsGuard` refines it |
| `CommitRecovery` | the order of writes and syncs in begin, stage, commit, rollback and start-up, with kills and power losses |
| `AtomicStore` | a store that changes by whole transactions; `CommitRecovery` refines it |
| `Allocator` | pages, spans, the free list and the hexmap they are rebuilt from |
| `BTree` | the unique index: splits, the append hint, merges, and walks that give the guard back |
| `MapBuf` | the mapped streams under the store: growth ahead, readers with old lengths, sync, close, kill |
| `PlainFile` | a file as one sequence of bytes; `MapBuf` refines it |
| `ThreadPool`, `TcpServer` | the pool of workers; the accept loop and the shutdown around it (each extends the one before) |
| `HttpServer` | requests, pages, answers and transactions of the connections they serve (extends `TcpServer`) |
| `Desk` | first come first served, once, nobody turned away while there is room; `HttpServer` refines it |
| `RpcPool` | sessions, the pool of transactions between requests, the connector and the binary server behind it |
| `MvccProofs`, `MvccRowProofs`, `StreamsGuardProofs`, `CommitRecoveryProofs`, `AllocatorProofs`, `MapBufProofs`, `HttpServerProofs`, `RpcPoolProofs` | theorems for every value of the constants |
| `MC*` | model values of the runs |

Run one with `tlc -config readers.cfg MCMvcc`, check proofs with
`tlapm MvccProofs.tla`.

## 1. Inventory

### The engine (`src/MVCCS-cicili/mvccs-lib.cicili`)

**Row versions and transactions** (`Mvcc`). Every record has a
control block: an online state (what an open transaction has staged), a lock, an
offline state (what is committed), the owner's transaction id, a query id, the
address of the version it replaces, and the times it was born and died. The two
states and the lock are bytes of the hexmap file, the rest are fields of the data
file. A thread has one transaction (`tl_txn`): an id, the instant it began, the
instant and the id of the statement it runs, a level, and the list of rows it
touched. Operations: `begin_transaction`, `set_isolation_level`,
`online_insert/update/delete`, `cursor_walk`, `check_lock`,
`commit_transaction`, `rollback_transaction`, `rollback_transaction_to`,
`memory_truncate`. It is right when every statement reads one instant, a commit is
all or nothing to everybody, a staged row is settled by its owner only, and every
lock is given back.

**Streams guard** (`StreamsGuard`). One readers-writer lock for both
files, taken by the scope of a `Streams` object, re-entrant through two
thread-local names, given back around every callback, and behind a gate that makes
readers stand down for queued writers. It is right when nothing touches the
shared streams outside it, a private reader never misses a write, no sleeper
is forgotten and neither side starves.

**Commit, rollback, recovery** (partly: `CommitRecovery`). A commit writes its
intention (the `commit_time` of its transaction record), syncs, flips its rows,
syncs, retires the intention, syncs. `memory_initialize` settles every row left
locked as the record of its transaction says. It is right when a crash at any
point leaves whole transactions.

**Page and span allocator** (partly: `Allocator`). A page hangs from one key; a
record is a run of control chunks and data chunks; a free list, in memory only, by
key and size class; `free_pointer` coalesces with its neighbours by reading the
hexmap, and start-up rebuilds the list from it. No record stores its length: every
reader measures it from the bytes. It is right when no chunk has two holders, every
walk finds every record, and nothing free is lost.

**B-tree index** (partly: `BTree`). A node is a record with a degree and the head
of a doubly linked list of key records that share their children. `map` descends,
splits on the way back, and remembers where the last key went; `unmap_key` merges;
seven cursors walk it, giving the guard back at every row. It is right when a
search finds what was mapped, the degree agrees with the list, and a walk delivers
every key it should once and in order.

**Log index, sequences** (not modelled). Runs that are merged and freed; a counter
row behind a mutex of its own.

### The streams (`src/StreamIO`)

**Mapped streams** (`MapBuf`). The store's files are memory-mapped; the writing
stream makes the file longer ahead of itself, in chunks, and cuts it back at a sync
or a close; the reading streams have mappings and lengths of their own, which go
stale. It is right when the streams are one file, and nothing outside the mapping
or past the end of the file is touched.

### The servers

**Thread pool** (`src/Threading/threadpool.cpp`; `ThreadPool`): workers, a queue, a
limit, a condition variable, `discharge` that drains or drops.

**Accepting server** (`src/SocketIO/tcpserver.cpp`; `TcpServer`): a thread that
accepts and hands descriptors to the pool, another that shuts it down.

**HTTP server** (`src/HTTP/httpserver.cpp`, `httpresponse.cpp`, the page handler in
`src/ziguratip/loadzeytun.cpp`; `HttpServer`): the loop of one connection, a
transaction for each request, heads flushed early, errors at any point. It is right
when each request has one answer, in order, and the answer tells the truth about the
transaction.

**Sessions** (`src/HTTP/session.cpp`; `RpcPool`): a map of cookies, a thread-local
current one, expiry.

**RPC transaction pool, connector, binary server** (`src/Connector`,
`src/ziguratip/loadzigurat.cpp`; `RpcPool`): connections that outlive one request,
named by the transaction they carry, with an owner and a limit; at the other end a
thread for each, with a transaction in a scope. It is right when nobody reaches
another's transaction, every connection is accounted for, an answer is true, and
staged work ends.

**Engine sessions** (`loadzigurat.cpp`, `engine.cicili`): a connection begins a
transaction, calls procedures, commits or rolls back, and retires the transaction
when it goes. In `Mvcc` this is the order in which a session calls the engine.

**Library and model pools, main program, Parsi compiler, types, encodings,
cryptography, TLS**: sequential translation and I/O; out of a model checker's reach
or without behaviour of their own, and listed so.

### How they interact

A client's connection is queued by the acceptor and served by a worker; the page it
asks for runs in a transaction of that worker's thread, or reaches one that an
earlier request left in the pool, on a thread of the binary server. Either calls the
engine; the engine takes the guard; a cursor holds it from one row to the next and
gives it back around the callback, which is the procedure's own code and may call
the engine again (that is how updates and deletes happen); `check_lock` gives it
back between any two looks at a row; a commit holds it from its first write to its
last. So the interleavings that matter inside the engine are those of guard holds,
and these are the steps of `Mvcc` and of `BTree`'s walks; inside a hold only a crash
can interfere, and that is what `CommitRecovery` and `MapBuf`'s `Kill` open up. The
guard is also why a call of a mapped stream is one step.

`PROJECT.json` lists every component and 40 hazards, each at its line, with the
properties that watch it.

## 2. The modules

### Mvcc

State: `ver[a]` is the control block at an address, `used` the addresses handed
out, `live` the registry of live transactions, `slot` the `serialize_counter`,
`clock` the last stamp written. Each session has its transaction (`id`, `open`,
`init`, `qtime`, `qid`, `level`, `ctx`), its cursor (`pos`, `at`, `got`) and its
wait (`op`, `new`, `seen`). `due` and `base` are history: what a statement must
deliver, and what was current when the transaction began.

| action | code |
|---|---|
| `Begin`, `Continue`, `StageNeedsTransaction` | `begin_transaction`, of an open transaction too (it goes on with its id, its level and its statement's instant reset), and the lazy begin of the first stage after a commit |
| `SetLevel` | `set_isolation_level`; SERIALIZABLE is a semaphore of one |
| `Commit`, `End` | `commit_transaction`: flip, successor stamps; then, the guard given back, retire and reset |
| `Rollback` | `rollback_transaction` |
| `Abandon` | a thread that goes without ending its work: its id leaves the registry, its stages stay |
| `StmtBegin` | the `Statement` scope: query time and query id |
| `ReadNext` | the cursor at a level that writes nothing: RU, RC, SNAPSHOT |
| `StampNext`, `CheckNext` | the cursor at RR and SERIALIZABLE: an unlocked row is stamped shared, a locked one put to `check_lock` |
| `CallbackReturn`, `CallbackStop`, `ScanEnd` | the callback's answers, the end of the walk |
| `Insert`, `UpdateStart`, `DeleteStart` | the staged writes, up to the first load of `check_lock` |
| `ReadGranted`, `ReadSkipped`, `UpdateGranted`, `DeleteGranted`, `WriteRefused` | what becomes of the answer |
| `Restart` | a repeatable read whose row changed under it: partial rollback and another walk |
| `Reload`, `BreakStale`, `GiveUp` | waiting, the breaker of locks whose owner is dead, the timeout |
| `Truncate` | `memory_truncate` |

`check_lock` is two steps on purpose: the code loads the control block, gives
the guard back, and decides on the copy. The copy is `seen`.

Abstractions: a table is one page; time is counted in stamps; a query id is a
negative number so that it cannot be an address; row contents, indexes, record
sizes, offline writes and autocommit are left out. The field `row` is not stored by
the code: it names the row that a version is a version of, for the properties.
`BeginsFirst` says that the layer above begins before it stages or sets a level, as the scope of
a page does (`loadzeytun.cpp:94`) and the start of a connection to the binary server; such a
connection leaves the transactions after its first to their first stage, and `level.cfg` shows what
that costs. It does not say that a transaction is begun only once.

### StreamsGuard

State: the rwlock (`writer`, `readers`), the gate's `waiting`, `dirty` (bytes in the
canonical streams and not in the files), and for each thread the stack of its
`Streams` objects and callback windows, the two thread-local names (`held`,
`shared`), and where in `lock()` it is. Actions follow `lock()` one synchronisation
at a time: `Enqueue`, `WrLock`, `Granted`, `StandDown`, `RdLock`; then the scope:
`Construct`, `Destroy`, `WindowOpen`, `WindowClose`, `Throw`, `Write`. A guard of
kind `read` is a constructor that finds `tl_want_shared` set and the thread
eligible. The end of a scope that holds the lock exclusively is three steps of its thread, in
the order of `unlock()`: the guard goes (`Destroy`, `WindowOpen`, `Throw`), the canonical streams
are flushed, the rwlock is released; others may act between any two, and the hazard is that a
reader gets in before the flush.

Where an exception is caught matters. `Throw` unwinds to code of a procedure: the
bottom of the stack, or a window that has let a guard go (`Procedure`). Engine code
inside a window over a guard it does not hold catches what its own callbacks throw
(`mvccs-lib.cicili:8303-8318`, whose comment says that an exception out of one would
leave the guard behind), and procedures never see a `Streams`
(`engine.cicili:17`). With exceptions caught elsewhere a guard would be left behind by
its scope and `GuardsCovered` is false; the window records whether it let a guard go
so that this case is told apart.

### CommitRecovery

State: the two files twice, as the process sees them (`cache`) and as the disk has
them (`disk`). `Plan(op)` is the list of writes and syncs of an operation, in order;
`job` is the operation that has the guard, its place in the plan, its transaction and
the rows it has still to visit. Each step is an action of `Do`:

| step | code |
|---|---|
| `list`, `free`, `blank` | the transaction's record allocated, freed, and written with no intention (`begin_transaction`, the end of `rollback_transaction`) |
| `add`, `replace`, `remove` | `control_insert`, `control_update`, `control_delete` on the next row |
| `intend`, `retire` | `write_transaction` with the commit's instant, and with zero |
| `flip`, `undo` | `commit_pointer` and `rollback_pointer`, a row a step, until the context is done |
| `data`, `hexmap` | the two halves of `sync_disk`, in its order |
| `opened`, `acked`, `over` | the call returns |
| `settle`, `sweep` | `memory_initialize`: a row left locked, a transaction record freed |

The mapped file puts a write in the page cache at once, so a `Kill` keeps every write
made. `dump_control` is several writes to two files, and a kill may fall between any two of
them: of the row that is being written (`Dumps`: by a stage, a flip, an undo, or by recovery)
it leaves any `Cut`, the hexmap bytes written or not and any of the fields written. A
`PowerLoss` keeps what is on the disk, which is what was synced and whatever the
kernel wrote back before (`WriteBack`). Either is followed by recovery, a job that
another crash can cut short. A row a transaction has inserted it may update or delete
again before it commits.

`AtomicStore` is what this is for: `Kept(cache)`, the rows a reader would find if the
process were killed now and recovery run, changes at the commit point by all the rows of
the transaction, and otherwise only by a crash: a power loss may harm rows whose commit has
not returned, and a kill at most one such row, the one that was being written. It counts
the crashes of either kind, so that one cannot pass for the other. `CrashesSpareTheRest` is this
promise and holds; `CrashesAreAtomic` is the stronger one, in which a kill harms nothing, and
the code does not keep it: in `torn.cfg` a kill between the bytes and the fields of a row leaves one
that recovery takes for settled, with the fields of a row that is not.

Abstractions: the two hexmap bytes of a control block are one cell, its fields
another; a time is zero or not; a row is locked by an exclusive stage; spans, page
headers, indexes and successor stamps are left out; no address is used twice.

### Allocator

State: `store.hex` is the hexmap byte of every chunk (six kinds: free, control and
data, each with and without the bit that ends a run), `store.page` the key each page
hangs from, `store.list` the free list; `pend[s]` is an update that has its span and
waits in `check_lock`; `rows` is history, the records written and not freed, with
whether their version has settled dead.

| action | code |
|---|---|
| `Insert` | `online_insert`, `offline_insert`: allocate, control bytes, data bytes, one hold of the guard |
| `UpdateAllocates` | `online_update` up to the guard given back in `check_lock` |
| `UpdateGranted`, `UpdateRefused`, `UpdateGivesUp` | the answer: `control_update` heads the record, or returns and `full_hexmap` runs all the same, or the timeout is thrown |
| `Die` | a version settles dead: commit of its deletion or replacement, rollback of its insertion |
| `Release` | `free_pointer` of one of the engine's own records |
| `Truncate` | `truncate_key`: `dead_pointers`, then every one of them freed |
| `Restart` | the page walk of `memory_initialize` |

`Allocate` and `FreePointer` are functions from a store to a store, so that
`truncate_key` applies the second once for each dead row, the highest address first:
`dead_pointers` puts each row it meets at the head of its list. `Walk` and `Holes` are the
two parsers of the hexmap, the cursor's (which is also TRUNCATE's) and start-up's,
translated as they are, with their different rules for where a record ends. They, and
`FreeAll`, are recursive functions of the chunk they stand at, with each branch tried in
the order of the code.

Abstractions: a chunk is the unit; a page has one control chunk; size classes and
the order in a chain are left out, and with them the limit of sixteen entries looked
at in a class; the entries start-up lists under `__FREE__`, which nobody asks for, are
left out; a data byte read as a control byte reads as a row that is not dead; the
salvage of a torn page and the refreeing of uncovered ones are left out.

### BTree

State: `tree` is the records (nodes, keys, the rows each key holds), the root and the
hint for appends; `walk` is the one open cursor; `content` is history, the keys
mapped and not unmapped.

| operator or action | code |
|---|---|
| `Place`, `Link`, `Joins` | the insertion into a node's list, which stops at `degree - 1` |
| `Split`, `Halves`, `Fits` | `bt_split_node` and the climb to the root |
| `MapRec`, `MapKey`, `Map` | `bt_map_rec`, `bt_map`; a key that is there is refused |
| `TailAsked`, `TailHolds`, `Remember`, `Forget` | the append hint: what is asked before and after it reads the leaf |
| `Combine`, `Merged`, `Shrunk` | `bt_combine_nodes` |
| `Unlink`, `Moved`, `UnmapRec`, `Unmap` | `bt_unmap_key_rec`: a leaf's key, or the successor moved up |
| `Drop` | `bt_drop_storage` |
| `Equal` | `bt_equal_rec` |
| `Enter`, `Turn`, `Run`, `Start`, `Continue` | the six walking cursors, from one delivery to the next |

A call of a walk keeps a copy of the key record it delivered and the address of the next:
these are what it goes on from when the guard comes back, and `Turn` uses the copy as
the code does.

Abstractions: the values chain of a key is one token (`rows`), so that a chain freed
twice or left behind is seen, and its links, the torn-chain checks and the cycle
detection over it are not; the index is unique and of one level; the record cache
and the deferred queue are left out; addresses are canonical (where a record lands says
nothing). `unmap_key` and `drop_storage` are not called while a walk is open: nothing
in the engine does so. A refused duplicate changes nothing.
A root that runs out of keys is replaced by its child and its node record is never freed:
`Balanced` allows exactly those records to be left over and no others.

### MapBuf

State: the bytes of the `file`; for each stream whether it is `opened`, the bytes it has
mapped (`capacity`), the length it believes (`size`) and its position; the writer's
`length`, how long it has made the file. `got` is what the last call read.

| action | code (`mapbuf.cpp`) |
|---|---|
| `Open`, `OpenEmpty` | `open`, with and without `trunc` |
| `SeekTo`, `SeekEnd` | `seekoff`, `seekpos`; from the end, a reader looks at the file again |
| `Read` | `xsgetn`, `uflow`: `refresh` where the call runs past the length it knows |
| `Write` | `xsputn`, `overflow`: `grow` in chunks, `reserve` what is mapped |
| `Sync` | `sync_to_disk`: cut back, then durable |
| `Close`, `Kill` | `close` with its `shrink`; a process that dies without it |

`Read` returns `-1` for a byte past the end of the file: the mapping is there and
touching it is a fault. `Addressed` says that readers ask for what was written: the
store reads records by address. Without it (`stale.cfg`) a reader that learnt the
grown length reads past the file after the writer has cut it back
(`mapbuf.cpp:207-214` refreshes only past the length it knows, and the comment at 96-99
takes lengths for ever-growing).

Abstractions: a page of the machine is one byte; a call is atomic because the guard
keeps writer and readers apart; an `mmap` or `ftruncate` that fails, `pbackfail`,
`showmanyc` and the get area are left out.

### ThreadPool, TcpServer, HttpServer

Each extends the one before, because the code does: the server owns its pool, the HTTP
server is the pool's handler. `ThreadPool` has operators for the pool's critical
sections (`Charge`, `Enqueue`, `NotifyOne`, `Take`, `Sleep`, `Leave`, `JobOver`, `Stop`,
`NotifyAll`, `Joined`); `TcpServer` makes them steps of the acceptor (`run()`), of
`shutdown(force)` and of the workers; the notification is a step of its own, after the
unlock.

| action of `HttpServer` | code |
|---|---|
| `ReadRequest`, `Refuse`, `ReadEnds` | `handle_client`: a whole request; one answered with a 4xx/501 and the connection ended; the client gone or idle |
| `FlushEarly` | a page's `FLUSH`: the head, once, in its turn |
| `Throws`, `Raises` | a `ZiguratException`; an `HTTPException` or anything else |
| `Commit` | the end of the page: the commit, which may refuse |
| `Answer`, `Report`, `FlushError` | the three ways a request is answered, and `~RequestScope` |

A descriptor is followed from `accept` to `close`. `taken`, `dispatch` and `heads` are the
request id, the dispatch id and the number of heads written on a connection. The
asynchronous mode runs the page in a thread that the same turn of the loop joins, so it
is the same steps.

An `accept` that fails hands its `-1` to the pool like any descriptor (`tcpserver.cpp:85-91`); every
accept fails once the listener is shut down. It is a client of the set `Failing`: it takes a
place in the queue and a worker, whose first read fails.

A client that sends nothing holds its worker, for ever if it likes: `tlsserver.cpp:30` opens with no
timeout, `http_timeout` is zero by default (`loadzeytun.cpp:28`), and zero waits indefinitely
(`socket.cpp:100-101`). So `ReadEnds` may happen at any time and never has to (except for what `accept`
failed to return), and `Served` says what can be promised all the same: as long as one worker
is not held for ever (`Held`: by a silent client, or by a page that hangs, section 5), who is
queued is taken up, or sent off by a forced shutdown; where none is, every connection that was
accepted ends and so does a shutdown.

Abstractions: `charge` is one step (the threads it spawns wait for the mutex it holds);
the kernel's backlog is
invisible (a client is `away` until accepted); one `run()` and one `shutdown()`; a page
is a sequence of at most two calls. What the model allows and the code does: a forced
shutdown drops the queued descriptors without closing them (`Dropped`), which `Desk`
calls sent off.

### RpcPool

| action | code |
|---|---|
| `Visit`, `Request` | `Session::EXPIRE` at the start of every request, and `INITIALIZE` |
| `Destroy`, `Release` | `DESTROY`; `RELEASE` in `~RequestScope` |
| `Connect`, `ReadId`, `Insert` | `RPCPool::open`: connects outside the guard, reads the id, registers under it or closes |
| `Held`, `Ask`, `NotHeld` | `held()` and the request written |
| `Hear`, `HearNothing`, `Forget` | the answer, or a read that failed; `release` |
| `Serve`, `Perform`, `Fail`, `HangUp` | the binary server: the queue, an operation that goes well, one that throws, a `TIMEOUT` or a hang-up, each through `~ConnectionScope` |

A read that fails leaves its variable unwritten; the model lets an id be any of `Junk`, and a
result either verdict or neither: then the page goes on reading from a stream that has failed,
for ever (`rpc.parsi:74-103`). A visitor, or a person with several browsers, may have any number of
requests under way. `OneInside` says only that no two of them are inside one connection. Without it
(`crossing.cfg`) `OnlyOwners` fails: `release` of one request closes the connection another
request of the same owner is waiting on. `held()` returns a `shared_ptr`
(`rpcpool.cpp:88`), so the connection object outlives this; its stream does not, for `release` (113-126)
calls `close()` on it.

Abstractions: the number of a connection is the id its transaction gets; `EXPIRE` and
`INITIALIZE`, and `held()` and the first write, are one step each; parameters and
results are left out; the limit is one, so that the branch of `Insert` for a name that is
taken is reached only together with the limit's. Nobody's timeouts are counted: they may
happen at any time.

## 3. The runs

| run | asks | states | time |
|---|---|---|---|
| `readers` | does a reader at READ COMMITTED, or at SNAPSHOT, read one instant while a writer inserts, updates, deletes, commits and rolls back between its rows? | 825 k | 29 s |
| `writers` | with two writers that claim different rows and TRUNCATE, is every row's current version unique, kept, and reachable? | 831 k | 23 s |
| `locks` | does every lock have an owner that will give it back, is staged work left alone, is one transaction at a time at SERIALIZABLE, does every wait end, when one session may vanish and a transaction may be begun again? | 465 k | 51 s |
| `guard` | is the guard a readers-writer lock under nesting, windows and exceptions, and is its gate live for both sides? | 29 k | 34 s |
| `crashes` | does the store change by whole transactions under a kill and a power loss, but for the one row a kill finds being written? | 916 k | 87 s |
| `spans` | does no chunk have two holders, is every record found and every free run kept, when an index, a truncated table and an updated table trade pages and the store restarts at any instant? | 34 k | 13 s |
| `btree` | do searches, records and undisturbed walks stay exact while keys are mapped and unmapped in trees of one to three levels? | 55 k | 41 s |
| `mapped` | are a writing and a reading stream one plain file, whatever is opened, cut, mapped again and killed in between? | 124 k | 15 s |
| `server` | is every connection served once and in order, no request answered twice or untruthfully, nobody left in the queue beside a free worker, and does a shutdown leave nothing, at any instant? | 97 k | 46 s |
| `rpc` | does nobody reach another's transaction, is every connection accounted for, is an answer that was read true, and does staged work end? | 900 k | 87 s |
| `twin` | *violated*: two writers of one row, not at SERIALIZABLE | | |
| `split` | *violated*: a node splits under a walk | | |

What the two violated runs show:

* **twin** (`OneCurrentVersion`). Two transactions at READ COMMITTED load the
  same unlocked row in `check_lock`, both are granted, and the second stage is
  written over the first. After both commits the row has two current versions.
  `doc/concurrency.md` promises one.
* **split** (`WalksAreWhole`). A key mapped in the callback of an index walk splits the
  leaf the walk is in. The walk goes on from its copy of the key, whose list now ends at
  the middle, and a whole half is not delivered, or a key is delivered twice. `WalkExact`
  is the same property of walks that no split has crossed, and holds.

Other configurations are kept beside the runs, to be run by hand:

| configuration | module | what it shows |
|---|---|---|
| `claims.cfg` | `MCMvcc` | `OneCurrentVersion` violated although both writers of the row write at SERIALIZABLE only: a begin on the open transaction resets its level and gives the slot back, and the other writer comes in before the first one's stages are settled |
| `snapshot.cfg` | `MCMvcc` | `SnapshotIsOld` violated: the walk passes a deleted row on to the version it had replaced without asking when it was replaced, and delivers one that was not current when the transaction began |
| `level.cfg` | `MCMvcc` | `LevelLasts` violated: a begin, that of a first stage after a commit or one on an open transaction, resets the level set by hand |
| `torn.cfg` | `MCCommitRecovery` | `CrashesAreAtomic` violated: a kill between the hexmap bytes of a control block and its fields leaves a row that recovery takes for settled (section 2) |
| `overlap.cfg` | `MCAllocator` | `SpansApart` violated: TRUNCATE frees the dead row before a span that an update has taken and not yet marked, and lists both |
| `stale.cfg` | `MCMapBuf` | `KeepsFile` violated: a reader with an old length reads past the file's end (section 2) |
| `crossing.cfg` | `MCRpcPool` | `OnlyOwners` violated: two requests of one owner inside one connection (section 2) |
| `hang.cfg` | `MCHttpServer` | `TurnsCome` violated: a page that raises after a `FLUSH` never ends (section 5) |

The passing runs are arranged around these: `writers` gives the two writers disjoint
rows, `locks` lets one session only write,
`DeliveredIsDue` is asked of READ COMMITTED, `crashes` excuses the row a kill finds being
written, `spans` truncates one table and updates another, `mapped` reads what was
written, `rpc` has no two requests inside one connection, and `Served` counts a page of `server` that
hangs among what holds a worker.

### Bounds and why they are enough

`Mvcc`: two sessions, since every hazard listed for it is between two; two to four
addresses, so that an update has a row, a replacement and something else on
the page; three transactions, so that a session's second transaction meets what
its first left; one statement each, two for the writer of `readers`, which updates
and deletes the same row between two rows of the reader's walk. `MaxTxn` and
`MaxStmt` are the only bounds; when they stop every session the model stutters
(`Done`), so deadlock is checked.

`StreamsGuard`: a writer one scope deep, a reader two deep, a thread that does both
four deep (guard, window, guard, window); two stand-downs, so that the bound is
reached. The code's `GATE_STANDDOWNS` is larger; nothing depends on it but the
length of the wait. The safety properties are proved for every depth.

`CommitRecovery`: two transactions of one stage each (an update is two rows), three
addresses, one kill and one power loss in either order, so that a crash falls in the
middle of recovery from the other, and the kill cuts every dump at every byte. Transactions and unused addresses are
symmetric; no liveness is checked under symmetry. `torn` needs a second stage and no
power loss.

`Allocator`: two pages, so that a page is emptied, given back and rekeyed while the
other is in use; ten chunks behind the page's control chunk and records of three, four
and five, so that a page has up to three records, a freed one has a free run on either
side, both or neither, a span is taken whole or split, and a leftover is too short for
anything. `CONTROL_COUNT` is two, so that a control block has a first chunk and
a last. The updated rows have more data chunks than control chunks (section 5 says
what the others do). `overlap` is one table on one page.

`BTree`: `MinDegree` 2 and `MaxDegree` 4, as in `src/MVCCS-cicili/tail-check.cpp`, so
that a node splits at its fifth key and merges below its second; four trees to begin
with: a leaf with room for one, a full root, three levels with as few keys as there can
be, and the same with a full leaf; then any two maps, unmaps or drops over twelve keys, so
that a split climbs two levels to a new root, a merge is split again, and a tree
loses a level. One walk at a time: walks do not change the tree.

`MapBuf`: files of up to four bytes and a chunk of two, calls of one or two bytes, one
reader; a call falls short of a chunk, fills it, and crosses it, and the mapping is
reserved again. Two readers share nothing the writer does not.

`HttpServer`: two workers and a queue of two with two clients and an accept that fails, so that a
client is turned away when an acceptor gets ahead, waits when both are busy, and is served by
whoever comes; two requests on one connection, so that one has to come after the
other's answer. Pages that do nothing, that flush and throw, that raise, that flush and raise.

`RpcPool`: a browser without a certificate and one with, two threads, a pool of one
entry, two sessions and two connections: a session is given up and issued anew, an open
meets the limit, a second open waits for a server that has one thread, and an id that was
not read coincides with a real one. Each of the two may have a request on both threads.

### Fairness

`Mvcc!FairSpec` assumes of a thread in `check_lock` that it goes on looking:
the loop sleeps ten milliseconds, loads the row, and counts towards
`lock_wait_timeout_ms`. `Reload` itself is not fair, so a wait cannot end by looking
alone. Nothing is assumed of commits, rollbacks or callbacks: `WaitEnds` holds
although the owner may never end.

`StreamsGuard!FairSpec` assumes weak fairness of each step of `lock()` (a thread that
can run, runs; of the rwlock only that a lock nobody holds is given to somebody
who waits) and strong fairness of leaving a scope at each depth: the code
inside a scope is finite. Spurious wakeups are left out: they only shorten a
stand-down.

`HttpServer!FairSpec` assumes that the acceptor, the thread in `shutdown` and each worker
run where they wait for no client. Nothing is assumed of clients, and no read ends by itself: a
silent client holds its worker, and the premises of `Served` say who is not held.

`RpcPool!FairSpec` assumes that the threads of the binary server run and that their reads end
(`TIMEOUT` of a TCP stream; a TLS stream has none, and what is said of `StagedEnds` is not
said of it). Nothing is assumed of visitors or pages: the premise of `StagedEnds` is that from
some time on nobody makes another call, not that anybody commits or comes back.

## 4. What is proved

Thirty-two theorems, each for every value of the constants under the assumptions that
the modules name (`ConstantsAssumption`, `GuardAssumption`, `MapAssumption`,
`RecoveryAssumption`, `AllocatorAssumption`, `PoolAssumption`, `ForcesAssumption`, `PagesAssumption`, `RpcAssumption`): any number of
sessions, threads, streams, pages, connections, depths and requests. TLC evaluates those
assumptions on every run.

Some of the theorems are of fewer behaviours than `Spec` has, and they say of which by a
condition on the steps and not on the constants: the case that the code gets wrong is left in the
model, with every value of the constants, and the theorem says that it is the only one. `Fresh`,
`Orderly` and `Uncrossed` below are these conditions; each has a counterexample behind it in
section 3.

**`MvccProofs`**

* `TypesHold`: `TypeOK`. The inductive invariant `TypeInv` adds `Placed`: a
  session inside `check_lock` or a callback has its `at` at an address, and one that
  waits to update has a `new` address. Without it `ver[at[s]]` has no type.
* `SerialGateHolds`: at most one transaction is at SERIALIZABLE, and the slot is
  taken exactly while one is. `GateInv` is inductive because the level and the slot
  change together in `SetLevel` and `Reset` and nowhere else (`LevelsChange`). It
  needs a default level other than SERIALIZABLE: `transaction_reset` would otherwise
  put a transaction at that level without a turn.
* `LocksAlwaysHaveOwners`: every lock belongs to an open transaction that has the
  row on its context. `LockInv` adds `PushedFirst`: a session that waits to write has
  its rows on its context already (`online_update` pushes before it waits).

**`MvccRowProofs`** goes on from there, to what readers see and writers leave. Eight
theorems, each under the least that the counterexamples leave standing:

* `UnbornIsNeverShown`: for every instance.
* `NothingComesFromTheFuture`: under `BeginsFirst` and without TRUNCATE.
* `StagedStaysAlone` (`StagedIsLeftAlone`) and `WhatIsCommittedStays` (`CommittedStays`): for every
  instance, any sessions that write the same rows, any levels and TRUNCATE included, in the
  behaviours in which a writer or the breaker decides on a row that is still what it loaded
  (`Fresh`, a condition on the step of `UpdateGranted`, `DeleteGranted` or `BreakStale`).
  `check_lock` gives the guard back between the two (`mvccs-lib.cicili:2337-2338`), and `twin`
  shows what it costs where the row has changed; displacement of shared stamps, the breaker,
  partial rollbacks and the timeouts cost nothing. The invariant `Clean` says what an address
  holds that is not in use, or allocated for an update and not yet written, and that a row that
  is staged to go is under an exclusive lock. `OneCurrentVersion` does not follow from `Fresh`:
  a writer is granted a row that was superseded while it waited.
* `StampsAlwaysReach` (`StampsReach`) and `WhatIsDeliveredIsDue`
  (`DeliveredIsDue`): under `Apart`, which is `BeginsFirst`, `ClaimsDisjoint`, no session at
  a level that locks what it reads (REPEATABLE READ, SERIALIZABLE), and no writer at
  SNAPSHOT where that level may write. `twin` is the counterexample with a row that two
  sessions write: both load its control block before either locks it.
* `NoRowIsReadTwice` (`NoRowTwice`) and `NothingIsSkipped` (`NothingDueIsSkipped`): under
  `Apart` and without TRUNCATE.

The constants of the runs `readers` and `writers` satisfy `Apart`. The inductive invariant is
`ApartInv`, of three parts. `Base` is what holds without `ClaimsDisjoint`. `Rows`
says what the versions of a row are to each other: the fields of a control block agree
(`Shape`); one version of a row is committed and one is coming at most (`OneOfEach`); one that is
coming replaces one of its row that is going (`Replaced`); who holds a row has a claim on it
(`Claimed`). `Sessions` says, of each session, that its level is one of its own
(`Levelled`), that what is on its list is its own, blank or about to be decided
(`Listed`, `ListsApart`), that what `check_lock` loaded is still so (`Writing`), that what it was
handed is current (`Handled`), and that none of its rows dies under its cursor (`Died`).
There is a lemma per action and part (`RowsStep`, `SessionsStep`). `NobodyWaits` is what
disjoint claims buy: `check_lock` answers at once, so that nothing read before a
wait is used after it.

The delivery theorems then follow one cursor. `Outcome` is what a step makes of a version;
`ReadBefore` and `ReadStill` say that no step of another session makes a version readable, or
unreadable, to a statement that has begun: the isolation of READ COMMITTED in two
lemmas. `Walk` ties what was delivered to the place of the cursor. At SNAPSHOT the cursor
follows references to older versions by a recursive function. References lead nowhere
in a circle (`Ranked`), so the walk is defined (`WalkIsDefined`), and what it promises is shown for
the least address at which it could go wrong.

**`StreamsGuardProofs`**: `NamesAreTheLock` (the refinement of `RWLock`),
`EverythingUnderTheGuard`, `ReadersNeverStale`, `NobodySleepsForNothing`. The invariant
`GuardInv` says what the code relies on and states nowhere: `StackOK`, that a guard takes
the lock exactly where procedure code constructs it (at the bottom, or in a window that
has let one go) and any other is nested; `NamesOK`, that the two thread-local names are the
topmost guard that holds the lock and nothing where none does; `LockInv`, that the rwlock
is held by exactly the threads whose names say so; `QueueInv`, that the gate's count is the
writers between announcing and being granted. Exceptions are the hard case: they cut the
stack, and the names are right afterwards because they are caught only where the stack
below is one that `StackOK` describes.

**`CommitRecoveryProofs`**: `NoRowIsLeftLocked` and `CrashesKeepWholeTransactions`. The
invariant has two parts, and TLC checked both before they were proved.

* `LockInv` says who will take each lock off. `JobOK` ties the place in the plan to the
  phase of the transaction and the rows still to visit; a control block names only a
  transaction that touched the row (`Signed`, of both files: a crash exchanges one for the
  other); an open transaction has on its context whatever it touched (`Remembered`); and
  a locked row belongs to such a transaction, or to one that is ending and has the row
  still to visit (`Owned`), except while recovery settles rows. It needs no assumption: a
  dump cut in two leaves a lock that names somebody or nobody, and recovery takes both.
* `StoreInv` says what is where at each step. Only a commit between its commit point and
  its return has an intention, in either file (`Intended`); an open transaction has its
  record and every row it touched locked for it (`Enlisted`, `Holding`); a row about to be
  staged is still as it was granted (`Ready`); a commit's rows are held until they are
  moved, settled after it, and equal on the disk after the second pair of syncs
  (`Committing`), and its intention outlives that (`Intent`). `Past` is what no crash can
  take back: in both files, rows removed by an acknowledged commit are dead, rows of one
  and of the start that nobody in doubt touched are committed, and any other row is
  invisible. The refinement follows: the sync before the first row moves makes a
  row's record and not the row decide, and the sync before the intention is retired makes
  the row decide as its record did.

A dump of a control block may be cut anywhere by a kill, and no assumption is made of it: what a
cut leaves of a row (`Remains`) is a row in doubt, of a commit that has not returned, and `Past`
says nothing of those. So the refinement is `CrashesSpareTheRest`, the store in which a kill may
harm the one row that was being written; nothing more than that row is lost, and never one
of a commit that has returned, recovery cut short by another kill included.

**`AllocatorProofs`**: `AlwaysApart` (`SpansApart`), `AlwaysWhole` (`RunsAreWhole`),
`AlwaysComeBack` (`PagesComeBack`), `AlwaysFound` (`RowsAreFound`) and
`RestartAlwaysFindsAll` (`RestartFindsAll`), all from the inductive invariant `AllocInv`
(`AlwaysAllocInv`; also `AlwaysTyped`). All are of the behaviours whose steps are `Orderly`:

* `FreesTight`: a row is freed, by its address or by TRUNCATE, from a page where each free chunk is
  of an entry of the list whose end the hexmap marks (`Tight`): none is a span that an update has
  been allotted and has not written, be it waiting, timed out, refused or lost with its
  process;
* `RefusesLong`: an update is refused only if its row has more data chunks than control chunks.

Tables may be updated, freed from and truncated, all three, and the rows be of any size; in a store
that frees from no table it updates, as in `spans`, every page it frees from is tight. What
happens in the other behaviours is known: `overlap` has two entries over one chunk, and section 5 has the
short rows. It is not enough that the free chunks are listed: once an update's span is lost,
a restart lists it again, but no byte marks its end, `free_pointer` takes it for the
start of whatever is freed behind it, and two frees later entries overlap. So the damage of a
timed-out update outlives a restart.

The invariant has three parts, and TLC checked them, and the properties, under `Orderly` with tables
that are both updated and truncated and rows of either kind before they were proved.

* `Sound`: the hexmap, the free list, the records and the spans that wait agree on
  every chunk. A record's bytes are a `Unit`: control bytes, data bytes and one end, and
  nothing before it that a walk could take for one. An entry, or a span that waits, has
  only free chunks. Nobody shares a chunk (`Disjoint`). Whatever is allocated in a page is
  made of units, each behind a byte that ends one or is free (`PageOk`): this is what brings
  both parsers to the next record, and it speaks of the data bytes of a refused update too, which
  are no record of anybody. A byte that ends a hole has nothing free behind it.
* `Whole`: in a page of a table without updates each entry is a maximal run, ends in a
  byte that says so, and leaves no free chunk out (`Closed`), and something in the page is
  allocated (`Entire`). `free_pointer` needs the page it frees from closed: `free_prev_count` and
  `free_next_count` read the hexmap, the entries it erases are looked up by address, and only
  if runs and entries are the same does it erase what it has swallowed (`Coalesces`,
  `Covered`, `Erased`). A page of an updated table is closed at the times when it is tight
  (`TightIsClosed`), and closed again after the free (`FreeKeeps`), so that one TRUNCATE may free all its
  dead rows.
* `Waits`: a span waits for one session, and it is of an updated table.

The lemmas about the parsers need no library
theorem with an operator for a parameter: that such a recursive function is defined is shown
by the least number of chunks, from the end of the page, for which there is none
(`WalkExists`, `FreeAllIsDefined`), and that it finds what it must by the last chunk at which it
can be on its way there (`WalkFinds`, `HolesCover`).

**`MapBufProofs`**: `StreamsStayInBounds` and `StreamsAreOneFile`, the refinement of
`PlainFile`, under the assumption `Addressed`. `MapInv` is types, `InBounds`, `Bounded` (lengths and positions stay within
the longest file and a chunk) and `ZeroTail` (what lies behind the written bytes is zeros: without it
growth after a kill would bring old bytes back).

**`HttpServerProofs`**: `ShutdownIsClean` and `ServerKeepsPromise` (the refinement of
`Desk`) from `AcceptInv`: a connection is with the acceptor, in the queue or with one
worker and nowhere twice (`JobsApart`), each of these is open (`HeldOpen`), where the
acceptor and the shutdown are agrees with the pool's flags (`Phases`), and only a forced
discharge drops one (`NobodyDropped`). `EveryRequestHasOneAnswer` (`OneAnswerEach`: none twice, none out of turn, and a success only from
a committed transaction; not that an answer comes) from `PageInv`: a
worker's heads and turns agree with where it is (`InTurn`, `CountsClose`), a thread
carries nothing from one request to the next (`CarriesNothing`), and a connection
nobody serves yet is as it was accepted (`Fresh`). It holds of pages that raise after
a `FLUSH` too: such a page hangs, it does not answer twice.

**`RpcPoolProofs`**: `NoConnectionIsLost` from `PoolInv`: what a request holds agrees with
its stage (`Requests`), every entry is a connection that was made and not closed, no
two the same (`Entries`), one that is being opened is in no entry (`Making`), and these are
all (`AllKnown`). `NobodyElsesTransaction` (`OnlyTheirs`, which is what `OnlyOwners` says about whose a
transaction is) follows from it too, without an assumption: any number of requests of a person
at once.

Two theorems are of the behaviours in which no two requests are inside one connection at any
time (`Uncrossed`; a state predicate, not a limit on how many requests a person may have).
`OnlyItsOwnRelease` (`OnlyOwners`): what a request found in the pool stays there (`Found`), so what
takes a connection from a request is a second request of its owner in the same transaction
and nothing else: no expiry, no timeout, no `open` and no thread-local session left over.
`AnswersAreTrue` from `TalkInv`: on a stream that works there is something on the wire only
while somebody waits for it (`Quiet`), it is that request or a true answer to it (`Spoken`), and a
thread of the server has lost nothing it was not told to roll back (`Upright`).

Only model-checked: `SnapshotIsOld`; `OneCurrentVersion`; what `Mvcc` promises to sessions outside `Apart`, at
REPEATABLE READ and SERIALIZABLE or with rows that several write, and the last two delivery
properties under TRUNCATE. Out of the
prover's reach: liveness (`WaitEnds`, `WritersGetIn`, `GateOpens`, `Served`,
`StagedEnds`) and ENABLED; and `BTree`, whose operators are recursive as the code is
(`Searchable`, `Balanced`, `WalkExact`). (The proofs do use well-founded orders, for the
least of a set of addresses or chunks; the library's theorems that take an operator as a
parameter cannot be used.)

## 5. What is not modelled, and what was seen on the way

Not modelled: the components of section 1 so marked. Inside the modelled ones:
offline writes and autocommit in `Mvcc`, a table of several pages, the point reads by
pointer, the private read streams' refresh, the registry's 512 slots, torn pages, the
deferred index queue, indexes of several levels or that are not unique, the wire format.

Seen in the code and not stated as a run, each a hazard in `PROJECT.json` or a case
the model contains and no property judges:

* The breaker decides on the copy `check_lock` loaded and then reloads the row before it
  undoes it: work staged by a live transaction in between is undone
  (`StagedIsLeftAlone` allows `BreakStale` any stage for that reason).
* An update inside a callback that opens the transaction lazily zeroes the running
  statement's instant and id: the statement then meets its own new rows, and a
  restart undoes everything.
* A level lowered in the middle of a transaction that has staged at SERIALIZABLE gives the
  slot away: another writer enters and the two can fork a row.
* SNAPSHOT can deliver a row twice after an update that was rolled back, and shows
  a row inserted and updated in one transaction by its middle version.
* REPEATABLE READ can deliver a row twice or not at all when a writer replaces it
  between two of its rows.
* TRUNCATE frees versions a running statement is entitled to (`doc/concurrency.md`
  warns of it), and a freed address used again is reached through a reference left
  behind.
* A power loss between the sync of the data file and that of the hexmap file, in a
  commit's first sync, leaves an intention without some of the rows it licenses:
  `AtomicStore` allows a power loss to harm a commit that has not returned.
* A kill between the control bytes and the span of an insert stops recovery's walk of
  that page (`Holes` has the branch; no action of `Allocator` falls inside an insert).
* An update that `check_lock` refuses marks the data chunks of a record that has no
  control block. With no more data chunks than `CONTROL_COUNT` (48 bytes), every walk
  takes that run for a control block and the record behind it for its data:
  `RowsAreFound`, checked alone, fails in five steps when `spans` is run with `cells` rows
  of two chunks.
  The cursor's comment says that a record's first chunk always carries the high bit and
  a free chunk never does; here the first chunk of what is found is a data chunk.
* A lock wait timeout in an update leaves its span in no list until the store is opened
  again; in a table that is truncated, the next free of a neighbour takes it in whole
  and leaves the entry behind it listed twice (`overlap` reaches this too). A restart lists the span again, without a
  byte that marks its end, and two frees behind it give overlapping entries once more.
* `flush_error` waits until its request's turn comes (`httpresponse.cpp:81`) without asking
  whether the head is already out: after a `FLUSH` the turn has passed, so a page that
  raises then waits for ever on its own condition variable, and the worker, the client and a
  shutdown that drains wait with it (`hang.cfg`).
* `doc/configuration.md:125-128` says that connections past `POOL_SIZE` are not refused;
  `tcpserver.cpp:24` sets a queue limit of four times that, and past it the client's
  connection is closed (`TurnAway`).
* A forced shutdown forgets the queued descriptors: they are closed by the end of the
  process.
* A read that failed in the connector yields whatever was in the variable: an open may
  register a connection under a name that is not its own, and a commit nobody answered may
  be reported done. `TrueAnswers` speaks of answers that were read.
* A B-tree root that runs out of keys leaves its node record behind for good.

## 6. Plan

Done: the engine's transactions, guard, recovery, allocator, unique index and streams;
the servers, sessions and transaction pool around it; four abstract specifications with
their refinements; the proofs of section 4. What is left, in this order:

1. The index inside a transaction: the deferred queue of entries applied at commit and
   dropped at rollback, value chains, then `BTree` against an ordered map that changes at
   commits.
2. The log index (runs freed after a commit's first sync, merges) and the sequences, each
   with the abstract map it implements.
3. A composition of `Mvcc`'s levels with `StreamsGuard`: a cursor decides once that it may
   share the guard, and a callback may raise the level.
4. Proofs: `SnapshotIsOld`, over the references of several versions; what is left of `Mvcc`
   outside `Apart`, beginning with a reader at a locking level; `BTree` with its searches as
   recursive functions.
