# atomic_http in TLA+

TLA+ models of the parts of atomic_http in which order, concurrency and limits decide what happens, the TLC runs that
check them on small instances, and theorems that TLAPS proves for every instance. Paths are relative to the
repository; line numbers are those of the commit the models were written from.

| File | What it is |
| --- | --- |
| `ConnectionPool.tla` | the connection pool, its tasks and its counters |
| `PoolPromise.tla` | what the pool promises its users; `ConnectionPool` implements it |
| `PoolLifetime.tla` | the pool with the time since each connection was established |
| `PoolRuntime.tla` | the pool on a runtime with a fixed number of worker threads |
| `ConnectionPoolProofs.tla` | theorems about `ConnectionPool` |
| `PoolPromiseProofs.tla` | theorems that relate `ConnectionPool` to `PoolPromise` and `PoolRuntime` to `ConnectionPool` |
| `RequestReader.tla` | the loops that read a request from its connection |
| `RequestReaderProofs.tla` | theorems about `RequestReader` |
| `StreamingBody.tla` | `Body`, which a handler reads piece by piece or at once |
| `StreamingBodyProofs.tla` | theorems about `StreamingBody` |
| `FileCache.tla` | the cache of files that responders share |
| `FileCacheProofs.tla` | theorems about `FileCache` |
| `ResponseWriter.tla` | `Writer` and `ArenaWriter`: what a handler sets and how it is sent |
| `ResponseWriterProofs.tla` | theorems about `ResponseWriter` |
| `Server.tla` | what a `Server` shares: its options, its pool, the cleanup tasks on it |
| `ServerProofs.tla` | theorems about `Server` |
| `ByteSearch.tla` | the search for the end of a header, with and without vector registers |
| `HandlingProofs.tla` | theorems about `Handling`: its `Router`, its searches and its splits |
| `Forms.tla` | multipart forms: a client's, and the two readers that take them apart |
| `Router.tla` | routes, scopes and their dispatch |
| `Handling.tla` | `Router` and `Forms` as the parts of one program |
| `MC*.tla`, `*.cfg` | the instances TLC checks |

## 1. Inventory

atomic_http is a library for HTTP/1.1 servers on tokio: one connection carries one request, and the application
decides when to accept, parse and respond. It has these parts.

**Server and Options** (`src/lib.rs` 123-436). *State*: a listener and the options, behind an `Arc`. *Operations*:
`accept` clones the `Arc` into an `Accept`; `options_mut` (342) copies the options when a connection still holds them;
`enable_connection_pool` and `disable_connection_pool` replace the pool, `start_cleanup_task`, `shutdown` and `Drop` its
cleanup task; `init_global` and `global` make one pool for the process. *Hard*: connections accepted earlier keep the
options of then; the pool is in a public field, behind an `Arc` that any task may clone, and outlives the server; a task
is spawned before its handle is stored; a handle that is dropped lets its task run on. *Correct when*: a connection is
read and answered by the options it was accepted with, and each cleanup task ends with the pool it sweeps, not earlier
and not later.

**Request readers** (`src/helpers/traits/http_stream.rs`, entry points in `src/lib.rs` 463-564). *State*: the buffer,
where the header was found to end, the retry count, the time of the first read. *Operations*: reads of the header with a
deadline, a read timeout and a retry count; reads of the body up to `Content-Length`; four entry points (buffered,
arena, streaming, auto) that share the scheme and differ in what they count and refuse. *Interactions*: the socket;
`httparse`; the body left in the socket goes to `Body`; `max_body_size` and the timeouts come from `Options`. *Hard*: the
client's splitting of bytes into segments, its silences, ends and resets, in every phase; four copies of a loop that
ought to agree. *Correct when*: the header's end is found however the bytes are split; time and memory are bounded
whatever the client does; only complete headers are served; a body is cut short only for a reason.

**Streaming body** (`src/lib.rs` 608-797). *State*: leftover, stream, bytes consumed. *Operations*: `read_chunk`, `bytes`,
`into_stream`. *Hard*: it continues where a reader stopped, without that reader's timeouts and limits. *Correct when*: it
yields the announced bytes once, in order, and keeps to the caller's maximum.

**WebSocket upgrade** (`src/websocket.rs`). Reads headers like the other entry points, then upgrades or goes on as
HTTP. *Hard*: what was read beyond the header when it upgrades, which is dropped. *Correct when*: no read takes bytes of
the frames once the request is whole, so that only those that come with the header can be lost.

**Connection pool** (`src/connection_pool.rs`). *State*: a `DashMap` from addresses to deques of idle connections, each
behind a tokio mutex; atomic counters; the handle of the cleanup task. *Operations*: `get_connection`,
`return_connection`, `clear`, `shutdown`, the periodic cleanup. *Interactions*: tasks of the application, the cleanup
task, the map's shard locks, the runtime's worker threads. *Hard*: a reference to a deque outlives its entry in the map;
a shard's guard is kept across an await; futures are dropped half-way. *Correct when*: a user gets a connection that
was given back for the host it asked for; idle connections are lost for a cause only; hosts keep their limit; expired
connections are not handed out; pooling and shutting down do not deadlock; the counters say what they claim. (That a
connection is in one place at a time is the borrow checker's: a `TcpStream` is moved, never copied.)

**File cache** (`src/helpers/traits/zero_copy.rs`). *State*: a `DashMap` of files with their modification times, shared
by all responders. *Operations*: load, evict, clean up, clear. *Hard*: files change while they are read; capacity is
ensured and used in two steps by several threads. *Correct when*: what is served is some recent content of the file and
the cache keeps its limits.

**Response writers** (`src/helpers/traits/http_response.rs`, `ArenaWriter` in `src/lib.rs`). *State*: the bytes written
of header, body or file. *Operations*: respond from memory, a file or the cache; vectored writes. *Hard*: partial writes;
files that change between `Content-Length` and the last byte; headers and files that fail the response. *Correct when*:
exactly the announced bytes are sent, and an error of the library's own comes before the first of them.

**Router** (`src/router.rs`). *State*: a `matchit` trie per method, and while it is built the entries of the scopes whose
closures run. *Hard*: routes of a scope are noted down and inserted at its end, in another order than they were written,
with prefixes from several scopes. *Correct when*: a request goes to the route the program's text has for it, and only a
program whose routes exclude each other panics.

**Multipart and byte search** (`src/helpers/traits/bytes.rs`, `http_request.rs`, `Form` in `http_stream.rs`). Pure functions,
each twice: a search by windows and by vector registers, a form with owned parts and one of slices. *Hard*: markers
across the edges of chunks, empty pieces, bodies that were cut short and are delivered as if whole. *Correct when*: the
copies agree, and a form is returned as it was sent as far as it came.

**Path handling** (`src/helpers/traits/mod.rs` 59). `safe_path_join` accepts a path component by component, without state.

**Arena body** (`src/lib.rs` 801-892). Raw pointers into a bump allocator the value owns. *Correct when*: the ranges it
slices lie in the buffer it was given, which is a property of the reader that made it.

## 2. The models

### ConnectionPool

| Variable | In the code |
| --- | --- |
| `pools` | `ConnectionPool::pools`, from address to deque |
| `deque` | the `VecDeque`s, by a name for each `Arc`; an entry has a stream and an age |
| `user` | the locals of a task in `get_connection` or `return_connection`, or with a stream in hand |
| `clearer` | the iterator and the locals of `clear` |
| `job`, `doomed` | the futures of a cleanup, and `should_remove` of the one that is past its mutex |
| `stats` | the atomic counters, modulo `CounterMod` instead of 2^64 |
| `lost` | history: connections counted active that nobody will return |

A step runs from one point at which other tasks can come in to the next: an await, or an operation on the map.
A deque's critical section has no await in it and is one step. `PopUnexpired` therefore is the whole of the
`pop_front` loop with the drop of the expired entries; `ReturnPush` is the check of the limit and the push;
`ReturnEntry` is `entry().or_insert_with().clone()`, which needs the shard's write lock. The address is the caller's
(294): nothing compares it with the one the connection was asked for, so `ReturnEntry` takes any, and a user with a
connection in hand remembers none. Between `ReturnEntry` and
`ReturnPush` the task has an `Arc` of the deque and no guard: the map may forget the deque in between, and the connection
is then closed with it. A future can be
dropped at each of its awaits (`GetCancelled`, `ConnectFail`, `ReturnCancelled`, `ClearCancelled`, `SweepAbort`). `Settle` says what reference
counting does: a deque to which neither the map nor a task refers is freed with its connections.

The guards that `get_connection` (258) and `clear` (420) keep while they await a mutex are in the model as `ShardRead`:
nothing enters or leaves that shard of the map meanwhile. New readers are admitted even when a writer waits, which
allows more behaviours than the lock's queue does. `SweepCollect` takes a picture of all shards in one step; the code
visits them in turn without an await. Sweeps begin and are aborted at any time, and `shutdown` is an abort and a `clear`;
whose handle is where is `Server`'s matter.

`PoolPromise` is the pool as its users see it: a set of idle connections per address, at most
`max_connections_per_host`, any of which the pool may close; a user that has asked for an address (`asks`) is handed one
of that address's, alone, or a new one (`held`); a connection given back under an address becomes idle there or is closed. The
mapping takes the deques that `pools` leads to as the idle
connections: one pushed to a deque the map has forgotten is closed, as far as anyone can tell. `PoolPromise` lets the pool
close what it likes; `LeavesForCause` says of `ConnectionPool` itself for what an idle connection goes: to a user that
asked for that very address, to its age, to a clear that has come to it, or to a cleanup that removes its address.

`PoolLifetime` adds what the code does not keep, the time since a connection was established. `PoolRuntime` puts
the tasks on worker threads: a task on an await may leave its thread (when the mutex is contended, or when its
cooperative budget is used up and `CoopYield` is TRUE); a task that waits for a shard's write lock keeps it. Since a
user chooses the address only when it returns the connection, `entering` has the one whose `entry()` it is in.

### RequestReader

One connection, its client and the reader. Bytes are counted, not spelled: the header ends at byte `conn.hdr` and
announces `conn.cl` bytes (or none), and `Hits` is the search for the marker from where it may have begun in the bytes
before. `conn.mode` is the entry point; the header's loop is shared (`HeaderLoop`), with the differences of the four
copies in `Room` (how much is read), `Refuses` (what is rejected), `Expected` (whether the size is summed in `usize`) and
`HeaderDone` (whether the retry count goes on into the body's loop: only in the buffered reader). `httparse` may accept
or refuse what it is given (`Parsed`). With mode "streaming", or "auto" beyond `ArenaCap`, the reader stops after the
header in phase "stream".

`conn.ws` is a request that asks for a WebSocket, at an entry that may give it one (`stream_parse` and its variants, which
read like "buffered", "arena" and "auto"). Two of them decide when the whole request is read (`Upgradeable`), the third
after the header (`UpgradesFirst`), before it looks at the length. Phase "upgraded" is the handshake done; whether the
headers are those of an upgrade and whether the 101 response can be written are choices. The bytes taken behind the
header, `len - found`, are then dropped. `TakesOnlyItsBody` and `MemoryBounded` bound them; `GivesUpLate` says when a request may
be upgraded without its header's end.

The client sends a byte at a time, falls silent, closes or resets at any moment. A read returns what is there, in full
up to its room, and ends after `ReadTimeout` at the latest; time passes only while a read has nothing to return, that is,
a reader whose read is ready is polled at once. Times are counted in ticks. After a reset the socket may report the
error again or its end. The `WouldBlock` branches are left out: tokio's `read` never returns it.

### StreamingBody

`Body` from where the reader of the header left it (phase "stream"): `head.left` bytes of leftover, `Content-Length`
or none, `max_body_size`. Bytes are counted. `call` is the future the handler holds, with what `bytes` has collected
in it; `read_chunk` is `TakeLeftover`, `AtEnd`, `ReadSome`, `ReadEof` or `ReadError` in the order of its branches, and `Chunk`,
`End` and `Error` are what `bytes`, or the caller of `read_chunk`, does with what it returns. `into_stream` and the multipart
parser that is given it are callers of `read_chunk`. A call that is dropped (`Cancel`) or fails takes along what it has
collected; the stream of the `Body` is kept after an error and given up at its end.

### FileCache

`disk` has, for each path, which change made the file and its size; `Mtime` is the time of that change, which several
changes share when `Grain` is more than 1. A thread's steps are system calls (`Load` is `stat`, `ReadFile`, `MapFile`) and
operations on the map (`Lookup`, `Evict`, `Trim`, `Insert`, `PurgeOne`); between any two of them other threads and writers of
files come in. The two loops of `ensure_cache_capacity` are `Count`/`Evict` and `Sum`, then `Room`/`Trim`, where a victim is chosen
in one step and removed in the next, whatever is cached at its path by then. `usize` is modulo `Word`. A scan of the map
is one step, and times of access are left out: any entry may be the oldest, or have expired. `CacheAssumption` has
`max_cache_files` at least 1: with 0 the first loop never ends. It relates no other limits, as `CacheConfig` does not:
with `max_cache_file_size` above `total_cache_size_limit`, an entry that another thread inserts after `Sum` may be larger
than the sum, and `remaining_size -= evicted_size` (374) wraps (a debug build panics there). `Trim` wraps as a release build
does; the loop then goes on until the cache is empty.

### ResponseWriter

A byte is what it belongs to (header, text, bytes, file) and its position there; `wire` is what the socket has taken. `todo`
has the sends that `responser` or `responser_arena` has yet to make, each a sequence of slices, and `Rest` is the loop of
`send_vectored_generic` that finds where a partial write stopped. The setters come first, in any order, and share `body`
(`response_data` in the arena): a text, a path, or a path marked for the cache. `use_file` stays set when a text follows, as
in the code: the text is then taken for a path (`RespondStale`), of which there is no file.

`odd` says which header of the handler's has a value that is not visible ASCII: `value.to_str()?` (133, 159, 184, 251, 383,
411, 454) then fails the response, a text's or bytes' as well, while its header is put together (`Refuse`); the content type
of a file sent from the cache is replaced by the library's before, and refuses nothing. `FileCache` says which content
`load_file` returns; here it is a copy of that moment up to `CacheSize`, and a mapping above it (in the code, files of 1 to
10 MB). An open or mapped file is changed in place, or removed, while it is sent, any number of times. A mapping of a file that
was cut is undefined for the program that looks at it, but only the kernel does here: the system call
takes what is left of the last page, or fails (`Faults`), after bytes are out.

### Server

| Variable | In the code |
| --- | --- |
| `value`, `options` | allocations of `Options`, and whose `Arc<Options>` points to which: the server's, or an `Accept`'s |
| `held` | whose `Arc<ConnectionPool>` points to which pool: the server's field, `GLOBAL_CONNECTION_POOL`, a task's clone |
| `slot` | `cleanup_handle` of each pool |
| `sweeps` | the pool that each spawned cleanup task sweeps |
| `hand`, `doing` | a call that is between two of its steps, and the task it has spawned |

`options_mut` writes to its cell when nobody shares it and to a fresh one otherwise (`Editable`); the last owner of a cell
frees it (`Freed`). The last `Arc` of a pool runs its `Drop` (`Dropped`), whoever has it: a replaced pool, a handler's clone,
the pool of an `init_global` that came second. `start_cleanup_task` is two steps, `Spawn` and `Store`, except on a pool that
nobody shares yet (`Replace`, `Global`); `shutdown` and `disable_connection_pool` are one up to the `clear` they end in, and
`disable_connection_pool` keeps the pool until then (`Disabled`). Two flags stand for the options: one that a connection
reads, and the one that decides about the pool; the environment may set, garble or leave out each.

### ByteSearch and Forms

A body is a sequence of bytes, those the readers compare (`CR`, `LF`, dashes), `Byte` for any other and one that is not
UTF-8; a name, a file name and a line of the header are one token each. The client chooses the boundary (`ChooseBoundary`), a
sequence of bytes as well, dashes only if it likes. `Encoded` is what a client sends, as the repository's tests
encode it, with one more header line per part. `Hits` and `Rest` are the loop over whole registers and what it leaves;
`Sse2` and `Avx2` are their widths. `SplitStep` and `SplitStepArena` are the bodies of the two splits' loops, folded over
positions, `ReadPart` and `ReadPartArena` those of the two readers, folded over pieces.

`FormAsSent` compares what each reader returns with what the client sent, and says nothing of how: `Deliverable` has the
parts whose content is all there and, of a form cut short after `n` tokens, what may be left of the last one (`CutShort`); a reader returns
their texts and files in order, each with its own name and its own content, up to the newlines at its end. In that, both
readers differ from the comment at `src/helpers/traits/http_request.rs` 130 (section 4). `AddPart` refuses a content that holds the delimiter; the protocol
(RFC 2046) forbids that at the start of a line only, but the code looks for it anywhere. That the content type names the
boundary is assumed (without it both return early).

`SearchesAgree` compares the searches for the end of a header, and the pieces of the two splits that have a name. All pieces
would be too much: of the boundary `----` the delimiter `------` occurs twice in the closing mark `--------\r\n`, and
of an empty form `split_bytes` returns no piece and `split_bytes_arena` the piece `\r\n` (`src/helpers/traits/bytes.rs` 153-163,
196-206), which the reader of the arena passes over, as it has no name.

### Router and Handling

A path is a sequence of segments. `trees` is the `Router`; `scopes` are the `ScopeBuilder`s on the stack, each with its joined
`prefix` and, for the property only, its `own`; `written` is the program's text, in order. `Insertable` and `Best` are the `matchit`
crate as it documents itself: patterns conflict when they are equal or differ first in a parameter and a catch-all,
static segments come before parameters, and those before a catch-all, which needs a rest that is not empty. The code
joins prefixes as strings; a prefix here begins with `/`, so that segments are joined. `expect` ends the program (`panicked`).
`Handling` is a program that builds its router and is then sent a form. The two share no variable, so that forms are
only sent to programs of at most `MaxServed` routes.

## 3. The runs

| Run | Instance | What it shows |
| --- | --- | --- |
| `pool_all` | 2 users, a clear, a cleanup; 2 hosts in 1 shard, limit 2, 3 connections, 4 deques | expired entries in front, so that the loop in `get_connection`, which stops at the first unexpired one, is right; a deque whose mutex is awaited under a guard stays in the map; what an idle connection can be lost to; the pool implements `PoolPromise` |
| `pool_workers` | 2 users, a clear, 3 workers; 1 host, limit 1, 2 deques | with more workers than tasks that can block, no deadlock, and every guard is released; the limit per host, which two users can exceed; how `active_connections` drifts |
| `pool_deadlock` | 1 user, 2 clears (one a `shutdown`), a cleanup, 2 workers | *violated*: two blocked threads wait for a guard whose task has no thread left |
| `pool_sweep_race` | 2 users, a cleanup | *violated*: the cleanup removes a deque that was empty when it looked |
| `pool_lifetime` | 1 user, a cleanup | *violated*: a connection in steady use outlives `max_lifetime` |
| `reader_all` | headers of 2, 4 and 7 bytes around a limit of 5, bodies of none, 0, 2 and 5 bytes around the caps, word size 8 | the reader's bounds on time and memory, the header's end, what is taken from the socket, what a short body means, and that reading ends |
| `body_all` | lengths none, 0, 2 and 4 around chunks of 2, 0 to 3 bytes of leftover, maxima none, 2, 3 | reads stay in the body; `bytes(max)` keeps to `max`; what the end of a body means; when a call returns |
| `cache_all` | 2 threads, 4 paths, sizes 1, 5 and (not cacheable) 6, total limit 3, 1 change, `max_cache_files` 2 | what is served is as new as the file was at the call; the cache exceeds its count by less than its threads, and what one thread would leave by a file for each other one, though the sum of the eviction loop goes stale and wraps; loads do not starve each other |
| `writer_all` | both writers and builds, up to 3 setters, odd headers, 4 sizes around those of the cache, the mapping and the read, any number of changes of the file | bytes in order, all of them when `Ok`; the library's own errors before anything is sent; what is sent of what was set; that `responser` returns |
| `server_all` | a server and 2 tasks; 3 cells, 3 pools, 3 cleanup tasks | connections keep their options through changes in place and by copy; every cleanup task that runs is in the slot of a pool that somebody holds or about to be, and every handle in a slot is of a task that runs |
| `handling_all` | programs of 2 routes, 2 methods, 2 scopes deep; forms of 2 parts, 2 boundaries, one of dashes only, registers of 4 and 8 tokens | dispatch as written, panics just for conflicts; forms as sent, cut short after any token; searches and splits that agree |
| `reader_stall` | as `reader_all` | *violated*: the retries of a silent client run out before the default deadline, and what there is of the header is served |

**Bounds.** `PoolId` and `StreamId` bound deques and connections alive at once, not over time: names are free again when
what they named is gone. Connections alive to one host never exceed the users,
so that two users meet a full deque only where the limit is 1 (`pool_workers`) and fill a deque of two entries of
different ages where it is 2 (`pool_all`); 4 deques let the map drop and insert some for either host while both users still
refer to older ones.
`AgeCap` is one above the larger time limit, and ages beyond it are alike. `CounterMod` is 3 where the counters matter
(`pool_workers`), so that they wrap, as 2^64 does below zero, and 1 where they do not. A step moves the two sides of
`ActiveDrift` apart by two at most (`fetch_add` where the code has `fetch_sub`, or two counts that are missing), so that
modulo 3 the first drift shows in the state after it. In `PoolDeadlock.cfg` and `PoolWorkers.cfg` one host is
enough: a deadlock needs one shard. `MaxSend` in the reader exceeds every header that is accepted with what can follow
it within the body's chunk size, `MaxHeader` is 5 so that a header can be complete, incomplete or too long, and
`Word` = 8 makes `header_end + content_length` wrap. `MaxRetry` is at least 1: with 0 nothing is ever read.
In the body, `MaxSend` is one more than the longest length, and a leftover of 3 goes beyond a length of 2. In the cache,
three small files fit the total limit of 3, one above the limit of two files, and the file of 5 exceeds it
alone: an entry of 5 can come after a sum that has fallen to 4, which makes it wrap (this was seen in the run). With `Grain` 1 and one change a version is a modification time. `MCFileCache`
fixes the sizes at the start (1, 1, 5 and 6), and the change may give any file any size.
In the writer, the sizes 0 to 3 are copied, copied, mapped and opened, and at most and more than what is read at once; three setters include every
order of two after a first one. What `past` keeps of changes does not count them, so that there is no bound on them. In the server, three pools are the server's, the global one and one that is still in a
handler's hands, and three tasks let two starts race on one pool or a start with a replacement; where all are in use a
further start waits. Registers of 4 and 8 tokens make a marker of 4 cross every kind of edge, and the two boundaries give a delimiter that overlaps itself
and the closing mark, and one that ends like the mark;
`Contents` has the empty content, one that is not UTF-8 and ends in a newline's half, one that is itself the end of a header, and one with
dashes around a byte, where a delimiter could almost be. A scope in a scope needs depth 2, a conflict or a preference two routes.
`MaxServed` is 0: what a form becomes does not depend on the routes.

Tasks, deques, connections and allocations are interchangeable, so `pool_all` and `server_all` use symmetry; no liveness
property is checked under it. `CHECK_DEADLOCK FALSE` is only in the configurations of the reader, the writer and the
program, where a request, a response or a form comes to its end.

**Fairness.** `pool_workers` assumes that the scheduler polls every task that can run (weak fairness of `Schedule`) and
that a task that awaits a mutex gets it when it is polled again and again (strong fairness of `Pops` and `Empties`, which a cancelled await does not
satisfy): tokio's mutex
serves its waiters in order and its critical sections await nothing. Users are under no obligation to return
connections. `reader_all` assumes that a reader whose read has an outcome is polled (weak fairness of `Reader`) and that
time passes; nothing is assumed of the client. `body_all` and `writer_all` assume the same of a handler's future (weak
fairness of `Reader` and `Send`) and nothing of the peer, who may stall for ever: there is no timeout. `cache_all` assumes that
the operating system runs every thread (weak fairness of `Run(t)`); none waits for another but for one operation of the map.

## 4. What the runs found

- **Deadlock** (`src/connection_pool.rs` 258, 374, 427). `get_connection` keeps a shard's guard while it awaits a
  mutex. If its task is suspended there, `pools.clear()`, `pools_ref.remove()` and `entry()` block their threads on that
  shard; with as many of them as the runtime has workers, the task that has the guard never runs again.
- **The cleanup removes a deque that is not empty** (371-374). It decides under the mutex and removes after it; a
  connection returned in between is closed, although its host has no other. `LeavesForCause` names this as one of
  the causes; the pool still keeps `PoolPromise`, which lets it close idle connections.
- **`max_lifetime` does not limit the lifetime** (321). Each return makes the metadata anew, with `created_at` = now.
- **Incomplete headers are served** (`src/helpers/traits/http_stream.rs` 659, 720, 1032). The default deadline is
  `read_timeout * (max_retry + 1)`, and `max_retry` silent reads end the loop before it.

Three more are stated as the exceptions of properties that hold. `WholeWhenOk` excepts a file that changes or cannot be
read while it is sent: the loop in `src/helpers/traits/http_response.rs` 151 ends at an error as it does at the end, and
`responser` returns `Ok`. It also excepts an `ArenaWriter` with `use_file` and an empty text, to which `responser_arena` (347)
sends no byte, not even a header. `EndedWhenWhole` excepts calls of `bytes` that failed or were dropped: a later call
returns the rest of the body as if it were all.

Of forms, `FormAsSent` has what both readers keep, and these are the places where they do not return what was sent.
`get_multi_part` takes *all* newlines off the end of a content (`src/helpers/traits/http_request.rs` 131-136), also those the
client sent, where its comment (130) speaks of the separator before the boundary; `get_multi_part_arena` leaves that separator
on every content. Hence "up to newlines at its end". A file with an empty name is dropped by the one and kept by the other.
A header that is not UTF-8 costs `get_multi_part` that part and `get_multi_part_arena` the form. Of a form cut short the last
field may be returned with the content that came; one cut within a header is dropped by the first, and may be a file without
content to the second. The boundary is found anywhere, not only at the start of a line.

`FailsClean` excepts a mapped file that is cut while it is sent, which fails a response that is half out, and `Returns` a file
that is appended to for ever: `responser` reads to an end of file (151) and never compares with the length it has announced.

Two disagreements are noted without a run. `bytes(None)` is unlimited (`src/lib.rs` 741-742), while the comment of
`max_body_size` (626) says it is `bytes(max_body_size)`. `get_json` and `get_text` read what is buffered, and their comment
(`src/helpers/traits/http_request.rs` 36-37) has a streaming handler call `bytes` first; `bytes` hands the buffered bytes out,
and leaves none.

`ActiveDrift` states what the counters do say: `active_connections` plus `pool_hits` is the number of connections
checked out plus those lost, modulo the counters' size. A hit does not increment `active_connections` while every return
decrements it, so that reuse takes it below zero.

## 5. The proofs

The theorems are of the form `Spec => []P`, or `Spec` implies an action property or another specification (but for
`SearchesFindTheFirst` and `SplitsAgree`, which are about operators), for any number of tasks, hosts, deques and connections and any values of the
constants that satisfy the assumptions of the modules. `PoolAssumption`, `RuntimeAssumption`, `ReaderAssumption`, `BodyAssumption`,
`CacheAssumption`, `WriterAssumption`, `ServerAssumption` and `WidthAssumption` say that names of "nothing" are not names of something, and
that limits are natural numbers; `RouterAssumption` that patterns and prefixes are sequences of segments, none of which is the mark of a
path's end, and that a parameter is not a catch-all; `FormAssumption` that names are not the marks of what is not found, and that
contents and boundaries are sequences of bytes; `UsersFinite`, `ThreadsFinite` and `TasksAssumption` that there are finitely many tasks and
threads at a time, each of one kind. TLC evaluates them in every run.

`ConnectionPoolProofs`:

- `TypeCorrect`: `TypeOK` is inductive by itself, with one lemma per kind of task. It says in which states a task has an
  address, a deque and a stream, on which the other proofs rest.
- `CapacitySafe`: `StepDequeEffect` says all a step can do to a deque: cut it to a suffix, push at its back an entry of
  age 0 if it was not full, empty it, or let its entries age. The limit is kept by each of the four.
- `ExpirySafe`: `ExpiredInFront` is not inductive, since it says nothing of ages that are yet to expire. `AgesDescend`
  (ages never increase from front to back) is, by the same four effects: a new entry has age 0, and ageing is monotone
  with its cap.
- `GuardsPin`: `GuardPinsDeque` is strengthened to `PinInv` by `ClearersInShard`, that what a clear has yet to visit is in
  the shard whose guard it has. Removal and insertion then find `ShardRead` in their way.

`PoolPromiseProofs`, on these:

- Two invariants say what references are for. `HostInv`: whatever refers to a deque (the map, a user, a job of a cleanup) does so for one
  address (`OneHost`), and a deque nobody refers to is empty (`Freed`), so that a name can serve another address only when
  nothing is left of the first. `Alone`: no connection is in two hands, in a hand and a deque, or at two positions of deques, those
  included that the map has forgotten. The code has them from `Arc` and from moves; here they are proved of the model. One lemma says
  what any step does to the entries: some go from the front (`Shifted`), or one user pushes its own (`Pushed`).
- `PromiseKept` (`KeepsPromise`) is the refinement of `PoolPromise`, under that mapping of idle and held connections: one lemma per way in
  which a step shows, `PopKeeps`, `ConnectKeeps`, `DropKeeps`, `PushKeeps`, and `StepCloses` for all others, which close connections or change nothing
  a user sees. It needs these invariants: that what is popped was asked for at that address and is in nobody's hand, and that the
  set of an address's idle connections is no larger than its deque.
- `LostForCause` (`LeavesForCause`) goes through the steps that take entries from a deque or a deque from the map; of a pop, only the
  front entries go that have expired, and the one that is handed out.
- `DriftExact` (`ActiveDrift`) counts modulo `CounterMod` (`Same`): each step moves the counter and the connections
  checked out by amounts that agree (`CounterSteps`), whatever the counter has wrapped to.
- `RuntimeIsPool`: `PoolRuntime` implements `ConnectionPool`, whose safety therefore holds on worker threads
  (`RuntimeCapacity`, `RuntimeDrift`).
- `OnlyAwaitsBlock` says, for any number of workers, what a deadlock of the pool can be: if no running task can go on, each of
  them waits for a guard that a task *without a worker* has taken across its await (`BlockedByAwaits`). So the guard kept over
  `lock().await` is the only cause, and `pool_deadlock` is its instance. `WorkersSafe` has the one invariant it needs, that a user in
  `entry()` has a connection in hand and so keeps no guard.

`RequestReaderProofs` proves `TypeOK`, `HeaderBounded`, `HeaderEndFound`, `TakesOnlyItsBody`, `MemoryBounded` and `GivesUpLate`
(theorems `TypeCorrect`, `HeaderTimeBounded`, `HeaderEndAlwaysFound`, `TakesWhatIsDue`, `MemorySafe`, `ShortOnlyWhenSilent`) at once,
as one inductive invariant `ReaderInv`, because each needs what the others say of the state in which a loop is entered.
Two conjuncts are added. `InHeader`: while the header is read, its end has not come, no limit is reached, every retry
was a silence, and the time since the first read exceeds the deadline by the present read at most. `InBody`: while the body is read, the header
was found, bytes are missing, the total is within the cap and equals the announced one unless the sum wraps, and
(except in the buffered reader, whose retry count comes from the header) every retry was a silence. `HeaderDoneKeeps`
is the heart: what follows the header's loop is the same for a read, an end of the stream and a timeout.

`StreamingBodyProofs` proves `TypeOK`, `StaysInBody`, `CapHonoured` and `EndedWhenWhole` (theorems `TypeCorrect`,
`ReadsStayInBody`, `CapKept`, `EndMeansWhole`) under `BodyAssumption`. What makes them inductive is `Accounted`: every byte taken was
handed out, went with a lost call, or is held by the present one; so that a `Body` that is complete, with nothing lost,
has handed out all of it. `LeftoverFirst` says that the leftover is untouched or gone, and `StreamKept` that a
`Body` without its stream, while the client has not ended it, was made with everything in memory. The steps are of three
kinds: `TakesKeeps` (bytes go to `Chunk`), `EndKeeps` (a call ends well) and `LossKeeps` (it fails or is dropped).

`FileCacheProofs` proves three of the invariants of `FileCache` (theorems `TypeCorrect`, `ServesFresh`,
`OvershootStaysBounded`). `TypeInv` has what `TypeOK` leaves open: that the entries are finitely many and that what is cached or loaded has the size of
some file, so that `Total` is a number. It is a fold over a set of any size; the proof has the induction explicitly, by the least
counterexample (`LeastOf`, `AllOf`, `SumExists`, `SumType`). `FreshInv` follows an entry from the `stat` on: its content is at most as new as the
file, and its time of modification is not later than its content's, so that an entry whose time is the file's present
one has content of that time. It holds through another thread's insertion between this one's two steps. For the limit,
`Bounded` counts the threads that were let in by the first loop and have not inserted (`Admitted`) with the entries: one
is let in only where there is room for one. `BytesBounded` is left to TLC: what holds it together is the history of a stale,
wrapping sum.

`ResponseWriterProofs` proves all five invariants of `ResponseWriter` (theorems `TypeCorrect`, `BytesInOrder`, `OkIsWhole`, `ErrorIsClean`,
`SendsLastSet`) from one inductive invariant, `WriterInv`. `HandlerInv` has what the setters leave of each other. `SendInv` names the
byte at each place of the response (`Out`): the wire has the first of them, and the slices yet to be sent go on with the
next (`Plan`) up to where the response ends or the reading of the file is (`Covers`). Its heart is `RestIs`: whatever the socket takes of two slices,
at an edge or in the midst of one, the loop of `send_vectored_generic` continues with the next byte. `WholeWhenOk` and `FailsClean` are
part of the invariant, since what happened before the end decides them; a mapping faults only when its file was changed. `StaleInv` says that a text that was taken for
a path sends nothing.

`ServerProofs` proves all four properties of `Server` (theorems `TypeCorrect`, `NoTaskIsLost`, `SlotsAreLive`, `OptionsAreKept`).
`SweepersOwned` and `HandlesLive` follow from `TaskInv`, which says where each task is: a hand is full just between `Spawn` and
`Store`, with a task that sweeps the pool its handler holds (`HandsFull`); no task is in two hands, or in a hand and a slot
(`HandsApart`); a pool with a task in its slot is held (`SlotsHeld`), which is also why `TypeOK` has an empty slot for each pool yet to be made; and a task that runs is in the slot of the pool it
sweeps or in a hand (`TasksKept`). There is one lemma per way in which pools and tasks change: `NewPoolKeeps`, `DropHeldKeeps`,
`ShutdownKeeps`, `SpawnKeeps`, `StoreKeeps`. `OptionsAreKept` needs types alone: a cell that `options_mut` may write to is
nobody else's, and what is freed is nobody's.

`HandlingProofs` proves what a handler relies on:

- `SearchesFindTheFirst`, for every sequence and any widths: a marker of the rest is one of the whole, shifted (`RestShifts`),
  and the first one of the chunks, or else of the rest, is the first of all (`ChunksThenRest`).
- `RoutesAreWritten` (`DispatchesAsWritten`). The property speaks of the whole text of the program; what the code has at any time is a
  `Router` and a stack of scopes with entries that are yet to be inserted. `RouterInv` says how they make up the text: the
  trees hold exactly its first entries (`Has`, `Fits`), the pending entries of the scopes follow, the outermost scope's first (`Starts`,
  in `PendingInv`), every scope's prefix is the join of those it was opened with (`ScopesInv`, by `FlattenChain`), and a panic means that
  two entries of the text exclude each other (`PanicInv`). The fold in `CloseScope` is taken entry by entry (`FoldGoes`, `FoldBuilds`): an
  entry is accepted as long as the text has no conflict up to it (`NextRoute`, `FitsAt`). For `find`, `OneIsBefore` shows that of two
  patterns that both match a target and are both in a tree one comes first (the place where they fork decides), so
  that the best of a set is unique (`OneIsFirst`) and is the same whether it is sought in the tree or in the text (`BestSame`).
- `SplitsAgree`: at every position both splits have the same pieces and the same start
  of the next one. `split_bytes` also skips positions; it skips none that begins a delimiter if no two of them overlap (`Apart`, `GoesOn`). Nothing
  else is assumed of the body and the delimiter but that the one is as long as the other (`split_bytes` returns
  nothing of a shorter one). A body can have overlapping delimiters for other boundaries too (`x--x`); every form with a
  boundary of dashes only has them at its end, where the splits then differ.

The folds of the community modules are `CHOOSE`n functions on sets of positions. That such a function exists is `FoldedExists`, by
induction on the size of the set, written once for every step; each fold then goes position by position (`FoldGoes`,
`SplitGoes`).

**Only model-checked**: liveness (`GuardsAreReleased`, `Terminates`, `CallsReturn`, `SomeLoadReturns`, `Returns`), since fairness and ENABLED are out of
the prover's reach; `NoThreadDeadlock` for a given number of workers, which no code sets; `BytesBounded`; `FormAsSent` and `SearchesAgree`, but for
the searches of `SearchesFindTheFirst` and the delimiters of `SplitsAgree`.

## 6. What is not modelled

Listed with reasons in `PROJECT.json` under `components`. `Stats` snapshots read the counters one by one and nothing
depends on them. TLS entry points unwrap the TCP stream and use the same readers. `safe_path_join` is one pass over a
path's components that a unit test covers whole. `ArenaBody` slices raw memory by the ranges it is given: that they are
right is the reader's (`TakesOnlyItsBody`). Of forms, names and the lines of headers are single tokens, so that a name cut in two is left out, as is
a content that holds the delimiter within a line. Of a mapped file, what `FileCache` serves is its content when it was mapped; `ResponseWriter` has what happens to it later. The macros, re-exports, examples, benches and the test client carry no behaviour of the
library's own.

## 7. Plan

1. `ConnectionPool`, `PoolPromise`, `PoolLifetime`, `PoolRuntime` and the first proofs: done.
2. `RequestReader`, with the WebSocket upgrade as an outcome of its modes, and its theorems: done.
3. `StreamingBody`, `FileCache`, `ResponseWriter`: done, as far as `PROJECT.json` says.
4. `Server` and its theorems; `ByteSearch` and its theorem; `Forms`, `Router`, `Handling`: done.
5. Proofs about connections and the refinement of `PoolPromise`, the runtime, the file cache and the writers: done.
6. Proofs about the Router, the searches and the splits: done. About forms in bytes: that `FormAsSent` holds for every content
   and boundary, on the lines of `SplitGoes`, piece by piece.
7. `FileCache` with times of access, so that the oldest entry is the one that goes.
