# sucredb storage core and fabric messages: TLA+ models

A model-checking project for the storage core of sucredb
(`src/src/storage.rs`) and its fabric message family
(`src/src/fabric_msg.rs`). The modules are checked with TLC; `PROJECT.json`
lists the runs, the source lines behind every definition, the findings and the
hazards.

## 1. The system

sucredb keeps the data of many virtual nodes in one RocksDB instance. Each
virtual node is a *namespace*, a `u16` written big-endian in front of every key.

| Part | Code | State | Operations |
|---|---|---|---|
| Key codec | `build_key`, `build_log_key`, `build_log_prefix`, `U16BeSuffixTransform` (lines 9-53) | none (pure) | encode `num ‖ key`, `num ‖ prefix ‖ seq`, `num ‖ prefix`; extract the 2-byte prefix |
| Engine handle | `StorageManager` (21-24, 90-171) | the `Arc` of the engine | `new` (open or create, with a fallback that adds the `log` family), `open(num)`, `drop` (asserts it holds the only reference) |
| Namespace handle | `Storage` (58-67, 173-310) | `num`, a clone of the engine `Arc`, its own `iterators_handle: Arc<()>` | `get`, `log_get`, `set`, `del`, `batch_new`, `batch_write`, `iterator`, `log_iterator`, `clear`, `sync`, `drop` (asserts no pending iterator) |
| Batch | `StorageBatch` (69-72, 312-333) | a borrowed `&Storage`, a `WriteBatch` | `set`, `log_set`, `del` |
| Iterators | `StorageIterator`, `LogStorageIterator` (74-88, 335-403) | an engine cursor, clones of both `Arc`s, the `first` flag | `next`, drop |
| Fabric messages | `FabricMsg`, its eight structs, `FabricMsgType`, `FabricError` (`fabric_msg.rs`) | none | `get_type`, `into` |
| Unit tests | `mod tests` (`storage.rs` 405-518) | a directory per test, removed at the start | six tests: calls on one manager and one `Storage` at a time, with `assert_eq!` on what they return |
| Fabric protocol | not in this repository; described by the specification (§4.F, §5, §7) | per node: the cookies it tracks, the syncs it serves | send and handle `RemoteGet`/`RemoteSet` and their acks; `SyncStart`, `SyncSend`, `SyncAck`, `SyncFin`; cancel |

How they interact. Every `Storage` and every iterator shares the one engine;
nothing but the key prefix separates two namespaces. `Storage` is `Send` and
`Sync`, so threads call one handle concurrently. Each call is a single engine
call except `clear()`, which for each of the two column families calls
`delete_file_in_range`, opens a cursor and deletes key by key; other threads
run between those calls. An iterator registers with its `Storage` by cloning
`iterators_handle`; `clear()` and `drop` look at the count of that `Arc`.

Nodes talk through fabric messages. A request carries a cookie its answer
echoes; nothing else ties the two. A sync streams the log entries a peer has
and the initiator has not, one `SyncSend` per entry, acknowledged by `seq`, and
ends with a `SyncFin` that hands over the peer's clocks. The transport
delivers each message at most once, in any order. A write is stored twice in
one batch: as a record of the default column family and as an entry of the
log column family, which is what a sync scans.

What is hard about it: integer sums at the top of their type (`num + 1`,
`prefix + 1`); byte order standing in for numeric order; a check followed by
unprotected work; a sentinel that belongs to a handle where the contract talks
about a namespace; a long-running clear among writers; cursors that outlive
what they were made from; answers and continuations that arrive late, out of
order or never; a log that forgets what the records still hold; a crash
between two engine calls of one operation, and writes that reach the disk in
another order than they were made. `PROJECT.json` lists each of these as a
hazard at its source line.

## 2. Modules

| Module | Models | Notes |
|---|---|---|
| `KeyCodec` | the codec, the prefix extractor, the decoding in `next()`, the ranges of `clear` and `log_iterator`, the bytewise order of the engine | pure operators; widths are constants |
| `Storage` | the engine as the code sees it, `StorageManager`, `Storage`, `StorageBatch`, both iterators, threads | extends `KeyCodec` |
| `NamespaceStore` | what the handles promise: per namespace a set of entries, written one operation or one batch at a time, and cleared over a stretch of steps | no engine, no physical keys, no column families; `Storage` instantiates it under a refinement mapping |
| `MCStorage` | TLC instance of `Storage`: model values, key sets, symmetry sets | one module, one `.cfg` per question |
| `Durability` | `Storage` over a directory that outlives the process: `StorageManager::new` with its fallback, `sync`, the write-ahead log, the crash of the machine | extends `Storage`; every step of `Storage` is a step of it |
| `MCDurability` | TLC instance of `Durability` | the sets of `MCStorage` |
| `StorageTests` | the six tests of `storage.rs`, each as the sequence of its calls, replayed on `Durability`; the laws of the codec against their reference | extends `Durability`; carries the codec's properties |
| `MCStorageTests` | TLC instance of `StorageTests` | one thread, one handle, one iterator |
| `FabricMsg` | `fabric_msg.rs`: the two closed enums, the eight structs as sets of records, the enum `FabricMsg` as `Payload` and `IsFabricMsg`, `into`, `get_type` with its catch-all arm | translated from the source; the imported types are constants |
| `Fabric` | the CRUD and sync exchanges between nodes over a lossy, reordering transport | handlers from the specification, messages and dispatch from `FabricMsg` |
| `MCFabric` | TLC instance of `Fabric` | two nodes, one vnode |

### KeyCodec

Keys are sequences of bytes, not abstract tokens, because the properties of
interest are about byte order and byte ranges. `ByteBase` (256 in the code),
`NsWidth` (2), `LogWidth` (8) and `BufLen` (512) are constants. TLC runs with
`ByteBase = 2`, `NsWidth = LogWidth = 2`, so that "u16" and "u64" are both
`0 .. 3`: every value, every carry between bytes and the overflow at `3 + 1`
are enumerated (the run `unit` has `LogWidth = 3`, a "u64" of `0 .. 7`). No definition depends on the values of the widths.
`WrappingSucc` is `+ 1` as a build without overflow checks computes it.

### Storage

State and its counterpart in the code:

| Variable | Code |
|---|---|
| `db[c]`, `c \in {"cf", "log_cf"}` | the contents of the two column families: a function from physical keys to values |
| `manager` | the `StorageManager` has not been dropped |
| `handle[h]` | `Storage.num` of the live `Storage` value `h`, or `None` |
| `iter[i]` | a live iterator: the handle whose `iterators_handle` it cloned, its namespace, the contents it sees (`snap`), the keys its cursor has not passed (`todo`), `first`, whether `next()` has returned `None` (`done`), and `out`, the items returned so far (kept for the properties) |
| `batch[t]` | the `StorageBatch` thread `t` is building: the handle it borrows and its operations |
| `pc[t]` | `idle`, inside `clear()` (`clear_files`, `clear_seek`, `clear_delete`), or `panicked` |
| `clr[t]` | the locals of `clear()`: the handle, the column families left, `from`/`to`, the cursor |
| `owed[t]` | ghost: the keys the namespace held when `clear()` began and that nobody has written since |

Actions, one per operation: `Open`, `DropManager`, `DropStorage`, `Get`, `Set`,
`Del`, `BatchNew`, `BatchSet`, `BatchDel`, `BatchLogSet`, `BatchWrite`,
`Iterator`, `LogIterator`, `IterNext`, `IterNextAgain`, `IterDrop`, and `clear()` as
`ClearBegin` (the check and the bounds), then per column family
`ClearDeleteFiles`, `ClearSeek`, `ClearDelete` (once per key) and `ClearNextCf`.
Every assertion and `unwrap` that can fail is a branch that ends in `Panic`:
the thread stops and the batch it was building is dropped with its stack.
What a read returns is an operator over the state: `get`, `log_get`, `get_vec`
and `log_get_vec` look up the encoded key in the column family of their kind.

Modelling decisions:

- *Engine.* A column family is a map ordered by `BytewiseLess`. A write batch
  applies in one step. A cursor sees the contents of the moment it was created
  (RocksDB iterators read an implicit snapshot and pin the files they read).
  `SeekKeys` gives the keys a cursor will visit: not below the seek key, below
  the upper bound if one is set, and of the prefix of the seek key if
  `prefix_same_as_start` is set *and the column family has a prefix extractor*;
  only the main family has one (lines 97-99), so on the log family the option
  does nothing.
- *`delete_file_in_range`* removes whichever files lie wholly inside the range:
  any subset of the keys in the range may disappear.
- *Overflow* is a build option. `OverflowChecks = TRUE` is a debug build, where
  `+ 1` on the largest value panics; `FALSE` is a release build, where it wraps.
- *Borrowing.* A batch borrows its `Storage` and `clear(&self)` borrows it for
  its duration, so `DropStorage` is disabled while either exists (`Borrowed`).
  Iterators do not borrow (the code transmutes them to `'static`), so a
  `Storage` can be dropped under them: the assertion panics the dropping
  thread, the `Storage` is gone and the iterators live on.
- *`next()` after `None`* (`IterNextAgain`) advances a cursor that is not
  valid, which RocksDB leaves undefined. The model takes the two outcomes
  the engine's builds give: the cursor stays where it is and the call returns
  `None` again, or the call dies on the engine's assertion.
- *Values* are model values; what the code logs, and the tuning options of
  `StorageManager::new`, are left out.

### Durability

`Durability` adds to the state of `Storage` what is on disk:

| Variable | Meaning |
|---|---|
| `families` | the column families of the directory: `{}` while it does not exist, `{"default"}` for a legacy store, both after `new` |
| `wal` | the contents a crash may bring back: every contents the engine has had since the last `sync_wal` |
| `whole` | ghost: of these, the contents some operation left, that is, those in which no `clear()` is half-way through what it has to remove |

`StorageManager::new` (lines 91-151) is three steps. `New` is the first
`open_cf`, with both families: it succeeds when the directory has exactly these
and no engine of this process holds its lock; with `create_if_missing` a
missing directory is created first, with the default family alone, and the
open then fails for want of `log`. So the closure of `or_else` is the normal
path on a fresh directory, not only on a legacy one. `NewRetry` is the
`open_cf` of the closure, with the default family alone, which succeeds only
on a directory that has no other; its error is what `new` returns.
`NewCreateCf` adds `log` and returns the manager. `Sync` is `sync()`.
`Crash` stops the process at any state: manager, handles, iterators, batches
and running calls are gone, `families` stays, and `db` becomes any member of
`wal`. A step of `Storage` is a step of `Durability` that also leaves its
trace on disk (`Journal`).

Modelling decisions:

- *Write-ahead log.* A write (a batch, or one delete of `clear()`) returns
  before its record is on disk; recovery replays a prefix of the records, so
  it finds the contents of some moment since the last `sync_wal`. The model
  keeps the set of those contents rather than the records. Flushes the engine
  performs by itself would only remove members of `wal`; leaving them out
  allows more crashes than there are, never fewer. That a batch comes back
  whole and that `sync()` keeps what it covers is thus assumed of the engine,
  not shown: the code makes one engine call for each.
- *`delete_file_in_range`* is not a record of the log: the files are gone at
  once, from every contents a crash may bring back (`Without`).
- *Lock.* An engine that is alive (in the manager, a `Storage`, an iterator or
  the closure of `new`) holds the lock of the directory, and every `open_cf`
  fails against it (`EngineAlive`).
- *Errors.* I/O errors of the engine are not modelled. `new` passes them on;
  every other operation unwraps them.

### StorageTests

A test is a sequence of calls, written as the test writes them: `test_clear`
is `new`, then for each `i` of `<<0, 1, 2>>` an `open`, a batch and the drop
of the `Storage` at the end of the loop body, then for each `i` the four
counts around `clear()`, and the drop of the manager. `ForEach` is the `for`
loop and `Collect` the statement `make.iter().<adaptor>()` compared with what
the test expects, with the drop of the temporary iterator at its end. Drops
are entries of the script because they are calls: `drop` of a `Storage`
asserts that no iterator is pending, `drop` of the manager that it holds the
last reference, and a test that got their order wrong would panic.

`TestStep` makes the call at position `at` as the action of `Storage` or
`Durability` that models it (`Call`) and moves on when the call has returned
(`InCall`): `new`, `clear()` and the collecting loop take several steps. The
asserting entries change nothing; `Holds` compares what the model returns at
that point with the expected value of the entry. `TestInit` is the state
after `fs::remove_dir_all`: no directory, no process.

Data is scaled, control is not. `b"sample"` is the one-byte key `<<1>>`, the
decimal keys `"1"`, `"2"`, `"3"` are 1, 2, 3 in the two bytes the buffer
leaves, and the values are the strings of the tests. The largest log key of
the tests is `(3, 2)` and `(2, 4)`, which `LogWidth = 3` holds; namespaces go
up to 3, the last of the two-bit "u16", which the tests only open.

The module also carries the four laws of the codec. They are formulas of the
constants and hold or fail whatever the state; they are stated of the state a
test starts in.

### FabricMsg and Fabric

`FabricMsg` is the source file as definitions: a message is a record
`[variant, msg]` built by `into`; `Payload` gives the set each variant wraps;
`get_type` has the three arms of the code and its catch-all, which in the code
is `unreachable!()` and here yields a value outside `FabricMsgType`, so that a
variant no arm names shows as a broken invariant.

`Fabric` models what the messages are for. The handlers are not in this
repository; every action follows the message semantics of the specification
and is marked `spec_modelled` in `PROJECT.json`.

| Variable | Meaning |
|---|---|
| `data[n][v]`, `log[n][v]` | what node `n` stores of vnode `v`: the records and the log entries, both as entries `[dot, key]`; every write commits to both |
| `clock[n][v]` | the dots `n` claims to have seen (its version vector) |
| `net` | the messages in flight, each `[src, dst, msg]`; a set, so order means nothing |
| `ini[n][c]`, `asked[n]` | the conversation `n` tracks under cookie `c`, and how many conversations `n` has started |
| `rsp[n][c]` | the sync `n` serves under cookie `c`: the stream, the clocks taken at its start, the next `seq`, the `seq`s not yet acknowledged |
| `lost` | ghost: the transport has lost a message |

Actions: `Write` (a local write); `RemoteGet`, `RemoteSet`, `SyncStart` (a
client takes a cookie it tracks nothing under, which may be one it has
dropped, and sends); `OnRemoteGet`, `OnRemoteSet` (answer, or
refuse with an error; `RemoteSet` answers by its `reply` and `reply_result`
flags, with the container as it was before the merge); `OnRemoteAck`;
`OnSyncStart` (refuse, or take the log entries beyond `clocks_in_peer` within
`target`); `SyncSend` (the next entry of the stream); `OnSyncSend` (store, acknowledge); `OnSyncAck`; `SyncDone`
(`SyncFin` with `Ok(clocks)` once the stream is sent and acknowledged);
`SyncInterrupt`; `OnSyncFin` (merge the clocks of an `Ok`); `Cancel` (the caller
drops the cookie); `Untracked` (a reply or continuation for a cookie nobody
tracks is dropped); `Lose`. A handler finds its messages through `get_type`
and the variant (`Inbox`). `Compact` is the FIFO compaction of the log column
family (`storage.rs` line 121): log entries disappear, records stay. It is part
of `CompactingSpec` only.

### NamespaceStore and the refinement mapping

`NamespaceStore` has four variables: `store`, a set of entries
`[ns, slot, value]`; `held`, the namespaces somebody has a handle of;
`batch[c]` and `clearing[c]` per caller. Its actions are `Acquire`, `Release`,
`Put`, `BatchNew`, `BatchAdd`, `BatchWrite`, `Discard`, and a clear in three
parts: `ClearBegin` records the slots the namespace has, `ClearRemove` removes
any of the slots of that namespace, `ClearEnd` is enabled only when every
recorded slot is gone or has been written again. A write takes the slots it
names off the record of every running clear of its namespace.

`Storage` maps to it as follows (`NS == INSTANCE NamespaceStore WITH ...`):

| Abstract | `Storage` |
|---|---|
| `store` | `LogicalEntries`: each physical key of either column family decoded to its namespace (`ReadBigEndian(transform(k))`) and its slot (the user key, or the pair read back by `LogKey`) |
| `held` | the `num` of the open handles |
| `batch[c]` | the batch of thread `c` with its handle replaced by the handle's namespace and each operation decoded |
| `clearing[c]` | the namespace thread `c` is clearing and the decoded `owed[c]` |

`Open` is `Acquire`; `DropStorage` is `Release` (with `Discard` when the drop
panics); `Set` and `Del` are `Put`; `ClearDeleteFiles` and `ClearDelete` are
`ClearRemove`; the last `ClearNextCf` is `ClearEnd`; `Get`, the iterator
actions, `ClearSeek` and `DropManager` change nothing of the abstract state,
except that a panic discards the thread's batch.

## 3. Runs

All runs of `Storage` but `unit` use `ByteBase = 2`, `NsWidth = LogWidth = 2`,
`BufLen = 3` (room for the namespace id and one byte of key) and one value.

| Run | Configuration | Properties | Result |
|---|---|---|---|
| `unit` | the six tests, one per behaviour; 1 thread, 1 handle, 1 iterator; `LogWidth = 3`, `BufLen = 4`, batches of up to 4, debug build; the laws over all of `U16`, `U64 x U64` and the keys of up to two bytes | `TestsPass`, `TestsRunToTheEnd`, `LogKeyOrderIsNumeric`, `ClearBoundsSelectNamespace`, `LogIterBoundsSelectSuffix`, `DecodeInvertsEncode` | pass, 1,699 states |
| `main_iterator` | 1 thread, 2 handles, 1 iterator, namespaces {2, 3}, keys `<<>>`, `<<1>>` and the too long `<<1,1>>`, batches of up to 2, debug build | `TypeOK`, `MainIteratorYieldsNamespace` | pass, about 1.0 M states |
| `log_iterator` | 1 thread, 1 handle reopened on {2, 3}, log keys (1,0), (1,1), (2,0), scans (1,1) and (3,0), debug build | `LogIteratorYieldsRange` | pass, about 37 k states |
| `clear` | 2 threads, 1 handle reopened on namespaces {1, 2}, one key and one log key per namespace, debug build, `FairSpec` | `ReadsReturnTheNamespace`, `NamespaceIsolation`, `ClearRemovesNamespace`, `ImplementsNamespaceStore`, `ClearTerminates` | pass, about 490 k states |
| `durability` | 2 threads, 1 handle, namespace 2, one key and one log key, batches of 1, directory missing or legacy at the start, crash at any state | `OpenFindsBothFamilies`, `NewOpensEveryLayout` | pass, about 1.1 M states |
| `fabric` | 2 nodes (n1 asks, n2 answers), 1 vnode, 2 cookies, 1 key, up to 2 conversations, one write of n1 and two of n2, refusal `NotReady`, `FairSpec` | `TypeOK`, `ClocksAreBacked`, `ConversationsEnd` | pass, about 172 k states |
| `clear_wraps` | 1 thread, namespace 3 (the last), release build | `ClearRemovesNamespace` | violated |
| `log_iterator_wraps` | 1 thread, scan of prefix 3 (the last), release build | `LogIteratorYieldsRange` | violated |
| `clear_with_iterator` | 2 threads, 2 handles on namespace 2, 1 iterator | `NoIteratorWhileClearing` | violated |
| `durability_clear_crash` | 1 thread, 1 handle, namespace 2, one key and one log key, batches of up to 2 | `RecoveryIsACommitPoint` | violated |
| `fabric_log_compaction` | as `fabric`, with `CompactingSpec` | `ClocksAreBacked` | violated |
| `fabric_cookie_reuse` | as `fabric`, with 1 cookie and 2 keys, `Spec` | `AnswersAreForTheKeyAsked` | violated |

What the properties say:

- `TestsPass`: replayed on the model, no call of a test panics and every
  `assert_eq!` finds the value the test expects. The tests are the one record
  of what the real engine does under this code; the model agrees with all of
  it. It is not vacuous: with an expected count changed from 3 to 2 TLC
  reports the assertion of `test_iter_log`.
- `TestsRunToTheEnd`: every test reaches its last drop: `new` succeeds over
  the removed directory (through the fallback that creates the `log` family),
  and the loops of `clear()` and of the collecting adaptors end.
- `LogKeyOrderIsNumeric`: the bytewise order of encoded log keys is the numeric
  order of `(num, prefix, seq)`.
- `ClearBoundsSelectNamespace`, `LogIterBoundsSelectSuffix`: the byte ranges
  that `clear` and `log_iterator` compute contain exactly the keys of the
  namespace, or of the suffix of the prefix, wherever the sum does not overflow.
- `DecodeInvertsEncode`: what `next()` decodes is what was encoded, and the
  prefix extractor reads the namespace id.
- `MainIteratorYieldsNamespace`, `LogIteratorYieldsRange`: what an iterator has
  returned is ascending, comes from its namespace (and range) as of its
  creation, and is all of it once `next()` has returned `None`.
- `NamespaceIsolation` (action property): every change to the engine lies in the
  namespace of some open handle; this covers the file deletion and cursor
  deletes of `clear()` next to foreign namespaces.
- `ClearRemovesNamespace` (action property): when `clear()` returns, every key
  it found at its start and nobody has written since is gone from both
  column families.
- `ClearTerminates`: a `clear()` that has started returns.
- `ImplementsNamespaceStore`: every behaviour of `Storage`, seen through the
  mapping above, is a behaviour of `NamespaceStore`. It ties the encoders to
  the decoders (an operation changes exactly the slot it names, in the
  namespace of its handle), confines each engine call of `clear()` to the
  namespace being cleared, and lets `clear()` return only when what it owed is
  gone.
- `NoIteratorWhileClearing`: while a thread is inside `clear()`, no iterator of
  that namespace is alive. This is what §4.C and §5 of the specification give
  as the purpose of the check; the code does not establish it.
- `TypeOK`: the shape of the state, including that every key of the log family
  has the length `LogStorageIter::next` asserts (line 388). The assert is a
  branch of `IterNext` that panics (`Asserted`); since every writer of the
  family builds its keys with `build_log_key`, no run takes it.
- `ReadsReturnTheNamespace`: `get_vec` and `log_get_vec` of an open handle
  return what the namespace holds in that slot, as the decoding of the physical
  keys sees it, and `None` exactly when it holds nothing, while other threads
  write and clear.
- `OpenFindsBothFamilies`: whenever there is a manager, the directory has both
  column families, so the two `unwrap`s of `open` (lines 156-157) cannot
  panic, whichever path `new` took and wherever a crash cut an earlier `new`
  short.
- `NewOpensEveryLayout` (action property): `new` returns an error only when
  an engine of this process is alive, or the directory already has both
  families (then the first `open_cf` failed on a lock that has since been
  released). A missing directory, a legacy one, and one a crash left between
  the second `open_cf` and `create_cf` are opened.
- `RecoveryIsACommitPoint` (action property): the contents after a crash are
  contents some operation left. It is what §4.C (Atomicity) and §8 (Batch
  atomicity) of the specification promise; `clear()` does not keep it.
- `TypeOK` of `Fabric`: the shape of the state; every message in flight
  belongs to `FabricMsg` and `get_type` puts it into a category.
- `ClocksAreBacked`: the clocks of a replica cover only writes it stores. It
  is the reason `SyncFin` must wait for every `SyncAck`: with reordering a
  `SyncFin` overtakes the `SyncSend`s before it, and with loss some never
  arrive. It holds with cookies used again: the `SyncSend`s and the `SyncFin`
  of a dropped sync may reach the next sync under the same cookie, and what
  they bring is still stored before it is claimed.
- `AnswersAreForTheKeyAsked`: a `RemoteGetAck` about to be accepted under a
  tracked cookie carries what the peer holds for the key that was asked. It
  is what "the cookie identifies a request/response conversation" (§4.F)
  promises a caller; with a cookie used again it fails.
- `ConversationsEnd` (liveness): a tracked conversation ends, by an answer, a
  `SyncFin` or a cancellation, unless the transport has lost a message.

Every property of a passing run has a fault variant of a modelled definition
(`..._swapped`, `..._no_first`, `..._unbounded`, ...) defined next to it in the
module; with the variant in place TLC finds the property violated.

### Findings

1. `clear()` of namespace `0xFFFF` (line 274). Release build: `num + 1` wraps
   to 0, the range `[FFFF, 0000)` is empty and the cursor's upper bound is below
   its seek key, so nothing is deleted. Debug build: panic. The specification
   requires the wrap to be handled.
2. `log_iterator(u64::MAX, _)` (line 195): the same with `prefix + 1`; the
   iterator is empty although entries exist.
3. `iterators_handle` is created per `open` (line 159), so the check of
   `clear()` and `drop` sees the iterators of one handle, not of the namespace.
4. `clear()` checks once and then works unprotected (line 270): on a shared
   handle another thread can create an iterator during the clear.
   Findings 3 and 4 are two ways to the same broken property, and one run:
   `clear_with_iterator` has both threads and both handles, and TLC reports
   the shortest of the two sequences (the race). With `Threads = {t1}` the
   same configuration reports the sequence over two handles.
5. `clear()` is not atomic against a crash (line 287). It removes the records
   of the namespace and then its log entries, in one engine call per file
   range and per key. A crash inside it brings back a namespace whose log
   entries describe records that are gone. The specification promises that a
   record written with its log entry is seen with it or not at all after a
   crash, and prescribes the clear protocol that breaks this; it does not say
   what a crash inside `clear()` may leave.
6. The log column family is opened with FIFO compaction (line 121), so the
   engine drops old log entries while the records stay. A peer that serves a
   sync from its log, as the specification describes, then streams less than
   its clocks cover and still ends with `Ok(clocks)`: the initiator records
   writes as seen that it never received, and will not ask for them again.
   The specification does not say what a peer does when its log no longer
   reaches back to `clocks_in_peer`.
7. `MsgRemoteGetAck` names the vnode and the cookie, not the key
   (`fabric_msg.rs` line 64). The specification lets a caller drop a cookie
   (§5) and retry under the same one (§7) over a transport that reorders. A
   get of one key that is dropped, followed by a get of another key under the
   same cookie, accepts the answer to the first as the answer to the second.
   The specification does not say how long a dropped cookie must rest, and
   the message has nothing to tell the two conversations apart.

### Assumptions

The handlers of the fabric are not in this repository, and where the
specification leaves a choice the model takes the one named here.

- *Cookies.* `Allocate` hands out any cookie the node tracks nothing under:
  "unique over the conversation's lifetime" (§4.F), and free again once the
  conversation has ended or the caller has dropped it (§5, §7). Nothing makes
  a dropped cookie rest until its late messages are gone.
- *When `SyncFin` is sent.* The specification says the peer sends `SyncFin`
  "when it exhausts its stream" and "uses acks for backpressure and progress".
  `SyncDone` reads the two together: the stream is exhausted when every
  `SyncSend` has been sent and acknowledged. `ClocksAreBacked` rests on this
  reading: with a `SyncFin` sent as soon as the last `SyncSend` has gone out
  (the fault variant `SyncDone_unacknowledged`) it fails, by a `SyncFin`
  that overtakes a `SyncSend` or outlives a lost one.
- *Backpressure.* The specification names no window, and neither does the
  code: `SyncSend` may send the next entry whether or not the one before has
  been acknowledged, which includes every behaviour of a peer that waits.

### Bounds, and why they are enough

- *Integers*: two-bit "u16" and "u64" contain 0, the maximum, a carry between
  the two bytes, and neighbours on both sides; a property of the codec that
  fails for 256-valued bytes and 2 or 8 of them fails by a carry, an order of
  fields or an overflow, all of which exist here.
- *Namespaces {2, 3}*: the last namespace and its lower neighbour, whose upper
  bound is the last namespace; the clear range of 2 ends exactly where 3
  begins. In a debug build `clear()` of 3 panics, so only 2 is ever cleared
  and nothing lies below it: `clear` uses {1, 2}, where both namespaces
  are cleared and each has the other as a neighbour, below or above. Its one
  handle is reopened on either, so the neighbour of the namespace being
  cleared is populated but not written during the clear; writers of the
  namespace itself are.
- *Keys*: the empty key (the physical key equals the seek key), a one-byte key,
  and a key one byte too long for the buffer.
- *Log keys*: entries below the start of a scan, at it, and in the next prefix.
- *`MaxBatchOps`* bounds the length of a batch (2 in `main_iterator`, 1
  elsewhere). A thread builds one batch at a time.
- *Threads*: two are enough for every interleaving property stated here, each
  of which is about one thread in `clear()` and one other actor.
- *Durability*: one namespace with a record and a log entry gives four
  contents, enough for a crash to bring back an older one, a newer one, or one
  that never was. Two threads let a crash, a `new`, a `sync()` and a step of
  `clear()` fall between the steps of another `new` or `clear()`. The set `wal`
  needs no bound. `durability_clear_crash` has one thread and batches of two,
  so that the record and its log entry can be one batch.
- *Fabric*: two nodes are one conversation's two ends. `MaxWrites` gives n1
  one write (so that `clocks_in_peer` and the value of a `RemoteSet` are not
  always empty) and n2 two (so that a stream has two entries, which arrive in
  either order or not at all). `MaxRequests = 2` lets n1 hold two
  conversations at once under two cookies, or one after the other under the
  same cookie, the second meeting what is left in flight of the first. The
  properties of `fabric` do not tell keys apart, so it has one;
  `fabric_cookie_reuse` needs two keys and one cookie. Only n1 starts
  conversations (`Clients`): with both nodes asking the
  state space is out of reach, and the two directions do not share state
  beyond the stores. One refusal stands for the errors a handler can answer
  with; which error it is changes nothing downstream.
- *Tests*: the bounds of `unit` are those the tests need and no more: four
  operations in a batch (`test_iter_log`), log keys up to 4, keys of two
  bytes. The tests do not share a directory, so each is a behaviour of its
  own and TLC checks the six side by side.
- *Iterators*: one at a time; the iterator properties are per iterator. Any
  thread may step any iterator. Only `StorageIterator` is `Send` (line 88); for
  the log iterator the model allows more than the compiler does, which for
  properties about one iterator is harmless.

Deadlock checking is off in `unit`, where a test ends, and in the `Storage` runs: a panicked thread takes no more
steps, so a state in which every thread has panicked is a legitimate end. It
is on in the `Durability` runs, where a crash restarts the process. It
is off in the `Fabric` runs because the cookies and writes are bounded: when
all are used and every message is handled, nothing is left to do.

Symmetry over threads or handles is used in the runs that check safety alone
(`main_iterator`, `durability`) and not in `clear`, which checks a liveness
property.

### Fairness

`FairSpec`, the specification of the run `clear`, assumes weak fairness of
`ClearStep(t)` for each thread. A thread
inside `clear()` is running synchronous code with no lock to wait for; each of
its steps is always enabled until it returns, so a scheduler that does not
starve the thread forever is all that is assumed. Nothing is assumed about
other operations: callers may stop calling at any time. `Durability` states
safety properties only and assumes no fairness: nothing in the code makes a
caller call `sync()` or `new` again.

`TestSpec` assumes weak fairness of `TestStep`: a test is one thread of
synchronous calls, none of which waits for anything, and the test runner runs
it until it returns or panics.

`Fabric!FairSpec` assumes weak fairness, per node, of `Receive` (a node
handles a message that has arrived) and `Serve` (a node goes on with a sync it
streams: the next `SyncSend`, or the `SyncFin`). Both are the node's own event
loop with nothing to wait for but the messages themselves. Nothing is assumed
of the transport, which may lose any message, nor of clients, who may never
ask; `ConversationsEnd` therefore promises an end only while nothing is lost.
The number of messages is bounded, so fairness of the handlers as a whole
reaches every message.

## 4. Not modelled

- The tuning options of `StorageManager::new` (lines 92-128), except
  `create_if_missing` and the FIFO compaction of the log family.
- I/O errors of the engine, and a crash of the process alone (which loses
  nothing the engine has written).
- What a `clear()` owes a batch committed between its two passes: the
  specification does not say, so no property is stated; the behaviour is
  reachable in the run `clear`.
- The slices `next()` returns (lines 355-358) are valid until the next call;
  the model hands out values, so a caller that keeps a slice too long is out
  of its sight, as the callers are out of this repository.
- Of the fabric: the DHT gossip (`DHTAE`, `DHTSync` are in `Payload` and
  `get_type`, but no action sends them); the arrival of `Unknown` from the
  wire, whose decoding is the transport's; `NoRoute`, which is the
  transport's answer; serialization. The handlers that are modelled come from
  the specification, not from code.
- RocksDB internals: files, caches, bloom filters. Compaction is modelled
  only where callers see it: the FIFO compaction of the log family as
  `Fabric!Compact`, which drops any log entries (the model does not track
  which are the oldest). `Storage` itself never drops an entry.

- The unit tests are modelled as far as they go: they run one thread, so
  they reach none of the interleavings the other runs are about, and they
  never reopen a directory.

With the tests, every function of `storage.rs` that changes state and every
type of `fabric_msg.rs` has its definition. What remains of the two files are
the imports, the declarations of the manager and of the log iterator (the
model has one record for both iterators), and the `iter()` adaptors, which
only borrow the iterator they are called on.

## 5. Plan

Done: `KeyCodec`, `Storage` with its reads, `NamespaceStore` with the
refinement, `Durability`, `FabricMsg`, `Fabric`, `StorageTests`, and the twelve runs above.

Next, in this order:

1. Snapshot reads in `NamespaceStore` (an abstract iterator), so that the two
   iterator invariants become part of the refinement; a refinement run with
   batches of two operations.
2. `Fabric` with both nodes as clients, and the DHT gossip.
3. A release-build run of `NamespaceIsolation` with the last namespace.
4. `Durability` with two namespaces, where the files `clear()` drops and an
   unsynced write of the neighbour can be told apart after a crash.
