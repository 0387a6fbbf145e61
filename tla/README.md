# xStl in TLA+

TLA+ models of xStl, a C++ library of smart pointers, threads, streams,
containers, texts, digests and ciphers; the TLC configurations that check them on
small instances; and TLAPS proofs of the results that should hold for every
size. Every definition is translated from the source (`Include/xStl`,
`Source/xStl`, `tests`); `PROJECT.json` maps each to the lines it stands for.
Paths below are relative to the repository's root.

1. The system
2. Inventory
3. Modules and their correspondence to the code
4. Runs, bounds and what they show
5. Fairness
6. Proofs
7. Where the code departs from its documentation
8. Modelling decisions
9. Not modelled
10. Plan

## 1. The system

xStl is a class library without a program of its own. Its parts meet in five
groups.

* **Ownership.** `cSmartPtr` is the reference-counting owner used everywhere.
  Its counter (`cCounter`) and every change of it are guarded by one global
  lock, made on first use. Members of an object may be smart pointers, so a
  release can cascade. Classes made with the `REFCOUNTABLE` macros count their
  own variables.
* **Threads.** `cThreadedClass` starts a `cThread` (pthread) that calls the
  object's virtual `run()`, and lets its owner poll, wait for and destroy it.
  `cEvent` is the event they meet on; `cMutex` and `cLock` guard what they share;
  `cStringerStream` is a stream that several of them print to. `cOS` sleeps,
  `TimeoutMonitor` looks at the clock.
* **Streams.** `basicIO` defines `read` and `write`, which may be short, and
  loops over them (`pipeRead`, `pipeWrite`, `copyStream`), and the serialisation of
  numbers, texts and arrays. Memory, file and socket streams and streams over
  foreign memory are the ends; the cache, bit, run-length and LZW streams sit
  on another stream and keep state of their own between calls.
* **Digests and ciphers.** `cHashDigest` cuts a message into blocks for MD5 and
  SHA1, `cHMAC` shares such an object; the CRCs go by bytes; RC4 and the pseudo
  random functions hand out key streams, one of them through a byte queue.
* **Data and texts.** Arrays in paged memory, linked lists, a hash table, a bit
  array and a graph on top of them; strings over arrays, and what scans them: the
  wildcard matcher, the parser, the variables, the names of files.

Components call one another directly. Four groups share state between threads:
the counters, through the global lock; an object of `cThreadedClass`, its child
thread and an event, through plain flags and the mutex; reference counted
variables; and printers, through the lock of their stream. Two ends of a socket
meet in the system. Everywhere else an object belongs to one thread, and what is
hard is the order of its calls: partial reads and writes, buffers at their
limit, state kept from one call to the next.

## 2. Inventory

For each component: its state; its operations; what is hard about it; what
makes it correct. `PROJECT.json` says of each what is left out.

### Ownership and threads

**Smart pointer and counter** (`Include/xStl/data/smartptr.inl`,
`Source/xStl/data/counter.cpp`, `smartptr.cpp`). State: per variable a counter,
an object and a destruction method; per group a count. Operations: construction
from a raw pointer or a smart pointer, assignment, `reset`, the destructor,
`setDestructMethod`. Hard: two critical sections per assignment, deletion
outside the lock, destructors nested in destructors, a source that dies during
its assignment. Correct: no access to freed memory, the count is the number of
owners, nothing held is deleted, nothing is leaked, calls end.

**Mutex, lock and the global lock** (`os/UnixOS/unixMutex.cpp`, `os/lock.cpp`,
`data/smartptr.cpp:52`). State: the owner and depth of a recursive mutex, the
locks of a block, the pointer to the one global lock. Hard: the first use by two
threads at once. Correct: one thread at a time is inside; who waits gets in.

**Reference counted object** (`Include/xStl/refCountObject.h`). State: an object
and a counter shared by variables. Operations: the constructor, copy,
assignment in two sections, destructor. Hard: what happens between the two
sections, and the result of `free()` that is not looked at. Correct: the counter
is the number of holders, what is held is alive.

**Event** (`os/UnixOS/unixEvent.cpp`). State: `triggered`, mutex, condition
variable. Operations: `setEvent`, `resetEvent`, `isEventSet` (reads without the
mutex), `wait`. Hard: a signal between test and sleep, spurious wake-ups, several
waiters and one signal. Correct: it is a manual-reset event and no wake-up is lost.

**Threaded class and thread** (`os/threadedClass.cpp`, `UnixOS/unixThread.cpp`).
State: `m_isStarted`, `m_isDone`, `m_isStarted1` (uninitialised), the handle.
Operations: `start`, `wait`, `isDone`, the destructor, the child's `run`. Hard: the
destructor against every point of the child's life, a failing `pthread_create`,
exceptions in `run`, cancellation. Correct: `wait` returns when `run` is over;
memory outlives the child; the handle is joined once; calls end.

**Time** (`os/UnixOS/unixOS.cpp:88`, `utils/TimeoutMonitor.cpp`). State: what is
left of a sleep, the start of a timeout. Hard: signals, 32 bit products, a clock
of whole seconds, a timeout that means never. Correct: a sleep returns; a timeout
expires near its time.

**Stringer stream** (`stream/stringerStream.cpp`). State: a repository of what was
not put out yet. Operations: `operator<<`, `flush`, `flushNewLines`. Hard: lines are
taken out under the lock and put out without it. Correct: each character comes
out once, and lines whole.

### Streams

**Stream loops** (`stream/basicIO.cpp`). State: the place in both streams and the
buffer between. Operations: `pipeRead`, `pipeWrite`, `copyStream`, `readAllStream`.
Hard: any read or write may be short or empty. Correct: a copy is complete,
ordered and ends.

**Serialised data** (`basicIO.cpp`, `data/endian.cpp`, `os/fragmentsDescriptor.cpp`). State: the
endianness and the encoding of types at both ends. Operations: numbers, texts in
their formats, arrays, remote addresses, lists of fragments, written and read.
Hard: a stream that is cut anywhere, lengths that are read from it. Correct: what
is read is what was written, or an exception.

**Memory stream** (`memoryStream.cpp`). State: an array and a position. Correct: it
is a file.

**File and file stream** (`os/UnixOS/unixFile.cpp`, `fileStream.cpp`, `file.cpp`).
State: a handle of the system, shared between streams. Hard: handles that are
used again, a pointer beyond the end, a length of 0. Correct: a stream stays on
its file; `pipeRead` ends.

**Socket stream** (`socketStream.cpp`). State: `m_isInit`, `m_isClosed`, the two
timeouts. Operations: `create`, `bind`, `listen`, `accept`, `connect`, `close`, `read`,
`write`, the pipe loops. Hard: `select` takes the wait off the timeout; nothing sets
`m_isClosed`; resets. Correct: bytes are sent once and arrive in order;
a `pipeRead` gives all, throws, or gives what there was before the peer closed.

**Streams over memory** (`memoryAccesserStream.cpp`, `os/threadUnsafeMemoryAccesser.cpp`,
`os/streamMemoryAccesser.cpp`). State: a base, a region, a place; forks share the
accesser. Hard: addresses that wrap or lie one behind the end, words of another
width. Correct: a memory stream of fixed size, and no address outside.

**Cache stream** (`cacheStream.cpp`). State: a read-ahead and a lazy-write
cache above one downstream. Hard: both share the downstream's position.
Correct: the client sees the file below as if there were no cache.

**Bit stream** (`bitStream.cpp`). State: a byte in the making and one being
taken apart. Hard: numbers that straddle bytes, stale bits, the last partial
byte. Correct: numbers written are read back.

**Run-length compression** (`rle.cpp`). State: the run being counted, the run
being returned, the flag byte. Hard: escaping the flag, the longest run, runs
cut by a flush or by a short buffer. Correct: what was written is read back.

**LZW compression** (`lzw.cpp`). State on each side: the table, the width of
the codes, the prefix. Hard: the reader's table is one string behind; a code may
name the string about to be added; widths must change on the same code.
Correct: both tables agree and what was written is read back.

### Digests, ciphers and random bytes

**Digests and HMAC** (`enc/digest/HashDigest.cpp`, `md5.cpp`, `sha1.cpp`, `hmac.cpp`).
State: a block buffer, two counters of bits, the registers. Operations: `reset`,
`update`, `digest`, `clone`. Hard: pieces of any size, a padding of one block or
two, a counter that carries. Correct: the digest of the message, in whatever
pieces; the unrolled rounds are the hash.

**Checksums** (`enc/digest/Crc64.cpp`, `Crc16.cpp`). Hard: the unaligned beginning
and end of a buffer around runs of four bytes. Correct: the remainder of the
message.

**Ciphers and generators** (`enc/enc/rc4.cpp`, `enc/random/prf.cpp`). State: a
permutation and two places in it. Hard: both ends must move by the same bytes.
Correct: what was encrypted is restored.

**FIFO byte queue** (`data/queueFifo.cpp`). State: a ring of `m_queueSize` cells,
two pointers that may rest one past the last cell, `m_isFull`. Operations: `write`
(truncated to the room), `read` (truncated to what is stored), the space queries.
Hard: equal pointers mean empty or full, the flag alone decides; a pointer at the
end and one at 0 are the same place. Correct: it is a bounded FIFO.

**PMAC random generator** (`enc/random/pmacRnd.cpp`). State: the chaining value,
the queue of one digest. Operation: `generateRandom` of any length. Hard:
requests that straddle blocks while the queue wraps. Correct: the bytes handed
out are the keystream, none skipped or repeated; no `CHECK` fails; the call returns.

### Data and texts

**Arrays** (`array.inl`, `sarray.inl`). State: memory of `m_alocatedArray` cells,
`m_size`, `m_pageSize`. Operations: construction, `changeSize`, `append`, `copyRange`,
assignment, `swap`, `setPageSize`, access, iterators. Hard: memory is kept when it is
"near enough" in pages. Correct: elements lie within the memory, none lost.

**Lists** (`list.inl`, `orderedList.inl`, `list.h` for the iterators). State: nodes
linked both ways and a sentinel. Hard: four pointers per insertion or removal,
special cases at both ends; iterators held while the list changes. Correct: the
links agree, the contents are what was put in, an ordered list is sorted, an
iterator stays at its element.

**Hash table** (`hash.inl`, `hash.cpp`). State: an array of lists. Correct: it is a
dictionary.

**Bit array** (`setArray.cpp`). State: bits packed in words, a length. Hard: bits
left beyond the length in the last word. Correct: bits keep their values, `first`
is the lowest one.

**Graph** (`graph.inl`). State: nodes with lists of neighbours and a colour.
Correct: an edge is in the lists of both its nodes.

**Strings** (`string.cpp`). State: a null-terminated array and the length beside
it. Operations: joining, cutting, trimming, searches, replacing, splitting, a
caller's edit of the buffer, copies into fixed buffers. Hard: what lies behind
the null, and the length while the caller writes. Correct: the object is its text.

**Wildcard matcher** (`wildcardMatcher.cpp`). Correct: it matches what a pattern
describes.

**Parser, variables and types** (`parser/parser.cpp`, `braces.cpp`, `variable.cpp`, `types.cpp`). State: a
pointer into the text, the line. Operations: reads and peeks, blocks of braces,
special strings, the removal of comments and of double new lines, numbers. Hard:
five flags in one pass; a pointer and a line that must agree; a width of one
type read into another. Correct: lines are those of the pointer, blocks are
balanced, comments and nothing else are removed, numbers are read as written.

**File names** (`os/filename.cpp`, `WindowsOS/winFilename.cpp`). State: a normalised name.
Correct: it leads where its path leads, and never above its base when asked so.

`PROJECT.json` also lists the hazards of the code, each at its line, with the
properties that watch it.

## 3. Modules and their correspondence to the code

| Module | Models | State | Actions |
|---|---|---|---|
| `ByteFifo` | abstract: what a bounded byte queue promises | `items`, `reply` | `Put`, `Get` |
| `QueueFifo` | `cQueueFifo` | `m_queue`, `m_readPointer`, `m_writePointer`, `m_isFull`, `reply` | `write`, `read` |
| `QueueFifoProofs` | theorems about it | | |
| `PMacRandom` | `cPMacRandom` over `QueueFifo` | the queue, `m_a`, `length`, `output`, `pc` | `generateRandom`, `Proceed` (a turn of its loop) |
| `SmartPtr`, `MCSmartPtr` | `cSmartPtr`, `cCounter`, several threads | slots, counters, objects, the global lock, a stack of frames per thread | one `Call` per operation, one `Step` per critical section or unguarded access |
| `SmartPtrProofs` | theorems about it | | |
| `Locks` | `getInstance`, `cMutex`, `cLock` | the pointer, the mutexes, the sections of each thread | the four steps of `getInstance`, the constructor and destructor of a section, its early unlock, `Unload` |
| `RefCount` | the `REFCOUNTABLE` macros | what each variable holds, counters, objects | `construct`, `copy`, the two sections of an assignment, `destruct` |
| `ManualEvent` | abstract: what `event.h` promises | `set`, `waiting` | `Set`, `Reset`, `BeginWait`, `EndWait` |
| `UnixEvent` | `cEvent` on pthreads; its theorems | `triggered`, `mutex`, `pc` | `setEvent`, `resetEvent`, `wait`, and a step per pthread call |
| `ThreadedClass` | `cThreadedClass` over `cThread` | the flags, the handle, where the child and the owner are, what is left of the object | `start`, `wait`, `destroy` by the owner; the steps of the child |
| `EventTest` | `tests/test_event.cpp` over the two modules above | both, and two program counters | `Main`, `Kid` |
| `Timeouts` | the sleeps of `cOS`, `TimeoutMonitor` | the second that passes, the sleep, the timeout | `Tick`, `sleepMillisecond`, `nanosleep`, `Interrupted`, `Wake`, `restart` |
| `StringerStream` | `cStringerStream` shared by printers | `m_lineRepository`, the piece each printer holds | `operator<<`, `flushEndlBuffer`, `outputString`, `flush` |
| `Threads` | one run of the six programs above | `program` selects | |
| `ThreadsProofs` | theorems about it | | |
| `MemoryStream` | `cMemoryStream` as operators on `[data, at]` | | `ReadBytes`, `AfterRead`, `AfterWrite`, `AfterSeek`, `isEOS` |
| `ByteFile` | abstract: a random access stream | `file`, `result` | `Read`, `Write`, `Seek` |
| `CacheStream` | `cCacheStream` | `down`, `readAhead`, `lazyWrite`, `result` | `read`, `write`, `flush`, `seek` |
| `BitStream` | `cBitStream` | both bytes in the making, the downstream | `writeBits`, `readBits`, `seek`, `reopen` |
| `RleStream` | `cRLEcompression` | the fields `m_w_*`, `m_r_*`, the downstream | `writeByte`, `rleFlush`, a read step per path of the loop, `seek` |
| `LzwStream` | `cLZWcompression` | both sides' tables, widths and prefixes, the coded bits | `lzwWrite`, `initNewStream`, `closeNewStream`, `startReading`, `readCode`, `readStops` |
| `PipeIO` | `copyStream`, `pipeRead`, `pipeWrite` | source, buffer, copy | a read of any length, a write of any length |
| `FileStream` | `cFileStream` over `cFile`, the system's files | names, lengths, handles, the `cFile` of each stream | `open`, `openHandle`, `Shares`, `close`, `length`, `write`, `seek`, `pipeRead` and its turns, `deleteFile`, what the program does with its handles |
| `SocketStream` | two ends of a connection, `select` and the system | `m_isInit`, `m_isClosed`, the timeouts, queues, where each end's call is | `create`, listening, `connect`, `accept`, `close`, `setTimeout`, a wait, a turn of each call |
| `MemoryAccess` | the accesser, its stream and forks | all of memory, the streams | `read`, `write`, `seek`, `fork`, `forkRegion`, `writeUint` |
| `Records` | `basicOutput`, `basicInput`, endianness, fragments | the wire, the place of the reader | a write and a read per kind of item, `Ends` (the cut) |
| `HashDigest` | `cHashDigest`, `cMD5`, `cSHA1`, `cHMAC` | block buffers, counters; registers and rounds | `Reset`, `Update`, `copyFrom`, the HMAC calls; a round of a compression |
| `Checksums` | `CRC64`, `CRC16` | the two values | `update` of any buffer at any alignment, `reset` |
| `Keystreams` | `cRC4`, `cRC4Random`, `cPRF` | permutations and places | `Encrypt`, `decrypt`, `generateRandom`, `prfRandom` |
| `Filters` | one run of the stream and digest modules | `component` selects | |
| `MemoryProofs` | a theorem about `MemoryAccess` | | |
| `FiltersProofs` | theorems about the cache, the socket, `copyStream`, files and memory | | |
| `PagedArray` | `cArray`, `cSArray` | `m_array`, `m_size`, `m_pageSize` | one per operation |
| `LinkedList` | `cList`, `cOrderedList`; the iterators of lists and arrays, the algorithms on them | a heap of nodes, `m_first`, `m_last`; a cursor; an index | one per operation, with what it does to a cursor that is held; every move of the cursor; the same for an array |
| `HashTable` | `cHash` | `m_hash`, `m_vectorSize` | one per operation |
| `SetArray` | `cSetArray` | `m_data`, `m_length` | one per operation |
| `Graph` | `cGraph` | nodes, neighbours, colours | `addNode`, `connectNodes`, `makeClique`, `setChosenColor` |
| `TextString` | `cString`, `cWildcardMatcher` | two strings: buffer and length; a subject and a pattern | one per operation, the caller's `Edit` and `SetAt`; subject and pattern grow, `match` is an operator |
| `Parser` | `Parser` and its `easyParsing` | the text, `m_pointer`, `m_lineNumber`; the pass over comments | one per read and peek; one per branch of the pass |
| `Numerals` | the numeral constructors of `cString`, the numbers of the parser, `BasicVariable` | the numeral so far, a typed variable | typing a character, `Read` |
| `Filename` | `cFilename` and the DOS name parser | a name | `cFilename` |
| `Containers` | one run of the containers, `PMacRandom`, `Graph` and the four modules above | `component` selects | |
| `ListProofs` | a theorem about lists, iterators, sorting and the graph | | |
| `ContainersProofs` | theorems about arrays, the bit array, the hash table and the generator | | |

`PMacRandom` uses `QueueFifo` as the code uses `cQueueFifo`. `EventTest` composes
`UnixEvent` and `ThreadedClass`: its kid is the child thread of the one and the
waiter of the other. `CacheStream`, `ByteFile` and `MemoryAccess` use the operators
of `MemoryStream`, or stand beside what it promises. The cursor of
`LinkedList` is held while every operation of the list goes on.

`Filters`, `Containers` and `Threads` do not compose: they put modules that do
not interact into one run. Their selector is chosen in `Init` and never changes;
the others rest in one fixed state, so the state space is the sum of the parts.
Their properties are those of the parts. The assumptions on the constants of the
parts stand there too, so that TLC evaluates them; `UnixEvent`, `SmartPtr`, `Locks` and
`QueueFifo` state their own, and `MemoryAccess` names its own (`MemoryConstants`), which
`Filters` assumes.

**Grain.** Where threads meet, an atomic step is what nothing can come between:
a critical section of the global lock in `SmartPtr`, `RefCount` and `StringerStream`, a
pthread call in `UnixEvent`, an access to a shared flag in `ThreadedClass`, a read or
a write of the pointer to the global lock in `Locks`. A system call of an end is a step in
`SocketStream`. Where an object belongs to one thread, an action is a whole call,
or a turn of its loop when the downstream is asked in between. `SmartPtr` takes the
global lock as given; that it excludes is the subject of `Locks`.

**Ghosts.** Some variables are history: `elements`, `contents`, `dictionary`, `known`,
`edges`, `texts` and `where` in the containers, `sent`, `received`, `plain`, `content`
and `message` in the streams, `waited` in `ThreadedClass`, `raced` in `Locks`, `reply` and `result`
where a call returns bytes, `taken` and `added` in `StringerStream`. No guard depends on what they say about correctness,
except that bounds count them.

**Definitions marked faulty.** A module may hold a variant of an operator,
commented `Faulty:`, with a plausible mistake in it. No specification uses them;
they are the mutants `PROJECT.json` lists, one for every property: with the
variant in place of the operator, TLC finds the property violated.

## 4. Runs, bounds and what they show

Distinct states are TLC's; the largest run takes about three minutes.

| Run | Configuration | States | Shows |
|---|---|---|---|
| `queue_fifo` | `QueueFifo.cfg` | 440 | the ring is a bounded FIFO and the full flag is truthful, from any uninitialised content |
| `smartptr` | `SmartPtr.cfg` | 210 550 | counts exact, nothing freed twice, used after its end or leaked, calls end |
| `unix_event` | `UnixEvent.cfg` | 240 | a lone waiter loses no wake-up; the event implements the abstract one, liveness included |
| `threads` | `Threads.cfg` | 33 614 | six programs of several threads: objects outlive their threads, locks exclude, counters count, times are kept, lines come out whole, calls return |
| `containers` | `Containers.cfg` | 210 988 | containers keep what was put in, strings are their texts, what scans a text reads what it says |
| `filters` | `Filters.cfg` | 721 637 | what is written is read back, over a cache, compressed, cut, sent, or in pieces; loops end |
| `smartptr_advance` | `SmartPtrAdvance.cfg` | violation | `p = p->next` reads a freed node |
| `unix_event_two` | `UnixEventTwo.cfg` | violation | the second of two waiters is never woken |
| `threaded_early` | `ThreadedEarly.cfg` | violation | destruction right after `start()` meets a pure virtual `run()` |
| `cache_eos` | `CacheEos.cfg` | violation | the end is announced with bytes left in the cache |
| `lzw_writes` | `LzwWrites.cfg` | violation | a second write loses its last digit |
| `array_mixed` | `PagedArrayMixed.cfg` | violation | after a change of page size the memory is too small |

### Properties

* `queue_fifo`: `TypeOK`; `FullFlagTruthful` (the flag says full exactly when no
  byte is free); `ImplementsFifo` (refinement of `ByteFifo`: the items are the
  cells from the read pointer on, wrapped).
* `smartptr`: `TypeOK`; `NoFault` (no access to freed memory); `CountIsReferences`;
  `HeldObjectLives`; `NothingLeaks` (with no call in progress); `CallsEnd`.
* `unix_event`: `TypeOK`; `MutexOwned`; `NoLostWakeup` (the waiter does not sleep
  while the event is set unless a signal is about to come); `ImplementsEvent`
  (refinement of `ManualEvent`, whose `EndWait` is fair: a waiter is let through
  if the event stays set).
* `threads`: `TypeOK`; `NoFault` (an owner without perils); `ObjectOutlivesRun` (`wait`
  means that `run` is over, the object is whole while its run executes, its memory
  outlives the child); `SecondWaitNeedsSecondSet` (`test_event`); `OneInside` (at most
  one thread is inside the sections, unless two were making the lock at a time);
  `ReferencesCounted` (counters are holders, what is held is alive, and what is
  alive and unheld was dropped by an assignment); `TimesKept` (a timeout expires
  within a second of its time, a sleep of less than a second, or the rest of any, is accepted; of a longer one it says
  nothing);
  `LinesAreWhole` (each character comes out once, in whole lines); `CallsReturn` (the
  owner's calls, the test, the wait for the lock, a short sleep).
* `containers`: `TypeOK`; `SizeFits`, `ElementsKept` (arrays); `LinksAgree` (links and
  contents of lists, iterators that stay in place and the comparisons of those at different
  ones, and the two ends of an edge); `HashIsDictionary`; `BitsKept` (and `first`); `KeystreamContiguous`
  (and the `CHECK`s); `StringsHoldTexts` (the buffer, the searches, fixed buffers, and
  the wildcard matcher, as far as it is what a pattern describes); `ScannersAgree` (comments,
  line ends, the parser's line and blocks, numbers, file names); `CallReturns`.
* `filters`: `TypeOK`; `WrittenReadBack` (numbers of any width through bits, runs, LZW
  with its tables in step, serialised items); `BytesKept` (`copyStream`, streams on
  files, streams over memory); `SocketKeepsItsWord` (the bytes of the
  callers, each sent once, received in order); `PiecesMakeNoDifference` (digests, HMAC, checksums and ciphers over any cut;
  the unrolled rounds of MD5 and SHA1 against the loops that define them);
  `CacheIsFile` (refinement of `ByteFile`); `PipeReadIsWhole` (a `pipeRead` of a socket ends
  with all, with an exception, or with what there was before the peer closed);
  `StreamsEnd` (`copyStream`, `pipeRead` of a file and of a socket).

A property that joins several facts does so because each run has one component at a
time: the conjuncts are claims on different behaviours.

### Bounds and why they are enough

* `queue_fifo`: 3 cells, 2 byte values, calls of up to 4 bytes, more than the
  capacity. Each pointer rests at each cell and one past the last; reads and
  writes are cut, whole and empty. The theorems lift the size.
* `smartptr`: two threads, two variables and a member pointer, three cells; a
  node whose member is the next one, which is what cascades need. `MCSmartPtr`
  names the nodes. A third thread adds no pair of steps that two do not have:
  the properties relate one counter to the steps of those that share it.
  `smartptr_advance` takes one thread, two members and five cells.
* `unix_event`: a waiter and two threads that set and reset.
  `unix_event_two` has two waiters and one setter. The theorems lift both.
* `threads`: one owner and two objects; the perils (failed creation, exceptions,
  early destruction) are chosen for each program before it runs: none, one, or all.
  Two threads, two locks and sections nested twice (`MaxLocks`, `MaxNested`): the
  race needs two threads and makes two locks. Three variables and three objects
  (`MaxObjects`), so that an assignment has a source, a target and a bystander.
  A second of 3 units, each divided in 2 (`Second`, `Scale`), and a `uint` of 32
  values: durations lie below a second, at it, beyond it, and beyond the wrap of
  the product; two signals per sleep (`MaxSignals`); timeouts are looked at for 13
  units (`MaxElapsed`), four seconds. Two printers, 3 prints (`MaxPrints`) of a text with
  no, one and two line ends.
* `containers`: arrays of up to 3 elements with page sizes 0 (none), 2 and 3, so
  a page is smaller than, equal to and no divisor of a size. Lists of up to 4
  nodes: first, last, middle and only node exist, and a repeated item. An index of
  8 values (`UintRange`) that wraps. Hash tables of 1 to 3 lists and 4 keys, which are
  sequences of bytes with equal sums among them. Bit arrays of up to 5 bits in words of 3:
  a full and a partial word. The generator with a digest of 3 bytes and requests
  of up to 7 (more than two blocks), over 6 blocks (`MaxBlock`): every rest of a block
  meets every request. Graphs of 3 nodes and up to 3 neighbours in a list. Strings of
  up to 3 characters, of a blank and letters in both cases; strings and patterns of 3
  for the matcher; sources of the comment pass of 5 characters, which is `/**/` and
  one more; the parser's texts are every one of 3 characters, and braces and special
  marks of 5; numerals of 4 digits in variables of 3, 4 and 6 bits, so that widths
  overflow. Names of up to 3 (`MaxPath`) from relative paths of 2 characters or whole ones.
* `filters`: caches of 2 bytes, files of up to 4 and calls of up to 3, so that a
  call is below, at and beyond the cache. Bytes of 3 bits with numbers of 2 and
  4 bits: below and across a byte, and together at its end. Runs with `MaxByte` 4 in place of 255 and
  every flag from 0 to 4; up to 5 bytes (`MaxPlain`), the flag's run included.
  LZW with 2-bit digits (the default has 8) and up to 6 digits in one write: the
  width of the codes grows, and the string that is only about to be added is
  named. Copies of up to 5 bytes through a buffer of 3 into room for 5; the theorem
  lifts these. A connection with room for 2 bytes, 3 bytes (`MaxBytes`) in calls of 3, so that a
  call needs two turns at least, one timeout of one wait that the client sets, one reply; `MaxConnections` 1. One name of a file of up to 2
  bytes, three handles, two streams. Bytes to the base 6 of which 3 are ASCII (`Base`, `Ascii`), numbers of
  2 bytes, texts of 2 characters, 2 items, cut behind any byte. Digest blocks of 3 words of 2
  bytes, pieces of 3, 4 and 13 bytes, messages of up to 80, keys shorter and longer
  than a block, counters that wrap at 12 (`UintRange`); compressions of two blocks, with words
  of 8 bits. Checksums of bytes of 2 bits, messages up to 7, at all four alignments.
  A permutation of 4, pieces of up to 4. A buffer of 2 bytes at address 5 of 16,
  under two virtual bases, one of them wrapping; a stream and one fork.

Deadlock is checked in the runs whose system never stops, `queue_fifo`, `unix_event`
and the counterexample of two waiters. The others set `CHECK_DEADLOCK FALSE`: there a
bounded input is used up, a test or a program ends, or a reader reaches the end.

## 5. Fairness

* `SmartPtr`: strong fairness of each thread's `Step`. A thread inside a call is
  scheduled, and the mutex is given to it if it is free again and again. No
  thread has to begin a call.
* `UnixEvent`: weak fairness inside the event, strong fairness of taking the
  mutex. Nothing makes a spurious wake-up happen, and nothing makes a thread set
  the event: a waiter is freed only if somebody does. Strong fairness is more
  than POSIX says of a mutex; what the code relies on is that a mutex held for
  a few instructions is not withheld for ever.
* `Threads`: weak fairness of each child and of the owner inside a call
  (each `run()` is taken to end, since the library cannot make it), of both threads of the test,
  of `getInstance` and of leaving a section, of time and of the system that wakes a
  sleeper; strong fairness of the steps of the event, of a thread that takes the
  lock (`LockTaken`) and of one that leaves its last section (`LockDeparts`): a holder nests
  and leaves nested sections as often as it likes, but not for ever.
* `Containers`: weak fairness of a turn of the generator's loop; it has one thread.
* `Filters`: weak fairness of a turn of the loop that is under way, of which a behaviour
  has one: of `PipeProgress`, calls of `copyStream` that move at least a byte or find the
  end; of a turn of the `pipeRead` of a file; and of the reads of the server's end of a
  connection. Zero-length results are legal (`basicIO.h:103-108`) and may come any number
  of times, but not for ever; `CopyEnds` also needs room in the destination.
  Nothing makes the peer of a connection send or close.

The abstract modules carry the fairness that their promise needs, and it is
checked as a property of the detailed one.

## 6. Proofs

TLAPS checks every proof to its last leaf, for every value of the constants
that meets the stated assumptions. Seven modules hold nothing but proofs; `UnixEvent`
has few enough to carry them after its definitions.

**`QueueFifoProofs`**, for every capacity, byte set and buffer length.
`QueueTypeCorrect` (`Spec => []TypeOK`) is inductive as it stands.
`QueueFullFlag` rests on it: `WriteOccupies` and `ReadReleases` say how much each
call takes and gives back on the ring, case by case of the wrap.
`QueueIsFifo` (`Spec => ImplementsFifo`) is the refinement: the content
of the ring, read from the read pointer around, has the accepted bytes added at its
end by `write` (`WriteRefines`) and the returned ones dropped from its front by
`read` (`ReadRefines`). The invariant is `TypeOK` with the truthful flag: without the
flag, equal pointers would not say whether the content is empty or everything.

**`UnixEvent`**, for any set of threads. `Owned`, that is `TypeOK` and
`MutexOwned`, is inductive: a thread is between lock and unlock exactly when it owns
the mutex (`EventTypeCorrect`, `EventMutexOwned`). `EventNoLostWakeup` assumes
at most one waiter, as it must: with two it is false. Its strengthening is
`SignalComing`: while the event is set, either nobody is blocked or some thread
is about to signal, which holds because `triggered` is set and signalled
inside one critical section. `EventRefines` is the safety part of the refinement:
every step maps to a step of `ManualEvent` or to none.

**`ContainersProofs`**, four theorems about the specification of `Containers`, one part each;
a step of another component leaves the part alone.

* Arrays, for every element set, page sizes and lengths, with page
  sizes changed with care (`Careful = TRUE`, the negation of which is the run
  `array_mixed`). `SizeFits` alone is not inductive: `changeSize` keeps memory that
  differs from the rounded size by less than a page, and only if the memory is
  whole pages does "less than a page" mean "not at all" (`PagesApart`). That is the
  conjunct `Paged` of `ArrayInv`. `ArraySizeFits` and `ArrayElementsKept` follow, with
  `InitSized`, `InitStatic` and `PlusKeeps` for the constructors and the sum.
* The bit array (`BitArrayKeepsBits`), for every number of bits in a word. A bit is where
  its index says, in a word of its own place and no other (`PlaceOf`, `PlaceBack`), and
  the words are as many as the length needs (`WordsCount`). The invariant (`BitsInv`) says only that
  each known bit below the length shows; the bits beyond it, which shrinking leaves behind,
  are shown not to mislead `first()` (`FirstIs`).
* The hash table (`HashFindsWhatWasPut`), for every set of keys, length of the array and width of
  the sum. The list at a place holds the keys of that place, each once, with their data, and nothing
  else (`ListSound`, `Sound`). From this a key is found if and only if it was put in (`FindIs`); an
  operation changes one list and is not seen from the others (`TableChanged`). A copied table is
  built pair by pair and `keys()` list by list: both are functions defined by recursion, which
  `Recursion` shows to exist and `Induction` follows step by step.
* The generator (`GeneratorIsContiguous`), for every digest length. Its queue is an
  instance of the queue of `QueueFifoProofs`, whose lemmas say what a write adds and a read
  takes. Between calls and turns of the loop, what was handed out, what is in the queue and
  the blocks generated meet without a gap (`RandomInv`).

**`ListProofs`**: `ListsAndGraphsLinked`, the four parts of `LinksAgree`, and the arithmetic and
facts on sequences that `ContainersProofs`, which extends it, uses too. The model follows links
and the property speaks of what following them finds, both by recursive functions, so the proof
needs what neither says: where the nodes are.

* Lists and their iterators, for every set of numbers and every length. There is a
  sequence `s` of addresses without repetition, in which the k-th node has the k-th element
  and is linked to those beside it (`Chain`, `IsLaid`); the iterator is at `s[where + 1]`
  (`ListInv`). A node that is made or removed is one more or one less in `s`, wherever
  it is: at the first, the last or the only node the code takes other paths to the same
  (`Linked`, `Removed`). From `s`, walking the links finds the nodes in order, a search the first wanted one, and a comparison of iterators at two places that of the places; an ordered list inserts where the order asks.
* `boubbleSort`, which exchanges contents and leaves the nodes: each exchange is a
  rearrangement (`Rearranged`), and after i passes the first i elements are in order and none
  of the rest is less (`Settled`), since within a pass the least of the rest comes down with the
  index (`Bubbled`). A rearrangement in order is the only one (it has as many elements up to each
  value), so it is what `Sorted` chooses.
* The index of an array's iterator is the true offset modulo its width (`IndexInv`), and
  what the guards keep within one width is known from it.
* The graph (`GraphInv`): the entries for an edge are as many on the one side as on the other, in
  every order of `connectNodes` with and without duplicates; a clique is its pairs, row by row.

The facts on sequences and numbers are lemmas of their own, as the provers need them away
from the state. `LeastOf` (a set of numbers has a least member) comes from the library's theorem on
well-founded relations; `Induction` over an interval follows from it, stated with a
set in place of a predicate.

**`FiltersProofs`**, for every size of the two caches, of streams, calls and queues.
`CacheIsItsFile` is the refinement `Spec => CacheIsFile`: to a careful client the
cached stream is a plain file. The invariant `CacheInv` says that the read-ahead is what lies just
before the place of the stream below, that the lazy bytes fit their cache, and that one
of the two is always empty; so the stream that the client sees is the one below, moved
back by the one or overwritten with the other (`SeenReading`, `SeenWriting`). Reads, writes
and seeks map to those of `ByteFile`, a flush to no step. `Overwritten` and
`WrittenTwice` say what a stream is after one write, and that two writes in a row are one.
`SocketWordIsKept` and `SocketReadsWhole` are about a connection. The invariant `SocketInv`: what
one end has received and what is still queued for it is what the other has sent, while it is
open or waiting to be accepted; the server is initialised only when it is open; an initialised
end that is in a call is connected. That a `pipeRead` that ends is whole or threw is a fact about
single steps from such states (`WordKept`). That no byte is left out or sent again takes
`PlaceInv`: the pointer of a call into its caller's bytes is just behind those that were moved,
except for a writer whose connection is broken, whose bytes are lost while its pointer goes on.

`BytesAreKept` is about three components.

* `copyStream`, for any bytes, chunk and room, and reads and writes as short as they like. A
  call cuts a sequence in two and moves the first part behind another one (`CutInTwo`,
  `MovedOver`), which leaves the two together as they were. The invariant (`PipeInv`) adds that
  chunk and source are empty when `copyStream` has returned.
* File streams, for any names, flags, handles and `cFile`s, as long as the program lends no
  handle (`Lends`; if it does, `StreamsStayOnFiles` promises nothing). Not inductive by itself: a
  handle that is closed is given out again, and so a stream is on its file only if nobody
  else has its handle. The invariant (`FileInv`) says that an open handle has one owner, the
  program or one `cFile`, and that the one of a `cFile` is open on the file that this was
  opened on (`Owned`).
* Streams over memory are `MemoryIsKept` of `MemoryProofs`, a theorem about `MemoryAccess`
  alone, whose hypothesis `MemoryConstants` is the assumption `MemoryAssumption` of the run.
  It is an instance there (`OfMemory`), and `MemoryOfRun` shows that the instance of the
  run is the same.

**`MemoryProofs`**, for any buffer, addresses, virtual bases and number of streams. That the first
stream is a memory stream needs that no other one writes outside of the buffer; but
`getAddress` accepts the address behind it, so a write may end a byte behind, and a region forked
there begins a byte behind. So regions creep: the k-th one ends at most k buffers, with a byte
for each, behind the start (`StreamsPlaced`), and this is what addresses must reach without
overflow (`MemoryConstants`). What the buffer holds is the twin's data, and nothing else was
written but that byte (`BufferKept`); what was read last is still there (`BytesShown`).

**`SmartPtrProofs`**, for any threads, variables, members and cells. `SpecTypeOK` is
inductive by itself. The other theorems, `NoFaultHolds`, `CountIsReferencesHolds`,
`HeldObjectLivesHolds` and `NothingLeaksHolds`, assume `Exclusive` and `Pinned`, the two duties of a
caller: without the first a variable is copied while it is assigned, without the second
`p = p->next` frees its own source (the run `smartptr_advance`). A call is a frame on the
stack of its thread and destructors nest, so the invariant speaks of `Frames`, the set of all
frames of all threads; `Apart` (no two frames on one variable) lets the set stand for the
stacks, and `Entered`, `Replaced`, `Returned` and `Pushed` say once what a step does to it. A
variable no call writes is counted (`Settled`), one that a call writes is as far as the label of
its frame says (`Placed`). `Counts` alone is not inductive: that the one who
brings a count to zero is alone in deleting it is `Lone`; that a copy is made from a variable that rests and,
if it is a member, from an object a local variable holds is `Sourced`, which is why the second section of an
assignment finds its source alive; that a member has the lifetime of its object is `Together`;
and that a counter without holders has somebody who is about to delete it is `Owned`, from
which nothing leaks. There is a lemma per action, and three for what several share
(`FreshKeeps`, `CopyKeeps`, `BeginKeeps`).

**`ThreadsProofs`**, for any numbers of threads, objects, locks, variables and printers, any
perils, and times that obey one assumption: the nanoseconds of a second fit a `uint`, as they do.
Every safety property of the run is a theorem, from one invariant: a step of a program keeps that
program's part and leaves the state of the others alone (`Steps`).

* Locks (`LocksExclude`): the mutex of every lock is held by
  the thread whose open sections it guards, as deep as these are many (`Guards`), which
  holds whatever `getInstance` does; and while no two threads have been making
  the lock at a time, nobody makes it once the pointer is set, so that all threads
  inside use the one lock (`OneLock`). `OpenAppended` and `OpenClosed` count sections.
* Reference counted objects (`RefCounted`): the counter is the cardinality of the
  holders (`Counts`); an object is alive exactly if it has holders or was dropped (`Alive`); the
  source of an assignment that is under way still holds its object (`Sourced`), which lets the
  second section of the assignment take it.
* Time (`TimesAreKept`): the seconds counted and the part of one that has passed lie between
  the time elapsed and a second more (`TimeInv`). What the system accepts is a sleep of less
  than a second or one whose product wrapped (`SleepInv`, with `NanosecondsFit`).
* Lines (`LinesComeWhole`): what was taken out of the repository and what is left in it is what was
  printed, and a line still in it has a printer that will look again (`Gathered`);
  a piece is out or in the hands of one printer (`Printing`).
* Threaded objects (`OwnerMeetsNoFault`, `ObjectsOutliveRuns`; of `ThreadedClass` alone
  `ThreadsNoFault`, `ThreadsOutlived`): the invariant says where the child may be, given the flags and past waits (`Told`); how
  much of the object is left, given the owner's call (`Lives`); and that without the
  peril at hand creation succeeds and a child that is over has said so or was
  cancelled (`Regular`). A step of the one side leaves what is said of the other's place alone.
* `test_event` (`SecondSetIsNeeded`): how far the kid is bounds how far the main thread is,
  through the event: until the second set comes, either the event is not set or the kid has not
  cleared it (`TestOrder`), with the labels of the event's calls in `TestTypes`.

A caution about the tool: tlapm 1.4.5 tells the SMT solver that *every* value has a length and,
as its domain, the interval from 1 to that length, which is false of a function on, say,
`0 .. n`. So that no proof rests on this, the SMT problems that mention `Len` were solved
once more with the fact restricted to sequences; two leaves that were not are left to Zenon.

Only model-checked:

* liveness: `CallsEnd`, `CallReturns`, `CallsReturn`, `StreamsEnd`, and the
  fair part of `ImplementsEvent` need fairness and `ENABLED`, which TLAPS 1.4.5
  cannot reason about;
* what the codecs, the digests and checksums and the scanners of texts compute
  (`WrittenReadBack`, `PiecesMakeNoDifference`, `StringsHoldTexts`, `ScannersAgree`): recursion
  over data, by folds and recursive functions over whole texts and messages, each of which
  would need the induction that was spelled out for the list and the hash table;
* the `TypeOK` of `Filters` and of `Containers`, which join those of all components: the parts
  the other theorems need are in their invariants.

## 7. Where the code departs from its documentation

Six runs end in a counterexample; `PROJECT.json` quotes the line contradicted.

1. `cSmartPtr::operator=` gives up its own reference before it reads the other
   (`smartptr.inl:124`): `p = p->next` may free the node that holds `next`.
2. `setEvent` signals one waiter of an event that stays set
   (`unixEvent.cpp:78`): the next one sleeps on. `event.h:95` promises otherwise.
3. The destructor of `cThreadedClass` runs after the derived class is gone
   (`threadedClass.cpp:83`): the child may call a pure virtual `run()`.
   `threadedClass.h:134-135` promises that this does not crash.
4. A cached stream is at its end when the stream below is (`cacheStream.cpp:98`).
5. A later `write` to an LZW stream loses its last digit (`lzw.cpp:211`).
6. `changeSize` after `setPageSize` or a `swap` of another page size keeps memory
   that is too small (`array.inl:277`).

Met while modelling. They are in the models as the code has them, with properties that
say so much as the code and its documentation agree on; or they are the caller's duty there;
or outside the models. Where the two disagree no property asserts either behaviour, so that a
correction of the code breaks none: sleeps of a second or more, the timeouts of a socket
over several calls, a `pipeRead` whose peer has closed, an iterator compared with itself or
asked for more at the end of an array, a pattern that is used up before the string, and letters
behind a `*`.

Ownership and threads:

* `smartptr.inl:81` clears the fields outside the lock: a variable copied by one thread
  while another assigns it is a race (`Exclusive = FALSE` shows it).
  `smartptr.inl:143`: comparing two NULL pointers asserts.
* `smartptr.cpp:54`: two threads that use the first smart pointer at one time may make
  two locks, one of which is never deleted, and be inside together. No property forbids it: `OneInside` excepts such a start.
* `refCountObject.h:178`: an assignment to the last holder of an object never deletes the
  object (`dropped` in `RefCount`).
* `threadedClass.cpp:56,109`: `m_isStarted` stays set when creation fails, `m_isDone`
  unset after an exception: the destructor then spins, or cancels a handle that is none. No
  property forbids it.
* `unixOS.cpp:96`: a sleep of a second or more is refused by `nanosleep` and asked again for
  ever, unless its product wraps. `TimeoutMonitor.cpp:36`: the timeout of 1 means never.

Streams:

* `basicIO.cpp:704`: the assertion of `copyStream` is inverted.
  `basicIO.cpp:515-522`: `pipeWrite` to a full destination never returns, against
  `basicIO.h:411`. `basicIO.cpp:339-380`: `readAllStream` replaces, where
  `basicIO.h:297` says it appends.
* `socketStream.cpp:424`: nothing sets `m_isClosed`, so a `pipeRead` whose peer has closed
  never ends. `socketStream.cpp:375`: `select` counts the timeout member down; once it
  is used up, later calls only poll.
* `fileStream.cpp:145`: a `pipeRead` from beyond the end never ends, and `length()` of an
  empty file throws. `unixFile.cpp:135`: `isFileExist` says yes to directories only.
* `threadUnsafeMemoryAccesser.cpp`: `getAddress` accepts an address one behind the buffer, and one
  whose sum with the start wraps. `memoryAccesserStream.cpp:65`: a fork leaves
  `m_ignoreFragments` uninitialised.
  `virtualMemoryAccesser.cpp:45-68`: `writeUint` writes a word of the machine where `readUint`
  reads four bytes.
* `fragmentsDescriptor.cpp`: fragments are clipped to what an address holds when types are not sent.
* `cacheStream.cpp:92`: a refused `seek` has already dropped the read-ahead.
* `bitStream.cpp`: `flush` pads with stale bits, against `bitStream.h:115`; a seek from the
  current place works between bytes only.
* `rle.cpp:327`, `lzw.cpp:160`: `seek` always throws; RLE's has then rewound the stream below
  and kept the run. `lzw.cpp:181`: `closeNewStream` before
  `flush`, as `lzw.h:170` asks, puts the end signal before the last string.
  `lzw.cpp:273`: a small read buffer hangs. `lzw.h:78`: sizes below 8 are allowed but
  1 breaks the widths and others can read padding as a code.
* `Crc64.cpp:190`: `clone` gives a fresh object.

Data and texts:

* `list.inl:74-93`: assigning a list to itself empties it. `list.inl:200`: removing the
  end deletes the sentinel. `orderedList.h` promises exceptions for an empty list that do
  not come.
* `list.h:369`: an iterator is less than itself, and so never `>=` an equal one; the lists'
  `==` is always true, over the stub `compare` (`algorithm.h:148`); a post-increment returns the
  moved iterator; `hasNext` of an array's iterator is true at the end (`array.h:342`).
* `array.inl:329`: `append` of an element of the array itself reads freed memory if the
  array moves.
* `setArray.cpp`: growing shows bits again that shrinking hid.
* `string.cpp`: a string appended to itself loses its null before it is copied, while `s + s` is
  fine; `replace` with a text that holds what it replaces never ends (`:642`); `split` misses
  a divider at the beginning (`:662`).
* `wildcardMatcher.cpp:107`: a pattern without `*` matches every string that it begins, and
  (`:88`) the case flag is lost behind a `*`.
* `parser.cpp:467,491`: a new line inside a block is counted twice, and a block at the end of the
  text leaves the pointer on its brace; `:372`: numbers are not checked for their width.

## 8. Modelling decisions

* **Callers.** Inputs are calls a caller may make. `Careful`, `Exclusive`, `Pinned`,
  `Perils` and `Lends` name the duties of the caller, and the runs that drop one show why it is
  a duty. The client of the cache does not mix reading and writing without a flush,
  nor ask for a seek that is refused; programs do not lend a handle and close it.
* **Uninitialised memory** is any value: the cells of the queue and of arrays, the flag
  `m_isStarted1`, the bytes in the making of a bit stream; or a value of its own, `Unset`, where
  no property may depend on it.
* **Memory safety** is a `fault` variable in `SmartPtr` and `ThreadedClass`, set by the
  first step that touches what is gone; the property is that none does.
  Cells are used again once free, so stale references would meet new objects.
* **Widths.** The 255 of RLE and the 8 bits of a byte are constants; `uint` is `UintRange`
  where it may wrap (sleeps, digest counters, iterators), an address is below `AddressRange`;
  counters that cannot wrap within an address space are numbers.
* **Digests.** In `DigestNext` a digest is the sequence of blocks it was computed from, so that two
  are equal exactly if the same bytes went through the same blocks. The compression functions are
  modelled apart, round by round, over small words, and compared with the hashes as they are
  defined; of their constants the low bytes are kept, of those of MD5 not even these.
* **HMAC** in the generator is the position of its output in the keystream; cHashFunction of a number
  is the number modulo the length of the array, as in `hash.cpp`, of a sequence of bytes that of their sum.
* **Texts** are sequences over a few characters that the code tells apart, not letters of
  an alphabet. A scanner is an operator or an action per branch, its reference a definition
  that looks at the whole text.
* **The system** under files and sockets is external: the lowest free handle is given next, a
  connection keeps order and loses nothing but what is sent to a closed end, a timeout of
  `select` is counted in waits.
* **`pthread_cond_wait`** gives up the mutex and blocks in one step, takes it back in another,
  and may wake for no reason.
* **A plain read of a flag** by another thread reads its current value; a compiler that
  hoists it out of the loop is not modelled.

## 9. Not modelled

The Windows and XDK ports (thin wrappers of system calls; the parser of DOS names,
the only one there is, is modelled); socket addresses (the resolver); pipes, serial ports and text
formatting streams; data streams and alignment (wrappers that print or forward); traces,
asserts and exceptions (reporting); interfaces without an implementation; small
pure helpers. Of the modelled components, what is left out is said in the notes of
`PROJECT.json`: among others the array form of `delete`, serialisation of
containers to text, `clone` with `assignPointer`, datagrams, 64 bit file positions.

## 10. Plan

What the models could still take, in order of what can go wrong:

1. a client of the cache that mixes reading and writing, with a property that says which
   mixtures are safe;
2. LZW with digits narrower than a byte, and its read into a small buffer;
3. the memory stream over `PagedArray` with a caller's buffer and its lazy destructor;
4. a clock that is set back under `TimeoutMonitor`;
5. handles that are lent (`Lends`) with the property that fails there.

To prove, beyond section 6:

* the `TypeOK` of the runs whose parts are not in an invariant yet, beginning with `RleStream`
  (counters never pass the longest run);
* `StringsHoldTexts` for the operations that join and cut, of which only the searches recur;
* `BitStream`: that a number of any width comes back, with the bits as one sequence.
