# A TLA+ model of mondale.ftl

mondale.ftl is a C++ base library for network servers on Linux: threads and
locks (`base/`), logging through a background writer (`base/`), containers and
handles (`core/`), an edge-triggered epoll runtime (`io/`), TCP and TLS (`net/`),
an HTTP/1.1 server (`http/`) and a serialization format with its compiler
(`capsule/`). This directory models the parts of it that run concurrently or
keep state over long call sequences, its containers and its wire format, checks
them with TLC and proves the most important safety properties with TLAPS.

Names in the modules follow the source (`head_`, `idlers_`, `kYield`,
`AppendToSink`). Every definition that stands for code is listed with its lines
in `PROJECT.json` under `map`.

## 1. Inventory

### The parts and how they interact

```
 application threads                         silo threads (one per core)
   |  LOG(...)                                |  Silo::ThreadMain2
   v                                          v
 LogQueue (MpscQueue) --> LogWriterThread   IoHandlers <-> Context
   ^                        |                 ^      Listener, TlsSniffer,
   | LOG from handlers      v                 |      SslHandshaker, SslSocket,
   |                      sinks (files)       |      HttpStream, WebSocket
   +------------------------------------------+
 Epoller::Register / RunWithAffinity --(inbound list + eventfd)--> Silo
 Mutex, Notification: under everything that is shared between threads
```

| Part | State | Operations | What is hard | What makes it correct |
|---|---|---|---|---|
| `base/mutex` | one futex word of three values | Lock, TryLock, Unlock, Await, AwaitWithTimeout | barging, spinning, sleeping and timed waits interleave on one word | exclusion; the word is true; no lost wakeup; Await returns with its predicate true |
| `base/mpsc_queue` | ring of cells with `ready` flags, `head_`, `tail_` | TryEnqueue (many threads), Dequeue (one) | stale reads of `head_` and `tail_`, publication out of ticket order, relaxed stores | FIFO by ticket, no loss, cells not shared, bounded occupancy |
| `base/log_queue`, `base/log_writer_thread` | queue, drop counters, per sink buffer and counters, `last_flush_`, stop flag | Push, Flush, Stop, RunLoop | congestion, short writes, failing sinks, overload, Flush and Stop at any moment | entries in order and at most once, every missing one accounted for, bounded memory, Flush and Stop end |
| `base/notification` | futex word of three states | Notify, Wait, WaitWithTimeout | Notify races the destruction by a waiter | a wait ends iff notified or timed out |
| `base/log_queue_map`, `base/numa` | CPU to queue table | build at start-up | numbering of CPUs across domains | the invariants listed at the top of `log_queue_map.cc` |
| `base/thread`, `thread_registry`, `process`, `stacktrace` | names of running threads, start-up hooks, signal depth and generation, captured threads, the dump's coprocess | Start, Join, GetOrCreate, AwaitSigInt, DeadlySignalHandler, CapturedThreadHandler, DumpStacks | signals in any thread at any point; threads that end while they are being captured; a coprocess that hangs | the registry names who runs; a deadly signal ends in an exit |
| `core/handle_table` | slots, generations, LIFO free list | Allocate, Lookup, Free | stale handles after reuse | a stale handle never finds another object |
| `core/intrusive_list` | hooks | PushBack, Erase, IsLinked | lists of one tag share a hook | an element is in at most one list per tag |
| `core/inlined_vector`, `small_map`, `flat_map` | inline and heap storage; a sorted vector | insert, erase, find, copy, move, swap | transition between the two storages, ranges, moves | agrees with a function; cells constructed and destroyed in turn |
| `core/result` | a tagged word, counted extended errors | copies, moves, conversions to and from ResultOr | self-assignment and moved-out errors | exact counts; an error stays an error |
| `io/silo`, `io/context` | `PerFd` table, six intrusive lists, the inbound list | the loop's phases, Context calls | what a handler may do during an upcall; edges that are reported once; shedding and closing at once | no lost edge, no lost or duplicated descriptor, suspension and closing respected, no fatal check |
| `io/epoller` | silos, affinity of handlers | Register, RunWithAffinity, Route, destruction | two threads route one new handler | a handler lives in one silo |
| `io/data_handler`, `source_buffer`, `sink_buffer`, `poster` | byte queues between a handler and its descriptor | Read, Write, Post | partial transfers, back-pressure | bytes in order, none lost |
| `net/*` | listener, TLS sniffing, handshake, SSL socket with its write queue | accept, peek, handshake, read, write | wants-read and wants-write crossings, short writes | a connection is owned by one handler at a time and is closed or served |
| `http/*` | incremental parser, stream buffer, response, web socket queue | parse, dispatch, respond, close | input cut anywhere, close while data is queued | the parse does not depend on how input is cut; every close is carried out |
| `capsule/*` run time | objects, their storage and the handles that keep it alive | size, encode, frame, unframe, decode, view, print, parse | schema versions, padding, reused objects, tagged and untagged literals | the promised size is the written one; damage is refused; values, defaults and `has_` survive a change of version |
| `capsule/*` compiler | parse state, files | parse, verify, generate | names glued from other names, colliding hashes, cycles | what is accepted yields unambiguous C++ and wire names |
| `testing/*`, `tools/*` | | | test support | not part of the running system |

### Hazards

`PROJECT.json` lists under `hazards` what is hard to test, at the line where it
bites, with the property that would catch it. The important families:

* orders of atomic accesses (`mutex.cc:51`, `mutex.h:43`, `mpsc_queue.h:44`,
  `mpsc_queue.h:62`, `mpsc_queue.h:86`, `notification.h:29`, `epoller.cc:80`);
* signals and captured threads (`process.cc:42`, `:157`, `thread_registry.cc:22`, `:53`);
* times and counters read at one moment and used at another
  (`log_writer_thread.cc:282`, `silo.cc:246`);
* short writes, congestion and failing sinks (`log_writer_thread.cc:225`, `:235`,
  `log_queue.h:39`);
* sequences of legal Context calls and dead handles (`silo.cc:391`, `:421`, `:501`);
* edges reported once (`silo.cc:90`) and the inbound list swapped under its
  writers (`silo.cc:173`);
* the hand-over of a connection (`tls_sniffer.cc:10`, `http_server.cc:112`);
* bytes between socket and stream (`http_stream.cc:68`), crossed SSL operations
  (`ssl_socket.cc:146`), a flag that is never initialised (`web_socket.h:37`);
* storage and identity in containers (`inlined_vector.h:164`, `small_map.h:354`,
  `handle_table.h:24`, `intrusive_list.h:238`, `result.h:187`);
* versions, sizes and names in capsules (`verify.cc:285`, `encoder.h:166`,
  `decoder.h:133`, `:300`, `generator.cc:299`).

## 2. Modules

| Module | Models | Role |
|---|---|---|
| `Mutex` | `base/mutex.h`, `base/mutex.cc` | detailed specification |
| `MutexProofs` | | theorems about `Mutex` |
| `BoundedFifo` | what a queue promises: reserve, publish, take | abstract specification |
| `MpscQueue` | `base/mpsc_queue.h` | detailed specification, implements `BoundedFifo` |
| `MpscQueueProofs` | | theorems about `MpscQueue` |
| `LogWriter` | `base/log_queue.h`, `base/log_writer_thread.*` | composed with `BoundedFifo` as its queue |
| `MCLogWriter` | | severity masks of the sinks, sizes of the entries |
| `Notification` | `base/notification.*` | detailed specification |
| `Process` | `base/thread.*`, `thread_registry.*`, `process.*`, the control of a dump in `stacktrace.cc` | detailed specification |
| `MCThreads` | | `Mutex`, `MpscQueue`, `Notification` and `Process` in one run |
| `ThreadsProofs` | | theorems about `Notification` and the registry of `Process` |
| `Silo` | `io/silo.*`, `io/context.*` | detailed specification of one silo |
| `MCSilo` | | the handlers' behaviour |
| `SiloProofs` | | theorems about `Silo` |
| `Epoller` | `io/epoller.*`, `io/io_handler.*`; admission, closing and shedding of several silos | detailed specification |
| `EpollerProofs` | | theorems about `Epoller` |
| `Server` | `net/listener.*`, `net/tls_sniffer.*`, creation and hand-over in `http/http_server.cc` | extends `Epoller` |
| `ServerProofs` | | theorem about `Server` |
| `MCServer` | | `Epoller` with two silos, and `Server`, in one run |
| `HttpStream` | `http/http_stream.*`, `RequestParser::Parse`, `HttpServer::Serve` | operators on a stream, no state of its own |
| `HttpConnection` | `http/web_socket.*`, `net/ssl_socket.*`, `net/ssl_handshaker.*`, the URI map of `http/http_server.cc`, one descriptor of `io/silo.cc` | composes `HttpStream` with a socket, the silo and the peer |
| `HttpConnectionProofs` | | theorem about `HttpConnection` |
| `MCHttpConnection` | | sessions of requests |
| `SmallMap` | `core/inlined_vector.h`, `core/small_map.h` | storage of the vector, the map on it |
| `FlatMap` | `core/flat_map.h` | sorted vector against a function |
| `HandleTable` | `core/handle_table.*`, `core/handle.h` | slots, generations, free list |
| `IntrusiveList` | `core/intrusive_list.h` | hooks as pointers |
| `Result` | `core/result.h`, `core/result.cc` | tagged word and counted errors |
| `ContainersProofs` | | theorems about `HandleTable`, `Result`, `IntrusiveList`, `FlatMap` and `SmallMap` |
| `MCContainers` | | the five data types in one run |
| `CapsuleCompiler` | `capsule/lexer.cc`, `parser.cc`, `hashing.cc`, `verify.cc`, `compiler.cc`, names of `generator.cc` | parser a token at a time, verification passes |
| `CapsuleWire` | `capsule/abi.h`, `size_builder.h`, `encoder.*`, generated `ComputeStorageSize` and `Encode` | operators |
| `CapsuleDecoder` | `capsule/decoder.*`, `view_mapper.*`, generated `Decode` | operators |
| `CapsuleText` | `capsule/text/*`, generated `ToString` and `ParseFrom` | operators |
| `Capsule` | `capsule/capsule.*`, `framing.*`, `storage.h`, lifetimes of storage and views | composes the operators into a writer, a wire and a reader |
| `MCCapsule` | | five versions of a file and sample objects |

Modules that share no state share a run: the MC module has a variable `focus`
that is chosen in `Init` and says which of them moves. Their state spaces then
add up instead of multiplying, and every property is checked on every behaviour.

### Mutex

`mutex_state_` is the futex word. Each thread has a program counter `pc` that names the
next atomic access it makes, and the locals of `LockSlow` (`c`, `spins`). A
thread's `job` says why it takes the mutex: a plain critical section, one that
flips the predicate `cond`, `TryLock`, `Await` or `AwaitWithTimeout`. One action
is one atomic access: the compare-exchange of `TryLock` (also the fast path of
`Lock`), the load, spin and exchange of `LockSlow`, `atomic::wait` split into its
check and its sleep, `Unlock`'s exchange and its `notify_all`. `std::atomic::wait`
is external: it may sleep only while the word has the expected value and may
return spuriously. A timed wait may end at any moment.

### MpscQueue and BoundedFifo

`head_`, `tail_`, `ready` and `storage` are the class members. A producer goes
through the load of `tail_`, the load of `head_`, the compare-exchange (weak, so
it may fail), the construction and the publication. `Dequeue`'s tail end (move
out, clear `ready`, advance `head_`) is a set `todo` of stores not yet visible:
with `ReorderStores = FALSE` they become visible in program order, as on x64;
with `TRUE` the relaxed store of `head_` may overtake the two before it, which
C++ allows because a release store does not order what follows it. `tickets` and
`out` are histories: the items in order of reservation and of delivery.

`BoundedFifo` is the queue as its users see it: `Reserve` when there is room,
`Publish` a reserved entry, `Take` the first one when it is published. The
refinement maps the reserved but undelivered tickets to its buffer.

### LogWriter

The queue is `BoundedFifo`. An entry is its severity and its ticket. A record is
an entry or a notice of drops; a chunk of a sink buffer is a sequence of units
(bytes), each of which knows its record and how much of it is left, so a short
write may end inside a record. The size of an entry depends on its severity. A
record that does not fit the last chunk opens a new one whatever its size
(`AppendToSink`), and one that does not fit the buffer is discarded and counted as
overflow, notices included. A dropped entry is counted unless it is fatal, as in
`LogQueue::Push`. `RunLoop` is the variable `pc`:
`top`, `drops` (CheckDrops per severity), `drain` (up to the quota), `write`
(TryWriteSink per sink: everything, a part, EAGAIN or an error), `stamp`
(`last_flush_`), then the final drain and the bounded number of sweeps after
Stop. Real time is replaced by the order of the clock readings that matter:
`ahead` and `covered` record which flushers read their `now` before the writer
read its own, and whether `last_flush_` already covers them. Sleeping and Poke
change no state. The program creates one queue, and so does the model.

### Silo

The `PerFd` table is `perfd`, indexed by handles that are never reused: that a
stale handle is invalid is `ResolvesWhileHeld` of `HandleTable`. `lists` holds the
six intrusive lists and `IsLinked` looks at a hook, that is at all lists of a tag,
exactly as the code does; that detail is the cause of one divergence (section 5).
`pc` walks through the phases of `ThreadMain2`; each phase handles one element per
step, and other threads (Register, RunWithAffinity, ~Epoller, the kernel)
interleave with all of them. A wait reports at most
`kMaxEvents` edges, the rest stays for the next one. An upcall is one step: it
chooses a call on the Context and an outcome from the set `Acts` of its handler,
changes the kernel buffer accordingly, and the outcome is settled as in
`RunActives`. A handler may yield with nothing to transfer, as `SslSocket` does after
a crossed operation. One call per upcall covers the several requests that
`EchoingHandler` and `SslSocket` make: a request made twice is a request made once,
and one for the direction of the upcall itself leaves what kYield leaves. A Run or
an Eject together with another call is not covered. Shedding frees
one handle of the handler per step (`ShedBegin`, `ShedHandle`, `ShedEnd`), admission
adds one descriptor per step (`AdmitFd`), so a Register or a kernel event may fall
between two of them. A failed
`ValueOrDie`, `DCHECK` or double link sets `fault` and stops the process.
Utilisation estimates and idle times are left open: any loop may decide to shed
(up to `MaxSheds`) and any idler may time out. One silo is modelled, so shedding
routes a descriptor back to the same silo; several silos are in `Epoller`.

`muted` and `fate` are ghosts: the directions a handler has suspended and not
asked for since, and the owner of each descriptor.

`WellBehaved` states the rules that the code relies on and does not check; section 5
says what happens to a handler that breaks one. From its upcalls a handler of
several descriptors only adds more, and its HandleIdle requests nothing. No upcall
asks for the direction it suspends, or closes what it ejects. A handler that uses
Run does not yield in the same upcall, nor in one that may be made while its function
is queued. Functions given to Run request upcalls; HandleIdle and affinitized
functions may do so too. The handlers of the repository that the two instances are
made of keep these rules (`HandlersBehave` of `MCSilo`).

Keeping them is not enough: `Misused` lists three uses that are open to every handler
and kill the process. Shedding a handler of several descriptors after one of them
has gone looks up its dead handle (`silo.cc:501`); a HandleIdle that requests an
upcall and keeps the descriptor links it twice (`silo.cc:463`); an affinitized
function that requests an upcall for a descriptor that has gone finds no `PerFd`
(`silo.cc:218`). All three happen in the runs. `NoFault` says that there is no
fourth.

### Notification and Process

`Notification` has one step per atomic access and futex call of `Notify`,
`HasBeenNotified`, `Wait` and `WaitWithTimeout`. A wait may end early (`EINTR`),
a timed one at any moment. `Renew` is what the header allows a waiter to do once
it has returned: the object is destroyed and another is built in its memory,
while the `FutexWake` of the first `Notify` is still to come. `notified` is a
ghost of the present object.

`Process` follows a thread through `ThreadStart` (`life`): it gets or creates the
registry (a load, and under a lock a second load and the creation), adds its name
under the registry's mutex, runs, removes its name, is joined. `Initialize`
exits if the environment is unsuitable, before the main thread is registered
(`ValidateEnvironment`), or if the flags cannot be parsed, after it; then start-up
hooks start threads. A signal may arrive at any thread: SIGINT, which `AwaitSigInt`
may be waiting for, or a deadly one. A thread that is already in the handler enters
it again (`SignalAgain`, in one step), which is what the guard at `process.cc:156` is
for. `DeadlySignalHandler` increments the depth (a load and a store: the counter
is a plain int), enumerates the other threads, signals them, waits for a bounded
number of attempts until they are frozen in `CapturedThreadHandler`, dumps every
thread through the addr2line coprocess and exits. The coprocess may answer, hang
or be gone; every read of it has a time limit. Reading frames, maps and symbols is
left out: what a dump says is not modelled, that it ends is. `raced` marks
behaviours in which two handlers read the same depth.

### Epoller and Server

`Epoller` has the silos of `Build`, client threads and the silos themselves as
callers of `Route`. `Route` is up to three steps: the load of the handler's
affinity with, for a new handler, the weighted choice of a silo (the estimates are
left open); the store of the affinity; the append to the silo's inbound list. A
silo swaps the list out, admits (or runs, or routes back what is not its own),
closes, sheds and exits. `Affinitize` reads the affinity a second time and fails
if it has changed; `Add` also fails when the handle table is full or `epoll_ctl`
refuses (`AdmitFails`). Either error ends the silo's thread with all it holds
(`SiloEnds`), while `Route` keeps sending to it, as in the code. `Build` is one step;
that it starts the threads one by one is left out. `~Epoller` sets
`exiting_`, pokes and joins. With `Racing = FALSE` two threads do not register a
new handler at the same moment; the run `epoller_affinity` has it `TRUE`.

`Server` adds the listener, the sniffers and the hand-over to the sockets: accept
(which may fail for good), a peek at the first two bytes, the end of the
connection if there are fewer or they are junk, the ejection, and the two items
(the socket's descriptor, then `Prime`) that `HttpServer` routes. The peer sends
byte by byte or hangs up. The server builds one silo. The
`CHECK_OK` that an accepted descriptor can be made non-blocking (`http_server.cc:83`)
is taken to hold. What a socket does once it
is primed is `HttpConnection`.

### HttpStream and HttpConnection

A byte is the pair of its request's number and its place in it; a request is one
byte of request line and headers, one for the blank line that ends them, and its
body. `Parse` classifies the buffered bytes as the parser does: more needed,
malformed, or complete with a length. Header fields, URIs as text and the wording
of responses are left out; a response is `ResponseLen` bytes that name their
request and status. `AddBytes`, `TryParse`, `ShiftVector`, `GrowVectorIfNeeded`,
`TrimVectorIfNeeded` and `ReportSad` are the methods of `HttpStream`, as functions
from a stream to a stream and the list of calls it makes on its `Poster`.

`HttpConnection` runs them. `kind` chooses `WebSocket` or `SslSocket`, which have
the same queues and posts; a web socket is an SSL socket without handshake and
without crossed operations, and may write less than it was asked to. One upcall
is one step, and it carries everything it calls: the read fills the first sink
buffer, popping it runs the stream, the stream serves the request and posts, the
posts ask the silo for upcalls. `crossed` is `read_wants_write_` and
`write_wants_read_`. The silo is reduced to one descriptor: what is wanted and
squelched, edges reported once, a read upcall before the write upcall, the
outcome settled as in `RunActives`, closing on a hang-up, on an error and when
idle. OpenSSL is external: it reads a hello, writes a flight, reads an answer, and
later may have to send or receive a control message (`due`) before it can go on.
The peer sends its bytes in pieces of any size and may hang up at any time.
`RegisterUriHandler` runs on another thread and holds the server's lock between
two steps; the relaxed load of `generation_` reads the current value.

`WebSocket` never initialises `close_requested_`, so `Init` chooses its value.
`log` is a history; its field `spoilt` marks the two kinds of connection that the
liveness properties except, both defects of the code listed as hazards: the flag
began as true, or the kClose of a repeated write was swallowed.

### SmallMap, FlatMap, HandleTable, IntrusiveList, Result

Each module has the public operations of its class as actions, with any object as
either argument (self-assignment included), and a ghost of what the object should
be: a function for the maps, a sequence for a list, the set of handles held.

* `SmallMap`: a block of memory is the vector's inline storage or a heap array; a
  cell is raw, moved from or live. `Reallocate`, copies and moves construct,
  destroy, allocate and release; a wrong order is recorded in `mem`. The map's
  search is linear, its `erase` shifts the tail down. What `erase` destroys twice, or
  builds over without destroying, is `unpaired`: the run `small_map_erase` is about it.
* `FlatMap`: iterators as positions of a sequence sorted by key; `FindLowerBound` is
  what every operation rests on.
* `HandleTable`: a handle is the generation above the slot's index. Slots are
  memory nobody initialised: `Init` chooses their words from `Garbage`, which
  holds the words of real handles.
* `IntrusiveList`: `prev` and `next` of every sentinel and hook. A move rewires
  the first and the last element; `Unlink` needs no list. The loop of Clear is a
  step per element (`ClearStep`); `clearing` and `donor` keep every other operation
  out until it, and the move that follows it in an assignment, are through.
* `Result`: a word is a code or the address of a counted representation; freed
  addresses are used again.

### The capsule modules

`CapsuleCompiler` reads one token per step; the tokens a file may hold at a place
are chosen from small sets. An identifier is the sequence of the pieces it is
glued from, so a user's `a_Index` and the generator's `a` + `"_Index"` are equal
when the strings are. `Twins` are two names whose CRC32C collide.
`FrontendCompile` runs the verification passes in the order of the code. The symbols
a field brings into the generated structs include the hashes of its former names
(`<name>_FieldHash<i>`).

`CapsuleWire`, `CapsuleDecoder` and `CapsuleText` are operators; several are
RECURSIVE (capsules nest), so no theorem is stated about them. Memory is a
sequence of 32-bit words; a word has the upper bits a narrow literal is tagged
with and a value. `Capsule` runs a writer of one version and a reader of another:
the writer serializes and frames, the wire delivers the frame, changes one word,
cuts or extends it, at any alignment; the reader unframes, decodes into a new or a
used object or makes a view, releases storage in any order, prints and parses, and
receives the next message. Strings are a length and groups of four bytes; a group
may be one the lexer treats specially (`Escaped`). A float stands for its
thousandths; `ToString` prints six significant digits of it, and from 10^6 on an
exponent, which the lexer does not read. `has_` is the set of its bits that are set:
`<name>_Index` counts retired fields and `has_` is sized without them, so the last
fields use bits past its end (`HasBit`). The checksum of a frame is
external: it tells any two contents apart.

## 3. Runs

| Run | Instance | Shows |
|---|---|---|
| `threads` | 3 lockers, all job kinds but the plain one, spin limit 1; 2 producers, 2 cells, 3 tickets; 3 callers of a notification; 2 threads, 2 signals | `LockSound` (types, exclusion, truth of the word), `NoLostWakeup`, `AwaitContract`, `EverySleepEnds`; `FifoNoLoss`, `RingSound` (types, no shared cell, occupancy), `QueueContract` (the refinement `ImplementsFifo`, a rejection means full, every ticket is taken); `WaitMeansNotified`, `EveryWaitEnds`; `RegistryTruthful`, `DeadlySignalEnds` |
| `log_writer` | 3 pushes, queue of 2, 2 sinks, entries of 1 and 3 units, chunks of 2 in a buffer of 3, one sink may break or stay congested, 1 flusher | `SinkIntact` (types, whole records, order, conservation, memory); `NothingForgotten` (published entries and counted drops reach the files of working sinks); `CallersReleased` (Flush and Stop end) |
| `silo` | 2 descriptors with a handler each, one of which mixes all calls; HandleIdle and affinitized functions may request; one event per wait | `NoFault` (no fault but those of `Misused`), `NoLostEdge`; `EveryFdPlaced` (held once, rescheduled after a yield, able to idle); `UpcallsRespected` (suspension, closing, ejection) |
| `silo_liveness` | 2 descriptors of one handler, a table of one slot, shedding | the thread exits when told, descriptors are admitted, input is read, unless handlers yield for ever (`Spins`) or a fault of `Misused` ends the process; admission fails in some behaviours |
| `server` | 2 silos, 2 clients, `Add` may fail; the server with 2 connections | `HandlerInOneSilo`, `ItemsSettle`, `PrimeFindsSocket`, `ConnectionsSettle` |
| `http_connection` | a session of a request without body, one with a body whose handler may be registered late and fails, and a malformed one; both sockets | `ServedInOrder`; `SocketSound` (types, intact output, no lost wakeup); `FreshMap`; requests are answered and closes carried out |
| `containers` | 2 maps of 3 keys and 1 inline cell, 3 slots, 2 lists of 3 items, 4 results | `MapSound` (`StorageSound`: cells and blocks; `MapAgrees`: the map is a function); `FlatAgrees` (the vector is ordered and is the map its callers built); `HandlesSound` (a handle resolves while held; one object per held handle); `RingsIntact`; `ResultsSound` (exact counts; an error stays an error) |
| `capsule` | every file of at most 2 capsules; 5 versions of one file | `CompileSound`, `SizePromiseKept`, `FrameDetects`, `VersionRoundTrip`, `TextFaithful` |
| `http_pipelined` | two requests, the second sent early | violation: the unconsumed bytes are overwritten |
| `epoller_affinity` | `server`'s Epoller with `Racing` | violation: a handler in two silos |
| `small_map_erase` | as `containers` | violation: `DestroyedOnce`, erase destroys a pair twice |
| `capsule_defaults` | as `capsule` | violation: `NestedDefaults`, an absent nested capsule keeps what it held |

Where a property is a conjunction, its parts are definitions of their own in the
module, named in brackets above. Every property of a passing run has a mutant: a
slip of the kind a change to the code could introduce, defined beside the
operation it replaces, for which TLC finds the property violated.

### Bounds

* `Mutex`: three threads are a holder, a sleeper and a barging thread, the roles
  that any bad interleaving of this word needs: one awaits the predicate or tries
  the lock, one awaits it with a timeout or clears it, one sets it. One round of spinning shows the
  spin phase being left both ways.
* `MpscQueue`: three tickets in a ring of two wrap around, so a cell is reused
  while a stale producer still holds an old `tail_`. The theorems remove the bound.
* `LogWriter`: three pushes overfill a queue of two. Chunks of two units in a buffer
  of three let a sink hold two chunks, overflow, and write short inside a record; an
  entry of three units is longer than a chunk. Two sweeps stand for the fifty. Two severities and masks where one sink takes both and the other
  only one cover the routing.
* `Silo`: two descriptors let one be in an upcall while the other is linked,
  closing or shed; one kernel event, one shedding loop, one queued function and
  one affinitized function per behaviour are each free to fall anywhere in the
  loop. Initial writability gives each descriptor an edge of its own; with one event
  per wait one of them may have to wait for the next call.
* `Epoller`, `Server`: two descriptors and a function of one handler, two clients
  and two silos are what a broken affinity needs; one shed descriptor returns
  through `Route`. Two connections let one be accepted while the other is handed
  over.
* `HttpConnection`: a send buffer of one byte makes every write of a response of
  two bytes a short one or a retry, and lets the handshake's flight block; the
  standing buffer of four bytes holds each request of the session, and requests
  of two and three bytes are cut in every way. Two control messages after the
  handshake are enough for a read and a write to be crossed at once.
* `Notification`: three callers are a notifier, a waiter and a waiter of the
  object built in the same memory, which happens once.
* `Process`: the main thread and one more; two signals let a handler be entered
  in both threads, or be followed by a second SIGINT. One attempt stands for the
  10000 of `AwaitCapturedThreads`: giving up and succeeding both happen.
* `SmallMap`: with one inline cell three keys make the vector grow twice, on the
  heap the second time; three heap blocks are two maps and the block being filled.
  Maps and keys are symmetric.
* `HandleTable`: five generations over three slots reuse a slot at least twice.
* `Result`: as many representations as objects, so an address is reused while a
  stale word could still name it.
* `Capsule`: a length field of 7 bits instead of 29 lets a frame be too long for
  it. The versions rename, retire, add, default and change the width of a field
  whose literal is tagged and of one whose literal is not. Strings of 0, 1, 4, 5, 8
  and 9 bytes meet every case of the padding. Two messages let an object be used
  twice. Floats of 1.5, 1234.567 and 1234567 are printed exactly, rounded and with an
  exponent. The compiler's two capsules of two fields with two attributes contain
  every clash of a pair of names, the two that `CompileSound` excepts included.

### Fairness

* `Mutex`: a thread inside an operation keeps being scheduled (weak fairness per
  thread). No thread is obliged to begin a job, and the lock is not fair:
  `EverySleepEnds` is about the end of each sleep, not about acquisition.
* `MpscQueue`: the consumer polls for ever (the writer thread's loop) and a
  producer inside TryEnqueue keeps running.
* `LogWriter`: the writer thread and a pusher inside Push keep running. A sink
  whose reader is alive accepts data infinitely often (strong fairness, since
  the write is only offered once per cycle); sinks in `Stuck` are exempt.
* `Silo`: the thread keeps running; `EpollPwait2` returns within its 10 ms
  timeout, so waiting is a step that is always enabled. Nothing obliges a handler
  that yields to stop doing so: the liveness properties except behaviours that stay
  in the loop of `silo.cc:141` for ever (`Spins`).
* `Epoller`, `Server`: a thread goes on with the `Route` it is in; a silo polls at
  least every 10 ms and so swaps and admits its list whether or not it was poked;
  the upcalls of the listener, the sniffer and the hand-over run when due. No
  peer is obliged to send.
* `HttpConnection`: the silo's thread works while it has work with the descriptor
  (`SiloHasWork`, weak fairness written out as "infinitely often no work or
  infinitely often a step": the same formula, but cheap for TLC). The peer reads
  what it was sent and answers control messages; it owes no request, and nothing
  obliges the idle timeout to fire. While a write waits for the peer's control
  message the socket keeps yielding, so the silo spins until the answer comes.
* `Notification`, `Process`: a thread inside a method or a signal handler goes on
  unless it is blocked there, and the kernel delivers pending signals. Nobody is
  obliged to call Notify.

Deadlock is not checked, since every run has states in which the system may really
stop: the writer thread after Stop, the silo after exit or a fatal check, a
connection once it is closed, a process that has ended, callers of a notification
that is never notified, and a bound on messages or generations that is used up. That
a thread does not hang where it must go on is what the liveness properties say.

## 4. Theorems

Proved by TLAPS for all values of the constants.

`MutexProofs` (any set of threads, any spin limit, any jobs):

* `MutexIsSound` (the property `LockSound`), `MutexExcludes`, `MutexWordIsTrue`. The
  inductive invariant is `LockInv`: `MutexTypeOK`, `MutualExclusion` and
  `WordMatchesHolder`. Exclusion alone is not inductive: a compare-exchange that
  succeeds on `kUnlocked` is safe only because the word is `kUnlocked` exactly when
  there is no holder, and the slow path's exchange overwrites a holder's word only
  with a value that still says locked.
* `MutexWakesSleepers`. `NoLostWakeup` on top of `LockInv`: a thread that
  replaces `kLockedContended` owes a notify_all.
* `MutexAwaitKeepsPromise` (`AwaitContract`) on top of `LockInv`: the answer of an
  Await was computed under the lock, and only the holder flips the predicate.

`MpscQueueProofs` (any capacity of at least one, any producers and items, under
`~ReorderStores`):

* `QueueIsFifo`, `RingIsSound` (the property `RingSound`), `CellsAreExclusive`,
  `RingIsBounded`. The invariant is `RingInv`: `QueueTypeOK`; `Window`
  (`head_ <= tail_ <= head_ + Capacity`, and how the histories follow the cursors);
  `Consumer` (the progress of Dequeue through its three stores); `Reserving` (the
  stale copies of `tail_` and `head_` are not ahead of the cursors, and a winner's
  ticket lies in the window); `Distinct` (no two owners share a ticket); `Cells` (a
  cell of the window is ready iff its ticket is published and not being released,
  and then holds that ticket's item); and `FifoNoLoss`. `Cells` speaks of tickets,
  not of slots: `Slot` is ticket modulo capacity, and a lemma says that two tickets
  of one window in the same slot are equal.

* `RejectsOnlyWhenFull` (the conjunct `RejectMeansFull` of `QueueContract`): a
  stale copy of `tail_` that is a capacity ahead of a fresh `head_` is a lower bound
  of the real `tail_`.
* `QueueImplementsFifo`, the refinement of `BoundedFifo` (the conjunct
  `ImplementsFifo` of `QueueContract`). The mapping is `Buf`, the items of the tickets
  not yet released, and `Flags`, which of them are published. Init maps to Init; a
  winning compare-exchange to Reserve, the store of `ready` to Publish, the store of
  `head_` to Take; every other step leaves `Buf` and `Flags` alone, which is the
  part that needs `RingInv` (clearing `ready` must not unpublish what the
  abstract queue still holds).

The assumption on stores is needed (section 5).

`ThreadsProofs` (any callers; any threads and registries):

* `NotificationIsTruthful` (`WaitMeansNotified`). The invariant adds to it
  `WordIsTrue` (the word says notified exactly when Notify was called on this
  object) and `WaiterAnnounced` (while a thread is between its compare-and-swap
  and the last load, the word is not `kUnnotified`, so "no longer kWaiting" means
  notified).
* `NotificationOwesWake`: a thread asleep on a notified object is still owed a
  futex wake. This is the safety half of `EveryWaitEnds`.
* `RegistryStaysTruthful` (`RegistryTruthful`). The invariant `RegistryInv` says that
  a thread on its way to register or to leave has a pointer to the one registry
  there is, and what exactly the registry names at each point of a thread's life.

`ContainersProofs`:

* `HandleTableIsSound` (`HandlesSound`): any number of slots, any index width that
  fits it. The invariant says that the free stack holds distinct indexes of slots
  that were written and given back, that a held handle is what its slot holds,
  and that generations only grow, so that no issued handle equals a later one. The
  hypothesis `InvalidUnmatched` is needed: `Free(kInvalid)` destroys an object that
  was never built if the table has all the slots the index bits can name and the
  last one's memory happens to hold the word `kInvalid` (TLC shows it with four
  slots). The program's one table has 100 * 1024 slots (`io/silo.h:17`), so its
  `kInvalid` names none.
* `ResultCountsAreExact` (`ResultsSound`): any finite set of objects. The invariant
  adds that a representation in use carries an error and that a bare code in a
  ResultOr is one. Most of the proof is one lemma: giving one object another word
  moves one reference.
* `RingsStayIntact` (`RingsIntact`): any lists and elements. The invariant speaks of
  positions: node 0 and node `Len + 1` of a list are its sentinel, node `i` its i-th
  element, and neighbouring nodes point at each other (`RingsLinked`). It needs
  `InOnePlace` (an element is in one list, once), because an erasure that does not
  name the list must not disturb another ring, and `OthersUnlinked`, because Erase
  and the precondition of a push look only at the element's own hook. One lemma
  each says that unlinking a node, inserting one beside a sentinel and taking over
  a whole ring keep all this; the operations are instances of them.
* `FlatMapsAgree` (`FlatAgrees`): every finite set of keys, any values, any maps. The
  invariant `Represents` says that the vector is strictly ordered, holds a key
  exactly if the map does, and holds it with the map's value. `FindLowerBound` and
  `upper_bound` count the keys below; that the keys below form a prefix of an ordered
  vector, so that the count is the position sought, is proved from the least
  position outside the prefix. `RepresentedOnce` (two ordered vectors of one map are
  the same vector), which operator== rests on, is proved from the first position
  where they would differ.
* `SmallMapsAreSound` (`MapSound`): every inline capacity, any finite number of maps,
  any keys and values. The invariant `MapInv` has two halves. `MemSound` is about
  storage: the live cells of a vector are a prefix of its block as long as its size
  and the rest is raw (`Filled`), its capacity is the length of that block, inline
  storage that a vector has left is raw, and an allocated heap block has one owner.
  `Holding` is about the map: the cells are the pairs of the shadow map, each key once.
  Neither is enough alone: the linear search answers for the map only if the cells
  are a prefix, and erase keeps the keys distinct only if nothing is lost in a move.
  Each operation of the vector has a lemma that says what it does to the memory
  and that it disturbs no other vector; the operations of the map are compositions.
  `Reallocate` finds a free block by the pigeonhole principle: `SmallMapAssumption` says
  that there are more heap blocks than maps, which is what a `new` that does not fail
  amounts to, and that a moved-from value is told apart from the values of callers.
  The theorem says nothing of the cells that erase vacates: `DestroyedOnce` is false
  (section 5).

`EpollerProofs` (any silos, clients, handlers, descriptors and functions, under
`~Racing`; with a race the property is false, section 5):

* `HandlerStaysInOneSilo` (`HandlerInOneSilo`), `AffinityNeverBreaks`. The invariant:
  between load and store of an affinity the handler has none and is with no other
  thread (`RouteKnowsAffinity`, `NewToOneThread`); what is in a silo's lists or epoll
  set has that silo's affinity (`ArrivedIsHome`, `AdmittedIsHome`); and `handles_` names
  every descriptor of the handler in the set, so that shedding takes all of them. A
  silo may end on any error of `Add`; the handlers it had keep its number.

`ServerProofs` (any connections, peers of any behaviour):

* `PrimeAlwaysFindsSocket` (`PrimeFindsSocket`). The central part of the invariant is
  `SocketFirst`: wherever the call of Prime waits (what the silo is to route, its
  inbound list, the batch it admits) its socket is ahead of it, or already in the
  epoll set. It is inductive only with `WhoRoutes` (the silo routes nothing while it
  admits a batch, so no upcall can close the socket between the two) and `Homed`
  (one silo, so nothing is routed back and reordered). `ServerAssumption` says that
  a stream and its socket share a handler, which is how FireUpHttp and FireUpHttps
  make them.

`SiloProofs` (any descriptors and handlers, pollable or not, any table size, any
calls and outcomes within `WellBehaved`, and any value of the bounds on kernel
events, shedding loops, functions and affinitized calls):

* `SiloNeverFaults` (`NoFault`), `SiloLosesNoEdge` (`NoLostEdge`), `SiloPlacesEveryFd`
  (`EveryFdPlaced`), `SiloRespectsUpcalls` (`UpcallsRespected`), all from `SiloIsSound`, the
  inductive invariant `SiloInv`. None of them is inductive: whether a PushBack finds
  its hook free depends on which lists the earlier phases can have left it in, and
  that on what the descriptor wants. The parts of `SiloInv`:
  * `Shape`: lists hold live handles, each once, and lists of one hook are disjoint.
    `IsLinked` looks at a hook, so every link and unlink rests on it.
  * `ListPhases`: which list may have elements in which phase of the loop.
  * `WantsAreKept`: a descriptor that wants an upcall is in `active_`, in `ejects_` or
    the current one; wants and squelches are disjoint, and `muted` is the squelch; what
    is to be closed or shed wants nothing and is in no list of the other hook.
  * `Placed`: every descriptor is in a list that some phase will look at, or its upcall
    or function is running; a queued function is remembered by `runners_`. The
    clause about yields is the one that `silo.cc:421` makes necessary.
  * `Running`: where the current descriptor can be between its read and its write
    upcall, and while its functions run. It is what makes the Eject of a read upcall
    survive the write upcall.
  * `EdgeKept`: readiness that nobody suspended is still an edge, is reported, is
    wanted, or no longer matters.
  * `Ownership`: a descriptor is in one item of one queue exactly while its fate is
    `inbound`, in one `PerFd` exactly while it is `silo`.
  * `HandlesNamed`: for a handler of one descriptor `handles_` names its live handle
    and no dead one, which is why `RunShedders` finds what it looks up.

  `SiloIsSound` is that `SiloInv` holds in every state of a process that no check has
  killed; `SiloNeverFaults` that only the uses of `Misused` kill it. A handler of several
  descriptors may be shed and HandleIdle and affinitized functions may request: the
  proofs of these steps show that the check at that very line is the only one that
  can fail.

  All but `Ownership` and `HandlesNamed` speak of one descriptor. An operation on one
  is shown to touch no other (`Touches`), so each action's proof is about the one it
  is made for; `SoundBut` is the invariant without that one. The action property
  `EjectIsFinal` follows from `SiloInv` and a step: by `ListPhases` only six actions
  touch a list while `ejects_` has an element.

`HttpConnectionProofs` (any requests, buffers, handlers, either kind of socket):

* `MapIsFresh` (`FreshMap`). Each operator that an upcall is composed of is shown
  either to leave the package and the served requests alone (`Same`) or to refresh
  the package whenever it hands a request over (`Step`), from the cleanup of a buffer
  up to the upcall. `MapGrows` then says why comparing generations is enough: the
  silo's copy is a subset of the server's map and its generation the number of
  its entries, so an equal count of a growing finite map is an equal map.

Left to TLC:

* every liveness property: fairness is out of the prover's reach;
* everything about the capsule modules, which use RECURSIVE operators;
* what is defined by folding over a sequence, for which the provers lack
  induction: `SinkIntact` of `LogWriter` (FlattenSeq, FoldLeft), `ServedInOrder` and
  `SocketSound` of `HttpConnection` (FlattenSeq of requests and sources).

## 5. Findings and known divergences

Shown by a run:

1. `http_pipelined`: `ShiftVector` copies from `bytes_ + i`, not from `n + i`, so
   what has arrived of the next request is lost.
2. `epoller_affinity`: `Route` loads and stores a new handler's affinity in two
   steps, and the handler's upcalls may run in two threads.
3. `small_map_erase`: `SmallMap::erase` destroys the erased pair and leaves the last
   cell to `pop_back`, which destroys it again when that is the one erased
   (`small_map.h:354`, `:359`); pairs that were moved down are built over without being
   destroyed. Harmless for trivially destructible values.
4. `capsule_defaults`: a nested capsule that is absent from a message keeps the members
   of the message before, or stays uninitialised (`decoder.h:300`), where `spec.md`
   promises defaults.

Stated in a module and violated there, without a run of its own:

* `MpscQueue` with `ReorderStores = TRUE` violates `FifoNoLoss`: on ARM64 the relaxed
  store of `head_` can be seen before `ready` is cleared. x64 is not affected.
* `Silo` with a handler that calls Run and returns kYield violates
  `YieldIsRescheduled`: `closers_.IsLinked` is also true in `runners_` (`silo.cc:421`).
* `NoFault` of `Silo` without its exception `Misused`: the three faults listed in
  section 2.
* `ExitsWhenTold` of `Silo` without its exception `Spins`: handlers that yield for ever
  keep the thread in the loop of `silo.cc:141`.
* `ItemsSettle` of `Epoller` without its exception `SiloIsGone`: after an error of `Add` a
  silo takes nothing more, and `Route` keeps sending to it.
* `FlushContract` of `LogWriter`, with two pushers: `last_flush_` is stamped with a
  time read after the drain.
* `RoomForMore` of `HttpConnection`, with a request larger than the standing buffer:
  `TrimVectorIfNeeded` (`http_stream.cc:48`) undoes the growth, and the next read is
  of size zero and looks like the end of input.
* `ViewBacked` of `Capsule`: a view whose strings are only in subcapsules does not
  keep its storage (`generator.cc:113`).
* `DeadlySignalEnds` of `Process` without its exception `raced`: two threads that
  fault at once may both pass the reentrancy guard and capture each other.
* `CompileSound` without its two exceptions: `verify.cc:285` accepts fields `has_a` and
  `a_Index`, which both yield `has_a_Index`, and a field named like the hash of another
  one's former name (`a_FieldHash1`).
* `TextFaithful` without rounding: `ToString` prints floats with six digits
  (`generator.cc:309`), so another value is read back.

Seen while modelling: RequestRead followed by kSuspend strands a direction
(`silo.cc:378`); `RunShedders` reads a destroyed `PerFd` in a DCHECK (`silo.cc:502`);
`WaitWithTimeoutSlow` sleeps without marking the word, so an uncontended Unlock does
not wake it before its timeout (`mutex.cc:77`); `SslSocket` drops the kClose of a
write that it repeats in a read upcall; `close_requested_` of `WebSocket` is
uninitialised; after one SIGINT the signal depth is never decremented
(`process.cc:165`); a start-up hook registered after `Initialize` never runs
(`process.cc:278`), and a second one is said to be ignored but replaces the first
(`process.cc:284`); the members of `HttpServer` that its handlers use are destroyed
before `epoller_` joins the silos (`http_server.h:31`); `Build` starts silo 0 before the
other silos exist (`epoller.cc:28`); fatal entries that are dropped are counted nowhere
(`log_queue.h:41`), and a notice of drops that a full sink discards is not repeated;
the index of a field behind a retired one is past the end of `has_`
(`generator.cc:186`, `:251`); `kFieldCount` and `_Index` are printed while the stream is
still in hexadecimal (`generator.cc:153`, `:189`), so numbers from ten on do not compile
or are other ones; vectors of primitives are accepted (`verify.cc:109`) and generated as vectors
of capsules (`generator.cc:82`); names that the generated functions use themselves
(`ToString`, `ParseFrom`, `ref_`, `ret`, `oss`) are not reserved (`verify.cc:16`).

## 6. Not modelled

* Utilisation estimator: floating point. `Silo` and `Epoller` leave its result open,
  so no property depends on it.
* Log queue map and NUMA map, flags, CPU sets, SSL context, addresses: read once at
  start-up, no state afterwards.
* Logging front end, page rendering of the HTTP handlers, the text of responses and
  of compiler messages: formatting.
* Tokens and header fields of requests: `Parse` is a classification of the bytes.
* Reading frames, memory maps and ELF: depends on the running binary.
* The fork detector, the flush hook and `ThreadingStrategy` of `base/process`.
* Strings, hardened integers, files, wrappers of system calls: values and thin
  wrappers.
* The test framework and tools.

## 7. Plan

Done: the modules of section 2, in the order `Mutex`, `MpscQueue`, `LogWriter`, `Silo`,
`HttpConnection`, containers, capsules, `Epoller` and `Server`, threads; the theorems
of section 4.

Next, in this order:

1. `BufferBounded` and `InOrderOnce` of `LogWriter` where folds can be avoided.
2. `RequestParser` in detail (fields, lengths, query parameters) against a reference
   parse, and the file tailing of `http/handlers/logz.cc`.
