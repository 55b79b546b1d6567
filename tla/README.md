# Verification of thrift-bench

thrift-bench is a set of client/server benchmarks for fbthrift, folly sockets,
wangle and Apache thrift. Most of it is timing code; the parts whose
correctness depends on the order in which threads, callbacks, the kernel and
remote answers act are what this project models in TLA+, checks with TLC and
proves with TLAPS.

## 1. The system's parts

| Part | State | Operations | Interacts through | What makes it correct |
| --- | --- | --- | --- | --- |
| Asynchronous-I/O engine, `fbthrift/exp3/LEAF/AsyncIO.{h,cpp}` | kernel context, `eventfd_`, `handlerp_`, `inflight_` (under `mutex_`), one promise per `IO` | `init`, `ioSubmit`, `handlerReady`, `iosCompleted` | called by handler threads, called back by an event base, shares the kernel's completion ring and eventfd | every submitted IO is completed once, after its execution; nothing in the ring points to a freed IO; the blocking `io_getevents` always returns |
| Leaf server (exp3), `LEAF/LeafServer.cpp` | `asyncio_inited_`, one descriptor per request, the files, a pool of 12 threads | `async_tm_write`, `async_tm_read` and their continuations | thrift's thread manager, the engine, pool, event bases | every request is answered once, after its I/O; descriptors are neither shared, leaked nor closed early; what a file and an answer hold was laid down or written |
| Sliding-window client, `exp1/client.cpp`, `exp2/DB/client.cpp`, `exp3/DB/client.cpp` | `req_complete`, `req_tosend`, `req_out`, `req_sched`, `req_id`, `req_time` | the loop of `start_benchmark`, its continuation | calls to the server, answers in `loopOnce` | at most `queue_depth` out, counters never wrap, answers find their start time, the loop ends |
| DB server, `exp2/DB`, `exp3/DB/DBServer.cpp` | per leaf `client_` and `connected`; `curLeaf` | `connect`, `channelClosed`, `getLeaf`, `async_tm_read/write`, `async_tm_key_put` | fan-out to the leaf servers over one channel per leaf | no connect of a connected leaf; with one event base no call on a dead channel, and with several what becomes of calls on another base's channel; answers after all leaves |
| Leaf server (exp2) | none besides its pool | `async_tm_key_put` | pool and event base | every call answered |
| StorageRpc client, `StorageRpc/Client.cpp` | window counters, adaptive depth; `StatsCollector`'s map, its lock and its thread; `main`'s commands and threads | `BenchmarkEcho`, `BenchmarkSend`, `BenchmarkSendNoData`, `ClientAdd`, `Update`, `DumpInfo`, `Split`, `main` | server answers, lock, dump thread | depth limit, number of requests, statistics add up; ids are unique; the collector outlives its users |
| Domain-socket client and server, `fbthrift/domain-socket`; StorageRpc server | as StorageRpc; the servers none | as StorageRpc; `async_tm_Echo` etc. | Unix socket | as StorageRpc |
| Raw socket echo, `AsyncIO/` | partial request and its length, window counters, write callbacks | `getReadBuffer`, `readDataAvailable`, `requests_send`, `request_received`, `connectionAccepted` | byte streams and kernel buffers | framing independent of how bytes arrive; counters exact however the loop is left; both sides end, also when the connection is lost |
| wangle client and server, `wangle/` | `requests_` (three threads, no lock), the future `main` waits for | `MsgClientDispatcher::read`, `operator()`, its interrupt handler, `MessageCodec`, `MsgService` | pipeline, timekeeper, pool | each request is answered or times out, once; no wait is for ever |
| Multi-threaded benchmarks, `thrift/exp1`, `thrift/exp2`, `exp1/GaneshaDBServer.cpp`, `exp1/client.cpp` | `data`, `data_size` of `init_data`; `bench_result`; rounds of threads | `key_put`, `key_get`, `init_data`, `start_benchmark`, `main` | worker threads of five kinds of server | an answer has the size asked for; what a round leaves to the next is bounded; no result is lost; all rounds end |
| `main` of the DB servers | the list of leafs | `split`, parsing | | `split` ends and returns the tokens |
| Serialisation benchmarks | none | | | not modelled |

What is hard here: handler threads, event-base threads, pool threads and the
kernel share state with one lock around one vector; promise fulfilment races
with the attaching of continuations and with timeouts; completion counters
(eventfd) and completion events (ring) travel separately; calls fail without
anyone looking; unsigned counters depend on exact bookkeeping; callbacks, iterators
and buffers are used after what they point to may have gone. `PROJECT.json` lists the
hazards line by line.

## 2. Modules

| Module | Models |
| --- | --- |
| `AsyncIO` | the engine, with the kernel as its environment |
| `IOService` | what the engine promises: every request submitted, executed, done, in this order |
| `LeafServer` | the exp3 leaf's handlers, composed with `AsyncIO` (it extends it and conjoins handler state to its actions) |
| `WindowClient` | one thread of `start_benchmark` of the fbthrift clients |
| `DBServer` | the DB server's handlers and its `Leaf` connections, with channels and the leafs' own handlers |
| `StorageClient` | one thread of the StorageRpc or the domain-socket client, with its server |
| `StorageMain` | `main` of these clients, `StatsCollector` with its dump thread; `main` of the DB servers |
| `EchoBench` | the raw-socket client and server, over byte streams |
| `Wangle` | the wangle client against its server |
| `ThriftBench` | the multi-threaded clients of Apache thrift and of exp1 against the servers' cached data |
| `LeafServerProofs` (also of `AsyncIO`), `WindowClientProofs`, `DBServerProofs`, `StorageClientProofs`, `StorageMainProofs`, `EchoBenchProofs`, `WangleProofs`, `ThriftBenchProofs` | the theorems |
| `MCLeafServer`, `MCDBServer`, `MCStorageMain` | constants for TLC that a `.cfg` cannot express; the other modules are checked as they are |

Definitions whose name ends in `_Something` and that are commented as mutants
are deliberately wrong versions of an action. No specification uses them; each
shows that some property notices that mistake.

Throughout, latencies, the printing of results, payloads and error codes are left out.

### AsyncIO and IOService

A request is one activation of a handler thread with one `IO` object. The
eventfd and the `EventFDHandler` made by a request's `init()` carry its name;
`Boot` is the pair of an `init()` that ended long ago. `Racers` is the set of
requests that may run `init()`: with none, the engine starts initialised.

* `InitEventfd`, `InitMake`, `InitAssign`, `InitInstall`, `InitRegister` are the
  accesses of `AsyncIO::init` to `eventfd_` and `handlerp_`, which no lock
  protects. The assignment to the `unique_ptr` reads the old pointer
  (`InitAssign`) and later stores the new one and deletes the old handler, which
  unregisters it (`InitInstall`). Two racing assignments may therefore leave two
  registered handlers. A double delete (three racing requests) is modelled as
  one delete: the other outcome, a crash, has no further steps.
* `ioSubmitPush` is the push under `mutex_`; `ioSubmitIssue` reads `eventfd_`
  into the iocb and calls `io_submit`, which takes a valid iocb when the context
  has a free slot; its refusal changes nothing but the program counter, as the
  code ignores it; `ioSubmitFuture` takes the future and attaches.
* `KernelPost`, `KernelSignal`: the event is visible in the ring before the
  eventfd in the iocb is signalled. Both are external.
* `handlerReady` (level-triggered poll of the handler's own `fd_`),
  `EventfdRead` (reads the member `eventfd_`), `GetEvents`, `CompleteOne`,
  `BatchDone` are `iosCompleted` on the thread of one event base. There is one
  such loop per event base, since `init()` takes the base of its request's
  connection, and two may run at once after a race. `io_getevents` may return
  any `nevents` events of the ring, in any order.

`IOService` is the abstract specification. `ioPhase` is the refinement mapping: a push
is a submission, a kernel post an execution, `CompleteOne` a completion, and every
other step stutters (`ServiceSpec`).

### LeafServer

`step` is the place of the handler; `CheckInited` and `SetInited` are the test
and the setting of `asyncio_inited_` with the engine's `InitStep`s in between.
`OpenWrite` and `OpenRead` take the lowest free descriptor; both truncate the
file, as their flags say. A read of a missing file goes on with -1, and so does one
whose open fails for another reason (`OpenFails`); a write whose open fails runs into
`assert(fd >= 0)` (`AssertFd`), after which the server takes no more steps (`Live`).
`Continue` (close, then pool or event base) runs inside `Attach` if the promise
is already fulfilled and inside `Harvest` otherwise. `PoolRun` and `Reply` carry
the answer; `Reply` needs the connection's event base to be outside
`iosCompleted`. A file is absent, empty or has data; the buffer of a read is raw
or has data. I/O may fail (`Outcomes`).

### WindowClient

The variables are those of `start_benchmark`, modulo `W` in place of 2^64.
`Send` is one pass of the sending loop, `Callback` the continuation of one
answer, `Fail` a call that fails (the continuation takes a value, so nothing
runs), `Refill` the computation of `req_tosend` after `loopOnce`. The loop is the
same in the three experiments; only the payload of the call differs.

### DBServer

A request arrives on a handler thread. A read (in exp2 a `key_put`) takes its leaf
with `getLeafLoad`, `getLeafStore` and `Post`, the unlocked accesses of `getLeaf`;
`Post` puts the function into the queue of its connection's event base. `Start` to
`Call` are that function, one access to the shared `Leaf` each: `isConnected`, the
assert, the assignment to `client_` and the setting of `connected` in `connect`,
`getConnection` with `assert(clientp)`, and the call. A write repeats them for each
leaf. `Answers` runs the continuations whose calls are all settled, as part of the
step that settles the last call or attaches the continuation. `Execute` is a leaf that
carries out a call (in exp2 its handler, pool and event base), `Receive` an answer
or an exception on the channel's event base; `channelClosed` and `setDisconnected`
are the close callback. A failed assert ends the program: no step follows
(`aborted = "assert"`).

The channels are external. A channel that dies fails the calls waiting on it, and a
call on a dead channel fails. When two event bases race through `connect`, the
channel that is overwritten leaks, or is destroyed with or without reporting its end.
A channel is not made for use from another thread than its event base's, but a leaf's
`client_` may well be the channel of another base: a call on it (`Unsafe`) may work, be
lost so that nobody ever settles it, or end the server (`aborted = "race"`), as may a
call on a channel that is gone.

### StorageClient

The variables are those of `BenchmarkEcho`, modulo `W`, with the thread's
`total_ios_` of `StatsCollector`; `wire`, `answers` and `lost` count calls on the way
to the server, on the way back, and failed, since they cannot be told apart. `Serve`
is the handler of the StorageRpc or domain-socket server, which keeps no state.
`Second` (the report to the collector, the new depth, the reset) may be part of any
`Refill`: the clock is not modelled. `kind`, chosen initially, tells `BenchmarkEcho`
(adaptive depth) from `BenchmarkSend` and `BenchmarkSendNoData` (fixed depth) and from
the domain-socket client, whose loop lacks `++req_out; ++req_sent` (`Count`). Only the
adaptive loops look at `--unlimited` (`unlimited`).

### StorageMain

`ReadText` reads a line (or the DB server's flag), `Split` is one pass of the loop of
`Split` or `split` per step: `SplitNext` goes past every delimiter, the DB servers'
older `splitNext` only after a token. A text is a sequence of words and delimiters, a
token one word or nothing. What is behind the last delimiter is always pushed, since
`e` is `npos` when `if (e != s)` is reached (`SplitTail`); that makes the branches for no
tokens, in `Obey` and `ParseLeafs`, unreachable, but they are there. `Obey` carries out `quit` and `client_add`; `ClientAdd`,
`Update` and `ClientEnds` are a client thread's calls of the `StatsCollector`, each
under its lock; `RunTest` and `DumpInfo` are the dump thread. `LeaveScope` and
`Joined` are the end of `main`: the map of threads is destroyed first, which ends the
program if any was ever added (they are never joined), then `~StatsCollector` sets
`stop_` and joins.

### EchoBench

A request is `ReqSize` units. Each place where bytes wait is a sequence of units:
`clientOut` and `serverOut` (not written yet), `up` and `down` (in the kernel, at most
`Room`), `clientBuf` and `serverBuf` (a `ReadCallback`'s incomplete request). Reads
return any number of units up to what `getReadBuffer` offers. `requests_send` is one
pass of its loop; a write that the kernel does not take at once keeps a pointer to a
`WriteCallback` that was on the stack, so its completion (`Dangling`) is a choice over
doing nothing, deleting a request that still waits, and crashing. `request_received`
is the assert, the counters and the next request.

`Lose` breaks the connection, at any time, in a way that its ends notice. The client then
runs into `assert(0)` if a write is the first to notice (`writeErr`), or leaves its loop by
its own `readEOF` or `readErr` with whatever is outstanding (`ClientReadEOF`, `client` is
"cut"), possibly before it has read all that had arrived; `run()` prints its result either
way (`Close`). A write that still waits then fails by a callback that no longer exists, which
may end the program. The server's `writeErr` does nothing; its thread ends by `readEOF`.

### Wangle

`Request` is `operator()` with the filter's timer, on `main`'s thread; `ReadFind`,
`ReadMove` and `SetValue` are the accesses of `read` on the I/O thread; `Timer` is the
timekeeper's thread with the interrupt handler. The three share `requests_` without
a lock: an entry erased between find and move leaves a dangling iterator, which ends the
client. The promise that `erase` destroys wakes `main` before `erase` has returned
(`erasing`, until `EraseEnd`): an entry that `main` inserts in that time may be missing
afterwards (`lost`), and the insertion, or `read`'s erase, may end the client (`TableRace`).
`Serve` echoes what the codec has read: the codec copies a header without its
data but with its length, so the answer is written from memory past the message, and
the server may crash. `NextSize` is the end of five seconds, whenever that is.

### ThriftBench

`Spawn` and `Join` are `main`; `Open`, `Call`, `LoopOnce`, `CallFails`, `Close`,
`PushWrite` a thread of the client; `Accept`, `Handle`, `HandleLeft`, `TestSize`,
`AssignBegin`, `AssignEnd`, `Copy`, `Answer` the server. `stype` chooses who handles a
call: one worker per connection (`simple`, `threadpool`, `threaded`) or per call
(`nonblocking`, `fbthrift`), and with it the client.

* The Apache clients have one call out per thread (a window of depth 1), and their rounds
  go through growing sizes. The shipped ones only put; gets stand for any other synchronous
  client of the same servers, whose handlers offer `key_get`.
* exp1's client has up to `queue_depth` gets out per thread and refills the window as
  `WindowClient` does. It closes its connection as soon as it has its answers
  (`Disconnect`): handlers run on (`from = Gone`), and calls the server has received by
  then are still handled, in the next round too (`left`, `HandleLeft`). Its rounds go
  through the queue depths; its only size is 4096, the longer list being under `#if 0`, so
  a call left over from one round asks for the same size as the next.

The number of threads is the same in all rounds, where the code goes through several.
Two assignments to `data` at once, or a copy during one, are undefined: any length, or a
crash. `data_size` of fbthrift's server starts with any value. Two `push_back`s at once are
undefined: a result is lost, or the client crashes. `clean` is a history variable: whether
a call found the cache right when it began.

## 3. What TLC checks

| Run | Bounds | Result |
| --- | --- | --- |
| `leaf_cold` | 3 requests (a write and a read of one file, a read of a missing one), 2 of them racing through `init()`, 2 event bases, 2 ring slots, failing opens and I/O | the engine's `InflightExact`, `OneOwner`, `SignalAccounting` and its refinement of `IOService` (`ServiceSpec`); the server's `DescriptorsExact`, `ContinuedExactly`, `DataTraced` hold |
| `leaf_solo` | 3 requests, the first alone until the flag is set, 1 slot, failing opens and I/O | `HandlerWatchesEventfd` holds and every request that `io_submit` takes is answered, unless the assert on another's descriptor ends the server (`AcceptedAnswered`) |
| `leaf_race` | 2 racing requests | **violated**: some request is never answered |
| `window` | depth 4, 5 requests, failing calls | `WindowExact` (at most the depth is out, no counter wraps, answers find their start time) and `OvershootBounded` hold; the loop ends unless all 4 places are lost (`EndsUnlessWindowLost`) |
| `db_one` | a write and 2 reads, 2 leafs, 1 event base | `AssertsHold`, `LeafConsistent` hold; every request is answered or dropped (`EveryRequestSettled`) |
| `db_two` | the same, the write on a second event base | `AnsweredExactly` holds until the server ends, although calls on the other base's channels may be lost |
| `db_race` | 2 reads on 2 event bases | **violated**: an assert fails |
| `storage` | each kind of client, depth up to 3, 6 requests, rate 2, failing calls | `OutExact`, `StatsAddUp`, `SentBounded`, `FixedMaintainsDepth` hold; a client that counts ends unless a call fails (`EndsUnlessLost`) |
| `storage_main` | every text of up to 3 words and delimiters, 2 clients, 2 updates each | `TokensRight`, `CollectorSound`, `DumpsGrow` hold; splitting ends except `split` on an empty token (`SplitEnds`); `quit` ends the program (`QuitEnds`) |
| `echo` | depths 1 to 3, 3 requests of 2 units, room for 3 units, a connection that may be lost at any time | `Framed`, `EchoedInOrder`, `OutstandingExact`, `SentExactly` hold; both sides end (`BothEnd`) |
| `wangle` | 2 sizes, 4 requests, an `erase` that takes its time | `RequestsExact`, `CountExact`, `AbortsOnlyAfterTimeout` hold; every wait ends (`EveryWaitEnds`) |
| `thrift_bench` | 2 rounds, 2 workers, 5 kinds of server; 3 threads of 2 synchronous puts or gets each, or 2 threads with a window of 1 or 2 that need 1 answer | `RightWhenWarm`, `SimpleServerExact`, `RoundsApart` hold; all rounds end unless the server or the client is undone (`AllRoundsEnd`) |

Why the bounds are enough.

* *Leaf server*: two racing `init()` calls already give every order of accesses to the
  two members; three requests are needed to remove from the middle of `inflight_`, to
  have one loop harvest what another request's signal paid for, and to have a slot
  refused while another is being reused.
* *DB server*: two leafs are the least with which a write has a first and a last leaf
  and `getLeaf` wraps; three requests let one connect, one find the channel and one
  come after it has closed.
* *Storage client*: depth 3 and rate 2 grow, keep and shrink the depth while calls are
  out, and 6 requests take several rounds; `MaxSent` (12) is never reached by a client
  that counts and stops the domain-socket client long after its counter has wrapped.
* *StorageMain*: three positions give an empty token in front, in between and at the
  end; two clients and the dump thread give every order of additions, updates and
  dumps. `MaxClients` and `MaxUpdates` bound what is typed and how long clients run.
* *EchoBench*: a request of two units and room for one and a half make every read and
  write stop inside a request and at its boundary, and both buffers fill at once.
* *Wangle*: a second request meets the late answer to the first, a third meets it
  after another timeout; two sizes let `NextSize` come between any of them.
  `MaxSeq` bounds how many requests fit into five seconds.
* *ThriftBench*: three threads with two workers leave one connection waiting; two sizes
  make the cache stale once, and two calls let a warm and a cold call meet. With a window
  of 2 and one answer needed, every connection of exp1's client can be closed with a call
  still waiting or in a handler, in both rounds and from both threads at once.

The invariants proved below do not depend on the bounds at all. Type invariants are
proved, not run (section 4).

Deadlock checking is off because every run is finite: when all requests are answered,
lost or counted, and after an abort, the system rests.

Fairness. `FairLeafSpec`: handler threads and pool threads run (weak fairness of
each), the kernel finishes and signals what it accepted, an event base
dispatches a ready handler and goes on with its loop (weak), and it runs the
functions posted to it in each iteration, also while a handler stays ready
(strong fairness of `Reply`). Nothing is assumed of a refused iocb. `WindowClient`: the
thread runs, and `loopOnce` does not return for ever without settling a call that is
under way (strong fairness of `Settle`). `StorageClient`: the same, and the server's
handlers run. `DBServer`: handler threads and event bases run, and a call under way is
answered or fails in time; that a channel closes is never assumed. `StorageMain`:
`main` and the dump thread run; nobody has to type a command, and client threads need
not make progress. `EchoBench`: both event loops run, and the kernel reports what can
be read or written, and that a connection is lost; that one is lost is never assumed.
`Wangle`: `main` and the I/O thread run and time passes; nothing is
assumed of the server. `ThriftBench`: someone who can take a step does; every step is
progress, so no more is needed.

### Disagreements found

1. *Cold start* (`leaf_race`). Both first requests see `asyncio_inited_` false.
   One sets `eventfd_` last while the other's handler, polling the other
   descriptor, replaces `handlerp_` last. Every later iocb signals a descriptor
   nobody polls: the server never answers again.
2. *Shared leafs* (`db_race`). thrift runs one event base per core, and all of them
   use the same `Leaf` objects: two that find a leaf unconnected both connect, and
   an assert fails.

Four more places where the code does not do what a text in it says. No property states
the text's side, since it does not hold, and none states the code's side as if it were
meant; the properties named say what holds nevertheless.

* *A read destroys what it reads.* `async_tm_read` opens with `O_TRUNC`
  (`LEAF/LeafServer.cpp:113`), so the file is empty before it is read, while the client
  lays files down for its reads: "write files on to each client"
  (`exp3/DB/client.cpp:78`). The answer has the size asked for all the same, as
  nobody looks at the result of the I/O, and the client's assert on the size passes.
  `DataTraced` only says where data may come from.
* *"Max Queue Depth"* (`domain-socket/Client.cpp:25`) is exceeded by the domain-socket
  client: it never increments `req_out`, which wraps with the first answer, and from then on
  `to_send` is 1 per iteration however many calls are out. `BenchmarkEcho` also sends
  one request per iteration, instead of none, while its shrunk depth is below `req_out`.
  Only the fixed depth is maintained (`FixedMaintainsDepth`).
* *"Number of requests to send"* (`domain-socket/Client.cpp:27`, the same flag in
  `StorageRpc/Client.cpp`) is exceeded, by up to the queue depth in a limited run
  (`SentBounded`), and in the domain-socket client, which never increments `req_sent`, by
  whatever is out when enough answers are in.
* *No tokens.* `Split` and `split` guard their last token with `if (e != s)`, which is
  always true there as `e` is `npos`: a text that is empty or ends with a delimiter gives an
  empty last token. The tests for an empty list, `tokens.size() == 0`
  (`StorageRpc/Client.cpp:356`) and "Please provide list of leaf servers and their port"
  (`exp3/DB/DBServer.cpp:177`), are never true; an empty list of leafs ends with "Incorrect
  leaf IP or Port." instead. `TokensRight` says that words are neither lost nor reordered,
  and allows the empty token without asking for it.

Other behaviour shows in how properties are stated; here no text says otherwise.

* A request that `io_submit` refuses stays in `inflight_` with its descriptor open and
  is never answered; `AcceptedAnswered` speaks of accepted ones.
* A write is acknowledged whatever its calls to the leafs came to, so `AnsweredExactly`
  says nothing of what a write has stored.
* The window client's clamp uses answered, not sent, requests: up to
  `nrequests + queue_depth - 1` are sent (`OvershootBounded`), and exp1's client closes its
  connection with up to `queue_depth - 1` calls out (`RoundsApart`). The raw-socket client
  sends `qdepth_ - 1` more than it divides by, or, if its connection is lost, fewer
  (`SentExactly`).
* `split` of the DB servers loops for ever on an empty token that is not the last
  (`SplitEnds`); after `client_add`, `quit` ends the client by `std::terminate`
  (`QuitEnds`).
* A write that the kernel does not take at once outlives its callback
  (`EchoedInOrder` speaks of what comes before).
* A late answer fails wangle's `CHECK`, and the erase by the timer races with `read` and
  with `main` (`AbortsOnlyAfterTimeout`); its server reads past the messages it echoes
  (`Serve`).
* The cache of `init_data` and `bench_result` are shared without a lock: answers are
  right for sure only if the cache was right and at rest when the call came
  (`RightWhenWarm`), or if one call is handled at a time (`SimpleServerExact`). That two
  `push_back`s can overlap is not caught by a property: `RoundsApart` and `AllRoundsEnd`
  except the behaviours in which they do.

## 4. What is proved

All theorems hold for every value of the constants that satisfies the named
assumptions. `ConstantsAssumption`: the names are distinct, there are finitely
many requests, each has an event base. `LeafAssumption`: each request has a kind and
a file. `ClientAssumption`: `queue_depth > 0` and `nrequests + 2 * queue_depth < W`,
which a 32-bit depth and a 64-bit counter give. `DBAssumption`: there is a leaf, each
request has an event base and a kind. `StorageAssumption`: the depth is positive and
the counters are wide enough for the requests of a run. `MainAssumption`,
`WangleAssumption`, `BenchAssumption`: bounds and sizes are numbers, threads are
finitely many, programs, servers and operations are among those that exist.
`EchoAssumption`: depths, the number and size of requests and the kernel's room are
positive.

Every invariant and action property that a run checks is a theorem. Sums (the
counters of several eventfds, the I/Os of all clients)
are stated as the number of elements of a set of units, one per thing counted:
how such a set grows or shrinks with one counter follows from the library's theorems
on finite sets, where a recursive sum would need an induction over data.

* `LeafServerProofs`, first part (`AsyncIO`). The inductive invariant `EngineInv` is `TypeOK`, `EventfdMade`,
  `InflightExact` and `OneOwner`. `InflightExact` alone is not inductive: that a
  completion finds its entry needs to know that what the ring and the loops hold
  is in `inflight_` (`OneOwner`), and that again needs injectivity of `inflight_`
  to survive the swap with the last element (`SwapRemoveFacts`). `EventfdMade` is
  needed because `iosCompleted` reads a member that starts unset. From it follow
  `TypeCorrect`, `InflightCorrect`, `OwnerCorrect` and, with the map `ioPhase`, the
  refinement `EngineImplementsService`. `SignalInv` adds to `EngineInv` the accounting
  of signals with what it rests on (`SignalsFit`): only a loop between `eventfd_read`
  and `io_getevents` owes events, and an event is signalled once, after it was posted,
  on an eventfd that exists. `SignalsCorrect` follows for any number of eventfds and
  event bases, and from it `GetEventsNeverBlocks`: the units a loop has read off a
  counter are among those that pay for the ring, so it holds at least as many events.
* `LeafServerProofs`, second part (`LeafServer`). Every step of the server is a step of
  the engine (`LeafUsesEngine`), so `EngineInv` and the refinement carry over
  (`LeafImplementsService`). `LeafInv` adds the types, how the handler's place fits the
  engine's (`StepsFit`), `SubmitAfterInit`, `ContinuedExactly` and
  `DescriptorsExact`; the last rests on `LowestFreeIsFree` (a pigeonhole argument
  and the well-foundedness of `<`). `SoloCorrect` proves, under the extra
  hypothesis that at most one request can find the flag unset,
  `HandlerWatchesEventfd`: the exact condition that the race breaks. `DataCorrect`:
  `DataTraced` is inductive together with `LeafInv`, because the open of a write leaves
  its file without data and an executed I/O stays executed, which is a fact about
  `IOService` used through the refinement.
* `WindowClientProofs`. `WindowInv` strengthens `WindowExact` and `OvershootBounded`
  by the types and `RefillFits`: `req_tosend` is computed in one iteration
  and used in the next, and must still fit the window then.
* `DBServerProofs`. `ServerInv` holds for any number of event bases. That answers are
  exact (`AnsweredExactly`) needs to know that a call that is out waits on exactly one
  live channel (`CallsOnOpenChannels`), so that a dying channel fails that call and
  leaves settled ones alone; that a call settled well was carried out (`OkStored`);
  that a write's loop has called the leafs before the one it is at (`LoopFits`); and
  that a pointer in use leads to the leaf in question (`ChannelsFit`). Under the
  hypothesis `OneBase`, `OneBaseInv` relates the flag, the pointer and the close
  callback at every point of `connect` and `channelClosed` (`FlagFits`), which works
  because functions and callbacks exclude each other (`OneAtATime`). It gives
  `OneBaseAssertsHold`, which also excludes the end by a foreign or dead channel, and
  `OneBaseLeafConsistent`.
* `StorageClientProofs`. `StorageInv` strengthens `OutExact`, `StatsAddUp`,
  and `SentBounded` by `CallsExact` (every call is complete, under
  way or lost, and `req_out` of a client that does not count is minus its answers),
  `RoundFits` (a round is computed before the test of the loop and sent after it) and,
  for a fixed depth, `FixedWindow` (what is out and what is still to be sent fit the
  depth), which gives `FixedDepthCorrect`.
* `StorageMainProofs`. `MainInv`, besides types: a thread has the id it was made with (`IdsFit`),
  `stats_` has exactly the clients that have added themselves (`StatsFit`), and `main`
  joins the dump thread only without clients (`EndFits`). It gives
  `CollectorCorrect`. `DumpsFit` (the last dump showed no more clients and I/Os than there
  are now) makes the action property `DumpsGrow` a consequence of one step
  (`DumpsCorrect`). `SplitInv` is the loop invariant of both split functions: `s` is
  behind a delimiter and the tokens so far are the words in front of it (`SplitFits`).
  A word is counted by its position, so `TokensCorrect` needs no induction over the text.
* `EchoBenchProofs`. `EchoInv` is the four properties, the types, `BuffersFit` and
  `CountersFit`. The six sequences of `Stream` are joined by an operator the provers do
  not look into, and each step is shown to move a cut between two neighbours
  (`LineFirst` to `LineLast`), to add a request at the end (`LineSent`, `Sent`), to take
  one off the front (`LineAnswered`, `Answered`) or to spoil ids and nothing else
  (`Spoilt`). `BuffersFit` is needed because the loop writes up to the end of the
  request at the front of what waits: that so much waits follows only from whole
  requests being under way, in all and between the server's `ReadCallback` and the
  client (`WaitingFits`). `CountersFit` says how many requests have been sent by how many
  are complete, from which `SentExactly` follows when `stop_benchmark` ends the loop; a lost
  connection ends it anywhere, with `OutstandingExact` as it was. The proof holds
  whatever a dangling `WriteCallback` does; only `EchoedInOrder` is conditional on none.
* `WangleProofs`. `WangleInv` strengthens `RequestsExact`, `CountExact` and
  `AbortsOnlyAfterTimeout` by `OpenInFlight` (what is still on its way has timed out or
  is waited for, so an answer that misses its entry is a late one), `OneCopy` (no
  request is twice on its way, so none is counted twice) and `MainFits` (also: an `erase` is
  in progress only after a timeout).
* `ThriftBenchProofs`. `BenchInv` has two parts. `PlacesInv`, besides types: who is in a
  handler has a call, and only exp1's client leaves calls behind (`CallsFit`); a thread's
  calls that wait, are handled or are answered are no more than it counts as out, which
  with those it will send fit its window, and once its answers are complete at least one
  place of the window is free (`WindowFits`). So only a thread that runs has calls of its
  own at the server. `CacheInv`: a get says the size it was asked (`RepliesFit`), also in
  the next round, since the Apache clients leave no handler behind and exp1 has one size;
  while a call that found the cache right is handled, nobody begins to assign
  (`WarmFits`); and with one worker the cache is at rest but for that one
  (`SimpleFits`). They give `WarmCorrect` and `SimpleServerCorrect`. `RoundsInv` adds that
  `bench_result` has one result of each thread that has ended, as long as one pushes at a
  time (`ResultsFit`), and what is known when `main` is done (`DoneFits`). With `PlacesInv`
  it gives `RoundsCorrect`.

Every module has a type invariant (`TypeOK`, `LeafTypeOK`), proved as part of its
inductive invariant; the text and the tokens of `StorageMain` are typed in `SplitFits`
and `DumpsFit`.

Only model-checked: liveness (`AcceptedAnswered`, `EndsUnlessWindowLost`,
`EveryRequestSettled`, `EndsUnlessLost`, `SplitEnds`, `QuitEnds`, `BothEnd`,
`EveryWaitEnds`, `AllRoundsEnd`), which needs fairness and `ENABLED` and is beyond the
prover, and the two violations.

## 5. Not modelled, and the plan

Not modelled: the serialisation benchmarks (straight-line timing of generated code, no
state survives a pass), `laydown_files` (synchronous writes before the benchmark), the
parsing of flags, the set-up of sockets and event loops, generated code, the printing
of results and all latencies, with the `main`s of `exp2/DB/client.cpp` and
`exp3/DB/client.cpp`, which start and join their threads as exp1's does and add up
latencies. The unused `init_data` of the leaf servers and code under
`#if 0` are not compiled or not called.

What is left, in this order:

1. What the liveness properties rest on, as safety theorems: that an unfinished system
   of a kind is never stuck (some request is in a place from which a step leads on), for
   `DBServer` with one event base, `EchoBench` and `Wangle`.
2. An abstract window (requests sent, answered, lost; never more than a depth out) that
   `WindowClient` and the fixed-depth `StorageClient` both refine.
3. An abstract echo service, a queue of whole requests, that `EchoBench` refines as long
   as no write outlives its callback.
