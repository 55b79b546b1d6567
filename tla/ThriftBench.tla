---------------------------- MODULE ThriftBench ----------------------------
(***************************************************************************)
(* The multi-threaded benchmarks: main of the clients, which starts its    *)
(* threads and joins them in one round after another; the threads, each    *)
(* with its connection; and the servers' BenchmarkHandler, whose init_data *)
(* keeps the data of the last size in data and data_size without a lock.   *)
(*                                                                         *)
(* The clients differ in their calls.  Those of Apache thrift wait for the *)
(* answer of each call, and the rounds go through the request sizes.  That *)
(* of fbthrift (exp1) keeps up to queue_depth calls out, closes its        *)
(* connection when it has nrequests answers, whatever is still out, and    *)
(* pushes its result; its rounds go through the queue depths, with one     *)
(* request size.                                                           *)
(*                                                                         *)
(* The servers differ in who handles a call: TSimpleServer and             *)
(* TThreadPoolServer give a connection to one worker until it closes,      *)
(* TThreadedServer has a thread per connection, TNonblockingServer and     *)
(* fbthrift's ThriftServer hand each call to a worker.                     *)
(***************************************************************************)
EXTENDS Integers, FiniteSets

CONSTANTS
    NThreads,       \* threads of the Apache clients
    FbThreads,      \* threads of fbthrift's client
    NRequests,      \* nrequests of each thread of the Apache clients
    FbRequests,     \* and of fbthrift's, MaxRequests
    Rounds,         \* how many rounds main goes through
    QDepths,        \* queue_depths of fbthrift's client
    Workers,        \* FLAGS_nthreads of the server
    Servers,        \* the kinds of server
    Ops,            \* "put", "get"
    None, Gone      \* in place of a thread: nobody; one that closed

ASSUME BenchAssumption ==
    /\ NThreads \in Nat \ {0} /\ FbThreads \in Nat \ {0}
    /\ NRequests \in Nat \ {0} /\ FbRequests \in Nat \ {0}
    /\ Rounds \in Nat \ {0}
    /\ QDepths \subseteq Nat \ {0}
    /\ Workers \in Nat \ {0}
    /\ Servers \subseteq
          {"simple", "threadpool", "threaded", "nonblocking", "fbthrift"}
    /\ Ops \subseteq {"put", "get"}
    /\ None \notin Nat /\ Gone \notin Nat /\ None # Gone

VARIABLES
    stype,          \* FLAGS_server_type, "simple" of exp1, or "fbthrift"
    op,             \* the call the client makes
    main,           \* "spawn", "join", "done" or "crashed"
    round,          \* the number of the round
    depth,          \* queue_depth in this round; 1 for the Apache clients
    thread,         \* state of each thread: see Places
    calls,          \* req_complete of each thread
    out,            \* req_out: calls without an answer, as the thread counts
    tosend,         \* passes left of the loop that sends
    waiting,        \* calls of each connection that no worker has begun
    left,           \* those of closed connections
    replies,        \* answers of each connection that were not read yet
    size,           \* data_size
    data,           \* the length of data; Torn while it is being assigned
    h,              \* where each worker is in a handler
    from,           \* the thread whose call or connection each worker has
    reply,          \* the BenchmarkData each handler returns: the size it
                    \* says and the length of its data
    clean,          \* whether the call found the cache right and at rest
    up,             \* whether the server is up
    results,        \* the length of bench_result
    tail,           \* the length each thread's push_back has read
    overlapped      \* whether two calls of push_back have overlapped

kind == <<stype, op>>
window == <<calls, out, tosend>>
wire == <<waiting, left, replies>>
bench == <<results, tail, overlapped>>
cache == <<size, data>>
handlers == <<h, from, reply, clean, up>>
vars == <<kind, main, round, depth, thread, window, wire, cache, handlers, bench>>

Torn == -1
Places == {"none", "open", "run", "push", "ended", "failed"}
Steps == {"idle", "test", "assign", "assigned", "copy", "answer"}
Ended(t) == thread[t] \in {"ended", "failed"}

\* The client's threads.
nt == IF stype = "fbthrift" THEN FbThreads ELSE NThreads
Threads == 1 .. nt
nrequests == IF stype = "fbthrift" THEN FbRequests ELSE NRequests

perCall == stype \in {"nonblocking", "fbthrift"}
workers == CASE stype = "simple" -> 1
             [] stype = "threaded" -> nt
             [] OTHER -> Workers
Pool == 1 .. workers

\* What a round asks for: the sizes of the Apache clients grow, exp1 has one.
req_size == IF stype = "fbthrift" THEN 1 ELSE round

\* The answer starts as a copy of the request, without its data.
copy_benchmark_data == [data_size |-> req_size, data |-> 0]
NoReply == [data_size |-> 0, data |-> 0]
key_put == [copy_benchmark_data EXCEPT !.data_size = 0]

Depths == IF stype = "fbthrift" THEN QDepths ELSE {1}

\* data_size is not initialised by the constructor of fbthrift's server.
Init ==
    /\ stype \in Servers
    /\ op \in IF stype = "fbthrift" THEN {"get"} ELSE Ops
    /\ main = "spawn"
    /\ round = 1
    /\ depth \in Depths
    /\ thread = [t \in Threads |-> "none"]
    /\ calls = [t \in Threads |-> 0]
    /\ out = [t \in Threads |-> 0]
    /\ tosend = [t \in Threads |-> 0]
    /\ waiting = [t \in Threads |-> 0]
    /\ left = 0
    /\ replies = [t \in Threads |-> 0]
    /\ size \in IF stype = "fbthrift" THEN 0 .. req_size ELSE {0}
    /\ data = 0
    /\ h = [w \in Pool |-> "idle"]
    /\ from = [w \in Pool |-> None]
    /\ reply = [w \in Pool |-> NoReply]
    /\ clean = [w \in Pool |-> FALSE]
    /\ up = TRUE
    /\ results = 0
    /\ tail = [t \in Threads |-> 0]
    /\ overlapped = FALSE

-----------------------------------------------------------------------------
(* main.                                                                   *)

\* The loop that starts the threads.
Spawn ==
    /\ main = "spawn"
    /\ \/ \E t \in Threads :
             /\ thread[t] = "none" /\ \A u \in 1 .. t - 1 : thread[u] # "none"
             /\ thread' = [thread EXCEPT ![t] = "open"]
             /\ UNCHANGED main
       \/ /\ \A t \in Threads : thread[t] # "none"
          /\ main' = "join"
          /\ UNCHANGED thread
    /\ UNCHANGED <<kind, round, depth, window, wire, cache, handlers, bench>>

\* The next round, with its size or its queue depth, or the end.
NextRound ==
    /\ IF round = Rounds
       THEN main' = "done" /\ UNCHANGED <<round, depth, thread, window>>
       ELSE /\ main' = "spawn"
            /\ round' = round + 1
            /\ depth' \in Depths
            /\ thread' = [t \in Threads |-> "none"]
            /\ calls' = [t \in Threads |-> 0]
            /\ out' = [t \in Threads |-> 0]
            /\ tosend' = [t \in Threads |-> 0]
    /\ UNCHANGED <<kind, wire, cache, handlers, bench>>

\* Mutant: the last thread is not joined.
Join_AllButOne ==
    /\ main = "join"
    /\ \E u \in Threads : \A t \in Threads \ {u} : Ended(t)
    /\ NextRound

\* All threads are joined.
Join ==
    /\ main = "join"
    /\ \A t \in Threads : Ended(t)
    /\ NextRound

-----------------------------------------------------------------------------
(* A thread of the client, start_benchmark.                                *)

\* transport->open(), which throws if there is no server; fbthrift's channel
\* connects later.
Open(t) ==
    /\ thread[t] = "open"
    /\ thread' = [thread EXCEPT ![t] =
                     IF up \/ stype = "fbthrift" THEN "run" ELSE "failed"]
    /\ tosend' = [tosend EXCEPT ![t] = depth]
    /\ UNCHANGED <<kind, main, round, depth, calls, out, wire, cache, handlers,
                   bench>>

\* A call is made: a pass of the loop that sends.  A server that is down
\* never sees it.
Call(t) ==
    /\ thread[t] = "run"
    /\ calls[t] < nrequests /\ tosend[t] > 0
    /\ tosend' = [tosend EXCEPT ![t] = @ - 1]
    /\ out' = [out EXCEPT ![t] = @ + 1]
    /\ waiting' = [waiting EXCEPT ![t] = IF up THEN @ + 1 ELSE @]
    /\ UNCHANGED <<kind, main, round, depth, thread, calls, left, replies,
                   cache, handlers, bench>>

\* How many calls follow an answer: the places in the window that are free,
\* or as many as answers are missing if that is less.
Refill(done, o) ==
    IF depth - o + done <= nrequests THEN depth - o
    ELSE IF done < nrequests THEN nrequests - done ELSE 0

\* loopOnce reads answers, one or more, each of which its continuation
\* counts.  An Apache client has one call out and reads its answer.
LoopOnce(t) ==
    /\ thread[t] = "run"
    /\ calls[t] < nrequests /\ tosend[t] = 0
    /\ \E n \in 1 .. replies[t] :
           /\ replies' = [replies EXCEPT ![t] = @ - n]
           /\ calls' = [calls EXCEPT ![t] = @ + n]
           /\ out' = [out EXCEPT ![t] = @ - n]
           /\ tosend' = [tosend EXCEPT ![t] = Refill(calls[t] + n, out[t] - n)]
    /\ UNCHANGED <<kind, main, round, depth, thread, waiting, left, cache,
                   handlers, bench>>

\* Mutant: the connection is left open.
Disconnect_Never(t) == UNCHANGED <<from, wire>>

(***************************************************************************)
(* What closing the connection of t leaves at the server: a worker that is *)
(* in a handler goes on, one that waited for a call is free; of the calls  *)
(* that wait, the server has received some and still handles them.         *)
(***************************************************************************)
Disconnect(t) ==
    /\ from' = [w \in Pool |-> IF from[w] # t THEN from[w]
                               ELSE IF h[w] = "idle" THEN None ELSE Gone]
    /\ waiting' = [waiting EXCEPT ![t] = 0]
    /\ replies' = [replies EXCEPT ![t] = 0]
    /\ left' \in left .. (left + waiting[t])

\* The call fails when the server goes down: TException ends the thread, and
\* with it its connection.  With fbthrift the continuation is not called, and
\* the thread's loop waits for ever.
CallFails(t) ==
    /\ thread[t] = "run"
    /\ calls[t] < nrequests /\ tosend[t] = 0
    /\ ~up /\ stype # "fbthrift"
    /\ thread' = [thread EXCEPT ![t] = "failed"]
    /\ Disconnect(t)
    /\ UNCHANGED <<kind, main, round, depth, window, cache, h, reply, clean, up,
                   bench>>

\* After the loop the connection is closed.  In fbthrift's client, push_back
\* then reads the length of bench_result.
Close(t) ==
    /\ thread[t] = "run"
    /\ calls[t] >= nrequests
    /\ Disconnect(t)
    /\ IF stype = "fbthrift"
       THEN /\ thread' = [thread EXCEPT ![t] = "push"]
            /\ tail' = [tail EXCEPT ![t] = results]
            /\ overlapped' = (overlapped \/ \E u \in Threads : thread[u] = "push")
       ELSE /\ thread' = [thread EXCEPT ![t] = "ended"]
            /\ UNCHANGED <<tail, overlapped>>
    /\ UNCHANGED <<kind, main, round, depth, window, cache, h, reply, clean,
                   up, results>>

(***************************************************************************)
(* push_back stores the element and increments the length.  Two at once    *)
(* are undefined: an element, or its increment, may be lost, or the client *)
(* crashes with all its threads.                                           *)
(***************************************************************************)
PushWrite(t) ==
    /\ thread[t] = "push"
    /\ \/ /\ thread' = [thread EXCEPT ![t] = "ended"]
          /\ results' \in {tail[t] + 1, results + 1}
          /\ tail' = [tail EXCEPT ![t] = 0]
          /\ UNCHANGED <<main, overlapped>>
       \/ /\ \E u \in Threads \ {t} : thread[u] = "push"
          /\ main' = "crashed"
          /\ thread' = [u \in Threads |-> "failed"]
          /\ UNCHANGED bench
    /\ UNCHANGED <<kind, round, depth, window, wire, cache, handlers>>

-----------------------------------------------------------------------------
(* The server.                                                             *)

\* The first worker that is free: which one makes no difference.
Free(w) == from[w] = None /\ \A v \in Pool : v < w => from[v] # None

\* A worker takes a connection.
Accept(t) ==
    /\ up /\ ~perCall
    /\ thread[t] = "run" /\ \A w \in Pool : from[w] # t
    /\ \E w \in Pool : Free(w) /\ from' = [from EXCEPT ![w] = t]
    /\ UNCHANGED <<kind, main, round, depth, thread, window, wire, cache, h,
                   reply, clean, up, bench>>

\* Whether init_data would return what is asked for, with nobody in the way.
Right ==
    /\ size = req_size /\ data = req_size
    /\ \A v \in Pool : h[v] \notin {"assign", "assigned"}

\* A worker begins to handle a call.
Enter(w) ==
    /\ IF op = "put"
       THEN /\ h' = [h EXCEPT ![w] = "answer"]
            /\ reply' = [reply EXCEPT ![w] = key_put]
       ELSE /\ h' = [h EXCEPT ![w] = "test"]
            /\ reply' = [reply EXCEPT ![w] = copy_benchmark_data]
    /\ clean' = [clean EXCEPT ![w] = Right]
    /\ UNCHANGED <<kind, main, round, depth, thread, window, replies, cache,
                   up, bench>>

\* A call of a connection that is open: by any worker, or by the one that
\* has the connection.
Handle(t) ==
    /\ up /\ waiting[t] > 0
    /\ waiting' = [waiting EXCEPT ![t] = @ - 1]
    /\ \E w \in Pool :
           /\ h[w] = "idle"
           /\ IF perCall THEN Free(w) ELSE from[w] = t
           /\ from' = [from EXCEPT ![w] = t]
           /\ Enter(w)
    /\ UNCHANGED left

\* A call whose connection was closed.
HandleLeft ==
    /\ up /\ perCall /\ left > 0
    /\ left' = left - 1
    /\ \E w \in Pool :
           /\ h[w] = "idle" /\ Free(w)
           /\ from' = [from EXCEPT ![w] = Gone]
           /\ Enter(w)
    /\ UNCHANGED waiting

\* Mutant: the data is made anew for every call.
TestSize_Always(w) ==
    /\ up /\ h[w] = "test"
    /\ h' = [h EXCEPT ![w] = "assign"]
    /\ UNCHANGED <<kind, main, round, depth, thread, window, wire, cache, from,
                   reply, clean, up, bench>>

\* init_data: if (data_size != size)
TestSize(w) ==
    /\ up /\ h[w] = "test"
    /\ h' = [h EXCEPT ![w] = IF size = reply[w].data_size THEN "copy" ELSE "assign"]
    /\ UNCHANGED <<kind, main, round, depth, thread, window, wire, cache, from,
                   reply, clean, up, bench>>

\* Two assignments to data at once, or a copy during one: undefined.
Crash ==
    /\ up' = FALSE
    /\ h' = [w \in Pool |-> "idle"]
    /\ from' = [w \in Pool |-> None]
    /\ reply' = [w \in Pool |-> NoReply]
    /\ clean' = [w \in Pool |-> FALSE]
    /\ waiting' = [t \in Threads |-> 0]
    /\ left' = 0
    /\ UNCHANGED <<kind, main, round, depth, thread, window, replies, cache, bench>>

\* data = string(size, 'A') begins.
AssignBegin(w) ==
    /\ up /\ h[w] = "assign"
    /\ \/ /\ h' = [h EXCEPT ![w] = "assigned"]
          /\ data' = Torn
          /\ UNCHANGED <<kind, main, round, depth, thread, window, wire, size,
                         from, reply, clean, up, bench>>
       \/ data = Torn /\ Crash

\* Mutant: the data is made with the size of the data before.
AssignEnd_OldSize(w) ==
    /\ up /\ h[w] = "assigned"
    /\ data' = size
    /\ size' = reply[w].data_size
    /\ h' = [h EXCEPT ![w] = "copy"]
    /\ UNCHANGED <<kind, main, round, depth, thread, window, wire, from, reply,
                   clean, up, bench>>

\* It ends, and data_size = size.
AssignEnd(w) ==
    /\ up /\ h[w] = "assigned"
    /\ data' = reply[w].data_size
    /\ size' = reply[w].data_size
    /\ h' = [h EXCEPT ![w] = "copy"]
    /\ UNCHANGED <<kind, main, round, depth, thread, window, wire, from, reply,
                   clean, up, bench>>

\* ret_data = data;
Copy(w) ==
    /\ up /\ h[w] = "copy"
    /\ \/ /\ h' = [h EXCEPT ![w] = "answer"]
          /\ \E n \in IF data = Torn THEN 0 .. reply[w].data_size ELSE {data} :
                 reply' = [reply EXCEPT ![w].data = n]
          /\ UNCHANGED <<kind, main, round, depth, thread, window, wire, cache,
                         from, clean, up, bench>>
       \/ data = Torn /\ Crash

\* The handler returns and the answer is written, if its connection is still
\* open.
Answer(w) ==
    /\ up /\ h[w] = "answer"
    /\ h' = [h EXCEPT ![w] = "idle"]
    /\ from' = [from EXCEPT ![w] = IF perCall \/ @ = Gone THEN None ELSE @]
    /\ reply' = [reply EXCEPT ![w] = NoReply]
    /\ clean' = [clean EXCEPT ![w] = FALSE]
    /\ replies' = [t \in Threads |-> IF from[w] = t THEN replies[t] + 1
                                                    ELSE replies[t]]
    /\ UNCHANGED <<kind, main, round, depth, thread, window, waiting, left,
                   cache, up, bench>>

-----------------------------------------------------------------------------
Thread(t) ==
    Open(t) \/ Call(t) \/ LoopOnce(t) \/ CallFails(t) \/ Close(t) \/ PushWrite(t)
Handler(w) ==
    TestSize(w) \/ AssignBegin(w) \/ AssignEnd(w) \/ Copy(w) \/ Answer(w)

Next ==
    \/ Spawn \/ Join
    \/ \E t \in Threads : Thread(t) \/ Accept(t) \/ Handle(t)
    \/ HandleLeft
    \/ \E w \in Pool : Handler(w)

Spec == Init /\ [][Next]_vars

(***************************************************************************)
(* Somebody runs who can: every step is progress, so no thread and no      *)
(* connection needs a fairness of its own.                                 *)
(***************************************************************************)
FairSpec == Spec /\ WF_vars(Next)

-----------------------------------------------------------------------------
\* An answer whose data is not as long as it says, or that says another
\* size than was asked for.
Wrong(w) ==
    /\ h[w] = "answer"
    /\ \/ reply[w].data # reply[w].data_size
       \/ op = "get" /\ reply[w].data_size # req_size

(***************************************************************************)
(* "assert(retbd.get_data().size() == req_size)": a get that finds the     *)
(* data of its size in place, and nobody assigning, is answered with that  *)
(* size, whoever comes in the meantime, calls that a closed connection has *)
(* left included; a put is answered without data.                          *)
(***************************************************************************)
RightWhenWarm == \A w \in Pool : Wrong(w) => op = "get" /\ ~clean[w]

(***************************************************************************)
(* A server that handles one call at a time never answers with the wrong   *)
(* size and is never undone by its cache.                                  *)
(***************************************************************************)
SimpleServerExact ==
    stype = "simple" => up /\ \A w \in Pool : ~Wrong(w)

\* Between two rounds: no thread has a connection.
Between ==
    main # "crashed" /\ \A t \in Threads : thread[t] = "none" \/ Ended(t)

(***************************************************************************)
(* What a round leaves to the next.  The Apache clients leave nothing: no  *)
(* worker has a call or a connection.  A connection of fbthrift's client   *)
(* is closed with at most queue_depth - 1 calls out, and such calls are    *)
(* all that workers are busy with.  Every thread has left a result in      *)
(* bench_result at the end, if no two of them were in push_back at once.   *)
(***************************************************************************)
RoundsApart ==
    /\ Between => \A w \in Pool :
          from[w] = None \/ (from[w] = Gone /\ stype = "fbthrift")
    /\ \A t \in Threads :
          thread[t] \in {"push", "ended"} => out[t] \in 0 .. depth - 1
    /\ main = "done" /\ stype = "fbthrift" /\ ~overlapped =>
          results = Rounds * nt

(***************************************************************************)
(* main comes to its end, however few workers there are: connections that  *)
(* wait get one when others close.  Only threads of fbthrift's client wait *)
(* for a server that is down, and only two of its push_backs at once end   *)
(* it before its time.  The server is left with nothing to do.             *)
(***************************************************************************)
AllRoundsEnd ==
    <>(\/ main = "done" /\ left = 0 /\ \A w \in Pool : from[w] = None
       \/ stype = "fbthrift" /\ ~up
       \/ main = "crashed" /\ overlapped)
-----------------------------------------------------------------------------
(* The invariants of the proofs.                                           *)

TypeOK ==
    /\ stype \in Servers /\ op \in {"put", "get"}
    /\ main \in {"spawn", "join", "done", "crashed"}
    /\ round \in Nat \ {0} /\ depth \in Depths
    /\ thread \in [Threads -> Places]
    /\ calls \in [Threads -> Nat] /\ out \in [Threads -> Nat]
    /\ tosend \in [Threads -> Nat]
    /\ waiting \in [Threads -> Nat] /\ left \in Nat
    /\ replies \in [Threads -> Nat]
    /\ size \in Nat /\ data \in Nat \cup {Torn}
    /\ h \in [Pool -> Steps]
    /\ from \in [Pool -> Threads \cup {None, Gone}]
    /\ reply \in [Pool -> [data_size : Nat, data : Nat]]
    /\ clean \in [Pool -> BOOLEAN] /\ up \in BOOLEAN
    /\ results \in Nat /\ tail \in [Threads -> Nat]
    /\ overlapped \in BOOLEAN

\* The workers that handle a call of t.
busy(t) == {w \in Pool : from[w] = t /\ h[w] # "idle"}

\* Who is in a handler has a call, of a server that is up; only fbthrift's
\* client leaves calls behind, pushes, and can crash.
CallsFit ==
    /\ \A w \in Pool : h[w] # "idle" => from[w] # None
    /\ ~up => /\ \A w \in Pool : from[w] = None
              /\ \A t \in Threads : waiting[t] = 0
    /\ stype # "fbthrift" =>
          /\ left = 0 /\ main # "crashed"
          /\ \A w \in Pool : from[w] # Gone
          /\ \A t \in Threads : thread[t] # "push"

\* Only a thread that runs has calls at the server, and no more than it
\* counts; those and the ones it will make fit in its window.
WindowFits ==
    \A t \in Threads :
        /\ main = "crashed" => thread[t] = "failed"
        /\ main # "crashed" /\ thread[t] # "run" =>
              waiting[t] = 0 /\ replies[t] = 0 /\ \A w \in Pool : from[w] # t
        /\ thread[t] \in {"none", "open"} => calls[t] = 0 /\ out[t] = 0
        /\ thread[t] = "run" =>
              /\ waiting[t] + replies[t] + Cardinality(busy(t)) <= out[t]
              /\ out[t] + tosend[t] <= depth
              /\ calls[t] >= nrequests => out[t] < depth
        /\ thread[t] \in {"push", "ended"} => out[t] < depth
        /\ thread[t] = "failed" => main = "crashed" \/ (~up /\ stype # "fbthrift")

PlacesInv == TypeOK /\ CallsFit /\ WindowFits

\* A handler answers for the size that was asked for.
RepliesFit ==
    \A w \in Pool : h[w] # "idle" =>
        IF op = "put" THEN h[w] = "answer" /\ reply[w] = NoReply
                      ELSE reply[w].data_size = req_size

\* A call that found the cache right still finds it so.
WarmFits ==
    \A w \in Pool : h[w] # "idle" /\ clean[w] =>
        /\ Right
        /\ op = "get" /\ h[w] = "answer" => reply[w].data = req_size

\* With one worker, data is as long as data_size says, but for the while it
\* is assigned.
SimpleFits ==
    stype = "simple" =>
        /\ up
        /\ data = Torn <=> h[1] = "assigned"
        /\ data # Torn => data = size
        /\ op = "get" /\ h[1] = "copy" => data = req_size
        /\ op = "get" /\ h[1] = "answer" => reply[1].data = req_size

CacheInv == RepliesFit /\ WarmFits /\ SimpleFits

BenchInv == PlacesInv /\ CacheInv

\* As long as push_backs do not overlap, each adds one to bench_result.
ResultsFit ==
    stype = "fbthrift" /\ ~overlapped /\ main # "crashed" =>
        /\ results = (round - 1) * nt
                        + Cardinality({t \in Threads : thread[t] = "ended"})
        /\ \A t \in Threads : thread[t] = "push" => tail[t] = results
        /\ \A t, u \in Threads : thread[t] = "push" /\ thread[u] = "push" => t = u

DoneFits == main = "done" => round = Rounds /\ \A t \in Threads : Ended(t)

RoundsInv == ResultsFit /\ DoneFits
=============================================================================
