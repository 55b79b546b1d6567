-------------------------- MODULE ThriftBenchProofs --------------------------
(***************************************************************************)
(* Proofs about the multi-threaded benchmarks, for any number of threads,  *)
(* requests, rounds and workers and any queue depths: what the threads     *)
(* have at the server and what a round leaves there; the cache of data and *)
(* the answers made from it; and the results of the rounds.                *)
(***************************************************************************)
EXTENDS ThriftBench, FiniteSetTheorems, TLAPS

\* The kind of server and client, and what follows from it, never change.
LEMMA SameKind ==
    ASSUME UNCHANGED kind
    PROVE  /\ UNCHANGED <<stype, op>>
           /\ nt' = nt /\ Threads' = Threads /\ Pool' = Pool
           /\ nrequests' = nrequests /\ Depths' = Depths
BY DEF kind, nt, Threads, Pool, workers, nrequests, Depths

LEMMA KindStep == [Next]_vars => UNCHANGED kind
<1>1. Spawn => UNCHANGED kind
  BY DEF Spawn
<1>2. Join => UNCHANGED kind
  BY DEF Join, NextRound
<1>3. \A t : Thread(t) => UNCHANGED kind
  BY DEF Thread, Open, Call, LoopOnce, CallFails, Close, PushWrite
<1>4. \A t : Accept(t) \/ Handle(t) => UNCHANGED kind
  BY DEF Accept, Handle, Enter
<1>5. HandleLeft => UNCHANGED kind
  BY DEF HandleLeft, Enter
<1>6. \A w : Handler(w) => UNCHANGED kind
  BY DEF Handler, TestSize, AssignBegin, AssignEnd, Copy, Answer, Crash
<1> QED BY <1>1, <1>2, <1>3, <1>4, <1>5, <1>6 DEF Next, vars

\* The constants of the kind.
LEMMA Sizes ==
    /\ nt \in Nat \ {0} /\ nrequests \in Nat \ {0}
    /\ Depths \subseteq Nat \ {0}
    /\ stype # "fbthrift" => Depths = {1}
    /\ stype = "simple" => Pool = {1}
    /\ IsFiniteSet(Pool) /\ IsFiniteSet(Threads) /\ Cardinality(Threads) = nt
    /\ Threads \subseteq Nat
<1>1. nt \in Nat \ {0} /\ nrequests \in Nat \ {0} /\ Depths \subseteq Nat \ {0}
  BY BenchAssumption DEF nt, nrequests, Depths
<1>2. workers \in Nat
  BY <1>1, BenchAssumption DEF workers
<1>3. stype = "simple" => Pool = {1}
  <2>1. stype = "simple" => workers = 1
    BY DEF workers
  <2> QED BY <2>1 DEF Pool
<1>4. IsFiniteSet(Pool)
  BY <1>2, FS_Interval DEF Pool
<1>5. IsFiniteSet(Threads) /\ Cardinality(Threads) = nt
  BY <1>1, FS_Interval DEF Threads
<1> QED BY <1>1, <1>3, <1>4, <1>5 DEF Depths, Threads

\* Threads are numbers, so None and Gone are not threads.
LEMMA NotThreads == None \notin Threads /\ Gone \notin Threads /\ None # Gone
BY BenchAssumption, Sizes

LEMMA BusyFinite ==
    ASSUME NEW t PROVE IsFiniteSet(busy(t)) /\ Cardinality(busy(t)) \in Nat
<1>1. busy(t) \subseteq Pool
  BY DEF busy
<1> QED BY <1>1, Sizes, FS_Subset, FS_CardinalityType

\* What a worker's step to p changes of h.
LEMMA HandlerMoves ==
    ASSUME TypeOK, UNCHANGED kind, NEW w, NEW p, w \in Pool, p \in Steps,
           h' = [h EXCEPT ![w] = p]
    PROVE  /\ h' \in [Pool -> Steps]
           /\ h'[w] = p
           /\ \A v \in Pool \ {w} : h'[v] = h[v]
BY SameKind DEF TypeOK

-----------------------------------------------------------------------------
(* What the threads have at the server.                                    *)

LEMMA PlacesInit == Init => PlacesInv
<1> SUFFICES ASSUME Init PROVE PlacesInv
  OBVIOUS
<1>1. TypeOK
  <2>1. clean \in [Pool -> BOOLEAN]
    BY Zenon DEF Init
  <2>2. op \in {"put", "get"}
    BY BenchAssumption DEF Init
  <2>3. size \in Nat /\ data \in Nat \cup {Torn}
    BY DEF Init, req_size
  <2>4. /\ thread \in [Threads -> Places] /\ h \in [Pool -> Steps]
        /\ reply \in [Pool -> [data_size : Nat, data : Nat]]
        /\ from \in [Pool -> Threads \cup {None, Gone}]
    BY DEF Init, Places, Steps, NoReply
  <2>5. /\ calls \in [Threads -> Nat] /\ out \in [Threads -> Nat]
        /\ tosend \in [Threads -> Nat] /\ tail \in [Threads -> Nat]
        /\ waiting \in [Threads -> Nat] /\ replies \in [Threads -> Nat]
    BY DEF Init
  <2>6. /\ stype \in Servers /\ main = "spawn" /\ round \in Nat \ {0}
        /\ depth \in Depths /\ left \in Nat /\ results \in Nat
    BY DEF Init
  <2>7. up \in BOOLEAN /\ overlapped \in BOOLEAN
    BY DEF Init
  <2> QED BY <2>1, <2>2, <2>3, <2>4, <2>5, <2>6, <2>7, Zenon DEF TypeOK
<1>2. CallsFit
  BY BenchAssumption DEF Init, CallsFit
<1>3. WindowFits
  BY NotThreads DEF Init, WindowFits
<1> QED BY <1>1, <1>2, <1>3 DEF PlacesInv

\* A thread is started, or the loop that starts them ends.
LEMMA SpawnPlaces == PlacesInv /\ Spawn => PlacesInv'
<1> SUFFICES ASSUME PlacesInv, Spawn PROVE PlacesInv'
  OBVIOUS
<1> USE DEF PlacesInv
<1>0. UNCHANGED kind
  BY DEF Spawn
<1>1. UNCHANGED <<round, depth, calls, out, tosend, waiting, left, replies, size,
                  data, h, from, reply, clean, up, results, tail, overlapped>>
  BY DEF Spawn, window, wire, cache, handlers, bench
<1>2. /\ main = "spawn" /\ main' \in {"spawn", "join"}
      /\ \/ thread' = thread
         \/ \E t \in Threads : /\ thread[t] = "none"
                               /\ thread' = [thread EXCEPT ![t] = "open"]
  BY DEF Spawn
<1>3. TypeOK'
  <2>1. thread' \in [Threads -> Places]
    BY <1>2 DEF TypeOK, Places
  <2> QED BY <1>0, <1>1, <1>2, <2>1, SameKind DEF TypeOK
<1>4. CallsFit'
  BY <1>0, <1>1, <1>2, SameKind DEF CallsFit, TypeOK
<1>5. WindowFits'
  <2>1. \A t \in Threads : busy(t)' = busy(t)
    BY <1>0, <1>1, SameKind DEF busy
  <2>2. \A t \in Threads : \/ thread'[t] = thread[t]
                           \/ thread[t] = "none" /\ thread'[t] = "open"
    BY <1>2 DEF TypeOK
  <2> QED BY <1>0, <1>1, <1>2, <2>1, <2>2, SameKind DEF WindowFits
<1> QED BY <1>3, <1>4, <1>5

\* At the end of a round no thread has anything at the server.
LEMMA JoinPlaces == PlacesInv /\ Join => PlacesInv'
<1> SUFFICES ASSUME PlacesInv, Join PROVE PlacesInv'
  OBVIOUS
<1> USE DEF PlacesInv
<1>0. UNCHANGED kind
  BY DEF Join, NextRound
<1>1. /\ UNCHANGED <<waiting, left, replies, size, data, h, from, reply, clean,
                     up, results, tail, overlapped>>
      /\ main = "join" /\ main' \in {"spawn", "done"}
      /\ \A t \in Threads : Ended(t)
      /\ \/ UNCHANGED <<round, depth, thread, calls, out, tosend>>
         \/ /\ round' = round + 1 /\ depth' \in Depths
            /\ thread' = [t \in Threads |-> "none"]
            /\ calls' = [t \in Threads |-> 0] /\ out' = [t \in Threads |-> 0]
            /\ tosend' = [t \in Threads |-> 0]
  BY DEF Join, NextRound, window, wire, cache, handlers, bench
<1>2. TypeOK'
  <2>1. thread' \in [Threads -> Places] /\ round' \in Nat \ {0} /\ depth' \in Depths
    BY <1>1 DEF TypeOK, Places
  <2>2. /\ calls' \in [Threads -> Nat] /\ out' \in [Threads -> Nat]
        /\ tosend' \in [Threads -> Nat]
    BY <1>1 DEF TypeOK
  <2> QED BY <1>0, <1>1, <2>1, <2>2, SameKind DEF TypeOK
<1>3. CallsFit'
  BY <1>0, <1>1, SameKind DEF CallsFit
<1>4. WindowFits'
  <2>1. \A t \in Threads : /\ thread[t] # "run" /\ waiting[t] = 0 /\ replies[t] = 0
                           /\ \A w \in Pool : from[w] # t
    BY <1>1 DEF WindowFits, Ended
  <2>2. CASE UNCHANGED <<round, depth, thread, calls, out, tosend>>
    BY <1>0, <1>1, <2>1, <2>2, SameKind DEF WindowFits
  <2>3. CASE /\ thread' = [t \in Threads |-> "none"]
             /\ calls' = [t \in Threads |-> 0] /\ out' = [t \in Threads |-> 0]
    BY <1>0, <1>1, <2>1, <2>3, SameKind DEF WindowFits
  <2> QED BY <1>1, <2>2, <2>3
<1> QED BY <1>2, <1>3, <1>4

\* A connection is opened.
LEMMA OpenPlaces == ASSUME PlacesInv, NEW t \in Threads, Open(t) PROVE PlacesInv'
<1> USE DEF PlacesInv
<1>0. UNCHANGED kind
  BY DEF Open
<1>1. /\ UNCHANGED <<main, round, depth, calls, out, waiting, left, replies, size,
                     data, h, from, reply, clean, up, results, tail, overlapped>>
      /\ thread[t] = "open"
      /\ tosend' = [tosend EXCEPT ![t] = depth]
  BY DEF Open, wire, cache, handlers, bench
<1>2. PICK p \in {"run", "failed"} :
          /\ thread' = [thread EXCEPT ![t] = p]
          /\ p = "failed" => ~up /\ stype # "fbthrift"
  BY DEF Open
<1>3. depth \in Nat \ {0}
  BY Sizes DEF TypeOK
<1>4. TypeOK'
  <2>1. thread' \in [Threads -> Places] /\ tosend' \in [Threads -> Nat]
    BY <1>1, <1>2, <1>3 DEF TypeOK, Places
  <2> QED BY <1>0, <1>1, <2>1, SameKind DEF TypeOK
<1>5. CallsFit'
  BY <1>0, <1>1, <1>2, SameKind DEF CallsFit, TypeOK
<1>6. WindowFits'
  <2>1. \A u \in Threads : busy(u)' = busy(u)
    BY <1>0, <1>1, SameKind DEF busy
  <2>2. \A u \in Threads \ {t} : thread'[u] = thread[u] /\ tosend'[u] = tosend[u]
    BY <1>1, <1>2 DEF TypeOK
  <2>3. thread'[t] = p /\ tosend'[t] = depth
    BY <1>1, <1>2 DEF TypeOK
  <2>4. /\ calls[t] = 0 /\ out[t] = 0 /\ calls[t] < nrequests
        /\ waiting[t] = 0 /\ replies[t] = 0 /\ \A w \in Pool : from[w] # t
    BY <1>1, Sizes DEF WindowFits
  <2>5. Cardinality(busy(t)) = 0
    BY <2>4, FS_EmptySet DEF busy
  <2>6. main # "crashed"
    BY <1>1 DEF WindowFits
  <2> QED BY <1>0, <1>1, <1>2, <1>3, <2>1, <2>2, <2>3, <2>4, <2>5, <2>6, SameKind
          DEF WindowFits
<1> QED BY <1>4, <1>5, <1>6

\* A call is made: one more is out, and at the server if that is up.
LEMMA CallPlaces == ASSUME PlacesInv, NEW t \in Threads, Call(t) PROVE PlacesInv'
<1> USE DEF PlacesInv
<1>0. UNCHANGED kind
  BY DEF Call
<1>1. /\ UNCHANGED <<main, round, depth, thread, calls, left, replies, size, data,
                     h, from, reply, clean, up, results, tail, overlapped>>
      /\ thread[t] = "run" /\ calls[t] < nrequests /\ tosend[t] > 0
      /\ tosend' = [tosend EXCEPT ![t] = @ - 1]
      /\ out' = [out EXCEPT ![t] = @ + 1]
      /\ waiting' = [waiting EXCEPT ![t] = IF up THEN @ + 1 ELSE @]
  BY DEF Call, cache, handlers, bench
<1>2. /\ tosend' \in [Threads -> Nat] /\ tosend'[t] = tosend[t] - 1
      /\ \A u \in Threads \ {t} : tosend'[u] = tosend[u]
  BY <1>1 DEF TypeOK
<1>3. /\ out' \in [Threads -> Nat] /\ out'[t] = out[t] + 1
      /\ \A u \in Threads \ {t} : out'[u] = out[u]
  BY <1>1 DEF TypeOK
<1>4. /\ waiting' \in [Threads -> Nat]
      /\ waiting'[t] \in {waiting[t], waiting[t] + 1}
      /\ ~up => waiting'[t] = waiting[t]
      /\ \A u \in Threads \ {t} : waiting'[u] = waiting[u]
  BY <1>1 DEF TypeOK
<1>5. TypeOK'
  BY <1>0, <1>1, <1>2, <1>3, <1>4, SameKind DEF TypeOK
<1>6. CallsFit'
  BY <1>0, <1>1, <1>4, SameKind DEF CallsFit, TypeOK
<1>7. WindowFits'
  <2>1. \A u \in Threads : busy(u)' = busy(u) /\ Cardinality(busy(u)) \in Nat
    BY <1>0, <1>1, SameKind, BusyFinite DEF busy
  <2>2. /\ tosend \in [Threads -> Nat] /\ out \in [Threads -> Nat]
        /\ waiting \in [Threads -> Nat] /\ replies \in [Threads -> Nat]
        /\ depth \in Nat /\ calls \in [Threads -> Nat] /\ nrequests \in Nat
    BY Sizes DEF TypeOK
  <2> QED BY <1>0, <1>1, <1>2, <1>3, <1>4, <2>1, <2>2, SameKind DEF WindowFits
<1> QED BY <1>5, <1>6, <1>7

\* After an answer, what is sent still fits in the window.
LEMMA RefillFits ==
    ASSUME TypeOK, NEW n \in Nat, NEW o \in Nat, o < depth
    PROVE  /\ Refill(n, o) \in Nat /\ o + Refill(n, o) <= depth
<1>1. depth \in Nat /\ nrequests \in Nat
  BY Sizes DEF TypeOK
<1> QED BY <1>1 DEF Refill

\* Answers are read, at most as many as calls are out.
LEMMA LoopOncePlaces ==
    ASSUME PlacesInv, NEW t \in Threads, LoopOnce(t) PROVE PlacesInv'
<1> USE DEF PlacesInv
<1>0. UNCHANGED kind
  BY DEF LoopOnce
<1>1. /\ UNCHANGED <<main, round, depth, thread, waiting, left, size, data,
                     h, from, reply, clean, up, results, tail, overlapped>>
      /\ thread[t] = "run"
  BY DEF LoopOnce, cache, handlers, bench
<1>2. PICK n \in 1 .. replies[t] :
           /\ replies' = [replies EXCEPT ![t] = @ - n]
           /\ calls' = [calls EXCEPT ![t] = @ + n]
           /\ out' = [out EXCEPT ![t] = @ - n]
           /\ tosend' = [tosend EXCEPT ![t] = Refill(calls[t] + n, out[t] - n)]
  BY DEF LoopOnce
<1>3. /\ tosend \in [Threads -> Nat] /\ out \in [Threads -> Nat]
      /\ waiting \in [Threads -> Nat] /\ replies \in [Threads -> Nat]
      /\ depth \in Nat /\ calls \in [Threads -> Nat] /\ nrequests \in Nat
  BY Sizes DEF TypeOK
<1>4. /\ waiting[t] + replies[t] + Cardinality(busy(t)) <= out[t]
      /\ out[t] + tosend[t] <= depth
  BY <1>1 DEF WindowFits
<1>5. Cardinality(busy(t)) \in Nat
  BY BusyFinite
<1>6. /\ n \in Nat /\ n >= 1 /\ n <= replies[t] /\ n <= out[t]
      /\ out[t] - n \in Nat /\ out[t] - n < depth /\ replies[t] - n \in Nat
      /\ calls[t] + n \in Nat
      /\ waiting[t] + (replies[t] - n) + Cardinality(busy(t)) <= out[t] - n
  BY <1>3, <1>4, <1>5
<1>7. DEFINE r == Refill(calls[t] + n, out[t] - n)
<1>8. r \in Nat /\ (out[t] - n) + r <= depth
  BY <1>6, RefillFits
<1> HIDE DEF r
<1>9. /\ replies' \in [Threads -> Nat] /\ replies'[t] = replies[t] - n
      /\ \A u \in Threads \ {t} : replies'[u] = replies[u]
  BY <1>2, <1>3, <1>6
<1>10. /\ calls' \in [Threads -> Nat]
       /\ \A u \in Threads \ {t} : calls'[u] = calls[u]
  BY <1>2, <1>3, <1>6
<1>11. /\ out' \in [Threads -> Nat] /\ out'[t] = out[t] - n
       /\ \A u \in Threads \ {t} : out'[u] = out[u]
  BY <1>2, <1>3, <1>6
<1>12. /\ tosend' \in [Threads -> Nat] /\ tosend'[t] = r
       /\ \A u \in Threads \ {t} : tosend'[u] = tosend[u]
  BY <1>2, <1>3, <1>8 DEF r
<1>13. TypeOK'
  BY <1>0, <1>1, <1>9, <1>10, <1>11, <1>12, SameKind DEF TypeOK
<1>14. CallsFit'
  BY <1>0, <1>1, SameKind DEF CallsFit
<1>15. WindowFits'
  <2>1. \A u \in Threads : busy(u)' = busy(u)
    BY <1>0, <1>1, SameKind DEF busy
  <2> QED BY <1>0, <1>1, <1>3, <1>6, <1>8, <1>9, <1>10, <1>11, <1>12, <2>1, SameKind
          DEF WindowFits
<1> QED BY <1>13, <1>14, <1>15

\* A connection is closed: nothing of t is left but calls without a thread.
LEMMA DisconnectFits ==
    ASSUME TypeOK, UNCHANGED kind, NEW t \in Threads, Disconnect(t), UNCHANGED h
    PROVE  /\ from' \in [Pool -> Threads \cup {None, Gone}]
           /\ waiting' \in [Threads -> Nat] /\ replies' \in [Threads -> Nat]
           /\ left' \in Nat /\ (waiting[t] = 0 => left' = left)
           /\ waiting'[t] = 0 /\ replies'[t] = 0
           /\ \A w \in Pool : from'[w] # t
           /\ \A w \in Pool : h[w] # "idle" /\ from[w] # None => from'[w] # None
           /\ \A w \in Pool : from[w] = None => from'[w] = None
           /\ \A w \in Pool : from[w] # Gone /\ w \notin busy(t) => from'[w] # Gone
           /\ \A u \in Threads \ {t} :
                 /\ waiting'[u] = waiting[u] /\ replies'[u] = replies[u]
                 /\ busy(u)' = busy(u)
                 /\ \A w \in Pool : from'[w] = u => from[w] = u
<1>1. /\ waiting \in [Threads -> Nat] /\ replies \in [Threads -> Nat] /\ left \in Nat
      /\ from \in [Pool -> Threads \cup {None, Gone}]
  BY DEF TypeOK
<1>2. /\ waiting' \in [Threads -> Nat] /\ replies' \in [Threads -> Nat]
      /\ left' \in Nat /\ (waiting[t] = 0 => left' = left)
      /\ waiting'[t] = 0 /\ replies'[t] = 0
      /\ \A u \in Threads \ {t} : waiting'[u] = waiting[u] /\ replies'[u] = replies[u]
  BY <1>1 DEF Disconnect
<1>3. \A w \in Pool : from'[w] = IF from[w] # t THEN from[w]
                                 ELSE IF h[w] = "idle" THEN None ELSE Gone
  BY DEF Disconnect
<1>4. from' \in [Pool -> Threads \cup {None, Gone}]
  BY <1>1 DEF Disconnect
<1>5. \A w \in Pool : from[w] # Gone /\ w \notin busy(t) => from'[w] # Gone
  BY <1>3, NotThreads DEF busy
<1>6. \A u \in Threads \ {t} : \A w \in Pool : from'[w] = u <=> from[w] = u
  BY <1>3, NotThreads
<1>7. \A u \in Threads \ {t} : busy(u)' = busy(u)
  BY <1>6, SameKind DEF busy
<1> QED BY <1>2, <1>3, <1>4, <1>5, <1>6, <1>7, NotThreads

\* A call fails, and with it its thread.
LEMMA CallFailsPlaces ==
    ASSUME PlacesInv, NEW t \in Threads, CallFails(t) PROVE PlacesInv'
<1> USE DEF PlacesInv
<1>0. UNCHANGED kind
  BY DEF CallFails
<1>1. /\ UNCHANGED <<main, round, depth, calls, out, tosend, size, data, h, reply,
                     clean, up, results, tail, overlapped>>
      /\ thread[t] = "run" /\ ~up /\ stype # "fbthrift"
      /\ thread' = [thread EXCEPT ![t] = "failed"]
  BY DEF CallFails, window, cache, bench
<1>2. Disconnect(t)
  BY DEF CallFails
<1>3. /\ thread' \in [Threads -> Places] /\ thread'[t] = "failed"
      /\ \A u \in Threads \ {t} : thread'[u] = thread[u]
  BY <1>1 DEF TypeOK, Places
<1>4. TypeOK'
  BY <1>0, <1>1, <1>2, <1>3, DisconnectFits, SameKind DEF TypeOK
<1>5. CallsFit'
  <2>1. /\ \A w \in Pool : from[w] = None /\ h[w] = "idle"
        /\ \A u \in Threads : waiting[u] = 0
    BY <1>1 DEF CallsFit
  <2>2. \A w \in Pool : from'[w] = None
    BY <1>0, <1>1, <1>2, <2>1, DisconnectFits
  <2>3. left' = left /\ \A u \in Threads : waiting'[u] = 0
    BY <1>0, <1>1, <1>2, <2>1, DisconnectFits
  <2> QED BY <1>0, <1>1, <1>3, <2>1, <2>2, <2>3, SameKind, NotThreads DEF CallsFit
<1>6. WindowFits'
  <2>1. \A u \in Threads \ {t} :
           /\ waiting'[u] = waiting[u] /\ replies'[u] = replies[u]
           /\ busy(u)' = busy(u)
           /\ \A w \in Pool : from'[w] = u => from[w] = u
    BY <1>0, <1>1, <1>2, DisconnectFits
  <2>2. /\ waiting'[t] = 0 /\ replies'[t] = 0 /\ \A w \in Pool : from'[w] # t
    BY <1>0, <1>1, <1>2, DisconnectFits
  <2> QED BY <1>0, <1>1, <1>3, <2>1, <2>2, SameKind DEF WindowFits
<1> QED BY <1>4, <1>5, <1>6

(***************************************************************************)
(* A connection is closed.  An Apache client has no call out by then: its  *)
(* window is one.                                                          *)
(***************************************************************************)
LEMMA ClosePlaces == ASSUME PlacesInv, NEW t \in Threads, Close(t) PROVE PlacesInv'
<1> USE DEF PlacesInv
<1>0. UNCHANGED kind
  BY DEF Close
<1>1. /\ UNCHANGED <<main, round, depth, calls, out, tosend, size, data, h, reply,
                     clean, up, results>>
      /\ thread[t] = "run" /\ calls[t] >= nrequests
  BY DEF Close, window, cache
<1>2. Disconnect(t)
  BY DEF Close
<1>3. PICK p \in {"push", "ended"} :
          /\ thread' = [thread EXCEPT ![t] = p]
          /\ p = "push" => stype = "fbthrift"
  BY DEF Close
<1>4. /\ thread' \in [Threads -> Places] /\ thread'[t] = p
      /\ \A u \in Threads \ {t} : thread'[u] = thread[u]
  BY <1>3 DEF TypeOK, Places
<1>5. tail' \in [Threads -> Nat] /\ overlapped' \in BOOLEAN
  <2>1. tail' \in [Threads -> Nat]
    BY DEF Close, TypeOK
  <2>2. overlapped' \in BOOLEAN
    <3>1. overlapped \in BOOLEAN
      BY DEF TypeOK
    <3> QED BY <3>1 DEF Close
  <2> QED BY <2>1, <2>2
<1>6. TypeOK'
  BY <1>0, <1>1, <1>2, <1>4, <1>5, DisconnectFits, SameKind DEF TypeOK
<1>7. /\ out[t] < depth /\ main # "crashed"
      /\ waiting[t] + replies[t] + Cardinality(busy(t)) <= out[t]
  BY <1>1 DEF WindowFits
<1>8. stype # "fbthrift" => waiting[t] = 0 /\ busy(t) = {}
  <2> SUFFICES ASSUME stype # "fbthrift" PROVE waiting[t] = 0 /\ busy(t) = {}
    OBVIOUS
  <2>1. depth = 1
    BY Sizes DEF TypeOK
  <2>2. /\ waiting[t] \in Nat /\ replies[t] \in Nat /\ out[t] \in Nat
        /\ Cardinality(busy(t)) \in Nat
    BY BusyFinite DEF TypeOK
  <2>3. waiting[t] = 0 /\ Cardinality(busy(t)) = 0
    BY <1>7, <2>1, <2>2
  <2> QED BY <2>3, BusyFinite, FS_EmptySet
<1>9. CallsFit'
  <2>1. ASSUME NEW w \in Pool, h[w] # "idle" PROVE from'[w] # None
    <3>1. from[w] # None
      BY <2>1 DEF CallsFit
    <3> QED BY <1>0, <1>1, <1>2, <2>1, <3>1, DisconnectFits
  <2>2. ASSUME ~up
        PROVE  /\ \A w \in Pool : from'[w] = None
               /\ \A u \in Threads : waiting'[u] = 0
    <3>1. /\ \A w \in Pool : from[w] = None
          /\ \A u \in Threads : waiting[u] = 0
      BY <2>2 DEF CallsFit
    <3> QED BY <1>0, <1>1, <1>2, <3>1, DisconnectFits
  <2>3. ASSUME stype # "fbthrift"
        PROVE  /\ left' = 0 /\ main # "crashed"
               /\ \A w \in Pool : from'[w] # Gone
               /\ \A u \in Threads : thread'[u] # "push"
    <3>1. /\ left = 0 /\ \A w \in Pool : from[w] # Gone
          /\ \A u \in Threads : thread[u] # "push"
      BY <2>3 DEF CallsFit
    <3>2. left' = 0 /\ \A w \in Pool : from'[w] # Gone
      BY <1>0, <1>1, <1>2, <1>8, <2>3, <3>1, DisconnectFits
    <3> QED BY <1>3, <1>4, <1>7, <2>3, <3>1, <3>2
  <2> QED BY <1>0, <1>1, <2>1, <2>2, <2>3, SameKind DEF CallsFit
<1>10. WindowFits'
  <2>1. \A u \in Threads \ {t} :
           /\ waiting'[u] = waiting[u] /\ replies'[u] = replies[u]
           /\ busy(u)' = busy(u)
           /\ \A w \in Pool : from'[w] = u => from[w] = u
    BY <1>0, <1>1, <1>2, DisconnectFits
  <2>2. /\ waiting'[t] = 0 /\ replies'[t] = 0 /\ \A w \in Pool : from'[w] # t
    BY <1>0, <1>1, <1>2, DisconnectFits
  <2> QED BY <1>0, <1>1, <1>4, <1>7, <2>1, <2>2, SameKind DEF WindowFits
<1> QED BY <1>6, <1>9, <1>10

\* A result is stored, or two at once end the client.
LEMMA PushPlaces == ASSUME PlacesInv, NEW t \in Threads, PushWrite(t) PROVE PlacesInv'
<1> USE DEF PlacesInv
<1>0. UNCHANGED kind
  BY DEF PushWrite
<1>1. /\ UNCHANGED <<round, depth, calls, out, tosend, waiting, left, replies, size,
                     data, h, from, reply, clean, up>>
      /\ thread[t] = "push"
  BY DEF PushWrite, window, wire, cache, handlers
<1>2. stype = "fbthrift"
  BY <1>1 DEF CallsFit
<1>3. \A u \in Threads : busy(u)' = busy(u)
  BY <1>0, <1>1, SameKind DEF busy
<1>4. CASE /\ thread' = [thread EXCEPT ![t] = "ended"]
           /\ results' \in {tail[t] + 1, results + 1}
           /\ tail' = [tail EXCEPT ![t] = 0]
           /\ UNCHANGED <<main, overlapped>>
  <2>1. /\ thread' \in [Threads -> Places] /\ thread'[t] = "ended"
        /\ \A u \in Threads \ {t} : thread'[u] = thread[u]
    BY <1>4 DEF TypeOK, Places
  <2>2. results' \in Nat /\ tail' \in [Threads -> Nat]
    BY <1>4 DEF TypeOK
  <2>3. TypeOK'
    BY <1>0, <1>1, <1>4, <2>1, <2>2, SameKind DEF TypeOK
  <2>4. CallsFit'
    BY <1>0, <1>1, <1>2, SameKind DEF CallsFit
  <2>5. main # "crashed"
    BY <1>1 DEF WindowFits
  <2>6. WindowFits'
    BY <1>0, <1>1, <1>3, <1>4, <2>1, <2>5, SameKind DEF WindowFits
  <2> QED BY <2>3, <2>4, <2>6
<1>5. CASE /\ main' = "crashed" /\ thread' = [u \in Threads |-> "failed"]
           /\ UNCHANGED <<results, tail, overlapped>>
  <2>1. TypeOK'
    BY <1>0, <1>1, <1>5, SameKind DEF TypeOK, Places
  <2>2. CallsFit'
    BY <1>0, <1>1, <1>2, SameKind DEF CallsFit
  <2>3. WindowFits'
    BY <1>0, <1>5, SameKind DEF WindowFits
  <2> QED BY <2>1, <2>2, <2>3
<1> QED BY <1>4, <1>5 DEF PushWrite, bench

\* A worker takes a connection.
LEMMA AcceptPlaces == ASSUME PlacesInv, NEW t \in Threads, Accept(t) PROVE PlacesInv'
<1> USE DEF PlacesInv
<1>0. UNCHANGED kind
  BY DEF Accept
<1>1. /\ UNCHANGED <<main, round, depth, thread, calls, out, tosend, waiting, left,
                     replies, size, data, h, reply, clean, up, results, tail,
                     overlapped>>
      /\ up /\ thread[t] = "run"
  BY DEF Accept, window, wire, cache, bench
<1>2. PICK w \in Pool : from[w] = None /\ from' = [from EXCEPT ![w] = t]
  BY DEF Accept, Free
<1>3. /\ from' \in [Pool -> Threads \cup {None, Gone}]
      /\ from'[w] = t /\ \A v \in Pool \ {w} : from'[v] = from[v]
  BY <1>2 DEF TypeOK
<1>4. h[w] = "idle"
  BY <1>2 DEF CallsFit
<1>5. TypeOK'
  BY <1>0, <1>1, <1>3, SameKind DEF TypeOK
<1>6. CallsFit'
  BY <1>0, <1>1, <1>3, SameKind, NotThreads DEF CallsFit
<1>7. WindowFits'
  <2>1. \A u \in Threads : busy(u)' = busy(u)
    BY <1>0, <1>1, <1>3, <1>4, SameKind DEF busy
  <2> QED BY <1>0, <1>1, <1>3, <2>1, SameKind DEF WindowFits
<1> QED BY <1>5, <1>6, <1>7

\* A worker enters a handler: what it changes.
LEMMA EnterMoves ==
    ASSUME TypeOK, NEW w \in Pool, Enter(w)
    PROVE  /\ UNCHANGED <<kind, main, round, depth, thread, calls, out, tosend,
                          replies, size, data, up, results, tail, overlapped>>
           /\ h' \in [Pool -> Steps]
           /\ h'[w] = IF op = "put" THEN "answer" ELSE "test"
           /\ \A v \in Pool \ {w} : h'[v] = h[v]
           /\ reply' \in [Pool -> [data_size : Nat, data : Nat]]
           /\ IF op = "put" THEN reply'[w] = NoReply
                            ELSE reply'[w].data_size = req_size
           /\ \A v \in Pool \ {w} : reply'[v] = reply[v]
           /\ clean' \in [Pool -> BOOLEAN]
           /\ clean'[w] <=> Right
           /\ \A v \in Pool \ {w} : clean'[v] <=> clean[v]
<1>1. UNCHANGED <<kind, main, round, depth, thread, calls, out, tosend, replies,
                  size, data, up, results, tail, overlapped>>
  BY DEF Enter, window, cache, bench
<1>2. /\ req_size \in Nat
      /\ key_put = NoReply /\ NoReply \in [data_size : Nat, data : Nat]
      /\ copy_benchmark_data \in [data_size : Nat, data : Nat]
      /\ copy_benchmark_data.data_size = req_size
  BY DEF key_put, NoReply, copy_benchmark_data, TypeOK, req_size
<1>3. PICK p \in Steps, r \in [data_size : Nat, data : Nat] :
          /\ h' = [h EXCEPT ![w] = p]
          /\ reply' = [reply EXCEPT ![w] = r]
          /\ IF op = "put" THEN p = "answer" /\ r = NoReply
             ELSE p = "test" /\ r.data_size = req_size
  BY <1>2 DEF Enter, Steps
<1>4. /\ h' \in [Pool -> Steps] /\ h'[w] = p
      /\ \A v \in Pool \ {w} : h'[v] = h[v]
  BY <1>3 DEF TypeOK
<1>5. /\ reply' \in [Pool -> [data_size : Nat, data : Nat]] /\ reply'[w] = r
      /\ \A v \in Pool \ {w} : reply'[v] = reply[v]
  BY <1>3 DEF TypeOK
<1>6. /\ clean' \in [Pool -> BOOLEAN]
      /\ clean'[w] <=> Right
      /\ \A v \in Pool \ {w} : clean'[v] <=> clean[v]
  <2>1. Right \in BOOLEAN
    BY DEF Right
  <2>2. clean \in [Pool -> BOOLEAN] /\ clean' = [clean EXCEPT ![w] = Right]
    BY DEF TypeOK, Enter
  <2> QED BY <2>1, <2>2, Zenon
<1> QED BY <1>1, <1>3, <1>4, <1>5, <1>6

\* A call goes from the connection to a worker.
LEMMA HandlePlaces == ASSUME PlacesInv, NEW t \in Threads, Handle(t) PROVE PlacesInv'
<1> USE DEF PlacesInv
<1>1. /\ up /\ waiting[t] > 0 /\ left' = left
      /\ waiting' = [waiting EXCEPT ![t] = @ - 1]
  BY DEF Handle
<1>2. PICK w \in Pool : /\ h[w] = "idle" /\ from[w] \in {None, t}
                        /\ from' = [from EXCEPT ![w] = t]
                        /\ Enter(w)
  BY DEF Handle, Free
<1>3. /\ UNCHANGED <<kind, main, round, depth, thread, calls, out, tosend, replies,
                     size, data, up, results, tail, overlapped>>
      /\ h' \in [Pool -> Steps] /\ h'[w] \in {"answer", "test"}
      /\ \A v \in Pool \ {w} : h'[v] = h[v]
      /\ reply' \in [Pool -> [data_size : Nat, data : Nat]]
      /\ clean' \in [Pool -> BOOLEAN]
  BY <1>2, EnterMoves
<1>4. /\ from' \in [Pool -> Threads \cup {None, Gone}]
      /\ from'[w] = t /\ \A v \in Pool \ {w} : from'[v] = from[v]
  BY <1>2 DEF TypeOK
<1>5. /\ waiting' \in [Threads -> Nat] /\ waiting'[t] = waiting[t] - 1
      /\ \A u \in Threads \ {t} : waiting'[u] = waiting[u]
  BY <1>1 DEF TypeOK
<1>6. TypeOK'
  BY <1>1, <1>3, <1>4, <1>5, SameKind DEF TypeOK
<1>7. CallsFit'
  BY <1>1, <1>3, <1>4, SameKind, NotThreads DEF CallsFit
<1>8. WindowFits'
  <2>1. \A u \in Threads \ {t} : busy(u)' = busy(u)
    BY <1>2, <1>3, <1>4, SameKind, NotThreads DEF busy
  <2>2. busy(t)' = busy(t) \cup {w} /\ w \notin busy(t)
    BY <1>2, <1>3, <1>4, SameKind DEF busy
  <2>3. /\ Cardinality(busy(t)') = Cardinality(busy(t)) + 1
        /\ Cardinality(busy(t)) \in Nat
    BY <2>2, BusyFinite, FS_AddElement
  <2>4. main # "crashed" => thread[t] = "run"
    BY <1>1 DEF WindowFits
  <2>5. waiting[t] \in Nat /\ replies[t] \in Nat /\ out[t] \in Nat
    BY DEF TypeOK
  <2>6. \A u \in Threads \ {t} : \A v \in Pool : from'[v] = u => from[v] = u
    BY <1>4
  <2>7. thread[t] = "run" =>
           waiting'[t] + replies[t] + Cardinality(busy(t)') <= out[t]
    BY <1>5, <2>3, <2>5 DEF WindowFits
  <2> QED BY <1>3, <1>5, <2>1, <2>4, <2>6, <2>7, SameKind DEF WindowFits
<1> QED BY <1>6, <1>7, <1>8

\* A call that nobody waits for goes to a worker.
LEMMA HandleLeftPlaces == PlacesInv /\ HandleLeft => PlacesInv'
<1> SUFFICES ASSUME PlacesInv, HandleLeft PROVE PlacesInv'
  OBVIOUS
<1> USE DEF PlacesInv
<1>1. up /\ left > 0 /\ left' = left - 1 /\ waiting' = waiting
  BY DEF HandleLeft
<1>2. PICK w \in Pool : /\ h[w] = "idle" /\ from[w] = None
                        /\ from' = [from EXCEPT ![w] = Gone]
                        /\ Enter(w)
  BY DEF HandleLeft, Free
<1>3. /\ UNCHANGED <<kind, main, round, depth, thread, calls, out, tosend, replies,
                     size, data, up, results, tail, overlapped>>
      /\ h' \in [Pool -> Steps] /\ h'[w] \in {"answer", "test"}
      /\ \A v \in Pool \ {w} : h'[v] = h[v]
      /\ reply' \in [Pool -> [data_size : Nat, data : Nat]]
      /\ clean' \in [Pool -> BOOLEAN]
  BY <1>2, EnterMoves
<1>4. /\ from' \in [Pool -> Threads \cup {None, Gone}]
      /\ from'[w] = Gone /\ \A v \in Pool \ {w} : from'[v] = from[v]
  BY <1>2 DEF TypeOK
<1>5. left \in Nat /\ left' \in Nat
  BY <1>1 DEF TypeOK
<1>6. TypeOK'
  BY <1>1, <1>3, <1>4, <1>5, SameKind DEF TypeOK
<1>7. stype = "fbthrift"
  BY <1>1, <1>5 DEF CallsFit
<1>8. CallsFit'
  BY <1>1, <1>3, <1>4, <1>7, SameKind, NotThreads DEF CallsFit
<1>9. WindowFits'
  <2>1. \A u \in Threads : busy(u)' = busy(u)
    BY <1>2, <1>3, <1>4, SameKind, NotThreads DEF busy
  <2>2. \A u \in Threads : \A v \in Pool : from'[v] = u => from[v] = u
    BY <1>4, NotThreads
  <2> QED BY <1>1, <1>3, <2>1, <2>2, SameKind DEF WindowFits
<1> QED BY <1>6, <1>8, <1>9

\* A handler goes on.
LEMMA MovePlaces ==
    ASSUME PlacesInv, NEW w \in Pool, NEW p \in Steps \ {"idle"},
           h[w] # "idle", h' = [h EXCEPT ![w] = p],
           UNCHANGED <<kind, main, round, depth, thread, window, wire, from, clean,
                       up, bench>>,
           size' \in Nat, data' \in Nat \cup {Torn},
           reply' \in [Pool -> [data_size : Nat, data : Nat]]
    PROVE  PlacesInv'
<1> USE DEF PlacesInv
<1>1. UNCHANGED <<main, round, depth, thread, calls, out, tosend, waiting, left,
                  replies, from, clean, up, results, tail, overlapped>>
  BY DEF window, wire, bench
<1>2. /\ h' \in [Pool -> Steps] /\ h'[w] = p
      /\ \A v \in Pool \ {w} : h'[v] = h[v]
  BY HandlerMoves
<1>3. TypeOK'
  BY <1>1, <1>2, SameKind DEF TypeOK
<1>4. CallsFit'
  BY <1>1, <1>2, SameKind DEF CallsFit
<1>5. WindowFits'
  <2>1. \A u \in Threads : busy(u)' = busy(u)
    BY <1>1, <1>2, SameKind DEF busy
  <2> QED BY <1>1, <2>1, SameKind DEF WindowFits
<1> QED BY <1>3, <1>4, <1>5

\* The server goes down.
LEMMA CrashPlaces == PlacesInv /\ Crash => PlacesInv'
<1> SUFFICES ASSUME PlacesInv, Crash PROVE PlacesInv'
  OBVIOUS
<1> USE DEF PlacesInv
<1>1. /\ UNCHANGED <<kind, main, round, depth, thread, calls, out, tosend, replies,
                     size, data, results, tail, overlapped>>
      /\ ~up' /\ left' = 0
      /\ h' = [w \in Pool |-> "idle"] /\ from' = [w \in Pool |-> None]
      /\ reply' = [w \in Pool |-> NoReply] /\ waiting' = [t \in Threads |-> 0]
  BY DEF Crash, window, cache, bench
<1>2. clean' \in [Pool -> BOOLEAN] /\ up' \in BOOLEAN
  BY Zenon DEF Crash
<1>3. TypeOK'
  <2>1. /\ h' \in [Pool -> Steps]
        /\ from' \in [Pool -> Threads \cup {None, Gone}]
        /\ reply' \in [Pool -> [data_size : Nat, data : Nat]]
        /\ waiting' \in [Threads -> Nat] /\ left' \in Nat
    BY <1>1 DEF Steps, NoReply
  <2> QED BY <1>1, <1>2, <2>1, SameKind DEF TypeOK
<1>4. CallsFit'
  BY <1>1, SameKind, NotThreads DEF CallsFit
<1>5. WindowFits'
  <2>1. \A t \in Threads : busy(t)' = {} /\ Cardinality(busy(t)') = 0
    BY <1>1, SameKind, FS_EmptySet DEF busy
  <2>2. /\ waiting \in [Threads -> Nat] /\ replies \in [Threads -> Nat]
        /\ out \in [Threads -> Nat]
        /\ \A t \in Threads : Cardinality(busy(t)) \in Nat
    BY BusyFinite DEF TypeOK
  <2>3. \A t \in Threads : waiting'[t] = 0 /\ \A w \in Pool : from'[w] # t
    BY <1>1, NotThreads
  <2>4. \A t \in Threads : thread[t] = "failed" =>
            main = "crashed" \/ stype # "fbthrift"
    BY DEF WindowFits
  <2>5. \A t \in Threads : thread[t] = "run" =>
            waiting'[t] + replies[t] + Cardinality(busy(t)') <= out[t]
    BY <2>1, <2>2, <2>3 DEF WindowFits
  <2> QED BY <1>1, <2>3, <2>4, <2>5, SameKind DEF WindowFits
<1> QED BY <1>3, <1>4, <1>5

\* A call leaves its worker, as an answer if its connection is open.
LEMMA AnswerPlaces == ASSUME PlacesInv, NEW w \in Pool, Answer(w) PROVE PlacesInv'
<1> USE DEF PlacesInv
<1>0. UNCHANGED kind
  BY DEF Answer
<1>1. /\ UNCHANGED <<main, round, depth, thread, calls, out, tosend, waiting, left,
                     size, data, up, results, tail, overlapped>>
      /\ up /\ h[w] = "answer"
      /\ h' = [h EXCEPT ![w] = "idle"]
      /\ reply' = [reply EXCEPT ![w] = NoReply]
      /\ clean' = [clean EXCEPT ![w] = FALSE]
      /\ replies' = [t \in Threads |-> IF from[w] = t THEN replies[t] + 1
                                                      ELSE replies[t]]
  BY DEF Answer, window, cache, bench
<1>2. PICK f \in {None, from[w]} :
          /\ from' = [from EXCEPT ![w] = f]
          /\ f = None \/ from[w] # Gone
  BY DEF Answer
<1>3. /\ h' \in [Pool -> Steps] /\ h'[w] = "idle"
      /\ \A v \in Pool \ {w} : h'[v] = h[v]
  BY <1>0, <1>1, HandlerMoves DEF Steps
<1>4. /\ from' \in [Pool -> Threads \cup {None, Gone}]
      /\ from'[w] = f /\ \A v \in Pool \ {w} : from'[v] = from[v]
  BY <1>2 DEF TypeOK
<1>5. reply' \in [Pool -> [data_size : Nat, data : Nat]]
  BY <1>1 DEF TypeOK, NoReply
<1>6. clean' \in [Pool -> BOOLEAN]
  <2>1. clean \in [Pool -> BOOLEAN]
    BY DEF TypeOK
  <2> QED BY <1>1, <2>1, Zenon
<1>7. /\ replies' \in [Threads -> Nat] /\ replies \in [Threads -> Nat]
      /\ \A t \in Threads : replies'[t] = IF from[w] = t THEN replies[t] + 1
                                                        ELSE replies[t]
  BY <1>1 DEF TypeOK
<1>8. TypeOK'
  BY <1>0, <1>1, <1>3, <1>4, <1>5, <1>6, <1>7, SameKind DEF TypeOK
<1>9. CallsFit'
  BY <1>0, <1>1, <1>2, <1>3, <1>4, SameKind, NotThreads DEF CallsFit
<1>10. WindowFits'
  <2>1. \A t \in Threads : from[w] # t => busy(t)' = busy(t)
    BY <1>0, <1>2, <1>3, <1>4, SameKind, NotThreads DEF busy
  <2>2. ASSUME NEW t \in Threads, from[w] = t
        PROVE  Cardinality(busy(t)') = Cardinality(busy(t)) - 1
    <3>1. w \in busy(t) /\ busy(t)' = busy(t) \ {w}
      BY <1>0, <1>1, <1>3, <1>4, <2>2, SameKind DEF busy
    <3> QED BY <3>1, BusyFinite, FS_RemoveElement
  <2>3. \A t \in Threads : \A v \in Pool : from'[v] = t => from[v] = t
    BY <1>2, <1>4, NotThreads
  <2>4. /\ waiting \in [Threads -> Nat] /\ out \in [Threads -> Nat]
        /\ \A t \in Threads : Cardinality(busy(t)) \in Nat
    BY BusyFinite DEF TypeOK
  <2>5. ASSUME NEW t \in Threads, thread[t] = "run"
        PROVE  waiting[t] + replies'[t] + Cardinality(busy(t)') <= out[t]
    <3>1. waiting[t] + replies[t] + Cardinality(busy(t)) <= out[t]
      BY <2>5 DEF WindowFits
    <3>2. CASE from[w] = t
      BY <3>1, <3>2, <1>7, <2>2, <2>4
    <3>3. CASE from[w] # t
      BY <3>1, <3>3, <1>7, <2>1
    <3> QED BY <3>2, <3>3
  <2>6. \A t \in Threads : main # "crashed" /\ thread[t] # "run" =>
            replies'[t] = 0
    BY <1>7 DEF WindowFits
  <2> QED BY <1>0, <1>1, <2>3, <2>5, <2>6, SameKind DEF WindowFits
<1> QED BY <1>8, <1>9, <1>10

-----------------------------------------------------------------------------
(* The cache.                                                              *)

LEMMA CacheInit == Init => CacheInv
<1> SUFFICES ASSUME Init PROVE CacheInv
  OBVIOUS
<1>1. \A w \in Pool : h[w] = "idle"
  BY DEF Init
<1>2. stype = "simple" => up /\ data = 0 /\ size = 0 /\ h[1] = "idle"
  BY <1>1, Sizes DEF Init
<1>3. SimpleFits
  BY <1>2 DEF SimpleFits, Torn
<1> QED BY <1>1, <1>3 DEF CacheInv, RepliesFit, WarmFits

\* Steps that leave the handlers and the cache alone.
LEMMA QuietCache ==
    ASSUME CacheInv, UNCHANGED <<kind, size, data, h, reply, clean, up>>,
           req_size' = req_size
    PROVE  CacheInv'
<1>1. Right' <=> Right
  BY SameKind DEF Right
<1>2. RepliesFit'
  BY SameKind DEF CacheInv, RepliesFit
<1>3. WarmFits'
  BY <1>1, SameKind DEF CacheInv, WarmFits
<1>4. SimpleFits'
  BY SameKind DEF CacheInv, SimpleFits
<1> QED BY <1>2, <1>3, <1>4 DEF CacheInv

\* Steps of main and of the threads within a round.
LEMMA ThreadCache ==
    ASSUME CacheInv,
           \/ Spawn \/ UNCHANGED vars
           \/ \E t \in Threads : Thread(t) \/ Accept(t)
    PROVE  CacheInv'
<1>1. UNCHANGED <<kind, round, size, data, h, reply, clean, up>>
  BY DEF Spawn, vars, Thread, Open, Call, LoopOnce, CallFails, Close, PushWrite,
         Accept, cache, handlers
<1>2. req_size' = req_size
  BY <1>1, SameKind DEF req_size
<1> QED BY <1>1, <1>2, QuietCache

\* Between the rounds of an Apache client nobody is in a handler, and those
\* of fbthrift's ask for the same size.
LEMMA JoinCache == BenchInv /\ Join => CacheInv'
<1> SUFFICES ASSUME BenchInv, Join PROVE CacheInv'
  OBVIOUS
<1>1. /\ UNCHANGED <<kind, size, data, h, reply, clean, up>>
      /\ main = "join" /\ \A t \in Threads : Ended(t)
  BY DEF Join, NextRound, cache, handlers
<1>2. CASE stype = "fbthrift"
  <2>1. req_size' = req_size
    BY <1>1, <1>2, SameKind DEF req_size
  <2> QED BY <1>1, <2>1, QuietCache DEF BenchInv
<1>3. CASE stype # "fbthrift"
  <2>1. \A t \in Threads : \A w \in Pool : from[w] # t
    BY <1>1 DEF BenchInv, PlacesInv, WindowFits, Ended
  <2>2. \A w \in Pool : from[w] = None
    BY <1>3, <2>1 DEF BenchInv, PlacesInv, CallsFit, TypeOK
  <2>3. \A w \in Pool : h[w] = "idle"
    BY <2>2 DEF BenchInv, PlacesInv, CallsFit
  <2>4. RepliesFit' /\ WarmFits'
    BY <1>1, <2>3, SameKind DEF RepliesFit, WarmFits
  <2>5. stype = "simple" => h[1] = "idle"
    BY <2>3, Sizes
  <2>6. SimpleFits'
    BY <1>1, <2>5, SameKind DEF BenchInv, CacheInv, SimpleFits
  <2> QED BY <2>4, <2>6 DEF CacheInv
<1> QED BY <1>2, <1>3

\* A call enters a handler.
LEMMA EnterCache ==
    ASSUME BenchInv, NEW w \in Pool, h[w] = "idle", Enter(w) PROVE CacheInv'
<1> USE DEF BenchInv, CacheInv
<1>0. TypeOK
  BY DEF PlacesInv
<1>1. /\ UNCHANGED <<kind, round, size, data, up>>
      /\ h'[w] = IF op = "put" THEN "answer" ELSE "test"
      /\ \A v \in Pool \ {w} : h'[v] = h[v]
      /\ IF op = "put" THEN reply'[w] = NoReply ELSE reply'[w].data_size = req_size
      /\ \A v \in Pool \ {w} : reply'[v] = reply[v]
  BY <1>0, EnterMoves
<1>2. /\ clean'[w] <=> Right
      /\ \A v \in Pool \ {w} : clean'[v] <=> clean[v]
  BY <1>0, EnterMoves
<1>3. req_size' = req_size
  BY <1>1, SameKind DEF req_size
<1>4. Right' <=> Right
  BY <1>1, <1>3, SameKind DEF Right
<1>5. RepliesFit'
  BY <1>1, <1>3, SameKind DEF RepliesFit
<1>6. WarmFits'
  <2> SUFFICES ASSUME NEW v \in Pool, h'[v] # "idle", clean'[v]
               PROVE  Right' /\ (op' = "get" /\ h'[v] = "answer" =>
                                    reply'[v].data = req_size')
    BY <1>1, SameKind DEF WarmFits
  <2>1. CASE v = w
    BY <2>1, <1>1, <1>2, <1>4, SameKind
  <2>2. CASE v # w
    <3>1. h[v] # "idle" /\ clean[v] /\ h'[v] = h[v] /\ reply'[v] = reply[v]
      BY <2>2, <1>1, <1>2
    <3> QED BY <3>1, <1>1, <1>3, <1>4, SameKind DEF WarmFits
  <2> QED BY <2>1, <2>2
<1>7. SimpleFits'
  <2>1. stype = "simple" => w = 1
    BY Sizes
  <2> QED BY <2>1, <1>1, <1>3, SameKind DEF SimpleFits
<1> QED BY <1>5, <1>6, <1>7

LEMMA HandleCache ==
    ASSUME BenchInv, HandleLeft \/ \E t \in Threads : Handle(t) PROVE CacheInv'
<1>1. PICK w \in Pool : h[w] = "idle" /\ Enter(w)
  BY DEF Handle, HandleLeft
<1> QED BY <1>1, EnterCache

\* The server is undone by its cache; the simple server never is.
LEMMA CrashCache == BenchInv /\ Crash /\ stype # "simple" => CacheInv'
<1> SUFFICES ASSUME BenchInv, Crash, stype # "simple" PROVE CacheInv'
  OBVIOUS
<1>1. UNCHANGED kind /\ \A w \in Pool : h'[w] = "idle"
  BY DEF Crash
<1> QED BY <1>1, SameKind DEF CacheInv, RepliesFit, WarmFits, SimpleFits

\* init_data tests the size.
LEMMA TestCache == ASSUME BenchInv, NEW w \in Pool, TestSize(w) PROVE CacheInv'
<1> USE DEF BenchInv, CacheInv
<1>1. /\ UNCHANGED <<kind, round, size, data, reply, clean, up>>
      /\ up /\ h[w] = "test"
  BY DEF TestSize, cache
<1>2. PICK p \in {"copy", "assign"} :
          /\ h' = [h EXCEPT ![w] = p]
          /\ size = reply[w].data_size <=> p = "copy"
  BY DEF TestSize
<1>3. /\ h'[w] = p /\ \A v \in Pool \ {w} : h'[v] = h[v]
  BY <1>1, <1>2, HandlerMoves DEF Steps, PlacesInv
<1>4. req_size' = req_size
  BY <1>1, SameKind DEF req_size
<1>5. op \in {"put", "get"} /\ op # "put" /\ reply[w].data_size = req_size
  BY <1>1 DEF RepliesFit, PlacesInv, TypeOK
<1>6. Right => Right'
  BY <1>1, <1>2, <1>3, <1>4, <1>5, SameKind DEF Right
<1>7. RepliesFit'
  BY <1>1, <1>3, <1>4, <1>5, SameKind DEF RepliesFit
<1>8. WarmFits'
  BY <1>1, <1>2, <1>3, <1>4, <1>6, SameKind DEF WarmFits
<1>9. SimpleFits'
  <2>1. stype = "simple" => w = 1
    BY Sizes
  <2> QED BY <2>1, <1>1, <1>2, <1>3, <1>4, <1>5, SameKind DEF SimpleFits
<1> QED BY <1>7, <1>8, <1>9

\* While a handler assigns, no call has found the cache right.
LEMMA NoneWarm ==
    ASSUME CacheInv, NEW w \in Pool, h[w] \in {"assign", "assigned"}
    PROVE  \A v \in Pool : h[v] # "idle" => ~ clean[v]
<1>1. ~Right
  BY DEF Right
<1> QED BY <1>1 DEF CacheInv, WarmFits

\* The assignment to data begins.
LEMMA AssignBeginCache ==
    ASSUME BenchInv, NEW w \in Pool, AssignBegin(w) PROVE CacheInv'
<1> USE DEF BenchInv, CacheInv
<1>0. up /\ h[w] = "assign"
  BY DEF AssignBegin
<1>1. stype = "simple" => w = 1 /\ data # Torn
  BY <1>0, Sizes DEF SimpleFits
<1>2. CASE data = Torn /\ Crash
  BY <1>1, <1>2, CrashCache
<1>3. CASE /\ h' = [h EXCEPT ![w] = "assigned"]
           /\ data' = Torn
           /\ UNCHANGED <<kind, round, size, reply, clean, up>>
  <2>1. /\ h'[w] = "assigned" /\ \A v \in Pool \ {w} : h'[v] = h[v]
    BY <1>3, HandlerMoves DEF Steps, PlacesInv
  <2>2. req_size' = req_size
    BY <1>3, SameKind DEF req_size
  <2>3. RepliesFit'
    BY <1>0, <1>3, <2>1, <2>2, SameKind DEF RepliesFit
  <2>4. WarmFits'
    BY <1>0, <1>3, <2>1, NoneWarm, SameKind DEF WarmFits
  <2>5. SimpleFits'
    BY <1>0, <1>1, <1>3, <2>1, SameKind DEF SimpleFits
  <2> QED BY <2>3, <2>4, <2>5
<1> QED BY <1>2, <1>3 DEF AssignBegin

\* The assignment ends.
LEMMA AssignEndCache ==
    ASSUME BenchInv, NEW w \in Pool, AssignEnd(w) PROVE CacheInv'
<1> USE DEF BenchInv, CacheInv
<1>0. up /\ h[w] = "assigned"
  BY DEF AssignEnd
<1>1. op \in {"put", "get"} /\ op # "put" /\ reply[w].data_size = req_size
  BY <1>0 DEF RepliesFit, PlacesInv, TypeOK
<1>2. /\ UNCHANGED <<kind, round, reply, clean, up>>
      /\ data' = req_size /\ size' = req_size
      /\ h' = [h EXCEPT ![w] = "copy"]
  BY <1>1 DEF AssignEnd
<1>3. /\ h'[w] = "copy" /\ \A v \in Pool \ {w} : h'[v] = h[v]
  BY <1>2, HandlerMoves DEF Steps, PlacesInv
<1>4. req_size' = req_size /\ req_size # Torn
  BY <1>2, SameKind DEF req_size, Torn, PlacesInv, TypeOK
<1>5. RepliesFit'
  BY <1>0, <1>2, <1>3, <1>4, SameKind DEF RepliesFit
<1>6. WarmFits'
  BY <1>0, <1>2, <1>3, NoneWarm, SameKind DEF WarmFits
<1>7. SimpleFits'
  <2>1. stype = "simple" => w = 1
    BY Sizes
  <2> QED BY <2>1, <1>2, <1>3, <1>4, SameKind DEF SimpleFits
<1> QED BY <1>5, <1>6, <1>7

\* What a copy puts into the answer.
LEMMA CopyMoves ==
    ASSUME TypeOK, NEW w \in Pool, NEW n \in Nat,
           reply' = [reply EXCEPT ![w].data = n]
    PROVE  /\ reply' \in [Pool -> [data_size : Nat, data : Nat]]
           /\ reply'[w].data_size = reply[w].data_size /\ reply'[w].data = n
           /\ \A v \in Pool \ {w} : reply'[v] = reply[v]
BY DEF TypeOK

\* The data is copied into the answer.
LEMMA CopyCache == ASSUME BenchInv, NEW w \in Pool, Copy(w) PROVE CacheInv'
<1> USE DEF BenchInv, CacheInv
<1>0. up /\ h[w] = "copy" /\ TypeOK
  BY DEF Copy, PlacesInv
<1>1. stype = "simple" => w = 1 /\ data # Torn
  BY <1>0, Sizes DEF SimpleFits
<1>2. CASE data = Torn /\ Crash
  BY <1>1, <1>2, CrashCache
<1>3. CASE /\ h' = [h EXCEPT ![w] = "answer"]
           /\ \E n \in IF data = Torn THEN 0 .. reply[w].data_size ELSE {data} :
                  reply' = [reply EXCEPT ![w].data = n]
           /\ UNCHANGED <<kind, round, size, data, clean, up>>
  <2>1. PICK n \in Nat : /\ reply' = [reply EXCEPT ![w].data = n]
                         /\ data # Torn => n = data
    <3>1. (IF data = Torn THEN 0 .. reply[w].data_size ELSE {data}) \subseteq Nat
      BY <1>0 DEF TypeOK
    <3> QED BY <1>3, <3>1
  <2>2. /\ reply'[w].data_size = reply[w].data_size /\ reply'[w].data = n
        /\ \A v \in Pool \ {w} : reply'[v] = reply[v]
    BY <1>0, <2>1, CopyMoves
  <2>3. /\ h'[w] = "answer" /\ \A v \in Pool \ {w} : h'[v] = h[v]
    BY <1>0, <1>3, HandlerMoves DEF Steps
  <2>4. op \in {"put", "get"} /\ op # "put" /\ reply[w].data_size = req_size
    BY <1>0 DEF RepliesFit, TypeOK
  <2>5. req_size' = req_size /\ req_size # Torn
    BY <1>0, <1>3, SameKind DEF req_size, Torn, TypeOK
  <2>6. RepliesFit'
    BY <1>3, <2>2, <2>3, <2>4, <2>5, SameKind DEF RepliesFit
  <2>7. WarmFits'
    <3>1. Right => Right'
      BY <1>3, <2>3, <2>5, SameKind DEF Right
    <3> SUFFICES ASSUME NEW v \in Pool, h'[v] # "idle", clean[v]
                 PROVE  Right' /\ (op = "get" /\ h'[v] = "answer" =>
                                      reply'[v].data = req_size)
      BY <1>3, <2>5, SameKind DEF WarmFits
    <3>2. /\ Right
          /\ op = "get" /\ h[v] = "answer" => reply[v].data = req_size
      BY <1>0, <2>3 DEF WarmFits
    <3>3. CASE v = w
      BY <2>1, <2>2, <2>5, <3>1, <3>2, <3>3 DEF Right
    <3>4. CASE v # w
      BY <2>2, <2>3, <3>1, <3>2, <3>4
    <3> QED BY <3>3, <3>4
  <2>8. SimpleFits'
    BY <1>0, <1>1, <1>3, <2>1, <2>2, <2>3, <2>4, <2>5, SameKind DEF SimpleFits
  <2> QED BY <2>6, <2>7, <2>8
<1> QED BY <1>2, <1>3 DEF Copy, cache

\* The handler returns.
LEMMA AnswerCache == ASSUME BenchInv, NEW w \in Pool, Answer(w) PROVE CacheInv'
<1> USE DEF BenchInv, CacheInv
<1>1. /\ UNCHANGED <<kind, round, size, data, up>>
      /\ up /\ h[w] = "answer"
      /\ h' = [h EXCEPT ![w] = "idle"]
      /\ reply' = [reply EXCEPT ![w] = NoReply]
      /\ clean' = [clean EXCEPT ![w] = FALSE]
  BY DEF Answer, cache
<1>2. /\ h'[w] = "idle" /\ \A v \in Pool \ {w} : h'[v] = h[v]
      /\ \A v \in Pool \ {w} : reply'[v] = reply[v]
  BY <1>1 DEF PlacesInv, TypeOK
<1>3. \A v \in Pool \ {w} : clean'[v] <=> clean[v]
  <2>1. clean \in [Pool -> BOOLEAN]
    BY DEF PlacesInv, TypeOK
  <2> QED BY <1>1, <2>1, Zenon
<1>4. req_size' = req_size
  BY <1>1, SameKind DEF req_size
<1>5. Right => Right'
  BY <1>1, <1>2, <1>4, SameKind DEF Right
<1>6. RepliesFit'
  BY <1>1, <1>2, <1>4, SameKind DEF RepliesFit
<1>7. WarmFits'
  BY <1>1, <1>2, <1>3, <1>4, <1>5, SameKind DEF WarmFits
<1>8. SimpleFits'
  <2>1. stype = "simple" => w = 1
    BY Sizes
  <2> QED BY <2>1, <1>1, <1>2, <1>4, SameKind DEF SimpleFits
<1> QED BY <1>6, <1>7, <1>8

-----------------------------------------------------------------------------
\* A step of a handler keeps what the threads have at the server.
LEMMA HandlerPlaces == ASSUME PlacesInv, NEW w \in Pool, Handler(w) PROVE PlacesInv'
<1>0. TypeOK
  BY DEF PlacesInv
<1>1. CASE TestSize(w)
  <2>1. PICK p \in {"copy", "assign"} : h' = [h EXCEPT ![w] = p]
    BY <1>1 DEF TestSize
  <2>2. p \in Steps \ {"idle"} /\ h[w] # "idle"
    BY <1>1 DEF TestSize, Steps
  <2>3. /\ UNCHANGED <<kind, main, round, depth, thread, window, wire, from, clean,
                       up, bench>>
        /\ UNCHANGED <<size, data, reply>>
    BY <1>1 DEF TestSize, cache
  <2>4. /\ size' \in Nat /\ data' \in Nat \cup {Torn}
        /\ reply' \in [Pool -> [data_size : Nat, data : Nat]]
    BY <1>0, <2>3 DEF TypeOK
  <2> QED BY <2>1, <2>2, <2>3, <2>4, MovePlaces
<1>2. CASE AssignBegin(w)
  <2>1. CASE Crash
    BY <2>1, CrashPlaces
  <2>2. CASE /\ h' = [h EXCEPT ![w] = "assigned"] /\ data' = Torn
             /\ UNCHANGED <<kind, main, round, depth, thread, window, wire, from,
                            clean, up, bench>>
             /\ UNCHANGED <<size, reply>>
    <3>1. "assigned" \in Steps \ {"idle"} /\ h[w] # "idle"
      BY <1>2 DEF AssignBegin, Steps
    <3>2. /\ size' \in Nat /\ data' \in Nat \cup {Torn}
          /\ reply' \in [Pool -> [data_size : Nat, data : Nat]]
      BY <1>0, <2>2 DEF TypeOK
    <3> QED BY <2>2, <3>1, <3>2, MovePlaces
  <2> QED BY <1>2, <2>1, <2>2 DEF AssignBegin
<1>3. CASE AssignEnd(w)
  <2>1. /\ h' = [h EXCEPT ![w] = "copy"] /\ h[w] # "idle"
        /\ UNCHANGED <<kind, main, round, depth, thread, window, wire, from, clean,
                       up, bench>>
        /\ reply' = reply
        /\ data' = reply[w].data_size /\ size' = reply[w].data_size
    BY <1>3 DEF AssignEnd
  <2>2. /\ size' \in Nat /\ data' \in Nat \cup {Torn}
        /\ reply' \in [Pool -> [data_size : Nat, data : Nat]]
    BY <1>0, <2>1 DEF TypeOK
  <2>3. "copy" \in Steps \ {"idle"}
    BY DEF Steps
  <2> QED BY <2>1, <2>2, <2>3, MovePlaces
<1>4. CASE Copy(w)
  <2>1. CASE Crash
    BY <2>1, CrashPlaces
  <2>2. CASE /\ h' = [h EXCEPT ![w] = "answer"]
             /\ \E n \in IF data = Torn THEN 0 .. reply[w].data_size ELSE {data} :
                    reply' = [reply EXCEPT ![w].data = n]
             /\ UNCHANGED <<kind, main, round, depth, thread, window, wire, from,
                            clean, up, bench>>
             /\ UNCHANGED <<size, data>>
    <3>1. "answer" \in Steps \ {"idle"} /\ h[w] # "idle"
      BY <1>4 DEF Copy, Steps
    <3>2. PICK n \in Nat : reply' = [reply EXCEPT ![w].data = n]
      <4>1. (IF data = Torn THEN 0 .. reply[w].data_size ELSE {data}) \subseteq Nat
        BY <1>0 DEF TypeOK
      <4> QED BY <2>2, <4>1
    <3>3. reply' \in [Pool -> [data_size : Nat, data : Nat]]
      BY <1>0, <3>2, CopyMoves
    <3>4. size' \in Nat /\ data' \in Nat \cup {Torn}
      BY <1>0, <2>2 DEF TypeOK
    <3> QED BY <2>2, <3>1, <3>3, <3>4, MovePlaces
  <2> QED BY <1>4, <2>1, <2>2 DEF Copy, cache
<1>5. CASE Answer(w)
  BY <1>5, AnswerPlaces
<1> QED BY <1>1, <1>2, <1>3, <1>4, <1>5 DEF Handler

\* Every step preserves the invariant.
LEMMA BenchNext == BenchInv /\ [Next]_vars => BenchInv'
<1> SUFFICES ASSUME BenchInv, [Next]_vars PROVE BenchInv'
  OBVIOUS
<1>0. PlacesInv /\ CacheInv
  BY DEF BenchInv
<1>1. PlacesInv'
  <2>1. CASE Spawn \/ Join \/ HandleLeft
    BY <1>0, <2>1, SpawnPlaces, JoinPlaces, HandleLeftPlaces
  <2>2. ASSUME NEW t \in Threads, Thread(t) PROVE PlacesInv'
    BY <1>0, <2>2, OpenPlaces, CallPlaces, LoopOncePlaces, CallFailsPlaces,
       ClosePlaces, PushPlaces DEF Thread
  <2>3. ASSUME NEW t \in Threads, Accept(t) \/ Handle(t) PROVE PlacesInv'
    BY <1>0, <2>3, AcceptPlaces, HandlePlaces
  <2>4. ASSUME NEW w \in Pool, Handler(w) PROVE PlacesInv'
    BY <1>0, <2>4, HandlerPlaces
  <2>5. CASE UNCHANGED vars
    <3>1. UNCHANGED <<kind, main, round, depth, thread, calls, out, tosend, waiting,
                      left, replies, size, data, h, from, reply, clean, up, results,
                      tail, overlapped>>
      BY <2>5 DEF vars, window, wire, cache, handlers, bench
    <3>2. \A t \in Threads : busy(t)' = busy(t)
      BY <3>1, SameKind DEF busy
    <3> QED BY <1>0, <3>1, <3>2, SameKind DEF PlacesInv, TypeOK, CallsFit, WindowFits
  <2> QED BY <2>1, <2>2, <2>3, <2>4, <2>5 DEF Next
<1>2. CacheInv'
  <2>1. CASE Join
    BY <2>1, JoinCache
  <2>2. CASE Spawn \/ UNCHANGED vars \/ \E t \in Threads : Thread(t) \/ Accept(t)
    BY <1>0, <2>2, ThreadCache
  <2>3. CASE HandleLeft \/ \E t \in Threads : Handle(t)
    BY <2>3, HandleCache
  <2>4. ASSUME NEW w \in Pool, Handler(w) PROVE CacheInv'
    BY <2>4, TestCache, AssignBeginCache, AssignEndCache, CopyCache, AnswerCache
       DEF Handler
  <2> QED BY <2>1, <2>2, <2>3, <2>4 DEF Next
<1> QED BY <1>1, <1>2 DEF BenchInv

(***************************************************************************)
(* The inductive invariant: the calls of a thread, wherever they are, fit  *)
(* in its window, a closed connection leaves only calls of fbthrift's      *)
(* client, and no such call disturbs the cache of another size.            *)
(***************************************************************************)
THEOREM BenchCorrect == Spec => []BenchInv
<1>1. Init => BenchInv
  BY PlacesInit, CacheInit DEF BenchInv
<1> QED BY <1>1, BenchNext, PTL DEF Spec

(***************************************************************************)
(* A get that finds the data of its size in the cache is answered with it, *)
(* and a put without data, whatever the other handlers do, those of calls  *)
(* that a closed connection left included.                                 *)
(***************************************************************************)
THEOREM WarmCorrect == Spec => []RightWhenWarm
<1>1. BenchInv => RightWhenWarm
  <2> SUFFICES ASSUME BenchInv, NEW w \in Pool, Wrong(w)
               PROVE  op = "get" /\ ~ clean[w]
    BY DEF RightWhenWarm
  <2>1. h[w] = "answer"
    BY DEF Wrong
  <2>2. op \in {"put", "get"}
    BY DEF BenchInv, PlacesInv, TypeOK
  <2>3. op # "put"
    BY <2>1 DEF BenchInv, CacheInv, RepliesFit, Wrong, NoReply
  <2>4. reply[w].data_size = req_size /\ reply[w].data # req_size
    BY <2>1, <2>3 DEF BenchInv, CacheInv, RepliesFit, Wrong
  <2> QED BY <2>1, <2>2, <2>3, <2>4 DEF BenchInv, CacheInv, WarmFits
<1> QED BY <1>1, BenchCorrect, PTL

(***************************************************************************)
(* The server that handles one connection at a time stays up and answers   *)
(* every call right, for any number of threads and sizes.                  *)
(***************************************************************************)
THEOREM SimpleServerCorrect == Spec => []SimpleServerExact
<1>1. BenchInv => SimpleServerExact
  <2> SUFFICES ASSUME BenchInv, stype = "simple"
               PROVE  up /\ \A w \in Pool : ~ Wrong(w)
    BY DEF SimpleServerExact
  <2>1. up
    BY DEF BenchInv, CacheInv, SimpleFits
  <2>2. ASSUME NEW w \in Pool, Wrong(w) PROVE FALSE
    <3>1. h[w] = "answer" /\ w = 1
      BY <2>2, Sizes DEF Wrong
    <3>2. op \in {"put", "get"}
      BY DEF BenchInv, PlacesInv, TypeOK
    <3>3. op # "put"
      BY <2>2, <3>1 DEF BenchInv, CacheInv, RepliesFit, Wrong, NoReply
    <3>4. reply[w].data_size = req_size
      BY <3>1, <3>3 DEF BenchInv, CacheInv, RepliesFit
    <3>5. reply[w].data = req_size
      BY <3>1, <3>2, <3>3 DEF BenchInv, CacheInv, SimpleFits
    <3> QED BY <2>2, <3>4, <3>5 DEF Wrong
  <2> QED BY <2>1, <2>2
<1> QED BY <1>1, BenchCorrect, PTL

-----------------------------------------------------------------------------
(* The rounds.                                                             *)

LEMMA RoundsInit == Init => RoundsInv
<1> SUFFICES ASSUME Init PROVE RoundsInv
  OBVIOUS
<1>1. {t \in Threads : thread[t] = "ended"} = {} /\ Cardinality({}) = 0
  BY FS_EmptySet DEF Init
<1>2. (1 - 1) * nt = 0
  BY Sizes
<1>3. ResultsFit
  BY <1>1, <1>2 DEF Init, ResultsFit
<1>4. DoneFits
  BY DEF Init, DoneFits
<1> QED BY <1>3, <1>4 DEF RoundsInv

(***************************************************************************)
(* Results: as long as no two push_backs overlap, each adds one, and main  *)
(* goes on to the next round only when every thread's has.                 *)
(***************************************************************************)
LEMMA ResultsStep == RoundsInv /\ BenchInv /\ [Next]_vars => ResultsFit'
<1> SUFFICES ASSUME RoundsInv, BenchInv, [Next]_vars PROVE ResultsFit'
  OBVIOUS
<1> DEFINE E == {t \in Threads : thread[t] = "ended"}
           Apart == stype = "fbthrift" /\ ~overlapped /\ main # "crashed"
<1>0. /\ thread \in [Threads -> Places] /\ round \in Nat \ {0}
      /\ results \in Nat /\ tail \in [Threads -> Nat] /\ nt \in Nat
      /\ WindowFits
  BY Sizes DEF BenchInv, PlacesInv, TypeOK
<1>k. UNCHANGED kind /\ UNCHANGED stype /\ Threads' = Threads /\ nt' = nt
  BY KindStep, SameKind
<1>1. Apart => /\ results = (round - 1) * nt + Cardinality(E)
               /\ \A t \in Threads : thread[t] = "push" => tail[t] = results
               /\ \A t, u \in Threads : thread[t] = "push" /\ thread[u] = "push" => t = u
  BY DEF RoundsInv, ResultsFit
<1>2. IsFiniteSet(E) /\ Cardinality(E) \in Nat
  BY Sizes, FS_Subset, FS_CardinalityType
<1>a. ASSUME UNCHANGED <<results, tail, round>>, Apart' => Apart, E' = E,
             \A t \in Threads : thread'[t] = "push" => thread[t] = "push"
      PROVE  ResultsFit'
  BY <1>a, <1>k, <1>1 DEF ResultsFit
<1>b. ASSUME NEW t \in Threads, NEW p \in Places \ {"push", "ended"},
             thread[t] \notin {"push", "ended"}, thread' = [thread EXCEPT ![t] = p],
             UNCHANGED <<results, tail, round, overlapped, main>>
      PROVE  ResultsFit'
  <2>1. E' = E
    BY <1>b, <1>0, <1>k
  <2>2. \A u \in Threads : thread'[u] = "push" => thread[u] = "push"
    BY <1>b, <1>0
  <2> QED BY <1>b, <1>k, <2>1, <2>2, <1>a
<1>c. ASSUME UNCHANGED <<results, tail, round, overlapped, main, thread>>
      PROVE  ResultsFit'
  <2>1. E' = E
    BY <1>c, <1>k
  <2> QED BY <1>c, <1>k, <2>1, <1>a
<1>3. CASE Spawn
  <2>0. UNCHANGED <<results, tail, round, overlapped>>
    BY <1>3 DEF Spawn, bench
  <2>1. ASSUME NEW t \in Threads, thread[t] = "none", main' = main,
               thread' = [thread EXCEPT ![t] = "open"]
        PROVE  ResultsFit'
    BY <2>0, <2>1, <1>b DEF Places
  <2>2. CASE thread' = thread /\ main = "spawn"
    <3>1. E' = E
      BY <2>2, <1>k
    <3> QED BY <2>0, <2>2, <3>1, <1>a, <1>k
  <2> QED BY <1>3, <2>1, <2>2 DEF Spawn
<1>4. CASE Join
  <2>0. /\ UNCHANGED <<results, tail, overlapped>> /\ main = "join"
        /\ \A t \in Threads : Ended(t)
    BY <1>4 DEF Join, NextRound, bench
  <2>1. CASE UNCHANGED <<round, thread>>
    <3>1. E' = E
      BY <2>1, <1>k
    <3> QED BY <2>0, <2>1, <3>1, <1>a, <1>k
  <2>2. CASE round' = round + 1 /\ thread' = [t \in Threads |-> "none"]
    <3>1. E' = {} /\ Cardinality(E') = 0
      BY <2>2, <1>k, FS_EmptySet
    <3>2. ASSUME Apart' PROVE results' = (round' - 1) * nt + Cardinality(E')
      <4>1. E = Threads
        BY <2>0, <3>2, <1>0, <1>k DEF WindowFits, Ended
      <4>2. results = (round - 1) * nt + nt
        BY <2>0, <3>2, <4>1, <1>1, <1>k, Sizes
      <4>3. (round - 1) * nt + nt = round * nt + 0
        BY <1>0
      <4>4. round' - 1 = round
        BY <2>2, <1>0
      <4>5. results' = round * nt + 0
        BY <2>0, <4>2, <4>3
      <4> QED BY <3>1, <4>4, <4>5, Zenon
    <3>3. \A t \in Threads : thread'[t] # "push"
      BY <2>2
    <3> QED BY <3>2, <3>3, <1>k DEF ResultsFit
  <2> QED BY <1>4, <2>1, <2>2 DEF Join, NextRound
<1>5. ASSUME NEW t \in Threads, Open(t) \/ CallFails(t) PROVE ResultsFit'
  <2>1. thread[t] \notin {"push", "ended"}
    BY <1>5 DEF Open, CallFails
  <2>2. PICK p \in {"run", "failed"} : thread' = [thread EXCEPT ![t] = p]
    BY <1>5 DEF Open, CallFails
  <2>3. UNCHANGED <<results, tail, round, overlapped, main>>
    BY <1>5 DEF Open, CallFails, bench
  <2> QED BY <2>1, <2>2, <2>3, <1>b DEF Places
<1>6. ASSUME NEW t \in Threads, Close(t) PROVE ResultsFit'
  <2>1. UNCHANGED <<results, round, main>> /\ thread[t] = "run"
    BY <1>6 DEF Close
  <2>2. CASE stype = "fbthrift"
    <3>1. /\ thread' = [thread EXCEPT ![t] = "push"]
          /\ tail' = [tail EXCEPT ![t] = results]
          /\ overlapped' = (overlapped \/ \E u \in Threads : thread[u] = "push")
      BY <1>6, <2>2 DEF Close
    <3>2. E' = E
      BY <3>1, <2>1, <1>0, <1>k
    <3>3. ASSUME Apart'
          PROVE  Apart /\ \A u \in Threads : thread'[u] = "push" => u = t
      BY <3>1, <3>3, <2>1, <1>0, <1>k
    <3>4. tail' \in [Threads -> Nat] /\ tail'[t] = results
      BY <3>1, <1>0
    <3> QED BY <2>1, <3>2, <3>3, <3>4, <1>0, <1>1, <1>k DEF ResultsFit
  <2>3. CASE stype # "fbthrift"
    BY <2>3, <1>k DEF ResultsFit
  <2> QED BY <2>2, <2>3
<1>7. ASSUME NEW t \in Threads, PushWrite(t) PROVE ResultsFit'
  <2>1. CASE main' = "crashed"
    BY <2>1 DEF ResultsFit
  <2>2. CASE main' # "crashed"
    <3>1. /\ thread[t] = "push" /\ thread' = [thread EXCEPT ![t] = "ended"]
          /\ results' \in {tail[t] + 1, results + 1}
          /\ UNCHANGED <<round, overlapped, main>>
      BY <1>7, <2>2 DEF PushWrite
    <3>3. E' = E \cup {t} /\ t \notin E
      BY <3>1, <1>0, <1>k
    <3>4. Cardinality(E') = Cardinality(E) + 1
      BY <3>3, <1>2, FS_AddElement
    <3>5. ASSUME Apart'
          PROVE  /\ results' = (round' - 1) * nt + Cardinality(E')
                 /\ \A u \in Threads : thread'[u] # "push"
      <4>1. tail[t] = results /\ results = (round - 1) * nt + Cardinality(E)
        BY <3>1, <3>5, <1>1, <1>k
      <4>2. \A u \in Threads : thread'[u] # "push"
        BY <3>1, <3>5, <1>0, <1>1, <1>k
      <4>3. (round - 1) * nt \in Int
        BY <1>0
      <4> HIDE DEF E
      <4>4. results' = results + 1
        BY <3>1, <4>1
      <4> QED BY <3>1, <3>4, <4>1, <4>2, <4>3, <4>4, <1>2
    <3> QED BY <3>5, <1>k DEF ResultsFit
  <2> QED BY <2>1, <2>2
<1>8. ASSUME NEW t \in Threads,
             Call(t) \/ LoopOnce(t) \/ Accept(t) \/ Handle(t) \/ HandleLeft
      PROVE  ResultsFit'
  <2>1. UNCHANGED <<results, tail, round, overlapped, main, thread>>
    BY <1>8 DEF Call, LoopOnce, Accept, Handle, HandleLeft, Enter, bench
  <2> QED BY <2>1, <1>c
<1>9. ASSUME NEW w \in Pool, Handler(w) PROVE ResultsFit'
  <2>1. UNCHANGED <<results, tail, round, overlapped, main, thread>>
    BY <1>9 DEF Handler, TestSize, AssignBegin, AssignEnd, Copy, Crash, Answer, bench
  <2> QED BY <2>1, <1>c
<1>10. CASE UNCHANGED vars \/ HandleLeft
  <2>1. UNCHANGED <<results, tail, round, overlapped, main, thread>>
    BY <1>10 DEF vars, bench, HandleLeft, Enter
  <2> QED BY <2>1, <1>c
<1> QED BY <1>3, <1>4, <1>5, <1>6, <1>7, <1>8, <1>9, <1>10 DEF Next, Thread

\* Once main has ended no thread does anything any more.
LEMMA DoneStep == RoundsInv /\ BenchInv /\ [Next]_vars => DoneFits'
<1> SUFFICES ASSUME RoundsInv, BenchInv, [Next]_vars, main' = "done" PROVE DoneFits'
  BY DEF DoneFits
<1>k. Threads' = Threads
  BY KindStep, SameKind
<1>1. CASE Join
  <2>1. round = Rounds /\ UNCHANGED <<round, thread>> /\ \A t \in Threads : Ended(t)
    BY <1>1 DEF Join, NextRound
  <2> QED BY <2>1, <1>k DEF DoneFits, Ended
<1>2. CASE ~Join
  <2>1. main = "done"
    <3>1. CASE Spawn
      BY <3>1 DEF Spawn
    <3>2. ASSUME NEW t \in Threads, Thread(t) \/ Accept(t) \/ Handle(t)
          PROVE  main = "done"
      BY <3>2 DEF Thread, Open, Call, LoopOnce, CallFails, Close, PushWrite, Accept,
                  Handle, Enter
    <3>3. ASSUME NEW w \in Pool, Handler(w) PROVE main = "done"
      BY <3>3 DEF Handler, TestSize, AssignBegin, AssignEnd, Copy, Crash, Answer
    <3>4. CASE HandleLeft \/ UNCHANGED vars
      BY <3>4 DEF HandleLeft, Enter, vars
    <3> QED BY <1>2, <3>1, <3>2, <3>3, <3>4 DEF Next
  <2>2. round = Rounds /\ \A t \in Threads : Ended(t)
    BY <2>1 DEF RoundsInv, DoneFits
  <2>3. UNCHANGED <<round, thread>>
    <3>1. CASE Spawn
      BY <2>1, <3>1 DEF Spawn
    <3>2. ASSUME NEW t \in Threads, Thread(t) PROVE UNCHANGED <<round, thread>>
      BY <2>2, <3>2 DEF Ended, Thread, Open, Call, LoopOnce, CallFails, Close, PushWrite
    <3>3. ASSUME NEW t \in Threads, Accept(t) \/ Handle(t)
          PROVE  UNCHANGED <<round, thread>>
      BY <3>3 DEF Accept, Handle, Enter
    <3>4. ASSUME NEW w \in Pool, Handler(w) PROVE UNCHANGED <<round, thread>>
      BY <3>4 DEF Handler, TestSize, AssignBegin, AssignEnd, Copy, Crash, Answer
    <3>5. CASE HandleLeft \/ UNCHANGED vars
      BY <3>5 DEF HandleLeft, Enter, vars
    <3> QED BY <1>2, <3>1, <3>2, <3>3, <3>4, <3>5 DEF Next
  <2> QED BY <2>2, <2>3, <1>k DEF DoneFits, Ended
<1> QED BY <1>1, <1>2

(***************************************************************************)
(* An Apache client leaves nothing at the server between two rounds;       *)
(* fbthrift's leaves calls of closed connections, at most queue_depth - 1  *)
(* of each; and at the end every thread has left a result, unless two of   *)
(* them pushed at once.                                                    *)
(***************************************************************************)
THEOREM RoundsCorrect == Spec => []RoundsApart
<1>1. RoundsInv /\ BenchInv /\ [Next]_vars => RoundsInv'
  BY ResultsStep, DoneStep DEF RoundsInv
<1>2. ASSUME RoundsInv, BenchInv PROVE RoundsApart
  <2>0. TypeOK /\ CallsFit /\ WindowFits
    BY <1>2 DEF BenchInv, PlacesInv
  <2>1. ASSUME Between, NEW w \in Pool
        PROVE  from[w] = None \/ (from[w] = Gone /\ stype = "fbthrift")
    <3>1. \A t \in Threads : from[w] # t
      BY <2>0, <2>1 DEF Between, WindowFits, Ended
    <3>2. from[w] \in Threads \cup {None, Gone}
      BY <2>0 DEF TypeOK
    <3> QED BY <2>0, <3>1, <3>2 DEF CallsFit
  <2>2. ASSUME NEW t \in Threads, thread[t] \in {"push", "ended"}
        PROVE  out[t] \in 0 .. depth - 1
    <3>1. out[t] \in Nat /\ depth \in Nat /\ out[t] < depth
      BY <2>0, <2>2, Sizes DEF TypeOK, WindowFits
    <3> QED BY <3>1
  <2>3. ASSUME main = "done", stype = "fbthrift", ~overlapped
        PROVE  results = Rounds * nt
    <3>1. /\ round = Rounds /\ \A t \in Threads : thread[t] = "ended"
          /\ results = (round - 1) * nt
                         + Cardinality({t \in Threads : thread[t] = "ended"})
      BY <1>2, <2>0, <2>3 DEF RoundsInv, DoneFits, WindowFits, ResultsFit, Ended
    <3>2. {t \in Threads : thread[t] = "ended"} = Threads
      BY <3>1
    <3>3. (Rounds - 1) * nt + nt = Rounds * nt
      BY Sizes, BenchAssumption
    <3> QED BY <3>1, <3>2, <3>3, Sizes
  <2> QED BY <2>1, <2>2, <2>3 DEF RoundsApart
<1>3. RoundsInv /\ BenchInv => RoundsApart
  BY <1>2
<1> QED BY <1>1, <1>3, RoundsInit, BenchCorrect, PTL DEF Spec
=============================================================================
