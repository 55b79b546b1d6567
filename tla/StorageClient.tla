---------------------------- MODULE StorageClient ----------------------------
(***************************************************************************)
(* One client thread of StorageRpc/Client.cpp (BenchmarkEcho, with the     *)
(* adaptive queue depth; BenchmarkSend and BenchmarkSendNoData, with a     *)
(* fixed one) or of fbthrift/domain-socket/Client.cpp (Benchmark, which    *)
(* has the adaptive depth but does not count what it sends), the server    *)
(* that answers it, and the thread's entry in the StatsCollector, which is *)
(* only touched under its lock.  Answers cannot be told apart, so calls    *)
(* under way are counted.                                                  *)
(***************************************************************************)
EXTENDS Integers

CONSTANTS
    QueueDepth,     \* FLAGS_queue_depth
    Requests,       \* FLAGS_requests
    Unlimited,      \* FLAGS_unlimited
    RateLimit,      \* FLAGS_iops_rate_limit
    Kinds,          \* the kinds of client: "echo", "send", "domain"
    Failures,       \* whether a call may fail
    MaxSent,        \* bound of the model on the requests sent
    W               \* the counters are unsigned, modulo W

ASSUME StorageAssumption ==
    /\ QueueDepth \in Nat \ {0}
    /\ Requests \in Nat
    /\ RateLimit \in Nat
    /\ Unlimited \in BOOLEAN /\ Failures \in BOOLEAN
    /\ Kinds \subseteq {"echo", "send", "domain"}
    /\ MaxSent \in Nat /\ W \in Nat
    /\ Requests + QueueDepth <= MaxSent
    /\ MaxSent + QueueDepth < W

VARIABLES
    kind,           \* which of the benchmarks the thread runs
    pc,             \* "test", "send", "loop" or "done"
    i,              \* the index of the sending loop
    current_depth,
    to_send,
    ios_in_last_second,
    req_id,
    req_sent,
    req_complete,
    req_out,
    total_ios,      \* total_ios_ of the thread's Stats
    wire,           \* calls on the way to the server
    answers,        \* answers on the way back
    lost            \* calls that have failed

vars == <<kind, pc, i, current_depth, to_send, ios_in_last_second, req_id,
          req_sent, req_complete, req_out, total_ios, wire, answers, lost>>

adaptive == kind # "send"
counting == kind # "domain"
unlimited == Unlimited /\ adaptive     \* BenchmarkSend does not look at the flag
pending == wire + answers

\* Unsigned arithmetic.
Add(a, b) == IF a + b < W THEN a + b ELSE a + b - W
Sub(a, b) == IF a >= b THEN a - b ELSE a + W - b

Init ==
    /\ kind \in Kinds
    /\ pc = "test"
    /\ i = 0
    /\ current_depth = IF adaptive THEN 1 ELSE QueueDepth
    /\ to_send = current_depth
    /\ ios_in_last_second = 0
    /\ req_id = 0
    /\ req_sent = 0
    /\ req_complete = 0
    /\ req_out = 0
    /\ total_ios = 0
    /\ wire = 0
    /\ answers = 0
    /\ lost = 0

\* while (req_complete < kRequests or kUnlimited)
Test ==
    /\ pc = "test"
    /\ pc' = IF req_complete < Requests \/ unlimited THEN "send" ELSE "done"
    /\ i' = 0
    /\ UNCHANGED <<kind, current_depth, to_send, ios_in_last_second, req_id,
                   req_sent, req_complete, req_out, total_ios, wire, answers,
                   lost>>

\* ++req_out; ++req_sent; which the domain-socket client lacks.
Count ==
    /\ req_out' = IF counting THEN Add(req_out, 1) ELSE req_out
    /\ req_sent' = IF counting THEN Add(req_sent, 1) ELSE req_sent

\* The body of the sending loop.
Send ==
    /\ pc = "send"
    /\ i < to_send
    /\ req_id < MaxSent
    /\ req_id' = req_id + 1
    /\ wire' = wire + 1
    /\ Count
    /\ i' = i + 1
    /\ UNCHANGED <<kind, pc, current_depth, to_send, ios_in_last_second,
                   req_complete, total_ios, answers, lost>>

\* Mutant: the I/Os of the last round replace those before.
SendEnd_Overwrites ==
    /\ pc = "send"
    /\ i >= to_send
    /\ ios_in_last_second' = to_send
    /\ pc' = "loop"
    /\ UNCHANGED <<kind, i, current_depth, to_send, req_id, req_sent,
                   req_complete, req_out, total_ios, wire, answers, lost>>

\* ios_in_last_second += to_send; (with a fixed depth nothing reads it)
SendEnd ==
    /\ pc = "send"
    /\ i >= to_send
    /\ ios_in_last_second' = Add(ios_in_last_second, to_send)
    /\ pc' = "loop"
    /\ UNCHANGED <<kind, i, current_depth, to_send, req_id, req_sent,
                   req_complete, req_out, total_ios, wire, answers, lost>>

\* The server's handler, async_tm_Echo, async_tm_Send or async_tm_SendNoData,
\* answers a call.
Serve ==
    /\ wire > 0
    /\ wire' = wire - 1
    /\ answers' = answers + 1
    /\ UNCHANGED <<kind, pc, i, current_depth, to_send, ios_in_last_second,
                   req_id, req_sent, req_complete, req_out, total_ios, lost>>

\* Mutant: the answer is not taken off what is out.
Callback_KeepsOut ==
    /\ pc = "loop"
    /\ answers > 0
    /\ answers' = answers - 1
    /\ req_complete' = Add(req_complete, 1)
    /\ UNCHANGED <<kind, pc, i, current_depth, to_send, ios_in_last_second,
                   req_id, req_sent, req_out, total_ios, wire, lost>>

\* loopOnce calls the continuation of one answer.
Callback ==
    /\ pc = "loop"
    /\ answers > 0
    /\ answers' = answers - 1
    /\ req_complete' = Add(req_complete, 1)
    /\ req_out' = Sub(req_out, 1)
    /\ UNCHANGED <<kind, pc, i, current_depth, to_send, ios_in_last_second,
                   req_id, req_sent, total_ios, wire, lost>>

\* A call fails, in loopOnce or while another is sent: the continuation takes
\* a value, so nothing runs.
Fail ==
    /\ Failures
    /\ pc \in {"send", "loop"}
    /\ \/ wire > 0 /\ wire' = wire - 1 /\ UNCHANGED answers
       \/ answers > 0 /\ answers' = answers - 1 /\ UNCHANGED wire
    /\ lost' = lost + 1
    /\ UNCHANGED <<kind, pc, i, current_depth, to_send, ios_in_last_second,
                   req_id, req_sent, req_complete, req_out, total_ios>>

\* One more or one less, at least 1 and at most kQueueDepth.
NewDepth ==
    LET d == CASE ios_in_last_second < RateLimit -> Add(current_depth, 1)
               [] ios_in_last_second > RateLimit -> Sub(current_depth, 1)
               [] OTHER -> current_depth
    IN  IF d > QueueDepth THEN QueueDepth ELSE IF d = 0 THEN 1 ELSE d

\* A second has passed: report to the StatsCollector and adapt the depth.
Second ==
    /\ adaptive
    /\ total_ios' = total_ios + ios_in_last_second
    /\ current_depth' = NewDepth
    /\ ios_in_last_second' = 0

\* Mutant: the whole depth is sent again.
ToSend_IgnoresOut(depth) ==
    IF req_sent > Requests /\ ~unlimited THEN 0 ELSE depth

\* Mutant: stops when the next round would send too many.
ToSend_StopsEarly(depth) ==
    IF req_sent + depth > Requests /\ ~unlimited THEN 0
    ELSE IF depth >= req_out THEN Sub(depth, req_out) ELSE 1

\* Mutant: the number of requests does not matter.
ToSend_NoEnd(depth) == IF depth >= req_out THEN Sub(depth, req_out) ELSE 1

\* What to send in the next round.
ToSend(depth) ==
    IF req_sent > Requests /\ ~unlimited THEN 0
    ELSE IF depth >= req_out THEN Sub(depth, req_out)
    ELSE IF adaptive THEN 1 ELSE Sub(depth, req_out)

\* loopOnce returns.
Refill ==
    /\ pc = "loop"
    /\ \/ Second
       \/ UNCHANGED <<total_ios, current_depth, ios_in_last_second>>
    /\ to_send' = ToSend(current_depth')
    /\ pc' = "test"
    /\ UNCHANGED <<kind, i, req_id, req_sent, req_complete, req_out, wire,
                   answers, lost>>

Loop == Test \/ Send \/ SendEnd \/ Refill
Settle == Callback \/ Fail

Next == Loop \/ Settle \/ Serve

Spec == Init /\ [][Next]_vars

(***************************************************************************)
(* The thread and the server run.  An answer that has arrived is among the *)
(* events that the next loopOnce finds ready, although the thread is in    *)
(* loopOnce only from time to time.                                        *)
(***************************************************************************)
FairSpec == Spec /\ WF_vars(Loop) /\ WF_vars(Serve) /\ SF_vars(Settle)

-----------------------------------------------------------------------------
\* Every counter is an unsigned number, and the depth, whatever the rate,
\* between 1 and the queue depth.
TypeOK ==
    /\ kind \in Kinds
    /\ pc \in {"test", "send", "loop", "done"}
    /\ i \in 0 .. W - 1
    /\ current_depth \in 1 .. QueueDepth
    /\ to_send \in 0 .. W - 1
    /\ ios_in_last_second \in 0 .. W - 1
    /\ req_id \in 0 .. MaxSent
    /\ req_sent \in 0 .. W - 1
    /\ req_complete \in 0 .. W - 1
    /\ req_out \in 0 .. W - 1
    /\ total_ios \in Nat
    /\ wire \in Nat
    /\ answers \in Nat
    /\ lost \in Nat

(***************************************************************************)
(* In a client that counts, the decrement in the continuation never wraps: *)
(* req_out is the number of calls that are under way or have failed, and   *)
(* no request is counted twice or not at all.                              *)
(***************************************************************************)
OutExact ==
    counting =>
        /\ req_out = pending + lost
        /\ req_sent = req_complete + req_out
        /\ req_sent = req_id

(***************************************************************************)
(* What the StatsCollector has been told, and what the thread has not told *)
(* it yet, is what the thread has sent, although the sum is updated per    *)
(* round and reset each second.                                            *)
(***************************************************************************)
StatsAddUp ==
    /\ pc = "send" => total_ios + ios_in_last_second + i = req_id
    /\ pc # "send" => total_ios + ios_in_last_second = req_id

(***************************************************************************)
(* A limited run of a client that counts sends at most one queue depth     *)
(* more than the number of requests, however the depth is adapted and      *)
(* whatever fails; each round is computed so that it stays within this     *)
(* bound.                                                                  *)
(***************************************************************************)
SentBounded ==
    counting /\ ~unlimited =>
        /\ req_sent <= Requests + QueueDepth
        /\ pc = "send" => req_sent + (to_send - i) <= Requests + QueueDepth

(***************************************************************************)
(* "Max Queue Depth": with a fixed depth, no more calls are under way than *)
(* the queue depth, whatever fails.                                        *)
(***************************************************************************)
FixedMaintainsDepth == ~adaptive => pending <= QueueDepth

\* A limited run of a client that counts ends, unless a call fails.
EndsUnlessLost ==
    counting /\ ~unlimited => <>(pc = "done") \/ <>(lost > 0)

\* What was computed for a round still fits when the round is sent.
RoundFits ==
    /\ to_send <= QueueDepth
    /\ pc = "send" => i <= to_send
    /\ counting /\ pc = "test" /\ ~unlimited =>
          req_sent + to_send <= Requests + QueueDepth

\* With a fixed depth, what is out and what is to be sent fit into it.
FixedWindow ==
    ~adaptive =>
        /\ current_depth = QueueDepth
        /\ req_out <= QueueDepth
        /\ pc = "test" => req_out + to_send <= QueueDepth
        /\ pc = "send" => req_out + (to_send - i) <= QueueDepth

\* Every call is complete, under way or lost, and a client that does not
\* count has only decremented.
CallsExact ==
    /\ req_id = req_complete + pending + lost
    /\ ~counting => req_sent = 0 /\ req_out = Sub(0, req_complete)

\* The inductive invariant.
StorageInv ==
    /\ TypeOK
    /\ CallsExact
    /\ OutExact
    /\ StatsAddUp
    /\ SentBounded
    /\ RoundFits
    /\ FixedWindow
=============================================================================
