---------------------------- MODULE WindowClient ----------------------------
(***************************************************************************)
(* The benchmark client's sliding window: one thread of start_benchmark,   *)
(* the same loop in fbthrift/exp1/client.cpp, fbthrift/exp2/DB/client.cpp  *)
(* and fbthrift/exp3/DB/client.cpp.  The thread sends req_tosend requests, *)
(* runs its event base once, which calls the continuation of each answer   *)
(* that has come in, and computes how many to send next.                   *)
(***************************************************************************)
EXTENDS Integers, FiniteSets

CONSTANTS
    QueueDepth,     \* queue_depth
    NRequests,      \* nrequests
    W,              \* the counters are unsigned, modulo W
    Failures        \* whether a call may fail

ASSUME ClientAssumption ==
    /\ QueueDepth \in Nat \ {0}
    /\ NRequests \in Nat
    /\ W \in Nat
    /\ NRequests + 2 * QueueDepth < W
    /\ Failures \in BOOLEAN

VARIABLES
    pc,             \* "test", "send", "loop" or "done"
    i,              \* the index of the sending loop
    req_complete,
    req_tosend,
    req_out,
    req_sched,
    req_id,
    req_time,       \* the keys of the map of start times
    pending,        \* requests whose call is under way
    lost            \* requests whose call has failed

vars == <<pc, i, req_complete, req_tosend, req_out, req_sched, req_id,
          req_time, pending, lost>>

\* Unsigned arithmetic.
Add(a, b) == IF a + b < W THEN a + b ELSE a + b - W
Sub(a, b) == IF a >= b THEN a - b ELSE a + W - b

Init ==
    /\ pc = "test"
    /\ i = 0
    /\ req_complete = 0
    /\ req_tosend = QueueDepth
    /\ req_out = 0
    /\ req_sched = 0
    /\ req_id = 1
    /\ req_time = {}
    /\ pending = {}
    /\ lost = {}

\* while (req_complete.load() < nrequests)
Test ==
    /\ pc = "test"
    /\ pc' = IF req_complete < NRequests THEN "send" ELSE "done"
    /\ i' = 0
    /\ UNCHANGED <<req_complete, req_tosend, req_out, req_sched, req_id,
                   req_time, pending, lost>>

\* Mutant: req_out is not incremented.
Send_NotCounted ==
    /\ pc = "send"
    /\ i < req_tosend
    /\ req_time' = req_time \cup {req_id}
    /\ req_sched' = Add(req_sched, 1)
    /\ pending' = pending \cup {req_id}
    /\ req_id' = req_id + 1
    /\ i' = i + 1
    /\ UNCHANGED <<pc, req_complete, req_tosend, req_out, lost>>

\* The body of the sending loop.
Send ==
    /\ pc = "send"
    /\ i < req_tosend
    /\ req_time' = req_time \cup {req_id}
    /\ req_sched' = Add(req_sched, 1)
    /\ pending' = pending \cup {req_id}
    /\ req_out' = Add(req_out, 1)
    /\ req_id' = req_id + 1
    /\ i' = i + 1
    /\ UNCHANGED <<pc, req_complete, req_tosend, lost>>

SendEnd ==
    /\ pc = "send"
    /\ i >= req_tosend
    /\ pc' = "loop"
    /\ UNCHANGED <<i, req_complete, req_tosend, req_out, req_sched, req_id,
                   req_time, pending, lost>>

\* loopOnce calls the continuation of one answer.
Callback(id) ==
    /\ pc = "loop"
    /\ id \in pending
    /\ id \in req_time
    /\ pending' = pending \ {id}
    /\ req_time' = req_time \ {id}
    /\ req_complete' = Add(req_complete, 1)
    /\ req_out' = Sub(req_out, 1)
    /\ UNCHANGED <<pc, i, req_tosend, req_sched, req_id, lost>>

\* loopOnce fails a call: the continuation takes a value, so nothing runs.
Fail(id) ==
    /\ Failures
    /\ pc = "loop"
    /\ id \in pending
    /\ pending' = pending \ {id}
    /\ lost' = lost \cup {id}
    /\ UNCHANGED <<pc, i, req_complete, req_tosend, req_out, req_sched, req_id,
                   req_time>>

\* Mutant: compares with what was sent instead of what was answered.
Clamp_Sent(room) ==
    IF Add(room, req_sched) > NRequests
    THEN IF req_sched < NRequests THEN Sub(NRequests, req_sched) ELSE 0
    ELSE room

\* What to send next: fill the window, but no more than are missing.
Clamp(room) ==
    IF Add(room, req_complete) > NRequests
    THEN IF req_complete < NRequests THEN Sub(NRequests, req_complete) ELSE 0
    ELSE room

\* Mutant: refills a whole queue depth, whatever is still out.
Refill_IgnoresOut ==
    /\ pc = "loop"
    /\ req_tosend' = Clamp(QueueDepth)
    /\ pc' = "test"
    /\ UNCHANGED <<i, req_complete, req_out, req_sched, req_id, req_time,
                   pending, lost>>

\* loopOnce returns.
Refill ==
    /\ pc = "loop"
    /\ req_tosend' = Clamp(Sub(QueueDepth, req_out))
    /\ pc' = "test"
    /\ UNCHANGED <<i, req_complete, req_out, req_sched, req_id, req_time,
                   pending, lost>>

Settle == \E id \in pending : Callback(id) \/ Fail(id)

Next == Test \/ Send \/ SendEnd \/ Refill \/ Settle

Spec == Init /\ [][Next]_vars

(***************************************************************************)
(* The thread runs, and the server answers or fails every call in time: as *)
(* long as calls are under way loopOnce does not for ever return without   *)
(* having settled one.                                                     *)
(***************************************************************************)
FairSpec == Spec /\ WF_vars(Next) /\ SF_vars(Settle)

-----------------------------------------------------------------------------
\* Every counter is a natural number below W, every set one of request ids.
TypeOK ==
    /\ pc \in {"test", "send", "loop", "done"}
    /\ i \in 0 .. W - 1
    /\ req_complete \in 0 .. W - 1
    /\ req_tosend \in 0 .. W - 1
    /\ req_out \in 0 .. W - 1
    /\ req_sched \in 0 .. W - 1
    /\ req_id \in Nat \ {0}
    /\ req_time \in SUBSET (1 .. req_id - 1)
    /\ pending \in SUBSET (1 .. req_id - 1)
    /\ lost \in SUBSET (1 .. req_id - 1)

(***************************************************************************)
(* The unsigned subtractions in the continuation and in the refill never   *)
(* wrap: the window counter is the number of requests started and not      *)
(* answered, at most the queue depth, and stays so while requests are sent *)
(* with an out-of-date req_tosend.                                         *)
(***************************************************************************)
OutWindow ==
    /\ req_out = Cardinality(req_time)
    /\ req_out <= QueueDepth
    /\ pc = "send" => req_out + (req_tosend - i) <= QueueDepth

(***************************************************************************)
(* An answer always finds its start time (the assert in the continuation), *)
(* also when answers come in any order and after other calls failed.       *)
(***************************************************************************)
TimesKept ==
    /\ pending \cap lost = {}
    /\ req_time = pending \cup lost

(***************************************************************************)
(* The refill compares with the requests that are answered, not with those *)
(* that are sent, so more than nrequests are sent; but never as much as a  *)
(* full queue depth more.                                                  *)
(***************************************************************************)
OvershootBounded ==
    /\ req_sched = req_complete + req_out
    /\ req_sched <= NRequests + QueueDepth - 1

\* The window is exact: what is out is counted, and each has its start time.
WindowExact == OutWindow /\ TimesKept

\* Between refill and sending, req_tosend still fits the window and the run.
RefillFits ==
    /\ pc = "test" => req_out + req_tosend <= QueueDepth
    /\ pc = "send" => i <= req_tosend /\ req_complete < NRequests

\* The inductive invariant of the window.
WindowInv == TypeOK /\ OutWindow /\ TimesKept /\ OvershootBounded /\ RefillFits

(***************************************************************************)
(* A failed call holds its place in the window for ever.  The loop still   *)
(* ends as long as one place is left.                                      *)
(***************************************************************************)
EndsUnlessWindowLost ==
    <>(pc = "done") \/ <>(Cardinality(lost) = QueueDepth)
=============================================================================
