------------------------ MODULE StorageClientProofs ------------------------
(***************************************************************************)
(* Proofs about a client thread of StorageRpc or of the domain socket, for *)
(* every queue depth, number of requests and rate, limited or not, with    *)
(* calls that fail.                                                        *)
(***************************************************************************)
EXTENDS StorageClient, TLAPS

\* The arithmetic of the constants.
LEMMA Bounds ==
    /\ QueueDepth \in Nat /\ QueueDepth >= 1 /\ Requests \in Nat
    /\ RateLimit \in Nat /\ MaxSent \in Nat /\ W \in Nat
    /\ Requests + QueueDepth <= MaxSent /\ MaxSent + QueueDepth < W
  BY StorageAssumption

\* Sums are monotone.
LEMMA SumMonotone ==
    ASSUME NEW a \in Nat, NEW b \in Nat, NEW c \in Nat, NEW d \in Nat,
           a <= c, b <= d
    PROVE  a + b <= c + d
  OBVIOUS

\* The invariant holds before the first round.
LEMMA StorageInit == Init => StorageInv
<1> SUFFICES ASSUME Init PROVE StorageInv
  OBVIOUS
<1> USE Bounds DEF Init
<1>1. current_depth \in 1 .. QueueDepth /\ to_send = current_depth
  OBVIOUS
<1>2. TypeOK
  BY <1>1 DEF TypeOK
<1>3. CallsExact /\ OutExact /\ StatsAddUp
  BY DEF CallsExact, OutExact, StatsAddUp, pending, Sub
<1>4. SentBounded /\ RoundFits /\ FixedWindow
  BY <1>1 DEF SentBounded, RoundFits, FixedWindow
<1> QED BY <1>2, <1>3, <1>4 DEF StorageInv

\* The adapted depth stays in its range.
LEMMA NewDepthRange == TypeOK => NewDepth \in 1 .. QueueDepth
<1> SUFFICES ASSUME TypeOK PROVE NewDepth \in 1 .. QueueDepth
  OBVIOUS
<1> USE Bounds DEF TypeOK
<1>1. /\ current_depth \in Nat /\ current_depth >= 1 /\ current_depth <= QueueDepth
      /\ ios_in_last_second \in Nat
  OBVIOUS
<1>2. Add(current_depth, 1) = current_depth + 1
  BY <1>1 DEF Add
<1>3. Sub(current_depth, 1) = current_depth - 1
  BY <1>1 DEF Sub
<1> DEFINE d == CASE ios_in_last_second < RateLimit -> Add(current_depth, 1)
                  [] ios_in_last_second > RateLimit -> Sub(current_depth, 1)
                  [] OTHER -> current_depth
<1>4. d \in Nat
  BY <1>1, <1>2, <1>3
<1>5. NewDepth = IF d > QueueDepth THEN QueueDepth ELSE IF d = 0 THEN 1 ELSE d
  BY DEF NewDepth
<1> HIDE DEF d
<1> QED BY <1>4, <1>5

\* The facts about the counters that most steps need.
LEMMA Counters ==
    StorageInv =>
        /\ i \in Nat /\ to_send \in Nat /\ ios_in_last_second \in Nat
        /\ req_id \in Nat /\ req_id <= MaxSent /\ req_sent \in Nat
        /\ req_complete \in Nat /\ req_out \in Nat /\ total_ios \in Nat
        /\ wire \in Nat /\ answers \in Nat /\ lost \in Nat
        /\ pending = wire + answers
        /\ req_id = req_complete + pending + lost
        /\ counting => req_out = pending + lost /\ req_sent = req_id
        /\ ~counting => req_sent = 0 /\ req_out = Sub(0, req_complete)
        /\ to_send <= QueueDepth
  BY Bounds DEF StorageInv, TypeOK, CallsExact, OutExact, RoundFits, pending

\* A call sent, answered or lost leaves the sums right.
LEMMA SendStep == StorageInv /\ Send => StorageInv'
<1> SUFFICES ASSUME StorageInv, Send PROVE StorageInv'
  OBVIOUS
<1> USE Bounds
<1>0. /\ pc = "send" /\ pc' = "send" /\ i < to_send /\ i' = i + 1
      /\ req_id' = req_id + 1 /\ wire' = wire + 1 /\ req_id < MaxSent
      /\ UNCHANGED <<kind, current_depth, to_send, ios_in_last_second,
                     req_complete, total_ios, answers, lost>>
  BY DEF Send
<1>1. /\ counting => req_out' = req_out + 1 /\ req_sent' = req_sent + 1
      /\ ~counting => req_out' = req_out /\ req_sent' = req_sent
  BY <1>0, Counters DEF Send, Count, Add
<1>2. /\ counting' = counting /\ adaptive' = adaptive /\ unlimited' = unlimited
      /\ pending' = pending + 1
  BY <1>0, Counters DEF counting, adaptive, unlimited, pending
<1>3. TypeOK'
  <2>1. req_sent' \in 0 .. W - 1 /\ req_out' \in 0 .. W - 1
    BY <1>0, <1>1, Counters DEF StorageInv, TypeOK
  <2> QED BY <1>0, <2>1, Counters DEF StorageInv, TypeOK
<1>4. CallsExact' /\ OutExact'
  BY <1>0, <1>1, <1>2, Counters DEF CallsExact, OutExact, Sub
<1>5. StatsAddUp'
  BY <1>0, <1>1, <1>2, Counters DEF StorageInv, StatsAddUp
<1>6. SentBounded' /\ RoundFits' /\ FixedWindow'
  <2>1. adaptive \/ counting
    BY DEF adaptive, counting
  <2> QED BY <1>0, <1>1, <1>2, <2>1, Counters
          DEF StorageInv, SentBounded, RoundFits, FixedWindow
<1> QED BY <1>3, <1>4, <1>5, <1>6 DEF StorageInv

\* A callback preserves the invariant.
LEMMA CallbackStep == StorageInv /\ Callback => StorageInv'
<1> SUFFICES ASSUME StorageInv, Callback PROVE StorageInv'
  OBVIOUS
<1> USE Bounds
<1>0. /\ pc = "loop" /\ answers > 0 /\ answers' = answers - 1
      /\ UNCHANGED <<kind, pc, i, current_depth, to_send, ios_in_last_second,
                     req_id, req_sent, total_ios, wire, lost>>
  BY DEF Callback
<1>1. req_complete' = req_complete + 1 /\ req_complete + 1 < W
  BY <1>0, Counters DEF Callback, Add
<1>2. /\ counting => req_out' = req_out - 1
      /\ ~counting => req_out' = Sub(0, req_complete + 1)
      /\ req_out' \in 0 .. W - 1
  BY <1>0, <1>1, Counters DEF Callback, Sub
<1>3. /\ counting' = counting /\ adaptive' = adaptive /\ unlimited' = unlimited
      /\ pending' = pending - 1
  BY <1>0, Counters DEF counting, adaptive, unlimited, pending
<1>4. TypeOK'
  BY <1>0, <1>1, <1>2, Counters DEF StorageInv, TypeOK
<1>5. CallsExact' /\ OutExact'
  BY <1>0, <1>1, <1>2, <1>3, Counters DEF CallsExact, OutExact, Sub
<1>6. StatsAddUp'
  BY <1>0, Counters DEF StorageInv, StatsAddUp
<1>7. SentBounded' /\ RoundFits' /\ FixedWindow'
  <2>1. adaptive \/ counting
    BY DEF adaptive, counting
  <2> QED BY <1>0, <1>2, <1>3, <2>1, Counters
          DEF StorageInv, SentBounded, RoundFits, FixedWindow
<1> QED BY <1>4, <1>5, <1>6, <1>7 DEF StorageInv

\* A call that is served or fails preserves the invariant.
LEMMA MovedStep == StorageInv /\ (Serve \/ Fail) => StorageInv'
<1> SUFFICES ASSUME StorageInv, Serve \/ Fail PROVE StorageInv'
  OBVIOUS
<1> USE Bounds
<1>0. /\ wire' \in Nat /\ answers' \in Nat /\ lost' \in Nat
      /\ UNCHANGED <<kind, pc, i, current_depth, to_send, ios_in_last_second,
                     req_id, req_sent, req_complete, req_out, total_ios>>
  BY Counters DEF Serve, Fail
<1>1. /\ counting' = counting /\ adaptive' = adaptive /\ unlimited' = unlimited
  BY <1>0 DEF counting, adaptive, unlimited
<1>2. \/ pending' = pending /\ lost' = lost
      \/ pending' = pending - 1 /\ lost' = lost + 1
  BY Counters DEF Serve, Fail, pending
<1>3. TypeOK'
  BY <1>0 DEF StorageInv, TypeOK
<1>4. CallsExact' /\ OutExact'
  BY <1>0, <1>1, <1>2, Counters DEF CallsExact, OutExact, Sub
<1>5. StatsAddUp' /\ SentBounded' /\ RoundFits' /\ FixedWindow'
  BY <1>0, <1>1 DEF StorageInv, StatsAddUp, SentBounded, RoundFits, FixedWindow
<1> QED BY <1>3, <1>4, <1>5 DEF StorageInv

(***************************************************************************)
(* What Refill computes: at most a queue depth, nothing once a limited run *)
(* has sent enough, and at most what a fixed depth leaves.                 *)
(***************************************************************************)
LEMMA ToSendRange ==
    ASSUME StorageInv, NEW depth \in 1 .. QueueDepth,
           ~adaptive => depth = QueueDepth
    PROVE  /\ ToSend(depth) \in 0 .. QueueDepth
           /\ counting /\ ~unlimited /\ req_sent > Requests => ToSend(depth) = 0
           /\ ~adaptive => req_out + ToSend(depth) <= QueueDepth
<1> USE Bounds
<1>1. depth >= req_out => Sub(depth, req_out) = depth - req_out
  BY Counters DEF Sub
<1>2. ~adaptive => depth >= req_out /\ req_out <= QueueDepth
  BY Counters DEF StorageInv, FixedWindow
<1>3. ~counting => adaptive /\ req_sent <= Requests
  BY Counters DEF counting, adaptive, unlimited
<1>5. CASE req_sent > Requests /\ ~unlimited
  BY <1>2, <1>3, <1>5, Counters DEF ToSend
<1>6. CASE ~(req_sent > Requests /\ ~unlimited) /\ depth >= req_out
  BY <1>1, <1>6, Counters DEF ToSend
<1>7. CASE ~(req_sent > Requests /\ ~unlimited) /\ ~(depth >= req_out)
  <2>1. adaptive
    BY <1>2, <1>7
  <2>2. ToSend(depth) = 1
    BY <1>7, <2>1 DEF ToSend
  <2> QED BY <1>7, <2>1, <2>2
<1> QED BY <1>5, <1>6, <1>7

\* A refill of the window preserves the invariant.
LEMMA RefillStep == StorageInv /\ Refill => StorageInv'
<1> SUFFICES ASSUME StorageInv, Refill PROVE StorageInv'
  OBVIOUS
<1> USE Bounds
<1>0. /\ pc = "loop" /\ pc' = "test" /\ to_send' = ToSend(current_depth')
      /\ UNCHANGED <<kind, i, req_id, req_sent, req_complete, req_out, wire,
                     answers, lost>>
  BY DEF Refill
<1>1. /\ current_depth' \in 1 .. QueueDepth
      /\ ~adaptive => current_depth' = QueueDepth
      /\ total_ios' \in Nat /\ ios_in_last_second' \in 0 .. W - 1
      /\ total_ios' + ios_in_last_second' = total_ios + ios_in_last_second
  <2>1. CASE Second
    BY <2>1, Counters, NewDepthRange DEF Second, StorageInv
  <2>2. CASE UNCHANGED <<total_ios, current_depth, ios_in_last_second>>
    BY <2>2 DEF StorageInv, TypeOK, FixedWindow
  <2> QED BY <2>1, <2>2 DEF Refill
<1>2. /\ to_send' \in 0 .. QueueDepth
      /\ counting /\ ~unlimited /\ req_sent > Requests => to_send' = 0
      /\ ~adaptive => req_out + to_send' <= QueueDepth
  BY <1>0, <1>1, ToSendRange
<1>3. /\ counting' = counting /\ adaptive' = adaptive /\ unlimited' = unlimited
      /\ pending' = pending
  BY <1>0 DEF counting, adaptive, unlimited, pending
<1>4. TypeOK'
  BY <1>0, <1>1, <1>2, Counters DEF StorageInv, TypeOK
<1>5. CallsExact' /\ OutExact'
  BY <1>0, <1>3 DEF StorageInv, CallsExact, OutExact, Sub
<1>6. StatsAddUp'
  BY <1>0, <1>1, Counters DEF StorageInv, StatsAddUp
<1>7. SentBounded'
  BY <1>0, <1>3 DEF StorageInv, SentBounded
<1>8. RoundFits'
  <2>1. ASSUME counting, ~unlimited PROVE req_sent + to_send' <= Requests + QueueDepth
    <3>1. CASE req_sent > Requests
      <4>1. to_send' = 0 /\ req_sent <= Requests + QueueDepth
        BY <1>2, <2>1, <3>1 DEF StorageInv, SentBounded
      <4> QED BY <4>1, Counters
    <3>2. CASE req_sent <= Requests
      <4>1. to_send' \in Nat /\ to_send' <= QueueDepth
        BY <1>2
      <4>2. req_sent \in Nat /\ Requests \in Nat /\ QueueDepth \in Nat
        BY Counters
      <4> QED BY <3>2, <4>1, <4>2, SumMonotone
    <3> QED BY <3>1, <3>2, Counters
  <2> QED BY <1>0, <1>2, <1>3, <2>1 DEF RoundFits
<1>9. FixedWindow'
  BY <1>0, <1>1, <1>2, <1>3 DEF StorageInv, FixedWindow
<1> QED BY <1>4, <1>5, <1>6, <1>7, <1>8, <1>9 DEF StorageInv

\* Every step keeps the invariant.
LEMMA StorageStep == StorageInv /\ [Next]_vars => StorageInv'
<1> SUFFICES ASSUME StorageInv, [Next]_vars PROVE StorageInv'
  OBVIOUS
<1> USE Bounds
<1>1. CASE Test
  <2>0. /\ pc = "test" /\ pc' \in {"send", "done"} /\ i' = 0
        /\ UNCHANGED <<kind, current_depth, to_send, ios_in_last_second, req_id,
                       req_sent, req_complete, req_out, total_ios, wire,
                       answers, lost>>
    BY <1>1 DEF Test
  <2>1. /\ counting' = counting /\ adaptive' = adaptive /\ unlimited' = unlimited
        /\ pending' = pending
    BY <2>0 DEF counting, adaptive, unlimited, pending
  <2>2. TypeOK'
    BY <2>0 DEF StorageInv, TypeOK
  <2>3. CallsExact' /\ OutExact'
    BY <2>0, <2>1 DEF StorageInv, CallsExact, OutExact, Sub
  <2>4. StatsAddUp'
    BY <2>0, Counters DEF StorageInv, StatsAddUp
  <2>5. SentBounded' /\ RoundFits' /\ FixedWindow'
    BY <2>0, <2>1, Counters
    DEF StorageInv, SentBounded, RoundFits, FixedWindow
  <2> QED BY <2>2, <2>3, <2>4, <2>5 DEF StorageInv
<1>2. CASE SendEnd
  <2>0. /\ pc = "send" /\ pc' = "loop" /\ i = to_send
        /\ UNCHANGED <<kind, i, current_depth, to_send, req_id, req_sent,
                       req_complete, req_out, total_ios, wire, answers, lost>>
    BY <1>2, Counters DEF SendEnd, StorageInv, RoundFits
  <2>1. /\ counting' = counting /\ adaptive' = adaptive /\ unlimited' = unlimited
        /\ pending' = pending
    BY <2>0 DEF counting, adaptive, unlimited, pending
  <2>2. total_ios + ios_in_last_second + i = req_id
    BY <2>0 DEF StorageInv, StatsAddUp
  <2>3. ios_in_last_second' = ios_in_last_second + to_send
    BY <1>2, <2>0, <2>2, Counters DEF SendEnd, Add
  <2>4. TypeOK'
    BY <2>0, <2>2, <2>3, Counters DEF StorageInv, TypeOK
  <2>5. CallsExact' /\ OutExact'
    BY <2>0, <2>1 DEF StorageInv, CallsExact, OutExact, Sub
  <2>6. StatsAddUp'
    BY <2>0, <2>2, <2>3, Counters DEF StatsAddUp
  <2>7. SentBounded' /\ RoundFits' /\ FixedWindow'
    BY <2>0, <2>1
    DEF StorageInv, SentBounded, RoundFits, FixedWindow
  <2> QED BY <2>4, <2>5, <2>6, <2>7 DEF StorageInv
<1>3. CASE UNCHANGED vars
  BY <1>3 DEF vars, counting, adaptive, unlimited, pending, StorageInv, TypeOK, CallsExact,
              OutExact, StatsAddUp, SentBounded, RoundFits, FixedWindow,
              Sub
<1> QED BY <1>1, <1>2, <1>3, SendStep, CallbackStep, MovedStep, RefillStep
        DEF Next, Loop, Settle

\* The invariant of a client thread, whatever benchmark it runs.
THEOREM StorageCorrect == Spec => []StorageInv
  BY StorageInit, StorageStep, PTL DEF Spec

(***************************************************************************)
(* The counters stay unsigned numbers, and the adapted depth between 1 and *)
(* the queue depth.                                                        *)
(***************************************************************************)
THEOREM StorageTypeCorrect == Spec => []TypeOK
<1>1. StorageInv => TypeOK
  BY DEF StorageInv
<1> QED BY <1>1, StorageCorrect, PTL

(***************************************************************************)
(* If what is sent is counted, req_out never wraps in the continuation.    *)
(***************************************************************************)
THEOREM OutExactCorrect == Spec => []OutExact
<1>1. StorageInv => OutExact
  BY DEF StorageInv
<1> QED BY <1>1, StorageCorrect, PTL

(***************************************************************************)
(* The statistics add up to what was sent, when the seconds pass does not  *)
(* matter.                                                                 *)
(***************************************************************************)
THEOREM StatsCorrect == Spec => []StatsAddUp
<1>1. StorageInv => StatsAddUp
  BY DEF StorageInv
<1> QED BY <1>1, StorageCorrect, PTL

\* A limited run of a client that counts sends at most one queue depth too
\* many.
THEOREM SentCorrect == Spec => []SentBounded
<1>1. StorageInv => SentBounded
  BY DEF StorageInv
<1> QED BY <1>1, StorageCorrect, PTL

(***************************************************************************)
(* BenchmarkSend and BenchmarkSendNoData, whose depth is fixed, maintain   *)
(* the queue depth.                                                        *)
(***************************************************************************)
THEOREM FixedDepthCorrect == Spec => []FixedMaintainsDepth
<1>1. StorageInv => FixedMaintainsDepth
  <2>1. ~adaptive => counting
    BY DEF adaptive, counting
  <2> QED BY <2>1, Bounds, Counters
          DEF StorageInv, FixedWindow, FixedMaintainsDepth
<1> QED BY <1>1, StorageCorrect, PTL
=============================================================================
