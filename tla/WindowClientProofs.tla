------------------------- MODULE WindowClientProofs -------------------------
(***************************************************************************)
(* Proofs about the client's sliding window, for every queue depth, number *)
(* of requests and counter width that fits them, and with calls that fail. *)
(***************************************************************************)
EXTENDS WindowClient, FiniteSetTheorems, TLAPS

\* The set of start times is finite, so that its size can be counted.
LEMMA TimesFinite == TypeOK => IsFiniteSet(req_time) /\ Cardinality(req_time) \in Nat
<1> SUFFICES ASSUME TypeOK PROVE IsFiniteSet(req_time)
  BY FS_CardinalityType
<1>1. IsFiniteSet(1 .. req_id - 1)
  BY FS_Interval DEF TypeOK
<1> QED BY <1>1, FS_Subset DEF TypeOK

\* The invariant of the window holds at the start.
LEMMA WindowInit == Init => WindowInv
<1> SUFFICES ASSUME Init PROVE WindowInv
  OBVIOUS
<1> USE ClientAssumption DEF Init
<1>1. TypeOK
  BY DEF TypeOK
<1>2. OutWindow
  BY FS_EmptySet DEF OutWindow
<1>3. TimesKept /\ OvershootBounded /\ RefillFits
  BY DEF TimesKept, OvershootBounded, RefillFits
<1> QED BY <1>1, <1>2, <1>3 DEF WindowInv

\* What refills the window neither exceeds the room left in it nor wraps.
LEMMA RefillRoom ==
    ASSUME WindowInv
    PROVE  /\ Sub(QueueDepth, req_out) = QueueDepth - req_out
           /\ Clamp(Sub(QueueDepth, req_out)) \in 0 .. QueueDepth - req_out
<1> USE ClientAssumption DEF WindowInv, TypeOK, OutWindow, OvershootBounded
<1>1. Sub(QueueDepth, req_out) = QueueDepth - req_out
  BY DEF Sub
<1>2. Add(QueueDepth - req_out, req_complete) = QueueDepth - req_out + req_complete
  BY DEF Add
<1> QED BY <1>1, <1>2 DEF Clamp, Sub

\* Every step preserves the invariant of the window.
LEMMA WindowStep == WindowInv /\ [Next]_vars => WindowInv'
<1> SUFFICES ASSUME WindowInv, [Next]_vars PROVE WindowInv'
  OBVIOUS
<1> USE ClientAssumption
<1>0. IsFiniteSet(req_time) /\ Cardinality(req_time) \in Nat
  BY TimesFinite DEF WindowInv
<1>1. CASE Test
  <2>1. TypeOK'
    BY <1>1 DEF Test, WindowInv, TypeOK
  <2>2. OutWindow'
    BY <1>1 DEF Test, WindowInv, TypeOK, OutWindow, RefillFits
  <2>3. TimesKept' /\ OvershootBounded'
    BY <1>1 DEF Test, WindowInv, TimesKept, OvershootBounded
  <2>4. RefillFits'
    BY <1>1 DEF Test, WindowInv, TypeOK, RefillFits
  <2> QED BY <2>1, <2>2, <2>3, <2>4 DEF WindowInv
<1>2. CASE Send
  <2>0. /\ pc = "send" /\ i < req_tosend /\ i \in Nat /\ req_tosend \in Nat
        /\ req_out \in Nat /\ req_sched \in Nat /\ req_complete \in Nat
        /\ req_out + (req_tosend - i) <= QueueDepth
        /\ req_sched = req_complete + req_out /\ req_complete < NRequests
    BY <1>2 DEF Send, WindowInv, TypeOK, OutWindow, OvershootBounded, RefillFits
  <2>1. /\ req_out' = req_out + 1
        /\ req_sched' = req_sched + 1
        /\ req_out + 1 <= QueueDepth
        /\ req_sched + 1 <= NRequests + QueueDepth - 1
    BY <2>0, <1>2 DEF Send, Add
  <2>2. TypeOK'
    <3>1. /\ req_time' \in SUBSET (1 .. req_id' - 1)
          /\ pending' \in SUBSET (1 .. req_id' - 1)
          /\ lost' \in SUBSET (1 .. req_id' - 1)
          /\ req_id' \in Nat
      <4>1. req_id \in Nat \ {0} /\ req_id' = req_id + 1
        BY <1>2 DEF Send, WindowInv, TypeOK
      <4>2. /\ 1 .. req_id - 1 \subseteq 1 .. req_id' - 1
            /\ req_id \in 1 .. req_id' - 1
        BY <4>1
      <4> QED BY <4>1, <4>2, <1>2 DEF Send, WindowInv, TypeOK
    <3>2. /\ i' \in 0 .. W - 1 /\ req_out' \in 0 .. W - 1
          /\ req_sched' \in 0 .. W - 1
      BY <2>0, <2>1, <1>2 DEF Send, WindowInv, TypeOK
    <3> QED BY <3>1, <3>2, <1>2 DEF Send, WindowInv, TypeOK
  <2>3. OutWindow'
    <3>1. req_id \notin req_time
      BY DEF WindowInv, TypeOK
    <3>2. Cardinality(req_time') = Cardinality(req_time) + 1
      BY <3>1, <1>0, <1>2, FS_AddElement DEF Send
    <3> QED BY <2>0, <2>1, <3>2, <1>2 DEF Send, WindowInv, OutWindow
  <2>4. TimesKept'
    BY <1>2 DEF Send, WindowInv, TypeOK, TimesKept
  <2>5. OvershootBounded'
    BY <2>0, <2>1, <1>2 DEF Send, OvershootBounded
  <2>6. RefillFits'
    BY <2>0, <1>2 DEF Send, RefillFits
  <2> QED BY <2>2, <2>3, <2>4, <2>5, <2>6 DEF WindowInv
<1>3. CASE SendEnd
  BY <1>3 DEF SendEnd, WindowInv, TypeOK, OutWindow, TimesKept, OvershootBounded, RefillFits
<1>4. ASSUME NEW id \in pending, Callback(id) PROVE WindowInv'
  <2>1. Cardinality(req_time') = Cardinality(req_time) - 1
    BY <1>4, <1>0, FS_RemoveElement DEF Callback
  <2>2. Cardinality(req_time') \in Nat
    BY <1>4, <1>0, FS_RemoveElement, FS_CardinalityType DEF Callback
  <2>3. /\ req_out \in Nat /\ req_complete \in Nat /\ req_sched \in Nat
        /\ req_out = Cardinality(req_time)
        /\ req_out <= QueueDepth
        /\ req_sched = req_complete + req_out
        /\ req_sched <= NRequests + QueueDepth - 1
    BY DEF WindowInv, TypeOK, OutWindow, OvershootBounded
  <2>4. /\ req_out' = req_out - 1 /\ req_out >= 1
        /\ req_complete' = req_complete + 1
        /\ req_complete + 1 <= req_sched
    BY <2>1, <2>2, <2>3, <1>4 DEF Callback, Sub, Add
  <2>5. TypeOK'
    BY <2>3, <2>4, <1>4 DEF Callback, WindowInv, TypeOK
  <2>6. OutWindow'
    BY <2>1, <2>3, <2>4, <1>4 DEF Callback, OutWindow
  <2>7. TimesKept'
    BY <1>4 DEF Callback, WindowInv, TimesKept
  <2>8. OvershootBounded'
    BY <2>3, <2>4, <1>4 DEF Callback, OvershootBounded
  <2>9. RefillFits'
    BY <1>4 DEF Callback, RefillFits
  <2> QED BY <2>5, <2>6, <2>7, <2>8, <2>9 DEF WindowInv
<1>5. ASSUME NEW id \in pending, Fail(id) PROVE WindowInv'
  BY <1>5 DEF Fail, WindowInv, TypeOK, OutWindow, TimesKept, OvershootBounded, RefillFits
<1>6. CASE Refill
  <2>1. req_tosend' \in 0 .. QueueDepth - req_out
    BY <1>6, RefillRoom DEF Refill
  <2>2. /\ req_out \in Nat /\ req_out <= QueueDepth
        /\ req_tosend' \in Nat /\ req_out + req_tosend' <= QueueDepth
    BY <2>1 DEF WindowInv, TypeOK, OutWindow
  <2>3. TypeOK'
    BY <1>6, <2>2 DEF Refill, WindowInv, TypeOK
  <2>4. OutWindow' /\ TimesKept' /\ OvershootBounded'
    BY <1>6 DEF Refill, WindowInv, OutWindow, TimesKept, OvershootBounded
  <2>5. RefillFits'
    BY <1>6, <2>2 DEF Refill, RefillFits
  <2> QED BY <2>3, <2>4, <2>5 DEF WindowInv
<1>7. CASE UNCHANGED vars
  BY <1>7 DEF vars, WindowInv, TypeOK, OutWindow, TimesKept, OvershootBounded, RefillFits
<1> QED BY <1>1, <1>2, <1>3, <1>4, <1>5, <1>6, <1>7 DEF Next, Settle

-----------------------------------------------------------------------------
(***************************************************************************)
(* The window's inductive invariant holds for every queue depth and every  *)
(* number of requests.                                                     *)
(***************************************************************************)
THEOREM WindowCorrect == Spec => []WindowInv
BY WindowInit, WindowStep, PTL DEF Spec

\* The counters stay in range and every request has an id of its own.
THEOREM WindowTypeCorrect == Spec => []TypeOK
<1>1. WindowInv => TypeOK
  BY DEF WindowInv
<1> QED BY <1>1, WindowCorrect, PTL

(***************************************************************************)
(* The client never has more than queue_depth requests out, and neither of *)
(* its unsigned subtractions wraps; the assert on req_time in the          *)
(* continuation cannot fail.                                               *)
(***************************************************************************)
THEOREM WindowExactCorrect == Spec => []WindowExact
<1>1. WindowInv => WindowExact
  BY DEF WindowInv, WindowExact
<1> QED BY <1>1, WindowCorrect, PTL

\* At most nrequests + queue_depth - 1 requests are ever sent.
THEOREM OvershootCorrect == Spec => []OvershootBounded
<1>1. WindowInv => OvershootBounded
  BY DEF WindowInv
<1> QED BY <1>1, WindowCorrect, PTL
=============================================================================
