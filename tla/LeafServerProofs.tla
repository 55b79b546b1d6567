-------------------------- MODULE LeafServerProofs --------------------------
(***************************************************************************)
(* Proofs about the asynchronous-I/O engine and the leaf server's handlers *)
(* that use it, for any number of requests, files, event bases, ring slots *)
(* and racing init() calls.                                                *)
(***************************************************************************)
EXTENDS LeafServer, SequenceTheorems, FiniteSetTheorems, WellFoundedInduction,
        TLAPS

-----------------------------------------------------------------------------
(* The engine: theorems of Spec, whoever calls it.                         *)

(***************************************************************************)
(* iosCompleted's std::swap with back() followed by pop_back() removes     *)
(* exactly the element found: no other entry is lost or duplicated.        *)
(***************************************************************************)
LEMMA SwapRemoveFacts ==
    ASSUME NEW S, NEW s \in Seq(S), NEW i \in DOMAIN s, IsInjective(s)
    PROVE  /\ SwapRemove(s, i) \in Seq(S)
           /\ IsInjective(SwapRemove(s, i))
           /\ Range(SwapRemove(s, i)) = Range(s) \ {s[i]}
<1> DEFINE n == Len(s) - 1
           r == SwapRemove(s, i)
<1>1. /\ DOMAIN s = 1 .. Len(s) /\ Len(s) \in Nat \ {0} /\ n \in Nat
      /\ i \in 1 .. Len(s)
  OBVIOUS
<1>2. r = [j \in 1 .. n |-> IF j = i THEN s[Len(s)] ELSE s[j]]
  BY DEF SwapRemove
<1> HIDE DEF r
<1>3. r \in [1 .. n -> S]
  <2>1. \A j \in 1 .. n : (IF j = i THEN s[Len(s)] ELSE s[j]) \in S
    BY <1>1
  <2> QED BY <2>1, <1>2
<1>4. r \in Seq(S)
  BY <1>1, <1>3, IsASeq
<1>5. IsInjective(r)
  BY <1>1, <1>2 DEF IsInjective
<1>6. ASSUME NEW x \in Range(r) PROVE x \in Range(s) \ {s[i]}
  <2>1. PICK j \in 1 .. n : x = r[j]
    BY <1>6, <1>2 DEF Range
  <2> QED BY <2>1, <1>1, <1>2 DEF Range, IsInjective
<1>7. ASSUME NEW x \in Range(s) \ {s[i]} PROVE x \in Range(r)
  <2>1. PICK j \in 1 .. Len(s) : x = s[j] /\ j # i
    BY <1>7, <1>1 DEF Range
  <2>2. CASE j = Len(s)
    <3>1. i \in 1 .. n /\ r[i] = x
      BY <2>1, <2>2, <1>1, <1>2
    <3> QED BY <3>1, <1>2 DEF Range
  <2>3. CASE j # Len(s)
    <3>1. j \in 1 .. n
      <4>1. \A k \in Nat : \A m \in 1 .. k : m # k => m \in 1 .. k - 1
        OBVIOUS
      <4> QED BY <4>1, <2>3, <1>1
    <3>2. r[j] = x
      BY <3>1, <2>1, <1>2
    <3> QED BY <3>1, <3>2, <1>2 DEF Range
  <2> QED BY <2>2, <2>3
<1>8. Range(r) = Range(s) \ {s[i]}
  BY <1>6, <1>7
<1> QED BY <1>4, <1>5, <1>8 DEF r

\* ioSubmit's push_back of a request that is not in the vector.
LEMMA AppendFacts ==
    ASSUME NEW S, NEW s \in Seq(S), NEW x \in S, x \notin Range(s), IsInjective(s)
    PROVE  /\ Append(s, x) \in Seq(S)
           /\ IsInjective(Append(s, x))
           /\ Range(Append(s, x)) = Range(s) \cup {x}
<1> DEFINE r == Append(s, x)
<1>1. /\ DOMAIN s = 1 .. Len(s) /\ Len(s) \in Nat
      /\ r \in Seq(S) /\ DOMAIN r = 1 .. Len(s) + 1
      /\ \A j \in 1 .. Len(s) : r[j] = s[j]
      /\ r[Len(s) + 1] = x
  OBVIOUS
<1> HIDE DEF r
<1>2. IsInjective(r)
  BY <1>1 DEF IsInjective, Range
<1>3. Range(r) \subseteq Range(s) \cup {x}
  BY <1>1 DEF Range
<1>4. ASSUME NEW y \in Range(s) \cup {x} PROVE y \in Range(r)
  <2>1. CASE y = x
    BY <2>1, <1>1 DEF Range
  <2>2. CASE y \in Range(s)
    <3>1. PICK j \in 1 .. Len(s) : y = s[j]
      BY <2>2, <1>1 DEF Range
    <3>2. j \in 1 .. Len(s) + 1 /\ r[j] = y
      BY <3>1, <1>1
    <3> QED BY <3>2, <1>1 DEF Range
  <2> QED BY <2>1, <2>2
<1> QED BY <1>1, <1>2, <1>3, <1>4 DEF r

-----------------------------------------------------------------------------
\* The constructor establishes the engine's invariant.
LEMMA EngineInit == Init => EngineInv
<1> SUFFICES ASSUME Init PROVE EngineInv
  OBVIOUS
<1> USE ConstantsAssumption DEF Init
<1>1. TypeOK
  BY DEF TypeOK, Pc, Loop, Fds
<1>2. EventfdMade
  BY DEF EventfdMade, Fds
<1>3. InflightExact
  BY DEF InflightExact, IsInjective, Range, Submitted
<1>4. OneOwner
  BY DEF OneOwner, Range
<1> QED BY <1>1, <1>2, <1>3, <1>4 DEF EngineInv

-----------------------------------------------------------------------------
(* Types are preserved by each action. *)

\* Every step of the engine keeps the types.
LEMMA TypeStep == EngineInv /\ [Next]_vars => TypeOK'
<1> SUFFICES ASSUME EngineInv, [Next]_vars PROVE TypeOK'
  OBVIOUS
<1> USE ConstantsAssumption
        DEF EngineInv, TypeOK, Pc, Loop, initVars, submitVars, kernelVars, loopVars
<1>1. ASSUME NEW t \in Reqs, InitStep(t) PROVE TypeOK'
  <2>1. CASE InitEventfd(t)
    BY <2>1 DEF InitEventfd, Fds
  <2>2. CASE InitMake(t)
    BY <2>2 DEF InitMake, Fds
  <2>3. CASE InitAssign(t)
    BY <2>3 DEF InitAssign
  <2>4. CASE InitInstall(t)
    BY <2>4 DEF InitInstall, Fds
  <2>5. CASE InitRegister(t)
    BY <2>5 DEF InitRegister, EventfdMade
  <2> QED BY <1>1, <2>1, <2>2, <2>3, <2>4, <2>5 DEF InitStep
<1>2. ASSUME NEW t \in Reqs, SubmitStep(t) PROVE TypeOK'
  <2>1. CASE ioSubmitPush(t)
    BY <2>1 DEF ioSubmitPush
  <2>2. ASSUME NEW valid \in BOOLEAN, ioSubmitIssue(t, valid) PROVE TypeOK'
    BY <2>2 DEF ioSubmitIssue
  <2>3. CASE ioSubmitFuture(t)
    BY <2>3 DEF ioSubmitFuture
  <2> QED BY <1>2, <2>1, <2>2, <2>3 DEF SubmitStep
<1>3. ASSUME NEW t \in Reqs, KernelStep(t) PROVE TypeOK'
  <2>1. CASE KernelPost(t)
    BY <2>1 DEF KernelPost
  <2>2. CASE KernelSignal(t)
    <3>1. count' = [f \in Fds |-> IF f = iofd[t] THEN count[f] + 1 ELSE count[f]]
      BY <2>2 DEF KernelSignal
    <3>2. count' \in [Fds -> Nat]
      BY <3>1
    <3> QED BY <2>2, <3>2 DEF KernelSignal
  <2> QED BY <1>3, <2>1, <2>2 DEF KernelStep
<1>4. ASSUME NEW b \in Bases, LoopStep(b) PROVE TypeOK'
  <2>1. CASE handlerReady(b)
    BY <2>1 DEF handlerReady
  <2>2. CASE EventfdRead(b)
    <3>1. eventfd \in Fds
      BY <2>2 DEF EventfdRead, EventfdMade
    <3> QED BY <2>2, <3>1 DEF EventfdRead
  <2>3. CASE GetEvents(b)
    BY <2>3 DEF GetEvents
  <2>4. CASE BatchDone(b)
    BY <2>4 DEF BatchDone
  <2>5. ASSUME NEW t \in Reqs, CompleteOne(b, t) PROVE TypeOK'
    <3>1. PICK i \in DOMAIN inflight :
             inflight[i] = t /\ inflight' = SwapRemove(inflight, i)
      BY <2>5 DEF CompleteOne
    <3>2. inflight' \in Seq(Reqs)
      BY <3>1, SwapRemoveFacts DEF InflightExact
    <3> QED BY <2>5, <3>2 DEF CompleteOne
  <2> QED BY <1>4, <2>1, <2>2, <2>3, <2>4, <2>5 DEF LoopStep
<1>5. CASE UNCHANGED vars
  BY <1>5 DEF vars
<1> QED BY <1>1, <1>2, <1>3, <1>4, <1>5 DEF Next

-----------------------------------------------------------------------------
(* eventfd_ and handlerp_ are set before they are used. *)

\* Every step keeps eventfd_ made before it is read.
LEMMA EventfdStep == EngineInv /\ [Next]_vars => EventfdMade'
<1> SUFFICES ASSUME EngineInv, [Next]_vars PROVE EventfdMade'
  OBVIOUS
<1> USE ConstantsAssumption
        DEF EngineInv, EventfdMade, Warm, initVars, submitVars, kernelVars, loopVars
<1>0. TypeOK
  OBVIOUS
<1>1. ASSUME NEW t \in Reqs, InitStep(t) PROVE EventfdMade'
  <2>1. CASE InitEventfd(t)
    BY <2>1, <1>0 DEF InitEventfd, TypeOK, Fds
  <2>2. CASE InitMake(t)
    BY <2>2, <1>0 DEF InitMake, TypeOK
  <2>3. CASE InitAssign(t)
    BY <2>3, <1>0 DEF InitAssign, TypeOK
  <2>4. CASE InitInstall(t)
    BY <2>4, <1>0 DEF InitInstall, TypeOK, Fds
  <2>5. CASE InitRegister(t)
    BY <2>5, <1>0 DEF InitRegister, TypeOK
  <2> QED BY <1>1, <2>1, <2>2, <2>3, <2>4, <2>5 DEF InitStep
<1>2. ASSUME NEW t \in Reqs, SubmitStep(t) PROVE EventfdMade'
  <2>1. CASE ioSubmitPush(t)
    BY <2>1, <1>0 DEF ioSubmitPush, TypeOK, Ready
  <2>2. ASSUME NEW valid \in BOOLEAN, ioSubmitIssue(t, valid) PROVE EventfdMade'
    BY <2>2, <1>0 DEF ioSubmitIssue, TypeOK
  <2>3. CASE ioSubmitFuture(t)
    BY <2>3, <1>0 DEF ioSubmitFuture, TypeOK
  <2> QED BY <1>2, <2>1, <2>2, <2>3 DEF SubmitStep
<1>3. ASSUME NEW t \in Reqs, KernelStep(t) PROVE EventfdMade'
  BY <1>3 DEF KernelStep, KernelPost, KernelSignal
<1>4. ASSUME NEW b \in Bases, LoopStep(b) PROVE EventfdMade'
  <2>1. CASE handlerReady(b)
    BY <2>1 DEF handlerReady
  <2>2. CASE EventfdRead(b)
    BY <2>2 DEF EventfdRead
  <2>3. CASE GetEvents(b)
    BY <2>3 DEF GetEvents
  <2>4. CASE BatchDone(b)
    BY <2>4 DEF BatchDone
  <2>5. ASSUME NEW t \in Reqs, CompleteOne(b, t) PROVE EventfdMade'
    BY <2>5 DEF CompleteOne
  <2> QED BY <1>4, <2>1, <2>2, <2>3, <2>4, <2>5 DEF LoopStep
<1>5. CASE UNCHANGED vars
  BY <1>5 DEF vars
<1> QED BY <1>1, <1>2, <1>3, <1>4, <1>5 DEF Next

-----------------------------------------------------------------------------
(***************************************************************************)
(* inflight_ stays exact.  Only a push and a completion touch it; every    *)
(* other step leaves Submitted and fulfilled alone.                        *)
(***************************************************************************)

\* Every step keeps inflight_ exact.
LEMMA InflightStep == EngineInv /\ [Next]_vars => InflightExact'
<1> SUFFICES ASSUME EngineInv, [Next]_vars PROVE InflightExact'
  OBVIOUS
<1> USE DEF EngineInv, initVars, submitVars, kernelVars, loopVars
<1>0. /\ pc \in [Reqs -> Pc] /\ inflight \in Seq(Reqs) /\ fulfilled \subseteq Reqs
      /\ IsInjective(inflight) /\ Range(inflight) = Submitted \ fulfilled
      /\ fulfilled \subseteq Issued
  BY DEF TypeOK, InflightExact
<1>a. ASSUME UNCHANGED <<inflight, fulfilled>>, Submitted' = Submitted,
             Issued \subseteq Issued'
      PROVE  InflightExact'
  BY <1>a, <1>0 DEF InflightExact, IsInjective, Range
<1>1. ASSUME NEW t \in Reqs, InitStep(t) PROVE InflightExact'
  <2>1. Submitted' = Submitted /\ Issued \subseteq Issued'
    BY <1>1, <1>0 DEF InitStep, InitEventfd, InitMake, InitAssign, InitInstall,
                      InitRegister, Submitted, Issued
  <2>2. UNCHANGED <<inflight, fulfilled>>
    BY <1>1 DEF InitStep, InitEventfd, InitMake, InitAssign, InitInstall, InitRegister
  <2> QED BY <2>1, <2>2, <1>a
<1>2. ASSUME NEW t \in Reqs, SubmitStep(t) PROVE InflightExact'
  <2>1. CASE ioSubmitPush(t)
    <3>1. /\ t \notin Submitted /\ Submitted' = Submitted \cup {t}
          /\ t \notin Issued /\ Issued \subseteq Issued'
      BY <2>1, <1>0 DEF ioSubmitPush, Submitted, Issued
    <3>2. t \notin fulfilled
      BY <3>1, <1>0
    <3>3. /\ IsInjective(inflight')
          /\ Range(inflight') = Range(inflight) \cup {t}
      BY <2>1, <3>1, <1>0, AppendFacts DEF ioSubmitPush
    <3> QED BY <2>1, <3>1, <3>2, <3>3, <1>0 DEF InflightExact, ioSubmitPush
  <2>2. ASSUME NEW valid \in BOOLEAN, ioSubmitIssue(t, valid) PROVE InflightExact'
    <3>1. Submitted' = Submitted /\ Issued \subseteq Issued'
      BY <2>2, <1>0 DEF ioSubmitIssue, Submitted, Issued
    <3> QED BY <2>2, <3>1, <1>a DEF ioSubmitIssue
  <2>3. CASE ioSubmitFuture(t)
    <3>1. Submitted' = Submitted /\ Issued \subseteq Issued'
      BY <2>3, <1>0 DEF ioSubmitFuture, Submitted, Issued
    <3> QED BY <2>3, <3>1, <1>a DEF ioSubmitFuture
  <2> QED BY <1>2, <2>1, <2>2, <2>3 DEF SubmitStep
<1>3. ASSUME NEW t \in Reqs, KernelStep(t) PROVE InflightExact'
  BY <1>3, <1>a DEF KernelStep, KernelPost, KernelSignal, Submitted, Issued
<1>4. ASSUME NEW b \in Bases, LoopStep(b) PROVE InflightExact'
  <2>1. CASE handlerReady(b) \/ EventfdRead(b) \/ GetEvents(b) \/ BatchDone(b)
    BY <2>1, <1>a DEF handlerReady, EventfdRead, GetEvents, BatchDone, Submitted, Issued
  <2>2. ASSUME NEW t \in Reqs, CompleteOne(b, t) PROVE InflightExact'
    <3>1. PICK i \in DOMAIN inflight :
             inflight[i] = t /\ inflight' = SwapRemove(inflight, i)
      BY <2>2 DEF CompleteOne
    <3>2. /\ IsInjective(inflight')
          /\ Range(inflight') = Range(inflight) \ {t}
      BY <3>1, <1>0, SwapRemoveFacts
    <3>3. /\ Submitted' = Submitted /\ Issued' = Issued
          /\ fulfilled' = fulfilled \cup {t}
      BY <2>2 DEF CompleteOne, Submitted, Issued
    <3>4. t \in Issued
      BY <2>2 DEF CompleteOne, OneOwner
    <3> QED BY <3>2, <3>3, <3>4, <1>0 DEF InflightExact
  <2> QED BY <1>4, <2>1, <2>2 DEF LoopStep
<1>5. CASE UNCHANGED vars
  BY <1>5, <1>a DEF vars, Submitted, Issued
<1> QED BY <1>1, <1>2, <1>3, <1>4, <1>5 DEF Next

-----------------------------------------------------------------------------
(***************************************************************************)
(* Ownership of a request moves from the kernel to the ring to one loop,   *)
(* and ends when that loop takes it out of inflight_.                      *)
(***************************************************************************)

\* Every step leaves a request with one owner.
LEMMA OwnerStep == EngineInv /\ [Next]_vars => OneOwner'
<1> SUFFICES ASSUME EngineInv, [Next]_vars PROVE OneOwner'
  OBVIOUS
<1> USE DEF EngineInv, initVars, submitVars, kernelVars, loopVars
<1>0. /\ pc \in [Reqs -> Pc] /\ inflight \in Seq(Reqs) /\ IsInjective(inflight)
      /\ kernel \subseteq Reqs /\ ring \subseteq Reqs
      /\ loop \in [Bases -> Loop] /\ batch \in [Bases -> SUBSET Reqs]
  BY DEF TypeOK, InflightExact
<1>a. ASSUME UNCHANGED <<kernel, ring, batch, loop>>, Issued \subseteq Issued',
             Range(inflight) \subseteq Range(inflight)'
      PROVE  OneOwner'
  BY <1>a DEF OneOwner
<1>1. ASSUME NEW t \in Reqs, InitStep(t) PROVE OneOwner'
  <2>1. Issued \subseteq Issued'
    BY <1>1, <1>0 DEF InitStep, InitEventfd, InitMake, InitAssign, InitInstall,
                      InitRegister, Issued
  <2>2. UNCHANGED <<kernel, ring, batch, loop, inflight>>
    BY <1>1 DEF InitStep, InitEventfd, InitMake, InitAssign, InitInstall, InitRegister
  <2> QED BY <2>1, <2>2, <1>a
<1>2. ASSUME NEW t \in Reqs, SubmitStep(t) PROVE OneOwner'
  <2>1. CASE ioSubmitPush(t)
    <3>1. t \notin Submitted
      BY <2>1, <1>0 DEF ioSubmitPush, Submitted
    <3>2. Range(inflight') = Range(inflight) \cup {t}
      BY <2>1, <3>1, <1>0, AppendFacts DEF ioSubmitPush, InflightExact
    <3>3. Issued \subseteq Issued'
      BY <2>1, <1>0 DEF ioSubmitPush, Issued
    <3> QED BY <2>1, <3>2, <3>3, <1>a DEF ioSubmitPush
  <2>2. ASSUME NEW valid \in BOOLEAN, ioSubmitIssue(t, valid) PROVE OneOwner'
    <3>1. t \notin Issued /\ Issued' = Issued \cup {t}
      BY <2>2, <1>0 DEF ioSubmitIssue, Issued
    <3>2. t \in Range(inflight)
      <4>1. t \in Submitted
        BY <2>2 DEF ioSubmitIssue, Submitted
      <4>2. t \notin fulfilled
        BY <3>1 DEF InflightExact, Issued
      <4> QED BY <4>1, <4>2 DEF InflightExact
    <3>3. kernel' \subseteq kernel \cup {t}
      BY <2>2 DEF ioSubmitIssue
    <3>4. UNCHANGED <<inflight, ring, batch, loop>>
      BY <2>2 DEF ioSubmitIssue
    <3> QED BY <3>1, <3>2, <3>3, <3>4 DEF OneOwner
  <2>3. CASE ioSubmitFuture(t)
    <3>1. Issued \subseteq Issued'
      BY <2>3, <1>0 DEF ioSubmitFuture, Issued
    <3> QED BY <2>3, <3>1, <1>a DEF ioSubmitFuture
  <2> QED BY <1>2, <2>1, <2>2, <2>3 DEF SubmitStep
<1>3. ASSUME NEW t \in Reqs, KernelStep(t) PROVE OneOwner'
  <2>1. CASE KernelPost(t)
    BY <2>1, <1>0 DEF KernelPost, OneOwner, Issued
  <2>2. CASE KernelSignal(t)
    BY <2>2, <1>a DEF KernelSignal, Issued
  <2> QED BY <1>3, <2>1, <2>2 DEF KernelStep
<1>4. ASSUME NEW b \in Bases, LoopStep(b) PROVE OneOwner'
  <2>1. CASE handlerReady(b) \/ EventfdRead(b) \/ BatchDone(b)
    BY <2>1, <1>0 DEF handlerReady, EventfdRead, BatchDone, OneOwner, Issued
  <2>2. CASE GetEvents(b)
    <3>1. PICK E \in SUBSET ring :
             ring' = ring \ E /\ batch' = [batch EXCEPT ![b] = E]
      BY <2>2 DEF GetEvents
    <3>2. /\ \A c \in Bases : c # b => batch'[c] = batch[c] /\ loop'[c] = loop[c]
          /\ batch'[b] = E /\ loop'[b] = "each"
          /\ Issued' = Issued /\ inflight' = inflight /\ kernel' = kernel
      BY <2>2, <3>1, <1>0 DEF GetEvents, Issued
    <3> QED BY <3>1, <3>2 DEF OneOwner
  <2>3. ASSUME NEW t \in Reqs, CompleteOne(b, t) PROVE OneOwner'
    <3>1. PICK i \in DOMAIN inflight :
             inflight[i] = t /\ inflight' = SwapRemove(inflight, i)
      BY <2>3 DEF CompleteOne
    <3>2. Range(inflight') = Range(inflight) \ {t}
      BY <3>1, <1>0, SwapRemoveFacts
    <3>3. /\ \A c \in Bases : c # b => batch'[c] = batch[c]
          /\ t \in batch[b] /\ batch'[b] = batch[b] \ {t}
          /\ UNCHANGED <<kernel, ring, loop>> /\ Issued' = Issued
      BY <2>3, <1>0 DEF CompleteOne, Issued
    <3> QED BY <3>2, <3>3 DEF OneOwner
  <2> QED BY <1>4, <2>1, <2>2, <2>3 DEF LoopStep
<1>5. CASE UNCHANGED vars
  BY <1>5, <1>a DEF vars, Issued
<1> QED BY <1>1, <1>2, <1>3, <1>4, <1>5 DEF Next

-----------------------------------------------------------------------------
(***************************************************************************)
(* The engine's invariant holds in every reachable state, for every number *)
(* of handler threads, event bases and ring slots, and however many        *)
(* init() calls race.                                                      *)
(***************************************************************************)
THEOREM EngineCorrect == Spec => []EngineInv
<1>1. EngineInv /\ [Next]_vars => EngineInv'
  BY TypeStep, EventfdStep, InflightStep, OwnerStep DEF EngineInv
<1> QED BY <1>1, EngineInit, PTL DEF Spec

\* Every variable keeps its type; nevents is never read off an unset eventfd_.
THEOREM TypeCorrect == Spec => []TypeOK
<1>1. EngineInv => TypeOK
  BY DEF EngineInv
<1> QED BY <1>1, EngineCorrect, PTL

\* inflight_ holds each submitted, unfulfilled request exactly once.
THEOREM InflightCorrect == Spec => []InflightExact
<1>1. EngineInv => InflightExact
  BY DEF EngineInv
<1> QED BY <1>1, EngineCorrect, PTL

\* No assert of iosCompleted, setResult or completePromise on an IO can fail.
THEOREM OwnerCorrect == Spec => []OneOwner
<1>1. EngineInv => OneOwner
  BY DEF EngineInv
<1> QED BY <1>1, EngineCorrect, PTL

-----------------------------------------------------------------------------
(* The engine implements IOService. *)

\* A step that moves one request on and leaves the others alone is abstract.
LEMMA PhaseAdvance ==
    ASSUME NEW t \in Reqs, NEW from, NEW to,
           ioPhase[t] = from, ioPhase'[t] = to,
           \A u \in Reqs \ {t} : ioPhase'[u] = ioPhase[u]
    PROVE  Service!Advance(t, from, to)
<1>0. /\ ioPhase = [u \in Reqs |-> ioPhase[u]]
      /\ ioPhase' = [u \in Reqs |-> ioPhase'[u]]
  BY DEF ioPhase
<1>1. ioPhase' = [ioPhase EXCEPT ![t] = to]
  BY <1>0
<1> QED BY <1>1 DEF Service!Advance

\* Every step of the engine is a step of IOService or a stutter.
LEMMA ServiceStep == EngineInv /\ [Next]_vars => [Service!Next]_ioPhase
<1> SUFFICES ASSUME EngineInv, [Next]_vars PROVE [Service!Next]_ioPhase
  OBVIOUS
<1> USE DEF EngineInv, initVars, submitVars, kernelVars, loopVars
<1>0. /\ pc \in [Reqs -> Pc] /\ fulfilled \subseteq Issued
      /\ batch \in [Bases -> SUBSET Reqs]
  BY DEF TypeOK, InflightExact
<1>a. ASSUME UNCHANGED <<fulfilled, ring, batch>>, Submitted' = Submitted
      PROVE  ioPhase' = ioPhase
  BY <1>a DEF ioPhase
<1>1. ASSUME NEW t \in Reqs, InitStep(t) PROVE ioPhase' = ioPhase
  <2>1. Submitted' = Submitted
    BY <1>1, <1>0 DEF InitStep, InitEventfd, InitMake, InitAssign, InitInstall,
                      InitRegister, Submitted
  <2>2. UNCHANGED <<fulfilled, ring, batch>>
    BY <1>1 DEF InitStep, InitEventfd, InitMake, InitAssign, InitInstall, InitRegister
  <2> QED BY <2>1, <2>2, <1>a
<1>2. ASSUME NEW t \in Reqs, ioSubmitPush(t) PROVE Service!Submit(t)
  <2>1. /\ t \notin Submitted /\ Submitted' = Submitted \cup {t}
        /\ t \notin Issued
        /\ UNCHANGED <<fulfilled, ring, batch>>
    BY <1>2, <1>0 DEF ioSubmitPush, Submitted, Issued
  <2>2. /\ t \notin fulfilled /\ t \notin ring
        /\ \A b \in Bases : t \notin batch[b]
    BY <2>1, <1>0 DEF OneOwner
  <2>3. ioPhase[t] = "new" /\ ioPhase'[t] = "submitted"
    BY <2>1, <2>2 DEF ioPhase
  <2>4. \A u \in Reqs \ {t} : ioPhase'[u] = ioPhase[u]
    BY <2>1 DEF ioPhase
  <2> QED BY <2>3, <2>4, PhaseAdvance DEF Service!Submit
<1>3. ASSUME NEW t \in Reqs, NEW valid \in BOOLEAN, ioSubmitIssue(t, valid)
      PROVE  ioPhase' = ioPhase
  <2>1. Submitted' = Submitted
    BY <1>3, <1>0 DEF ioSubmitIssue, Submitted
  <2> QED BY <1>3, <2>1, <1>a DEF ioSubmitIssue
<1>4. ASSUME NEW t \in Reqs, ioSubmitFuture(t) PROVE ioPhase' = ioPhase
  <2>1. Submitted' = Submitted
    BY <1>4, <1>0 DEF ioSubmitFuture, Submitted
  <2> QED BY <1>4, <2>1, <1>a DEF ioSubmitFuture
<1>5. ASSUME NEW t \in Reqs, KernelPost(t) PROVE Service!Execute(t)
  <2>1. /\ t \in kernel /\ ring' = ring \cup {t}
        /\ Submitted' = Submitted /\ UNCHANGED <<fulfilled, batch>>
    BY <1>5 DEF KernelPost, Submitted
  <2>2. /\ t \in Submitted \ fulfilled /\ t \notin ring
        /\ \A b \in Bases : t \notin batch[b]
    BY <2>1 DEF OneOwner, InflightExact
  <2>3. ioPhase[t] = "submitted" /\ ioPhase'[t] = "executed"
    BY <2>1, <2>2 DEF ioPhase
  <2>4. \A u \in Reqs \ {t} : ioPhase'[u] = ioPhase[u]
    BY <2>1 DEF ioPhase
  <2> QED BY <2>3, <2>4, PhaseAdvance DEF Service!Execute
<1>6. ASSUME NEW t \in Reqs, KernelSignal(t) PROVE ioPhase' = ioPhase
  BY <1>6, <1>a DEF KernelSignal, Submitted
<1>7. ASSUME NEW b \in Bases, handlerReady(b) \/ EventfdRead(b) \/ BatchDone(b)
      PROVE  ioPhase' = ioPhase
  BY <1>7, <1>a DEF handlerReady, EventfdRead, BatchDone, Submitted
<1>8. ASSUME NEW b \in Bases, GetEvents(b) PROVE ioPhase' = ioPhase
  <2>1. PICK E \in SUBSET ring :
           ring' = ring \ E /\ batch' = [batch EXCEPT ![b] = E]
    BY <1>8 DEF GetEvents
  <2>2. batch[b] = {}
    BY <1>8 DEF GetEvents, OneOwner
  <2>3. \A u \in Reqs : (u \in ring \/ \E c \in Bases : u \in batch[c])
                    <=> (u \in ring' \/ \E c \in Bases : u \in batch'[c])
    BY <2>1, <2>2, <1>0
  <2>4. Submitted' = Submitted /\ fulfilled' = fulfilled
    BY <1>8 DEF GetEvents, Submitted
  <2> QED BY <2>3, <2>4 DEF ioPhase
<1>9. ASSUME NEW b \in Bases, NEW t \in Reqs, CompleteOne(b, t)
      PROVE  Service!Complete(t)
  <2>1. /\ t \in batch[b] /\ batch' = [batch EXCEPT ![b] = @ \ {t}]
        /\ fulfilled' = fulfilled \cup {t}
        /\ Submitted' = Submitted /\ ring' = ring
    BY <1>9 DEF CompleteOne, Submitted
  <2>2. t \notin fulfilled
    BY <2>1 DEF OneOwner, InflightExact
  <2>3. ioPhase[t] = "executed" /\ ioPhase'[t] = "done"
    BY <2>1, <2>2 DEF ioPhase
  <2>4. \A u \in Reqs \ {t} : \A c \in Bases : u \in batch'[c] <=> u \in batch[c]
    BY <2>1, <1>0
  <2>5. \A u \in Reqs \ {t} : ioPhase'[u] = ioPhase[u]
    BY <2>1, <2>4 DEF ioPhase
  <2> QED BY <2>3, <2>5, PhaseAdvance DEF Service!Complete
<1>10. CASE UNCHANGED vars
  BY <1>10, <1>a DEF vars, Submitted
<1> QED
  BY <1>1, <1>2, <1>3, <1>4, <1>5, <1>6, <1>7, <1>8, <1>9, <1>10
     DEF Next, SubmitStep, KernelStep, LoopStep, Service!Next

(***************************************************************************)
(* The engine implements its service: no interleaving of pushes, kernel    *)
(* posts, swap-and-pop removals and racing init() calls completes a        *)
(* request that the kernel did not execute, or completes one twice.        *)
(***************************************************************************)
THEOREM EngineImplementsService == Spec => ServiceSpec
<1>1. Init => Service!Init
  BY DEF Init, Service!Init, ioPhase, Submitted
<1> QED BY <1>1, ServiceStep, EngineCorrect, PTL DEF Spec, ServiceSpec, Service!Spec

-----------------------------------------------------------------------------
(* The signals. *)

\* A pair is among the units of a counter exactly if that counter counts it.
LEMMA UnitsMember ==
    ASSUME NEW f, NEW p
    PROVE  p \in Units(f) <=> \E x \in DOMAIN f : \E i \in 1 .. f[x] : p = <<x, i>>
BY DEF Units

\* The units of one counter are as many as it says.
LEMMA UnitsOfOne ==
    ASSUME NEW x, NEW n \in Nat
    PROVE  IsFiniteSet({x} \X (1 .. n)) /\ Cardinality({x} \X (1 .. n)) = n
<1>1. IsFiniteSet({x}) /\ Cardinality({x}) = 1
  BY FS_Singleton
<1>2. IsFiniteSet(1 .. n) /\ Cardinality(1 .. n) = n
  BY FS_Interval
<1>3. /\ IsFiniteSet({x} \X (1 .. n))
      /\ Cardinality({x} \X (1 .. n)) = Cardinality({x}) * Cardinality(1 .. n)
  BY <1>1, <1>2, FS_Product
<1>4. 1 * n = n
  OBVIOUS
<1> QED BY <1>1, <1>2, <1>3, <1>4

\* Setting one counter changes the sum by as much as it changes the counter.
LEMMA TotalChange ==
    ASSUME NEW f, f \in [DOMAIN f -> Nat], NEW x \in DOMAIN f, NEW n \in Nat,
           IsFiniteSet(Units(f))
    PROVE  /\ IsFiniteSet(Units([f EXCEPT ![x] = n]))
           /\ Total(f) \in Nat /\ Total(f) >= f[x]
           /\ Total([f EXCEPT ![x] = n]) = Total(f) - f[x] + n
<1> DEFINE D    == DOMAIN f
           g    == [f EXCEPT ![x] = n]
           Old  == {x} \X (1 .. f[x])
           New  == {x} \X (1 .. n)
           Rest == Units(f) \ Old
<1>1. DOMAIN g = D /\ x \in D /\ g[x] = n /\ \A y \in D \ {x} : g[y] = f[y]
  OBVIOUS
<1>2. \A p : p \in Old <=> \E i \in 1 .. f[x] : p = <<x, i>>
  OBVIOUS
<1>3. \A p : p \in New <=> \E i \in 1 .. n : p = <<x, i>>
  OBVIOUS
<1>4. \A p : p \in Rest <=> \E y \in D \ {x} : \E i \in 1 .. f[y] : p = <<y, i>>
  BY <1>2, UnitsMember
<1> HIDE DEF D, g, Old, New, Rest
<1>5. Units(f) = Rest \cup Old /\ Rest \cap Old = {}
  BY <1>2, <1>4, <1>1, UnitsMember DEF D
<1>6. Units(g) = Rest \cup New
  <2>1. ASSUME NEW p \in Units(g) PROVE p \in Rest \cup New
    <3>1. PICK y \in D : \E i \in 1 .. g[y] : p = <<y, i>>
      BY <2>1, <1>1, UnitsMember
    <3> QED BY <3>1, <1>1, <1>3, <1>4
  <2>2. ASSUME NEW p \in Rest \cup New PROVE p \in Units(g)
    <3>1. \E y \in D : \E i \in 1 .. g[y] : p = <<y, i>>
      BY <2>2, <1>1, <1>3, <1>4
    <3> QED BY <3>1, <1>1, UnitsMember
  <2> QED BY <2>1, <2>2
<1>7. Rest \cap New = {}
  BY <1>3, <1>4
<1>8. /\ IsFiniteSet(Old) /\ Cardinality(Old) = f[x] /\ f[x] \in Nat
      /\ IsFiniteSet(New) /\ Cardinality(New) = n /\ Cardinality({}) = 0
  BY UnitsOfOne, FS_EmptySet DEF Old, New
<1>9. IsFiniteSet(Rest) /\ Cardinality(Rest) \in Nat
  BY FS_Difference, FS_CardinalityType DEF Rest
<1>10. Cardinality(Units(f)) = Cardinality(Rest) + f[x]
  <2>1. Cardinality(Rest \cup Old) =
           Cardinality(Rest) + Cardinality(Old) - Cardinality(Rest \cap Old)
    BY <1>8, <1>9, FS_Union
  <2>2. /\ Cardinality(Units(f)) = Cardinality(Rest \cup Old)
        /\ Cardinality(Rest \cap Old) = 0
    BY <1>5, <1>8, Zenon
  <2> QED BY <2>1, <2>2, <1>8, <1>9
<1>11. IsFiniteSet(Units(g)) /\ Cardinality(Units(g)) = Cardinality(Rest) + n
  <2>1. /\ IsFiniteSet(Rest \cup New)
        /\ Cardinality(Rest \cup New) =
              Cardinality(Rest) + Cardinality(New) - Cardinality(Rest \cap New)
    BY <1>8, <1>9, FS_Union
  <2> QED BY <2>1, <1>6, <1>7, <1>8, <1>9
<1> QED BY <1>9, <1>10, <1>11, <1>8 DEF Total, g

\* Counters that stand at 0 have no units.
LEMMA TotalZero ==
    ASSUME NEW D PROVE IsFiniteSet(Units([x \in D |-> 0])) /\ Total([x \in D |-> 0]) = 0
<1>1. Units([x \in D |-> 0]) = {}
  BY DEF Units
<1> QED BY <1>1, FS_EmptySet DEF Total

\* The account of signals holds at the start.
LEMMA SignalInit == Init => SignalInv
<1> SUFFICES ASSUME Init PROVE SignalInv
  OBVIOUS
<1>1. /\ IsFiniteSet(Units(count)) /\ Total(count) = 0
      /\ IsFiniteSet(Units(nevents)) /\ Total(nevents) = 0
  BY TotalZero DEF Init
<1>2. SignalsFit
  BY <1>1 DEF Init, SignalsFit, Issued
<1>3. SignalAccounting
  BY <1>1, FS_EmptySet DEF Init, SignalAccounting
<1> QED BY <1>2, <1>3 DEF SignalInv

(***************************************************************************)
(* The kernel adds an event and a signal that it owes; the signal becomes  *)
(* a count; eventfd_read makes the count a loop's debt of events, which    *)
(* io_getevents takes from the ring.  Other steps touch none of these.     *)
(***************************************************************************)
LEMMA SignalStep == SignalInv /\ EngineInv /\ [Next]_vars => SignalInv'
<1> SUFFICES ASSUME SignalInv, EngineInv, [Next]_vars PROVE SignalInv'
  OBVIOUS
<1> USE DEF initVars, submitVars, kernelVars, loopVars
<1>0. /\ pc \in [Reqs -> Pc] /\ iofd \in [Reqs -> Fds \cup {NoFd}]
      /\ count \in [Fds -> Nat] /\ nevents \in [Bases -> Nat]
      /\ loop \in [Bases -> Loop] /\ OneOwner /\ EventfdMade
      /\ kernel \subseteq Reqs /\ ring \subseteq Reqs /\ unsig \subseteq Reqs
  BY DEF EngineInv, TypeOK
<1>1. /\ IsFiniteSet(Units(count)) /\ IsFiniteSet(Units(nevents))
      /\ \A b \in Bases : loop[b] # "get" => nevents[b] = 0
      /\ \A t \in Issued : iofd[t] \in Fds
      /\ unsig \subseteq Issued /\ unsig \cap kernel = {}
      /\ Cardinality(ring) = Total(count) + Total(nevents) + Cardinality(unsig)
  BY DEF SignalInv, SignalsFit, SignalAccounting
<1>2. /\ IsFiniteSet(ring) /\ Cardinality(ring) \in Nat
      /\ IsFiniteSet(unsig) /\ Cardinality(unsig) \in Nat
      /\ Total(count) \in Nat /\ Total(nevents) \in Nat
  BY <1>0, <1>1, ConstantsAssumption, FS_Subset, FS_CardinalityType DEF Total
<1>a. ASSUME UNCHANGED <<count, nevents, ring, unsig>>,
             \A b \in Bases : loop'[b] # "get" => nevents[b] = 0,
             \A t \in Issued' : iofd'[t] \in Fds,
             Issued \subseteq Issued', unsig \cap kernel' = {}
      PROVE  SignalInv'
  BY <1>1, <1>a DEF SignalInv, SignalsFit, SignalAccounting
<1>3. ASSUME NEW t \in Reqs, InitStep(t) PROVE SignalInv'
  <2>1. Issued' = Issued
    BY <1>3, <1>0 DEF InitStep, InitEventfd, InitMake, InitAssign, InitInstall,
                      InitRegister, Issued
  <2>2. UNCHANGED <<count, nevents, ring, unsig, kernel, loop, iofd>>
    BY <1>3 DEF InitStep, InitEventfd, InitMake, InitAssign, InitInstall, InitRegister
  <2> QED BY <2>1, <2>2, <1>1, <1>a
<1>4. ASSUME NEW t \in Reqs, SubmitStep(t) PROVE SignalInv'
  <2>1. CASE ioSubmitPush(t)
    <3>1. Issued' = Issued
      BY <2>1, <1>0 DEF ioSubmitPush, Issued
    <3> QED BY <2>1, <3>1, <1>1, <1>a DEF ioSubmitPush
  <2>2. ASSUME NEW valid \in BOOLEAN, ioSubmitIssue(t, valid) PROVE SignalInv'
    <3>1. t \notin Issued /\ Issued' = Issued \cup {t}
      BY <2>2, <1>0 DEF ioSubmitIssue, Issued
    <3>2. eventfd \in Fds
      BY <2>2, <1>0 DEF ioSubmitIssue, EventfdMade
    <3>3. iofd'[t] = eventfd /\ \A u \in Reqs \ {t} : iofd'[u] = iofd[u]
      BY <2>2, <1>0 DEF ioSubmitIssue
    <3>4. \A u \in Issued' : iofd'[u] \in Fds
      BY <3>1, <3>2, <3>3, <1>1 DEF Issued
    <3>5. kernel' \subseteq kernel \cup {t}
      BY <2>2 DEF ioSubmitIssue
    <3>6. UNCHANGED <<count, nevents, ring, unsig, loop>>
      BY <2>2 DEF ioSubmitIssue
    <3> QED BY <3>1, <3>4, <3>5, <3>6, <1>1, <1>a
  <2>3. CASE ioSubmitFuture(t)
    <3>1. Issued' = Issued
      BY <2>3, <1>0 DEF ioSubmitFuture, Issued
    <3> QED BY <2>3, <3>1, <1>1, <1>a DEF ioSubmitFuture
  <2> QED BY <1>4, <2>1, <2>2, <2>3 DEF SubmitStep
<1>5. ASSUME NEW t \in Reqs, KernelPost(t) PROVE SignalInv'
  <2>1. /\ ring' = ring \cup {t} /\ unsig' = unsig \cup {t} /\ kernel' = kernel \ {t}
        /\ UNCHANGED <<count, nevents, loop, iofd>> /\ Issued' = Issued
        /\ t \in kernel
    BY <1>5 DEF KernelPost, Issued
  <2>2. t \in Issued /\ t \notin ring /\ t \notin unsig
    BY <2>1, <1>0, <1>1 DEF OneOwner
  <2>3. /\ Cardinality(ring') = Cardinality(ring) + 1
        /\ Cardinality(unsig') = Cardinality(unsig) + 1
    BY <2>1, <2>2, <1>2, FS_AddElement
  <2>4. SignalAccounting'
    BY <2>1, <2>3, <1>1, <1>2 DEF SignalAccounting
  <2>5. SignalsFit'
    BY <2>1, <2>2, <1>1 DEF SignalsFit
  <2> QED BY <2>4, <2>5 DEF SignalInv
<1>6. ASSUME NEW t \in Reqs, KernelSignal(t) PROVE SignalInv'
  <2>1. /\ unsig' = unsig \ {t} /\ t \in unsig
        /\ UNCHANGED <<ring, kernel, nevents, loop, iofd>> /\ Issued' = Issued
        /\ count' = [count EXCEPT ![iofd[t]] = @ + 1]
    BY <1>6 DEF KernelSignal, Issued
  <2>2. iofd[t] \in Fds /\ count[iofd[t]] \in Nat
    BY <2>1, <1>0, <1>1
  <2>3. IsFiniteSet(Units(count')) /\ Total(count') = Total(count) + 1
    <3>1. /\ IsFiniteSet(Units(count'))
          /\ Total(count') = Total(count) - count[iofd[t]] + (count[iofd[t]] + 1)
      <4>1. /\ count \in [Fds -> Nat] /\ count[iofd[t]] + 1 \in Nat
            /\ count' = [count EXCEPT ![iofd[t]] = count[iofd[t]] + 1]
            /\ IsFiniteSet(Units(count)) /\ iofd[t] \in Fds
        BY <2>1, <2>2, <1>0, <1>1
      <4> QED BY <4>1, TotalChange
    <3> QED BY <3>1, <2>2, <1>2
  <2>4. Cardinality(unsig') = Cardinality(unsig) - 1
    BY <2>1, <1>2, FS_RemoveElement
  <2>5. SignalAccounting'
    BY <2>1, <2>3, <2>4, <1>1, <1>2 DEF SignalAccounting, Total
  <2>6. SignalsFit'
    BY <2>1, <2>3, <1>1 DEF SignalsFit
  <2> QED BY <2>5, <2>6 DEF SignalInv
<1>7. ASSUME NEW b \in Bases, handlerReady(b) \/ BatchDone(b) PROVE SignalInv'
  <2>1. /\ UNCHANGED <<count, nevents, ring, unsig, kernel, iofd>> /\ Issued' = Issued
        /\ loop[b] # "get" /\ \A c \in Bases \ {b} : loop'[c] = loop[c]
    BY <1>7, <1>0 DEF handlerReady, BatchDone, Issued
  <2> QED BY <2>1, <1>1, <1>a
<1>8. ASSUME NEW b \in Bases, EventfdRead(b) PROVE SignalInv'
  <2>1. /\ UNCHANGED <<ring, unsig, kernel, iofd>> /\ Issued' = Issued
        /\ nevents' = [nevents EXCEPT ![b] = count[eventfd]]
        /\ count' = [count EXCEPT ![eventfd] = 0]
        /\ loop[b] = "read"
        /\ loop' = [loop EXCEPT ![b] = IF count[eventfd] = 0 THEN "poll" ELSE "get"]
    BY <1>8 DEF EventfdRead, Issued
  <2>2. eventfd \in Fds /\ count[eventfd] \in Nat /\ nevents[b] = 0
    BY <2>1, <1>0, <1>1 DEF EventfdMade
  <2>3. IsFiniteSet(Units(count')) /\ Total(count') = Total(count) - count[eventfd] + 0
    <3>1. /\ count \in [Fds -> Nat] /\ eventfd \in Fds /\ 0 \in Nat
          /\ count' = [count EXCEPT ![eventfd] = 0] /\ IsFiniteSet(Units(count))
      BY <2>1, <2>2, <1>0, <1>1
    <3> QED BY <3>1, TotalChange
  <2>4. /\ IsFiniteSet(Units(nevents'))
        /\ Total(nevents') = Total(nevents) - nevents[b] + count[eventfd]
    <3>1. /\ nevents \in [Bases -> Nat] /\ count[eventfd] \in Nat
          /\ nevents' = [nevents EXCEPT ![b] = count[eventfd]]
          /\ IsFiniteSet(Units(nevents))
      BY <2>1, <2>2, <1>0, <1>1
    <3> QED BY <3>1, TotalChange
  <2>5. SignalAccounting'
    BY <2>1, <2>2, <2>3, <2>4, <1>1, <1>2 DEF SignalAccounting, Total
  <2>6. \A c \in Bases : loop'[c] # "get" => nevents'[c] = 0
    BY <2>1, <2>2, <1>0, <1>1
  <2>7. SignalsFit'
    BY <2>1, <2>3, <2>4, <2>6, <1>1 DEF SignalsFit
  <2> QED BY <2>5, <2>7 DEF SignalInv
<1>9. ASSUME NEW b \in Bases, GetEvents(b) PROVE SignalInv'
  <2>1. PICK E \in SUBSET ring : Cardinality(E) = nevents[b] /\ ring' = ring \ E
    BY <1>9 DEF GetEvents
  <2>2. /\ UNCHANGED <<count, unsig, kernel, iofd>> /\ Issued' = Issued
        /\ nevents' = [nevents EXCEPT ![b] = 0]
        /\ loop' = [loop EXCEPT ![b] = "each"]
    BY <1>9 DEF GetEvents, Issued
  <2>3. Cardinality(ring') = Cardinality(ring) - nevents[b]
    <3>1. ring \cap E = E
      OBVIOUS
    <3>2. Cardinality(ring \ E) = Cardinality(ring) - Cardinality(ring \cap E)
      BY <1>2, FS_Difference
    <3> QED BY <2>1, <3>1, <3>2
  <2>4. /\ IsFiniteSet(Units(nevents'))
        /\ Total(nevents') = Total(nevents) - nevents[b] + 0
    <3>1. /\ nevents \in [Bases -> Nat] /\ 0 \in Nat
          /\ nevents' = [nevents EXCEPT ![b] = 0] /\ IsFiniteSet(Units(nevents))
      BY <2>2, <1>0, <1>1
    <3> QED BY <3>1, TotalChange
  <2>5. SignalAccounting'
    BY <2>2, <2>3, <2>4, <1>0, <1>1, <1>2 DEF SignalAccounting, Total
  <2>6. \A c \in Bases : loop'[c] # "get" => nevents'[c] = 0
    BY <2>2, <1>0, <1>1
  <2>7. SignalsFit'
    BY <2>2, <2>4, <2>6, <1>1 DEF SignalsFit
  <2> QED BY <2>5, <2>7 DEF SignalInv
<1>10. ASSUME NEW b \in Bases, NEW t \in Reqs, CompleteOne(b, t) PROVE SignalInv'
  BY <1>10, <1>1, <1>a DEF CompleteOne, Issued
<1>11. CASE UNCHANGED vars
  BY <1>11, <1>1, <1>a DEF vars, Issued
<1> QED BY <1>3, <1>4, <1>5, <1>6, <1>7, <1>8, <1>9, <1>10, <1>11
           DEF Next, KernelStep, LoopStep

(***************************************************************************)
(* Every event in the ring is paid for by one signal, however many         *)
(* eventfds racing init() calls make, and on whichever event bases their   *)
(* counters are read.                                                      *)
(***************************************************************************)
THEOREM SignalsCorrect == Spec => []SignalAccounting
<1>1. SignalInv => SignalAccounting
  BY DEF SignalInv
<1> QED BY <1>1, SignalInit, SignalStep, EngineCorrect, PTL DEF Spec

(***************************************************************************)
(* io_getevents(nevents, nevents), which blocks until that many events are *)
(* there, never blocks an event base: the ring holds them already.         *)
(***************************************************************************)
THEOREM GetEventsNeverBlocks ==
    Spec => [](\A b \in Bases : loop[b] = "get" => nevents[b] <= Cardinality(ring))
<1>1. ASSUME EngineInv, SignalInv, NEW b \in Bases PROVE nevents[b] <= Cardinality(ring)
  <2>1. /\ nevents \in [Bases -> Nat] /\ nevents[b] \in Nat
        /\ unsig \subseteq Reqs /\ IsFiniteSet(Units(nevents))
        /\ IsFiniteSet(Units(count))
        /\ Cardinality(ring) = Total(count) + Total(nevents) + Cardinality(unsig)
    BY <1>1 DEF EngineInv, TypeOK, SignalInv, SignalsFit, SignalAccounting
  <2>2. Total(nevents) \in Nat /\ Total(nevents) >= nevents[b]
    BY <2>1, TotalChange
  <2>3. Total(count) \in Nat /\ Cardinality(unsig) \in Nat
    BY <2>1, ConstantsAssumption, FS_Subset, FS_CardinalityType DEF Total
  <2> QED BY <2>1, <2>2, <2>3
<1>2. EngineInv /\ SignalInv =>
         \A b \in Bases : loop[b] = "get" => nevents[b] <= Cardinality(ring)
  BY <1>1
<1> QED BY <1>2, SignalInit, SignalStep, EngineCorrect, PTL DEF Spec

-----------------------------------------------------------------------------
(* The handlers, with the engine: theorems of LeafSpec.                    *)

USE DEF initVars, submitVars, kernelVars, loopVars

\* A step is work of a server that is up, or leaves all but crashed alone.
LEMMA LeafCases ==
    ASSUME [LeafNext]_allVars
    PROVE  Work \/ UNCHANGED <<vars, leafVars>>
BY DEF LeafNext, Live, AssertFd, allVars

\* Every step of the handlers is a step of the engine or leaves it alone.
LEMMA LeafEngineStep == [LeafNext]_allVars => [Next]_vars
<1> SUFFICES ASSUME [LeafNext]_allVars PROVE [Next]_vars
  OBVIOUS
<1>1. ASSUME NEW r \in Reqs, HandlerStep(r) PROVE [Next]_vars
  <2>1. CASE CheckInited(r) \/ SetInited(r) \/ OpenWrite(r) \/ OpenRead(r)
    BY <2>1 DEF CheckInited, SetInited, OpenWrite, OpenRead, OpenAs
  <2>2. CASE RunInit(r)
    BY <2>2 DEF RunInit, Next
  <2>3. CASE Submit(r) \/ Attach(r)
    BY <2>3 DEF Submit, Attach, Next, SubmitStep
  <2>4. CASE Issue(r)
    <3>1. (fd[r] # BadFd) \in BOOLEAN
      OBVIOUS
    <3> QED BY <2>4, <3>1 DEF Issue, Next, SubmitStep
  <2> QED BY <1>1, <2>1, <2>2, <2>3, <2>4 DEF HandlerStep
<1>2. ASSUME NEW r \in Reqs, ExecuteStep(r) \/ Signal(r) \/ PoolRun(r) \/ Reply(r)
      PROVE  [Next]_vars
  BY <1>2 DEF ExecuteStep, Execute, Signal, PoolRun, Reply, Next, KernelStep
<1>3. ASSUME NEW b \in Bases, BaseStep(b) PROVE [Next]_vars
  BY <1>3 DEF BaseStep, Poll, Harvest, Next, LoopStep
<1>4. CASE UNCHANGED <<vars, leafVars>>
  BY <1>4
<1> QED BY <1>1, <1>2, <1>3, <1>4, LeafCases DEF Work

(***************************************************************************)
(* The handlers use the engine as it may be used: every behaviour of the   *)
(* server is, of the engine's state, a behaviour of the engine, so what is *)
(* proved of the engine alone holds in the server.                         *)
(***************************************************************************)
THEOREM LeafUsesEngine == LeafSpec => Spec
<1>1. LeafInit => Init
  BY DEF LeafInit
<1> QED BY <1>1, LeafEngineStep, PTL DEF LeafSpec, Spec

\* The engine's invariant carries over to the server.
LEMMA LeafEngine == LeafSpec => []EngineInv
BY LeafUsesEngine, EngineCorrect, PTL

-----------------------------------------------------------------------------
\* The handlers' invariant holds at the start.
LEMMA LeafStart == LeafInit => LeafInv
<1> SUFFICES ASSUME LeafInit PROVE LeafInv
  OBVIOUS
<1> USE ConstantsAssumption, LeafAssumption DEF LeafInit, Init
<1>1. LeafTypeOK
  BY FS_EmptySet DEF LeafTypeOK, Steps, Replies, BadFd, Warm
<1>2. StepsFit /\ SubmitAfterInit
  BY DEF StepsFit, SubmitAfterInit, Ready, Issued
<1>3. ContinuedExactly /\ DescriptorsExact
  BY DEF ContinuedExactly, DescriptorsExact, Holders
<1> QED BY <1>1, <1>2, <1>3 DEF LeafInv

(***************************************************************************)
(* open() returns a descriptor that is not in use.  Among more numbers     *)
(* than there are open descriptors one is free, and so there is a least.   *)
(***************************************************************************)
LEMMA LowestFreeIsFree ==
    ASSUME opened \in SUBSET Nat, IsFiniteSet(opened)
    PROVE  LowestFree \in Nat /\ LowestFree \notin opened
<1> DEFINE k == Cardinality(opened)
           Free == {n \in 0 .. k : n \notin opened}
<1>1. k \in Nat
  BY FS_CardinalityType
<1>2. Free # {}
  <2> SUFFICES ASSUME 0 .. k \subseteq opened PROVE FALSE
    OBVIOUS
  <2>1. Cardinality(0 .. k) <= k
    BY FS_Subset
  <2>2. Cardinality(0 .. k) = k + 1
    BY <1>1, FS_Interval
  <2> QED BY <2>1, <2>2, <1>1
<1>3. PICK n \in Free : \A m \in Free : ~(<<m, n>> \in OpToRel(<, Nat))
  <2>1. Free \subseteq Nat
    BY <1>1
  <2> HIDE DEF Free
  <2> QED BY <2>1, <1>2, NatLessThanWellFounded, WFMin
<1>4. \A m \in 0 .. n - 1 : m \in opened
  <2> SUFFICES ASSUME NEW m \in 0 .. n - 1, m \notin opened PROVE FALSE
    OBVIOUS
  <2>1. m \in Free /\ m < n /\ m \in Nat /\ n \in Nat
    BY <1>1
  <2>2. <<m, n>> \in OpToRel(<, Nat)
    BY <2>1 DEF OpToRel
  <2> QED BY <2>1, <2>2, <1>3
<1>5. LowestFree \in 0 .. k /\ LowestFree \notin opened
  BY <1>4 DEF LowestFree
<1> QED BY <1>5, <1>1

\* Types, and the finiteness of the set of open descriptors.
LEMMA LeafTypeStep == LeafTypeOK /\ [LeafNext]_allVars => LeafTypeOK'
<1> SUFFICES ASSUME LeafTypeOK, [LeafNext]_allVars PROVE LeafTypeOK'
  OBVIOUS
<1> USE LeafAssumption DEF LeafTypeOK, leafVars, Steps, Replies
<1>d. crashed' \in BOOLEAN
  BY DEF LeafNext, Live, AssertFd, allVars
<1> USE <1>d
<1>a. ASSUME NEW r \in Reqs, Continue(r) PROVE LeafTypeOK'
  <2>1. opened' \in SUBSET Nat /\ IsFiniteSet(opened')
    BY <1>a, FS_RemoveElement DEF Continue
  <2> QED BY <1>a, <2>1 DEF Continue
<1>b. ASSUME NEW r \in Reqs, NEW n \in Nat \cup {BadFd},
             NEW c \in {"absent", "empty", "data"}, OpenAs(r, n, c)
      PROVE  LeafTypeOK'
  <2>1. opened' \in SUBSET Nat /\ IsFiniteSet(opened')
    BY <1>b, FS_AddElement DEF OpenAs
  <2> QED BY <1>b, <2>1 DEF OpenAs
<1>c. LowestFree \in Nat
  BY LowestFreeIsFree
<1>1. ASSUME NEW r \in Reqs, HandlerStep(r) PROVE LeafTypeOK'
  <2>1. CASE CheckInited(r)
    BY <2>1 DEF CheckInited
  <2>2. CASE RunInit(r)
    BY <2>2 DEF RunInit
  <2>3. CASE SetInited(r)
    BY <2>3 DEF SetInited
  <2>4. CASE OpenWrite(r)
    BY <2>4, <1>b, <1>c DEF OpenWrite
  <2>5. CASE OpenRead(r)
    <3>1. store[File[r]] \in {"absent", "empty", "data"}
      OBVIOUS
    <3> QED BY <2>5, <3>1, <1>b, <1>c DEF OpenRead
  <2>6. CASE Submit(r)
    BY <2>6 DEF Submit
  <2>7. CASE Issue(r)
    BY <2>7 DEF Issue
  <2>8. CASE Attach(r)
    BY <2>8, <1>a DEF Attach
  <2> QED BY <1>1, <2>1, <2>2, <2>3, <2>4, <2>5, <2>6, <2>7, <2>8 DEF HandlerStep
<1>2. ASSUME NEW r \in Reqs, NEW ok \in BOOLEAN, Execute(r, ok) PROVE LeafTypeOK'
  <2>1. store' \in [Files -> {"absent", "empty", "data"}]
    BY <1>2 DEF Execute
  <2>2. buf' \in [Reqs -> {"raw", "data"}]
    BY <1>2 DEF Execute
  <2> QED BY <1>2, <2>1, <2>2 DEF Execute
<1>3. ASSUME NEW r \in Reqs, Signal(r) \/ PoolRun(r) \/ Reply(r) PROVE LeafTypeOK'
  <2>1. CASE Signal(r)
    BY <2>1 DEF Signal
  <2>2. CASE PoolRun(r)
    BY <2>2 DEF PoolRun
  <2>3. CASE Reply(r)
    BY <2>3 DEF Reply
  <2> QED BY <1>3, <2>1, <2>2, <2>3
<1>4. ASSUME NEW b \in Bases, Poll(b) PROVE LeafTypeOK'
  BY <1>4 DEF Poll
<1>5. ASSUME NEW b \in Bases, NEW r \in Reqs, Harvest(b, r) PROVE LeafTypeOK'
  BY <1>5, <1>a DEF Harvest
<1>6. CASE UNCHANGED <<vars, leafVars>>
  BY <1>6
<1> QED BY <1>1, <1>2, <1>3, <1>4, <1>5, <1>6, LeafCases DEF Work, ExecuteStep, BaseStep

-----------------------------------------------------------------------------
\* Ready never becomes false: no request leaves init() or ioSubmit() backwards.
LEMMA ReadyStable ==
    ASSUME TypeOK, [Next]_vars, Ready PROVE Ready'
<1> USE DEF TypeOK
<1>1. CASE Warm
  BY <1>1 DEF Ready, Warm
<1>2. ASSUME NEW u \in Reqs, pc[u] \in {"inited", "pushed", "issued", "end"}
      PROVE  pc'[u] \in {"inited", "pushed", "issued", "end"}
  <2>1. ASSUME NEW t \in Reqs, InitStep(t) \/ SubmitStep(t) \/ KernelStep(t)
        PROVE  pc'[u] \in {"inited", "pushed", "issued", "end"}
    <3>1. CASE InitStep(t)
      BY <3>1, <1>2 DEF InitStep, InitEventfd, InitMake, InitAssign, InitInstall,
                        InitRegister
    <3>2. CASE SubmitStep(t)
      BY <3>2, <1>2 DEF SubmitStep, ioSubmitPush, ioSubmitIssue, ioSubmitFuture
    <3>3. CASE KernelStep(t)
      BY <3>3, <1>2 DEF KernelStep, KernelPost, KernelSignal
    <3> QED BY <2>1, <3>1, <3>2, <3>3
  <2>2. ASSUME NEW b \in Bases, LoopStep(b)
        PROVE  pc'[u] \in {"inited", "pushed", "issued", "end"}
    BY <2>2, <1>2 DEF LoopStep, handlerReady, EventfdRead, GetEvents, BatchDone,
                      CompleteOne
  <2>3. CASE UNCHANGED vars
    BY <2>3, <1>2 DEF vars
  <2> QED BY <2>1, <2>2, <2>3 DEF Next
<1> QED BY <1>1, <1>2 DEF Ready

\* The place of each handler fits that of its request in the engine.
LEMMA StepsStep ==
    LeafInv /\ EngineInv /\ [LeafNext]_allVars => StepsFit' /\ SubmitAfterInit'
<1> SUFFICES ASSUME LeafInv, EngineInv, [LeafNext]_allVars
             PROVE  StepsFit' /\ SubmitAfterInit'
  OBVIOUS
<1> USE DEF LeafInv, EngineInv
<1>0. /\ TypeOK /\ StepsFit /\ SubmitAfterInit
      /\ step \in [Reqs -> Steps] /\ pc \in [Reqs -> Pc]
      /\ iofd \in [Reqs -> Fds \cup {NoFd}]
  BY DEF LeafTypeOK, TypeOK
<1>r. Ready => Ready'
  BY <1>0, ReadyStable, LeafEngineStep
<1>a. ASSUME UNCHANGED <<pc, iofd, step, inited>> PROVE StepsFit' /\ SubmitAfterInit'
  BY <1>a, <1>0, <1>r DEF StepsFit, SubmitAfterInit, Issued
<1>1. ASSUME NEW r \in Reqs, HandlerStep(r) PROVE StepsFit' /\ SubmitAfterInit'
  <2>1. CASE CheckInited(r)
    <3>1. UNCHANGED <<pc, iofd, inited>>
      BY <2>1 DEF CheckInited, vars
    <3>2. /\ step[r] = "arrive"
          /\ step' = [step EXCEPT ![r] = IF inited THEN "open" ELSE "init"]
      BY <2>1 DEF CheckInited
    <3> QED BY <3>1, <3>2, <1>0, <1>r DEF StepsFit, SubmitAfterInit, Issued
  <2>2. CASE RunInit(r)
    <3>1. UNCHANGED <<step, inited>> /\ step[r] = "init"
      BY <2>2 DEF RunInit, leafVars
    <3>2. /\ UNCHANGED iofd /\ pc'[r] \notin {"pushed", "issued", "end"}
          /\ \A u \in Reqs \ {r} : pc'[u] = pc[u]
      BY <2>2, <1>0 DEF RunInit, InitStep, InitEventfd, InitMake, InitAssign,
                        InitInstall, InitRegister
    <3> QED BY <3>1, <3>2, <1>0, <1>r DEF StepsFit, SubmitAfterInit, Issued
  <2>3. CASE SetInited(r)
    <3>1. UNCHANGED <<pc, iofd>>
      BY <2>3 DEF SetInited, vars
    <3>2. pc[r] = "inited" /\ step' = [step EXCEPT ![r] = "open"]
      BY <2>3 DEF SetInited
    <3>3. Ready
      BY <3>2 DEF Ready
    <3> QED BY <3>1, <3>2, <3>3, <1>0, <1>r DEF StepsFit, SubmitAfterInit, Issued
  <2>4. CASE OpenWrite(r) \/ OpenRead(r)
    <3>1. /\ UNCHANGED <<pc, iofd, inited>>
          /\ step[r] = "open" /\ step' = [step EXCEPT ![r] = "submit"]
      BY <2>4 DEF OpenWrite, OpenRead, OpenAs, vars
    <3> QED BY <3>1, <1>0, <1>r DEF StepsFit, SubmitAfterInit, Issued
  <2>5. CASE Submit(r)
    <3>1. /\ UNCHANGED <<iofd, inited>>
          /\ step' = [step EXCEPT ![r] = "submitted"]
          /\ pc' = [pc EXCEPT ![r] = "pushed"]
      BY <2>5 DEF Submit, ioSubmitPush
    <3> QED BY <3>1, <1>0, <1>r DEF StepsFit, SubmitAfterInit, Issued
  <2>6. CASE Issue(r)
    <3>1. /\ UNCHANGED <<step, inited>> /\ pc[r] = "pushed"
          /\ pc' = [pc EXCEPT ![r] = "issued"]
          /\ iofd' = [iofd EXCEPT ![r] = eventfd]
      BY <2>6 DEF Issue, ioSubmitIssue, leafVars
    <3>2. eventfd \in Fds
      BY <3>1 DEF EventfdMade
    <3> QED BY <3>1, <3>2, <1>0, <1>r DEF StepsFit, SubmitAfterInit, Issued
  <2>7. CASE Attach(r)
    <3>1. /\ UNCHANGED <<step, inited, iofd>> /\ pc[r] = "issued"
          /\ pc' = [pc EXCEPT ![r] = "end"]
      BY <2>7 DEF Attach, ioSubmitFuture, Continue, leafVars
    <3> QED BY <3>1, <1>0, <1>r DEF StepsFit, SubmitAfterInit, Issued
  <2> QED BY <1>1, <2>1, <2>2, <2>3, <2>4, <2>5, <2>6, <2>7 DEF HandlerStep
<1>2. ASSUME NEW r \in Reqs, ExecuteStep(r) \/ Signal(r) \/ PoolRun(r) \/ Reply(r)
      PROVE  UNCHANGED <<pc, iofd, step, inited>>
  BY <1>2 DEF ExecuteStep, Execute, Signal, PoolRun, Reply, KernelPost, KernelSignal,
              vars, leafVars
<1>3. ASSUME NEW b \in Bases, BaseStep(b) PROVE UNCHANGED <<pc, iofd, step, inited>>
  BY <1>3 DEF BaseStep, Poll, Harvest, Continue, handlerReady, EventfdRead, GetEvents,
              BatchDone, CompleteOne, leafVars
<1>4. CASE UNCHANGED <<vars, leafVars>>
  BY <1>4, <1>a DEF vars, leafVars
<1> QED BY <1>1, <1>2, <1>3, <1>4, <1>a, LeafCases DEF Work

-----------------------------------------------------------------------------
\* The continuation runs when the later of attaching and fulfilling happens.
LEMMA ContinuedStep ==
    LeafInv /\ EngineInv /\ [LeafNext]_allVars => ContinuedExactly'
<1> SUFFICES ASSUME LeafInv, EngineInv, [LeafNext]_allVars PROVE ContinuedExactly'
  OBVIOUS
<1>0. /\ pc \in [Reqs -> Pc] /\ reply \in [Reqs -> Replies]
      /\ fulfilled \subseteq Issued
      /\ \A b \in Bases : batch[b] \cap fulfilled = {}
      /\ \A r \in Reqs : reply[r] # "none" <=> r \in fulfilled /\ pc[r] = "end"
  BY DEF LeafInv, EngineInv, LeafTypeOK, TypeOK, InflightExact, OneOwner, ContinuedExactly
<1>a. ASSUME UNCHANGED <<reply, fulfilled>>,
             \A u \in Reqs : pc'[u] = "end" <=> pc[u] = "end"
      PROVE  ContinuedExactly'
  BY <1>a, <1>0 DEF ContinuedExactly
<1>1. ASSUME NEW r \in Reqs, HandlerStep(r) PROVE ContinuedExactly'
  <2>1. CASE CheckInited(r) \/ SetInited(r) \/ OpenWrite(r) \/ OpenRead(r)
    BY <2>1, <1>a DEF CheckInited, SetInited, OpenWrite, OpenRead, OpenAs, vars
  <2>2. CASE RunInit(r)
    <3>1. UNCHANGED <<reply, fulfilled>>
      BY <2>2 DEF RunInit, InitStep, InitEventfd, InitMake, InitAssign, InitInstall,
                  InitRegister, leafVars
    <3>2. \A u \in Reqs : pc'[u] = "end" <=> pc[u] = "end"
      BY <2>2, <1>0 DEF RunInit, InitStep, InitEventfd, InitMake, InitAssign,
                        InitInstall, InitRegister
    <3> QED BY <3>1, <3>2, <1>a
  <2>3. CASE Submit(r)
    BY <2>3, <1>a, <1>0 DEF Submit, ioSubmitPush
  <2>4. CASE Issue(r)
    BY <2>4, <1>a, <1>0 DEF Issue, ioSubmitIssue, leafVars
  <2>5. CASE Attach(r)
    <3>1. /\ pc[r] = "issued" /\ pc' = [pc EXCEPT ![r] = "end"]
          /\ fulfilled' = fulfilled
      BY <2>5 DEF Attach, ioSubmitFuture
    <3>2. CASE r \in fulfilled
      <4>1. reply' = [reply EXCEPT ![r] =
                         IF Kind[r] = "read" THEN "pooled" ELSE "posted"]
        BY <2>5, <3>2 DEF Attach, Continue
      <4> QED BY <3>1, <3>2, <4>1, <1>0 DEF ContinuedExactly
    <3>3. CASE r \notin fulfilled
      <4>1. reply' = reply
        BY <2>5, <3>3 DEF Attach, leafVars
      <4> QED BY <3>1, <3>3, <4>1, <1>0 DEF ContinuedExactly
    <3> QED BY <3>2, <3>3
  <2> QED BY <1>1, <2>1, <2>2, <2>3, <2>4, <2>5 DEF HandlerStep
<1>2. ASSUME NEW r \in Reqs, ExecuteStep(r) \/ Signal(r) PROVE ContinuedExactly'
  BY <1>2, <1>a DEF ExecuteStep, Execute, Signal, KernelPost, KernelSignal, leafVars
<1>3. ASSUME NEW r \in Reqs, PoolRun(r) \/ Reply(r) PROVE ContinuedExactly'
  <2>1. /\ UNCHANGED <<pc, fulfilled>> /\ reply[r] # "none"
        /\ \E p \in {"posted", "sent"} : reply' = [reply EXCEPT ![r] = p]
    BY <1>3 DEF PoolRun, Reply, vars
  <2> QED BY <2>1, <1>0 DEF ContinuedExactly
<1>4. ASSUME NEW b \in Bases, Poll(b) PROVE ContinuedExactly'
  BY <1>4, <1>a DEF Poll, handlerReady, EventfdRead, GetEvents, BatchDone, leafVars
<1>5. ASSUME NEW b \in Bases, NEW r \in Reqs, Harvest(b, r) PROVE ContinuedExactly'
  <2>1. pc' = pc /\ fulfilled' = fulfilled \cup {r} /\ r \notin fulfilled
    BY <1>5, <1>0 DEF Harvest, CompleteOne
  <2>2. CASE pc[r] = "end"
    <3>1. reply' = [reply EXCEPT ![r] =
                       IF Kind[r] = "read" THEN "pooled" ELSE "posted"]
      BY <1>5, <2>2 DEF Harvest, Continue
    <3> QED BY <2>1, <2>2, <3>1, <1>0 DEF ContinuedExactly
  <2>3. CASE pc[r] # "end"
    <3>1. reply' = reply
      BY <1>5, <2>3 DEF Harvest, leafVars
    <3> QED BY <2>1, <2>3, <3>1, <1>0 DEF ContinuedExactly
  <2> QED BY <2>2, <2>3
<1>6. CASE UNCHANGED <<vars, leafVars>>
  BY <1>6, <1>a DEF vars, leafVars
<1> QED BY <1>1, <1>2, <1>3, <1>4, <1>5, <1>6, LeafCases DEF Work, BaseStep

-----------------------------------------------------------------------------
(***************************************************************************)
(* Descriptors: an open adds a holder with a number not in use, and only   *)
(* the continuation of a request removes its holder and frees its number.  *)
(***************************************************************************)
LEMMA DescriptorStep ==
    LeafInv /\ EngineInv /\ [LeafNext]_allVars => DescriptorsExact'
<1> SUFFICES ASSUME LeafInv, EngineInv, [LeafNext]_allVars PROVE DescriptorsExact'
  OBVIOUS
<1>0. /\ LeafTypeOK /\ DescriptorsExact /\ StepsFit /\ SubmitAfterInit
      /\ ContinuedExactly /\ OneOwner /\ InflightExact /\ TypeOK
  BY DEF LeafInv, EngineInv
<1>t. /\ step \in [Reqs -> Steps] /\ reply \in [Reqs -> Replies]
      /\ fd \in [Reqs -> Nat \cup {BadFd}] /\ opened \in SUBSET Nat
  BY <1>0 DEF LeafTypeOK
<1>a. ASSUME UNCHANGED <<opened, fd>>, Holders' = Holders, kernel' \subseteq Holders
      PROVE  DescriptorsExact'
  BY <1>a, <1>0 DEF DescriptorsExact
<1>b. ASSUME NEW r \in Reqs, NEW n, NEW c, OpenAs(r, n, c), step[r] = "open",
             n = BadFd \/ (n \in Nat /\ n \notin opened)
      PROVE  DescriptorsExact'
  <2>1. reply[r] = "none"
    BY <1>b, <1>0 DEF SubmitAfterInit, ContinuedExactly
  <2>2. /\ fd' = [fd EXCEPT ![r] = n] /\ step' = [step EXCEPT ![r] = "submit"]
        /\ UNCHANGED <<reply, kernel>>
    BY <1>b DEF OpenAs, vars
  <2>3. r \notin Holders
    BY <1>b DEF Holders
  <2>4. \A u \in Holders : fd'[u] = fd[u]
    BY <2>2, <2>3, <1>t DEF Holders
  <2>5. CASE n = BadFd
    <3>1. Holders' = Holders
      BY <2>2, <2>3, <2>5, <1>t DEF Holders
    <3>2. opened' = opened
      BY <1>b, <2>5 DEF OpenAs
    <3> QED BY <2>2, <2>4, <3>1, <3>2, <1>0 DEF DescriptorsExact
  <2>6. CASE n # BadFd
    <3>1. Holders' = Holders \cup {r}
      BY <2>1, <2>2, <2>6, <1>t DEF Holders
    <3>2. opened' = opened \cup {n} /\ fd'[r] = n /\ n \notin opened
      BY <1>b, <2>2, <2>6, <1>t DEF OpenAs
    <3> QED BY <2>2, <2>4, <3>1, <3>2, <1>0 DEF DescriptorsExact
  <2> QED BY <2>5, <2>6
<1>c. ASSUME NEW r \in Reqs, Continue(r), reply[r] = "none", r \notin kernel,
             step[r] = "submitted", kernel' = kernel
      PROVE  DescriptorsExact'
  <2>1. /\ fd' = fd /\ step' = step /\ opened' = opened \ {fd[r]}
        /\ reply'[r] # "none" /\ \A u \in Reqs \ {r} : reply'[u] = reply[u]
    BY <1>c, <1>t DEF Continue
  <2>2. Holders' = Holders \ {r}
    BY <2>1 DEF Holders
  <2>3. CASE fd[r] = BadFd
    <3>1. r \notin Holders /\ opened' = opened
      BY <2>1, <2>3, <1>t DEF Holders, BadFd
    <3> QED BY <2>1, <2>2, <3>1, <1>c, <1>0 DEF DescriptorsExact
  <2>4. CASE fd[r] # BadFd
    <3>1. r \in Holders
      BY <1>c, <2>4 DEF Holders
    <3> QED BY <2>1, <2>2, <3>1, <1>c, <1>0 DEF DescriptorsExact
  <2> QED BY <2>3, <2>4
<1>d. ASSUME NEW r \in Reqs, pc[r] \in {"pushed", "issued", "end"}
      PROVE  step[r] = "submitted"
  BY <1>d, <1>0, <1>t DEF StepsFit, SubmitAfterInit, Steps
<1>e. kernel \subseteq Holders
  BY <1>0 DEF DescriptorsExact
<1>f. LowestFree \in Nat /\ LowestFree \notin opened
  BY <1>0, LowestFreeIsFree DEF LeafTypeOK
<1>1. ASSUME NEW r \in Reqs, HandlerStep(r) PROVE DescriptorsExact'
  <2>1. CASE CheckInited(r) \/ SetInited(r)
    <3>1. /\ UNCHANGED <<opened, fd, reply, kernel>>
          /\ step[r] \in {"arrive", "init"}
          /\ \E p \in {"open", "init"} : step' = [step EXCEPT ![r] = p]
      BY <2>1 DEF CheckInited, SetInited, vars
    <3>2. Holders' = Holders
      BY <3>1, <1>t DEF Holders
    <3> QED BY <3>1, <3>2, <1>a, <1>e
  <2>2. CASE RunInit(r)
    <3>1. UNCHANGED <<opened, fd, reply, step, kernel>>
      BY <2>2 DEF RunInit, InitStep, InitEventfd, InitMake, InitAssign, InitInstall,
                  InitRegister, leafVars
    <3> QED BY <3>1, <1>a, <1>e DEF Holders
  <2>3. CASE OpenWrite(r)
    BY <2>3, <1>b, <1>f DEF OpenWrite
  <2>4. CASE OpenRead(r)
    BY <2>4, <1>b, <1>f DEF OpenRead
  <2>5. CASE Submit(r)
    <3>1. /\ UNCHANGED <<opened, fd, reply, kernel>>
          /\ step[r] = "submit" /\ step' = [step EXCEPT ![r] = "submitted"]
      BY <2>5 DEF Submit, ioSubmitPush
    <3>2. Holders' = Holders
      BY <3>1, <1>t DEF Holders
    <3> QED BY <3>1, <3>2, <1>a, <1>e
  <2>6. CASE Issue(r)
    <3>1. /\ UNCHANGED <<opened, fd, reply, step>> /\ pc[r] = "pushed"
          /\ kernel' \subseteq kernel \cup (IF fd[r] = BadFd THEN {} ELSE {r})
      BY <2>6 DEF Issue, ioSubmitIssue, Accepts, leafVars
    <3>2. Holders' = Holders
      BY <3>1 DEF Holders
    <3>3. fd[r] # BadFd => r \in Holders
      BY <3>1, <1>d, <1>0 DEF Holders, ContinuedExactly
    <3> QED BY <3>1, <3>2, <3>3, <1>a, <1>e
  <2>7. CASE Attach(r)
    <3>1. pc[r] = "issued" /\ kernel' = kernel
      BY <2>7 DEF Attach, ioSubmitFuture
    <3>2. CASE r \in fulfilled
      <4>1. Continue(r) /\ reply[r] = "none" /\ r \notin kernel
        BY <2>7, <3>1, <3>2, <1>0 DEF Attach, ContinuedExactly, OneOwner, InflightExact
      <4> QED BY <3>1, <4>1, <1>c, <1>d
    <3>3. CASE r \notin fulfilled
      <4>1. UNCHANGED <<opened, fd, reply, step>>
        BY <2>7, <3>3 DEF Attach, leafVars
      <4> QED BY <3>1, <4>1, <1>a, <1>e DEF Holders
    <3> QED BY <3>2, <3>3
  <2> QED BY <1>1, <2>1, <2>2, <2>3, <2>4, <2>5, <2>6, <2>7 DEF HandlerStep
<1>2. ASSUME NEW r \in Reqs, ExecuteStep(r) \/ Signal(r) PROVE DescriptorsExact'
  <2>1. UNCHANGED <<opened, fd, reply, step>> /\ kernel' \subseteq kernel
    BY <1>2 DEF ExecuteStep, Execute, Signal, KernelPost, KernelSignal, leafVars
  <2> QED BY <2>1, <1>a, <1>e DEF Holders
<1>3. ASSUME NEW r \in Reqs, PoolRun(r) \/ Reply(r) PROVE DescriptorsExact'
  <2>1. /\ UNCHANGED <<opened, fd, step, kernel>> /\ reply[r] # "none"
        /\ \E p \in {"posted", "sent"} : reply' = [reply EXCEPT ![r] = p]
    BY <1>3 DEF PoolRun, Reply, vars
  <2>2. Holders' = Holders
    BY <2>1, <1>t DEF Holders
  <2> QED BY <2>1, <2>2, <1>a, <1>e
<1>4. ASSUME NEW b \in Bases, Poll(b) PROVE DescriptorsExact'
  <2>1. UNCHANGED <<opened, fd, reply, step, kernel>>
    BY <1>4 DEF Poll, handlerReady, EventfdRead, GetEvents, BatchDone, leafVars
  <2> QED BY <2>1, <1>a, <1>e DEF Holders
<1>5. ASSUME NEW b \in Bases, NEW r \in Reqs, Harvest(b, r) PROVE DescriptorsExact'
  <2>1. r \in batch[b] /\ kernel' = kernel
    BY <1>5 DEF Harvest, CompleteOne
  <2>2. r \notin kernel /\ r \notin fulfilled
    BY <2>1, <1>0 DEF OneOwner, InflightExact
  <2>3. CASE pc[r] = "end"
    <3>1. Continue(r) /\ reply[r] = "none"
      BY <1>5, <2>2, <2>3, <1>0 DEF Harvest, ContinuedExactly
    <3> QED BY <2>1, <2>2, <2>3, <3>1, <1>c, <1>d
  <2>4. CASE pc[r] # "end"
    <3>1. UNCHANGED <<opened, fd, reply, step>>
      BY <1>5, <2>4 DEF Harvest, leafVars
    <3> QED BY <2>1, <3>1, <1>a, <1>e DEF Holders
  <2> QED BY <2>3, <2>4
<1>6. CASE UNCHANGED <<vars, leafVars>>
  BY <1>6, <1>a, <1>e DEF vars, leafVars, Holders
<1> QED BY <1>1, <1>2, <1>3, <1>4, <1>5, <1>6, LeafCases DEF Work, BaseStep

-----------------------------------------------------------------------------
\* The handlers' inductive invariant holds in every reachable state.
THEOREM LeafCorrect == LeafSpec => []LeafInv
<1>1. LeafInv /\ EngineInv /\ [LeafNext]_allVars => LeafInv'
  BY LeafTypeStep, StepsStep, ContinuedStep, DescriptorStep DEF LeafInv
<1> QED BY <1>1, LeafStart, LeafEngine, PTL DEF LeafSpec

\* The handlers' variables keep their types; a write never gets past a
\* descriptor that open did not give it.
THEOREM LeafTypeCorrect == LeafSpec => []LeafTypeOK
<1>1. LeafInv => LeafTypeOK
  BY DEF LeafInv
<1> QED BY <1>1, LeafCorrect, PTL

(***************************************************************************)
(* No handler, however the first requests race, submits before init() has  *)
(* run: every iocb that the kernel is given carries a real eventfd.        *)
(***************************************************************************)
THEOREM SubmitCorrect == LeafSpec => []SubmitAfterInit
<1>1. LeafInv => SubmitAfterInit
  BY DEF LeafInv
<1> QED BY <1>1, LeafCorrect, PTL

\* The continuation of a request runs exactly once both sides have arrived.
THEOREM ContinuedCorrect == LeafSpec => []ContinuedExactly
<1>1. LeafInv => ContinuedExactly
  BY DEF LeafInv
<1> QED BY <1>1, LeafCorrect, PTL

\* Descriptors are never shared, leaked past the answer, or closed under an I/O.
THEOREM DescriptorsCorrect == LeafSpec => []DescriptorsExact
<1>1. LeafInv => DescriptorsExact
  BY DEF LeafInv
<1> QED BY <1>1, LeafCorrect, PTL

-----------------------------------------------------------------------------
(* A server whose first request is alone until asyncio_inited_ is set. *)

\* The invariant of a server whose first request comes alone, at the start.
LEMMA SoloStart == LeafInit => SoloInv
BY ConstantsAssumption
   DEF LeafInit, Init, SoloInv, SoloInit, HandlerWatchesEventfd, Fds

\* While the first request is alone every step preserves that invariant.
LEMMA SoloStep ==
    ASSUME \A s, t \in Racers : s = t,
           SoloInv, LeafInv, EngineInv, [LeafNext]_allVars
    PROVE  SoloInv'
<1>0. /\ pc \in [Reqs -> Pc] /\ step \in [Reqs -> Steps]
      /\ hfd \in [Fds -> Fds \cup {NoFd}] /\ iofd \in [Reqs -> Fds \cup {NoFd}]
      /\ StepsFit /\ SubmitAfterInit /\ SoloInit /\ HandlerWatchesEventfd
  BY DEF LeafInv, EngineInv, LeafTypeOK, TypeOK, SoloInv
<1>a. ASSUME UNCHANGED <<pc, step, inited, eventfd, hfd, handlerp, registered, iofd>>
      PROVE  SoloInv'
  BY <1>a, <1>0 DEF SoloInv, SoloInit, HandlerWatchesEventfd
<1>b. ASSUME NEW r \in Reqs, pc[r] \in {"issued", "end"} PROVE inited
  BY <1>b, <1>0 DEF StepsFit, SubmitAfterInit, SoloInit, Steps
<1>1. ASSUME NEW r \in Reqs, HandlerStep(r) PROVE SoloInv'
  <2>1. CASE CheckInited(r)
    <3>1. /\ UNCHANGED <<pc, inited, eventfd, hfd, handlerp, registered, iofd>>
          /\ step[r] = "arrive" /\ (r \in Racers \/ inited)
          /\ step' = [step EXCEPT ![r] = IF inited THEN "open" ELSE "init"]
      BY <2>1 DEF CheckInited, vars
    <3>2. pc[r] = "idle"
      BY <3>1, <1>0 DEF StepsFit
    <3>3. SoloInit'
      BY <3>1, <3>2, <1>0 DEF SoloInit
    <3>4. HandlerWatchesEventfd'
      BY <3>1, <1>0 DEF HandlerWatchesEventfd
    <3> QED BY <3>3, <3>4 DEF SoloInv
  <2>2. CASE RunInit(r)
    <3>1. UNCHANGED <<step, inited>> /\ step[r] = "init" /\ r \in Racers /\ ~inited
      BY <2>2, <1>0 DEF RunInit, leafVars, SoloInit
    <3>2. \A u \in Reqs \ {r} : step[u] # "init"
      BY <3>1, <1>0 DEF SoloInit
    <3>3. HandlerWatchesEventfd'
      BY <3>1 DEF HandlerWatchesEventfd
    <3>4. /\ pc'[r] # "idle" => eventfd' = r
          /\ pc'[r] \notin {"idle", "make"} => hfd'[r] = r
          /\ pc'[r] \in {"register", "inited"} => handlerp' = r
          /\ pc'[r] = "inited" => r \in registered'
      <4>1. /\ pc[r] # "idle" => eventfd = r
            /\ pc[r] \notin {"idle", "make"} => hfd[r] = r
            /\ pc[r] \in {"register", "inited"} => handlerp = r
        BY <3>1, <1>0 DEF SoloInit
      <4>2. CASE InitEventfd(r)
        BY <4>2, <1>0 DEF InitEventfd
      <4>3. CASE InitMake(r)
        BY <4>1, <4>3, <1>0 DEF InitMake, Fds
      <4>4. CASE InitAssign(r)
        BY <4>1, <4>4, <1>0 DEF InitAssign
      <4>5. CASE InitInstall(r)
        BY <4>1, <4>5, <1>0 DEF InitInstall
      <4>6. CASE InitRegister(r)
        BY <4>1, <4>6, <1>0 DEF InitRegister
      <4> QED BY <2>2, <4>2, <4>3, <4>4, <4>5, <4>6 DEF RunInit, InitStep
    <3>5. SoloInit'
      BY <3>1, <3>2, <3>4, <1>0 DEF SoloInit
    <3> QED BY <3>3, <3>5 DEF SoloInv
  <2>3. CASE SetInited(r)
    <3>1. /\ UNCHANGED <<pc, eventfd, hfd, handlerp, registered, iofd>>
          /\ step[r] = "init" /\ pc[r] = "inited" /\ inited'
          /\ step' = [step EXCEPT ![r] = "open"]
      BY <2>3 DEF SetInited, vars
    <3>2. /\ r \in Racers /\ ~inited /\ handlerp = r /\ hfd[r] = r /\ eventfd = r
          /\ r \in registered
      BY <3>1, <1>0 DEF SoloInit
    <3>3. \A u \in Reqs \ {r} : step[u] # "init"
      BY <3>2, <1>0 DEF SoloInit
    <3>4. SoloInit'
      BY <3>1, <3>3, <1>0 DEF SoloInit
    <3>5. HandlerWatchesEventfd'
      BY <3>1, <3>2, <1>b DEF HandlerWatchesEventfd
    <3> QED BY <3>4, <3>5 DEF SoloInv
  <2>4. CASE OpenWrite(r) \/ OpenRead(r)
    <3>1. /\ UNCHANGED <<pc, inited, eventfd, hfd, handlerp, registered, iofd>>
          /\ step[r] = "open" /\ step' = [step EXCEPT ![r] = "submit"]
      BY <2>4 DEF OpenWrite, OpenRead, OpenAs, vars
    <3> QED BY <3>1, <1>0 DEF SoloInv, SoloInit, HandlerWatchesEventfd
  <2>5. CASE Submit(r)
    <3>1. /\ UNCHANGED <<inited, eventfd, hfd, handlerp, registered, iofd>>
          /\ step[r] = "submit" /\ step' = [step EXCEPT ![r] = "submitted"]
          /\ pc' = [pc EXCEPT ![r] = "pushed"]
      BY <2>5 DEF Submit, ioSubmitPush
    <3>2. SoloInit'
      BY <3>1, <1>0 DEF SoloInit
    <3>3. HandlerWatchesEventfd'
      BY <3>1, <1>0 DEF HandlerWatchesEventfd
    <3> QED BY <3>2, <3>3 DEF SoloInv
  <2>6. CASE Issue(r)
    <3>1. /\ UNCHANGED <<inited, step, eventfd, hfd, handlerp, registered>>
          /\ pc[r] = "pushed" /\ pc' = [pc EXCEPT ![r] = "issued"]
          /\ iofd' = [iofd EXCEPT ![r] = eventfd]
      BY <2>6 DEF Issue, ioSubmitIssue, leafVars
    <3>2. step[r] # "init"
      BY <3>1, <1>0 DEF StepsFit
    <3>3. SoloInit'
      BY <3>1, <3>2, <1>0 DEF SoloInit
    <3>4. HandlerWatchesEventfd'
      BY <3>1, <1>0 DEF HandlerWatchesEventfd
    <3> QED BY <3>3, <3>4 DEF SoloInv
  <2>7. CASE Attach(r)
    <3>1. /\ UNCHANGED <<inited, step, eventfd, hfd, handlerp, registered, iofd>>
          /\ pc[r] = "issued" /\ pc' = [pc EXCEPT ![r] = "end"]
      BY <2>7 DEF Attach, ioSubmitFuture, Continue, leafVars
    <3>2. step[r] # "init"
      BY <3>1, <1>0 DEF StepsFit
    <3>3. SoloInit'
      BY <3>1, <3>2, <1>0 DEF SoloInit
    <3>4. HandlerWatchesEventfd'
      BY <3>1, <1>0 DEF HandlerWatchesEventfd
    <3> QED BY <3>3, <3>4 DEF SoloInv
  <2> QED BY <1>1, <2>1, <2>2, <2>3, <2>4, <2>5, <2>6, <2>7 DEF HandlerStep
<1>2. ASSUME NEW r \in Reqs, ExecuteStep(r) \/ Signal(r) \/ PoolRun(r) \/ Reply(r)
      PROVE  SoloInv'
  BY <1>2, <1>a DEF ExecuteStep, Execute, Signal, PoolRun, Reply, KernelPost,
                    KernelSignal, vars, leafVars
<1>3. ASSUME NEW b \in Bases, BaseStep(b) PROVE SoloInv'
  BY <1>3, <1>a DEF BaseStep, Poll, Harvest, Continue, handlerReady, EventfdRead,
                    GetEvents, BatchDone, CompleteOne, leafVars
<1>4. CASE UNCHANGED <<vars, leafVars>>
  BY <1>4, <1>a DEF vars, leafVars
<1> QED BY <1>1, <1>2, <1>3, <1>4, LeafCases DEF Work

(***************************************************************************)
(* When at most one request can find asyncio_inited_ unset, the unlocked   *)
(* flag is sound: from the moment it is set, the polled handler watches    *)
(* the eventfd that is read and that every iocb carries.                   *)
(***************************************************************************)
THEOREM SoloCorrect ==
    ASSUME \A s, t \in Racers : s = t
    PROVE  LeafSpec => []HandlerWatchesEventfd
<1>1. SoloInv /\ LeafInv /\ EngineInv /\ [LeafNext]_allVars => SoloInv'
  BY SoloStep
<1>2. SoloInv => HandlerWatchesEventfd
  BY DEF SoloInv
<1> QED BY <1>1, <1>2, SoloStart, LeafCorrect, LeafEngine, PTL DEF LeafSpec

-----------------------------------------------------------------------------
(* What files and buffers hold. *)

\* The step of the service that a step of the server is.
LEMMA LeafServiceStep ==
    EngineInv /\ [LeafNext]_allVars => [Service!Next]_ioPhase
BY LeafEngineStep, ServiceStep

(***************************************************************************)
(* The leaf server, handlers and engine together, implements the service:  *)
(* whatever the handlers do, an I/O is submitted, executed and completed   *)
(* in this order, and once.                                                *)
(***************************************************************************)
THEOREM LeafImplementsService == LeafSpec => ServiceSpec
<1>1. LeafInit => Service!Init
  BY DEF LeafInit, Init, Service!Init, ioPhase, Submitted
<1> QED BY <1>1, LeafServiceStep, LeafEngine, PTL
           DEF LeafSpec, ServiceSpec, Service!Spec

\* An I/O that was carried out stays carried out.
LEMMA ExecutedStable ==
    ASSUME EngineInv, [LeafNext]_allVars, NEW w \in Reqs, Executed(w)
    PROVE  Executed(w)'
<1>0. ioPhase = [t \in Reqs |-> ioPhase[t]] /\ ioPhase[w] \in {"executed", "done"}
  BY DEF ioPhase, Executed
<1>1. [Service!Next]_ioPhase
  BY LeafServiceStep
<1>2. ASSUME NEW t \in Reqs,
             Service!Submit(t) \/ Service!Execute(t) \/ Service!Complete(t)
      PROVE  ioPhase'[w] \in {"executed", "done"}
  BY <1>0, <1>2 DEF Service!Submit, Service!Execute, Service!Complete,
                    Service!Advance
<1>3. CASE ioPhase' = ioPhase
  BY <1>0, <1>3 DEF Executed
<1> QED BY <1>1, <1>2, <1>3 DEF Service!Next, Executed

\* Nothing has been opened or read at the start.
LEMMA DataStart == LeafInit => DataTraced
BY LeafAssumption DEF LeafInit, DataTraced

(***************************************************************************)
(* An open for writing leaves no data in its file and none adds any, so    *)
(* data comes from a write that the kernel carried out, or was there; and  *)
(* a read only passes on what its file holds.                              *)
(***************************************************************************)
LEMMA DataStep ==
    DataTraced /\ LeafInv /\ EngineInv /\ [LeafNext]_allVars => DataTraced'
<1> SUFFICES ASSUME DataTraced, LeafInv, EngineInv, [LeafNext]_allVars
             PROVE  DataTraced'
  OBVIOUS
<1> DEFINE Past(r) == Kind[r] = "write" /\ step[r] \in {"submit", "submitted"}
           Full(r) == store[File[r]] = "data"
<1>0. /\ step \in [Reqs -> Steps] /\ store \in [Files -> {"absent", "empty", "data"}]
      /\ buf \in [Reqs -> {"raw", "data"}]
  BY DEF LeafInv, LeafTypeOK
<1>1. \A f : Written(f) => Written(f)'
  BY ExecutedStable DEF Written
<1>2. \A r \in Reqs : /\ Past(r) /\ Full(r) => Written(File[r])
                      /\ Full(r) \/ buf[r] = "data" =>
                            File[r] \in Present \/ Written(File[r])
  BY DEF DataTraced
<1>a. ASSUME \A r \in Reqs :
                /\ Past(r)' /\ Full(r)' => Written(File[r])'
                /\ Full(r)' \/ buf'[r] = "data" =>
                      File[r] \in Present \/ Written(File[r])'
      PROVE  DataTraced'
  BY <1>a DEF DataTraced
<1>b. ASSUME \A r \in Reqs : /\ buf'[r] = "data" => buf[r] = "data" \/ Full(r)
                             /\ Full(r)' => Full(r)
                             /\ Full(r)' /\ Past(r)' => Past(r)
      PROVE  DataTraced'
  <2> HIDE DEF Past, Full
  <2> QED BY <1>1, <1>2, <1>a, <1>b
<1>c. ASSUME UNCHANGED <<buf, store, step>> PROVE DataTraced'
  BY <1>b, <1>c
<1>3. ASSUME NEW r \in Reqs, HandlerStep(r) PROVE DataTraced'
  <2>1. CASE CheckInited(r) \/ SetInited(r)
    <3>1. /\ UNCHANGED <<buf, store>>
          /\ \E p \in {"open", "init"} : step' = [step EXCEPT ![r] = p]
      BY <2>1 DEF CheckInited, SetInited
    <3> QED BY <3>1, <1>0, <1>b
  <2>2. CASE RunInit(r) \/ Issue(r) \/ Attach(r)
    BY <2>2, <1>c DEF RunInit, Issue, Attach, Continue, leafVars
  <2>3. ASSUME NEW n, NEW c, OpenAs(r, n, c),
               c = "empty" \/ (Kind[r] = "read" /\ c = store[File[r]])
        PROVE  DataTraced'
    <3>1. /\ buf' = buf /\ store' = [store EXCEPT ![File[r]] = c]
          /\ step' = [step EXCEPT ![r] = "submit"]
      BY <2>3 DEF OpenAs
    <3>2. /\ File[r] \in Files
          /\ \A f \in Files : store'[f] = IF f = File[r] THEN c ELSE store[f]
      BY <3>1, <1>0, LeafAssumption
    <3>3. \A u \in Reqs : u # r => step'[u] = step[u]
      BY <3>1, <1>0
    <3>4. ASSUME NEW u \in Reqs, Full(u)' PROVE Full(u) /\ (Past(u)' => Past(u))
      <4>1. File[u] \in Files
        BY LeafAssumption
      <4>2. Full(u)
        BY <2>3, <3>2, <3>4, <4>1
      <4>3. CASE u = r
        BY <2>3, <3>2, <3>4, <4>2, <4>3
      <4>4. CASE u # r
        BY <3>3, <4>2, <4>4
      <4> QED BY <4>3, <4>4
    <3> QED BY <3>1, <3>4, <1>b
  <2>4. CASE OpenWrite(r) \/ OpenRead(r)
    BY <2>3, <2>4 DEF OpenWrite, OpenRead
  <2>5. CASE Submit(r)
    <3>1. /\ UNCHANGED <<buf, store>> /\ step[r] = "submit"
          /\ step' = [step EXCEPT ![r] = "submitted"]
      BY <2>5 DEF Submit
    <3> QED BY <3>1, <1>0, <1>b
  <2> QED BY <1>3, <2>1, <2>2, <2>4, <2>5 DEF HandlerStep
<1>4. ASSUME NEW r \in Reqs, NEW ok \in BOOLEAN, Execute(r, ok) PROVE DataTraced'
  <2>1. Executed(r)'
    BY <1>4 DEF Execute, KernelPost, Executed, ioPhase
  <2>2. step' = step
    BY <1>4 DEF Execute
  <2>3. CASE ok /\ Kind[r] = "write"
    <3>1. Written(File[r])'
      BY <2>1, <2>3 DEF Written
    <3>2. buf' = buf /\ \A f \in Files \ {File[r]} : store'[f] = store[f]
      BY <1>4, <2>3, <1>0 DEF Execute
    <3>3. ASSUME NEW u \in Reqs
          PROVE  /\ Past(u)' /\ Full(u)' => Written(File[u])'
                 /\ Full(u)' \/ buf'[u] = "data" =>
                       File[u] \in Present \/ Written(File[u])'
      <4>1. CASE File[u] = File[r]
        BY <3>1, <4>1
      <4>2. CASE File[u] # File[r]
        <5>1. (Full(u)' <=> Full(u)) /\ (Past(u)' <=> Past(u)) /\ buf'[u] = buf[u]
          BY <3>2, <4>2, <2>2, LeafAssumption
        <5> HIDE DEF Past, Full
        <5> QED BY <5>1, <1>1, <1>2
      <4> QED BY <4>1, <4>2
    <3> QED BY <3>3, <1>a
  <2>4. CASE ~(ok /\ Kind[r] = "write")
    <3>1. store' = store
      BY <1>4, <2>4, <1>0 DEF Execute
    <3>2. \A u \in Reqs : buf'[u] = "data" => buf[u] = "data" \/ Full(u)
      <4>1. \A u \in Reqs \ {r} : buf'[u] = buf[u]
        BY <1>4, <1>0 DEF Execute
      <4>2. buf'[r] = "data" => buf[r] = "data" \/ Full(r)
        BY <1>4, <1>0 DEF Execute
      <4> QED BY <4>1, <4>2
    <3> QED BY <3>1, <3>2, <2>2, <1>b
  <2> QED BY <2>3, <2>4
<1>5. ASSUME NEW r \in Reqs, Signal(r) \/ PoolRun(r) \/ Reply(r) PROVE DataTraced'
  BY <1>5, <1>c DEF Signal, PoolRun, Reply, leafVars
<1>6. ASSUME NEW b \in Bases, BaseStep(b) PROVE DataTraced'
  BY <1>6, <1>c DEF BaseStep, Poll, Harvest, Continue, leafVars
<1>7. CASE UNCHANGED <<vars, leafVars>>
  BY <1>7, <1>c DEF leafVars
<1>8. Outcomes \subseteq BOOLEAN
  BY LeafAssumption
<1> QED BY <1>3, <1>4, <1>5, <1>6, <1>7, <1>8, LeafCases DEF Work, ExecuteStep

(***************************************************************************)
(* A file opened for writing holds only what writes carried out have put   *)
(* there, and a buffer only data of its own file, for any number of        *)
(* requests on any files, whichever opens and I/Os fail.                   *)
(***************************************************************************)
THEOREM DataCorrect == LeafSpec => []DataTraced
BY DataStart, DataStep, LeafCorrect, LeafEngine, PTL DEF LeafSpec
=============================================================================
