------------------------------- MODULE AsyncIO -------------------------------
(***************************************************************************)
(* The asynchronous-I/O engine of the leaf server,                         *)
(* fbthrift/exp3/LEAF/AsyncIO.{h,cpp}.  Handler threads call init() and    *)
(* ioSubmit(); the kernel executes an iocb, posts its event to the         *)
(* completion ring and then signals the eventfd stored in the iocb; an     *)
(* event-base thread that polls a registered EventFDHandler drains the     *)
(* eventfd, harvests events and fulfils the promise of each IO.            *)
(*                                                                         *)
(* Every request is one handler-thread activation with its own IO object.  *)
(* The eventfd and the EventFDHandler that a request makes when it runs    *)
(* init() are named after that request; Boot names the pair that an        *)
(* earlier, already served request made.                                   *)
(***************************************************************************)
EXTENDS Integers, Sequences, FiniteSets, Functions

CONSTANTS
    Reqs,       \* the requests, each with its handler thread and its IO
    Boot,       \* eventfd and handler of an init() that ended long ago
    NoFd,       \* eventfd_ and handlerp_ before any init()
    Bases,      \* the event bases (one loop thread each)
    Base,       \* the event base passed to the init() of each request
    Capacity,   \* how many events the kernel context has room for
    Racers      \* the requests that may find init() not yet done and run it;
                \* when there are none, Boot's init() has already ended

Fds  == Reqs \cup {Boot}
Warm == Racers = {}

ASSUME ConstantsAssumption ==
    /\ Boot \notin Reqs
    /\ NoFd \notin Fds
    /\ IsFiniteSet(Reqs)
    /\ Base \in [Fds -> Bases]
    /\ Capacity \in Nat
    /\ Racers \subseteq Reqs

VARIABLES
    pc,         \* where each request is inside init() or ioSubmit()
    eventfd,    \* AsyncIO::eventfd_
    hfd,        \* EventFDHandler::fd_ of each handler object
    stale,      \* the pointer that a running "handlerp_ = ..." will delete
    handlerp,   \* AsyncIO::handlerp_
    registered, \* handler objects that their event base polls
    count,      \* the counter of each eventfd
    inflight,   \* AsyncIO::inflight_
    iofd,       \* the eventfd stored in each iocb
    kernel,     \* requests the kernel is executing
    ring,       \* executed, event in the completion ring
    unsig,      \* event posted, eventfd not yet signalled
    loop,       \* where each event base is inside iosCompleted()
    nevents,    \* iosCompleted's local of that name
    batch,      \* iosCompleted's events not yet handled
    fulfilled   \* requests whose promise is fulfilled

initVars   == <<eventfd, hfd, stale, handlerp, registered>>
submitVars == <<pc, iofd>>
kernelVars == <<count, kernel, ring, unsig>>
loopVars   == <<loop, nevents, batch>>
vars == <<pc, eventfd, hfd, stale, handlerp, registered, count, inflight, iofd,
          kernel, ring, unsig, loop, nevents, batch, fulfilled>>

Pc == {"idle", "make", "assign", "install", "register", "inited",
       "pushed", "issued", "end"}

Loop == {"poll", "read", "get", "each"}

\* Requests that are inside or past ioSubmit().
Submitted == {t \in Reqs : pc[t] \in {"pushed", "issued", "end"}}

\* Requests that the kernel has been asked to execute.
Issued == {t \in Reqs : pc[t] \in {"issued", "end"}}

\* Some init() has run to its end.
Ready == Warm \/ \E t \in Reqs : pc[t] \in {"inited", "pushed", "issued", "end"}

(***************************************************************************)
(* The constructor: io_setup gives an empty context.  With Warm, init()    *)
(* has run and its handler is polled.                                      *)
(***************************************************************************)
Init ==
    /\ pc = [t \in Reqs |-> "idle"]
    /\ eventfd = IF Warm THEN Boot ELSE NoFd
    /\ hfd = [f \in Fds |-> IF f = Boot /\ Warm THEN Boot ELSE NoFd]
    /\ stale = [t \in Reqs |-> NoFd]
    /\ handlerp = IF Warm THEN Boot ELSE NoFd
    /\ registered = IF Warm THEN {Boot} ELSE {}
    /\ count = [f \in Fds |-> 0]
    /\ inflight = << >>
    /\ iofd = [t \in Reqs |-> NoFd]
    /\ kernel = {}
    /\ ring = {}
    /\ unsig = {}
    /\ loop = [b \in Bases |-> "poll"]
    /\ nevents = [b \in Bases |-> 0]
    /\ batch = [b \in Bases |-> {}]
    /\ fulfilled = {}

-----------------------------------------------------------------------------
(***************************************************************************)
(* AsyncIO::init, one action per access to the shared members, which no    *)
(* lock protects.  unique_ptr's assignment reads the old pointer, stores   *)
(* the new one and then deletes the old object, whose destructor           *)
(* unregisters it.                                                         *)
(***************************************************************************)
InitEventfd(t) ==
    /\ t \in Racers
    /\ pc[t] = "idle"
    /\ eventfd' = t
    /\ pc' = [pc EXCEPT ![t] = "make"]
    /\ UNCHANGED <<hfd, stale, handlerp, registered, count, inflight, iofd,
                   kernel, ring, unsig, loopVars, fulfilled>>

InitMake(t) ==
    /\ pc[t] = "make"
    /\ hfd' = [hfd EXCEPT ![t] = eventfd]
    /\ pc' = [pc EXCEPT ![t] = "assign"]
    /\ UNCHANGED <<eventfd, stale, handlerp, registered, count, inflight, iofd,
                   kernel, ring, unsig, loopVars, fulfilled>>

InitAssign(t) ==
    /\ pc[t] = "assign"
    /\ stale' = [stale EXCEPT ![t] = handlerp]
    /\ pc' = [pc EXCEPT ![t] = "install"]
    /\ UNCHANGED <<eventfd, hfd, handlerp, registered, count, inflight, iofd,
                   kernel, ring, unsig, loopVars, fulfilled>>

InitInstall(t) ==
    /\ pc[t] = "install"
    /\ handlerp' = t
    /\ registered' = registered \ {stale[t]}
    /\ pc' = [pc EXCEPT ![t] = "register"]
    /\ UNCHANGED <<eventfd, hfd, stale, count, inflight, iofd,
                   kernel, ring, unsig, loopVars, fulfilled>>

\* Mutant: registerHandler is not called.
InitRegister_Missing(t) ==
    /\ pc[t] = "register"
    /\ pc' = [pc EXCEPT ![t] = "inited"]
    /\ UNCHANGED <<eventfd, hfd, stale, handlerp, registered, count, inflight, iofd,
                   kernel, ring, unsig, loopVars, fulfilled>>

InitRegister(t) ==
    /\ pc[t] = "register"
    /\ registered' = registered \cup {handlerp}
    /\ pc' = [pc EXCEPT ![t] = "inited"]
    /\ UNCHANGED <<eventfd, hfd, stale, handlerp, count, inflight, iofd,
                   kernel, ring, unsig, loopVars, fulfilled>>

-----------------------------------------------------------------------------
(***************************************************************************)
(* AsyncIO::ioSubmit.  The push is under mutex_; eventfd_ is read and      *)
(* io_submit called after the unlock; io_submit's return value is ignored, *)
(* so an iocb the kernel refuses stays in inflight_ for ever.  Only then   *)
(* is the future taken and the continuation attached.                      *)
(***************************************************************************)
\* Mutant: a push on the non-empty vector is lost, as without the lock.
ioSubmitPush_Lost(t) ==
    /\ \/ pc[t] = "inited"
       \/ pc[t] = "idle" /\ Ready
    /\ inflight' = IF inflight = << >> THEN << t >> ELSE inflight
    /\ pc' = [pc EXCEPT ![t] = "pushed"]
    /\ UNCHANGED <<initVars, iofd, kernelVars, loopVars, fulfilled>>

ioSubmitPush(t) ==
    /\ \/ pc[t] = "inited"
       \/ pc[t] = "idle" /\ Ready
    /\ inflight' = Append(inflight, t)
    /\ pc' = [pc EXCEPT ![t] = "pushed"]
    /\ UNCHANGED <<initVars, iofd, kernelVars, loopVars, fulfilled>>

\* io_submit takes a valid iocb when the context has a free event slot.
Accepts(valid) == valid /\ Cardinality(kernel \cup ring) < Capacity

ioSubmitIssue(t, valid) ==
    /\ pc[t] = "pushed"
    /\ iofd' = [iofd EXCEPT ![t] = eventfd]
    /\ kernel' = IF Accepts(valid) THEN kernel \cup {t} ELSE kernel
    /\ pc' = [pc EXCEPT ![t] = "issued"]
    /\ UNCHANGED <<initVars, count, inflight, ring, unsig, loopVars, fulfilled>>

ioSubmitFuture(t) ==
    /\ pc[t] = "issued"
    /\ pc' = [pc EXCEPT ![t] = "end"]
    /\ UNCHANGED <<initVars, inflight, iofd, kernelVars, loopVars, fulfilled>>

-----------------------------------------------------------------------------
(***************************************************************************)
(* The kernel's side of libaio: the event becomes visible in the ring      *)
(* before the eventfd of the iocb is signalled.                            *)
(***************************************************************************)
KernelPost(t) ==
    /\ t \in kernel
    /\ kernel' = kernel \ {t}
    /\ ring' = ring \cup {t}
    /\ unsig' = unsig \cup {t}
    /\ UNCHANGED <<initVars, submitVars, count, inflight, loopVars, fulfilled>>

KernelSignal(t) ==
    /\ t \in unsig
    /\ unsig' = unsig \ {t}
    /\ count' = [count EXCEPT ![iofd[t]] = @ + 1]
    /\ UNCHANGED <<initVars, submitVars, inflight, kernel, ring, loopVars,
                   fulfilled>>

-----------------------------------------------------------------------------
(***************************************************************************)
(* EventFDHandler::handlerReady and AsyncIO::iosCompleted on the thread of *)
(* event base b.  The handler is polled level-triggered on its own fd_,    *)
(* but iosCompleted reads the member eventfd_.                             *)
(***************************************************************************)
handlerReady(b) ==
    /\ loop[b] = "poll"
    /\ \E h \in registered : Base[h] = b /\ hfd[h] \in Fds /\ count[hfd[h]] > 0
    /\ loop' = [loop EXCEPT ![b] = "read"]
    /\ UNCHANGED <<initVars, submitVars, kernelVars, inflight, nevents, batch,
                   fulfilled>>

\* Mutant: the counter is looked at but not drained.
EventfdRead_NoReset(b) ==
    /\ loop[b] = "read"
    /\ nevents' = [nevents EXCEPT ![b] = count[eventfd]]
    /\ loop' = [loop EXCEPT ![b] = IF count[eventfd] = 0 THEN "poll" ELSE "get"]
    /\ UNCHANGED <<initVars, submitVars, kernelVars, inflight, batch, fulfilled>>

\* eventfd_read: the whole counter, which becomes 0; or EAGAIN and the loop ends.
EventfdRead(b) ==
    /\ loop[b] = "read"
    /\ nevents' = [nevents EXCEPT ![b] = count[eventfd]]
    /\ count' = [count EXCEPT ![eventfd] = 0]
    /\ loop' = [loop EXCEPT ![b] = IF count[eventfd] = 0 THEN "poll" ELSE "get"]
    /\ UNCHANGED <<initVars, submitVars, inflight, kernel, ring, unsig, batch,
                   fulfilled>>

\* io_getevents(nevents, nevents) returns only when that many events are there.
GetEvents(b) ==
    /\ loop[b] = "get"
    /\ \E E \in SUBSET ring :
          /\ Cardinality(E) = nevents[b]
          /\ ring' = ring \ E
          /\ batch' = [batch EXCEPT ![b] = E]
    /\ nevents' = [nevents EXCEPT ![b] = 0]
    /\ loop' = [loop EXCEPT ![b] = "each"]
    /\ UNCHANGED <<initVars, submitVars, count, kernel, unsig, inflight, fulfilled>>

\* Mutant: pop_back() without the swap.
SwapRemove_NoSwap(s, i) == [j \in 1 .. Len(s) - 1 |-> s[j]]

\* std::swap(*it, back()) and pop_back(): the last element takes the place of i.
SwapRemove(s, i) ==
    [j \in 1 .. Len(s) - 1 |-> IF j = i THEN s[Len(s)] ELSE s[j]]

\* Mutant: the IO at back() is completed instead of the one found.
CompleteOne_Back(b, t) ==
    /\ loop[b] = "each"
    /\ t \in batch[b]
    /\ inflight # << >>
    /\ inflight' = SwapRemove(inflight, Len(inflight))
    /\ batch' = [batch EXCEPT ![b] = @ \ {t}]
    /\ fulfilled' = fulfilled \cup {inflight[Len(inflight)]}
    /\ UNCHANGED <<initVars, submitVars, kernelVars, loop, nevents>>

\* One event: find_if and removal under mutex_, then setResult, completePromise.
CompleteOne(b, t) ==
    /\ loop[b] = "each"
    /\ t \in batch[b]
    /\ \E i \in DOMAIN inflight :
          inflight[i] = t /\ inflight' = SwapRemove(inflight, i)
    /\ batch' = [batch EXCEPT ![b] = @ \ {t}]
    /\ fulfilled' = fulfilled \cup {t}
    /\ UNCHANGED <<initVars, submitVars, kernelVars, loop, nevents>>

\* All events handled: back to eventfd_read.
BatchDone(b) ==
    /\ loop[b] = "each"
    /\ batch[b] = {}
    /\ loop' = [loop EXCEPT ![b] = "read"]
    /\ UNCHANGED <<initVars, submitVars, kernelVars, inflight, nevents, batch,
                   fulfilled>>

-----------------------------------------------------------------------------
InitStep(t) ==
    InitEventfd(t) \/ InitMake(t) \/ InitAssign(t) \/ InitInstall(t)
                   \/ InitRegister(t)

SubmitStep(t) ==
    ioSubmitPush(t) \/ (\E valid \in BOOLEAN : ioSubmitIssue(t, valid))
                    \/ ioSubmitFuture(t)

KernelStep(t) == KernelPost(t) \/ KernelSignal(t)

LoopStep(b) ==
    handlerReady(b) \/ EventfdRead(b) \/ GetEvents(b) \/ BatchDone(b)
                    \/ (\E t \in Reqs : CompleteOne(b, t))

Next ==
    \/ \E t \in Reqs : InitStep(t) \/ SubmitStep(t) \/ KernelStep(t)
    \/ \E b \in Bases : LoopStep(b)

Spec == Init /\ [][Next]_vars

-----------------------------------------------------------------------------
\* Every variable holds a value of its C++ type; counters stay natural.
TypeOK ==
    /\ pc \in [Reqs -> Pc]
    /\ eventfd \in Fds \cup {NoFd}
    /\ hfd \in [Fds -> Fds \cup {NoFd}]
    /\ stale \in [Reqs -> Fds \cup {NoFd}]
    /\ handlerp \in Fds \cup {NoFd}
    /\ registered \subseteq Fds
    /\ count \in [Fds -> Nat]
    /\ inflight \in Seq(Reqs)
    /\ iofd \in [Reqs -> Fds \cup {NoFd}]
    /\ kernel \subseteq Reqs
    /\ ring \subseteq Reqs
    /\ unsig \subseteq Reqs
    /\ loop \in [Bases -> Loop]
    /\ nevents \in [Bases -> Nat]
    /\ batch \in [Bases -> SUBSET Reqs]
    /\ fulfilled \subseteq Reqs

-----------------------------------------------------------------------------
\* The caller's view of each request (see IOService).
ioPhase ==
    [t \in Reqs |->
        IF t \in fulfilled THEN "done"
        ELSE IF t \in ring \/ \E b \in Bases : t \in batch[b] THEN "executed"
        ELSE IF t \in Submitted THEN "submitted"
        ELSE "new"]

Service == INSTANCE IOService WITH phase <- ioPhase

(***************************************************************************)
(* iosCompleted's swap-and-pop and the pushes of concurrent ioSubmit calls *)
(* never lose or duplicate an entry: inflight_ holds exactly the requests  *)
(* that were pushed and not yet fulfilled, each one once.                  *)
(***************************************************************************)
InflightExact ==
    /\ IsInjective(inflight)
    /\ fulfilled \subseteq Issued
    /\ Range(inflight) = Submitted \ fulfilled

(***************************************************************************)
(* The kernel, the ring and the loops never share a request, and what any  *)
(* of them holds is in inflight_ with its promise open: neither the assert *)
(* after find_if nor those in setResult and completePromise can fail, and  *)
(* no freed IO is reachable through an event.                              *)
(***************************************************************************)
OneOwner ==
    /\ kernel \cap ring = {}
    /\ (kernel \cup ring) \subseteq Issued \cap Range(inflight)
    /\ \A b \in Bases :
          /\ batch[b] \subseteq Issued \cap Range(inflight)
          /\ batch[b] \cap (kernel \cup ring) = {}
          /\ batch[b] # {} => loop[b] = "each"
          /\ \A c \in Bases : b # c => batch[b] \cap batch[c] = {}

\* The sum of the counters f, as the number of units that they count.
Units(f) == UNION {{x} \X (1 .. f[x]) : x \in DOMAIN f}
Total(f) == Cardinality(Units(f))

(***************************************************************************)
(* Eventfd counters pay for ring events one to one, whichever eventfds     *)
(* init() made: every event in the ring is signalled, about to be, or      *)
(* already read off a counter by a loop.  Hence the blocking io_getevents  *)
(* of iosCompleted always finds the nevents events that it asks for.       *)
(***************************************************************************)
SignalAccounting ==
    Cardinality(ring) =
          Total(count) + Total(nevents) + Cardinality(unsig)

(***************************************************************************)
(* eventfd_ is a real descriptor before anyone can push, poll or read it   *)
(* (the assert at the head of iosCompleted), and so is handlerp_ before    *)
(* anyone registers it.                                                    *)
(***************************************************************************)
EventfdMade ==
    /\ \/ Warm \/ registered # {}
       \/ \E t \in Reqs : pc[t] # "idle"
       \/ \E b \in Bases : loop[b] # "poll"
       => eventfd \in Fds
    /\ (\E t \in Reqs : pc[t] = "register") => handlerp \in Fds

(***************************************************************************)
(* What the accounting rests on: only a loop between eventfd_read and      *)
(* io_getevents owes events, an event is signalled once, after it was      *)
(* posted, and on an eventfd that exists.                                  *)
(***************************************************************************)
SignalsFit ==
    /\ IsFiniteSet(Units(count)) /\ IsFiniteSet(Units(nevents))
    /\ \A b \in Bases : loop[b] # "get" => nevents[b] = 0
    /\ \A t \in Issued : iofd[t] \in Fds
    /\ unsig \subseteq Issued \ kernel

\* The inductive invariant of the engine.
EngineInv == TypeOK /\ EventfdMade /\ InflightExact /\ OneOwner

\* The inductive invariant of the signals, on top of the engine's.
SignalInv == SignalsFit /\ SignalAccounting

\* The engine implements the service it promises.
ServiceSpec == Service!Spec
=============================================================================
