----------------------------- MODULE LeafServer -----------------------------
(***************************************************************************)
(* The leaf server's request handlers, async_tm_write and async_tm_read of *)
(* fbthrift/exp3/LEAF/LeafServer.cpp, composed with the engine they use    *)
(* (AsyncIO).  A handler runs on a thread of thrift's thread manager; its  *)
(* continuation runs on whichever thread comes last, the handler attaching *)
(* it or the event base fulfilling the promise; the answer to a read goes  *)
(* through the handler's own thread pool and, like that to a write, is     *)
(* sent by the event base of the request's connection.                     *)
(***************************************************************************)
EXTENDS AsyncIO

CONSTANTS
    Files,      \* file names under path_
    Kind,       \* "read" or "write", per request
    File,       \* the file each request names
    Present,    \* the files laid down, with their data, before the run
    Outcomes,   \* whether the kernel's I/O may succeed, fail, or both
    OpenFails   \* whether open() may fail for want of anything but the file:
                \* descriptors, permission, room, support of O_DIRECT

ASSUME LeafAssumption ==
    /\ Kind \in [Reqs -> {"read", "write"}]
    /\ File \in [Reqs -> Files]
    /\ Present \subseteq Files
    /\ Outcomes \in SUBSET BOOLEAN \ {{}}
    /\ OpenFails \in BOOLEAN

VARIABLES
    inited,     \* asyncio_inited_
    step,       \* where each handler is
    fd,         \* the handler's local fd
    opened,     \* the process's open descriptors
    store,      \* what each file holds
    buf,        \* what the buffer of each read's IO holds
    reply,      \* how far the answer to each request got
    crashed     \* whether assert(fd >= 0) has ended the server

leafVars == <<inited, step, fd, opened, store, buf, reply>>
allVars  == <<vars, leafVars, crashed>>

Steps   == {"arrive", "init", "open", "submit", "submitted"}
Replies == {"none", "pooled", "posted", "sent"}

BadFd == -1

LeafInit ==
    /\ Init
    /\ inited = Warm
    /\ step = [r \in Reqs |-> "arrive"]
    /\ fd = [r \in Reqs |-> BadFd]
    /\ opened = {}
    /\ store = [f \in Files |-> IF f \in Present THEN "data" ELSE "absent"]
    /\ buf = [r \in Reqs |-> "raw"]
    /\ reply = [r \in Reqs |-> "none"]
    /\ crashed = FALSE

-----------------------------------------------------------------------------
(* if (asyncio_inited_ == false) { asyncio_.init(...); asyncio_inited_ = true; } *)

\* A request outside Racers arrives only once the flag is set.
CheckInited(r) ==
    /\ step[r] = "arrive"
    /\ r \in Racers \/ inited
    /\ step' = [step EXCEPT ![r] = IF inited THEN "open" ELSE "init"]
    /\ UNCHANGED <<vars, inited, fd, opened, store, buf, reply>>

RunInit(r) ==
    /\ step[r] = "init"
    /\ InitStep(r)
    /\ UNCHANGED leafVars

SetInited(r) ==
    /\ step[r] = "init"
    /\ pc[r] = "inited"
    /\ inited' = TRUE
    /\ step' = [step EXCEPT ![r] = "open"]
    /\ UNCHANGED <<vars, fd, opened, store, buf, reply>>

-----------------------------------------------------------------------------
\* open() gives the lowest free descriptor.
LowestFree ==
    CHOOSE n \in 0 .. Cardinality(opened) :
        n \notin opened /\ \A m \in 0 .. n - 1 : m \in opened

OpenAs(r, n, contents) ==
    /\ fd' = [fd EXCEPT ![r] = n]
    /\ opened' = IF n = BadFd THEN opened ELSE opened \cup {n}
    /\ store' = [store EXCEPT ![File[r]] = contents]
    /\ step' = [step EXCEPT ![r] = "submit"]
    /\ UNCHANGED <<vars, inited, buf, reply>>

\* Mutant: a file that is there is written over, not truncated.
OpenWrite_Keeps(r) ==
    /\ step[r] = "open"
    /\ Kind[r] = "write"
    /\ OpenAs(r, LowestFree,
              IF store[File[r]] = "absent" THEN "empty" ELSE store[File[r]])

\* O_WRONLY | O_TRUNC | O_DIRECT | O_CREAT ...
OpenWrite(r) ==
    /\ step[r] = "open"
    /\ Kind[r] = "write"
    /\ OpenAs(r, LowestFree, "empty")

\* ... and assert(fd >= 0), when open() fails.
AssertFd(r) ==
    /\ step[r] = "open"
    /\ Kind[r] = "write"
    /\ OpenFails
    /\ crashed' = TRUE
    /\ UNCHANGED <<vars, leafVars>>

\* O_RDONLY | O_TRUNC | O_DIRECT: a file that is opened is truncated; the -1 of
\* an absent one, or of another failure, is not looked at.
OpenRead(r) ==
    /\ step[r] = "open"
    /\ Kind[r] = "read"
    /\ \/ store[File[r]] # "absent" /\ OpenAs(r, LowestFree, "empty")
       \/ /\ store[File[r]] = "absent" \/ OpenFails
          /\ OpenAs(r, BadFd, store[File[r]])

-----------------------------------------------------------------------------
(***************************************************************************)
(* The continuation: close the descriptor, then, for a read, hand the IO   *)
(* to the thread pool, or, for a write, post done() to the event base.     *)
(* The result of the I/O is looked at by neither.                          *)
(***************************************************************************)
Continue(r) ==
    /\ opened' = opened \ {fd[r]}
    /\ reply' = [reply EXCEPT ![r] = IF Kind[r] = "read" THEN "pooled" ELSE "posted"]
    /\ UNCHANGED <<inited, step, fd, store, buf>>

Submit(r) ==
    /\ step[r] = "submit"
    /\ ioSubmitPush(r)
    /\ step' = [step EXCEPT ![r] = "submitted"]
    /\ UNCHANGED <<inited, fd, opened, store, buf, reply>>

\* Mutant: the handler closes its descriptor as soon as it has submitted.
Issue_CloseEarly(r) ==
    /\ ioSubmitIssue(r, fd[r] # BadFd)
    /\ opened' = opened \ {fd[r]}
    /\ UNCHANGED <<inited, step, fd, store, buf, reply>>

Issue(r) ==
    /\ ioSubmitIssue(r, fd[r] # BadFd)
    /\ UNCHANGED leafVars

\* Mutant: a continuation attached too late is never run.
Attach_TooLate(r) ==
    /\ ioSubmitFuture(r)
    /\ UNCHANGED leafVars

\* .then on the future: runs at once if the promise is already fulfilled.
Attach(r) ==
    /\ ioSubmitFuture(r)
    /\ IF r \in fulfilled THEN Continue(r) ELSE UNCHANGED leafVars

\* completePromise: runs the continuation if it is attached.
Harvest(b, r) ==
    /\ CompleteOne(b, r)
    /\ IF pc[r] = "end" THEN Continue(r) ELSE UNCHANGED leafVars

(***************************************************************************)
(* The kernel executes the I/O of r.  When it succeeds a write fills the   *)
(* file and a read of a file with data fills the buffer; a read of an      *)
(* empty file returns 0 bytes.  When it fails nothing is transferred.      *)
(***************************************************************************)
Execute(r, ok) ==
    /\ KernelPost(r)
    /\ store' = [store EXCEPT ![File[r]] =
                    IF ok /\ Kind[r] = "write" THEN "data" ELSE @]
    /\ buf' = [buf EXCEPT ![r] =
                    IF ok /\ Kind[r] = "read" /\ store[File[r]] = "data"
                    THEN "data" ELSE @]
    /\ UNCHANGED <<inited, step, fd, opened, reply>>

Signal(r) == KernelSignal(r) /\ UNCHANGED leafVars

\* A pool thread burns its cycles and posts result() to the event base.
PoolRun(r) ==
    /\ reply[r] = "pooled"
    /\ reply' = [reply EXCEPT ![r] = "posted"]
    /\ UNCHANGED <<vars, inited, step, fd, opened, store, buf>>

\* The event base of the connection, when not inside iosCompleted, answers.
Reply(r) ==
    /\ reply[r] = "posted"
    /\ loop[Base[r]] = "poll"
    /\ reply' = [reply EXCEPT ![r] = "sent"]
    /\ UNCHANGED <<vars, inited, step, fd, opened, store, buf>>

Poll(b) ==
    /\ handlerReady(b) \/ EventfdRead(b) \/ GetEvents(b) \/ BatchDone(b)
    /\ UNCHANGED leafVars

-----------------------------------------------------------------------------
HandlerStep(r) ==
    \/ CheckInited(r) \/ RunInit(r) \/ SetInited(r)
    \/ OpenWrite(r) \/ OpenRead(r)
    \/ Submit(r) \/ Issue(r) \/ Attach(r)

ExecuteStep(r) == \E ok \in Outcomes : Execute(r, ok)

BaseStep(b) == Poll(b) \/ \E r \in Reqs : Harvest(b, r)

Work ==
    \/ \E r \in Reqs : \/ HandlerStep(r) \/ ExecuteStep(r) \/ Signal(r)
                       \/ PoolRun(r) \/ Reply(r)
    \/ \E b \in Bases : BaseStep(b)

\* A step of a server that is up.
Live(A) == ~crashed /\ A /\ UNCHANGED crashed

LeafNext ==
    \/ Live(Work)
    \/ ~crashed /\ \E r \in Reqs : AssertFd(r)

LeafSpec == LeafInit /\ [][LeafNext]_allVars

(***************************************************************************)
(* Handler and pool threads run, the kernel finishes what it accepted, an  *)
(* event base dispatches ready handlers, and it runs the functions posted  *)
(* to it in every iteration of its loop (hence strong fairness).           *)
(***************************************************************************)
FairLeafSpec ==
    /\ LeafSpec
    /\ \A r \in Reqs : /\ WF_allVars(Live(HandlerStep(r)))
                       /\ WF_allVars(Live(ExecuteStep(r)))
                       /\ WF_allVars(Live(Signal(r)))
                       /\ WF_allVars(Live(PoolRun(r)))
                       /\ SF_allVars(Live(Reply(r)))
    /\ \A b \in Bases : WF_allVars(Live(BaseStep(b)))

-----------------------------------------------------------------------------
\* Every variable of the handlers holds a value of its type.
LeafTypeOK ==
    /\ inited \in BOOLEAN
    /\ step \in [Reqs -> Steps]
    /\ fd \in [Reqs -> Nat \cup {BadFd}]
    /\ opened \in SUBSET Nat /\ IsFiniteSet(opened)
    /\ store \in [Files -> {"absent", "empty", "data"}]
    /\ buf \in [Reqs -> {"raw", "data"}]
    /\ reply \in [Reqs -> Replies]
    /\ crashed \in BOOLEAN

\* Requests whose handler has opened a file and whose continuation has not run.
Holders ==
    {r \in Reqs : /\ step[r] \in {"submit", "submitted"}
                  /\ fd[r] # BadFd
                  /\ reply[r] = "none"}

(***************************************************************************)
(* Descriptor numbers are reused, so a close at the wrong moment would hit *)
(* another request's file.  Each open descriptor belongs to exactly one    *)
(* request that has yet to be continued, and the kernel never works on a   *)
(* descriptor that is closed.                                              *)
(***************************************************************************)
DescriptorsExact ==
    /\ opened = {fd[r] : r \in Holders}
    /\ \A r, s \in Holders : fd[r] = fd[s] => r = s
    /\ kernel \subseteq Holders

(***************************************************************************)
(* The handler attaching its continuation races the event base fulfilling  *)
(* the promise.  In either order the continuation runs, and only once both *)
(* have happened: an answer is under way exactly then.                     *)
(***************************************************************************)
ContinuedExactly ==
    \A r \in Reqs : reply[r] # "none" <=> r \in fulfilled /\ pc[r] = "end"

(***************************************************************************)
(* What the flag asyncio_inited_ is meant to say: the handler in handlerp_ *)
(* is polled, on the very eventfd that iosCompleted reads and that every   *)
(* iocb carries.                                                           *)
(***************************************************************************)
HandlerWatchesEventfd ==
    inited => /\ handlerp \in registered
              /\ hfd[handlerp] = eventfd
              /\ \A r \in Reqs : pc[r] \in {"issued", "end"} => iofd[r] = eventfd

(***************************************************************************)
(* However many first requests race through the unlocked check of          *)
(* asyncio_inited_, no handler calls ioSubmit before some init() has run   *)
(* to its end: no iocb is given an eventfd_ that was never made.           *)
(***************************************************************************)
SubmitAfterInit ==
    /\ \A r \in Reqs : step[r] \in {"open", "submit"} =>
          pc[r] \in {"idle", "inited"} /\ Ready
    /\ \A r \in Issued : iofd[r] \in Fds

(***************************************************************************)
(* How the handler's place and the engine's place of a request fit.        *)
(***************************************************************************)
StepsFit ==
    /\ inited => Ready
    /\ \A r \in Reqs :
          /\ step[r] = "arrive" => pc[r] = "idle"
          /\ step[r] = "init" => pc[r] \notin {"pushed", "issued", "end"}
          /\ step[r] = "submitted" => pc[r] \in {"pushed", "issued", "end"}

\* The inductive invariant of the handlers, on top of the engine's.
LeafInv ==
    LeafTypeOK /\ StepsFit /\ SubmitAfterInit /\ ContinuedExactly /\ DescriptorsExact

(***************************************************************************)
(* How far a single init() has come, while no other one runs.              *)
(***************************************************************************)
SoloInit ==
    \A r \in Reqs :
        /\ step[r] = "init" => r \in Racers /\ ~inited
        /\ step[r] \in {"open", "submit", "submitted"} => inited
        /\ step[r] = "init" =>
              /\ pc[r] # "idle" => eventfd = r
              /\ pc[r] \notin {"idle", "make"} => hfd[r] = r
              /\ pc[r] \in {"register", "inited"} => handlerp = r
              /\ pc[r] = "inited" => r \in registered

\* The inductive invariant of a server whose first request comes alone.
SoloInv == SoloInit /\ HandlerWatchesEventfd

(***************************************************************************)
(* A request whose iocb io_submit took is answered, also while the context *)
(* is full and others are refused, and whether its I/O succeeds or fails;  *)
(* only the assert on another request's descriptor can prevent that.       *)
(***************************************************************************)
AcceptedAnswered ==
    \A r \in Reqs : r \in kernel ~> reply[r] = "sent" \/ crashed

\* read and write are two-way calls: every request gets its answer.
EveryRequestAnswered == \A r \in Reqs : <>(reply[r] = "sent")

\* The I/O of r has been carried out.
Executed(r) == ioPhase[r] \in {"executed", "done"}

\* A write of file f has been carried out.
Written(f) ==
    \E w \in Reqs : Kind[w] = "write" /\ File[w] = f /\ Executed(w)

(***************************************************************************)
(* A file that a write has opened holds no data but what writes carried    *)
(* out since have put there: whatever it held before is gone, though the   *)
(* write's own I/O may fail.  And what a read answers with is data of its  *)
(* file, laid down before or written; a failed open, a failed read or      *)
(* another request's reused descriptor never fills a buffer.               *)
(***************************************************************************)
DataTraced ==
    \A r \in Reqs :
        /\ /\ Kind[r] = "write" /\ step[r] \in {"submit", "submitted"}
           /\ store[File[r]] = "data"
           => Written(File[r])
        /\ store[File[r]] = "data" \/ buf[r] = "data" =>
              File[r] \in Present \/ Written(File[r])
=============================================================================
