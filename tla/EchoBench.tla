----------------------------- MODULE EchoBench -----------------------------
(***************************************************************************)
(* The raw-socket echo benchmark of AsyncIO/: the Benchmark of             *)
(* net-client.cpp on its event base, the thread net-server.cpp starts for  *)
(* its connection, and the ReadCallback of request.h that both use.        *)
(*                                                                         *)
(* A request is ReqSize units <<id, part>>; its id is in the first.  Every *)
(* place where bytes wait is a sequence of units: what a socket has not    *)
(* written yet, what the kernel holds, what a ReadCallback has of a        *)
(* request that is not complete.  The connection may be lost at any time,  *)
(* in a way that its ends notice: the server is killed, or a reset.        *)
(***************************************************************************)
EXTENDS Integers, Sequences

CONSTANTS
    QDepths,        \* the queue depths main goes through
    MaxRequests,    \* max_requests
    ReqSize,        \* sizeof(struct request), in units
    Room            \* units the kernel holds in one direction

ASSUME EchoAssumption ==
    /\ QDepths \subseteq Nat \ {0}
    /\ MaxRequests \in Nat \ {0}
    /\ ReqSize \in Nat \ {0}
    /\ Room \in Nat \ {0}

VARIABLES
    qdepth,         \* qdepth_ of this Benchmark
    client,         \* "connecting", "running"; "stopping", then "closed":
                    \* its loop was left by stop_benchmark; "cut", then
                    \* "closedEarly": by readEOF or readErr; "aborted"
    server,         \* the connection's thread: "none", "running", "ended"
    link,           \* whether the connection still is
    toSend,         \* passes left of the loop of requests_send
    request_id,     \* also req_sent; the keys of req_time are 1 .. request_id
    outstanding,    \* req_outstanding
    answered,       \* the ids whose latency was added; req_completed of them
    clientOut,      \* units the client's socket has not written
    up,             \* units in the kernel towards the server
    serverBuf,      \* units in the server's raw_bufp_, bytes_read_ of them
    serverOut,      \* units the server's socket has not written
    down,           \* units in the kernel towards the client
    clientBuf,      \* units in the client's raw_bufp_
    delayed         \* whether a write outlived its WriteCallback

vars == <<qdepth, client, server, link, toSend, request_id, outstanding, answered,
          clientOut, up, serverBuf, serverOut, down, clientBuf, delayed>>

\* Neither side's steps change link.
clientVars == <<client, link, toSend, request_id, outstanding, answered, clientOut,
                clientBuf, delayed>>
serverVars == <<server, link, serverBuf, serverOut>>

Request(id) == [p \in 1 .. ReqSize |-> <<id, p>>]
completed == Len(answered)
Smaller(a, b) == IF a < b THEN a ELSE b

Init ==
    /\ qdepth \in QDepths
    /\ client = "connecting"
    /\ server = "none"
    /\ link = TRUE
    /\ toSend = 0
    /\ request_id = 0
    /\ outstanding = 0
    /\ answered = <<>>
    /\ clientOut = <<>>
    /\ up = <<>>
    /\ serverBuf = <<>>
    /\ serverOut = <<>>
    /\ down = <<>>
    /\ clientBuf = <<>>
    /\ delayed = FALSE

-----------------------------------------------------------------------------
(* AsyncSocket: a write is tried at once if none is waiting, and as much   *)
(* as the kernel has room for is written; the rest waits for the loop.     *)

Written(out, pipe, units) ==
    IF out = <<>> THEN Smaller(Room - Len(pipe), Len(units)) ELSE 0

Waiting(out, pipe, units) ==
    SubSeq(out \o units, Written(out, pipe, units) + 1, Len(out \o units))

InKernel(out, pipe, units) ==
    pipe \o SubSeq(units, 1, Written(out, pipe, units))

\* What the loop writes of the first request that waits.
Flushed(out, pipe) == Smaller(Room - Len(pipe), ReqSize - out[1][2] + 1)

-----------------------------------------------------------------------------
(* The client.                                                             *)

\* connectSuccess: start_benchmark, requests_send(qdepth_).
Connect ==
    /\ client = "connecting"
    /\ client' = "running"
    /\ toSend' = qdepth
    /\ UNCHANGED <<qdepth, request_id, outstanding, answered, clientOut, up,
                   down, clientBuf, delayed, serverVars>>

\* connectErr: assert(0).
ConnectErr ==
    /\ client = "connecting"
    /\ server = "none" \/ ~link
    /\ client' = "aborted"
    /\ UNCHANGED <<qdepth, toSend, request_id, outstanding, answered,
                   clientOut, up, down, clientBuf, delayed, serverVars>>

\* Mutant: the request is counted only when its write is complete.
requests_send_CountsWritten ==
    /\ client = "running" /\ toSend > 0
    /\ request_id' = request_id + 1
    /\ clientOut' = Waiting(clientOut, up, Request(request_id'))
    /\ up' = InKernel(clientOut, up, Request(request_id'))
    /\ delayed' = (delayed \/ clientOut' # <<>>)
    /\ outstanding' = IF clientOut' = <<>> THEN outstanding + 1 ELSE outstanding
    /\ toSend' = toSend - 1
    /\ UNCHANGED <<qdepth, client, answered, down, clientBuf, serverVars>>

\* Mutant: the id is taken before it is incremented.
requests_send_OldId ==
    /\ client = "running" /\ toSend > 0
    /\ request_id' = request_id + 1
    /\ clientOut' = Waiting(clientOut, up, Request(request_id))
    /\ up' = InKernel(clientOut, up, Request(request_id))
    /\ delayed' = (delayed \/ clientOut' # <<>>)
    /\ outstanding' = outstanding + 1
    /\ toSend' = toSend - 1
    /\ UNCHANGED <<qdepth, client, answered, down, clientBuf, serverVars>>

(***************************************************************************)
(* One pass of requests_send.  If the write is complete at once,           *)
(* writeSuccess deletes the request; otherwise the socket keeps a pointer  *)
(* to the WriteCallback, which ceases to exist at the end of the pass.     *)
(***************************************************************************)
requests_send ==
    /\ client = "running" /\ toSend > 0
    /\ request_id' = request_id + 1
    /\ clientOut' = Waiting(clientOut, up, Request(request_id'))
    /\ up' = InKernel(clientOut, up, Request(request_id'))
    /\ delayed' = (delayed \/ clientOut' # <<>>)
    /\ outstanding' = outstanding + 1
    /\ toSend' = toSend - 1
    /\ UNCHANGED <<qdepth, client, answered, down, clientBuf, serverVars>>

(***************************************************************************)
(* writeSuccess on a WriteCallback that no longer exists: undefined.  It   *)
(* deletes nothing, or a request that is still waiting to be written,      *)
(* whose id, if not written yet, then is whatever its memory holds, or the *)
(* program crashes.                                                        *)
(***************************************************************************)
Dangling(rest) ==
    \/ clientOut' = rest /\ UNCHANGED client
    \/ \E victim \in {rest[k][1] : k \in 1 .. Len(rest)},
          garbage \in 0 .. request_id :
           /\ clientOut' = [k \in 1 .. Len(rest) |->
                               IF rest[k] = <<victim, 1>>
                               THEN <<garbage, 1>> ELSE rest[k]]
           /\ UNCHANGED client
    \/ clientOut' = rest /\ client' = "aborted"

\* The event base writes more of what waits.
ClientFlush ==
    /\ client = "running" /\ toSend = 0
    /\ clientOut # <<>> /\ Len(up) < Room
    /\ LET n    == Flushed(clientOut, up)
           rest == SubSeq(clientOut, n + 1, Len(clientOut))
       IN  /\ up' = up \o SubSeq(clientOut, 1, n)
           /\ IF clientOut[n][2] = ReqSize THEN Dangling(rest)
              ELSE clientOut' = rest /\ UNCHANGED client
    /\ UNCHANGED <<qdepth, toSend, request_id, outstanding, answered, down,
                   clientBuf, delayed, serverVars>>

\* Mutant: an answer beyond max_requests sends one more.
request_received_NoLimit(id) ==
    IF id \notin 1 .. request_id
    THEN client' = "aborted" /\ UNCHANGED <<toSend, outstanding, answered>>
    ELSE /\ answered' = Append(answered, id)
         /\ outstanding' = outstanding - 1
         /\ toSend' = IF completed < MaxRequests THEN 1 ELSE 0
         /\ client' = IF completed' >= MaxRequests /\ outstanding' = 0
                      THEN "stopping" ELSE client

\* Mutant: stops only if nothing is outstanding at the last request.
request_received_NeverStops(id) ==
    IF id \notin 1 .. request_id
    THEN client' = "aborted" /\ UNCHANGED <<toSend, outstanding, answered>>
    ELSE /\ answered' = Append(answered, id)
         /\ outstanding' = outstanding - 1
         /\ toSend' = IF completed' < MaxRequests THEN 1 ELSE 0
         /\ client' = IF completed' = MaxRequests /\ outstanding' = 0
                      THEN "stopping" ELSE client

\* request_received: the assert, the latency, the counters, the next request.
request_received(id) ==
    IF id \notin 1 .. request_id
    THEN client' = "aborted" /\ UNCHANGED <<toSend, outstanding, answered>>
    ELSE /\ answered' = Append(answered, id)
         /\ outstanding' = outstanding - 1
         /\ toSend' = IF completed' < MaxRequests THEN 1 ELSE 0
         /\ client' = IF completed' >= MaxRequests /\ outstanding' = 0
                      THEN "stopping" ELSE client

\* writeErr: assert(0), when the kernel refuses what requests_send or the
\* loop writes to a lost connection; a callback that no longer exists may
\* also leave the client to its readErr.
writeErr ==
    /\ client = "running" /\ ~link
    /\ toSend > 0 \/ clientOut # <<>>
    /\ client' = "aborted"
    /\ UNCHANGED <<qdepth, toSend, request_id, outstanding, answered,
                   clientOut, up, down, clientBuf, delayed, serverVars>>

\* The client's own readEOF or readErr: terminateLoopSoon, whatever is
\* outstanding, and whether or not all that had arrived was read.
ClientReadEOF ==
    /\ client = "running" /\ toSend = 0 /\ ~link
    /\ client' = "cut"
    /\ UNCHANGED <<qdepth, toSend, request_id, outstanding, answered,
                   clientOut, up, down, clientBuf, delayed, serverVars>>

\* run() after the loop, however it was left: the socket is closed and the
\* result printed.  A write that still waits fails then, by a callback that
\* no longer exists.
Close ==
    /\ \/ client = "stopping" /\ client' = "closed"
       \/ client = "cut" /\ client' = "closedEarly"
       \/ client = "cut" /\ clientOut # <<>> /\ client' = "aborted"
    /\ UNCHANGED <<qdepth, toSend, request_id, outstanding, answered,
                   clientOut, up, down, clientBuf, delayed, serverVars>>

-----------------------------------------------------------------------------
(* ReadCallback, on either side.                                           *)

\* The space getReadBuffer offers: the rest of the request begun, or all of
\* a new one.
getReadBuffer(buf) == ReqSize - Len(buf)

\* Mutant: a request is handed on after any read.
Complete_AnyRead(buf) == TRUE

\* Whether readDataAvailable finds the request complete and hands it on.
Complete(buf) == Len(buf) >= ReqSize

\* A read returns what there is, up to the space offered, or less.
Reads(pipe, buf) == 1 .. Smaller(Len(pipe), getReadBuffer(buf))

ClientRead ==
    /\ client = "running" /\ toSend = 0
    /\ \E n \in Reads(down, clientBuf) :
           LET buf == clientBuf \o SubSeq(down, 1, n)
           IN  /\ down' = SubSeq(down, n + 1, Len(down))
               /\ IF Complete(buf)
                  THEN clientBuf' = <<>> /\ request_received(buf[1][1])
                  ELSE /\ clientBuf' = buf
                       /\ UNCHANGED <<client, toSend, outstanding, answered>>
    /\ UNCHANGED <<qdepth, request_id, clientOut, up, delayed, serverVars>>

-----------------------------------------------------------------------------
(* The thread of the connection in the server.                             *)

\* connectionAccepted starts it.
connectionAccepted ==
    /\ server = "none" /\ link
    /\ client # "aborted" \/ request_id > 0
    /\ server' = "running"
    /\ UNCHANGED <<qdepth, clientVars, up, down, serverBuf, serverOut>>

\* readDataAvailable writes a complete request back; the callback is on the
\* heap and owns the buffer.  What it would write to a lost connection fails,
\* which writeErr ignores and readErr follows.
ServerRead ==
    /\ server = "running" /\ link
    /\ \E n \in Reads(up, serverBuf) :
           LET buf == serverBuf \o SubSeq(up, 1, n)
           IN  /\ up' = SubSeq(up, n + 1, Len(up))
               /\ IF Complete(buf)
                  THEN /\ serverBuf' = <<>>
                       /\ serverOut' = Waiting(serverOut, down, buf)
                       /\ down' = InKernel(serverOut, down, buf)
                  ELSE serverBuf' = buf /\ UNCHANGED <<serverOut, down>>
    /\ UNCHANGED <<qdepth, clientVars, server>>

ServerFlush ==
    /\ server = "running" /\ link
    /\ serverOut # <<>> /\ Len(down) < Room
    /\ LET n == Flushed(serverOut, down)
       IN  /\ down' = down \o SubSeq(serverOut, 1, n)
           /\ serverOut' = SubSeq(serverOut, n + 1, Len(serverOut))
    /\ UNCHANGED <<qdepth, clientVars, up, server, serverBuf>>

\* readEOF or readErr in the server: the loop and the thread end.
readEOF ==
    /\ server = "running"
    /\ client \in {"closed", "closedEarly", "aborted"} \/ ~link
    /\ server' = "ended"
    /\ UNCHANGED <<qdepth, clientVars, up, down, serverBuf, serverOut>>

\* The connection is lost.
Lose ==
    /\ link /\ link' = FALSE
    /\ UNCHANGED <<qdepth, client, server, toSend, request_id, outstanding,
                   answered, clientOut, up, serverBuf, serverOut, down,
                   clientBuf, delayed>>

-----------------------------------------------------------------------------
ClientStep ==
    \/ Connect \/ ConnectErr \/ requests_send \/ writeErr
    \/ ClientFlush \/ ClientRead \/ ClientReadEOF \/ Close
ServerStep == connectionAccepted \/ ServerRead \/ ServerFlush \/ readEOF

Next == ClientStep \/ ServerStep \/ Lose

Spec == Init /\ [][Next]_vars

\* Both event loops run; the kernel reports what can be read or written, and
\* that a connection is lost.  Nothing loses one, or has to.
FairSpec ==
    /\ Spec
    /\ WF_vars(ClientStep)
    /\ WF_vars(connectionAccepted \/ ServerRead \/ readEOF)
    /\ WF_vars(ServerFlush)

-----------------------------------------------------------------------------
\* All units between their being sent and their answer, oldest first.
Stream == clientBuf \o down \o serverOut \o serverBuf \o up \o clientOut

(***************************************************************************)
(* However reads and writes are cut, both sides stay in step with the      *)
(* boundaries of requests: the units under way are whole requests, one     *)
(* after another, even when undefined behaviour has spoilt their ids; and  *)
(* no ReadCallback sits on a whole request.                                *)
(***************************************************************************)
Framed ==
    /\ Len(clientBuf) < ReqSize /\ Len(serverBuf) < ReqSize
    /\ \A k \in 1 .. Len(Stream) : Stream[k][2] = ((k - 1) % ReqSize) + 1

(***************************************************************************)
(* As long as every write was complete at once, answers come in the order  *)
(* of the requests, each of which is somewhere under way exactly once; the *)
(* latency of each is computed from its own start, and neither             *)
(* assert(it != req_time.end()) nor writeErr's assert(0) ends a client     *)
(* that connected, unless its connection is lost.                          *)
(***************************************************************************)
EchoedInOrder ==
    ~delayed =>
        /\ answered = [k \in 1 .. completed |-> k]
        /\ \A k \in 1 .. Len(Stream) :
              Stream[k][1] = completed + 1 + ((k - 1) \div ReqSize)
        /\ client = "aborted" => request_id = 0 \/ ~link

(***************************************************************************)
(* req_outstanding counts the requests under way, at most qdepth_ with     *)
(* those still to be sent by the loop, so it never wraps, even when the    *)
(* connection is lost; stop_benchmark leaves the loop only when none is    *)
(* outstanding, and only a lost connection leaves it otherwise.            *)
(***************************************************************************)
OutstandingExact ==
    client # "aborted" =>
        /\ outstanding * ReqSize = Len(Stream)
        /\ outstanding = request_id - completed
        /\ outstanding + toSend <= qdepth
        /\ client \in {"stopping", "closed"} => outstanding = 0
        /\ client \in {"cut", "closedEarly"} => ~link

(***************************************************************************)
(* A Benchmark never sends more than qdepth_ - 1 requests beyond the       *)
(* max_requests by which run() divides the time and the latency; one that  *)
(* is ended by stop_benchmark has sent exactly those and had them all      *)
(* answered, while one whose connection was lost divides by max_requests   *)
(* whatever it sent.                                                       *)
(***************************************************************************)
SentExactly ==
    /\ request_id + toSend <= qdepth + MaxRequests - 1
    /\ client \in {"stopping", "closed"} =>
          request_id = qdepth + MaxRequests - 1 /\ completed = request_id

\* The benchmark ends, and so does the thread of its connection, whether or
\* not the connection is lost.
BothEnd ==
    <>(/\ client \in {"closed", "closedEarly", "aborted"}
       /\ server = "ended" \/ (server = "none" /\ (request_id = 0 \/ ~link)))

-----------------------------------------------------------------------------
(* What the proofs add: the parts of an inductive invariant.               *)

Unit == Nat \X (1 .. ReqSize)
Units == Seq(Unit)

\* Every variable has its type.
TypeOK ==
    /\ qdepth \in QDepths
    /\ client \in {"connecting", "running", "stopping", "closed", "cut",
                   "closedEarly", "aborted"}
    /\ server \in {"none", "running", "ended"} /\ link \in BOOLEAN
    /\ toSend \in Nat /\ request_id \in Nat /\ outstanding \in Nat
    /\ answered \in Seq(Nat)
    /\ clientOut \in Units /\ up \in Units /\ serverBuf \in Units
    /\ serverOut \in Units /\ down \in Units /\ clientBuf \in Units
    /\ delayed \in BOOLEAN

\* As many units as some number of requests has.
Whole(n) == \E m \in Nat : n = m * ReqSize

\* The kernel holds no more than it has room for, and whole requests are
\* under way, in all and between the server's ReadCallback and the client.
BuffersFit ==
    /\ Len(up) <= Room /\ Len(down) <= Room
    /\ Whole(Len(Stream))
    /\ Whole(Len(clientBuf) + Len(down) + Len(serverOut))
    /\ clientOut # <<>> => delayed

\* The counters, by how far the client is.
CountersFit ==
    /\ client = "connecting" =>
          /\ toSend = 0 /\ request_id = 0 /\ outstanding = 0 /\ answered = <<>>
          /\ Len(Stream) = 0
    /\ client = "running" =>
          request_id + toSend = qdepth + Smaller(completed, MaxRequests - 1)
    /\ client \in {"stopping", "closed"} => toSend = 0

EchoInv ==
    /\ TypeOK /\ BuffersFit /\ CountersFit
    /\ Framed /\ EchoedInOrder /\ OutstandingExact /\ SentExactly
=============================================================================
