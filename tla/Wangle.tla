------------------------------- MODULE Wangle -------------------------------
(***************************************************************************)
(* The wangle client and server: main's loop and the MsgClientDispatcher   *)
(* of client.cpp with its ExpiringFilter, the MessageCodec of message.h,   *)
(* and the echoing service of server.cpp behind its pool of threads.       *)
(* requests_ is touched by three threads without a lock: main inserts, the *)
(* I/O thread finds and erases, the timekeeper's thread erases.            *)
(***************************************************************************)
EXTENDS Integers, FiniteSets

CONSTANTS
    Sizes,          \* how many data sizes main goes through, each larger
                    \* than the one before
    MaxSeq          \* bound of the model on the requests sent

ASSUME WangleAssumption ==
    /\ Sizes \in Nat \ {0}
    /\ MaxSeq \in Nat

VARIABLES
    main,           \* "test", "wait", "done" or "aborted"
    size,           \* which data size
    seq,            \* the last reqId used
    requests,       \* the keys of requests_
    erasing,        \* whether the timekeeper is still inside the erase that
                    \* has broken a promise
    lost,           \* requests whose entry such an erase has cost
    fut,            \* the future main waits for: "none", "pending", "value",
                    \* "failed"
    readAt,         \* where the I/O thread is: "idle", or in read() after
                    \* the find ("found") or the erase ("moved")
    readId,         \* the reqId read() is called with
    sent,           \* messages on the way to the server or in its pool
    answers,        \* ids on the way back
    armed,          \* requests whose timer has not fired
    timedOut,       \* requests that had no answer when it did
    count,
    server,         \* "up" or "down"
    cause           \* what ended the client: "none", "check", "erased",
                    \* "race", "division"

vars == <<main, size, seq, requests, erasing, lost, fut, readAt, readId, sent,
          answers, armed, timedOut, count, server, cause>>
table == <<requests, erasing, lost>>
remote == <<sent, answers, server>>
reader == <<readAt, readId>>

Ids == 1 .. MaxSeq

Init ==
    /\ main = "test"
    /\ size = 1
    /\ seq = 0
    /\ requests = {}
    /\ erasing = FALSE
    /\ lost = {}
    /\ fut = "none"
    /\ readAt = "idle"
    /\ readId = 0
    /\ sent = {}
    /\ answers = {}
    /\ armed = {}
    /\ timedOut = {}
    /\ count = 0
    /\ server = "up"
    /\ cause = "none"

Abort(why) == main' = "aborted" /\ cause' = why

-----------------------------------------------------------------------------
(* MessageCodec.  A message has the length it says follows it, and the     *)
(* memory that really does.                                                *)

NewMessage(id, extra) == [reqId |-> id, extraLen |-> extra, memory |-> extra]

\* read copies the header, with its length, into memory for a header.
CodecRead(msg) == [msg EXCEPT !.memory = 0]

\* write copies header and extraLen bytes, past the memory if that is less.
CodecWriteOverruns(msg) == msg.extraLen > msg.memory

-----------------------------------------------------------------------------
(* main and operator() of the dispatcher, on main's thread.                *)

\* Mutant: the service is called without the ExpiringFilter.
Request_NoTimer ==
    /\ main = "test"
    /\ seq < MaxSeq
    /\ seq' = seq + 1
    /\ requests' = requests \cup {seq'}
    /\ sent' = IF server = "up"
               THEN sent \cup {NewMessage(seq', size)} ELSE sent
    /\ fut' = "pending"
    /\ main' = "wait"
    /\ UNCHANGED <<size, erasing, lost, reader, answers, armed, timedOut, count,
                   server, cause>>

\* A new message: insert its promise, arm its timer, write it, wait.  Inserted
\* while the timekeeper changes the table, the entry may not be there.
Request ==
    /\ main = "test"
    /\ seq < MaxSeq
    /\ seq' = seq + 1
    /\ \/ requests' = requests \cup {seq'} /\ UNCHANGED lost
       \/ erasing /\ lost' = lost \cup {seq'} /\ UNCHANGED requests
    /\ armed' = armed \cup {seq'}
    /\ sent' = IF server = "up"
               THEN sent \cup {NewMessage(seq', size)} ELSE sent
    /\ fut' = "pending"
    /\ main' = "wait"
    /\ UNCHANGED <<size, erasing, reader, answers, timedOut, count, server,
                   cause>>

\* fut.wait() returns.
Waited ==
    /\ main = "wait"
    /\ fut # "pending"
    /\ fut' = "none"
    /\ main' = "test"
    /\ UNCHANGED <<size, seq, table, reader, remote, armed, timedOut, count,
                   cause>>

\* Five seconds are over: the line with latency/count, the next size.
NextSize ==
    /\ main = "test"
    /\ IF count = 0
       THEN Abort("division") /\ UNCHANGED size
       ELSE /\ size' = size + 1
            /\ main' = IF size = Sizes THEN "done" ELSE main
            /\ UNCHANGED cause
    /\ UNCHANGED <<seq, table, fut, reader, remote, armed, timedOut, count>>

-----------------------------------------------------------------------------
(* The I/O thread.                                                         *)

running == main \notin {"done", "aborted"}

\* read: find, CHECK.
ReadFind ==
    /\ running /\ readAt = "idle"
    /\ \E id \in answers :
           /\ answers' = answers \ {id}
           /\ IF id \in requests
              THEN /\ readAt' = "found" /\ readId' = id
                   /\ UNCHANGED <<main, cause>>
              ELSE Abort("check") /\ UNCHANGED reader
    /\ UNCHANGED <<size, seq, table, fut, sent, armed, timedOut, count, server>>

\* read: move the promise, erase.  If the timer has erased it, search is
\* dangling and the promise gone.
ReadMove ==
    /\ running /\ readAt = "found"
    /\ IF readId \in requests
       THEN /\ readAt' = "moved"
            /\ requests' = requests \ {readId}
            /\ UNCHANGED <<main, cause>>
       ELSE Abort("erased") /\ UNCHANGED <<readAt, requests>>
    /\ UNCHANGED <<readId, size, seq, erasing, lost, fut, remote, armed, timedOut,
                   count>>

\* Mutant: the answer counts even if the timer has been first.
SetValue_Always ==
    /\ running /\ readAt = "moved"
    /\ fut' = IF readId = seq THEN "value" ELSE fut
    /\ count' = count + 1
    /\ readAt' = "idle"
    /\ UNCHANGED <<readId, main, size, seq, table, remote, armed, timedOut,
                   cause>>

\* read: setValue, which runs main's continuation unless the timer has
\* settled the future first.
SetValue ==
    /\ running /\ readAt = "moved"
    /\ IF readId = seq /\ fut = "pending"
       THEN fut' = "value" /\ count' = count + 1
       ELSE UNCHANGED <<fut, count>>
    /\ readAt' = "idle"
    /\ UNCHANGED <<readId, main, size, seq, table, remote, armed, timedOut,
                   cause>>

-----------------------------------------------------------------------------
(* The timekeeper's thread.                                                *)

\* Mutant: there is no interrupt handler.
Timer_KeepsEntry ==
    /\ running /\ ~erasing
    /\ \E id \in armed :
           /\ armed' = armed \ {id}
           /\ IF id = seq /\ fut = "pending"
              THEN /\ fut' = "failed"
                   /\ timedOut' = timedOut \cup {id}
              ELSE UNCHANGED <<fut, timedOut>>
    /\ UNCHANGED <<main, size, seq, table, reader, remote, count, cause>>

(***************************************************************************)
(* A timer fires, 50 s after its request.  A future without a result is    *)
(* interrupted: the handler erases its entry, and the promise that goes    *)
(* with it wakes main before erase has ended.  If the entry is not there,  *)
(* for read has moved it out or it was lost, the future fails after it.    *)
(***************************************************************************)
Timer ==
    /\ running /\ ~erasing
    /\ \E id \in armed :
           /\ armed' = armed \ {id}
           /\ IF id = seq /\ fut = "pending"
              THEN /\ requests' = requests \ {id}
                   /\ erasing' = (id \in requests)
                   /\ fut' = "failed"
                   /\ timedOut' = timedOut \cup {id}
              ELSE UNCHANGED <<requests, erasing, fut, timedOut>>
    /\ UNCHANGED <<main, size, seq, lost, reader, remote, count, cause>>

EraseEnd ==
    /\ running /\ erasing
    /\ erasing' = FALSE
    /\ UNCHANGED <<main, size, seq, requests, lost, fut, reader, remote, armed,
                   timedOut, count, cause>>

\* main's insert or read's erase meets a table that the timekeeper is still
\* changing, and ends the client.
TableRace ==
    /\ erasing
    /\ (main = "test" /\ seq < MaxSeq) \/ (running /\ readAt = "found")
    /\ Abort("race")
    /\ UNCHANGED <<size, seq, table, fut, reader, remote, armed, timedOut, count>>

-----------------------------------------------------------------------------
(* The server.  Multiplexed, on ten threads: any message may be next.      *)

\* Mutant: a message is answered and kept.
Serve_Keeps ==
    /\ server = "up"
    /\ \E msg \in sent : answers' = answers \cup {msg.reqId}
    /\ UNCHANGED <<main, size, seq, table, fut, reader, sent, armed, timedOut,
                   count, server, cause>>

\* MsgService returns what the codec has read; the codec writes it.  What
\* it copies past the message may not be mapped.
Serve ==
    /\ server = "up"
    /\ \E msg \in sent :
           \/ /\ sent' = sent \ {msg}
              /\ answers' = answers \cup {msg.reqId}
              /\ UNCHANGED server
           \/ /\ CodecWriteOverruns(CodecRead(msg))
              /\ server' = "down"
              /\ sent' = {}
              /\ UNCHANGED answers
    /\ UNCHANGED <<main, size, seq, table, fut, reader, armed, timedOut, count,
                   cause>>

-----------------------------------------------------------------------------
Main == Request \/ Waited \/ NextSize
Read == ReadFind \/ ReadMove \/ SetValue
Timekeeper == Timer \/ EraseEnd
Next == Main \/ Read \/ Timekeeper \/ TableRace \/ Serve

Spec == Init /\ [][Next]_vars

(***************************************************************************)
(* main and the I/O thread run, time passes.  The server need not answer.  *)
(***************************************************************************)
FairSpec == Spec /\ WF_vars(Main) /\ WF_vars(Read) /\ WF_vars(Timekeeper)

-----------------------------------------------------------------------------
\* Every variable has its type.
TypeOK ==
    /\ main \in {"test", "wait", "done", "aborted"}
    /\ size \in 1 .. Sizes + 1
    /\ seq \in 0 .. MaxSeq
    /\ requests \in SUBSET Ids
    /\ erasing \in BOOLEAN
    /\ lost \in SUBSET Ids
    /\ fut \in {"none", "pending", "value", "failed"}
    /\ readAt \in {"idle", "found", "moved"}
    /\ readId \in 0 .. MaxSeq
    /\ \A msg \in sent : msg.reqId \in Ids
    /\ answers \in SUBSET Ids
    /\ armed \in SUBSET Ids
    /\ timedOut \in SUBSET Ids
    /\ count \in 0 .. MaxSeq
    /\ server \in {"up", "down"}
    /\ cause \in {"none", "check", "erased", "race", "division"}

(***************************************************************************)
(* requests_ holds the promise of the request main waits for, if nobody    *)
(* has it or has settled it, and never anything else: neither an answer    *)
(* nor a timeout, nor the two at once, leaves an entry behind.  One that   *)
(* an unfinished erase has cost is missing, and only after a timeout.      *)
(***************************************************************************)
RequestsExact ==
    running =>
        /\ requests = IF /\ fut = "pending" /\ seq \notin lost
                         /\ ~(readAt = "moved" /\ readId = seq)
                      THEN {seq} ELSE {}
        /\ \A id \in lost : \E n \in timedOut : n < id

(***************************************************************************)
(* Every request is counted once or has timed out, whichever was first;    *)
(* an answer that came too late is never counted.                          *)
(***************************************************************************)
CountExact ==
    count + Cardinality(timedOut) =
        IF fut = "pending" THEN seq - 1 ELSE seq

(***************************************************************************)
(* The CHECK in read, a promise erased while read holds an iterator to it, *)
(* and a table changed by two threads at once end the client only after a  *)
(* request has timed out; latency/count divides by zero only if all have.  *)
(***************************************************************************)
AbortsOnlyAfterTimeout ==
    /\ cause \in {"check", "erased", "race"} => timedOut # {}
    /\ cause = "division" => timedOut = 1 .. seq

\* fut.wait() returns, whatever becomes of the answer or of the server.
EveryWaitEnds == main = "wait" ~> main # "wait"

-----------------------------------------------------------------------------
(* What the proofs add: the parts of an inductive invariant.               *)

\* A request that may still be on its way has timed out, or main waits for
\* it.
Open(id) == id \in timedOut \/ (id = seq /\ fut = "pending")

OpenInFlight ==
    /\ \A msg \in sent : Open(msg.reqId)
    /\ \A id \in answers : Open(id)
    /\ readAt # "idle" => Open(readId)

\* No request is twice on its way.
OneCopy ==
    /\ \A m1, m2 \in sent : m1.reqId = m2.reqId => m1 = m2
    /\ \A msg \in sent : msg.reqId \notin answers
    /\ readAt # "idle" =>
          readId \notin answers /\ \A msg \in sent : msg.reqId # readId

\* Where main is, what it waits for and what has timed out fit.
MainFits ==
    /\ main \in {"test", "done"} => fut = "none"
    /\ main # "aborted" => cause = "none"
    /\ main \in {"test", "wait"} => size <= Sizes
    /\ fut = "pending" => seq \in Ids /\ seq \notin timedOut
    /\ timedOut \subseteq 1 .. seq
    /\ lost \subseteq 1 .. seq
    /\ erasing => timedOut # {}

WangleInv ==
    /\ TypeOK /\ RequestsExact /\ CountExact /\ AbortsOnlyAfterTimeout
    /\ OpenInFlight /\ OneCopy /\ MainFits
=============================================================================
