------------------------------ MODULE DBServer ------------------------------
(***************************************************************************)
(* The DB server of fbthrift/exp2/DB and fbthrift/exp3/DB: it passes a     *)
(* read (exp2: a key_put) on to one leaf server, chosen in turn, and a     *)
(* write to all of them.  A handler runs on a thread of thrift's thread    *)
(* manager and posts a function to the event base of its request's         *)
(* connection; the function opens the channel to a leaf when there is none *)
(* and makes the call.  The Leaf objects are shared by all event bases and *)
(* no lock protects them.                                                  *)
(*                                                                         *)
(* A channel is named by the request that opened it and its leaf; it       *)
(* belongs to the event base of that request.                              *)
(***************************************************************************)
EXTENDS Naturals, Sequences

CONSTANTS
    NLeafs,     \* leafs_.size()
    Reqs,
    Bases,      \* the server's event bases
    Base,       \* the event base of each request's connection
    Kind,       \* "read" or "write", per request
    None        \* a null client_, no function, no channel

Leafs    == 0 .. NLeafs - 1
Channels == Reqs \X Leafs

ASSUME DBAssumption ==
    /\ NLeafs \in Nat \ {0}
    /\ Base \in [Reqs -> Bases]
    /\ Kind \in [Reqs -> {"read", "write"}]
    /\ None \notin Channels

VARIABLES
    cur,        \* curLeaf
    place,      \* where each request is
    tmp,        \* getLeaf's new index, before it is stored
    leaf,       \* leafp, or the leaf the loop of a write is at
    queue,      \* functions posted to each event base
    client,     \* client_, per leaf
    connected,  \* connected, per leaf
    held,       \* clientp, per request
    open,       \* channels that are alive
    pending,    \* calls waiting for an answer, per channel
    status,     \* each request's call to each leaf
    closing,    \* the channel whose channelClosed each event base runs
    stored,     \* the calls a leaf has carried out
    answer,     \* what became of the client's request
    aborted     \* whether the server has ended: "no", by a failed "assert",
                \* or by a "race" on a channel

serverVars == <<cur, tmp, leaf, queue, client, connected, held, open, pending,
                status, closing, stored, answer, aborted>>
vars == <<place, serverVars>>

Running == {"check", "assert", "make", "set", "get", "call"}
Places  == {"arrive", "store", "post", "posted", "waiting"} \cup Running

Init ==
    /\ cur = 0
    /\ place = [r \in Reqs |-> IF Kind[r] = "read" THEN "arrive" ELSE "post"]
    /\ tmp = [r \in Reqs |-> 0]
    /\ leaf = [r \in Reqs |-> 0]
    /\ queue = [b \in Bases |-> <<>>]
    /\ client = [l \in Leafs |-> None]
    /\ connected = [l \in Leafs |-> FALSE]
    /\ held = [r \in Reqs |-> None]
    /\ open = {}
    /\ pending = [c \in Channels |-> {}]
    /\ status = [r \in Reqs |-> [l \in Leafs |-> "none"]]
    /\ closing = [b \in Bases |-> None]
    /\ stored = {}
    /\ answer = [r \in Reqs |-> "none"]
    /\ aborted = "no"

Goto(r, p) == place' = [place EXCEPT ![r] = p]

-----------------------------------------------------------------------------
(* On a handler thread.                                                    *)

\* getLeaf, before the assignment.
getLeafLoad(r) ==
    /\ place[r] = "arrive"
    /\ tmp' = [tmp EXCEPT ![r] = (cur + 1) % NLeafs]
    /\ Goto(r, "store")
    /\ UNCHANGED <<cur, leaf, queue, client, connected, held, open, pending,
                   status, closing, stored, answer, aborted>>

getLeafStore(r) ==
    /\ place[r] = "store"
    /\ cur' = tmp[r]
    /\ Goto(r, "post")
    /\ UNCHANGED <<tmp, leaf, queue, client, connected, held, open, pending,
                   status, closing, stored, answer, aborted>>

\* getLeaf indexes with the member it has assigned, which another thread may
\* have changed, or with the copy in a register; then the function is posted.
Post(r) ==
    /\ place[r] = "post"
    /\ \E l \in (IF Kind[r] = "read" THEN {tmp[r], cur} ELSE {0}) :
          leaf' = [leaf EXCEPT ![r] = l]
    /\ queue' = [queue EXCEPT ![Base[r]] = Append(@, r)]
    /\ Goto(r, "posted")
    /\ UNCHANGED <<cur, tmp, client, connected, held, open, pending, status,
                   closing, stored, answer, aborted>>

-----------------------------------------------------------------------------
(* The answer to the client.                                               *)

\* The leafs a request calls.
Targets(r) == IF Kind[r] = "write" THEN Leafs ELSE {leaf[r]}

\* collectAll: every call has succeeded or failed.
Settled(r, st) == \A l \in Targets(r) : st[r][l] \in {"ok", "failed"}

\* The continuation of a write runs whatever its calls came to, that of a read
\* takes a value; dropped with it, the callback never answers.
Outcome(r, st) ==
    IF Kind[r] = "write" \/ st[r][leaf[r]] = "ok" THEN "answered" ELSE "dropped"

\* Mutant: the first call that settles is enough.
Answers_First(pl, st) ==
    [r \in Reqs |->
        IF /\ answer[r] = "none" /\ pl[r] = "waiting"
           /\ \E l \in Targets(r) : st[r][l] \in {"ok", "failed"}
        THEN Outcome(r, st) ELSE answer[r]]

(***************************************************************************)
(* A continuation runs on the thread that settles the last call, or that   *)
(* attaches it to settled calls: with places pl and calls st, these        *)
(* requests have their answer.                                             *)
(***************************************************************************)
Answers(pl, st) ==
    [r \in Reqs |->
        IF answer[r] = "none" /\ pl[r] = "waiting" /\ Settled(r, st)
        THEN Outcome(r, st) ELSE answer[r]]

-----------------------------------------------------------------------------
(* A channel dies.                                                         *)

\* The calls that fail when the channels in S die.
Failed(S) ==
    [r \in Reqs |-> [l \in Leafs |->
        IF \E c \in S : c[2] = l /\ r \in pending[c]
        THEN "failed" ELSE status[r][l]]]

Die(S) ==
    /\ pending' = [c \in Channels |-> IF c \in S THEN {} ELSE pending[c]]
    /\ status' = Failed(S)
    /\ answer' = Answers(place', status')

-----------------------------------------------------------------------------
(* On the event base of the request's connection.                          *)

Busy(b) ==
    \/ closing[b] # None
    \/ \E r \in Reqs : Base[r] = b /\ place[r] \in Running

\* Mutant: the handler thread runs the function itself.
Start_Direct(r) ==
    /\ place[r] = "posted"
    /\ queue' = [queue EXCEPT ![Base[r]] = SelectSeq(@, LAMBDA q : q # r)]
    /\ Goto(r, "check")
    /\ UNCHANGED <<cur, tmp, leaf, client, connected, held, open, pending,
                   status, closing, stored, answer, aborted>>

Start(r) ==
    /\ place[r] = "posted"
    /\ queue[Base[r]] # <<>> /\ r = Head(queue[Base[r]])
    /\ ~Busy(Base[r])
    /\ queue' = [queue EXCEPT ![Base[r]] = Tail(@)]
    /\ Goto(r, "check")
    /\ UNCHANGED <<cur, tmp, leaf, client, connected, held, open, pending,
                   status, closing, stored, answer, aborted>>

isConnected(r) ==
    /\ place[r] = "check"
    /\ Goto(r, IF connected[leaf[r]] THEN "get" ELSE "assert")
    /\ UNCHANGED serverVars

\* assert(!client_ && !connected ...)
ConnectAssert(r) ==
    /\ place[r] = "assert"
    /\ aborted' = IF client[leaf[r]] # None \/ connected[leaf[r]]
                  THEN "assert" ELSE "no"
    /\ Goto(r, "make")
    /\ UNCHANGED <<cur, tmp, leaf, queue, client, connected, held, open,
                   pending, status, closing, stored, answer>>

(***************************************************************************)
(* The new channel replaces client_.  Another one is there only if another *)
(* event base put it there after the assert.  It leaks if this assignment  *)
(* has read client_ before that; else it is destroyed and its calls fail,  *)
(* and, if it reports its end, channelClosed clears client_ and connected. *)
(***************************************************************************)
ConnectMake(r) ==
    LET l == leaf[r]
        c == <<r, l>>
        old == {client[l]} \cap Channels
    IN  /\ place[r] = "make"
        /\ Goto(r, "set")
        /\ \/ /\ client' = [client EXCEPT ![l] = c]
              /\ open' = open \cup {c}
              /\ UNCHANGED <<connected, pending, status, answer>>
           \/ /\ old # {}
              /\ client' = [client EXCEPT ![l] = c]
              /\ open' = (open \ old) \cup {c}
              /\ Die(old)
              /\ UNCHANGED connected
           \/ /\ old # {}
              /\ client' = [client EXCEPT ![l] = None]
              /\ connected' = [connected EXCEPT ![l] = FALSE]
              /\ open' = open \ old
              /\ Die(old)
        /\ UNCHANGED <<cur, tmp, leaf, queue, held, closing, stored, aborted>>

ConnectSet(r) ==
    /\ place[r] = "set"
    /\ connected' = [connected EXCEPT ![leaf[r]] = TRUE]
    /\ Goto(r, "get")
    /\ UNCHANGED <<cur, tmp, leaf, queue, client, held, open, pending, status,
                   closing, stored, answer, aborted>>

\* getConnection() and assert(clientp)
getConnection(r) ==
    /\ place[r] = "get"
    /\ held' = [held EXCEPT ![r] = client[leaf[r]]]
    /\ aborted' = IF client[leaf[r]] = None THEN "assert" ELSE "no"
    /\ Goto(r, "call")
    /\ UNCHANGED <<cur, tmp, leaf, queue, client, connected, open, pending,
                   status, closing, stored, answer>>

\* clientp leads to a channel that is gone, or to one of another event base.
Unsafe(r) == held[r] \notin open \/ Base[held[r][1]] # Base[r]

\* The call on the channel c.  Channels are not made for other threads than
\* their own: a call from one may be lost, with nobody to settle it, or end
\* the server, as may a call on a channel that is gone.
MakeCall(r, l, c) ==
    /\ \E s \in IF c \notin open THEN {"failed"}
              ELSE IF Unsafe(r) THEN {"out", "lost"} ELSE {"out"} :
          /\ status' = [status EXCEPT ![r][l] = s]
          /\ pending' = IF s = "out"
                        THEN [pending EXCEPT ![c] = @ \cup {r}] ELSE pending
    /\ aborted' \in {"no"} \cup (IF Unsafe(r) THEN {"race"} ELSE {})

\* Mutant: the loop of a write stops before the last leaf.
Call_SkipsLast(r) ==
    LET l == leaf[r]
        more == Kind[r] = "write" /\ l + 2 < NLeafs
    IN  /\ place[r] = "call"
        /\ Goto(r, IF more THEN "check" ELSE "waiting")
        /\ leaf' = [leaf EXCEPT ![r] = IF more THEN l + 1 ELSE l]
        /\ MakeCall(r, l, held[r])
        /\ answer' = Answers(place', status')
        /\ UNCHANGED <<cur, tmp, queue, client, connected, held, open, closing,
                       stored>>

(***************************************************************************)
(* The call to one leaf: it waits on its channel, or fails on one that has *)
(* died meanwhile.  A write goes on with the next leaf; after the last one *)
(* the continuation is attached.                                           *)
(***************************************************************************)
Call(r) ==
    LET l == leaf[r]
        more == Kind[r] = "write" /\ l + 1 < NLeafs
    IN  /\ place[r] = "call"
        /\ Goto(r, IF more THEN "check" ELSE "waiting")
        /\ leaf' = [leaf EXCEPT ![r] = IF more THEN l + 1 ELSE l]
        /\ MakeCall(r, l, held[r])
        /\ answer' = Answers(place', status')
        /\ UNCHANGED <<cur, tmp, queue, client, connected, held, open, closing,
                       stored>>

Function(r) ==
    \/ Start(r) \/ isConnected(r) \/ ConnectAssert(r) \/ ConnectMake(r)
    \/ ConnectSet(r) \/ getConnection(r) \/ Call(r)

-----------------------------------------------------------------------------
(* The leafs, and the channels to them.                                    *)

\* A leaf carries out a call; the answer may still be lost.
Execute(r, c) ==
    /\ r \in pending[c]
    /\ stored' = stored \cup {<<r, c[2]>>}
    /\ UNCHANGED <<place, cur, tmp, leaf, queue, client, connected, held, open,
                   pending, status, closing, answer, aborted>>

\* The channel's event base receives an answer or an exception.
Receive(r, c, result) ==
    /\ r \in pending[c]
    /\ ~Busy(Base[c[1]])
    /\ result = "ok" => <<r, c[2]>> \in stored
    /\ pending' = [pending EXCEPT ![c] = @ \ {r}]
    /\ status' = [status EXCEPT ![r][c[2]] = result]
    /\ answer' = Answers(place, status')
    /\ UNCHANGED <<place, cur, tmp, leaf, queue, client, connected, held, open,
                   closing, stored, aborted>>

\* Mutant: setDisconnected only clears the flag.
channelClosed_KeepsClient(c) ==
    /\ c \in open
    /\ ~Busy(Base[c[1]])
    /\ open' = open \ {c}
    /\ closing' = [closing EXCEPT ![Base[c[1]]] = c]
    /\ UNCHANGED place
    /\ Die({c})
    /\ UNCHANGED <<cur, tmp, leaf, queue, client, connected, held, stored, aborted>>

(***************************************************************************)
(* The channel's event base finds it closed: its calls fail, and           *)
(* channelClosed clears client_, whichever channel that holds by now.      *)
(***************************************************************************)
channelClosed(c) ==
    LET dead == {c, client[c[2]]} \cap Channels
    IN  /\ c \in open
        /\ ~Busy(Base[c[1]])
        /\ open' = open \ dead
        /\ closing' = [closing EXCEPT ![Base[c[1]]] = c]
        /\ client' = [client EXCEPT ![c[2]] = None]
        /\ UNCHANGED place
        /\ Die(dead)
        /\ UNCHANGED <<cur, tmp, leaf, queue, connected, held, stored, aborted>>

\* ... and then connected.
setDisconnected(b) ==
    /\ closing[b] # None
    /\ connected' = [connected EXCEPT ![closing[b][2]] = FALSE]
    /\ closing' = [closing EXCEPT ![b] = None]
    /\ UNCHANGED <<place, cur, tmp, leaf, queue, client, held, open, pending,
                   status, stored, answer, aborted>>

-----------------------------------------------------------------------------
Handler(r) == getLeafLoad(r) \/ getLeafStore(r) \/ Post(r)

Settle(r) ==
    \E c \in Channels :
        Execute(r, c) \/ \E result \in {"ok", "failed"} : Receive(r, c, result)

\* Nothing runs on once the server has ended.
Next ==
    /\ aborted = "no"
    /\ \/ \E r \in Reqs : Handler(r) \/ Function(r) \/ Settle(r)
       \/ \E c \in Channels : channelClosed(c)
       \/ \E b \in Bases : setDisconnected(b)

Spec == Init /\ [][Next]_vars

(***************************************************************************)
(* Handler threads and event bases run, and a call under way is answered,  *)
(* in time, with a result or an exception unless its channel closes.       *)
(***************************************************************************)
FairSpec ==
    /\ Spec
    /\ \A r \in Reqs : WF_vars(aborted = "no" /\ (Handler(r) \/ Function(r)))
    /\ \A r \in Reqs, c \in Channels :
          WF_vars(aborted = "no" /\ \E s \in {"ok", "failed"} : Receive(r, c, s))
    /\ \A b \in Bases : WF_vars(aborted = "no" /\ setDisconnected(b))

-----------------------------------------------------------------------------
\* Every variable has its type; in particular curLeaf indexes leafs_.
TypeOK ==
    /\ cur \in Leafs
    /\ place \in [Reqs -> Places]
    /\ tmp \in [Reqs -> Leafs]
    /\ leaf \in [Reqs -> Leafs]
    /\ queue \in [Bases -> Seq(Reqs)]
    /\ client \in [Leafs -> Channels \cup {None}]
    /\ connected \in [Leafs -> BOOLEAN]
    /\ held \in [Reqs -> Channels \cup {None}]
    /\ open \in SUBSET Channels
    /\ pending \in [Channels -> SUBSET Reqs]
    /\ status \in [Reqs -> [Leafs -> {"none", "out", "lost", "ok", "failed"}]]
    /\ closing \in [Bases -> Channels \cup {None}]
    /\ stored \in SUBSET Channels
    /\ answer \in [Reqs -> {"none", "answered", "dropped"}]
    /\ aborted \in {"no", "assert", "race"}

(***************************************************************************)
(* A call that is out waits on a channel that is alive, on no other, and   *)
(* only such calls do: whatever the event bases do to a leaf's client_, no *)
(* call is left without somebody who will settle it.                       *)
(***************************************************************************)
CallsOnOpenChannels ==
    /\ \A r \in Reqs, l \in Leafs :
          status[r][l] = "out" => \E q \in Reqs : r \in pending[<<q, l>>]
    /\ \A c \in Channels : \A r \in pending[c] :
          /\ c \in open
          /\ status[r][c[2]] = "out"
    /\ \A c, d \in Channels :
          c # d /\ c[2] = d[2] => pending[c] \cap pending[d] = {}

(***************************************************************************)
(* A request has its answer, or is dropped, exactly when all its calls are *)
(* settled: a write is not acknowledged while a leaf is still to be called *)
(* or to answer, and no last answer goes unnoticed.  A read is answered    *)
(* only with what its leaf has sent.                                       *)
(***************************************************************************)
AnsweredExactly ==
    \A r \in Reqs :
        /\ answer[r] # "none" <=> place[r] = "waiting" /\ Settled(r, status)
        /\ answer[r] = "answered" /\ Kind[r] = "read" =>
               <<r, leaf[r]>> \in stored
        /\ answer[r] = "dropped" =>
               Kind[r] = "read" /\ status[r][leaf[r]] = "failed"

\* A call that is settled well was carried out by its leaf.
OkStored ==
    \A r \in Reqs, l \in Leafs : status[r][l] = "ok" => <<r, l>> \in stored

\* The loop of a write has called the leafs before the one it is at.
LoopFits ==
    \A r \in Reqs, l \in Leafs :
        /\ status[r][l] # "none" =>
              /\ place[r] \in Running \cup {"waiting"}
              /\ l <= leaf[r]
              /\ l < leaf[r] \/ place[r] = "waiting"
        /\ place[r] = "waiting" /\ l \in Targets(r) => status[r][l] # "none"
        /\ place[r] \in Running /\ Kind[r] = "write" /\ l < leaf[r] =>
              status[r][l] # "none"
        /\ place[r] \notin Running \cup {"waiting"} /\ Kind[r] = "write" =>
              leaf[r] = 0

\* A leaf's channel leads to that leaf, and so does a pointer in use.
ChannelsFit ==
    /\ \A l \in Leafs : client[l] # None => client[l][2] = l
    /\ \A r \in Reqs : place[r] = "call" /\ held[r] # None =>
          held[r][2] = leaf[r]

\* The inductive invariant of the server, for any number of event bases.
ServerInv ==
    /\ TypeOK
    /\ CallsOnOpenChannels
    /\ AnsweredExactly
    /\ OkStored
    /\ LoopFits
    /\ ChannelsFit

-----------------------------------------------------------------------------
(* What holds when every connection has the same event base.               *)

OneBase == \A r, q \in Reqs : Base[r] = Base[q]

\* Neither the assert of connect() nor assert(clientp) ever fails.
AssertsHold == aborted # "assert"

(***************************************************************************)
(* Between two functions or callbacks of the event base, a leaf's flag     *)
(* says whether it has a channel, and that channel is alive; inside one,   *)
(* the pointer a call is about to use is still the leaf's live channel.    *)
(***************************************************************************)
LeafConsistent ==
    \A l \in Leafs :
        /\ (\A b \in Bases : ~Busy(b)) =>
              (connected[l] <=> client[l] # None)
        /\ client[l] # None => client[l] \in open
        /\ \A r \in Reqs : place[r] = "call" /\ leaf[r] = l =>
              held[r] = client[l] /\ held[r] \in open

\* One function or callback at a time.
OneAtATime ==
    /\ \A r, q \in Reqs :
          place[r] \in Running /\ place[q] \in Running => r = q
    /\ \A b \in Bases : closing[b] # None =>
          /\ b = Base[closing[b][1]]
          /\ \A r \in Reqs : place[r] \notin Running

\* The flag and the pointer of a leaf at every point of connect() and of
\* channelClosed.
FlagFits ==
    /\ \A l \in Leafs :
          /\ connected[l] => \/ client[l] # None
                             \/ \E b \in Bases :
                                   closing[b] # None /\ closing[b][2] = l
          /\ client[l] # None =>
                /\ client[l] \in open
                /\ connected[l] \/ \E r \in Reqs : place[r] = "set" /\ leaf[r] = l
    /\ \A b \in Bases : closing[b] # None => client[closing[b][2]] = None
    /\ \A r \in Reqs :
          /\ place[r] \in {"assert", "make"} =>
                client[leaf[r]] = None /\ ~connected[leaf[r]]
          /\ place[r] = "set" => client[leaf[r]] # None
          /\ place[r] = "get" => client[leaf[r]] # None
          /\ place[r] = "call" =>
                held[r] = client[leaf[r]] /\ client[leaf[r]] # None

\* The inductive invariant when there is one event base.
OneBaseInv == aborted = "no" /\ OneAtATime /\ FlagFits

(***************************************************************************)
(* Every request is answered, or dropped after its leaf's call has failed; *)
(* none waits for ever on a channel that has closed.                       *)
(***************************************************************************)
EveryRequestSettled == \A r \in Reqs : <>(answer[r] # "none")
=============================================================================
