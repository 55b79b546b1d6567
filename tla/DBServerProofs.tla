--------------------------- MODULE DBServerProofs ---------------------------
(***************************************************************************)
(* Theorems about DBServer, for any number of leafs, requests and event    *)
(* bases.                                                                  *)
(***************************************************************************)
EXTENDS DBServer, TLAPS

\* The constants' facts in the form the steps use.
LEMMA Facts ==
    /\ 0 \in Leafs
    /\ NLeafs \in Nat \ {0}
    /\ \A l \in Leafs : (l + 1) % NLeafs \in Leafs
    /\ \A l \in Leafs : l \in Nat /\ l <= NLeafs - 1
    /\ \A l \in Leafs : l + 1 < NLeafs => l + 1 \in Leafs
    /\ \A r \in Reqs : Base[r] \in Bases /\ Kind[r] \in {"read", "write"}
    /\ \A c \in Channels : c[1] \in Reqs /\ c[2] \in Leafs /\ c = <<c[1], c[2]>>
    /\ None \notin Channels
  BY DBAssumption, SMT DEF Leafs, Channels

\* Appending to a sequence and taking its head off.
LEMMA SeqFacts ==
    ASSUME NEW S, NEW q \in Seq(S), NEW e \in S
    PROVE  Append(q, e) \in Seq(S) /\ (q # <<>> => Tail(q) \in Seq(S))
  OBVIOUS

-----------------------------------------------------------------------------
\* Answers has the type of answer.
LEMMA AnswersType ==
    ASSUME answer \in [Reqs -> {"none", "answered", "dropped"}], NEW pl, NEW st
    PROVE  Answers(pl, st) \in [Reqs -> {"none", "answered", "dropped"}]
  BY DEF Answers, Outcome

\* Channels that die leave well-typed calls.
LEMMA DieType ==
    ASSUME TypeOK, NEW S \in SUBSET Channels, Die(S)
    PROVE  /\ pending' \in [Channels -> SUBSET Reqs]
           /\ status' \in [Reqs -> [Leafs -> {"none", "out", "lost", "ok", "failed"}]]
           /\ answer' \in [Reqs -> {"none", "answered", "dropped"}]
<1>1. pending' \in [Channels -> SUBSET Reqs]
  BY DEF TypeOK, Die
<1>2. status' \in [Reqs -> [Leafs -> {"none", "out", "lost", "ok", "failed"}]]
  BY DEF TypeOK, Die, Failed
<1>3. answer' \in [Reqs -> {"none", "answered", "dropped"}]
  BY AnswersType DEF TypeOK, Die
<1> QED BY <1>1, <1>2, <1>3

\* The types hold at the start.
LEMMA TypeInit == Init => TypeOK
<1> SUFFICES ASSUME Init PROVE TypeOK
  OBVIOUS
<1> USE Facts DEF Init
<1>1. cur \in Leafs /\ tmp \in [Reqs -> Leafs] /\ leaf \in [Reqs -> Leafs]
  OBVIOUS
<1>2. place \in [Reqs -> Places]
  BY DEF Places
<1>3. queue \in [Bases -> Seq(Reqs)]
  OBVIOUS
<1>4. /\ client \in [Leafs -> Channels \cup {None}]
      /\ held \in [Reqs -> Channels \cup {None}]
      /\ closing \in [Bases -> Channels \cup {None}]
      /\ pending \in [Channels -> SUBSET Reqs]
  OBVIOUS
<1>5. connected \in [Leafs -> BOOLEAN] /\ aborted = "no"
  OBVIOUS
<1>6. /\ open \in SUBSET Channels /\ stored \in SUBSET Channels
      /\ status \in [Reqs -> [Leafs -> {"none", "out", "lost", "ok", "failed"}]]
      /\ answer \in [Reqs -> {"none", "answered", "dropped"}]
  OBVIOUS
<1> QED BY <1>1, <1>2, <1>3, <1>4, <1>5, <1>6 DEF TypeOK

\* Every step of the server and of its leaf connections keeps the types.
LEMMA TypeStep == TypeOK /\ [Next]_vars => TypeOK'
<1> SUFFICES ASSUME TypeOK, [Next]_vars PROVE TypeOK'
  OBVIOUS
<1> USE Facts DEF TypeOK, Places, Running
<1>1. ASSUME NEW r \in Reqs, getLeafLoad(r) PROVE TypeOK'
  <2>2. (cur + 1) % NLeafs \in Leafs
    BY Zenon
  <2> QED BY <1>1, <2>2 DEF getLeafLoad, Goto
<1>2. ASSUME NEW r \in Reqs, getLeafStore(r) PROVE TypeOK'
  BY <1>2 DEF getLeafStore, Goto
<1>3. ASSUME NEW r \in Reqs, Post(r) PROVE TypeOK'
  <2>1. PICK l \in {tmp[r], cur, 0} : leaf' = [leaf EXCEPT ![r] = l]
    BY <1>3 DEF Post
  <2>2. queue' \in [Bases -> Seq(Reqs)]
    <3>1. Append(queue[Base[r]], r) \in Seq(Reqs)
      BY SeqFacts
    <3>2. queue' = [queue EXCEPT ![Base[r]] = Append(queue[Base[r]], r)]
      BY <1>3 DEF Post
    <3> QED BY <3>1, <3>2, Zenon
  <2> QED BY <1>3, <2>1, <2>2 DEF Post, Goto
<1>4. ASSUME NEW r \in Reqs, Start(r) PROVE TypeOK'
  <2>1. queue' \in [Bases -> Seq(Reqs)]
    <3>1. queue[Base[r]] \in Seq(Reqs) /\ queue[Base[r]] # <<>>
      BY <1>4 DEF Start
    <3>2. Tail(queue[Base[r]]) \in Seq(Reqs)
      BY <3>1, SeqFacts, Zenon
    <3>3. queue' = [queue EXCEPT ![Base[r]] = Tail(queue[Base[r]])]
      BY <1>4 DEF Start
    <3> QED BY <3>2, <3>3, Zenon
  <2> QED BY <1>4, <2>1 DEF Start, Goto
<1>5. ASSUME NEW r \in Reqs, isConnected(r) PROVE TypeOK'
  BY <1>5 DEF isConnected, Goto, serverVars
<1>6. ASSUME NEW r \in Reqs, ConnectAssert(r) PROVE TypeOK'
  BY <1>6 DEF ConnectAssert, Goto
<1>7. ASSUME NEW r \in Reqs, ConnectMake(r) PROVE TypeOK'
  <2> DEFINE l == leaf[r]
  <2> DEFINE old == {client[l]} \cap Channels
  <2>1. l \in Leafs /\ <<r, l>> \in Channels
    BY DEF Channels
  <2>2. /\ pending' \in [Channels -> SUBSET Reqs]
        /\ status' \in [Reqs -> [Leafs -> {"none", "out", "lost", "ok", "failed"}]]
        /\ answer' \in [Reqs -> {"none", "answered", "dropped"}]
    <3>1. Die(old) \/ UNCHANGED <<pending, status, answer>>
      BY <1>7 DEF ConnectMake
    <3>2. CASE Die(old)
      BY <3>2, DieType
    <3>3. CASE UNCHANGED <<pending, status, answer>>
      BY <3>3
    <3> QED BY <3>1, <3>2, <3>3
  <2>3. /\ client' \in [Leafs -> Channels \cup {None}]
        /\ connected' \in [Leafs -> BOOLEAN]
        /\ open' \in SUBSET Channels
    <3>1. client' \in [Leafs -> Channels \cup {None}]
      BY <1>7, <2>1 DEF ConnectMake
    <3>2. \/ connected' = connected
          \/ connected' = [connected EXCEPT ![l] = FALSE]
      BY <1>7 DEF ConnectMake
    <3>3. connected' \in [Leafs -> BOOLEAN]
      BY <2>1, <3>2
    <3>4. \/ open' = open \cup {<<r, l>>} \/ open' = (open \ old) \cup {<<r, l>>}
          \/ open' = open \ old
      BY <1>7 DEF ConnectMake
    <3>5. open' \in SUBSET Channels
      BY <2>1, <3>4
    <3> QED BY <3>1, <3>3, <3>5
  <2> QED BY <1>7, <2>2, <2>3 DEF ConnectMake, Goto
<1>8. ASSUME NEW r \in Reqs, ConnectSet(r) PROVE TypeOK'
  BY <1>8 DEF ConnectSet, Goto
<1>9. ASSUME NEW r \in Reqs, getConnection(r) PROVE TypeOK'
  BY <1>9 DEF getConnection, Goto
<1>10. ASSUME NEW r \in Reqs, Call(r) PROVE TypeOK'
  <2>1. answer' \in [Reqs -> {"none", "answered", "dropped"}]
    BY <1>10, AnswersType DEF Call
  <2>2. leaf' \in [Reqs -> Leafs]
    BY <1>10 DEF Call
  <2>3. PICK s \in {"out", "lost", "failed"} :
           /\ status' = [status EXCEPT ![r][leaf[r]] = s]
           /\ pending' = IF s = "out"
                         THEN [pending EXCEPT ![held[r]] = @ \cup {r}]
                         ELSE pending
    BY <1>10 DEF Call, MakeCall
  <2>4. status' \in [Reqs -> [Leafs -> {"none", "out", "lost", "ok", "failed"}]]
    BY <2>3
  <2>5. pending' \in [Channels -> SUBSET Reqs]
    BY <2>3
  <2>6. aborted' \in {"no", "race"}
    BY <1>10 DEF Call, MakeCall
  <2> QED BY <1>10, <2>1, <2>2, <2>4, <2>5, <2>6 DEF Call, Goto
<1>11. ASSUME NEW r \in Reqs, NEW c \in Channels, Execute(r, c) PROVE TypeOK'
  <2>1. <<r, c[2]>> \in Channels
    BY DEF Channels
  <2> QED BY <1>11, <2>1 DEF Execute
<1>12. ASSUME NEW r \in Reqs, NEW c \in Channels, NEW s \in {"ok", "failed"},
              Receive(r, c, s)
       PROVE  TypeOK'
  <2>1. answer' \in [Reqs -> {"none", "answered", "dropped"}]
    BY <1>12, AnswersType DEF Receive
  <2> QED BY <1>12, <2>1 DEF Receive
<1>13. ASSUME NEW c \in Channels, channelClosed(c) PROVE TypeOK'
  <2> DEFINE dead == {c, client[c[2]]} \cap Channels
  <2>1. Die(dead)
    BY <1>13 DEF channelClosed
  <2>2. /\ pending' \in [Channels -> SUBSET Reqs]
        /\ status' \in [Reqs -> [Leafs -> {"none", "out", "lost", "ok", "failed"}]]
        /\ answer' \in [Reqs -> {"none", "answered", "dropped"}]
    BY <2>1, DieType
  <2> QED BY <1>13, <2>2 DEF channelClosed
<1>14. ASSUME NEW b \in Bases, setDisconnected(b) PROVE TypeOK'
  <2>1. connected' \in [Leafs -> BOOLEAN]
    BY <1>14, Zenon DEF setDisconnected
  <2> QED BY <1>14, <2>1 DEF setDisconnected
<1>15. CASE UNCHANGED vars
  BY <1>15 DEF vars, serverVars
<1> HIDE Facts DEF TypeOK, Places, Running
<1> QED
  BY <1>1, <1>2, <1>3, <1>4, <1>5, <1>6, <1>7, <1>8, <1>9, <1>10, <1>11,
     <1>12, <1>13, <1>14, <1>15 DEF Next, Handler, Function, Settle

-----------------------------------------------------------------------------
(* What the steps have in common.                                          *)

(***************************************************************************)
(* Running the continuations keeps answers exact, when answered requests   *)
(* stay where they are and their calls stay as they are.                   *)
(***************************************************************************)
LEMMA AnswersStep ==
    ASSUME TypeOK, TypeOK', AnsweredExactly, OkStored',
           stored \subseteq stored',
           answer' = Answers(place', status'),
           \A r \in Reqs : answer[r] # "none" =>
               /\ place'[r] = "waiting" /\ leaf'[r] = leaf[r]
               /\ \A l \in Targets(r) : status'[r][l] = status[r][l],
           \A r \in Reqs : place'[r] = "waiting" /\ Kind[r] = "read" =>
               leaf'[r] = leaf[r]
    PROVE  AnsweredExactly'
<1> SUFFICES ASSUME NEW r \in Reqs
             PROVE  /\ answer'[r] # "none" <=>
                          place'[r] = "waiting" /\ Settled(r, status)'
                    /\ answer'[r] = "answered" /\ Kind[r] = "read" =>
                          <<r, leaf'[r]>> \in stored'
                    /\ answer'[r] = "dropped" =>
                          Kind[r] = "read" /\ status'[r][leaf'[r]] = "failed"
  BY DEF AnsweredExactly
<1>0. /\ answer[r] # "none" <=> place[r] = "waiting" /\ Settled(r, status)
      /\ answer[r] = "answered" /\ Kind[r] = "read" => <<r, leaf[r]>> \in stored
      /\ answer[r] = "dropped" =>
            Kind[r] = "read" /\ status[r][leaf[r]] = "failed"
      /\ Kind[r] \in {"read", "write"}
      /\ leaf[r] \in Leafs /\ leaf'[r] \in Leafs
  BY Facts DEF AnsweredExactly, TypeOK
<1>1. answer'[r] = IF answer[r] = "none" /\ place'[r] = "waiting"
                                         /\ Settled(r, status')
                   THEN Outcome(r, status') ELSE answer[r]
  BY DEF Answers
<1>2. place'[r] = "waiting" => Targets(r)' = Targets(r)
  BY <1>0 DEF Targets
<1>3. place'[r] = "waiting" => (Settled(r, status)' <=> Settled(r, status'))
  BY <1>2 DEF Settled
<1>4. CASE answer[r] # "none"
  <2>1. answer'[r] = answer[r] /\ place'[r] = "waiting" /\ leaf'[r] = leaf[r]
    BY <1>1, <1>4
  <2>2. \A l \in Targets(r) : status'[r][l] = status[r][l]
    BY <1>4
  <2>3. Settled(r, status')
    BY <1>0, <1>4, <2>2 DEF Settled
  <2>4. answer[r] = "dropped" => leaf[r] \in Targets(r)
    BY <1>0 DEF Targets
  <2> QED BY <1>0, <1>3, <1>4, <2>1, <2>2, <2>3, <2>4
<1>5. CASE answer[r] = "none" /\ place'[r] = "waiting" /\ Settled(r, status')
  <2>1. answer'[r] = Outcome(r, status')
    BY <1>1, <1>5
  <2>2. answer'[r] \in {"answered", "dropped"}
    BY <2>1 DEF Outcome
  <2>3. ASSUME Kind[r] = "read"
        PROVE  /\ leaf'[r] = leaf[r]
               /\ status'[r][leaf[r]] \in {"ok", "failed"}
               /\ answer'[r] = "answered" => status'[r][leaf[r]] = "ok"
               /\ answer'[r] = "dropped" => status'[r][leaf[r]] # "ok"
    BY <1>5, <2>1, <2>3 DEF Settled, Targets, Outcome
  <2>4. status'[r][leaf[r]] = "ok" => <<r, leaf[r]>> \in stored'
    BY <1>0 DEF OkStored
  <2>5. Kind[r] = "write" => answer'[r] = "answered"
    BY <2>1 DEF Outcome
  <2> QED BY <1>0, <1>3, <1>5, <2>2, <2>3, <2>4, <2>5
<1>6. CASE answer[r] = "none" /\ ~(place'[r] = "waiting" /\ Settled(r, status'))
  <2>1. answer'[r] = "none"
    BY <1>1, <1>6
  <2> QED BY <1>3, <1>6, <2>1
<1> QED BY <1>4, <1>5, <1>6

(***************************************************************************)
(* A step that touches no call keeps the invariant's parts about calls.    *)
(***************************************************************************)
LEMMA QuietStep ==
    ASSUME ServerInv, TypeOK', open' = open,
           UNCHANGED <<pending, status, answer, stored>>,
           \A r \in Reqs :
              \/ place'[r] = place[r] /\ leaf'[r] = leaf[r]
              \/ /\ place[r] \in Running /\ place'[r] \in Running
                 /\ leaf'[r] = leaf[r]
              \/ /\ place[r] \notin Running \cup {"waiting"}
                 /\ place'[r] # "waiting"
                 /\ Kind[r] = "write" => leaf'[r] = 0
    PROVE  CallsOnOpenChannels' /\ AnsweredExactly' /\ OkStored' /\ LoopFits'
<1> USE DEF ServerInv
<1>1. CallsOnOpenChannels'
  BY DEF CallsOnOpenChannels
<1>2. OkStored'
  BY DEF OkStored
<1>3. AnsweredExactly'
  <2> SUFFICES ASSUME NEW r \in Reqs
               PROVE  /\ answer[r] # "none" <=>
                            place'[r] = "waiting" /\ Settled(r, status)'
                      /\ answer[r] = "answered" /\ Kind[r] = "read" =>
                            <<r, leaf'[r]>> \in stored
                      /\ answer[r] = "dropped" =>
                            Kind[r] = "read" /\ status[r][leaf'[r]] = "failed"
    BY DEF AnsweredExactly
  <2>1. /\ answer[r] # "none" <=> place[r] = "waiting" /\ Settled(r, status)
        /\ answer[r] = "answered" /\ Kind[r] = "read" => <<r, leaf[r]>> \in stored
        /\ answer[r] = "dropped" =>
              Kind[r] = "read" /\ status[r][leaf[r]] = "failed"
    BY DEF AnsweredExactly
  <2>2. CASE place'[r] = place[r] /\ leaf'[r] = leaf[r]
    <3>1. Settled(r, status)' <=> Settled(r, status)
      BY <2>2 DEF Settled, Targets
    <3> QED BY <2>1, <2>2, <3>1
  <2>3. CASE place[r] # "waiting" /\ place'[r] # "waiting"
    BY <2>1, <2>3
  <2> QED BY <2>2, <2>3 DEF Running
<1>4. LoopFits'
  <2> SUFFICES ASSUME NEW r \in Reqs, NEW l \in Leafs
               PROVE  /\ status[r][l] # "none" =>
                            /\ place'[r] \in Running \cup {"waiting"}
                            /\ l <= leaf'[r]
                            /\ l < leaf'[r] \/ place'[r] = "waiting"
                      /\ place'[r] = "waiting" /\ l \in Targets(r)' =>
                            status[r][l] # "none"
                      /\ place'[r] \in Running /\ Kind[r] = "write"
                                              /\ l < leaf'[r] =>
                            status[r][l] # "none"
                      /\ place'[r] \notin Running \cup {"waiting"}
                                              /\ Kind[r] = "write" =>
                            leaf'[r] = 0
    BY DEF LoopFits
  <2>1. /\ status[r][l] # "none" =>
              /\ place[r] \in Running \cup {"waiting"}
              /\ l <= leaf[r]
              /\ l < leaf[r] \/ place[r] = "waiting"
        /\ place[r] = "waiting" /\ l \in Targets(r) => status[r][l] # "none"
        /\ place[r] \in Running /\ Kind[r] = "write" /\ l < leaf[r] =>
              status[r][l] # "none"
        /\ place[r] \notin Running \cup {"waiting"} /\ Kind[r] = "write" =>
              leaf[r] = 0
    BY DEF LoopFits
  <2>2. CASE place'[r] = place[r] /\ leaf'[r] = leaf[r]
    BY <2>1, <2>2 DEF Targets
  <2>3. CASE /\ place[r] \in Running /\ place'[r] \in Running
             /\ leaf'[r] = leaf[r]
    BY <2>1, <2>3 DEF Running
  <2>4. CASE /\ place[r] \notin Running \cup {"waiting"}
             /\ place'[r] # "waiting"
             /\ Kind[r] = "write" => leaf'[r] = 0
    <3>1. l \in Nat
      BY Facts
    <3>2. ~(l < 0)
      BY <3>1
    <3> QED BY <2>1, <2>4, <3>2, Zenon
  <2> QED BY <2>2, <2>3, <2>4
<1> QED BY <1>1, <1>2, <1>3, <1>4

(***************************************************************************)
(* When channels die, the calls that waited on them fail, and no others.   *)
(***************************************************************************)
LEMMA DieStep ==
    ASSUME ServerInv, TypeOK', NEW S \in SUBSET Channels, Die(S),
           open \ S \subseteq open',
           UNCHANGED <<stored, leaf>>,
           \A r \in Reqs : \/ place'[r] = place[r]
                           \/ place[r] \in Running /\ place'[r] \in Running
    PROVE  CallsOnOpenChannels' /\ AnsweredExactly' /\ OkStored' /\ LoopFits'
<1> USE DEF ServerInv
<1>1. ASSUME NEW r \in Reqs, NEW l \in Leafs
      PROVE  status'[r][l] = IF \E c \in S : c[2] = l /\ r \in pending[c]
                             THEN "failed" ELSE status[r][l]
  BY DEF Die, Failed
<1>2. \A c \in Channels : pending'[c] = IF c \in S THEN {} ELSE pending[c]
  BY DEF Die
<1>3. \A c \in Channels : \A r \in pending[c] :
         r \in Reqs /\ c \in open /\ status[r][c[2]] = "out"
  BY DEF CallsOnOpenChannels, TypeOK
<1>4. ASSUME NEW r \in Reqs, NEW l \in Leafs
      PROVE  /\ \/ status'[r][l] = status[r][l]
                \/ status[r][l] = "out" /\ status'[r][l] = "failed"
             /\ \A c \in S : c[2] = l /\ r \in pending[c] =>
                   status'[r][l] = "failed"
  BY <1>1, <1>3
<1>5. CallsOnOpenChannels'
  <2>1. ASSUME NEW r \in Reqs, NEW l \in Leafs, status'[r][l] = "out"
        PROVE  \E q \in Reqs : r \in pending'[<<q, l>>]
    <3>1. status[r][l] = "out"
      BY <1>4, <2>1
    <3>2. PICK q \in Reqs : r \in pending[<<q, l>>]
      BY <3>1 DEF CallsOnOpenChannels
    <3>3. <<q, l>> \in Channels /\ <<q, l>>[2] = l
      BY DEF Channels
    <3>4. <<q, l>> \notin S
      BY <1>4, <2>1, <3>2, <3>3
    <3> QED BY <1>2, <3>2, <3>3, <3>4
  <2>2. ASSUME NEW c \in Channels, NEW r \in pending'[c]
        PROVE  c \in open' /\ status'[r][c[2]] = "out"
    <3>1. c \notin S /\ r \in pending[c]
      BY <1>2, <2>2
    <3>2. c \in open /\ r \in Reqs /\ c[2] \in Leafs /\ status[r][c[2]] = "out"
      BY <1>3, <3>1, Facts
    <3>3. ~ \E d \in S : d[2] = c[2] /\ r \in pending[d]
      <4>1. \A d \in Channels : d # c /\ d[2] = c[2] =>
               pending[d] \cap pending[c] = {}
        BY DEF CallsOnOpenChannels
      <4> QED BY <3>1, <4>1
    <3> QED BY <1>1, <3>1, <3>2, <3>3
  <2>3. \A c, d \in Channels :
          c # d /\ c[2] = d[2] => pending'[c] \cap pending'[d] = {}
    BY <1>2 DEF CallsOnOpenChannels
  <2> QED BY <2>1, <2>2, <2>3 DEF CallsOnOpenChannels
<1>6. OkStored'
  BY <1>4 DEF OkStored
<1>7. AnsweredExactly'
  <2>1. ASSUME NEW r \in Reqs, answer[r] # "none"
        PROVE  /\ place'[r] = "waiting" /\ leaf'[r] = leaf[r]
               /\ \A l \in Targets(r) : status'[r][l] = status[r][l]
    <3>1. place[r] = "waiting" /\ Settled(r, status)
      BY <2>1 DEF AnsweredExactly
    <3>2. \A l \in Targets(r) : l \in Leafs
      BY DEF Targets, TypeOK
    <3> QED BY <1>4, <3>1, <3>2 DEF Settled, Running
  <2> QED BY <1>6, <2>1, AnswersStep DEF Die
<1>8. LoopFits'
  <2>1. \A r \in Reqs, l \in Leafs : status'[r][l] = "none" <=> status[r][l] = "none"
    BY <1>4
  <2> QED BY <2>1 DEF LoopFits, Targets, Running
<1> QED BY <1>5, <1>6, <1>7, <1>8

-----------------------------------------------------------------------------
(* Any number of event bases.                                              *)

\* The server's invariant holds at the start.
LEMMA ServerInit == Init => ServerInv
<1> SUFFICES ASSUME Init PROVE ServerInv
  OBVIOUS
<1>1. TypeOK
  BY TypeInit
<1> USE DEF Init
<1>2. CallsOnOpenChannels /\ OkStored /\ ChannelsFit
  BY Facts DEF CallsOnOpenChannels, OkStored, ChannelsFit
<1>3. AnsweredExactly /\ LoopFits
  BY Facts DEF AnsweredExactly, LoopFits, Running
<1> QED BY <1>1, <1>2, <1>3 DEF ServerInv

\* A call is made: it waits on a live channel of its leaf, has failed, or is
\* lost.
LEMMA CallStep ==
    ASSUME ServerInv, TypeOK', NEW r \in Reqs, Call(r)
    PROVE  ServerInv'
<1> USE DEF ServerInv
<1> DEFINE l == leaf[r]
<1> DEFINE c == held[r]
<1> DEFINE more == Kind[r] = "write" /\ l + 1 < NLeafs
<1>0. /\ place[r] = "call" /\ l \in Leafs /\ l \in Nat
      /\ status[r][l] = "none"
      /\ \A k \in Leafs : status[r][k] # "none" => k < l
      /\ answer[r] = "none"
      /\ \A k \in Leafs : k <= NLeafs - 1 /\ k \in Nat
      /\ NLeafs \in Nat
  <2>1. place[r] = "call" /\ l \in Leafs
    BY DEF Call, TypeOK
  <2>2. NLeafs \in Nat /\ \A k \in Leafs : k <= NLeafs - 1 /\ k \in Nat
    BY Facts
  <2>3. \A k \in Leafs : status[r][k] # "none" => k < l
    BY <2>1 DEF LoopFits
  <2>4. status[r][l] = "none"
    BY <2>1, <2>2, <2>3
  <2>5. answer[r] = "none"
    BY <2>1 DEF AnsweredExactly
  <2> QED BY <2>1, <2>2, <2>3, <2>4, <2>5
<1>1. c \in open => c \in Channels /\ c[2] = l
  BY <1>0, Facts DEF TypeOK, ChannelsFit
<1>11. PICK s \in {"out", "lost", "failed"} :
          /\ s = "out" => c \in open
          /\ status' = [status EXCEPT ![r][l] = s]
          /\ pending' = IF s = "out" THEN [pending EXCEPT ![c] = @ \cup {r}]
                                     ELSE pending
  BY DEF Call, MakeCall
<1>2. \A q \in Reqs, k \in Leafs :
         status'[q][k] = IF q = r /\ k = l THEN s ELSE status[q][k]
  BY <1>0, <1>11 DEF TypeOK
<1>3. \A d \in Channels :
         pending'[d] = IF d = c /\ s = "out" THEN pending[d] \cup {r}
                                             ELSE pending[d]
  BY <1>1, <1>11 DEF TypeOK
<1>4. \A q \in Reqs : /\ q # r => place'[q] = place[q] /\ leaf'[q] = leaf[q]
                      /\ q = r => place'[q] = IF more THEN "check" ELSE "waiting"
                      /\ q = r => leaf'[q] = IF more THEN l + 1 ELSE l
  BY DEF Call, Goto, TypeOK
<1>5. UNCHANGED <<open, stored, client, held>> /\ answer' = Answers(place', status')
  BY DEF Call
<1>6. CallsOnOpenChannels'
  <2>1. \A d \in Channels : \A q \in pending[d] :
           q \in Reqs /\ d \in open /\ status[q][d[2]] = "out" /\ d[2] \in Leafs
    BY Facts DEF CallsOnOpenChannels, TypeOK
  <2>2. \A d \in Channels : d[2] = l => r \notin pending[d]
    BY <1>0, <2>1
  <2>3. ASSUME NEW q \in Reqs, NEW k \in Leafs, status'[q][k] = "out"
        PROVE  \E p \in Reqs : q \in pending'[<<p, k>>]
    <3>1. CASE q = r /\ k = l
      <4>1. s = "out" /\ c \in open
        BY <1>2, <1>11, <2>3, <3>1
      <4>2. c = <<c[1], l>> /\ c[1] \in Reqs
        BY <1>1, <4>1, Facts
      <4> QED BY <1>1, <1>3, <3>1, <4>1, <4>2
    <3>2. CASE ~(q = r /\ k = l)
      <4>1. PICK p \in Reqs : q \in pending[<<p, k>>]
        BY <1>2, <2>3, <3>2 DEF CallsOnOpenChannels
      <4>2. <<p, k>> \in Channels
        BY DEF Channels
      <4> QED BY <1>3, <4>1, <4>2
    <3> QED BY <3>1, <3>2
  <2>4. ASSUME NEW d \in Channels, NEW q \in pending'[d]
        PROVE  d \in open' /\ status'[q][d[2]] = "out"
    <3>1. CASE q \in pending[d]
      <4>1. q \in Reqs /\ d \in open /\ status[q][d[2]] = "out" /\ d[2] \in Leafs
        BY <2>1, <3>1
      <4>2. ~(q = r /\ d[2] = l)
        BY <2>2, <3>1
      <4>3. status'[q][d[2]] = status[q][d[2]]
        BY <1>2, <4>1, <4>2
      <4> QED BY <1>5, <4>1, <4>3
    <3>2. CASE q \notin pending[d]
      <4>1. d = c /\ s = "out" /\ c \in open /\ q = r
        BY <1>3, <1>11, <2>4, <3>2
      <4>2. d[2] = l /\ l \in Leafs
        BY <1>0, <1>1, <4>1
      <4>3. status'[r][l] = "out"
        BY <1>2, <4>1, <4>2
      <4> QED BY <1>5, <4>1, <4>2, <4>3
    <3> QED BY <3>1, <3>2
  <2>5. ASSUME NEW d \in Channels, NEW e \in Channels, d # e, d[2] = e[2]
        PROVE  pending'[d] \cap pending'[e] = {}
    <3>1. pending[d] \cap pending[e] = {}
      BY <2>5 DEF CallsOnOpenChannels
    <3>2. ASSUME d = c, s = "out" PROVE pending'[d] \cap pending'[e] = {}
      <4>1. e[2] = l /\ r \notin pending[e]
        BY <1>1, <1>11, <2>2, <2>5, <3>2
      <4>2. pending'[d] = pending[d] \cup {r} /\ pending'[e] = pending[e]
        BY <1>3, <2>5, <3>2
      <4> QED BY <3>1, <4>1, <4>2
    <3>3. ASSUME e = c, s = "out" PROVE pending'[d] \cap pending'[e] = {}
      <4>1. d[2] = l /\ r \notin pending[d]
        BY <1>1, <1>11, <2>2, <2>5, <3>3
      <4>2. pending'[e] = pending[e] \cup {r} /\ pending'[d] = pending[d]
        BY <1>3, <2>5, <3>3
      <4> QED BY <3>1, <4>1, <4>2
    <3>4. ASSUME ~(s = "out" /\ (d = c \/ e = c))
          PROVE  pending'[d] \cap pending'[e] = {}
      <4>1. pending'[e] = pending[e] /\ pending'[d] = pending[d]
        BY <1>3, <3>4
      <4> QED BY <3>1, <4>1
    <3> QED BY <3>2, <3>3, <3>4
  <2> QED BY <2>3, <2>4, <2>5 DEF CallsOnOpenChannels
<1>7. OkStored'
  BY <1>2, <1>5 DEF OkStored
<1>8. AnsweredExactly'
  <2>1. \A q \in Reqs : answer[q] # "none" =>
           /\ place'[q] = "waiting" /\ leaf'[q] = leaf[q]
           /\ \A k \in Targets(q) : status'[q][k] = status[q][k]
    <3> SUFFICES ASSUME NEW q \in Reqs, answer[q] # "none"
                 PROVE  /\ place'[q] = "waiting" /\ leaf'[q] = leaf[q]
                        /\ \A k \in Targets(q) : status'[q][k] = status[q][k]
      OBVIOUS
    <3>1. q # r /\ place[q] = "waiting"
      BY <1>0 DEF AnsweredExactly
    <3>2. Targets(q) \subseteq Leafs
      BY DEF Targets, TypeOK
    <3> QED BY <1>2, <1>4, <3>1, <3>2
  <2>2. \A q \in Reqs : place'[q] = "waiting" /\ Kind[q] = "read" =>
           leaf'[q] = leaf[q]
    BY <1>4
  <2>3. stored \subseteq stored'
    BY <1>5
  <2> QED BY <1>5, <1>7, <2>1, <2>2, <2>3, AnswersStep
<1>9. LoopFits'
  <2> SUFFICES ASSUME NEW q \in Reqs, NEW k \in Leafs
               PROVE  /\ status'[q][k] # "none" =>
                            /\ place'[q] \in Running \cup {"waiting"}
                            /\ k <= leaf'[q]
                            /\ k < leaf'[q] \/ place'[q] = "waiting"
                      /\ place'[q] = "waiting" /\ k \in Targets(q)' =>
                            status'[q][k] # "none"
                      /\ place'[q] \in Running /\ Kind[q] = "write"
                                              /\ k < leaf'[q] =>
                            status'[q][k] # "none"
                      /\ place'[q] \notin Running \cup {"waiting"}
                                              /\ Kind[q] = "write" =>
                            leaf'[q] = 0
    BY DEF LoopFits
  <2>1. CASE q # r
    BY <1>2, <1>4, <2>1 DEF LoopFits, Targets
  <2>2. CASE q = r /\ more
    <3>1. place'[r] = "check" /\ leaf'[r] = l + 1 /\ Kind[r] = "write"
      BY <1>4, <2>2
    <3>2. k < l => status[r][k] # "none"
      BY <1>0, <2>2 DEF LoopFits, Running
    <3>3. k < l + 1 <=> k < l \/ k = l
      BY <1>0
    <3>4. k < l + 1 => k <= l + 1
      BY <1>0
    <3>5. status'[r][k] # "none" <=> k < l + 1
      BY <1>0, <1>2, <3>2, <3>3
    <3> QED BY <2>2, <3>1, <3>4, <3>5 DEF Running
  <2>3. CASE q = r /\ ~more
    <3>1. place'[r] = "waiting" /\ leaf'[r] = l
      BY <1>4, <2>3
    <3>2. Kind[r] = "write" => \A j \in Leafs : j < l => status[r][j] # "none"
      BY <1>0 DEF LoopFits, Running
    <3>3. Kind[r] = "write" => (k < l \/ k = l)
      BY <1>0, <2>3
    <3>4. k \in Targets(r)' => status'[r][k] # "none"
      BY <1>2, <3>1, <3>2, <3>3, Facts DEF Targets
    <3>5. status'[r][k] # "none" => k <= l
      BY <1>0, <1>2
    <3> QED BY <2>3, <3>1, <3>4, <3>5 DEF Running
  <2> QED BY <2>1, <2>2, <2>3
<1>10. ChannelsFit'
  BY <1>4, <1>5 DEF ChannelsFit
<1> QED BY <1>6, <1>7, <1>8, <1>9, <1>10

\* An answer or an exception settles a call.
LEMMA ReceiveStep ==
    ASSUME ServerInv, TypeOK', NEW r \in Reqs, NEW c \in Channels,
           NEW s \in {"ok", "failed"}, Receive(r, c, s)
    PROVE  ServerInv'
<1> USE DEF ServerInv
<1>0. /\ r \in pending[c] /\ c[2] \in Leafs /\ c = <<c[1], c[2]>>
      /\ status[r][c[2]] = "out"
      /\ UNCHANGED <<place, leaf, open, stored, client, held>>
      /\ answer' = Answers(place, status')
  BY Facts DEF Receive, CallsOnOpenChannels
<1>1. \A q \in Reqs, k \in Leafs :
         status'[q][k] = IF q = r /\ k = c[2] THEN s ELSE status[q][k]
  BY <1>0 DEF Receive, TypeOK
<1>2. \A d \in Channels :
         pending'[d] = IF d = c THEN pending[d] \ {r} ELSE pending[d]
  BY DEF Receive, TypeOK
<1>3. \A d \in Channels : d # c /\ d[2] = c[2] => r \notin pending[d]
  BY <1>0 DEF CallsOnOpenChannels
<1>4. CallsOnOpenChannels'
  <2>1. ASSUME NEW q \in Reqs, NEW k \in Leafs, status'[q][k] = "out"
        PROVE  \E p \in Reqs : q \in pending'[<<p, k>>]
    <3>1. status[q][k] = "out" /\ ~(q = r /\ k = c[2])
      BY <1>1, <2>1
    <3>2. PICK p \in Reqs : q \in pending[<<p, k>>]
      BY <3>1 DEF CallsOnOpenChannels
    <3>3. <<p, k>> \in Channels /\ <<p, k>>[2] = k
      BY DEF Channels
    <3> QED BY <1>2, <3>1, <3>2, <3>3
  <2>2. ASSUME NEW d \in Channels, NEW q \in pending'[d]
        PROVE  d \in open' /\ status'[q][d[2]] = "out"
    <3>1. q \in pending[d] /\ ~(d = c /\ q = r)
      BY <1>2, <2>2
    <3>2. d \in open /\ status[q][d[2]] = "out" /\ q \in Reqs /\ d[2] \in Leafs
      BY <3>1, Facts DEF CallsOnOpenChannels, TypeOK
    <3> QED BY <1>0, <1>1, <1>3, <3>1, <3>2
  <2>3. \A d, e \in Channels :
           d # e /\ d[2] = e[2] => pending'[d] \cap pending'[e] = {}
    BY <1>2 DEF CallsOnOpenChannels
  <2> QED BY <2>1, <2>2, <2>3 DEF CallsOnOpenChannels
<1>5. OkStored'
  <2>1. s = "ok" => <<r, c[2]>> \in stored
    BY DEF Receive
  <2> QED BY <1>0, <1>1, <2>1 DEF OkStored
<1>6. AnsweredExactly'
  <2>1. \A q \in Reqs : answer[q] # "none" =>
           /\ place'[q] = "waiting" /\ leaf'[q] = leaf[q]
           /\ \A k \in Targets(q) : status'[q][k] = status[q][k]
    <3> SUFFICES ASSUME NEW q \in Reqs, answer[q] # "none"
                 PROVE  /\ place'[q] = "waiting" /\ leaf'[q] = leaf[q]
                        /\ \A k \in Targets(q) : status'[q][k] = status[q][k]
      OBVIOUS
    <3>1. place[q] = "waiting" /\ \A k \in Targets(q) : status[q][k] # "out"
      BY DEF AnsweredExactly, Settled
    <3>2. Targets(q) \subseteq Leafs
      BY DEF Targets, TypeOK
    <3> QED BY <1>0, <1>1, <3>1, <3>2
  <2>2. answer' = Answers(place', status') /\ stored \subseteq stored' /\ leaf' = leaf
    BY <1>0
  <2> QED BY <1>5, <2>1, <2>2, AnswersStep
<1>7. LoopFits'
  <2>1. \A q \in Reqs, k \in Leafs : status'[q][k] = "none" <=> status[q][k] = "none"
    BY <1>0, <1>1
  <2> QED BY <1>0, <2>1 DEF LoopFits, Targets
<1>8. ChannelsFit'
  BY <1>0 DEF ChannelsFit
<1> QED BY <1>4, <1>5, <1>6, <1>7, <1>8

\* Every step preserves the server's invariant.
LEMMA ServerStep == ServerInv /\ [Next]_vars => ServerInv'
<1> SUFFICES ASSUME ServerInv, [Next]_vars PROVE ServerInv'
  OBVIOUS
<1>0. TypeOK /\ TypeOK'
  BY TypeStep DEF ServerInv
<1>1. ASSUME NEW r \in Reqs, getLeafLoad(r) \/ getLeafStore(r) PROVE ServerInv'
  <2>1. CallsOnOpenChannels' /\ AnsweredExactly' /\ OkStored' /\ LoopFits'
    <3>1. /\ \A q \in Reqs : q # r => place'[q] = place[q]
          /\ place[r] \in {"arrive", "store"} /\ place'[r] \in {"store", "post"}
          /\ UNCHANGED <<leaf, open, pending, status, answer, stored>>
      BY <1>0, <1>1 DEF getLeafLoad, getLeafStore, Goto, TypeOK
    <3>2. Kind[r] = "write" => leaf[r] = 0
      BY <3>1, Facts DEF ServerInv, LoopFits, Running
    <3> QED BY <1>0, <3>1, <3>2, QuietStep DEF Running
  <2>2. ChannelsFit'
    BY <1>0, <1>1 DEF getLeafLoad, getLeafStore, Goto, ServerInv, ChannelsFit, TypeOK
  <2> QED BY <1>0, <2>1, <2>2 DEF ServerInv
<1>2. ASSUME NEW r \in Reqs, Post(r) PROVE ServerInv'
  <2>1. /\ \A q \in Reqs : q # r => place'[q] = place[q] /\ leaf'[q] = leaf[q]
        /\ place[r] = "post" /\ place'[r] = "posted"
        /\ Kind[r] = "write" => leaf'[r] = 0
        /\ UNCHANGED <<open, pending, status, answer, stored, client, held>>
    BY <1>0, <1>2 DEF Post, Goto, TypeOK
  <2>2. CallsOnOpenChannels' /\ AnsweredExactly' /\ OkStored' /\ LoopFits'
    BY <1>0, <2>1, QuietStep DEF Running
  <2>3. ChannelsFit'
    BY <2>1 DEF ServerInv, ChannelsFit
  <2> QED BY <1>0, <2>2, <2>3 DEF ServerInv
<1>3. ASSUME NEW r \in Reqs,
             Start(r) \/ isConnected(r) \/ ConnectAssert(r) \/ ConnectSet(r)
      PROVE  ServerInv'
  <2>1. /\ \A q \in Reqs : q # r => place'[q] = place[q]
        /\ place[r] \in Running \cup {"posted"}
        /\ place'[r] \in Running /\ place'[r] # "call"
        /\ UNCHANGED <<leaf, open, pending, status, answer, stored, client, held>>
    BY <1>0, <1>3 DEF Start, isConnected, ConnectAssert, ConnectSet, Goto, TypeOK,
                      Running, serverVars
  <2>2. place[r] = "posted" /\ Kind[r] = "write" => leaf[r] = 0
    BY Facts DEF ServerInv, LoopFits, Running
  <2>3. CallsOnOpenChannels' /\ AnsweredExactly' /\ OkStored' /\ LoopFits'
    BY <1>0, <2>1, <2>2, QuietStep DEF Running
  <2>4. ChannelsFit'
    BY <2>1 DEF ServerInv, ChannelsFit
  <2> QED BY <1>0, <2>3, <2>4 DEF ServerInv
<1>4. ASSUME NEW r \in Reqs, getConnection(r) PROVE ServerInv'
  <2>1. /\ \A q \in Reqs : q # r => place'[q] = place[q] /\ held'[q] = held[q]
        /\ place[r] \in Running /\ place'[r] \in Running
        /\ UNCHANGED <<leaf, open, pending, status, answer, stored, client>>
        /\ held'[r] = client[leaf[r]] /\ leaf[r] \in Leafs
    BY <1>0, <1>4 DEF getConnection, Goto, TypeOK, Running
  <2>2. CallsOnOpenChannels' /\ AnsweredExactly' /\ OkStored' /\ LoopFits'
    BY <1>0, <2>1, QuietStep
  <2>3. ChannelsFit'
    BY <2>1 DEF ServerInv, ChannelsFit
  <2> QED BY <1>0, <2>2, <2>3 DEF ServerInv
<1>5. ASSUME NEW r \in Reqs, ConnectMake(r) PROVE ServerInv'
  <2> DEFINE l == leaf[r]
  <2> DEFINE old == {client[l]} \cap Channels
  <2>1. /\ \A q \in Reqs : q # r => place'[q] = place[q]
        /\ place[r] \in Running /\ place'[r] = "set"
        /\ UNCHANGED <<leaf, stored, held>>
        /\ l \in Leafs
    BY <1>0, <1>5 DEF ConnectMake, Goto, TypeOK, Running
  <2>2. CallsOnOpenChannels' /\ AnsweredExactly' /\ OkStored' /\ LoopFits'
    <3>1. \/ Die(old) /\ open \ old \subseteq open'
          \/ UNCHANGED <<pending, status, answer>> /\ open \subseteq open'
      BY <1>5 DEF ConnectMake
    <3>2. CASE Die(old) /\ open \ old \subseteq open'
      <4>1. old \in SUBSET Channels
        OBVIOUS
      <4>2. \A q \in Reqs : \/ place'[q] = place[q]
                            \/ place[q] \in Running /\ place'[q] \in Running
        BY <2>1 DEF Running
      <4> QED BY <1>0, <2>1, <3>2, <4>1, <4>2, DieStep
    <3>3. CASE UNCHANGED <<pending, status, answer>> /\ open \subseteq open'
      <4>1. CallsOnOpenChannels' /\ OkStored'
        BY <2>1, <3>3 DEF ServerInv, CallsOnOpenChannels, OkStored
      <4>2. AnsweredExactly'
        BY <2>1, <3>3 DEF ServerInv, AnsweredExactly, Settled, Targets, Running
      <4>3. LoopFits'
        BY <2>1, <3>3 DEF ServerInv, LoopFits, Targets, Running
      <4> QED BY <4>1, <4>2, <4>3
    <3> QED BY <3>1, <3>2, <3>3
  <2>3. ChannelsFit'
    <3>1. \A k \in Leafs :
             \/ client'[k] = client[k] \/ client'[k] = None
             \/ k = l /\ client'[k] = <<r, l>>
      BY <1>0, <1>5, <2>1 DEF ConnectMake, TypeOK
    <3> QED BY <2>1, <3>1 DEF ServerInv, ChannelsFit
  <2> QED BY <1>0, <2>2, <2>3 DEF ServerInv
<1>6. ASSUME NEW r \in Reqs, Call(r) PROVE ServerInv'
  BY <1>0, <1>6, CallStep
<1>7. ASSUME NEW r \in Reqs, NEW c \in Channels, Execute(r, c) PROVE ServerInv'
  <2>1. /\ stored \subseteq stored'
        /\ UNCHANGED <<place, leaf, open, pending, status, answer, client, held>>
    BY <1>7 DEF Execute
  <2>2. CallsOnOpenChannels' /\ OkStored' /\ ChannelsFit'
    BY <2>1 DEF ServerInv, CallsOnOpenChannels, OkStored, ChannelsFit
  <2>3. AnsweredExactly' /\ LoopFits'
    BY <2>1 DEF ServerInv, AnsweredExactly, LoopFits, Settled, Targets
  <2> QED BY <1>0, <2>2, <2>3 DEF ServerInv
<1>8. ASSUME NEW r \in Reqs, NEW c \in Channels, NEW s \in {"ok", "failed"},
             Receive(r, c, s)
      PROVE  ServerInv'
  BY <1>0, <1>8, ReceiveStep
<1>9. ASSUME NEW c \in Channels, channelClosed(c) PROVE ServerInv'
  <2> DEFINE dead == {c, client[c[2]]} \cap Channels
  <2>1. /\ Die(dead) /\ dead \in SUBSET Channels
        /\ open \ dead \subseteq open'
        /\ UNCHANGED <<place, leaf, stored, held>>
        /\ c[2] \in Leafs
    BY <1>9, Facts DEF channelClosed
  <2>2. CallsOnOpenChannels' /\ AnsweredExactly' /\ OkStored' /\ LoopFits'
    BY <1>0, <2>1, DieStep
  <2>3. \A k \in Leafs : client'[k] = client[k] \/ client'[k] = None
    BY <1>0, <1>9 DEF channelClosed, TypeOK
  <2>4. ChannelsFit'
    BY <2>1, <2>3 DEF ServerInv, ChannelsFit
  <2> QED BY <1>0, <2>2, <2>4 DEF ServerInv
<1>10. ASSUME \/ \E b \in Bases : setDisconnected(b)
              \/ UNCHANGED vars
       PROVE  ServerInv'
  <2>1. UNCHANGED <<place, leaf, open, pending, status, answer, stored, client, held>>
    BY <1>10 DEF setDisconnected, vars, serverVars
  <2>2. CallsOnOpenChannels' /\ AnsweredExactly' /\ OkStored' /\ LoopFits'
    BY <1>0, <2>1, QuietStep
  <2>3. ChannelsFit'
    BY <2>1 DEF ServerInv, ChannelsFit
  <2> QED BY <1>0, <2>2, <2>3 DEF ServerInv
<1> QED
  BY <1>1, <1>2, <1>3, <1>4, <1>5, <1>6, <1>7, <1>8, <1>9, <1>10
     DEF Next, Handler, Function, Settle

(***************************************************************************)
(* The invariant of the server, for any number of leafs and event bases.   *)
(***************************************************************************)
THEOREM ServerCorrect == Spec => []ServerInv
  BY ServerInit, ServerStep, PTL DEF Spec

\* curLeaf always indexes leafs_, and the other variables keep their types,
\* although getLeaf is not synchronised.
THEOREM ServerTypeCorrect == Spec => []TypeOK
<1>1. ServerInv => TypeOK
  BY DEF ServerInv
<1> QED BY <1>1, ServerCorrect, PTL

(***************************************************************************)
(* A request is answered or dropped exactly when all its calls to leafs    *)
(* are settled, however many event bases fight over the leafs' channels.   *)
(***************************************************************************)
THEOREM AnsweredCorrect == Spec => []AnsweredExactly
<1>1. ServerInv => AnsweredExactly
  BY DEF ServerInv
<1> QED BY <1>1, ServerCorrect, PTL

-----------------------------------------------------------------------------
(* One event base.                                                         *)

\* The invariant for a single event base holds at the start.
LEMMA OneBaseInit == Init => OneBaseInv
  BY Facts DEF Init, OneBaseInv, AssertsHold, OneAtATime, FlagFits, Running

\* With a single event base every step preserves its invariant.
LEMMA OneBaseStep ==
    OneBase /\ ServerInv /\ ServerInv' /\ OneBaseInv /\ [Next]_vars => OneBaseInv'
<1> SUFFICES ASSUME OneBase, TypeOK, TypeOK', ChannelsFit, OneBaseInv, [Next]_vars
             PROVE  OneBaseInv'
  BY DEF ServerInv
<1> USE Facts DEF OneBaseInv, AssertsHold
<1>1. ASSUME NEW r \in Reqs, Handler(r) PROVE OneBaseInv'
  <2>1. /\ \A q \in Reqs : q # r => place'[q] = place[q] /\ leaf'[q] = leaf[q]
        /\ place[r] \notin Running /\ place'[r] \notin Running
        /\ UNCHANGED <<client, connected, held, open, closing, aborted>>
    <3>1. CASE getLeafLoad(r) \/ getLeafStore(r)
      BY <3>1 DEF getLeafLoad, getLeafStore, Goto, TypeOK, Running
    <3>2. CASE Post(r)
      BY <3>2 DEF Post, Goto, TypeOK, Running
    <3> QED BY <1>1, <3>1, <3>2 DEF Handler
  <2>2. OneAtATime'
    BY <2>1 DEF OneAtATime
  <2>3. FlagFits'
    BY <2>1 DEF FlagFits, Running
  <2> QED BY <2>1, <2>2, <2>3
<1>2. ASSUME NEW r \in Reqs, Start(r) PROVE OneBaseInv'
  <2>1. /\ \A q \in Reqs : q # r => place'[q] = place[q]
        /\ place'[r] = "check" /\ place[r] = "posted"
        /\ UNCHANGED <<leaf, client, connected, held, open, closing, aborted>>
    BY <1>2 DEF Start, Goto, TypeOK
  <2>2. /\ \A q \in Reqs : place[q] \notin Running
        /\ \A b \in Bases : closing[b] = None
    <3>1. ~Busy(Base[r])
      BY <1>2 DEF Start
    <3>2. \A q \in Reqs : Base[q] = Base[r]
      BY DEF OneBase
    <3>3. ASSUME NEW b \in Bases, closing[b] # None PROVE b = Base[r]
      <4>1. closing[b] \in Channels
        BY <3>3 DEF TypeOK
      <4>2. closing[b][1] \in Reqs
        BY <4>1
      <4> QED BY <3>2, <3>3, <4>2 DEF OneAtATime
    <3> QED BY <3>1, <3>2, <3>3 DEF Busy
  <2>3. OneAtATime'
    BY <2>1, <2>2 DEF OneAtATime
  <2>4. FlagFits'
    BY <2>1, <2>2 DEF FlagFits, Running
  <2> QED BY <2>1, <2>3, <2>4
<1>3. ASSUME NEW r \in Reqs, place[r] \in Running,
             Function(r), ~Start(r)
      PROVE  OneBaseInv'
  <2>0. /\ leaf[r] \in Leafs
        /\ \A b \in Bases : closing[b] = None
        /\ \A q \in Reqs : place[q] \in Running => q = r
    BY <1>3 DEF OneAtATime, TypeOK
  <2>1. /\ \A q \in Reqs : q # r => /\ place'[q] = place[q] /\ leaf'[q] = leaf[q]
                                    /\ held'[q] = held[q]
        /\ closing' = closing
    BY <1>3 DEF Function, isConnected, ConnectAssert, ConnectMake, ConnectSet,
                getConnection, Call, Goto, TypeOK, serverVars
  <2>2. OneAtATime'
    BY <2>0, <2>1 DEF OneAtATime
  <2>3. CASE isConnected(r)
    <3>1. /\ place[r] = "check"
          /\ place'[r] = IF connected[leaf[r]] THEN "get" ELSE "assert"
          /\ UNCHANGED <<leaf, client, connected, held, open, aborted>>
      BY <2>3 DEF isConnected, Goto, TypeOK, serverVars
    <3>2. client[leaf[r]] # None <=> connected[leaf[r]]
      BY <2>0, <3>1 DEF FlagFits, Running
    <3>3. FlagFits'
      BY <2>0, <2>1, <3>1, <3>2 DEF FlagFits, Running
    <3> QED BY <2>2, <3>1, <3>3
  <2>4. CASE ConnectAssert(r)
    <3>1. /\ place[r] = "assert" /\ place'[r] = "make"
          /\ UNCHANGED <<leaf, client, connected, held, open>>
          /\ aborted' = IF client[leaf[r]] # None \/ connected[leaf[r]]
                        THEN "assert" ELSE "no"
      BY <2>4 DEF ConnectAssert, Goto, TypeOK
    <3>2. client[leaf[r]] = None /\ ~connected[leaf[r]]
      BY <3>1 DEF FlagFits
    <3>3. FlagFits'
      BY <2>0, <2>1, <3>1, <3>2 DEF FlagFits, Running
    <3> QED BY <2>2, <3>1, <3>2, <3>3
  <2>5. CASE ConnectMake(r)
    <3>1. place[r] = "make" /\ client[leaf[r]] = None /\ ~connected[leaf[r]]
      BY <2>5 DEF ConnectMake, FlagFits
    <3>2. /\ place'[r] = "set"
          /\ client' = [client EXCEPT ![leaf[r]] = <<r, leaf[r]>>]
          /\ open' = open \cup {<<r, leaf[r]>>}
          /\ UNCHANGED <<leaf, connected, held, aborted>>
      BY <2>5, <3>1 DEF ConnectMake, Goto, TypeOK
    <3>3. <<r, leaf[r]>> # None
      BY <2>0 DEF Channels
    <3>4. \A k \in Leafs : client'[k] = IF k = leaf[r] THEN <<r, leaf[r]>>
                                                       ELSE client[k]
      BY <2>0, <3>2 DEF TypeOK
    <3>5. FlagFits'
      BY <2>0, <2>1, <3>1, <3>2, <3>3, <3>4 DEF FlagFits, Running
    <3> QED BY <2>2, <3>2, <3>5
  <2>6. CASE ConnectSet(r)
    <3>1. /\ place[r] = "set" /\ place'[r] = "get"
          /\ UNCHANGED <<leaf, client, held, open, aborted>>
          /\ \A k \in Leafs : connected'[k] = IF k = leaf[r] THEN TRUE
                                                             ELSE connected[k]
      BY <2>0, <2>6 DEF ConnectSet, Goto, TypeOK
    <3>2. connected'[leaf[r]] /\ client[leaf[r]] # None
      BY <2>0, <3>1 DEF FlagFits
    <3>3. ASSUME NEW k \in Leafs
          PROVE  /\ connected'[k] => client[k] # None
                 /\ client[k] # None => client[k] \in open /\ connected'[k]
      <4>1. CASE k = leaf[r]
        BY <3>2, <4>1 DEF FlagFits
      <4>2. CASE k # leaf[r]
        <5>1. connected'[k] = connected[k]
          BY <3>1, <4>2, Zenon
        <5>2. connected[k] => client[k] # None
          BY <2>0 DEF FlagFits
        <5>3. client[k] # None => client[k] \in open /\ connected[k]
          BY <2>0, <3>1, <4>2 DEF FlagFits, Running
        <5> QED BY <5>1, <5>2, <5>3
      <4> QED BY <4>1, <4>2
    <3>4. \A q \in Reqs : q # r => place'[q] \notin Running
      BY <2>0, <2>1
    <3>5. FlagFits'
      BY <2>0, <2>1, <3>1, <3>2, <3>3, <3>4 DEF FlagFits, Running
    <3> QED BY <2>2, <3>1, <3>5
  <2>7. CASE getConnection(r)
    <3>1. /\ place[r] = "get" /\ place'[r] = "call"
          /\ UNCHANGED <<leaf, client, connected, open>>
          /\ held'[r] = client[leaf[r]]
          /\ aborted' = IF client[leaf[r]] = None THEN "assert" ELSE "no"
      BY <2>7 DEF getConnection, Goto, TypeOK
    <3>2. client[leaf[r]] # None
      BY <3>1 DEF FlagFits
    <3>3. FlagFits'
      BY <2>0, <2>1, <3>1, <3>2 DEF FlagFits, Running
    <3> QED BY <2>2, <3>1, <3>2, <3>3
  <2>8. CASE Call(r)
    <3>1. /\ place[r] = "call" /\ place'[r] \in {"check", "waiting"}
          /\ UNCHANGED <<client, connected, held, open>>
      BY <2>8 DEF Call, Goto, TypeOK
    <3>2. FlagFits'
      BY <2>0, <2>1, <3>1 DEF FlagFits, Running
    <3>3. held[r] \in open /\ held[r] \in Channels
      BY <2>0, <3>1 DEF FlagFits, TypeOK
    <3>4. held[r][1] \in Reqs
      BY <3>3
    <3>5. ~Unsafe(r)
      BY <3>3, <3>4 DEF Unsafe, OneBase
    <3>6. aborted' = "no"
      BY <2>8, <3>5 DEF Call, MakeCall
    <3> QED BY <2>2, <3>2, <3>6
  <2> QED BY <1>3, <2>3, <2>4, <2>5, <2>6, <2>7, <2>8 DEF Function
<1>4. ASSUME NEW r \in Reqs, Settle(r) PROVE OneBaseInv'
  <2>1. UNCHANGED <<place, leaf, client, connected, held, open, closing, aborted>>
    BY <1>4 DEF Settle, Execute, Receive
  <2> QED BY <2>1 DEF OneAtATime, FlagFits
<1>5. ASSUME NEW c \in Channels, channelClosed(c) PROVE OneBaseInv'
  <2> DEFINE b0 == Base[c[1]]
  <2>1. /\ UNCHANGED <<place, leaf, held, connected, aborted>>
        /\ b0 \in Bases /\ c[2] \in Leafs /\ c # None
        /\ \A b \in Bases : closing'[b] = IF b = b0 THEN c ELSE closing[b]
        /\ \A k \in Leafs : client'[k] = IF k = c[2] THEN None ELSE client[k]
        /\ open' = open \ {c, client[c[2]]}
    BY <1>5 DEF channelClosed, TypeOK
  <2>2. /\ \A q \in Reqs : place[q] \notin Running
        /\ \A b \in Bases : closing[b] = None
    <3>1. ~Busy(b0)
      BY <1>5 DEF channelClosed
    <3>2. \A q \in Reqs : Base[q] = b0
      BY DEF OneBase
    <3>3. ASSUME NEW b \in Bases, closing[b] # None PROVE b = b0
      <4>1. closing[b] \in Channels
        BY <3>3 DEF TypeOK
      <4>2. closing[b][1] \in Reqs
        BY <4>1
      <4> QED BY <3>2, <3>3, <4>2 DEF OneAtATime
    <3> QED BY <3>1, <3>2, <3>3 DEF Busy
  <2>3. OneAtATime'
    BY <2>1, <2>2 DEF OneAtATime
  <2>4. FlagFits'
    <3>1. ASSUME NEW k \in Leafs
          PROVE  /\ connected[k] => client'[k] # None \/ k = c[2]
                 /\ client'[k] # None => client'[k] \in open' /\ connected[k]
      <4>1. CASE k = c[2]
        BY <2>1, <4>1
      <4>2. CASE k # c[2]
        <5>1. client'[k] = client[k]
          BY <2>1, <4>2
        <5>2. connected[k] => client[k] # None
          BY <2>2 DEF FlagFits
        <5>3. client[k] # None => client[k] \in open /\ connected[k]
          BY <2>2 DEF FlagFits, Running
        <5>4. client[k] # None => client[k] # c /\ client[k] # client[c[2]]
          BY <2>1, <4>2 DEF ChannelsFit
        <5> QED BY <2>1, <5>1, <5>2, <5>3, <5>4
      <4> QED BY <4>1, <4>2
    <3>2. closing'[b0] = c /\ client'[c[2]] = None
      BY <2>1
    <3>3. \A b \in Bases : closing'[b] # None => closing'[b] = c
      BY <2>1, <2>2
    <3> QED BY <2>1, <2>2, <3>1, <3>2, <3>3 DEF FlagFits, Running
  <2> QED BY <2>1, <2>3, <2>4
<1>6. ASSUME NEW b \in Bases, setDisconnected(b) PROVE OneBaseInv'
  <2>1. /\ UNCHANGED <<place, leaf, held, client, open, aborted>>
        /\ closing[b] # None /\ closing[b] \in Channels /\ closing[b][2] \in Leafs
        /\ \A d \in Bases : closing'[d] = IF d = b THEN None ELSE closing[d]
        /\ \A k \in Leafs : connected'[k] = IF k = closing[b][2] THEN FALSE
                                                                 ELSE connected[k]
    BY <1>6 DEF setDisconnected, TypeOK
  <2>2. OneAtATime'
    BY <2>1 DEF OneAtATime
  <2>3. /\ \A q \in Reqs : place[q] \notin Running
        /\ \A d \in Bases : d # b => closing[d] = None
        /\ client[closing[b][2]] = None
    <3>1. \A d \in Bases : closing[d] # None =>
             closing[d][1] \in Reqs /\ d = Base[closing[d][1]]
      BY DEF OneAtATime, TypeOK
    <3> QED BY <2>1, <3>1 DEF OneAtATime, OneBase, FlagFits
  <2>4. ASSUME NEW k \in Leafs
        PROVE  /\ connected'[k] => client[k] # None
               /\ client[k] # None => client[k] \in open /\ connected'[k]
    <3>1. CASE k = closing[b][2]
      BY <2>1, <2>3, <3>1
    <3>2. CASE k # closing[b][2]
      <4>1. connected'[k] = connected[k]
        BY <2>1, <3>2, Zenon
      <4>2. connected[k] => client[k] # None
        BY <2>1, <2>3, <3>2 DEF FlagFits
      <4>3. client[k] # None => client[k] \in open /\ connected[k]
        BY <2>3 DEF FlagFits, Running
      <4> QED BY <4>1, <4>2, <4>3
    <3> QED BY <3>1, <3>2
  <2>5. FlagFits'
    BY <2>1, <2>3, <2>4 DEF FlagFits, Running
  <2> QED BY <2>1, <2>2, <2>5
<1>7. ASSUME UNCHANGED vars PROVE OneBaseInv'
  BY <1>7 DEF vars, serverVars, OneAtATime, FlagFits
<1>8. \A r \in Reqs : Function(r) => Start(r) \/ (place[r] \in Running /\ ~Start(r))
  BY DEF Function, isConnected, ConnectAssert, ConnectMake, ConnectSet,
         getConnection, Call, Running, Start
<1> HIDE DEF OneBaseInv
<1> QED
  BY <1>1, <1>2, <1>3, <1>4, <1>5, <1>6, <1>7, <1>8 DEF Next

\* The one-base invariant gives what the event base finds.
LEMMA OneBaseConsistent ==
    ServerInv /\ OneBaseInv => AssertsHold /\ LeafConsistent
<1> SUFFICES ASSUME ServerInv, OneBaseInv PROVE LeafConsistent
  BY DEF OneBaseInv, AssertsHold
<1> SUFFICES ASSUME NEW l \in Leafs
             PROVE  /\ (\A b \in Bases : ~Busy(b)) =>
                          (connected[l] <=> client[l] # None)
                    /\ client[l] # None => client[l] \in open
                    /\ \A r \in Reqs : place[r] = "call" /\ leaf[r] = l =>
                          held[r] = client[l] /\ held[r] \in open
  BY DEF LeafConsistent
<1>1. (\A b \in Bases : ~Busy(b)) => (connected[l] <=> client[l] # None)
  <2> SUFFICES ASSUME \A b \in Bases : ~Busy(b)
               PROVE  connected[l] <=> client[l] # None
    OBVIOUS
  <2>1. /\ \A b \in Bases : closing[b] = None
        /\ \A r \in Reqs : place[r] \notin Running
    BY Facts DEF Busy
  <2>2. connected[l] => client[l] # None
    BY <2>1 DEF OneBaseInv, FlagFits
  <2>3. client[l] # None => connected[l]
    BY <2>1 DEF OneBaseInv, FlagFits, Running
  <2> QED BY <2>2, <2>3
<1>2. client[l] # None => client[l] \in open
  BY DEF OneBaseInv, FlagFits
<1>3. \A r \in Reqs : place[r] = "call" /\ leaf[r] = l =>
         held[r] = client[l] /\ held[r] \in open
  BY <1>2 DEF OneBaseInv, FlagFits
<1> QED BY <1>1, <1>2, <1>3

(***************************************************************************)
(* With one event base the asserts of connect() and of its callers hold,   *)
(* whenever leafs close their channels and however requests arrive; nor    *)
(* does a call ever meet a channel that is gone or of another event base.  *)
(***************************************************************************)
THEOREM OneBaseAssertsHold ==
    ASSUME OneBase PROVE Spec => [](AssertsHold /\ aborted = "no")
<1>1. Init => OneBaseInv
  BY OneBaseInit
<1>2. ServerInv /\ ServerInv' /\ OneBaseInv /\ [Next]_vars => OneBaseInv'
  BY OneBaseStep
<1>3. ServerInv /\ OneBaseInv => AssertsHold /\ aborted = "no"
  BY OneBaseConsistent DEF OneBaseInv
<1> QED BY <1>1, <1>2, <1>3, ServerCorrect, PTL DEF Spec

(***************************************************************************)
(* With one event base a leaf's flag, pointer and channel agree whenever   *)
(* the event base looks, and a call is never made on a dead channel.       *)
(***************************************************************************)
THEOREM OneBaseLeafConsistent ==
    ASSUME OneBase PROVE Spec => []LeafConsistent
<1>1. Init => OneBaseInv
  BY OneBaseInit
<1>2. ServerInv /\ ServerInv' /\ OneBaseInv /\ [Next]_vars => OneBaseInv'
  BY OneBaseStep
<1>3. ServerInv /\ OneBaseInv => LeafConsistent
  BY OneBaseConsistent
<1> QED BY <1>1, <1>2, <1>3, ServerCorrect, PTL DEF Spec
=============================================================================
