---------------------------- MODULE WangleProofs ----------------------------
(***************************************************************************)
(* Proofs about the wangle client: for every number of requests and sizes, *)
(* however answers, timeouts and the end of the server interleave.         *)
(***************************************************************************)
EXTENDS Wangle, FiniteSetTheorems, TLAPS

\* What is true of the constants and the counters.
LEMMA Numbers ==
    TypeOK => /\ Sizes \in Nat /\ Sizes >= 1 /\ MaxSeq \in Nat
              /\ seq \in Nat /\ seq <= MaxSeq
              /\ count \in Nat /\ size \in Nat /\ readId \in Nat
  BY WangleAssumption DEF TypeOK

\* timedOut is finite and holds at most all requests.
LEMMA TimedOutFinite ==
    ASSUME TypeOK, MainFits
    PROVE  /\ IsFiniteSet(timedOut)
           /\ Cardinality(timedOut) \in Nat
           /\ Cardinality(timedOut) <= seq
           /\ Cardinality(timedOut) = seq => timedOut = 1 .. seq
<1>1. seq \in Nat
  BY Numbers
<1>2. timedOut \in SUBSET (1 .. seq)
  BY DEF MainFits
<1>3. IsFiniteSet(1 .. seq) /\ Cardinality(1 .. seq) = seq
  BY <1>1, FS_Interval
<1>4. /\ IsFiniteSet(timedOut)
      /\ Cardinality(timedOut) <= Cardinality(1 .. seq)
      /\ Cardinality(1 .. seq) = Cardinality(timedOut) => 1 .. seq = timedOut
  BY <1>2, <1>3, FS_Subset
<1>5. Cardinality(timedOut) \in Nat
  BY <1>4, FS_CardinalityType
<1> QED BY <1>3, <1>4, <1>5

\* The invariant holds before the first request.
LEMMA WangleInit == Init => WangleInv
<1> SUFFICES ASSUME Init PROVE WangleInv
  OBVIOUS
<1> USE WangleAssumption DEF Init
<1>1. TypeOK
  <2>1. /\ requests \in SUBSET Ids /\ lost \in SUBSET Ids /\ erasing \in BOOLEAN
        /\ answers \in SUBSET Ids /\ armed \in SUBSET Ids
        /\ timedOut \in SUBSET Ids /\ \A msg \in sent : msg.reqId \in Ids
    OBVIOUS
  <2>2. /\ size \in 1 .. Sizes + 1 /\ seq \in 0 .. MaxSeq
        /\ readId \in 0 .. MaxSeq /\ count \in 0 .. MaxSeq
    OBVIOUS
  <2> QED BY <2>1, <2>2 DEF TypeOK
<1>5. RequestsExact
  BY DEF RequestsExact
<1>2. CountExact
  BY FS_EmptySet DEF CountExact
<1>3. AbortsOnlyAfterTimeout /\ OpenInFlight /\ OneCopy
  BY DEF AbortsOnlyAfterTimeout, OpenInFlight, OneCopy
<1>4. MainFits
  BY DEF MainFits
<1> QED BY <1>1, <1>2, <1>3, <1>4, <1>5 DEF WangleInv

\* A new request.
LEMMA RequestStep == WangleInv /\ Request => WangleInv'
<1> SUFFICES ASSUME WangleInv, Request PROVE WangleInv'
  OBVIOUS
<1> USE DEF WangleInv
<1>1. /\ seq \in Nat /\ seq < MaxSeq /\ MaxSeq \in Nat /\ seq' = seq + 1
      /\ seq + 1 \in Ids
      /\ fut = "none" /\ main = "test" /\ main' = "wait" /\ fut' = "pending"
  BY Numbers DEF Request, MainFits, Ids
<1>2. timedOut' = timedOut /\ answers' = answers /\ readAt' = readAt /\ readId' = readId
  BY DEF Request, reader
<1>3. \/ sent' = sent
      \/ sent' = sent \cup {NewMessage(seq + 1, size)}
  BY <1>1 DEF Request
<1>4. NewMessage(seq + 1, size).reqId = seq + 1
  BY DEF NewMessage
<1>5. \A id \in timedOut : id <= seq
  BY <1>1 DEF MainFits
<1>6. seq + 1 \notin timedOut
  BY <1>1, <1>5
<1>7. requests = {} /\ lost \subseteq Ids
  BY <1>1 DEF RequestsExact, running, TypeOK
<1>8. /\ \A msg \in sent : msg.reqId \in timedOut
      /\ \A id \in answers : id \in timedOut
      /\ readAt # "idle" => readId \in timedOut
  BY <1>1 DEF OpenInFlight, Open
<1>9. TypeOK'
  <2>1. \A msg \in sent' : msg.reqId \in Ids
    BY <1>1, <1>3, <1>4 DEF TypeOK
  <2>2. /\ seq' \in 0 .. MaxSeq /\ requests' \in SUBSET Ids
        /\ armed' \in SUBSET Ids /\ lost' \in SUBSET Ids /\ erasing' = erasing
    BY <1>1 DEF Request, TypeOK
  <2> QED BY <1>1, <1>2, <2>1, <2>2 DEF Request, TypeOK
<1>10. RequestsExact'
  <2>1. ~(readAt' = "moved" /\ readId' = seq')
    BY <1>1, <1>2, <1>6, <1>8
  <2>2. running /\ \A id \in lost : id \in Ids /\ \E n \in timedOut : n < id
    BY <1>1 DEF RequestsExact, running, TypeOK
  <2>3. seq + 1 \notin lost
    <3>1. \A id \in lost : id \in 1 .. seq
      BY DEF MainFits
    <3> QED BY <1>1, <3>1
  <2>4. CASE requests' = {seq'} /\ lost' = lost
    BY <1>1, <1>2, <2>1, <2>2, <2>3, <2>4 DEF RequestsExact
  <2>5. CASE erasing /\ requests' = {} /\ lost' = lost \cup {seq'}
    <3>1. PICK n \in timedOut : TRUE
      BY <2>5 DEF MainFits
    <3>2. n < seq'
      BY <1>1, <1>5, <3>1 DEF MainFits
    <3> QED BY <1>1, <1>2, <2>2, <2>5, <3>2 DEF RequestsExact
  <2> QED BY <1>7, <2>4, <2>5 DEF Request
<1>11. CountExact'
  BY <1>1, <1>2 DEF Request, CountExact
<1>12. AbortsOnlyAfterTimeout'
  BY <1>1 DEF Request, MainFits, AbortsOnlyAfterTimeout
<1>13. OpenInFlight'
  BY <1>1, <1>2, <1>3, <1>4, <1>8 DEF OpenInFlight, Open
<1>14. OneCopy'
  <2>1. \A msg \in sent : msg.reqId # seq + 1
    BY <1>6, <1>8
  <2>2. seq + 1 \notin answers /\ (readAt # "idle" => readId # seq + 1)
    BY <1>6, <1>8
  <2> QED BY <1>2, <1>3, <1>4, <2>1, <2>2 DEF OneCopy
<1>15. MainFits'
  <2>1. timedOut' \subseteq 1 .. seq'
    BY <1>1, <1>2 DEF MainFits
  <2>2. seq' \in Ids /\ seq' \notin timedOut'
    BY <1>1, <1>2, <1>6
  <2>4. lost' \subseteq lost \cup {seq'} /\ erasing' = erasing
    BY DEF Request
  <2>5. lost' \subseteq 1 .. seq'
    BY <1>1, <2>4 DEF MainFits
  <2>3. size' = size /\ size <= Sizes
    BY <1>1 DEF Request, MainFits
  <2> QED BY <1>1, <1>2, <2>1, <2>2, <2>3, <2>4, <2>5 DEF Request, MainFits
<1> QED BY <1>9, <1>10, <1>11, <1>12, <1>13, <1>14, <1>15 DEF WangleInv

\* The wait of main ends.
LEMMA WaitedStep == WangleInv /\ Waited => WangleInv'
<1> SUFFICES ASSUME WangleInv, Waited PROVE WangleInv'
  OBVIOUS
<1> USE DEF WangleInv, Waited, remote, reader, table
<1>1. TypeOK'
  BY DEF TypeOK
<1>2. RequestsExact'
  BY DEF RequestsExact, running
<1>3. CountExact'
  BY DEF CountExact
<1>4. AbortsOnlyAfterTimeout' /\ MainFits'
  BY DEF AbortsOnlyAfterTimeout, MainFits
<1>5. OpenInFlight' /\ OneCopy'
  BY DEF OpenInFlight, Open, OneCopy
<1> QED BY <1>1, <1>2, <1>3, <1>4, <1>5

\* The next size, or the division by zero.
LEMMA NextSizeStep == WangleInv /\ NextSize => WangleInv'
<1> SUFFICES ASSUME WangleInv, NextSize PROVE WangleInv'
  OBVIOUS
<1> USE DEF WangleInv, remote, reader, table
<1>1. main = "test" /\ fut = "none" /\ cause = "none" /\ size <= Sizes
  BY DEF NextSize, MainFits
<1>2. UNCHANGED <<seq, requests, erasing, lost, fut, readAt, readId, sent,
                  answers, server, armed, timedOut, count>>
  BY DEF NextSize
<1>3. OpenInFlight' /\ OneCopy' /\ CountExact'
  BY <1>2 DEF OpenInFlight, Open, OneCopy, CountExact
<1>4. CASE count = 0
  <2>1. main' = "aborted" /\ cause' = "division" /\ size' = size
    BY <1>4 DEF NextSize, Abort
  <2>2. Cardinality(timedOut) = seq
    BY <1>1, <1>4, Numbers, TimedOutFinite DEF CountExact
  <2>3. timedOut = 1 .. seq
    BY <2>2, TimedOutFinite
  <2>4. AbortsOnlyAfterTimeout'
    BY <1>2, <2>1, <2>3 DEF AbortsOnlyAfterTimeout
  <2>5. TypeOK'
    BY <1>2, <2>1 DEF TypeOK
  <2>6. RequestsExact' /\ MainFits'
    BY <1>2, <2>1 DEF RequestsExact, running, MainFits
  <2> QED BY <1>3, <2>4, <2>5, <2>6
<1>5. CASE count # 0
  <2>1. /\ size' = size + 1 /\ cause' = "none"
        /\ main' = IF size = Sizes THEN "done" ELSE "test"
    BY <1>1, <1>5 DEF NextSize
  <2>2. size' \in 1 .. Sizes + 1 /\ (main' = "test" => size' <= Sizes)
    BY <1>1, <2>1, Numbers DEF TypeOK
  <2>3. TypeOK'
    BY <1>2, <2>1, <2>2 DEF TypeOK
  <2>4. RequestsExact'
    BY <1>1, <1>2, <2>1 DEF RequestsExact, running
  <2>5. AbortsOnlyAfterTimeout'
    BY <2>1 DEF AbortsOnlyAfterTimeout
  <2>6. MainFits'
    BY <1>1, <1>2, <2>1, <2>2 DEF MainFits
  <2> QED BY <1>3, <2>3, <2>4, <2>5, <2>6
<1> QED BY <1>4, <1>5

\* An answer arrives, and is found or fails the CHECK.
LEMMA ReadFindStep == WangleInv /\ ReadFind => WangleInv'
<1> SUFFICES ASSUME WangleInv, ReadFind PROVE WangleInv'
  OBVIOUS
<1> USE DEF WangleInv, remote, reader, table
<1>1. UNCHANGED <<size, seq, requests, erasing, lost, fut, sent, armed, timedOut,
                  count, server>>
  BY DEF ReadFind
<1>2. running /\ readAt = "idle" /\ cause = "none"
  BY DEF ReadFind, MainFits, running
<1>3. PICK id \in answers :
        /\ answers' = answers \ {id}
        /\ IF id \in requests
           THEN /\ readAt' = "found" /\ readId' = id
                /\ UNCHANGED <<main, cause>>
           ELSE Abort("check") /\ UNCHANGED <<readAt, readId>>
  BY DEF ReadFind
<1>4. id \in Ids /\ Open(id) /\ \A msg \in sent : msg.reqId # id
  BY DEF TypeOK, OpenInFlight, OneCopy
<1>5. CountExact'
  BY <1>1 DEF CountExact
<1>6. CASE id \in requests
  <2>1. TypeOK'
    BY <1>1, <1>3, <1>4, <1>6 DEF TypeOK, Ids
  <2>2. RequestsExact'
    BY <1>1, <1>2, <1>3, <1>6 DEF RequestsExact, running
  <2>3. AbortsOnlyAfterTimeout' /\ MainFits'
    BY <1>1, <1>3, <1>6 DEF AbortsOnlyAfterTimeout, MainFits
  <2>4. OpenInFlight'
    BY <1>1, <1>3, <1>4, <1>6 DEF OpenInFlight, Open
  <2>5. OneCopy'
    BY <1>1, <1>3, <1>4, <1>6 DEF OneCopy
  <2> QED BY <1>5, <2>1, <2>2, <2>3, <2>4, <2>5
<1>7. CASE id \notin requests
  <2>1. main' = "aborted" /\ cause' = "check" /\ readAt' = readAt /\ readId' = readId
    BY <1>3, <1>7 DEF Abort
  <2>2. timedOut # {}
    BY <1>2, <1>4, <1>7 DEF RequestsExact, Open
  <2>3. TypeOK'
    BY <1>1, <1>3, <2>1 DEF TypeOK
  <2>4. RequestsExact'
    BY <2>1 DEF RequestsExact, running
  <2>5. AbortsOnlyAfterTimeout' /\ MainFits'
    BY <1>1, <2>1, <2>2 DEF AbortsOnlyAfterTimeout, MainFits
  <2>6. OpenInFlight' /\ OneCopy'
    BY <1>1, <1>3, <2>1 DEF OpenInFlight, Open, OneCopy
  <2> QED BY <1>5, <2>3, <2>4, <2>5, <2>6
<1> QED BY <1>6, <1>7

\* The promise is moved and erased, unless a timer was faster.
LEMMA ReadMoveStep == WangleInv /\ ReadMove => WangleInv'
<1> SUFFICES ASSUME WangleInv, ReadMove PROVE WangleInv'
  OBVIOUS
<1> USE DEF WangleInv, remote, reader, table
<1>1. UNCHANGED <<readId, size, seq, erasing, lost, fut, sent, answers, server,
                  armed, timedOut, count>>
  BY DEF ReadMove
<1>2. running /\ readAt = "found" /\ Open(readId)
  BY DEF ReadMove, OpenInFlight
<1>3. CountExact'
  BY <1>1 DEF CountExact
<1>4. CASE readId \in requests
  <2>1. /\ readAt' = "moved" /\ requests' = requests \ {readId}
        /\ UNCHANGED <<main, cause>>
    BY <1>4 DEF ReadMove
  <2>2. TypeOK'
    BY <1>1, <2>1 DEF TypeOK
  <2>3. RequestsExact'
    BY <1>1, <1>2, <1>4, <2>1 DEF RequestsExact, running
  <2>4. AbortsOnlyAfterTimeout' /\ MainFits'
    BY <1>1, <2>1 DEF AbortsOnlyAfterTimeout, MainFits
  <2>5. OpenInFlight' /\ OneCopy'
    BY <1>1, <1>2, <2>1 DEF OpenInFlight, Open, OneCopy
  <2> QED BY <1>3, <2>2, <2>3, <2>4, <2>5
<1>5. CASE readId \notin requests
  <2>1. /\ main' = "aborted" /\ cause' = "erased"
        /\ UNCHANGED <<readAt, requests>>
    BY <1>5 DEF ReadMove, Abort
  <2>2. timedOut # {}
    BY <1>2, <1>5 DEF RequestsExact, Open
  <2>3. TypeOK'
    BY <1>1, <2>1 DEF TypeOK
  <2>4. RequestsExact'
    BY <2>1 DEF RequestsExact, running
  <2>5. AbortsOnlyAfterTimeout' /\ MainFits'
    BY <1>1, <2>1, <2>2 DEF AbortsOnlyAfterTimeout, MainFits
  <2>6. OpenInFlight' /\ OneCopy'
    BY <1>1, <2>1 DEF OpenInFlight, Open, OneCopy
  <2> QED BY <1>3, <2>3, <2>4, <2>5, <2>6
<1> QED BY <1>4, <1>5

\* The future gets its value, unless it has timed out.
LEMMA SetValueStep == WangleInv /\ SetValue => WangleInv'
<1> SUFFICES ASSUME WangleInv, SetValue PROVE WangleInv'
  OBVIOUS
<1> USE DEF WangleInv, remote, reader, table
<1>1. /\ UNCHANGED <<readId, main, size, seq, requests, erasing, lost, sent,
                     answers, server, armed, timedOut, cause>>
      /\ readAt = "moved" /\ readAt' = "idle" /\ running
  BY DEF SetValue
<1>2. AbortsOnlyAfterTimeout' /\ OneCopy'
  BY <1>1 DEF AbortsOnlyAfterTimeout, OneCopy
<1>3. CASE readId = seq /\ fut = "pending"
  <2>1. fut' = "value" /\ count' = count + 1
    BY <1>3 DEF SetValue
  <2>2. seq \in Nat /\ count \in Nat /\ Cardinality(timedOut) \in Nat
    BY Numbers, TimedOutFinite
  <2>3. count + Cardinality(timedOut) = seq - 1
    BY <1>3 DEF CountExact
  <2>4. count + 1 + Cardinality(timedOut) = seq
    BY <2>2, <2>3
  <2>5. CountExact'
    BY <1>1, <2>1, <2>4 DEF CountExact
  <2>6. count + 1 \in 0 .. MaxSeq
    BY <2>2, <2>4, Numbers
  <2>7. TypeOK'
    BY <1>1, <2>1, <2>6 DEF TypeOK
  <2>8. RequestsExact'
    BY <1>1, <1>3, <2>1 DEF RequestsExact, running
  <2>9. \A id \in answers : id # seq
    BY <1>1, <1>3 DEF OneCopy
  <2>10. \A msg \in sent : msg.reqId # seq
    BY <1>1, <1>3 DEF OneCopy
  <2>11. OpenInFlight'
    BY <1>1, <2>9, <2>10 DEF OpenInFlight, Open
  <2>12. MainFits'
    BY <1>1, <1>3, <2>1 DEF MainFits
  <2> QED BY <1>2, <2>5, <2>7, <2>8, <2>11, <2>12
<1>4. CASE ~(readId = seq /\ fut = "pending")
  <2>1. UNCHANGED <<fut, count>>
    BY <1>4 DEF SetValue
  <2>2. TypeOK' /\ CountExact'
    BY <1>1, <2>1 DEF TypeOK, CountExact
  <2>3. RequestsExact'
    BY <1>1, <1>4, <2>1 DEF RequestsExact, running
  <2>4. OpenInFlight' /\ MainFits'
    BY <1>1, <2>1 DEF OpenInFlight, Open, MainFits
  <2> QED BY <1>2, <2>2, <2>3, <2>4
<1> QED BY <1>3, <1>4

\* A timer fires.
LEMMA TimerStep == WangleInv /\ Timer => WangleInv'
<1> SUFFICES ASSUME WangleInv, Timer PROVE WangleInv'
  OBVIOUS
<1> USE DEF WangleInv, remote, reader, table
<1>1. /\ UNCHANGED <<main, size, seq, lost, readAt, readId, sent, answers, server,
                     count, cause>>
      /\ running
  BY DEF Timer
<1>2. PICK id \in armed :
        /\ armed' = armed \ {id}
        /\ IF id = seq /\ fut = "pending"
           THEN /\ requests' = requests \ {id}
                /\ erasing' = (id \in requests)
                /\ fut' = "failed"
                /\ timedOut' = timedOut \cup {id}
           ELSE UNCHANGED <<requests, erasing, fut, timedOut>>
  BY DEF Timer
<1>3. OneCopy' /\ armed' \subseteq Ids
  BY <1>1, <1>2 DEF OneCopy, TypeOK
<1>4. CASE id = seq /\ fut = "pending"
  <2>1. /\ requests' = requests \ {seq} /\ fut' = "failed"
        /\ timedOut' = timedOut \cup {seq} /\ erasing' \in BOOLEAN
    BY <1>2, <1>4
  <2>2. /\ seq \in Ids /\ seq \notin timedOut /\ seq \in Nat /\ seq >= 1
        /\ count \in Nat /\ Cardinality(timedOut) \in Nat
    BY <1>4, Numbers, TimedOutFinite DEF MainFits, Ids
  <2>3. Cardinality(timedOut') = Cardinality(timedOut) + 1
    BY <2>1, <2>2, TimedOutFinite, FS_AddElement
  <2>4. count + Cardinality(timedOut) = seq - 1
    BY <1>4 DEF CountExact
  <2>5. CountExact'
    BY <1>1, <2>1, <2>2, <2>3, <2>4 DEF CountExact
  <2>6. TypeOK'
    BY <1>1, <1>3, <2>1, <2>2 DEF TypeOK
  <2>7. RequestsExact'
    BY <1>1, <2>1 DEF RequestsExact, running
  <2>8. AbortsOnlyAfterTimeout'
    BY <1>1 DEF AbortsOnlyAfterTimeout, MainFits, running
  <2>9. OpenInFlight'
    BY <1>1, <2>1 DEF OpenInFlight, Open
  <2>10. MainFits'
    <3>1. timedOut' # {} /\ timedOut' \subseteq 1 .. seq'
      BY <1>1, <2>1, <2>2 DEF MainFits
    <3> QED BY <1>1, <1>4, <2>1, <2>2, <3>1 DEF MainFits
  <2> QED BY <1>3, <2>5, <2>6, <2>7, <2>8, <2>9, <2>10
<1>5. CASE ~(id = seq /\ fut = "pending")
  <2>1. UNCHANGED <<requests, erasing, fut, timedOut>>
    BY <1>2, <1>5
  <2>2. TypeOK' /\ CountExact' /\ RequestsExact'
    BY <1>1, <1>3, <2>1 DEF TypeOK, CountExact, RequestsExact, running
  <2>3. AbortsOnlyAfterTimeout' /\ OpenInFlight' /\ MainFits'
    BY <1>1, <2>1 DEF AbortsOnlyAfterTimeout, OpenInFlight, Open, MainFits
  <2> QED BY <1>3, <2>2, <2>3
<1> QED BY <1>4, <1>5

\* The erase ends, or another thread has changed the table meanwhile.
LEMMA EraseStep == WangleInv /\ (EraseEnd \/ TableRace) => WangleInv'
<1> SUFFICES ASSUME WangleInv, EraseEnd \/ TableRace PROVE WangleInv'
  OBVIOUS
<1> USE DEF WangleInv, remote, reader, table
<1>1. UNCHANGED <<size, seq, requests, lost, fut, readAt, readId, sent, answers,
                  server, armed, timedOut, count>>
  BY DEF EraseEnd, TableRace
<1>2. /\ erasing /\ erasing' \in BOOLEAN
      /\ \/ UNCHANGED <<main, cause>>
         \/ main' = "aborted" /\ cause' = "race"
  BY DEF EraseEnd, TableRace, Abort, TypeOK
<1>3. OpenInFlight' /\ OneCopy' /\ CountExact'
  BY <1>1 DEF OpenInFlight, Open, OneCopy, CountExact
<1>4. timedOut # {}
  BY <1>2 DEF MainFits
<1>5. TypeOK'
  BY <1>1, <1>2 DEF TypeOK
<1>6. RequestsExact'
  BY <1>1, <1>2 DEF RequestsExact, running
<1>7. AbortsOnlyAfterTimeout' /\ MainFits'
  BY <1>1, <1>2, <1>4 DEF AbortsOnlyAfterTimeout, MainFits
<1> QED BY <1>3, <1>5, <1>6, <1>7

\* The server answers a message, or goes down.
LEMMA ServeStep == WangleInv /\ Serve => WangleInv'
<1> SUFFICES ASSUME WangleInv, Serve PROVE WangleInv'
  OBVIOUS
<1> USE DEF WangleInv, remote, reader, table
<1>1. UNCHANGED <<main, size, seq, requests, erasing, lost, fut, readAt, readId,
                  armed, timedOut, count, cause>>
  BY DEF Serve
<1>2. PICK msg \in sent :
        \/ /\ sent' = sent \ {msg}
           /\ answers' = answers \cup {msg.reqId}
           /\ UNCHANGED server
        \/ /\ server' = "down"
           /\ sent' = {}
           /\ UNCHANGED answers
  BY DEF Serve
<1>3. RequestsExact' /\ CountExact' /\ AbortsOnlyAfterTimeout' /\ MainFits'
  BY <1>1 DEF RequestsExact, running, CountExact, AbortsOnlyAfterTimeout, MainFits
<1>4. TypeOK'
  BY <1>1, <1>2 DEF TypeOK
<1>5. OpenInFlight'
  BY <1>1, <1>2 DEF OpenInFlight, Open
<1>6. OneCopy'
  BY <1>1, <1>2 DEF OneCopy
<1> QED BY <1>3, <1>4, <1>5, <1>6

\* Every step keeps the invariant.
LEMMA WangleNext == WangleInv /\ [Next]_vars => WangleInv'
<1> SUFFICES ASSUME WangleInv, [Next]_vars PROVE WangleInv'
  OBVIOUS
<1>1. CASE Next
  BY <1>1, RequestStep, WaitedStep, NextSizeStep, ReadFindStep, ReadMoveStep,
     SetValueStep, TimerStep, EraseStep, ServeStep
     DEF Next, Main, Read, Timekeeper
<1>2. CASE UNCHANGED vars
  BY <1>2 DEF vars, WangleInv, TypeOK, RequestsExact, running, CountExact,
     AbortsOnlyAfterTimeout, OpenInFlight, Open, OneCopy, MainFits
<1> QED BY <1>1, <1>2

\* The invariant holds always.
THEOREM WangleCorrect == Spec => []WangleInv
  BY WangleInit, WangleNext, PTL DEF Spec

\* Every variable keeps its type; in particular every size is one of the
\* list, and no more answers are counted than requests were made.
THEOREM WangleTypeCorrect == Spec => []TypeOK
<1>1. WangleInv => TypeOK
  BY DEF WangleInv
<1> QED BY <1>1, WangleCorrect, PTL

\* requests_ holds exactly the promise main waits for, although three
\* threads change it without a lock; only an insert that met an unfinished
\* erase, after a timeout, can be missing.
THEOREM RequestsCorrect == Spec => []RequestsExact
<1>1. WangleInv => RequestsExact
  BY DEF WangleInv
<1> QED BY <1>1, WangleCorrect, PTL

\* Each request is counted once or has timed out.
THEOREM CountCorrect == Spec => []CountExact
<1>1. WangleInv => CountExact
  BY DEF WangleInv
<1> QED BY <1>1, WangleCorrect, PTL

\* The CHECK of read, the erased promise, the race on the table and the
\* division by zero only come after timeouts.
THEOREM AbortsCorrect == Spec => []AbortsOnlyAfterTimeout
<1>1. WangleInv => AbortsOnlyAfterTimeout
  BY DEF WangleInv
<1> QED BY <1>1, WangleCorrect, PTL
=============================================================================
