-------------------------- MODULE StorageMainProofs --------------------------
(***************************************************************************)
(* Proofs about the programs around the client threads: for any number of  *)
(* clients and commands, whenever threads start and the dump thread runs,  *)
(* the StatsCollector's asserts hold and it outlives whoever uses it.      *)
(***************************************************************************)
EXTENDS StorageMain, SequenceTheorems, FiniteSetTheorems,
        WellFoundedInduction, TLAPS

\* The invariant holds when main starts.
LEMMA MainInit == Init => MainInv
<1> SUFFICES ASSUME Init PROVE MainInv
  OBVIOUS
<1> USE MainAssumption DEF Init
<1>0. TypeOK
  BY DEF TypeOK, MainPlaces, ClientPlaces, Clients
<1>1. IdsFit
  BY DEF IdsFit, started
<1>2. StatsFit
  BY DEF StatsFit
<1>3. EndFits
  BY DEF EndFits
<1> QED BY <1>0, <1>1, <1>2, <1>3 DEF MainInv

\* Steps that leave the client threads and the StatsCollector alone.
LEMMA QuietStep ==
    ASSUME MainInv, UNCHANGED <<program, clients, collector>>,
           main' \in MainPlaces \ {"joining", "exited", "asserted"},
           main # "exited"
    PROVE  MainInv'
<1>1. UNCHANGED <<program, client_id, client, id, stats, alive, dumper>>
  BY DEF clients, collector
<1>0. TypeOK'
  BY <1>1 DEF MainInv, TypeOK
<1>2. IdsFit'
  BY <1>1 DEF MainInv, IdsFit, started
<1>3. StatsFit'
  BY <1>1 DEF MainInv, StatsFit
<1>4. EndFits'
  BY <1>1 DEF MainInv, EndFits
<1> QED BY <1>0, <1>2, <1>3, <1>4 DEF MainInv

\* Reading and splitting a text, and the list of leafs.
LEMMA ParsingStep == MainInv /\ (ReadText \/ Split \/ ParseLeafs) => MainInv'
<1> SUFFICES ASSUME MainInv, ReadText \/ Split \/ ParseLeafs PROVE MainInv'
  OBVIOUS
<1>1. UNCHANGED <<program, clients, collector>>
  BY DEF ReadText, Split, ParseLeafs
<1>2. main \in {"read", "split", "parse"}
  BY DEF ReadText, Split, ParseLeafs
<1>3. main' \in {"split", "parse", "obey", "serving", "terminated"}
  <2>1. CASE ReadText
    BY <2>1 DEF ReadText
  <2>2. CASE Split
    <3>1. main = "split" /\ (SplitNext \/ splitNext \/ SplitTail)
      BY <2>2 DEF Split
    <3> QED BY <3>1 DEF SplitNext, splitNext, SplitTail
  <2>3. CASE ParseLeafs
    BY <2>3 DEF ParseLeafs
  <2> QED BY <2>1, <2>2, <2>3
<1> QED BY <1>1, <1>2, <1>3, QuietStep DEF MainPlaces

\* A new client has an id that no thread has, and no entry in stats_ yet.
LEMMA AddStep ==
    ASSUME MainInv, AddClient, UNCHANGED <<program, collector>>,
           main = "obey", main' = "read"
    PROVE  MainInv'
<1>1. UNCHANGED <<stats, alive, dumper>>
  BY DEF collector
<1>2. PICK c \in Clients :
          /\ client[c] = "none" /\ c = client_id + 1
          /\ client_id' = c
          /\ client' = [client EXCEPT ![c] = "started"]
          /\ id' = [id EXCEPT ![c] = c]
  BY DEF AddClient
<1>3. c \in Nat /\ c \in 0 .. MaxClients
  BY MainAssumption DEF Clients
<1>4. /\ client \in [Clients -> ClientPlaces]
      /\ client' \in [Clients -> ClientPlaces]
      /\ id' \in [Clients -> 0 .. MaxClients]
  BY <1>2, <1>3 DEF MainInv, TypeOK, ClientPlaces
<1>5. \A d \in Clients :
          /\ d = c => client'[d] = "started" /\ id'[d] = c
          /\ d # c => client'[d] = client[d] /\ id'[d] = id[d]
  BY <1>2, <1>3 DEF MainInv, TypeOK
<1>6. \A d \in started' : id'[d] = d /\ d <= client_id'
  <2> SUFFICES ASSUME NEW d \in started' PROVE id'[d] = d /\ d <= client_id'
    OBVIOUS
  <2>1. d \in Clients /\ d \in Nat /\ client'[d] # "none"
    BY MainAssumption DEF started, Clients
  <2>2. CASE d = c
    BY <2>1, <2>2, <1>2, <1>3, <1>5
  <2>3. CASE d # c
    <3>1. d \in started
      BY <2>1, <2>3, <1>5 DEF started
    <3> QED BY <3>1, <2>1, <2>3, <1>2, <1>3, <1>5 DEF MainInv, TypeOK, IdsFit
  <2> QED BY <2>2, <2>3
<1>7. TypeOK' /\ IdsFit'
  <2>1. TypeOK'
    BY <1>1, <1>2, <1>3, <1>4 DEF MainInv, TypeOK, MainPlaces
  <2> QED BY <2>1, <1>6 DEF IdsFit
<1>8. StatsFit'
  BY <1>1, <1>2, <1>5 DEF MainInv, StatsFit
<1>9. EndFits'
  BY <1>1 DEF MainInv, EndFits
<1> QED BY <1>7, <1>8, <1>9 DEF MainInv

\* A command is obeyed.
LEMMA ObeyStep == MainInv /\ Obey => MainInv'
<1> SUFFICES ASSUME MainInv, Obey PROVE MainInv'
  OBVIOUS
<1>1. /\ main = "obey" /\ UNCHANGED <<program, collector>>
      /\ \/ main' \in {"quit", "read"} /\ UNCHANGED clients
         \/ main' = "read" /\ AddClient
  BY DEF Obey
<1>2. CASE main' \in {"quit", "read"} /\ UNCHANGED clients
  BY <1>1, <1>2, QuietStep DEF MainPlaces
<1>3. CASE main' = "read" /\ AddClient
  BY <1>1, <1>3, AddStep
<1> QED BY <1>1, <1>2, <1>3

\* main leaves its scope after quit.
LEMMA LeaveStep == MainInv /\ (LeaveScope \/ Joined) => MainInv'
<1> SUFFICES ASSUME MainInv, LeaveScope \/ Joined PROVE MainInv'
  OBVIOUS
<1>1. UNCHANGED <<program, client_id, client, id, stats, dumper>>
  BY DEF LeaveScope, Joined, clients
<1>2. IdsFit' /\ StatsFit' /\ started' = started
  BY <1>1 DEF MainInv, IdsFit, StatsFit, started
<1>4. TypeOK'
  <2>1. main' \in {"terminated", "joining", "exited"}
    BY DEF LeaveScope, Joined
  <2> QED BY <1>1, <2>1 DEF MainInv, TypeOK, MainPlaces
<1>3. EndFits'
  <2>1. CASE LeaveScope
    BY <2>1, <1>1, <1>2 DEF LeaveScope, MainInv, EndFits
  <2>2. CASE Joined
    BY <2>2, <1>1, <1>2 DEF Joined, MainInv, EndFits
  <2> QED BY <2>1, <2>2
<1> QED BY <1>2, <1>3, <1>4 DEF MainInv

\* A client thread that has not added itself has an id that is not in stats_.
LEMMA ClientIds ==
    ASSUME MainInv, NEW c \in Clients
    PROVE  /\ client[c] = "started" => id[c] = c /\ c \notin DOMAIN stats
           /\ client[c] = "running" => id[c] = c /\ c \in DOMAIN stats
<1>1. client[c] # "none" => id[c] = c
  BY DEF MainInv, IdsFit, started
<1>2. c \in DOMAIN stats <=> client[c] \in {"running", "ended"}
  BY DEF MainInv, StatsFit
<1> QED BY <1>1, <1>2

\* A client thread changes its own place from one to another after "none".
LEMMA PlaceStep ==
    ASSUME MainInv, NEW c \in Clients, client[c] # "none",
           NEW p \in {"running", "ended"},
           client' = [client EXCEPT ![c] = p],
           UNCHANGED <<client_id, id, main, program, alive, dumper>>,
           DOMAIN stats' = DOMAIN stats \cup {c}
    PROVE  MainInv'
<1>1. /\ client' \in [Clients -> ClientPlaces]
      /\ \A d \in Clients : client'[d] = IF d = c THEN p ELSE client[d]
  BY DEF MainInv, TypeOK, ClientPlaces
<1>2. started' = started
  BY <1>1 DEF started
<1>3. TypeOK' /\ IdsFit'
  BY <1>1, <1>2 DEF MainInv, TypeOK, IdsFit
<1>4. StatsFit'
  BY <1>1 DEF MainInv, StatsFit
<1>5. EndFits'
  BY <1>2 DEF MainInv, EndFits
<1> QED BY <1>3, <1>4, <1>5 DEF MainInv

\* The steps of a client thread.
LEMMA ClientStep == ASSUME MainInv, NEW c \in Clients, Client(c) PROVE MainInv'
<1>1. CASE ConnectFails(c)
  <2>1. /\ UNCHANGED <<program, client_id, client, id, stats, alive, dumper>>
        /\ main' = "asserted" /\ program = "domain" /\ main # "exited"
    BY <1>1 DEF ConnectFails, clients, collector, running
  <2>2. TypeOK' /\ IdsFit' /\ StatsFit'
    BY <2>1 DEF MainInv, TypeOK, MainPlaces, IdsFit, StatsFit, started
  <2>3. EndFits'
    BY <2>1 DEF MainInv, EndFits
  <2> QED BY <2>2, <2>3 DEF MainInv
<1>2. CASE ClientAdd(c)
  <2>1. client[c] = "started" /\ id[c] = c /\ c \notin DOMAIN stats
    BY <1>2, ClientIds DEF ClientAdd
  <2>2. /\ DOMAIN stats' = DOMAIN stats \cup {c}
        /\ client' = [client EXCEPT ![c] = "running"]
        /\ UNCHANGED <<client_id, id, main, program, alive, dumper>>
    BY <1>2, <2>1 DEF ClientAdd
  <2> QED BY <2>1, <2>2, PlaceStep
<1>3. CASE Update(c)
  <2>1. client[c] = "running" /\ id[c] = c /\ c \in DOMAIN stats
    BY <1>3, ClientIds DEF Update
  <2>2. /\ DOMAIN stats' = DOMAIN stats
        /\ UNCHANGED <<client_id, client, id, main, program, alive, dumper>>
    BY <1>3, <2>1 DEF Update, clients
  <2> QED BY <2>2 DEF MainInv, TypeOK, IdsFit, StatsFit, EndFits, started
<1>4. CASE ClientEnds(c)
  <2>1. client[c] = "running" /\ c \in DOMAIN stats
    BY <1>4, ClientIds DEF ClientEnds
  <2>2. /\ DOMAIN stats' = DOMAIN stats \cup {c}
        /\ client' = [client EXCEPT ![c] = "ended"]
        /\ UNCHANGED <<client_id, id, main, program, alive, dumper>>
    BY <1>4, <2>1 DEF ClientEnds, collector
  <2> QED BY <2>1, <2>2, PlaceStep
<1> QED BY <1>1, <1>2, <1>3, <1>4 DEF Client

\* The steps of the dump thread, which runs only while the collector exists.
LEMMA DumperStep == MainInv /\ Dumper => MainInv'
<1> SUFFICES ASSUME MainInv, Dumper PROVE MainInv'
  OBVIOUS
<1>1. /\ UNCHANGED <<program, main, client_id, client, id, stats, alive>>
      /\ main # "exited" /\ dumper' \in {"test", "sleep", "ended"}
  BY DEF Dumper, RunTest, DumpInfo, clients, running
<1> QED BY <1>1 DEF MainInv, TypeOK, IdsFit, StatsFit, EndFits, started

\* Every step preserves the invariant.
LEMMA MainNext == MainInv /\ [Next]_vars => MainInv'
<1> SUFFICES ASSUME MainInv, [Next]_vars PROVE MainInv'
  OBVIOUS
<1>1. CASE Main
  BY <1>1, ParsingStep, ObeyStep, LeaveStep DEF Main
<1>2. CASE Dumper
  BY <1>2, DumperStep
<1>3. CASE \E c \in Clients : Client(c)
  BY <1>3, ClientStep
<1>4. CASE UNCHANGED vars
  BY <1>4 DEF vars, MainInv, TypeOK, IdsFit, StatsFit, EndFits, started
<1> QED BY <1>1, <1>2, <1>3, <1>4 DEF Next

\* The inductive invariant of main, its clients and its StatsCollector.
THEOREM MainCorrect == Spec => []MainInv
<1> QED BY MainInit, MainNext, PTL DEF Spec

(***************************************************************************)
(* The asserts of ClientAdd and Update hold for any number of clients,     *)
(* whenever their threads start; and when the StatsCollector is destroyed, *)
(* its dump thread has ended and no client thread exists.                  *)
(***************************************************************************)
THEOREM CollectorCorrect == Spec => []CollectorSound
<1>1. MainInv => CollectorSound
  BY ClientIds DEF CollectorSound, MainInv, EndFits
<1> QED BY <1>1, MainCorrect, PTL

-----------------------------------------------------------------------------
(* What DumpInfo shows.                                                    *)

\* reported, element by element.
LEMMA ReportedMember ==
    ASSUME NEW p
    PROVE  p \in reported <=>
              \E k \in DOMAIN stats : \E i \in 1 .. stats[k].ios : p = <<k, i>>
BY DEF reported

\* stats_ never holds more entries than there are clients.
LEMMA StatsFinite ==
    MainInv => IsFiniteSet(DOMAIN stats) /\ Cardinality(DOMAIN stats) \in Nat
<1> SUFFICES ASSUME MainInv
             PROVE  IsFiniteSet(DOMAIN stats) /\ Cardinality(DOMAIN stats) \in Nat
  OBVIOUS
<1>1. IsFiniteSet(Clients)
  BY MainAssumption, FS_Interval DEF Clients
<1>2. DOMAIN stats \in SUBSET Clients
  BY DEF MainInv, StatsFit
<1> QED BY <1>1, <1>2, FS_Subset, FS_CardinalityType

\* Nothing is reported and nothing was dumped when main starts.
LEMMA DumpsInit == Init => DumpsFit
<1> SUFFICES ASSUME Init PROVE DumpsFit
  OBVIOUS
<1>1. DOMAIN stats = {} /\ dumped = [clients |-> 0, ios |-> 0]
  BY DEF Init
<1>2. reported = {}
  BY <1>1 DEF reported
<1> QED BY <1>1, <1>2, FS_EmptySet DEF DumpsFit

\* The I/Os of one client are as many as its total_ios_.
LEMMA IosOfOne ==
    ASSUME NEW k, NEW n \in Nat
    PROVE  IsFiniteSet({k} \X (1 .. n))
<1>1. IsFiniteSet({k})
  BY FS_Singleton
<1>2. IsFiniteSet(1 .. n)
  <2>1. 1 \in Int /\ n \in Int
    OBVIOUS
  <2> QED BY <2>1, FS_Interval
<1> QED BY <1>1, <1>2, FS_Product

\* Growing stats_ keeps the invariant.
LEMMA GrownStats ==
    ASSUME MainInv, MainInv', DumpsFit, UNCHANGED dumped,
           \A k \in DOMAIN stats' : stats'[k] \in [ios : Nat, updates : Nat],
           DOMAIN stats \subseteq DOMAIN stats',
           IsFiniteSet(reported'), reported \subseteq reported'
    PROVE  DumpsFit'
<1>1. IsFiniteSet(DOMAIN stats) /\ Cardinality(DOMAIN stats) \in Nat
  BY StatsFinite
<1>2. IsFiniteSet(DOMAIN stats') /\ Cardinality(DOMAIN stats') \in Nat
  <2>1. IsFiniteSet(Clients)
    BY MainAssumption, FS_Interval DEF Clients
  <2>2. DOMAIN stats' \in SUBSET Clients
    BY DEF MainInv, StatsFit
  <2> QED BY <2>1, <2>2, FS_Subset, FS_CardinalityType
<1>3. Cardinality(DOMAIN stats) <= Cardinality(DOMAIN stats')
  BY <1>2, FS_Subset
<1>4. /\ Cardinality(reported) <= Cardinality(reported')
      /\ Cardinality(reported) \in Nat /\ Cardinality(reported') \in Nat
  BY FS_Subset, FS_CardinalityType DEF DumpsFit
<1>5. /\ dumped'.clients <= Cardinality(DOMAIN stats')
      /\ dumped'.ios <= Cardinality(reported')
  BY <1>1, <1>2, <1>3, <1>4 DEF DumpsFit
<1> QED BY <1>5 DEF DumpsFit

\* A client that is added reports nothing yet.
LEMMA AddedStep ==
    ASSUME MainInv, MainInv', DumpsFit, NEW c \in Clients, ClientAdd(c)
    PROVE  DumpsFit'
<1>1. client[c] = "started" /\ id[c] = c /\ c \notin DOMAIN stats
  BY ClientIds DEF ClientAdd
<1>2. /\ stats' = [k \in DOMAIN stats \cup {c} |->
                      IF k = c THEN [ios |-> 0, updates |-> 0] ELSE stats[k]]
      /\ UNCHANGED dumped
  BY <1>1 DEF ClientAdd
<1>3. /\ DOMAIN stats' = DOMAIN stats \cup {c}
      /\ stats'[c] = [ios |-> 0, updates |-> 0]
      /\ \A k \in DOMAIN stats : stats'[k] = stats[k]
  BY <1>1, <1>2
<1>4. stats'[c].ios = 0
  BY <1>3
<1>5. reported' = reported
  <2>1. \A p : p \in reported' <=>
           \E k \in DOMAIN stats' : \E i \in 1 .. stats'[k].ios : p = <<k, i>>
    BY DEF reported
  <2>2. ASSUME NEW p \in reported' PROVE p \in reported
    <3>1. PICK k \in DOMAIN stats' : \E i \in 1 .. stats'[k].ios : p = <<k, i>>
      BY <2>1, <2>2
    <3>2. k # c
      BY <3>1, <1>4
    <3> QED BY <3>1, <3>2, <1>3, ReportedMember
  <2>3. ASSUME NEW p \in reported PROVE p \in reported'
    <3>1. PICK k \in DOMAIN stats : \E i \in 1 .. stats[k].ios : p = <<k, i>>
      BY <2>3, ReportedMember
    <3> QED BY <3>1, <2>1, <1>3
  <2> QED BY <2>2, <2>3
<1>6. \A k \in DOMAIN stats' : stats'[k] \in [ios : Nat, updates : Nat]
  BY <1>3 DEF DumpsFit
<1>7. IsFiniteSet(reported') /\ reported \subseteq reported'
  BY <1>5, Zenon DEF DumpsFit
<1> QED BY <1>2, <1>3, <1>6, <1>7, GrownStats

\* An update adds to what its client has reported.
LEMMA UpdatedStep ==
    ASSUME MainInv, MainInv', DumpsFit, NEW c \in Clients, Update(c)
    PROVE  DumpsFit'
<1>1. client[c] = "running" /\ id[c] = c /\ c \in DOMAIN stats
  BY ClientIds DEF Update
<1>2. PICK n \in Ios :
         stats' = [stats EXCEPT ![c] = [ios |-> stats[c].ios + n,
                                        updates |-> stats[c].updates + 1]]
  BY <1>1 DEF Update
<1>3. n \in Nat /\ stats[c] \in [ios : Nat, updates : Nat] /\ UNCHANGED dumped
  BY <1>1, MainAssumption DEF DumpsFit, Update
<1>4. /\ DOMAIN stats' = DOMAIN stats
      /\ stats'[c] = [ios |-> stats[c].ios + n, updates |-> stats[c].updates + 1]
      /\ \A k \in DOMAIN stats \ {c} : stats'[k] = stats[k]
  BY <1>1, <1>2
<1>5. stats'[c].ios = stats[c].ios + n /\ stats[c].ios \in Nat
  BY <1>3, <1>4
<1> DEFINE New == {c} \X (1 .. stats[c].ios + n)
<1>6. \A p : p \in New <=> \E i \in 1 .. stats[c].ios + n : p = <<c, i>>
  OBVIOUS
<1>7. IsFiniteSet(New)
  <2>1. stats[c].ios + n \in Nat
    BY <1>3, <1>5
  <2> HIDE DEF New
  <2>2. IsFiniteSet({c} \X (1 .. stats[c].ios + n))
    BY <2>1, IosOfOne
  <2> QED BY <2>2 DEF New
<1> HIDE DEF New
<1>8. reported' = reported \cup New
  <2>1. \A p : p \in reported' <=>
           \E k \in DOMAIN stats' : \E i \in 1 .. stats'[k].ios : p = <<k, i>>
    BY DEF reported
  <2>2. ASSUME NEW p \in reported' PROVE p \in reported \cup New
    <3>1. PICK k \in DOMAIN stats' : \E i \in 1 .. stats'[k].ios : p = <<k, i>>
      BY <2>1, <2>2
    <3>2. CASE k = c
      BY <3>1, <3>2, <1>5, <1>6
    <3>3. CASE k # c
      BY <3>1, <3>3, <1>4, ReportedMember
    <3> QED BY <3>2, <3>3
  <2>3. ASSUME NEW p \in New PROVE p \in reported'
    BY <2>3, <2>1, <1>1, <1>4, <1>5, <1>6
  <2>4. ASSUME NEW p \in reported PROVE p \in reported'
    <3>1. PICK k \in DOMAIN stats : \E i \in 1 .. stats[k].ios : p = <<k, i>>
      BY <2>4, ReportedMember
    <3>2. CASE k = c
      <4>1. PICK i \in 1 .. stats[c].ios : p = <<c, i>>
        BY <3>1, <3>2
      <4>2. i \in 1 .. stats'[c].ios
        BY <1>3, <1>5, <4>1
      <4> QED BY <4>1, <4>2, <1>1, <1>4, <2>1
    <3>3. CASE k # c
      BY <3>1, <3>3, <1>4, <2>1
    <3> QED BY <3>2, <3>3
  <2> QED BY <2>2, <2>3, <2>4
<1>9. IsFiniteSet(reported \cup New)
  BY <1>7, FS_Union DEF DumpsFit
<1>10. IsFiniteSet(reported') /\ reported \subseteq reported'
  BY <1>8, <1>9
<1>11. \A k \in DOMAIN stats' : stats'[k] \in [ios : Nat, updates : Nat]
  BY <1>3, <1>4 DEF DumpsFit
<1> QED BY <1>3, <1>4, <1>10, <1>11, GrownStats

\* Every step keeps the last dump behind stats_.
LEMMA DumpsStep ==
    ASSUME MainInv, DumpsFit, [Next]_vars PROVE DumpsFit'
<1>0. MainInv'
  BY MainNext
<1>1. CASE UNCHANGED <<stats, dumped>>
  BY <1>1 DEF DumpsFit, reported
<1>2. CASE \E c \in Clients : ClientAdd(c) \/ Update(c)
  BY <1>0, <1>2, AddedStep, UpdatedStep
<1>3. CASE DumpInfo
  <2>1. /\ UNCHANGED stats
        /\ dumped' = [clients |-> Cardinality(DOMAIN stats),
                      ios |-> Cardinality(reported)]
    BY <1>3 DEF DumpInfo
  <2>2. Cardinality(DOMAIN stats) \in Nat /\ Cardinality(reported) \in Nat
    BY StatsFinite, FS_CardinalityType DEF DumpsFit
  <2>3. reported' = reported
    BY <2>1 DEF reported
  <2>4. dumped'.clients = Cardinality(DOMAIN stats) /\ dumped'.ios = Cardinality(reported)
    BY <2>1
  <2>5. dumped' \in [clients : Nat, ios : Nat]
    BY <2>1, <2>2
  <2>6. /\ Cardinality(DOMAIN stats') = Cardinality(DOMAIN stats)
        /\ Cardinality(reported') = Cardinality(reported)
        /\ IsFiniteSet(reported')
    BY <2>1, <2>3, Zenon DEF DumpsFit
  <2> QED BY <2>1, <2>2, <2>4, <2>5, <2>6 DEF DumpsFit
<1>4. \/ UNCHANGED <<stats, dumped>>
      \/ \E c \in Clients : ClientAdd(c) \/ Update(c)
      \/ DumpInfo
  <2>1. CASE Main
    BY <2>1 DEF Main, ReadText, Split, Obey, LeaveScope, Joined, ParseLeafs, collector
  <2>2. CASE Dumper
    BY <2>2 DEF Dumper, RunTest
  <2>3. CASE \E c \in Clients : Client(c)
    BY <2>3 DEF Client, ConnectFails, ClientEnds, collector
  <2>4. CASE UNCHANGED vars
    BY <2>4 DEF vars
  <2> QED BY <2>1, <2>2, <2>3, <2>4 DEF Next
<1> QED BY <1>1, <1>2, <1>3, <1>4

\* A step that dumps shows at least what the last dump showed.
LEMMA DumpGrowsStep ==
    ASSUME MainInv, DumpsFit, [Next]_vars
    PROVE  dumped'.clients >= dumped.clients /\ dumped'.ios >= dumped.ios
<1>1. /\ dumped.clients \in Nat /\ dumped.ios \in Nat
      /\ Cardinality(DOMAIN stats) \in Nat /\ Cardinality(reported) \in Nat
  BY StatsFinite, FS_CardinalityType DEF DumpsFit
<1>2. CASE DumpInfo
  <2>1. /\ dumped'.clients = Cardinality(DOMAIN stats)
        /\ dumped'.ios = Cardinality(reported)
    BY <1>2 DEF DumpInfo
  <2> QED BY <1>1, <2>1 DEF DumpsFit
<1>3. CASE UNCHANGED dumped
  BY <1>1, <1>3
<1>4. UNCHANGED dumped \/ DumpInfo
  <2>1. CASE Main
    BY <2>1 DEF Main, ReadText, Split, Obey, LeaveScope, Joined, ParseLeafs, collector
  <2>2. CASE Dumper
    BY <2>2 DEF Dumper, RunTest
  <2>3. CASE \E c \in Clients : Client(c)
    BY <2>3 DEF Client, ConnectFails, ClientAdd, Update, ClientEnds, collector
  <2>4. CASE UNCHANGED vars
    BY <2>4 DEF vars
  <2> QED BY <2>1, <2>2, <2>3, <2>4 DEF Next
<1> QED BY <1>2, <1>3, <1>4

(***************************************************************************)
(* From one dump to the next no client and no I/O disappears, for any      *)
(* number of clients and updates and wherever the dump thread runs between *)
(* them: stats_ only grows, and the last dump is never ahead of it.        *)
(***************************************************************************)
THEOREM DumpsCorrect == Spec => DumpsGrow
<1>1. MainInv /\ DumpsFit /\ [Next]_vars => DumpsFit'
  BY DumpsStep
<1>2. MainInv /\ DumpsFit /\ [Next]_vars
         => [dumped'.clients >= dumped.clients /\ dumped'.ios >= dumped.ios]_vars
  BY DumpGrowsStep
<1> QED BY <1>1, <1>2, DumpsInit, MainCorrect, PTL DEF Spec, DumpsGrow

-----------------------------------------------------------------------------
(* What Split and split return.                                            *)

\* A set of naturals that is not empty has a smallest element, Min.
LEMMA MinFacts ==
    ASSUME NEW S, S \subseteq Nat, S # {}
    PROVE  Min(S) \in S /\ \A y \in S : Min(S) <= y
<1>1. PICK n \in S : \A m \in S : ~(<<m, n>> \in OpToRel(<, Nat))
  BY NatLessThanWellFounded, WFMin
<1>2. \A m \in S : n <= m
  <2> SUFFICES ASSUME NEW m \in S, ~(n <= m) PROVE FALSE
    OBVIOUS
  <2>1. m \in Nat /\ n \in Nat /\ m < n
    OBVIOUS
  <2>2. <<m, n>> \in OpToRel(<, Nat)
    BY <2>1 DEF OpToRel
  <2> QED BY <2>2, <1>1
<1>3. \E x \in S : \A y \in S : x =< y
  BY <1>2
<1> QED BY <1>3 DEF Min

\* The words up to a position are finitely many.
LEMMA WordsFinite ==
    ASSUME NEW k \in Nat
    PROVE  IsFiniteSet(WordsUpTo(k)) /\ Cardinality(WordsUpTo(k)) \in Nat
<1>1. IsFiniteSet(1 .. k)
  <2>1. 1 \in Int /\ k \in Int
    OBVIOUS
  <2> QED BY <2>1, FS_Interval
<1>2. WordsUpTo(k) \in SUBSET (1 .. k)
  BY DEF WordsUpTo
<1> QED BY <1>1, <1>2, FS_Subset, FS_CardinalityType

\* A delimiter adds no word.
LEMMA NoWordAdded ==
    ASSUME NEW k \in Nat \ {0}, text[k] = Delim
    PROVE  WordsUpTo(k) = WordsUpTo(k - 1)
BY DEF WordsUpTo

\* A word is one more.
LEMMA WordAdded ==
    ASSUME NEW k \in Nat \ {0}, text[k] # Delim
    PROVE  /\ WordsUpTo(k) = WordsUpTo(k - 1) \cup {k}
           /\ Cardinality(WordsUpTo(k)) = Cardinality(WordsUpTo(k - 1)) + 1
<1>1. WordsUpTo(k) = WordsUpTo(k - 1) \cup {k} /\ k \notin WordsUpTo(k - 1)
  BY DEF WordsUpTo
<1>2. k - 1 \in Nat
  OBVIOUS
<1>3. IsFiniteSet(WordsUpTo(k - 1))
  BY <1>2, WordsFinite
<1>4. Cardinality(WordsUpTo(k - 1) \cup {k}) =
         IF k \in WordsUpTo(k - 1) THEN Cardinality(WordsUpTo(k - 1))
         ELSE Cardinality(WordsUpTo(k - 1)) + 1
  BY <1>3, FS_AddElement
<1> QED BY <1>1, <1>4

\* The words up to a position have the numbers up to how many they are.
LEMMA WordRank ==
    ASSUME NEW m \in Nat, NEW k \in WordsUpTo(m)
    PROVE  Cardinality(WordsUpTo(k)) \in 1 .. Cardinality(WordsUpTo(m))
<1>1. k \in Nat /\ k \in WordsUpTo(k) /\ WordsUpTo(k) \in SUBSET WordsUpTo(m)
  BY DEF WordsUpTo
<1>2. IsFiniteSet(WordsUpTo(m)) /\ Cardinality(WordsUpTo(m)) \in Nat
  BY WordsFinite
<1>3. IsFiniteSet(WordsUpTo(k)) /\ Cardinality(WordsUpTo(k)) \in Nat
  BY <1>1, WordsFinite
<1>4. Cardinality(WordsUpTo(k)) <= Cardinality(WordsUpTo(m))
  BY <1>1, <1>2, FS_Subset
<1>5. Cardinality(WordsUpTo(k)) # 0
  BY <1>1, <1>3, FS_EmptySet
<1> QED BY <1>2, <1>3, <1>4, <1>5

\* The text that is split is a sequence in which no word follows a word.
LEMMA TextFacts ==
    ASSUME SplitFits
    PROVE  /\ text \in Seq({text[k] : k \in 1 .. Len(text)})
           /\ Len(text) \in Nat
           /\ \A k \in 1 .. Len(text) - 1 : text[k] = Delim \/ text[k + 1] = Delim
<1>1. CASE text \in Texts
  BY <1>1, MainAssumption
<1>2. CASE text = <<>>
  BY <1>2
<1> QED BY <1>1, <1>2 DEF SplitFits

\* find finds the delimiter at s or behind the one word at s, and none only
\* when that word or nothing is left.
LEMMA FindFacts ==
    ASSUME SplitFits, s \in 1 .. Len(text) + 1
    PROVE  \/ find(s) = 0 /\ s = Len(text) + 1
           \/ find(s) = 0 /\ s = Len(text) /\ text[s] # Delim
           \/ find(s) = s /\ s \in 1 .. Len(text) /\ text[s] = Delim
           \/ /\ find(s) = s + 1 /\ s \in 1 .. Len(text) - 1
              /\ text[s] # Delim /\ text[s + 1] = Delim
<1> DEFINE At == {k \in s .. Len(text) : text[k] = Delim}
<1>1. /\ Len(text) \in Nat /\ s \in Nat /\ s >= 1 /\ s <= Len(text) + 1
      /\ \A k \in 1 .. Len(text) - 1 : text[k] = Delim \/ text[k + 1] = Delim
  BY TextFacts
<1>2. /\ find(s) = IF At = {} THEN 0 ELSE Min(At)
      /\ At \subseteq Nat
      /\ \A k : k \in At <=> k \in s .. Len(text) /\ text[k] = Delim
  BY <1>1 DEF find
<1> HIDE DEF At
<1>3. CASE s = Len(text) + 1
  BY <1>1, <1>2, <1>3
<1>4. CASE s \in 1 .. Len(text) /\ text[s] = Delim
  <2>1. s \in At
    BY <1>1, <1>2, <1>4
  <2>2. Min(At) \in At /\ Min(At) <= s
    BY <1>2, <2>1, MinFacts
  <2> QED BY <1>1, <1>2, <1>4, <2>1, <2>2
<1>5. CASE s = Len(text) /\ text[s] # Delim
  BY <1>1, <1>2, <1>5
<1>6. CASE s \in 1 .. Len(text) - 1 /\ text[s] # Delim
  <2>1. text[s + 1] = Delim
    BY <1>1, <1>6
  <2>2. s + 1 \in At /\ s \notin At
    BY <1>1, <1>2, <1>6, <2>1
  <2>3. Min(At) \in At /\ Min(At) <= s + 1
    BY <1>2, <2>2, MinFacts
  <2> QED BY <1>1, <1>2, <1>6, <2>1, <2>2, <2>3
<1> QED BY <1>1, <1>3, <1>4, <1>5, <1>6

\* Appending a token leaves those before it where they are.
LEMMA TokenKept ==
    ASSUME SplitFits, NEW k \in Nat, TokensUpTo(k), NEW t \in Tokens,
           tokens' = Append(tokens, t)
    PROVE  /\ Len(tokens') = Cardinality(WordsUpTo(k)) + 1
           /\ tokens' \in Seq(Tokens)
           /\ tokens'[Cardinality(WordsUpTo(k)) + 1] = t
           /\ \A j \in WordsUpTo(k) :
                 tokens'[Cardinality(WordsUpTo(j))] = <<text[j]>>
<1>1. tokens \in Seq(Tokens) /\ Len(tokens) = Cardinality(WordsUpTo(k))
  BY DEF SplitFits, TokensUpTo
<1>2. /\ tokens' \in Seq(Tokens) /\ Len(tokens') = Len(tokens) + 1
      /\ tokens'[Len(tokens) + 1] = t
      /\ \A i \in 1 .. Len(tokens) : tokens'[i] = tokens[i]
  BY <1>1, AppendProperties
<1>3. \A j \in WordsUpTo(k) : Cardinality(WordsUpTo(j)) \in 1 .. Len(tokens)
  BY <1>1, WordRank
<1> QED BY <1>1, <1>2, <1>3 DEF TokensUpTo

\* A token for the word at position k.
LEMMA TokenAdded ==
    ASSUME SplitFits, NEW k \in 1 .. Len(text), text[k] # Delim,
           TokensUpTo(k - 1), tokens' = Append(tokens, <<text[k]>>)
    PROVE  /\ tokens' \in Seq(Tokens)
           /\ Len(tokens') = Cardinality(WordsUpTo(k))
           /\ \A j \in WordsUpTo(k) :
                 tokens'[Cardinality(WordsUpTo(j))] = <<text[j]>>
<1>1. k \in Nat \ {0} /\ k - 1 \in Nat /\ <<text[k]>> \in Tokens
  BY TextFacts DEF Tokens
<1>2. /\ WordsUpTo(k) = WordsUpTo(k - 1) \cup {k}
      /\ Cardinality(WordsUpTo(k)) = Cardinality(WordsUpTo(k - 1)) + 1
  BY <1>1, WordAdded
<1>3. /\ Len(tokens') = Cardinality(WordsUpTo(k - 1)) + 1
      /\ tokens' \in Seq(Tokens)
      /\ tokens'[Cardinality(WordsUpTo(k - 1)) + 1] = <<text[k]>>
      /\ \A j \in WordsUpTo(k - 1) :
            tokens'[Cardinality(WordsUpTo(j))] = <<text[j]>>
  BY <1>1, TokenKept
<1> QED BY <1>2, <1>3

\* The part of a sequence that is one element.
LEMMA OneElement ==
    ASSUME NEW S, NEW q \in Seq(S), NEW k \in 1 .. Len(q)
    PROVE  SubSeq(q, k, k) = <<q[k]>>
<1>1. Len(q) \in Nat /\ k \in Nat /\ k <= Len(q) /\ q[k] \in S
  BY ElementOfSeq
<1>2. /\ SubSeq(q, k, k) \in Seq(S) /\ Len(SubSeq(q, k, k)) = 1
      /\ SubSeq(q, k, k)[1] = q[k]
  BY <1>1
<1>3. <<q[k]>> \in Seq(S) /\ Len(<<q[k]>>) = 1 /\ <<q[k]>>[1] = q[k]
  BY <1>1
<1> DEFINE a == SubSeq(q, k, k)
           b == <<q[k]>>
<1>4. a \in Seq(S) /\ b \in Seq(S) /\ Len(a) = Len(b) /\ Len(a) = 1 /\ a[1] = b[1]
  BY <1>2, <1>3
<1> HIDE DEF a, b
<1>5. \A i \in 1 .. Len(a) : a[i] = b[i]
  BY <1>4
<1>6. a = b
  BY <1>4, <1>5, SeqEqual
<1> QED BY <1>6 DEF a, b

\* Split and split go on behind the delimiter they found.
LEMMA SplitOnStep ==
    ASSUME SplitInv, main = "split", UNCHANGED <<main, text>>,
           s \in 1 .. Len(text) + 1, find(s) # 0,
           \/ UNCHANGED <<s, tokens>>
           \/ /\ tokens' = IF find(s) # s
                           THEN Append(tokens, SubSeq(text, s, find(s) - 1))
                           ELSE tokens
              /\ s' = find(s) + 1
    PROVE  SplitInv'
<1>0. TokensRight'
  BY DEF TokensRight
<1>1. SplitFits /\ TokensUpTo(s - 1) /\ Len(text) \in Nat
  BY TextFacts DEF SplitInv, SplitFits
<1>2. CASE UNCHANGED <<s, tokens>>
  BY <1>0, <1>2 DEF SplitInv, SplitFits, Tokens, TokensUpTo, WordsUpTo
<1>3. CASE /\ find(s) = s /\ text[s] = Delim /\ s \in 1 .. Len(text)
           /\ s' = s + 1 /\ tokens' = tokens
  <2>1. WordsUpTo(s) = WordsUpTo(s - 1)
    BY <1>3, NoWordAdded
  <2>2. s' - 1 = s /\ s' \in 1 .. Len(text) + 1 /\ text'[s' - 1] = Delim
    BY <1>1, <1>3
  <2>3. TokensUpTo(s)
    BY <1>1, <2>1 DEF TokensUpTo
  <2>4. TokensUpTo(s - 1)'
    BY <2>2, <2>3, <1>3 DEF TokensUpTo, WordsUpTo
  <2>5. SplitFits'
    BY <1>1, <1>3, <2>2, <2>4 DEF SplitFits, Tokens
  <2> QED BY <1>0, <2>5 DEF SplitInv
<1>4. CASE /\ find(s) = s + 1 /\ s \in 1 .. Len(text) - 1
           /\ text[s] # Delim /\ text[s + 1] = Delim
           /\ tokens' = Append(tokens, SubSeq(text, s, find(s) - 1))
           /\ s' = s + 2
  <2>1. SubSeq(text, s, s) = <<text[s]>> /\ find(s) - 1 = s
    BY <1>1, <1>4, TextFacts, OneElement
  <2>2. tokens' = Append(tokens, <<text[s]>>)
    BY <2>1, <1>4
  <2>3. /\ tokens' \in Seq(Tokens)
        /\ Len(tokens') = Cardinality(WordsUpTo(s))
        /\ \A j \in WordsUpTo(s) :
              tokens'[Cardinality(WordsUpTo(j))] = <<text[j]>>
    <3>1. s \in 1 .. Len(text)
      BY <1>1, <1>4
    <3> QED BY <1>1, <1>4, <2>2, <3>1, TokenAdded
  <2>4. WordsUpTo(s + 1) = WordsUpTo(s)
    <3>1. s + 1 \in Nat \ {0} /\ (s + 1) - 1 = s
      BY <1>4
    <3>2. WordsUpTo(s + 1) = WordsUpTo((s + 1) - 1)
      BY <3>1, <1>4, NoWordAdded
    <3> QED BY <3>1, <3>2
  <2>5. s' - 1 = s + 1 /\ s' \in 1 .. Len(text) + 1 /\ text'[s' - 1] = Delim
    BY <1>1, <1>4
  <2>6. TokensUpTo(s - 1)'
    <3>1. /\ Len(tokens') = Cardinality(WordsUpTo(s + 1))
          /\ \A j \in WordsUpTo(s + 1) :
                tokens'[Cardinality(WordsUpTo(j))] = <<text[j]>>
      BY <2>3, <2>4
    <3> QED BY <2>5, <3>1 DEF TokensUpTo, WordsUpTo
  <2>7. SplitFits'
    BY <1>1, <2>3, <2>5, <2>6 DEF SplitFits, Tokens
  <2> QED BY <1>0, <2>7 DEF SplitInv
<1>5. \/ UNCHANGED <<s, tokens>>
      \/ /\ find(s) = s /\ text[s] = Delim /\ s \in 1 .. Len(text)
         /\ s' = s + 1 /\ tokens' = tokens
      \/ /\ find(s) = s + 1 /\ s \in 1 .. Len(text) - 1
         /\ text[s] # Delim /\ text[s + 1] = Delim
         /\ tokens' = Append(tokens, SubSeq(text, s, find(s) - 1))
         /\ s' = s + 2
  BY <1>1, FindFacts
<1> QED BY <1>2, <1>3, <1>4, <1>5

\* What is left when no delimiter is found becomes the last token.
LEMMA SplitTailStep ==
    ASSUME SplitInv, main = "split", SplitTail, UNCHANGED text
    PROVE  SplitInv'
<1> DEFINE n == Cardinality(WordsUpTo(Len(text)))
<1>1. /\ SplitFits /\ s \in 1 .. Len(text) + 1 /\ TokensUpTo(s - 1)
      /\ s = 1 \/ text[s - 1] = Delim
      /\ Len(text) \in Nat /\ s \in Nat
  BY TextFacts DEF SplitInv, SplitFits
<1>2. /\ find(s) = 0 /\ main' \in {"obey", "parse"}
      /\ tokens' = Append(tokens, SubSeq(text, s, Len(text)))
  BY DEF SplitTail
<1>3. ASSUME tokens' \in Seq(Tokens),
             Len(tokens') \in {n, n + 1},
             \A k \in WordsUpTo(Len(text)) :
                tokens'[Cardinality(WordsUpTo(k))] = <<text[k]>>,
             Len(tokens') = n + 1 => tokens'[n + 1] = <<>>
      PROVE  SplitInv'
  <2>1. TokensRight'
    BY <1>3 DEF TokensRight, WordsUpTo
  <2>2. SplitFits'
    BY <1>1, <1>2, <1>3 DEF SplitFits, Tokens
  <2> QED BY <2>1, <2>2 DEF SplitInv
<1>4. CASE s = Len(text) + 1
  <2>1. SubSeq(text, s, Len(text)) = <<>> /\ s - 1 = Len(text) /\ <<>> \in Tokens
    BY <1>1, <1>4, TextFacts DEF Tokens
  <2>3. TokensUpTo(Len(text)) /\ tokens' = Append(tokens, <<>>)
    BY <1>1, <1>2, <2>1
  <2>4. /\ Len(tokens') = n + 1
        /\ tokens' \in Seq(Tokens)
        /\ tokens'[n + 1] = <<>>
        /\ \A k \in WordsUpTo(Len(text)) :
              tokens'[Cardinality(WordsUpTo(k))] = <<text[k]>>
    BY <1>1, <2>1, <2>3, TokenKept
  <2> HIDE DEF n
  <2> QED BY <1>3, <2>4
<1>5. CASE s = Len(text) /\ text[s] # Delim
  <2>1. SubSeq(text, s, Len(text)) = <<text[s]>>
    <3>1. SubSeq(text, s, s) = <<text[s]>>
      BY <1>1, <1>5, TextFacts, OneElement
    <3> QED BY <3>1, <1>5
  <2>2. s \in 1 .. Len(text)
    BY <1>1, <1>5
  <2>3. tokens' = Append(tokens, <<text[s]>>)
    BY <1>2, <2>1
  <2>4. /\ tokens' \in Seq(Tokens)
        /\ Len(tokens') = Cardinality(WordsUpTo(s))
        /\ \A j \in WordsUpTo(s) :
              tokens'[Cardinality(WordsUpTo(j))] = <<text[j]>>
    BY <1>1, <1>5, <2>2, <2>3, TokenAdded
  <2>5. /\ Len(tokens') = n
        /\ \A k \in WordsUpTo(Len(text)) :
              tokens'[Cardinality(WordsUpTo(k))] = <<text[k]>>
    BY <2>4, <1>5
  <2>6. n \in Nat
    BY <1>1, WordsFinite
  <2> HIDE DEF n
  <2> QED BY <1>3, <2>4, <2>5, <2>6
<1>6. s = Len(text) + 1 \/ (s = Len(text) /\ text[s] # Delim)
  BY <1>1, <1>2, FindFacts
<1> QED BY <1>4, <1>5, <1>6

\* A step that forgets the text, or leaves it alone while nothing starts to
\* be split or obeyed.
LEMMA TextStep ==
    ASSUME SplitInv,
           \/ UNCHANGED parsing /\ (main' = main \/ main' \notin {"split", "obey", "parse"})
           \/ Forget /\ main' \notin {"split", "obey", "parse"}
    PROVE  SplitInv'
<1>1. CASE UNCHANGED parsing /\ (main' = main \/ main' \notin {"split", "obey", "parse"})
  <2>1. UNCHANGED <<text, s, tokens>>
    BY <1>1 DEF parsing
  <2>2. CASE main' = main
    BY <2>1, <2>2 DEF SplitInv, SplitFits, TokensRight, Tokens, TokensUpTo, WordsUpTo
  <2>3. CASE main' \notin {"split", "obey", "parse"}
    BY <2>1, <2>3 DEF SplitInv, SplitFits, TokensRight, Tokens
  <2> QED BY <1>1, <2>2, <2>3
<1>2. CASE Forget /\ main' \notin {"split", "obey", "parse"}
  BY <1>2 DEF Forget, SplitInv, SplitFits, TokensRight, Tokens
<1> QED BY <1>1, <1>2

\* Reading a text starts at its first position, with no token.
LEMMA ReadStep == SplitInv /\ ReadText => SplitInv'
<1> SUFFICES ASSUME SplitInv, ReadText PROVE SplitInv'
  OBVIOUS
<1>1. text' \in Texts /\ s' = 1 /\ tokens' = <<>> /\ main' = "split"
  BY DEF ReadText
<1>2. Len(text') \in Nat
  BY <1>1, MainAssumption
<1>3. TokensUpTo(s - 1)'
  <2>1. s' - 1 = 0 /\ Len(tokens') = 0
    BY <1>1
  <2>2. WordsUpTo(s - 1)' = {}
    BY <2>1 DEF WordsUpTo
  <2> QED BY <2>1, <2>2, FS_EmptySet DEF TokensUpTo
<1>4. SplitFits'
  BY <1>1, <1>2, <1>3 DEF SplitFits, Tokens
<1> QED BY <1>1, <1>4 DEF SplitInv, TokensRight

\* Every step keeps the tokens right.
LEMMA SplitStep == SplitInv /\ [Next]_vars => SplitInv'
<1> SUFFICES ASSUME SplitInv, [Next]_vars PROVE SplitInv'
  OBVIOUS
<1>1. CASE ReadText
  BY <1>1, ReadStep
<1>2. CASE Split
  <2>1. main = "split" /\ UNCHANGED text /\ (SplitNext \/ splitNext \/ SplitTail)
    BY <1>2 DEF Split
  <2>2. s \in 1 .. Len(text) + 1
    BY <2>1 DEF SplitInv, SplitFits
  <2>3. CASE SplitNext
    BY <2>1, <2>2, <2>3, SplitOnStep DEF SplitNext
  <2>4. CASE splitNext
    BY <2>1, <2>2, <2>4, SplitOnStep DEF splitNext
  <2> QED BY <2>1, <2>3, <2>4, SplitTailStep
<1>3. CASE Obey \/ ParseLeafs
  BY <1>3, TextStep DEF Obey, ParseLeafs
<1>4. CASE LeaveScope \/ Joined
  BY <1>4, TextStep DEF LeaveScope, Joined
<1>5. CASE Dumper
  BY <1>5, TextStep DEF Dumper, RunTest, DumpInfo
<1>6. CASE \E c \in Clients : Client(c)
  <2>1. PICK c \in Clients : Client(c)
    BY <1>6
  <2>2. UNCHANGED parsing /\ (main' = main \/ main' = "asserted")
    BY <2>1 DEF Client, ConnectFails, ClientAdd, Update, ClientEnds
  <2> QED BY <2>2, TextStep
<1>7. CASE UNCHANGED vars
  BY <1>7, TextStep DEF vars, parsing
<1> QED BY <1>1, <1>2, <1>3, <1>4, <1>5, <1>6, <1>7 DEF Next, Main

(***************************************************************************)
(* Split and split return the words of the text in order, none lost, cut   *)
(* or twice, with at most one empty token, behind the words, for every     *)
(* text.                                                                   *)
(***************************************************************************)
THEOREM TokensCorrect == Spec => []TokensRight
<1>1. Init => SplitInv
  BY DEF Init, SplitInv, SplitFits, TokensRight, Tokens
<1> QED BY <1>1, SplitStep, PTL DEF Spec, SplitInv
=============================================================================
