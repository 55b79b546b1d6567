---------------------------- MODULE StorageMain ----------------------------
(***************************************************************************)
(* The programs around the clients and servers: main of                    *)
(* StorageRpc/Client.cpp and of fbthrift/domain-socket/Client.cpp, which   *)
(* obey commands, start client threads and own the StatsCollector with its *)
(* dump thread; and main of the DB servers, which reads the list of leafs. *)
(* Each splits a text into tokens, the DB servers with an older split.     *)
(*                                                                         *)
(* A text is a sequence of delimiters and words; a token is what lies      *)
(* between two delimiters: one word, or nothing.                           *)
(***************************************************************************)
EXTENDS Integers, Sequences, FiniteSets, FiniteSetsExt

CONSTANTS
    Programs,       \* "storage", "domain", "db"
    Texts,          \* the texts that are split
    Delim,          \* ' ' or ','
    Quit, Add,      \* the words quit and client_add
    HasColon,       \* the words that are an address and a port
    MaxClients,     \* bound of the model on client_add
    MaxUpdates,     \* bound of the model on the updates of a client
    Ios             \* the numbers of I/Os a client may report

ASSUME MainAssumption ==
    /\ Programs \subseteq {"storage", "domain", "db"}
    /\ \A text \in Texts :
          /\ text \in Seq({text[k] : k \in 1 .. Len(text)})
          /\ \A k \in 1 .. Len(text) - 1 : text[k] = Delim \/ text[k + 1] = Delim
    /\ MaxClients \in Nat /\ MaxUpdates \in Nat
    /\ Ios \subseteq Nat

VARIABLES
    program,
    main,           \* see MainPlaces
    text,           \* what is being split
    s,              \* where the next token starts
    tokens,
    leafs,          \* the leafs of a DB server
    client_id,
    client,         \* what each client thread does: see ClientPlaces
    id,             \* the id each client thread was given
    stats,          \* stats_: total_ios_ and total_updates_ of each id in it
    alive,          \* whether the StatsCollector exists
    stop,           \* stop_
    dumper,         \* the dump thread: "test", "sleep" or "ended"
    dumped          \* what the last dump showed: clients and I/Os

vars == <<program, main, text, s, tokens, leafs, client_id, client, id, stats,
          alive, stop, dumper, dumped>>
parsing == <<text, s, tokens>>
clients == <<client_id, client, id>>
collector == <<stats, alive, stop, dumper, dumped>>

Clients == 1 .. MaxClients
MainPlaces == {"read", "split", "obey", "parse", "quit", "joining", "exited",
               "serving", "terminated", "asserted"}
ClientPlaces == {"none", "started", "running", "ended"}
started == {c \in Clients : client[c] # "none"}
running == main \notin {"exited", "terminated", "asserted"}

Init ==
    /\ program \in Programs
    /\ main = "read"
    /\ text = <<>>
    /\ s = 1
    /\ tokens = <<>>
    /\ leafs = <<>>
    /\ client_id = 0
    /\ client = [c \in Clients |-> "none"]
    /\ id = [c \in Clients |-> 0]
    /\ stats = <<>>
    /\ alive = (program # "db")
    /\ stop = FALSE
    /\ dumper = IF program = "db" THEN "ended" ELSE "test"
    /\ dumped = [clients |-> 0, ios |-> 0]

-----------------------------------------------------------------------------
(* main: a line of input, or the flag with the list of leafs.              *)

ReadText ==
    /\ main = "read"
    /\ text' \in Texts
    /\ s' = 1
    /\ tokens' = <<>>
    /\ main' = "split"
    /\ UNCHANGED <<program, leafs, clients, collector>>

\* text.find(delim, s); 0 for npos.
find(from) ==
    LET at == {k \in from .. Len(text) : text[k] = Delim}
    IN  IF at = {} THEN 0 ELSE Min(at)

\* Mutant: what is behind the last delimiter is not looked at.
SplitTail_Forgets ==
    /\ find(s) = 0
    /\ tokens' = tokens
    /\ s' = s
    /\ main' = IF program = "db" THEN "parse" ELSE "obey"

\* No delimiter is left: e is npos, so if (e != s) is always true, and what
\* is left is a token, even if it is empty.
SplitTail ==
    /\ find(s) = 0
    /\ tokens' = Append(tokens, SubSeq(text, s, Len(text)))
    /\ s' = s
    /\ main' = IF program = "db" THEN "parse" ELSE "obey"

\* Mutant: s goes past a delimiter only after a token.
SplitNext_AfterToken ==
    /\ program # "db"
    /\ find(s) # 0
    /\ IF find(s) # s
       THEN /\ tokens' = Append(tokens, SubSeq(text, s, find(s) - 1))
            /\ s' = find(s) + 1
       ELSE UNCHANGED <<tokens, s>>
    /\ UNCHANGED main

\* Split of the clients: s goes past every delimiter.
SplitNext ==
    /\ program # "db"
    /\ find(s) # 0
    /\ tokens' = IF find(s) # s
                 THEN Append(tokens, SubSeq(text, s, find(s) - 1)) ELSE tokens
    /\ s' = find(s) + 1
    /\ UNCHANGED main

\* split of the DB servers: s goes past a delimiter only after a token.
splitNext ==
    /\ program = "db"
    /\ find(s) # 0
    /\ IF find(s) # s
       THEN /\ tokens' = Append(tokens, SubSeq(text, s, find(s) - 1))
            /\ s' = find(s) + 1
       ELSE UNCHANGED <<tokens, s>>
    /\ UNCHANGED main

Split ==
    /\ main = "split"
    /\ SplitNext \/ splitNext \/ SplitTail
    /\ UNCHANGED <<program, text, leafs, clients, collector>>

\* The text and its tokens are of no more use.
Forget == text' = <<>> /\ s' = 1 /\ tokens' = <<>>

-----------------------------------------------------------------------------
(* main of the clients.                                                    *)

\* Mutant: the thread is given client_id itself, not its value.
AddClient_ByReference ==
    \E c \in Clients :
        /\ client[c] = "none" /\ c = client_id + 1
        /\ client_id' = c
        /\ client' = [client EXCEPT ![c] = "started"]
        /\ id' = [d \in Clients |-> IF client'[d] = "started" THEN c ELSE id[d]]

\* client_add: a new id, a new thread.
AddClient ==
    \E c \in Clients :
        /\ client[c] = "none" /\ c = client_id + 1
        /\ client_id' = c
        /\ client' = [client EXCEPT ![c] = "started"]
        /\ id' = [id EXCEPT ![c] = c]

\* tokens[0], if there is one.
cmd == IF tokens = <<>> THEN <<>> ELSE tokens[1]

\* The command is obeyed; none, and any but quit and client_add, changes
\* nothing.
Obey ==
    /\ main = "obey"
    /\ \/ /\ cmd = <<Quit>>
          /\ main' = "quit"
          /\ UNCHANGED clients
       \/ /\ cmd = <<Add>>
          /\ main' = "read"
          /\ AddClient
       \/ /\ cmd \notin {<<Quit>>, <<Add>>}
          /\ main' = "read"
          /\ UNCHANGED clients
    /\ Forget
    /\ UNCHANGED <<program, leafs, collector>>

\* Mutant: stop_ is not set.
LeaveScope_NoStop ==
    /\ main = "quit"
    /\ main' = IF started # {} THEN "terminated" ELSE "joining"
    /\ UNCHANGED <<program, parsing, leafs, clients, stats, alive, stop, dumper,
                   dumped>>

\* After quit: the threads in clients are destroyed, and none was joined;
\* then ~StatsCollector sets stop_ and joins the dump thread.
LeaveScope ==
    /\ main = "quit"
    /\ IF started # {} THEN main' = "terminated" /\ UNCHANGED stop
       ELSE main' = "joining" /\ stop' = TRUE
    /\ UNCHANGED <<program, parsing, leafs, clients, stats, alive, dumper,
                   dumped>>

\* thread_.join() returns, and main ends.
Joined ==
    /\ main = "joining"
    /\ dumper = "ended"
    /\ alive' = FALSE
    /\ main' = "exited"
    /\ UNCHANGED <<program, parsing, leafs, clients, stats, stop, dumper,
                   dumped>>

-----------------------------------------------------------------------------
(* main of the DB servers.                                                 *)

\* No token, or one without ':', throws; otherwise each is a leaf.
ParseLeafs ==
    /\ main = "parse"
    /\ IF /\ tokens # <<>>
          /\ \A k \in DOMAIN tokens : \E w \in HasColon : tokens[k] = <<w>>
       THEN main' = "serving" /\ leafs' = [k \in DOMAIN tokens |-> tokens[k][1]]
       ELSE main' = "terminated" /\ UNCHANGED leafs
    /\ Forget
    /\ UNCHANGED <<program, clients, collector>>

-----------------------------------------------------------------------------
(* A client thread.                                                        *)

\* CreateAsyncRpcClient of the domain-socket client: no server, assert.
ConnectFails(c) ==
    /\ running /\ client[c] = "started"
    /\ program = "domain"
    /\ main' = "asserted"
    /\ UNCHANGED <<program, parsing, leafs, clients, collector>>

\* ClientAdd, under the lock.
ClientAdd(c) ==
    /\ running /\ client[c] = "started"
    /\ IF id[c] \in DOMAIN stats
       THEN main' = "asserted" /\ UNCHANGED <<stats, client>>
       ELSE /\ stats' = [k \in DOMAIN stats \cup {id[c]} |->
                            IF k = id[c] THEN [ios |-> 0, updates |-> 0]
                            ELSE stats[k]]
            /\ client' = [client EXCEPT ![c] = "running"]
            /\ UNCHANGED main
    /\ UNCHANGED <<program, parsing, leafs, client_id, id, alive, stop, dumper,
                   dumped>>

\* Mutant: the total is what is new.
Update_Overwrites(c) ==
    /\ running /\ client[c] = "running"
    /\ stats[id[c]].updates < MaxUpdates
    /\ \E n \in Ios :
           stats' = [stats EXCEPT ![id[c]] = [ios |-> n, updates |-> @.updates + 1]]
    /\ UNCHANGED <<program, main, parsing, leafs, clients, alive, stop, dumper,
                   dumped>>

\* Update, under the lock, once a second.
Update(c) ==
    /\ running /\ client[c] = "running"
    /\ IF id[c] \notin DOMAIN stats
       THEN main' = "asserted" /\ UNCHANGED stats
       ELSE /\ stats[id[c]].updates < MaxUpdates
            /\ \E n \in Ios :
                   stats' = [stats EXCEPT ![id[c]] =
                                [ios |-> @.ios + n, updates |-> @.updates + 1]]
            /\ UNCHANGED main
    /\ UNCHANGED <<program, parsing, leafs, clients, alive, stop, dumper,
                   dumped>>

\* A limited run ends; its entry in stats_ stays.
ClientEnds(c) ==
    /\ running /\ client[c] = "running"
    /\ client' = [client EXCEPT ![c] = "ended"]
    /\ UNCHANGED <<program, main, parsing, leafs, client_id, id, collector>>

-----------------------------------------------------------------------------
(* The dump thread.                                                        *)

\* while (not stop_)
RunTest ==
    /\ running /\ dumper = "test"
    /\ dumper' = IF stop THEN "ended" ELSE "sleep"
    /\ UNCHANGED <<program, main, parsing, leafs, clients, stats, alive, stop,
                   dumped>>

\* The I/Os of all clients, whose number DumpInfo prints client by client.
reported == UNION {{k} \X (1 .. stats[k].ios) : k \in DOMAIN stats}

\* After the sleep, DumpInfo, under the lock.
DumpInfo ==
    /\ running /\ dumper = "sleep"
    /\ dumped' = [clients |-> Cardinality(DOMAIN stats),
                  ios |-> Cardinality(reported)]
    /\ dumper' = "test"
    /\ UNCHANGED <<program, main, parsing, leafs, clients, stats, alive, stop>>

-----------------------------------------------------------------------------
Main == ReadText \/ Split \/ Obey \/ LeaveScope \/ Joined \/ ParseLeafs
Client(c) == ConnectFails(c) \/ ClientAdd(c) \/ Update(c) \/ ClientEnds(c)
Dumper == RunTest \/ DumpInfo

Next == Main \/ Dumper \/ \E c \in Clients : Client(c)

Spec == Init /\ [][Next]_vars

\* Threads run once they are started; nobody has to type a command.
FairSpec ==
    /\ Spec
    /\ WF_vars(Split \/ Obey \/ LeaveScope \/ Joined \/ ParseLeafs)
    /\ WF_vars(Dumper)

-----------------------------------------------------------------------------
\* Where the words are, up to position k; the last of them is word number
\* Cardinality(WordsUpTo(k)).
WordsUpTo(k) == {j \in 1 .. k : text[j] # Delim}

(***************************************************************************)
(* What Split and split return: every word of the text, in order, no word  *)
(* twice and none cut; an empty token, if any, only behind the last word.  *)
(***************************************************************************)
TokensRight ==
    main \in {"obey", "parse"} =>
        LET n == Cardinality(WordsUpTo(Len(text)))
        IN  /\ Len(tokens) \in {n, n + 1}
            /\ \A k \in WordsUpTo(Len(text)) :
                  tokens[Cardinality(WordsUpTo(k))] = <<text[k]>>
            /\ Len(tokens) = n + 1 => tokens[n + 1] = <<>>

\* An empty token that is not the last.
EmptyToken(t) ==
    \E k \in 1 .. Len(t) : t[k] = Delim /\ (k = 1 \/ t[k - 1] = Delim)

(***************************************************************************)
(* Splitting ends, except that split of the DB servers never does on a     *)
(* text with an empty token that is not the last.                          *)
(***************************************************************************)
SplitEnds ==
    main = "split" ~> main # "split" \/ (program = "db" /\ EmptyToken(text))

(***************************************************************************)
(* The asserts of the StatsCollector hold whenever commands and threads    *)
(* come: no id is added twice, and none updated before it is added.  Only  *)
(* the domain-socket client's assert on its connection may fail.  And no   *)
(* thread outlives it: when it is destroyed, its dump thread has ended and *)
(* there is no client thread that could call Update.                       *)
(***************************************************************************)
CollectorSound ==
    /\ main = "asserted" => program = "domain"
    /\ \A c \in Clients : client[c] = "running" => id[c] \in DOMAIN stats
    /\ \A c \in Clients : client[c] = "started" => id[c] \notin DOMAIN stats
    /\ program # "db" /\ ~alive => dumper = "ended" /\ started = {}

\* From one dump to the next no client and no I/O disappears.
DumpsGrow ==
    [][/\ dumped'.clients >= dumped.clients
       /\ dumped'.ios >= dumped.ios]_vars

(***************************************************************************)
(* quit ends the program: never normally if a client was ever added, and   *)
(* otherwise normally, after the dump thread's sleep.                      *)
(***************************************************************************)
QuitEnds ==
    main = "quit" ~>
        IF started = {} THEN main = "exited"
        ELSE main \in {"terminated", "asserted"}

-----------------------------------------------------------------------------
(* What the proofs add: the parts of an inductive invariant.               *)

\* Every variable but those of the text has its type.
TypeOK ==
    /\ program \in Programs
    /\ main \in MainPlaces
    /\ client_id \in Nat
    /\ client \in [Clients -> ClientPlaces]
    /\ id \in [Clients -> 0 .. MaxClients]
    /\ dumper \in {"test", "sleep", "ended"}

\* A thread has the id it was made with, and no id is ahead of client_id.
IdsFit == \A c \in started : id[c] = c /\ c <= client_id

\* stats_ has an entry for each client that has been added, and no other.
StatsFit == DOMAIN stats = {c \in Clients : client[c] \in {"running", "ended"}}

\* The end of main: nobody joins the dump thread while there are clients.
EndFits ==
    /\ main \in {"joining", "exited"} => started = {}
    /\ program # "db" /\ ~alive => main = "exited" /\ dumper = "ended"
    /\ main = "asserted" => program = "domain"

MainInv == TypeOK /\ IdsFit /\ StatsFit /\ EndFits

\* What a token of the text may be.
Tokens == {<<>>} \cup {<<text[k]>> : k \in 1 .. Len(text)}

\* The tokens are the words up to position k.
TokensUpTo(k) ==
    /\ Len(tokens) = Cardinality(WordsUpTo(k))
    /\ \A j \in WordsUpTo(k) : tokens[Cardinality(WordsUpTo(j))] = <<text[j]>>

\* While a text is split, s is behind a delimiter and the tokens are the
\* words in front of it.
SplitFits ==
    /\ text \in Texts \cup {<<>>}
    /\ tokens \in Seq(Tokens)
    /\ main = "split" =>
          /\ s \in 1 .. Len(text) + 1
          /\ s = 1 \/ text[s - 1] = Delim
          /\ TokensUpTo(s - 1)

SplitInv == SplitFits /\ TokensRight

\* The last dump showed no more than there is now.
DumpsFit ==
    /\ IsFiniteSet(reported)
    /\ \A k \in DOMAIN stats : stats[k] \in [ios : Nat, updates : Nat]
    /\ dumped.clients <= Cardinality(DOMAIN stats)
    /\ dumped.ios <= Cardinality(reported)
    /\ dumped \in [clients : Nat, ios : Nat]
=============================================================================
