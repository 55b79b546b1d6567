-------------------------- MODULE EchoBenchProofs --------------------------
(***************************************************************************)
(* Proofs about the raw-socket echo benchmark, for any queue depth, number *)
(* of requests, request size and room in the kernel, and however reads and *)
(* writes are cut.                                                         *)
(***************************************************************************)
EXTENDS EchoBench, SequenceTheorems, TLAPS

-----------------------------------------------------------------------------
(* Sequences that are cut and joined.                                      *)

\* A sequence cut after n elements.
LEMMA Cut ==
    ASSUME NEW S, NEW q \in Seq(S), NEW n \in 0 .. Len(q)
    PROVE  /\ SubSeq(q, 1, n) \in Seq(S) /\ Len(SubSeq(q, 1, n)) = n
           /\ SubSeq(q, n + 1, Len(q)) \in Seq(S)
           /\ Len(SubSeq(q, n + 1, Len(q))) = Len(q) - n
           /\ SubSeq(q, 1, n) \o SubSeq(q, n + 1, Len(q)) = q
<1>1. Len(q) \in Nat /\ n \in Nat /\ n <= Len(q) /\ \A i \in 1 .. Len(q) : q[i] \in S
  BY ElementOfSeq
<1>2. SubSeq(q, 1, n) \in Seq(S) /\ Len(SubSeq(q, 1, n)) = n
  <2>1. 1 \in Int /\ n \in Int /\ \A i \in 1 .. n : q[i] \in S
    BY <1>1
  <2>2. /\ SubSeq(q, 1, n) \in Seq(S)
        /\ Len(SubSeq(q, 1, n)) = IF 1 <= n THEN n - 1 + 1 ELSE 0
    BY <2>1, SubSeqProperties
  <2> QED BY <2>2, <1>1
<1>3. /\ SubSeq(q, n + 1, Len(q)) \in Seq(S)
      /\ Len(SubSeq(q, n + 1, Len(q))) = Len(q) - n
  <2>1. n + 1 \in Int /\ Len(q) \in Int /\ \A i \in n + 1 .. Len(q) : q[i] \in S
    BY <1>1
  <2>2. /\ SubSeq(q, n + 1, Len(q)) \in Seq(S)
        /\ Len(SubSeq(q, n + 1, Len(q))) =
              IF n + 1 <= Len(q) THEN Len(q) - (n + 1) + 1 ELSE 0
    BY <2>1, SubSeqProperties
  <2> QED BY <2>2, <1>1
<1>4. SubSeq(q, 1, n) \o SubSeq(q, n + 1, Len(q)) = q
  <2>1. 1 \in 1 .. Len(q) + 1 /\ n \in 1 - 1 .. Len(q) /\ Len(q) \in n .. Len(q)
    BY <1>1
  <2>2. SubSeq(q, 1, n) \o SubSeq(q, n + 1, Len(q)) = SubSeq(q, 1, Len(q))
    BY <2>1, ConcatAdjacentSubSeq
  <2> QED BY <2>2, SubSeqFull
<1> QED BY <1>2, <1>3, <1>4

\* Concatenation is associative.
LEMMA Assoc ==
    ASSUME NEW S, NEW a \in Seq(S), NEW b \in Seq(S), NEW c \in Seq(S)
    PROVE  (a \o b) \o c = a \o (b \o c)
BY ConcatAssociative

\* The same, with a name for what is joined.
LEMMA Joined ==
    ASSUME NEW S, NEW a \in Seq(S), NEW x \in Seq(S), NEW y \in Seq(S),
           NEW b, b = x \o y
    PROVE  (a \o x) \o y = a \o b
<1>1. (a \o x) \o y = a \o (x \o y)
  BY Assoc
<1> QED BY <1>1

\* The first n elements of b may be moved to the end of what is in front.
LEMMA Move ==
    ASSUME NEW S, NEW a \in Seq(S), NEW b \in Seq(S), NEW n \in 0 .. Len(b)
    PROVE  (a \o SubSeq(b, 1, n)) \o SubSeq(b, n + 1, Len(b)) = a \o b
<1> DEFINE x == SubSeq(b, 1, n)
           y == SubSeq(b, n + 1, Len(b))
<1>1. x \in Seq(S) /\ y \in Seq(S) /\ b = x \o y
  BY Cut
<1> HIDE DEF x, y
<1>2. (a \o x) \o y = a \o b
  BY <1>1, Joined
<1> QED BY <1>2 DEF x, y

-----------------------------------------------------------------------------
(* Whole requests.                                                         *)

\* Position j behind m requests is position j of its own.
LEMMA DivMod ==
    ASSUME NEW m \in Nat, NEW j \in 0 .. ReqSize - 1
    PROVE  (m * ReqSize + j) % ReqSize = j /\ (m * ReqSize + j) \div ReqSize = m
BY EchoAssumption

\* Quotient and remainder.
LEMMA ModFacts ==
    ASSUME NEW k \in Nat
    PROVE  /\ k \div ReqSize \in Nat /\ k % ReqSize \in 0 .. ReqSize - 1
           /\ k = (k \div ReqSize) * ReqSize + (k % ReqSize)
<1>0. ReqSize \in Nat /\ ReqSize > 0
  BY EchoAssumption
<1>1. k \div ReqSize \in Int
  BY <1>0
<1>2. k % ReqSize \in 0 .. ReqSize - 1
  BY <1>0
<1>3. k = (k \div ReqSize) * ReqSize + (k % ReqSize)
  BY <1>0
<1>4. k \div ReqSize >= 0
  BY <1>0
<1> QED BY <1>1, <1>2, <1>3, <1>4

\* One request further on.
LEMMA NextMod ==
    ASSUME NEW k \in Nat
    PROVE  /\ (k + ReqSize) % ReqSize = k % ReqSize
           /\ (k + ReqSize) \div ReqSize = (k \div ReqSize) + 1
BY EchoAssumption

-----------------------------------------------------------------------------
(* The stream of units, as six sequences joined.                           *)

Cat(a, b) == a \o b
Line(a, b, c, d, e, f) == Cat(Cat(Cat(Cat(Cat(a, b), c), d), e), f)

\* The length of a sequence of units.
LEMMA UnitsLen ==
    ASSUME NEW a \in Units
    PROVE  Len(a) \in Nat /\ (Len(a) = 0 <=> a = <<>>)
BY DEF Units

\* No units.
LEMMA NoUnits == <<>> \in Units /\ Len(<<>>) = 0
BY DEF Units

\* Concatenation, as something not to look into.
LEMMA CatFacts ==
    ASSUME NEW a, NEW b, a \in Units, b \in Units
    PROVE  /\ Cat(a, b) \in Units /\ Len(Cat(a, b)) = Len(a) + Len(b)
           /\ Cat(a, <<>>) = a /\ Cat(<<>>, a) = a
<1>1. a \o b \in Seq(Unit) /\ Len(a \o b) = Len(a) + Len(b)
  BY ConcatProperties DEF Units
<1>2. a \o <<>> = a /\ <<>> \o a = a
  BY ConcatEmptySeq DEF Units
<1> QED BY <1>1, <1>2 DEF Cat, Units

\* Joining is associative.
LEMMA CatAssoc ==
    ASSUME NEW a, NEW b, NEW c, a \in Units, b \in Units, c \in Units
    PROVE  Cat(Cat(a, b), c) = Cat(a, Cat(b, c))
BY Assoc DEF Cat, Units

\* What is joined is a sequence as long as its parts together.
LEMMA LineFacts ==
    ASSUME NEW a, NEW b, NEW c, NEW d, NEW e, NEW f, a \in Units,
           b \in Units, c \in Units, d \in Units, e \in Units, f \in Units
    PROVE  /\ Line(a, b, c, d, e, f) \in Units
           /\ Len(Line(a, b, c, d, e, f)) =
                 Len(a) + Len(b) + Len(c) + Len(d) + Len(e) + Len(f)
<1>1. Cat(a, b) \in Units /\ Len(Cat(a, b)) = Len(a) + Len(b)
  BY CatFacts
<1>2. /\ Cat(Cat(a, b), c) \in Units
      /\ Len(Cat(Cat(a, b), c)) = Len(Cat(a, b)) + Len(c)
  BY <1>1, CatFacts
<1>3. /\ Cat(Cat(Cat(a, b), c), d) \in Units
      /\ Len(Cat(Cat(Cat(a, b), c), d)) = Len(Cat(Cat(a, b), c)) + Len(d)
  BY <1>2, CatFacts
<1>4. /\ Cat(Cat(Cat(Cat(a, b), c), d), e) \in Units
      /\ Len(Cat(Cat(Cat(Cat(a, b), c), d), e)) =
            Len(Cat(Cat(Cat(a, b), c), d)) + Len(e)
  BY <1>3, CatFacts
<1>5. /\ Line(a, b, c, d, e, f) \in Units
      /\ Len(Line(a, b, c, d, e, f)) =
            Len(Cat(Cat(Cat(Cat(a, b), c), d), e)) + Len(f)
  BY <1>4, CatFacts DEF Line
<1> QED BY <1>1, <1>2, <1>3, <1>4, <1>5

\* The last two parts may be cut elsewhere.
LEMMA LineLast ==
    ASSUME NEW a, NEW b, NEW c, NEW d, NEW e, NEW f, NEW e2, NEW f2,
           a \in Units, b \in Units, c \in Units, d \in Units, e \in Units,
           f \in Units, e2 \in Units, f2 \in Units, Cat(e2, f2) = Cat(e, f)
    PROVE  Line(a, b, c, d, e2, f2) = Line(a, b, c, d, e, f)
<1>1. Cat(Cat(Cat(a, b), c), d) \in Units
  BY CatFacts
<1> QED BY <1>1, CatAssoc DEF Line

\* What is sent is added at the end.
LEMMA LineSent ==
    ASSUME NEW a, NEW b, NEW c, NEW d, NEW e, NEW f, NEW e2, NEW f2, NEW u,
           a \in Units, b \in Units, c \in Units, d \in Units, e \in Units,
           f \in Units, e2 \in Units, f2 \in Units, u \in Units,
           Cat(e2, f2) = Cat(e, Cat(f, u))
    PROVE  Line(a, b, c, d, e2, f2) = Cat(Line(a, b, c, d, e, f), u)
<1> DEFINE p == Cat(Cat(Cat(a, b), c), d)
<1>1. p \in Units /\ Cat(p, e) \in Units /\ Cat(f, u) \in Units
  BY CatFacts
<1>2. /\ Line(a, b, c, d, e2, f2) = Cat(Cat(p, e2), f2)
      /\ Line(a, b, c, d, e, f) = Cat(Cat(p, e), f)
  BY DEF Line
<1> HIDE DEF p
<1>3. Cat(Cat(p, e2), f2) = Cat(p, Cat(e, Cat(f, u)))
  BY <1>1, CatAssoc
<1>4. Cat(p, Cat(e, Cat(f, u))) = Cat(Cat(p, e), Cat(f, u))
  BY <1>1, CatAssoc
<1>5. Cat(Cat(p, e), Cat(f, u)) = Cat(Cat(Cat(p, e), f), u)
  BY <1>1, CatAssoc
<1> QED BY <1>2, <1>3, <1>4, <1>5

\* The fourth and the fifth part.
LEMMA LineFourth ==
    ASSUME NEW a, NEW b, NEW c, NEW d, NEW e, NEW f, NEW d2, NEW e2,
           a \in Units, b \in Units, c \in Units, d \in Units, e \in Units,
           d2 \in Units, e2 \in Units, Cat(d2, e2) = Cat(d, e)
    PROVE  Line(a, b, c, d2, e2, f) = Line(a, b, c, d, e, f)
<1>1. Cat(Cat(a, b), c) \in Units
  BY CatFacts
<1> QED BY <1>1, CatAssoc DEF Line

\* The second and the third.
LEMMA LineSecond ==
    ASSUME NEW a, NEW b, NEW c, NEW d, NEW e, NEW f, NEW b2, NEW c2,
           a \in Units, b \in Units, c \in Units, b2 \in Units, c2 \in Units,
           Cat(b2, c2) = Cat(b, c)
    PROVE  Line(a, b2, c2, d, e, f) = Line(a, b, c, d, e, f)
BY CatAssoc DEF Line

\* The first two.
LEMMA LineFirst ==
    ASSUME NEW a, NEW b, NEW c, NEW d, NEW e, NEW f, NEW a2, NEW b2,
           Cat(a2, b2) = Cat(a, b)
    PROVE  Line(a2, b2, c, d, e, f) = Line(a, b, c, d, e, f)
BY DEF Line

\* A request the server has read whole goes back behind what it wrote.
LEMMA LineEchoed ==
    ASSUME NEW a, NEW b, NEW c, NEW d, NEW e, NEW f, NEW b2, NEW c2, NEW e2,
           NEW u, a \in Units, b \in Units, c \in Units, d \in Units,
           e \in Units, b2 \in Units, c2 \in Units, e2 \in Units,
           u \in Units, Cat(b2, c2) = Cat(b, Cat(c, u)),
           Cat(u, e2) = Cat(d, e)
    PROVE  Line(a, b2, c2, <<>>, e2, f) = Line(a, b, c, d, e, f)
<1> DEFINE p == Cat(Cat(a, b), c)
<1>1. p \in Units /\ Cat(a, b) \in Units /\ Cat(c, u) \in Units
  BY CatFacts
<1>2. /\ Line(a, b2, c2, <<>>, e2, f) = Cat(Cat(Cat(Cat(Cat(a, b2), c2), <<>>), e2), f)
      /\ Line(a, b, c, d, e, f) = Cat(Cat(Cat(p, d), e), f)
  BY DEF Line
<1>3. Cat(Cat(a, b2), c2) = Cat(p, u)
  <2>1. Cat(Cat(a, b2), c2) = Cat(a, Cat(b, Cat(c, u)))
    BY CatAssoc
  <2>2. Cat(a, Cat(b, Cat(c, u))) = Cat(Cat(a, b), Cat(c, u))
    BY <1>1, CatAssoc
  <2>3. Cat(Cat(a, b), Cat(c, u)) = Cat(Cat(Cat(a, b), c), u)
    BY <1>1, CatAssoc
  <2> QED BY <2>1, <2>2, <2>3
<1> HIDE DEF p
<1>4. Cat(p, u) \in Units /\ Cat(Cat(p, u), <<>>) = Cat(p, u)
  BY <1>1, CatFacts
<1>5. Cat(Cat(p, u), e2) = Cat(Cat(p, d), e)
  BY <1>1, CatAssoc
<1> QED BY <1>2, <1>3, <1>4, <1>5

\* An answer the client has read whole is taken off the front.
LEMMA LineAnswered ==
    ASSUME NEW a, NEW b, NEW c, NEW d, NEW e, NEW f, NEW b2, NEW u,
           a \in Units, b \in Units, c \in Units, d \in Units, e \in Units,
           f \in Units, b2 \in Units, u \in Units, Cat(u, b2) = Cat(a, b)
    PROVE  Line(a, b, c, d, e, f) = Cat(u, Line(<<>>, b2, c, d, e, f))
<1>1. Cat(<<>>, b2) = b2
  BY CatFacts
<1>2. Cat(Cat(u, b2), c) = Cat(u, Cat(b2, c)) /\ Cat(b2, c) \in Units
  BY CatAssoc, CatFacts
<1>3. /\ Cat(Cat(u, Cat(b2, c)), d) = Cat(u, Cat(Cat(b2, c), d))
      /\ Cat(Cat(b2, c), d) \in Units
  BY <1>2, CatAssoc, CatFacts
<1>4. /\ Cat(Cat(u, Cat(Cat(b2, c), d)), e) = Cat(u, Cat(Cat(Cat(b2, c), d), e))
      /\ Cat(Cat(Cat(b2, c), d), e) \in Units
  BY <1>3, CatAssoc, CatFacts
<1>5. Cat(Cat(u, Cat(Cat(Cat(b2, c), d), e)), f)
         = Cat(u, Cat(Cat(Cat(Cat(b2, c), d), e), f))
  BY <1>4, CatAssoc
<1> QED BY <1>1, <1>2, <1>3, <1>4, <1>5 DEF Line

-----------------------------------------------------------------------------
(* Requests in a stream.                                                   *)

\* The parts of requests, one after another; and their ids, the first c + 1.
Parts(q) == \A k \in 1 .. Len(q) : q[k][2] = ((k - 1) % ReqSize) + 1
Ids(q, c) == \A k \in 1 .. Len(q) : q[k][1] = c + 1 + ((k - 1) \div ReqSize)

\* What is where in two sequences joined.
LEMMA CatAt ==
    ASSUME NEW a, NEW b, a \in Units, b \in Units
    PROVE  /\ \A i \in 1 .. Len(a) : Cat(a, b)[i] = a[i]
           /\ \A i \in 1 .. Len(b) : Cat(a, b)[Len(a) + i] = b[i]
<1>1. \A i \in 1 .. Len(a) + Len(b) :
         Cat(a, b)[i] = IF i <= Len(a) THEN a[i] ELSE b[i - Len(a)]
  BY ConcatProperties DEF Cat, Units
<1>2. Len(a) \in Nat /\ Len(b) \in Nat
  BY UnitsLen
<1>3. \A i \in 1 .. Len(a) : Cat(a, b)[i] = a[i]
  BY <1>1, <1>2
<1>4. ASSUME NEW i \in 1 .. Len(b) PROVE Cat(a, b)[Len(a) + i] = b[i]
  <2>1. /\ Len(a) + i \in 1 .. Len(a) + Len(b)
        /\ ~(Len(a) + i <= Len(a)) /\ (Len(a) + i) - Len(a) = i
    BY <1>2, <1>4
  <2> QED BY <1>1, <2>1
<1> QED BY <1>3, <1>4

\* The same, element by element.
LEMMA CatLeft ==
    ASSUME NEW a, NEW b, NEW i, a \in Units, b \in Units, i \in 1 .. Len(a)
    PROVE  Cat(a, b)[i] = a[i]
BY CatAt

\* The same, behind the first sequence.
LEMMA CatRight ==
    ASSUME NEW a, NEW b, NEW i, NEW n, a \in Units, b \in Units,
           n = Len(a), i \in 1 .. Len(b)
    PROVE  Cat(a, b)[n + i] = b[i]
BY CatAt

\* A request, unit by unit.
LEMMA RequestFacts ==
    ASSUME NEW i \in Nat
    PROVE  /\ Request(i) \in Units /\ Len(Request(i)) = ReqSize
           /\ \A j \in 1 .. ReqSize : Request(i)[j] = <<i, j>>
BY EchoAssumption DEF Request, Unit, Units

\* A request is sent behind m others.
LEMMA Sent ==
    ASSUME NEW q, NEW m, NEW i, NEW r, q \in Units, m \in Nat, i \in Nat,
           Len(q) = m * ReqSize, r = Cat(q, Request(i))
    PROVE  /\ r \in Units /\ Len(r) = (m + 1) * ReqSize
           /\ Len(r) = Len(q) + ReqSize
           /\ Parts(q) => Parts(r)
           /\ \A c \in Nat : Ids(q, c) /\ i = c + 1 + m => Ids(r, c)
<1>0. ReqSize \in Nat /\ ReqSize > 0 /\ Len(q) \in Nat
  BY EchoAssumption, UnitsLen
<1>1. /\ Request(i) \in Units /\ Len(Request(i)) = ReqSize
      /\ \A j \in 1 .. ReqSize : Request(i)[j] = <<i, j>>
  BY RequestFacts
<1>2. r \in Units /\ Len(r) = Len(q) + ReqSize
  BY <1>1, CatFacts
<1>3. Len(r) = (m + 1) * ReqSize
  BY <1>0, <1>2
<1>4. /\ \A k \in 1 .. Len(q) : r[k] = q[k]
      /\ \A j \in 1 .. ReqSize : r[Len(q) + j] = Request(i)[j]
  <2>1. ASSUME NEW k \in 1 .. Len(q) PROVE Cat(q, Request(i))[k] = q[k]
    BY <1>1, CatLeft
  <2>2. ASSUME NEW j \in 1 .. ReqSize
        PROVE  Cat(q, Request(i))[Len(q) + j] = Request(i)[j]
    <3>1. j \in 1 .. Len(Request(i))
      BY <1>1
    <3> QED BY <1>1, <3>1, CatRight
  <2> QED BY <2>1, <2>2
<1>5. \A j \in 1 .. ReqSize : r[Len(q) + j] = <<i, j>>
  BY <1>1, <1>4
<1>6. ASSUME NEW k \in 1 .. Len(r), k \notin 1 .. Len(q)
      PROVE  /\ r[k] = <<i, k - Len(q)>>
             /\ ((k - 1) % ReqSize) + 1 = k - Len(q)
             /\ (k - 1) \div ReqSize = m
  <2>1. /\ k - Len(q) \in 1 .. ReqSize /\ k = Len(q) + (k - Len(q))
        /\ k - Len(q) - 1 \in 0 .. ReqSize - 1
        /\ k - 1 = Len(q) + (k - Len(q) - 1)
    BY <1>0, <1>2, <1>6
  <2>2. r[k] = <<i, k - Len(q)>>
    <3> DEFINE j == k - Len(q)
    <3>1. j \in 1 .. ReqSize /\ k = Len(q) + j
      BY <2>1
    <3> HIDE DEF j
    <3>2. r[k] = <<i, j>>
      BY <1>5, <3>1
    <3> QED BY <3>2 DEF j
  <2> DEFINE l == k - Len(q) - 1
  <2>3. l \in 0 .. ReqSize - 1 /\ k - 1 = m * ReqSize + l
    BY <2>1
  <2> HIDE DEF l
  <2>4. (m * ReqSize + l) % ReqSize = l /\ (m * ReqSize + l) \div ReqSize = m
    BY <2>3, DivMod
  <2>5. (k - 1) % ReqSize = l /\ (k - 1) \div ReqSize = m
    BY <2>3, <2>4
  <2> QED BY <2>1, <2>2, <2>5, <1>0 DEF l
<1>7. ASSUME Parts(q) PROVE Parts(r)
  <2> SUFFICES ASSUME NEW k \in 1 .. Len(r)
               PROVE  r[k][2] = ((k - 1) % ReqSize) + 1
    BY DEF Parts
  <2>1. CASE k \in 1 .. Len(q)
    BY <2>1, <1>4, <1>7 DEF Parts
  <2>2. CASE k \notin 1 .. Len(q)
    BY <2>2, <1>6
  <2> QED BY <2>1, <2>2
<1>8. ASSUME NEW c \in Nat, Ids(q, c), i = c + 1 + m PROVE Ids(r, c)
  <2> SUFFICES ASSUME NEW k \in 1 .. Len(r)
               PROVE  r[k][1] = c + 1 + ((k - 1) \div ReqSize)
    BY DEF Ids
  <2>1. CASE k \in 1 .. Len(q)
    BY <2>1, <1>4, <1>8 DEF Ids
  <2>2. CASE k \notin 1 .. Len(q)
    <3>1. r[k][1] = i /\ (k - 1) \div ReqSize = m
      BY <2>2, <1>6
    <3> QED BY <3>1, <1>8
  <2> QED BY <2>1, <2>2
<1> QED BY <1>2, <1>3, <1>7, <1>8

\* A request is taken off the front.
LEMMA Answered ==
    ASSUME NEW q, NEW u \in Units, NEW r \in Units, q = Cat(u, r),
           Len(u) = ReqSize
    PROVE  /\ Len(r) = Len(q) - ReqSize /\ Len(q) >= ReqSize /\ q[1] = u[1]
           /\ Parts(q) => Parts(r)
           /\ \A c \in Nat : Ids(q, c) => Ids(r, c + 1)
<1>0. ReqSize \in Nat /\ ReqSize > 0 /\ Len(r) \in Nat
  BY EchoAssumption
<1>1. Len(q) = ReqSize + Len(r)
  BY CatFacts
<1>2. /\ \A k \in 1 .. ReqSize : q[k] = u[k]
      /\ \A k \in 1 .. Len(r) : q[ReqSize + k] = r[k]
  <2>1. ASSUME NEW k \in 1 .. ReqSize PROVE Cat(u, r)[k] = u[k]
    BY CatLeft
  <2>2. ASSUME NEW k \in 1 .. Len(r) PROVE Cat(u, r)[ReqSize + k] = r[k]
    <3>1. ReqSize = Len(u)
      OBVIOUS
    <3> QED BY <3>1, CatRight
  <2> QED BY <2>1, <2>2
<1>3. q[1] = u[1]
  BY <1>0, <1>2
<1>4. ASSUME NEW k \in 1 .. Len(r)
      PROVE  /\ r[k] = q[ReqSize + k] /\ ReqSize + k \in 1 .. Len(q)
             /\ ((ReqSize + k) - 1) % ReqSize = (k - 1) % ReqSize
             /\ ((ReqSize + k) - 1) \div ReqSize = ((k - 1) \div ReqSize) + 1
             /\ (k - 1) \div ReqSize \in Nat
  <2>1. k - 1 \in Nat /\ (ReqSize + k) - 1 = (k - 1) + ReqSize
        /\ ReqSize + k \in 1 .. Len(q)
    BY <1>0, <1>1
  <2>2. /\ ((k - 1) + ReqSize) % ReqSize = (k - 1) % ReqSize
        /\ ((k - 1) + ReqSize) \div ReqSize = ((k - 1) \div ReqSize) + 1
    BY <2>1, NextMod
  <2>3. (k - 1) \div ReqSize \in Nat
    BY <2>1, ModFacts
  <2>4. r[k] = q[ReqSize + k]
    BY <1>2
  <2> QED BY <2>1, <2>2, <2>3, <2>4
<1>5. ASSUME Parts(q) PROVE Parts(r)
  <2> SUFFICES ASSUME NEW k \in 1 .. Len(r)
               PROVE  r[k][2] = ((k - 1) % ReqSize) + 1
    BY DEF Parts
  <2>1. q[ReqSize + k][2] = (((ReqSize + k) - 1) % ReqSize) + 1
    BY <1>4, <1>5 DEF Parts
  <2> QED BY <2>1, <1>4
<1>6. ASSUME NEW c \in Nat, Ids(q, c) PROVE Ids(r, c + 1)
  <2> SUFFICES ASSUME NEW k \in 1 .. Len(r)
               PROVE  r[k][1] = (c + 1) + 1 + ((k - 1) \div ReqSize)
    BY DEF Ids
  <2>1. q[ReqSize + k][1] = c + 1 + (((ReqSize + k) - 1) \div ReqSize)
    BY <1>4, <1>6 DEF Ids
  <2> QED BY <2>1, <1>4
<1> QED BY <1>0, <1>1, <1>3, <1>5, <1>6

\* The same parts, whatever the ids.
SameParts(f, g) ==
    Len(g) = Len(f) /\ \A k \in 1 .. Len(f) : g[k][2] = f[k][2]

\* Spoiling ids at the end leaves the parts as they are.
LEMMA Spoilt ==
    ASSUME NEW w \in Units, NEW f \in Units, NEW g \in Units,
           SameParts(f, g), Parts(Cat(w, f))
    PROVE  Parts(Cat(w, g)) /\ Len(Cat(w, g)) = Len(Cat(w, f))
<1>0. /\ Len(Cat(w, f)) = Len(w) + Len(f) /\ Len(Cat(w, g)) = Len(w) + Len(g)
      /\ Len(w) \in Nat /\ Len(f) \in Nat
  BY CatFacts, UnitsLen
<1>1. /\ Len(Cat(w, f)) = Len(w) + Len(f) /\ Len(Cat(w, g)) = Len(w) + Len(f)
      /\ Len(w) \in Nat /\ Len(f) \in Nat
  BY <1>0 DEF SameParts
<1> SUFFICES ASSUME NEW k \in 1 .. Len(w) + Len(f)
             PROVE  Cat(w, g)[k][2] = ((k - 1) % ReqSize) + 1
  BY <1>1 DEF Parts
<1>2. Cat(w, f)[k][2] = ((k - 1) % ReqSize) + 1
  BY <1>1 DEF Parts
<1>3. CASE k \in 1 .. Len(w)
  <2>1. Cat(w, f)[k] = w[k]
    BY <1>3, CatLeft
  <2>2. Cat(w, g)[k] = w[k]
    BY <1>3, CatLeft
  <2> QED BY <1>2, <2>1, <2>2
<1>4. CASE k \notin 1 .. Len(w)
  <2> DEFINE i == k - Len(w)
  <2>0. i \in 1 .. Len(f) /\ i \in 1 .. Len(g)
    BY <1>1, <1>4 DEF SameParts
  <2>1. k = Len(w) + i
    BY <1>1, <1>4
  <2> HIDE DEF i
  <2>2. \A j \in 1 .. Len(f) : Cat(w, f)[Len(w) + j] = f[j]
    BY CatAt
  <2>3. \A j \in 1 .. Len(g) : Cat(w, g)[Len(w) + j] = g[j]
    BY CatAt
  <2> QED BY <1>2, <2>0, <2>1, <2>2, <2>3 DEF SameParts
<1> QED BY <1>3, <1>4

\* Where the third and the last part begin.
LEMMA LineAt ==
    ASSUME NEW a, NEW b, NEW c, NEW d, NEW e, NEW f, a \in Units,
           b \in Units, c \in Units, d \in Units, e \in Units, f \in Units
    PROVE  /\ Len(c) > 0 =>
                 Line(a, b, c, d, e, f)[Len(a) + Len(b) + 1] = c[1]
           /\ Len(f) > 0 =>
                 Line(a, b, c, d, e, f)[
                     Len(a) + Len(b) + Len(c) + Len(d) + Len(e) + 1] = f[1]
<1> DEFINE v == Cat(a, b)
           x == Cat(v, c)
           y == Cat(x, d)
           z == Cat(y, e)
<1>0. Line(a, b, c, d, e, f) = Cat(z, f)
  BY DEF Line
<1>1. v \in Units /\ Len(v) = Len(a) + Len(b) /\ Len(a) \in Nat /\ Len(b) \in Nat
  BY CatFacts, UnitsLen
<1> HIDE DEF v
<1>2. x \in Units /\ Len(x) = Len(v) + Len(c) /\ Len(c) \in Nat
  BY <1>1, CatFacts, UnitsLen
<1>2a. ASSUME Len(c) > 0, NEW k, k = Len(v) + 1 PROVE x[k] = c[1]
  <2>1. 1 \in 1 .. Len(c)
    BY <1>2, <1>2a
  <2>2. \A j \in 1 .. Len(c) : x[Len(v) + j] = c[j]
    <3>1. v \in Units
      BY <1>1
    <3> QED BY <3>1, CatAt
  <2> QED BY <1>2a, <2>1, <2>2
<1> HIDE DEF x
<1>3. y \in Units /\ Len(y) = Len(x) + Len(d) /\ Len(d) \in Nat
  BY <1>2, CatFacts, UnitsLen
<1>3a. \A k \in 1 .. Len(x) : y[k] = x[k]
  BY <1>2, CatLeft
<1> HIDE DEF y
<1>4. z \in Units /\ Len(z) = Len(y) + Len(e) /\ Len(e) \in Nat
  BY <1>3, CatFacts, UnitsLen
<1>4a. \A k \in 1 .. Len(y) : z[k] = y[k]
  BY <1>3, CatLeft
<1> HIDE DEF z
<1>5. ASSUME NEW k \in 1 .. Len(z) PROVE Cat(z, f)[k] = z[k]
  BY <1>4, CatLeft
<1>6. ASSUME Len(c) > 0
      PROVE  Line(a, b, c, d, e, f)[Len(a) + Len(b) + 1] = c[1]
  <2> DEFINE k == Len(v) + 1
  <2>1. /\ k \in 1 .. Len(x) /\ k \in 1 .. Len(y) /\ k \in 1 .. Len(z)
        /\ k = Len(a) + Len(b) + 1
    BY <1>1, <1>2, <1>3, <1>4, <1>6
  <2>2. x[k] = c[1]
    BY <1>2a, <1>6
  <2> HIDE DEF k
  <2>3. Cat(z, f)[k] = z[k] /\ z[k] = y[k] /\ y[k] = x[k]
    BY <1>3a, <1>4a, <1>5, <2>1
  <2> QED BY <1>0, <2>1, <2>2, <2>3
<1>7. ASSUME Len(f) > 0
      PROVE  Line(a, b, c, d, e, f)[
                 Len(a) + Len(b) + Len(c) + Len(d) + Len(e) + 1] = f[1]
  <2>1. Len(z) = Len(a) + Len(b) + Len(c) + Len(d) + Len(e)
    BY <1>1, <1>2, <1>3, <1>4
  <2>2. 1 \in 1 .. Len(f) /\ z \in Units
    BY <1>4, <1>7
  <2>3. Cat(z, f)[Len(z) + 1] = f[1]
    <3>1. \A j \in 1 .. Len(f) : Cat(z, f)[Len(z) + j] = f[j]
      BY <2>2, CatAt
    <3> QED BY <2>2, <3>1
  <2> QED BY <1>0, <2>1, <2>3
<1> QED BY <1>6, <1>7

\* What is left behind p units of whole requests is at least the rest of the
\* request that is cut there.
LEMMA RestFits ==
    ASSUME NEW p \in Nat, NEW c \in Nat \ {0}, Whole(p + c)
    PROVE  ReqSize - (p % ReqSize) <= c
<1> DEFINE d == p \div ReqSize
           j == p % ReqSize
<1>0. ReqSize \in Nat /\ ReqSize > 0
  BY EchoAssumption
<1>1. d \in Nat /\ j \in 0 .. ReqSize - 1 /\ p = d * ReqSize + j
  BY ModFacts
<1>2. PICK m \in Nat : p + c = m * ReqSize
  BY DEF Whole
<1> HIDE DEF d, j
<1>3. d < m
  <2> SUFFICES ASSUME m <= d PROVE FALSE
    BY <1>1
  <2>1. m * ReqSize <= d * ReqSize
    BY <1>0, <1>1
  <2>2. m * ReqSize \in Nat /\ d * ReqSize \in Nat
    BY <1>0, <1>1
  <2> QED BY <1>0, <1>1, <1>2, <2>1, <2>2
<1>4. (d + 1) * ReqSize <= m * ReqSize
  BY <1>0, <1>1, <1>3
<1>5. (d + 1) * ReqSize = d * ReqSize + ReqSize
  BY <1>0, <1>1
<1>6. m * ReqSize \in Nat /\ d * ReqSize \in Nat
  BY <1>0, <1>1
<1>7. ReqSize - j <= c
  BY <1>0, <1>1, <1>2, <1>4, <1>5, <1>6
<1> QED BY <1>7 DEF j

\* One request more.
LEMMA WholeMore == ASSUME NEW n \in Nat, Whole(n) PROVE Whole(n + ReqSize)
<1>1. PICK m \in Nat : n = m * ReqSize
  BY DEF Whole
<1>2. n + ReqSize = (m + 1) * ReqSize /\ m + 1 \in Nat
  BY <1>1, EchoAssumption
<1> QED BY <1>2 DEF Whole

\* And one less.
LEMMA WholeLess ==
    ASSUME NEW n \in Nat, Whole(n), n >= ReqSize PROVE Whole(n - ReqSize)
<1>1. PICK m \in Nat : n = m * ReqSize
  BY DEF Whole
<1>2. m # 0
  BY <1>1, EchoAssumption
<1>3. n - ReqSize = (m - 1) * ReqSize /\ m - 1 \in Nat
  BY <1>1, <1>2, EchoAssumption
<1> QED BY <1>3 DEF Whole

\* What is in front of a cut, joined to what was read or written before it,
\* and what is behind it.
Upto(a, b, n) == a \o SubSeq(b, 1, n)
From(b, n) == SubSeq(b, n + 1, Len(b))

\* Units that go from b to the end of a.
LEMMA Moved ==
    ASSUME NEW a, NEW b, NEW n, a \in Units, b \in Units, n \in 0 .. Len(b)
    PROVE  /\ Upto(a, b, n) \in Units /\ Len(Upto(a, b, n)) = Len(a) + n
           /\ From(b, n) \in Units /\ Len(From(b, n)) = Len(b) - n
           /\ Cat(Upto(a, b, n), From(b, n)) = Cat(a, b)
<1> DEFINE x == SubSeq(b, 1, n)
           y == SubSeq(b, n + 1, Len(b))
<1>1. /\ x \in Seq(Unit) /\ Len(x) = n
      /\ y \in Seq(Unit) /\ Len(y) = Len(b) - n
  BY Cut DEF Units
<1>2. (a \o x) \o y = a \o b
  BY Move DEF Units
<1> HIDE DEF x, y
<1>3. a \o x \in Seq(Unit) /\ Len(a \o x) = Len(a) + Len(x)
  BY <1>1, ConcatProperties DEF Units
<1>4. Cat(a \o x, y) = Cat(a, b)
  BY <1>2 DEF Cat
<1> QED BY <1>1, <1>3, <1>4 DEF x, y, Upto, From, Units

\* What a ReadCallback has after a read, and what is left in the kernel.
LEMMA ReadFacts ==
    ASSUME NEW pipe, NEW buf, NEW n, pipe \in Units, buf \in Units,
           Len(buf) < ReqSize, n \in Reads(pipe, buf)
    PROVE  /\ Upto(buf, pipe, n) \in Units /\ From(pipe, n) \in Units
           /\ Len(Upto(buf, pipe, n)) <= ReqSize
           /\ Len(From(pipe, n)) <= Len(pipe)
           /\ Cat(Upto(buf, pipe, n), From(pipe, n)) = Cat(buf, pipe)
<1>1. Len(pipe) \in Nat /\ Len(buf) \in Nat /\ ReqSize \in Nat
  BY EchoAssumption, UnitsLen
<1>2. n \in 0 .. Len(pipe) /\ Len(buf) + n <= ReqSize /\ n \in Nat
  BY <1>1 DEF Reads, getReadBuffer, Smaller
<1>3. /\ Upto(buf, pipe, n) \in Units /\ Len(Upto(buf, pipe, n)) = Len(buf) + n
      /\ From(pipe, n) \in Units /\ Len(From(pipe, n)) = Len(pipe) - n
      /\ Cat(Upto(buf, pipe, n), From(pipe, n)) = Cat(buf, pipe)
  BY <1>2, Moved
<1> QED BY <1>1, <1>2, <1>3

\* What the loop writes of the units that wait.
LEMMA FlushFacts ==
    ASSUME NEW out, NEW pipe, out \in Units, pipe \in Units, Len(pipe) < Room,
           Len(out) > 0, ReqSize - out[1][2] + 1 <= Len(out)
    PROVE  LET n == Flushed(out, pipe)
           IN  /\ n \in 1 .. Len(out)
               /\ Upto(pipe, out, n) \in Units /\ Len(Upto(pipe, out, n)) <= Room
               /\ Len(Upto(pipe, out, n)) = Len(pipe) + n
               /\ From(out, n) \in Units /\ Len(From(out, n)) = Len(out) - n
               /\ Cat(Upto(pipe, out, n), From(out, n)) = Cat(pipe, out)
<1> DEFINE n == Flushed(out, pipe)
<1>0. Len(pipe) \in Nat /\ Len(out) \in Nat
  BY UnitsLen
<1>1. ReqSize \in Nat /\ Room \in Nat /\ out[1][2] \in 1 .. ReqSize
  <2>1. 1 \in 1 .. Len(out)
    BY <1>0
  <2>2. out[1] \in Unit
    BY <2>1, ElementOfSeq DEF Units
  <2> QED BY <2>2, EchoAssumption DEF Unit
<1>2. n \in 1 .. Len(out) /\ n \in 0 .. Len(out) /\ Len(pipe) + n <= Room
  BY <1>0, <1>1 DEF Flushed, Smaller
<1> HIDE DEF n
<1>3. /\ Upto(pipe, out, n) \in Units /\ Len(Upto(pipe, out, n)) = Len(pipe) + n
      /\ From(out, n) \in Units /\ Len(From(out, n)) = Len(out) - n
      /\ Cat(Upto(pipe, out, n), From(out, n)) = Cat(pipe, out)
  BY <1>2, Moved
<1>4. Len(Upto(pipe, out, n)) <= Room
  BY <1>2, <1>3
<1> QED BY <1>2, <1>3, <1>4 DEF n

(***************************************************************************)
(* A write puts the units behind those in the kernel and those waiting,    *)
(* and the kernel never holds more than it has room for.                   *)
(***************************************************************************)
LEMMA Wrote ==
    ASSUME NEW out, NEW pipe, NEW units, out \in Units,
           pipe \in Units, units \in Units, Len(pipe) <= Room
    PROVE  /\ Waiting(out, pipe, units) \in Units
           /\ InKernel(out, pipe, units) \in Units
           /\ Len(InKernel(out, pipe, units)) <= Room
           /\ Cat(InKernel(out, pipe, units), Waiting(out, pipe, units))
                 = Cat(pipe, Cat(out, units))
<1>0. out \in Seq(Unit) /\ pipe \in Seq(Unit) /\ units \in Seq(Unit)
  BY DEF Units
<1> DEFINE w == Written(out, pipe, units)
           all == out \o units
<1>1. /\ Len(pipe) \in Nat /\ Len(units) \in Nat /\ Room \in Nat
      /\ all \in Seq(Unit) /\ Len(all) = Len(out) + Len(units) /\ Len(out) \in Nat
  BY <1>0, EchoAssumption, ConcatProperties
<1>2. /\ w \in 0 .. Len(units) /\ w \in 0 .. Len(all)
      /\ Len(pipe) + w <= Room
      /\ out # <<>> => w = 0
  BY <1>1 DEF Written, Smaller
<1> HIDE DEF w
<1>3. /\ SubSeq(all, 1, w) \in Seq(Unit)
      /\ SubSeq(all, w + 1, Len(all)) \in Seq(Unit)
  BY <1>1, <1>2, Cut
<1>4. SubSeq(units, 1, w) \in Seq(Unit) /\ Len(SubSeq(units, 1, w)) = w
  BY <1>0, <1>2, Cut
<1>5. SubSeq(all, 1, w) = SubSeq(units, 1, w)
  <2>1. CASE out = <<>>
    <3>1. all = units
      BY <1>0, <2>1, ConcatEmptySeq
    <3> QED BY <3>1
  <2>2. CASE out # <<>>
    <3>1. w = 0 /\ 1 \in Int /\ 0 \in Int /\ 0 < 1
      BY <1>2, <2>2
    <3>2. SubSeq(all, 1, 0) = <<>> /\ SubSeq(units, 1, 0) = <<>>
      BY <3>1, SubSeqEmpty
    <3> QED BY <3>1, <3>2
  <2> QED BY <2>1, <2>2
<1>6. /\ Waiting(out, pipe, units) = SubSeq(all, w + 1, Len(all))
      /\ InKernel(out, pipe, units) = pipe \o SubSeq(all, 1, w)
  BY <1>5 DEF Waiting, InKernel, w
<1>7. (pipe \o SubSeq(all, 1, w)) \o SubSeq(all, w + 1, Len(all)) = pipe \o all
  BY <1>0, <1>1, <1>2, Move
<1>8. /\ pipe \o SubSeq(all, 1, w) \in Seq(Unit)
      /\ Len(pipe \o SubSeq(all, 1, w)) = Len(pipe) + w
  BY <1>0, <1>3, <1>4, <1>5, ConcatProperties
<1> QED BY <1>1, <1>2, <1>3, <1>6, <1>7, <1>8 DEF Units, Cat

-----------------------------------------------------------------------------
(* What each step does to the stream.                                      *)

\* The stream is the six sequences joined.
LEMMA StreamIs ==
    Stream = Line(clientBuf, down, serverOut, serverBuf, up, clientOut)
BY DEF Stream, Line, Cat

\* The stream is as long as its parts.
LEMMA StreamFacts ==
    ASSUME TypeOK
    PROVE  /\ Stream \in Units /\ Len(Stream) \in Nat
           /\ Len(Stream) = Len(clientBuf) + Len(down) + Len(serverOut)
                               + Len(serverBuf) + Len(up) + Len(clientOut)
           /\ Len(clientBuf) \in Nat /\ Len(down) \in Nat
           /\ Len(serverOut) \in Nat /\ Len(serverBuf) \in Nat
           /\ Len(up) \in Nat /\ Len(clientOut) \in Nat
<1>1. /\ clientBuf \in Units /\ down \in Units /\ serverOut \in Units
      /\ serverBuf \in Units /\ up \in Units /\ clientOut \in Units
  BY DEF TypeOK
<1> DEFINE line == Line(clientBuf, down, serverOut, serverBuf, up, clientOut)
<1>2. /\ line \in Units
      /\ Len(line) = Len(clientBuf) + Len(down) + Len(serverOut)
                        + Len(serverBuf) + Len(up) + Len(clientOut)
  BY <1>1, LineFacts
<1> HIDE DEF line
<1>3. Stream = line
  BY StreamIs DEF line
<1> QED BY <1>1, <1>2, <1>3

\* Framed and the middle of EchoedInOrder, in the terms of this module.
LEMMA FramedIs ==
    Framed <=> Len(clientBuf) < ReqSize /\ Len(serverBuf) < ReqSize /\ Parts(Stream)
BY DEF Framed, Parts

\* A pass of requests_send adds a request at the end.
LEMMA SendStream ==
    ASSUME TypeOK, BuffersFit, requests_send
    PROVE  /\ up' \in Units /\ clientOut' \in Units /\ Len(up') <= Room
           /\ Stream' = Cat(Stream, Request(request_id + 1))
<1> DEFINE u == Request(request_id + 1)
<1>1. u \in Units
  <2>1. request_id + 1 \in Nat
    BY DEF TypeOK
  <2> QED BY <2>1, RequestFacts
<1>2. /\ clientOut' = Waiting(clientOut, up, u) /\ up' = InKernel(clientOut, up, u)
      /\ UNCHANGED <<down, clientBuf, serverBuf, serverOut>>
  BY DEF requests_send, serverVars
<1> HIDE DEF u
<1>3. /\ clientBuf \in Units /\ down \in Units /\ serverOut \in Units
      /\ serverBuf \in Units /\ up \in Units /\ clientOut \in Units
      /\ Len(up) <= Room
  BY DEF TypeOK, BuffersFit
<1>4. /\ Waiting(clientOut, up, u) \in Units
      /\ InKernel(clientOut, up, u) \in Units
      /\ Len(InKernel(clientOut, up, u)) <= Room
      /\ Cat(InKernel(clientOut, up, u), Waiting(clientOut, up, u))
            = Cat(up, Cat(clientOut, u))
  BY <1>1, <1>3, Wrote
<1>5. up' \in Units /\ clientOut' \in Units /\ Len(up') <= Room
  BY <1>2, <1>4
<1>6. Cat(up', clientOut') = Cat(up, Cat(clientOut, u))
  BY <1>2, <1>4
<1>7. Line(clientBuf, down, serverOut, serverBuf, up', clientOut')
         = Cat(Line(clientBuf, down, serverOut, serverBuf, up, clientOut), u)
  <2>1. /\ clientBuf \in Units /\ down \in Units /\ serverOut \in Units
        /\ serverBuf \in Units /\ up \in Units /\ clientOut \in Units
        /\ up' \in Units /\ clientOut' \in Units /\ u \in Units
    BY <1>1, <1>3, <1>5
  <2> QED BY <2>1, <1>6, LineSent
<1>8. Stream' = Line(clientBuf, down, serverOut, serverBuf, up', clientOut')
  BY <1>2 DEF Stream, Line, Cat
<1> QED BY <1>5, <1>7, <1>8, StreamIs DEF u

\* A read of the server leaves the stream as it is.
LEMMA ServerReadStream ==
    ASSUME TypeOK, BuffersFit, Framed, ServerRead
    PROVE  /\ TypeOK' /\ BuffersFit' /\ Framed' /\ Stream' = Stream
<1>1. PICK n \in Reads(up, serverBuf) :
         LET buf == serverBuf \o SubSeq(up, 1, n)
         IN  /\ up' = SubSeq(up, n + 1, Len(up))
             /\ IF Complete(buf)
                THEN /\ serverBuf' = <<>>
                     /\ serverOut' = Waiting(serverOut, down, buf)
                     /\ down' = InKernel(serverOut, down, buf)
                ELSE serverBuf' = buf /\ UNCHANGED <<serverOut, down>>
  BY DEF ServerRead
<1> DEFINE buf == Upto(serverBuf, up, n)
<1>1a. /\ up' = From(up, n)
       /\ IF Complete(buf)
          THEN /\ serverBuf' = <<>>
               /\ serverOut' = Waiting(serverOut, down, buf)
               /\ down' = InKernel(serverOut, down, buf)
          ELSE serverBuf' = buf /\ UNCHANGED <<serverOut, down>>
  BY <1>1 DEF Upto, From
<1>2. UNCHANGED <<qdepth, client, server, toSend, request_id, outstanding,
                  answered, clientOut, clientBuf, delayed, link>>
  BY DEF ServerRead, clientVars
<1>3. /\ clientBuf \in Units /\ down \in Units /\ serverOut \in Units
      /\ serverBuf \in Units /\ up \in Units /\ clientOut \in Units
  BY DEF TypeOK
<1>3a. /\ Len(up) <= Room /\ Len(down) <= Room
       /\ Len(serverBuf) < ReqSize /\ Len(clientBuf) < ReqSize
       /\ Room \in Nat /\ ReqSize \in Nat /\ ReqSize > 0
  BY EchoAssumption DEF BuffersFit, Framed
<1>3b. /\ Len(up) \in Nat /\ Len(down) \in Nat /\ Len(clientBuf) \in Nat
       /\ Len(serverOut) \in Nat /\ Len(serverBuf) \in Nat
  BY <1>3, UnitsLen
<1>4. /\ buf \in Units /\ Len(buf) <= ReqSize
      /\ up' \in Units /\ Len(up') <= Len(up)
      /\ Cat(buf, up') = Cat(serverBuf, up)
  BY <1>1, <1>1a, <1>3, <1>3a, ReadFacts
<1>5. /\ Complete(buf) => /\ serverBuf' = <<>>
                          /\ serverOut' = Waiting(serverOut, down, buf)
                          /\ down' = InKernel(serverOut, down, buf)
                          /\ Len(buf) = ReqSize
      /\ ~Complete(buf) => /\ serverBuf' = buf /\ serverOut' = serverOut
                           /\ down' = down /\ Len(buf) < ReqSize
  <2>1. Len(buf) \in Nat
    BY <1>4, UnitsLen
  <2>2. Complete(buf) <=> Len(buf) >= ReqSize
    BY DEF Complete
  <2> HIDE DEF buf
  <2> QED BY <1>1a, <1>3a, <1>4, <2>1, <2>2
<1> HIDE DEF buf
<1>6. Stream' = Line(clientBuf, down', serverOut', serverBuf', up', clientOut)
  BY <1>2 DEF Stream, Line, Cat
<1>7. ASSUME serverBuf' \in Units, Len(serverBuf') < ReqSize,
             serverOut' \in Units, down' \in Units, Len(down') <= Room,
             Stream' = Stream,
             Whole(Len(clientBuf) + Len(down') + Len(serverOut'))
      PROVE  TypeOK' /\ BuffersFit' /\ Framed'
  <2>1. TypeOK'
    BY <1>2, <1>4, <1>7 DEF TypeOK
  <2>2. Len(up') <= Room
    <3>1. Len(up') \in Nat
      BY <1>4, UnitsLen
    <3> QED BY <1>3a, <1>3b, <1>4, <3>1
  <2>3. BuffersFit'
    BY <1>2, <1>7, <2>2 DEF BuffersFit, Whole
  <2>4. Framed'
    BY <1>2, <1>3a, <1>7 DEF Framed
  <2> QED BY <2>1, <2>3, <2>4
<1>8. CASE ~Complete(buf)
  <2>1. /\ serverBuf' = buf /\ serverOut' = serverOut /\ down' = down
        /\ Len(buf) < ReqSize
    BY <1>5, <1>8
  <2>2. Line(clientBuf, down, serverOut, buf, up', clientOut)
           = Line(clientBuf, down, serverOut, serverBuf, up, clientOut)
    BY <1>3, <1>4, LineFourth
  <2>3. Stream' = Stream
    BY <1>6, <2>1, <2>2, StreamIs
  <2>4. Whole(Len(clientBuf) + Len(down) + Len(serverOut))
    BY DEF BuffersFit
  <2> QED BY <1>3, <1>3a, <1>4, <1>7, <2>1, <2>3, <2>4
<1>9. CASE Complete(buf)
  <2>1. /\ serverBuf' = <<>> /\ serverOut' = Waiting(serverOut, down, buf)
        /\ down' = InKernel(serverOut, down, buf) /\ Len(buf) = ReqSize
    BY <1>5, <1>9
  <2>2. /\ Waiting(serverOut, down, buf) \in Units
        /\ InKernel(serverOut, down, buf) \in Units
        /\ Len(InKernel(serverOut, down, buf)) <= Room
        /\ Cat(InKernel(serverOut, down, buf), Waiting(serverOut, down, buf))
              = Cat(down, Cat(serverOut, buf))
    BY <1>3, <1>3a, <1>4, Wrote
  <2>3. /\ down' \in Units /\ serverOut' \in Units /\ Len(down') <= Room
        /\ serverBuf' \in Units /\ Len(serverBuf') = 0
    BY <2>1, <2>2, NoUnits
  <2>4. Cat(down', serverOut') = Cat(down, Cat(serverOut, buf))
    BY <2>1, <2>2
  <2>5. Line(clientBuf, down', serverOut', <<>>, up', clientOut)
           = Line(clientBuf, down, serverOut, serverBuf, up, clientOut)
    BY <1>3, <1>4, <2>3, <2>4, LineEchoed
  <2>6. Stream' = Stream
    BY <1>6, <2>1, <2>5, StreamIs
  <2>7. Len(down') + Len(serverOut') = Len(down) + Len(serverOut) + ReqSize
    <3>1. Len(Cat(down', serverOut')) = Len(down') + Len(serverOut')
      BY <2>3, CatFacts
    <3>2. /\ Cat(serverOut, buf) \in Units
          /\ Len(Cat(serverOut, buf)) = Len(serverOut) + Len(buf)
      BY <1>3, <1>4, CatFacts
    <3>3. Len(Cat(down, Cat(serverOut, buf))) = Len(down) + Len(Cat(serverOut, buf))
      BY <1>3, <3>2, CatFacts
    <3>4. Len(down') \in Nat /\ Len(serverOut') \in Nat
      BY <2>3, UnitsLen
    <3> QED BY <1>3a, <1>3b, <2>1, <2>4, <3>1, <3>2, <3>3, <3>4
  <2>8. Whole(Len(clientBuf) + Len(down') + Len(serverOut'))
    <3> DEFINE k == Len(clientBuf) + Len(down) + Len(serverOut)
    <3>1. k \in Nat /\ Whole(k)
      BY <1>3b DEF BuffersFit
    <3>2. Len(clientBuf) + Len(down') + Len(serverOut') = k + ReqSize
      <4>1. Len(down') \in Nat /\ Len(serverOut') \in Nat
        BY <2>3, UnitsLen
      <4> QED BY <1>3a, <1>3b, <2>7, <4>1
    <3> HIDE DEF k
    <3> QED BY <3>1, <3>2, WholeMore
  <2> QED BY <1>3a, <1>7, <2>3, <2>6, <2>8
<1> QED BY <1>8, <1>9
\* What waits begins with what is left of a request, and has all of it.
LEMMA WaitingFits ==
    ASSUME TypeOK, BuffersFit, Framed
    PROVE  /\ Len(serverOut) > 0 =>
                 ReqSize - serverOut[1][2] + 1 <= Len(serverOut)
           /\ Len(clientOut) > 0 =>
                 ReqSize - clientOut[1][2] + 1 <= Len(clientOut)
<1>1. /\ clientBuf \in Units /\ down \in Units /\ serverOut \in Units
      /\ serverBuf \in Units /\ up \in Units /\ clientOut \in Units
  BY DEF TypeOK
<1>2. /\ Len(Stream) = Len(clientBuf) + Len(down) + Len(serverOut)
                          + Len(serverBuf) + Len(up) + Len(clientOut)
      /\ Len(clientBuf) \in Nat /\ Len(down) \in Nat
      /\ Len(serverOut) \in Nat /\ Len(serverBuf) \in Nat
      /\ Len(up) \in Nat /\ Len(clientOut) \in Nat
      /\ ReqSize \in Nat /\ ReqSize > 0
  BY StreamFacts, EchoAssumption
<1>3. /\ Whole(Len(Stream))
      /\ Whole(Len(clientBuf) + Len(down) + Len(serverOut))
      /\ \A k \in 1 .. Len(Stream) : Stream[k][2] = ((k - 1) % ReqSize) + 1
  BY DEF BuffersFit, Framed
<1>4. ASSUME NEW out, NEW p \in Nat, Len(out) \in Nat, Len(out) > 0,
             p + Len(out) <= Len(Stream), Whole(p + Len(out)),
             Stream[p + 1] = out[1]
      PROVE  ReqSize - out[1][2] + 1 <= Len(out)
  <2>1. p + 1 \in 1 .. Len(Stream) /\ (p + 1) - 1 = p
    BY <1>2, <1>4
  <2>2. out[1][2] = (p % ReqSize) + 1
    BY <1>3, <1>4, <2>1
  <2>3. Len(out) \in Nat \ {0}
    BY <1>4
  <2>4. ReqSize - (p % ReqSize) <= Len(out)
    BY <1>4, <2>3, RestFits
  <2>5. p % ReqSize \in 0 .. ReqSize - 1
    BY <1>4, ModFacts
  <2> QED BY <1>2, <1>4, <2>2, <2>4, <2>5
<1>5. ASSUME Len(serverOut) > 0
      PROVE  ReqSize - serverOut[1][2] + 1 <= Len(serverOut)
  <2> DEFINE p == Len(clientBuf) + Len(down)
  <2>1. Stream[p + 1] = serverOut[1]
    BY <1>1, <1>5, LineAt, StreamIs
  <2>2. p \in Nat /\ p + Len(serverOut) <= Len(Stream) /\ Whole(p + Len(serverOut))
    BY <1>2, <1>3
  <2> HIDE DEF p
  <2> QED BY <1>2, <1>4, <1>5, <2>1, <2>2
<1>6. ASSUME Len(clientOut) > 0
      PROVE  ReqSize - clientOut[1][2] + 1 <= Len(clientOut)
  <2> DEFINE p == Len(clientBuf) + Len(down) + Len(serverOut)
                     + Len(serverBuf) + Len(up)
  <2>1. Stream[p + 1] = clientOut[1]
    BY <1>1, <1>6, LineAt, StreamIs
  <2>2. p \in Nat /\ p + Len(clientOut) = Len(Stream)
    BY <1>2
  <2> HIDE DEF p
  <2>3. p + Len(clientOut) <= Len(Stream) /\ Whole(p + Len(clientOut))
    BY <1>2, <1>3, <2>2
  <2> QED BY <1>2, <1>4, <1>6, <2>1, <2>2, <2>3
<1> QED BY <1>5, <1>6

\* What the server's loop writes leaves the stream as it is.
LEMMA ServerFlushStream ==
    ASSUME TypeOK, BuffersFit, Framed, ServerFlush
    PROVE  /\ TypeOK' /\ BuffersFit' /\ Framed' /\ Stream' = Stream
<1> DEFINE n == Flushed(serverOut, down)
<1>1. /\ down' = Upto(down, serverOut, n) /\ serverOut' = From(serverOut, n)
      /\ serverOut # <<>> /\ Len(down) < Room
  BY DEF ServerFlush, Upto, From
<1>2. UNCHANGED <<qdepth, client, server, toSend, request_id, outstanding,
                  answered, clientOut, clientBuf, delayed, up, serverBuf, link>>
  BY DEF ServerFlush, clientVars
<1>3. /\ clientBuf \in Units /\ down \in Units /\ serverOut \in Units
      /\ serverBuf \in Units /\ up \in Units /\ clientOut \in Units
  BY DEF TypeOK
<1>4. /\ Len(down) \in Nat /\ Len(serverOut) \in Nat /\ Len(serverOut) > 0
      /\ Len(clientBuf) \in Nat
  BY <1>1, <1>3, UnitsLen
<1>5. ReqSize - serverOut[1][2] + 1 <= Len(serverOut)
  BY <1>4, WaitingFits
<1>6. /\ n \in 1 .. Len(serverOut)
      /\ Upto(down, serverOut, n) \in Units
      /\ Len(Upto(down, serverOut, n)) <= Room
      /\ Len(Upto(down, serverOut, n)) = Len(down) + n
      /\ From(serverOut, n) \in Units
      /\ Len(From(serverOut, n)) = Len(serverOut) - n
      /\ Cat(Upto(down, serverOut, n), From(serverOut, n)) = Cat(down, serverOut)
  BY <1>1, <1>3, <1>4, <1>5, FlushFacts
<1> HIDE DEF n
<1>7. /\ down' \in Units /\ serverOut' \in Units /\ Len(down') <= Room
      /\ Cat(down', serverOut') = Cat(down, serverOut)
  BY <1>1, <1>6
<1>8. Len(clientBuf) + Len(down') + Len(serverOut')
         = Len(clientBuf) + Len(down) + Len(serverOut)
  BY <1>1, <1>4, <1>6
<1>9. Line(clientBuf, down', serverOut', serverBuf, up, clientOut)
         = Line(clientBuf, down, serverOut, serverBuf, up, clientOut)
  BY <1>3, <1>7, LineSecond
<1>10. Stream' = Line(clientBuf, down', serverOut', serverBuf, up, clientOut)
  BY <1>2 DEF Stream, Line, Cat
<1>11. Stream' = Stream
  BY <1>9, <1>10, StreamIs
<1>12. TypeOK'
  BY <1>2, <1>7 DEF TypeOK
<1>13. BuffersFit'
  BY <1>2, <1>7, <1>8, <1>11 DEF BuffersFit, Whole
<1>14. Framed'
  BY <1>2, <1>11 DEF Framed
<1> QED BY <1>11, <1>12, <1>13, <1>14
\* Whatever a dangling writeSuccess does to the units left, their parts stay.
LEMMA DanglingParts ==
    ASSUME NEW rest \in Units, request_id \in Nat, Dangling(rest)
    PROVE  clientOut' \in Units /\ SameParts(rest, clientOut')
<1>1. ReqSize \in Nat /\ 1 \in 1 .. ReqSize /\ Len(rest) \in Nat
  BY EchoAssumption, UnitsLen
<1>2. CASE clientOut' = rest
  BY <1>2 DEF SameParts
<1>3. ASSUME NEW victim, NEW garbage \in 0 .. request_id,
             clientOut' = [k \in 1 .. Len(rest) |->
                              IF rest[k] = <<victim, 1>>
                              THEN <<garbage, 1>> ELSE rest[k]]
      PROVE  clientOut' \in Units /\ SameParts(rest, clientOut')
  <2>1. \A k \in 1 .. Len(rest) : rest[k] \in Unit
    BY ElementOfSeq DEF Units
  <2>2. <<garbage, 1>> \in Unit
    BY <1>1 DEF Unit
  <2>3. clientOut' \in Seq(Unit) /\ Len(clientOut') = Len(rest)
    BY <1>1, <1>3, <2>1, <2>2
  <2>4. \A k \in 1 .. Len(rest) : clientOut'[k][2] = rest[k][2]
    BY <1>3
  <2> QED BY <2>3, <2>4 DEF Units, SameParts
<1> QED BY <1>2, <1>3 DEF Dangling

\* What the client's loop writes leaves the units under way as they are, but
\* for ids a dangling writeSuccess has spoilt.
LEMMA ClientFlushStream ==
    ASSUME TypeOK, BuffersFit, Framed, ClientFlush
    PROVE  /\ TypeOK' /\ BuffersFit' /\ Framed' /\ delayed
           /\ Len(Stream') = Len(Stream)
<1> DEFINE n == Flushed(clientOut, up)
           rest == From(clientOut, n)
<1>1. /\ up' = Upto(up, clientOut, n)
      /\ Dangling(rest) \/ (clientOut' = rest /\ UNCHANGED client)
      /\ clientOut # <<>> /\ Len(up) < Room
  BY DEF ClientFlush, Upto, From
<1>2. UNCHANGED <<qdepth, server, toSend, request_id, outstanding, answered,
                  down, clientBuf, delayed, serverBuf, serverOut, link>>
  BY DEF ClientFlush, serverVars
<1>3. /\ clientBuf \in Units /\ down \in Units /\ serverOut \in Units
      /\ serverBuf \in Units /\ up \in Units /\ clientOut \in Units
      /\ request_id \in Nat
  BY DEF TypeOK
<1>4. Len(up) \in Nat /\ Len(clientOut) \in Nat /\ Len(clientOut) > 0
  BY <1>1, <1>3, UnitsLen
<1>5. ReqSize - clientOut[1][2] + 1 <= Len(clientOut)
  BY <1>4, WaitingFits
<1>6. /\ Upto(up, clientOut, n) \in Units
      /\ Len(Upto(up, clientOut, n)) <= Room
      /\ rest \in Units
      /\ Cat(Upto(up, clientOut, n), rest) = Cat(up, clientOut)
  BY <1>1, <1>3, <1>4, <1>5, FlushFacts
<1> HIDE DEF n, rest
<1>7. up' \in Units /\ Len(up') <= Room /\ Cat(up', rest) = Cat(up, clientOut)
  BY <1>1, <1>6
<1>8. clientOut' \in Units /\ SameParts(rest, clientOut')
  <2>1. CASE Dangling(rest)
    BY <1>3, <1>6, <2>1, DanglingParts
  <2>2. CASE clientOut' = rest
    BY <1>6, <2>2 DEF SameParts
  <2> QED BY <1>1, <2>1, <2>2
<1> DEFINE w == Cat(Cat(Cat(Cat(clientBuf, down), serverOut), serverBuf), up')
<1>9. Stream = Cat(w, rest)
  <2>1. Line(clientBuf, down, serverOut, serverBuf, up', rest)
           = Line(clientBuf, down, serverOut, serverBuf, up, clientOut)
    BY <1>3, <1>6, <1>7, LineLast
  <2> QED BY <2>1, StreamIs DEF Line
<1>10. Stream' = Cat(w, clientOut')
  BY <1>2 DEF Stream, Cat
<1>11. w \in Units
  <2>1. Cat(clientBuf, down) \in Units
    BY <1>3, CatFacts
  <2>2. Cat(Cat(clientBuf, down), serverOut) \in Units
    BY <1>3, <2>1, CatFacts
  <2>3. Cat(Cat(Cat(clientBuf, down), serverOut), serverBuf) \in Units
    BY <1>3, <2>2, CatFacts
  <2> QED BY <1>7, <2>3, CatFacts
<1> HIDE DEF w
<1>12. Parts(Cat(w, rest))
  BY <1>9, FramedIs
<1>13. Parts(Stream') /\ Len(Stream') = Len(Stream)
  <2>1. Parts(Cat(w, clientOut')) /\ Len(Cat(w, clientOut')) = Len(Cat(w, rest))
    BY <1>6, <1>8, <1>11, <1>12, Spoilt
  <2> QED BY <1>9, <1>10, <2>1
<1>14. delayed
  BY <1>1 DEF BuffersFit
<1>15. TypeOK'
  <2>1. client' \in {"connecting", "running", "stopping", "closed", "cut",
                     "closedEarly", "aborted"}
    BY <1>1 DEF Dangling, TypeOK
  <2> QED BY <1>2, <1>7, <1>8, <2>1 DEF TypeOK
<1>16. BuffersFit'
  BY <1>2, <1>7, <1>13, <1>14 DEF BuffersFit, Whole
<1>17. Framed'
  BY <1>2, <1>13 DEF Framed, Parts
<1> QED BY <1>13, <1>14, <1>15, <1>16, <1>17

-----------------------------------------------------------------------------
(* The inductive invariant.                                                *)

(***************************************************************************)
(* A step that leaves the counters and the units under way as they are     *)
(* preserves the rest of the invariant, and so does one that spoils ids or *)
(* crashes once a write has outlived its callback or the connection is     *)
(* lost.                                                                   *)
(***************************************************************************)
LEMMA SameStream ==
    ASSUME EchoInv, TypeOK', BuffersFit', Framed',
           Stream' = Stream \/ (delayed /\ Len(Stream') = Len(Stream)),
           UNCHANGED <<qdepth, toSend, request_id, outstanding, answered, delayed>>,
           link' => link,
           \/ client' = client
           \/ client' = "aborted" /\ (delayed \/ ~link)
    PROVE  EchoInv'
<1>1. Len(Stream') = Len(Stream)
  OBVIOUS
<1>2. CountersFit'
  BY <1>1 DEF EchoInv, CountersFit, completed
<1>3. EchoedInOrder'
  <2>1. CASE delayed
    BY <2>1 DEF EchoedInOrder
  <2>2. CASE ~delayed
    <3>1. Stream' = Stream /\ (client' = client \/ ~link')
      BY <2>2
    <3> QED BY <3>1 DEF EchoInv, EchoedInOrder, completed
  <2> QED BY <2>1, <2>2
<1>4. OutstandingExact'
  BY <1>1 DEF EchoInv, OutstandingExact, completed
<1>5. SentExactly'
  BY DEF EchoInv, SentExactly, completed
<1> QED BY <1>2, <1>3, <1>4, <1>5 DEF EchoInv
\* A pass of requests_send.
LEMMA SendKeeps == EchoInv /\ requests_send => EchoInv'
<1> SUFFICES ASSUME EchoInv, requests_send PROVE EchoInv'
  OBVIOUS
<1> DEFINE i == request_id + 1
           q == Stream
           r == Stream'
<1>1. /\ TypeOK /\ BuffersFit /\ CountersFit /\ Framed /\ EchoedInOrder
      /\ OutstandingExact /\ SentExactly
  BY DEF EchoInv
<1>2. /\ client = "running" /\ toSend > 0 /\ request_id' = i
      /\ delayed' = (delayed \/ clientOut' # <<>>)
      /\ outstanding' = outstanding + 1 /\ toSend' = toSend - 1
      /\ UNCHANGED <<qdepth, client, server, answered, down, clientBuf,
                     serverBuf, serverOut, link>>
  BY DEF requests_send, serverVars
<1>3. /\ toSend \in Nat /\ request_id \in Nat /\ outstanding \in Nat /\ i \in Nat
      /\ answered \in Seq(Nat) /\ completed \in Nat /\ delayed \in BOOLEAN
      /\ ReqSize \in Nat /\ ReqSize > 0 /\ qdepth \in Nat
  BY <1>1, EchoAssumption DEF TypeOK, completed
<1>4. /\ up' \in Units /\ clientOut' \in Units /\ Len(up') <= Room
      /\ r = Cat(q, Request(i))
  BY <1>1, SendStream
<1>5. /\ q \in Units /\ Len(q) = outstanding * ReqSize /\ Parts(q)
      /\ outstanding = request_id - completed /\ outstanding + toSend <= qdepth
  BY <1>1, <1>2, StreamFacts, FramedIs DEF OutstandingExact
<1>6. completed' = completed
  BY <1>2 DEF completed
<1>7. ~delayed => /\ answered = [k \in 1 .. completed |-> k]
                  /\ Ids(q, completed)
  BY <1>1 DEF EchoedInOrder, Ids
<1>8. i = completed + 1 + outstanding
  BY <1>3, <1>5
<1>9. /\ Len(r) = (outstanding + 1) * ReqSize /\ Parts(r)
      /\ Ids(q, completed) => Ids(r, completed)
  <2> HIDE DEF i, q, r
  <2>1. /\ Len(r) = (outstanding + 1) * ReqSize
        /\ Parts(q) => Parts(r)
        /\ \A c \in Nat : Ids(q, c) /\ i = c + 1 + outstanding => Ids(r, c)
    BY <1>3, <1>4, <1>5, Sent
  <2> QED BY <1>3, <1>5, <1>8, <2>1
<1>10. TypeOK'
  BY <1>1, <1>2, <1>3, <1>4 DEF TypeOK
<1>11. BuffersFit'
  <2>1. outstanding + 1 \in Nat
    BY <1>3
  <2>2. Whole(Len(Stream'))
    BY <1>9, <2>1 DEF Whole
  <2> QED BY <1>1, <1>2, <1>4, <2>2 DEF BuffersFit, Whole
<1> HIDE DEF q, r
<1>12. Framed'
  BY <1>1, <1>2, <1>9 DEF Framed, Parts, r
<1>13. CountersFit'
  BY <1>1, <1>2, <1>3, <1>6 DEF CountersFit
<1>14. EchoedInOrder'
  <2> SUFFICES ASSUME ~delayed' PROVE EchoedInOrder'
    BY DEF EchoedInOrder
  <2>1. ~delayed
    BY <1>2
  <2>2. /\ answered' = [k \in 1 .. completed' |-> k]
        /\ Ids(r, completed') /\ client' = "running"
    BY <1>2, <1>6, <1>7, <1>9, <2>1
  <2> QED BY <2>2 DEF EchoedInOrder, Ids, r
<1>15. OutstandingExact'
  BY <1>2, <1>3, <1>5, <1>6, <1>9 DEF OutstandingExact, r
<1>16. SentExactly'
  BY <1>1, <1>2, <1>3, <1>6 DEF SentExactly
<1> QED BY <1>10, <1>11, <1>12, <1>13, <1>14, <1>15, <1>16 DEF EchoInv

\* A read of the client.
LEMMA ClientReadKeeps == EchoInv /\ ClientRead => EchoInv'
<1> SUFFICES ASSUME EchoInv, ClientRead PROVE EchoInv'
  OBVIOUS
<1>1. /\ TypeOK /\ BuffersFit /\ CountersFit /\ Framed /\ EchoedInOrder
      /\ OutstandingExact /\ SentExactly
  BY DEF EchoInv
<1>2. PICK n \in Reads(down, clientBuf) :
         LET buf == clientBuf \o SubSeq(down, 1, n)
         IN  /\ down' = SubSeq(down, n + 1, Len(down))
             /\ IF Complete(buf)
                THEN clientBuf' = <<>> /\ request_received(buf[1][1])
                ELSE /\ clientBuf' = buf
                     /\ UNCHANGED <<client, toSend, outstanding, answered>>
  BY DEF ClientRead
<1> DEFINE buf == Upto(clientBuf, down, n)
<1>3. /\ down' = From(down, n)
      /\ IF Complete(buf)
         THEN clientBuf' = <<>> /\ request_received(buf[1][1])
         ELSE /\ clientBuf' = buf
              /\ UNCHANGED <<client, toSend, outstanding, answered>>
  BY <1>2 DEF Upto, From
<1>4. /\ client = "running" /\ toSend = 0
      /\ UNCHANGED <<qdepth, request_id, clientOut, up, delayed, server,
                     serverBuf, serverOut, link>>
  BY DEF ClientRead, serverVars
<1>5. /\ clientBuf \in Units /\ down \in Units /\ serverOut \in Units
      /\ serverBuf \in Units /\ up \in Units /\ clientOut \in Units
  BY <1>1 DEF TypeOK
<1>6. /\ Len(up) <= Room /\ Len(down) <= Room
      /\ Len(serverBuf) < ReqSize /\ Len(clientBuf) < ReqSize
      /\ Room \in Nat /\ ReqSize \in Nat /\ ReqSize > 0
  BY <1>1, EchoAssumption DEF BuffersFit, Framed
<1>7. Len(down) \in Nat /\ Len(clientBuf) \in Nat /\ Len(serverOut) \in Nat
  BY <1>5, UnitsLen
<1>8. /\ buf \in Units /\ Len(buf) <= ReqSize
      /\ down' \in Units /\ Len(down') <= Len(down)
      /\ Cat(buf, down') = Cat(clientBuf, down)
  BY <1>2, <1>3, <1>5, <1>6, ReadFacts
<1>9. Len(buf) \in Nat /\ Len(down') \in Nat
  BY <1>8, UnitsLen
<1>10. Complete(buf) <=> Len(buf) >= ReqSize
  BY DEF Complete
<1> HIDE DEF buf
<1>11. Len(down') <= Room
  BY <1>6, <1>7, <1>8, <1>9
<1>12. Len(buf) + Len(down') = Len(clientBuf) + Len(down)
  <2>1. Len(Cat(buf, down')) = Len(buf) + Len(down')
    BY <1>8, CatFacts
  <2>2. Len(Cat(clientBuf, down)) = Len(clientBuf) + Len(down)
    BY <1>5, CatFacts
  <2> QED BY <1>8, <2>1, <2>2
<1>13. Stream' = Line(clientBuf', down', serverOut, serverBuf, up, clientOut)
  BY <1>4 DEF Stream, Line, Cat
<1>14. /\ Whole(Len(Stream))
       /\ Whole(Len(clientBuf) + Len(down) + Len(serverOut))
  BY <1>1 DEF BuffersFit
<1>15. CASE ~Complete(buf)
  <2>1. /\ clientBuf' = buf /\ Len(buf) < ReqSize
        /\ UNCHANGED <<client, toSend, outstanding, answered>>
    BY <1>3, <1>6, <1>9, <1>10, <1>15
  <2>2. Line(buf, down', serverOut, serverBuf, up, clientOut)
           = Line(clientBuf, down, serverOut, serverBuf, up, clientOut)
    BY <1>8, LineFirst
  <2>3. Stream' = Stream
    BY <1>13, <2>1, <2>2, StreamIs
  <2>4. TypeOK'
    BY <1>1, <1>4, <1>8, <2>1 DEF TypeOK
  <2>5. Len(clientBuf') + Len(down') + Len(serverOut)
           = Len(clientBuf) + Len(down) + Len(serverOut)
    BY <1>7, <1>9, <1>12, <2>1
  <2>6. BuffersFit'
    BY <1>1, <1>4, <1>11, <2>3, <2>5 DEF BuffersFit, Whole
  <2>7. Framed'
    BY <1>1, <1>4, <2>1, <2>3 DEF Framed
  <2> QED BY <1>4, <2>1, <2>3, <2>4, <2>6, <2>7, SameStream
<1>16. CASE Complete(buf)
  <2> DEFINE id == buf[1][1]
             q == Stream
             r == Stream'
  <2>1. clientBuf' = <<>> /\ request_received(id) /\ Len(buf) = ReqSize
    BY <1>3, <1>6, <1>8, <1>9, <1>10, <1>16
  <2>2. q = Cat(buf, r) /\ r \in Units
    <3> DEFINE l == Line(<<>>, down', serverOut, serverBuf, up, clientOut)
    <3>1. Line(clientBuf, down, serverOut, serverBuf, up, clientOut) = Cat(buf, l)
      BY <1>5, <1>8, LineAnswered
    <3>2. l \in Units
      BY <1>5, <1>8, NoUnits, LineFacts
    <3>3. r = l
      BY <1>13, <2>1
    <3> HIDE DEF l
    <3> QED BY <3>1, <3>2, <3>3, StreamIs
  <2>3. /\ Len(q) \in Nat /\ Parts(q) /\ Len(q) = outstanding * ReqSize
        /\ outstanding = request_id - completed /\ outstanding + toSend <= qdepth
    BY <1>1, <1>4, StreamFacts, FramedIs DEF OutstandingExact
  <2>4. /\ request_id \in Nat /\ outstanding \in Nat /\ answered \in Seq(Nat)
        /\ completed \in Nat /\ qdepth \in Nat /\ delayed \in BOOLEAN
        /\ MaxRequests \in Nat /\ MaxRequests > 0
    BY <1>1, EchoAssumption DEF TypeOK, completed
  <2>5. /\ Len(r) = Len(q) - ReqSize /\ Len(q) >= ReqSize /\ q[1] = buf[1]
        /\ Parts(r)
        /\ Ids(q, completed) => Ids(r, completed + 1)
    <3> HIDE DEF q, r
    <3>1. /\ Len(r) = Len(q) - ReqSize /\ Len(q) >= ReqSize /\ q[1] = buf[1]
          /\ Parts(q) => Parts(r)
          /\ \A c \in Nat : Ids(q, c) => Ids(r, c + 1)
      BY <1>8, <2>1, <2>2, Answered
    <3> QED BY <2>3, <2>4, <3>1
  <2>6. outstanding > 0 /\ completed + 1 \in 1 .. request_id
    <3>1. outstanding # 0
      BY <1>6, <2>3, <2>5
    <3> QED BY <2>3, <2>4, <3>1
  <2>7. ~delayed => /\ answered = [k \in 1 .. completed |-> k]
                    /\ Ids(q, completed)
    BY <1>1 DEF EchoedInOrder, Ids
  <2> HIDE DEF q, r
  <2>8. ~delayed => id = completed + 1
    <3> SUFFICES ASSUME ~delayed PROVE id = completed + 1
      OBVIOUS
    <3>1. 1 \in 1 .. Len(q)
      BY <1>6, <2>3, <2>5
    <3>2. q[1][1] = completed + 1 + ((1 - 1) \div ReqSize)
      BY <2>7, <3>1 DEF Ids
    <3>3. (1 - 1) \div ReqSize = 0
      BY <1>6
    <3> QED BY <2>4, <2>5, <3>2, <3>3
  <2>9. id \in Nat
    <3>1. 1 \in 1 .. Len(buf)
      BY <1>6, <2>1
    <3>2. buf[1] \in Unit
      BY <1>8, <3>1, ElementOfSeq DEF Units
    <3> QED BY <3>2 DEF Unit
  <2> HIDE DEF id
  <2>10. ASSUME TypeOK' PROVE BuffersFit' /\ Framed'
    <3>1. Len(clientBuf') = 0
      BY <2>1, NoUnits
    <3>2. Whole(Len(r))
      BY <1>14, <2>3, <2>5, WholeLess DEF q
    <3>3. Whole(Len(clientBuf') + Len(down') + Len(serverOut))
      <4> DEFINE k == Len(clientBuf) + Len(down) + Len(serverOut)
      <4>1. /\ k \in Nat /\ k >= ReqSize
            /\ Len(clientBuf') + Len(down') + Len(serverOut) = k - ReqSize
        BY <1>6, <1>7, <1>9, <1>12, <2>1, <3>1
      <4>2. Whole(k)
        BY <1>14
      <4> HIDE DEF k
      <4> QED BY <4>1, <4>2, WholeLess
    <3>4. BuffersFit'
      BY <1>1, <1>4, <1>11, <3>2, <3>3 DEF BuffersFit, Whole, r
    <3>5. Framed'
      BY <1>4, <1>6, <2>5, <3>1 DEF Framed, Parts, r
    <3> QED BY <3>4, <3>5
  <2>11. CASE id \notin 1 .. request_id
    <3>1. client' = "aborted" /\ UNCHANGED <<toSend, outstanding, answered>>
      BY <2>1, <2>11 DEF request_received
    <3>2. delayed
      BY <2>4, <2>6, <2>8, <2>11
    <3>3. TypeOK'
      BY <1>1, <1>4, <1>8, <2>1, <3>1, NoUnits DEF TypeOK
    <3>4. CountersFit' /\ OutstandingExact'
      BY <3>1 DEF CountersFit, OutstandingExact
    <3>5. EchoedInOrder'
      BY <1>4, <3>2 DEF EchoedInOrder
    <3>6. SentExactly'
      BY <1>1, <1>4, <3>1 DEF SentExactly
    <3> QED BY <2>10, <3>3, <3>4, <3>5, <3>6 DEF EchoInv
  <2>12. CASE id \in 1 .. request_id
    <3>1. /\ answered' = Append(answered, id) /\ outstanding' = outstanding - 1
          /\ toSend' = IF completed' < MaxRequests THEN 1 ELSE 0
          /\ client' = IF completed' >= MaxRequests /\ outstanding' = 0
                       THEN "stopping" ELSE "running"
      BY <1>4, <2>1, <2>12 DEF request_received
    <3>2. answered' \in Seq(Nat) /\ completed' = completed + 1
      BY <2>4, <2>9, <3>1 DEF completed
    <3>3. TypeOK'
      BY <1>1, <1>4, <1>8, <2>1, <2>4, <2>6, <3>1, <3>2, NoUnits DEF TypeOK
    <3>4. request_id' + toSend' = qdepth' + Smaller(completed', MaxRequests - 1)
      <4>1. request_id = qdepth + Smaller(completed, MaxRequests - 1)
        BY <1>1, <1>4, <2>4 DEF CountersFit
      <4> QED BY <1>4, <2>4, <3>1, <3>2, <4>1 DEF Smaller
    <3>5. CountersFit'
      BY <2>4, <3>1, <3>2, <3>4 DEF CountersFit
    <3>6. EchoedInOrder'
      <4> SUFFICES ASSUME ~delayed' PROVE EchoedInOrder'
        BY DEF EchoedInOrder
      <4>1. /\ id = completed + 1 /\ answered = [k \in 1 .. completed |-> k]
            /\ Ids(r, completed')
        BY <1>4, <2>5, <2>7, <2>8, <3>2
      <4>2. answered' = [k \in 1 .. completed' |-> k]
        BY <2>4, <3>1, <3>2, <4>1
      <4>3. client' # "aborted"
        BY <3>1
      <4> QED BY <4>1, <4>2, <4>3 DEF EchoedInOrder, Ids, r
    <3>7. OutstandingExact'
      <4>1. (outstanding - 1) * ReqSize = outstanding * ReqSize - ReqSize
        BY <1>6, <2>4
      <4>2. outstanding' * ReqSize = Len(Stream')
        BY <2>3, <2>5, <3>1, <4>1 DEF r
      <4>3. outstanding' = request_id' - completed'
        BY <1>4, <2>3, <2>4, <3>1, <3>2
      <4>4. outstanding' + toSend' <= qdepth'
        BY <1>4, <2>3, <2>4, <2>6, <3>1
      <4>5. /\ client' \in {"stopping", "closed"} => outstanding' = 0
            /\ client' \notin {"cut", "closedEarly"}
        BY <3>1
      <4> QED BY <4>2, <4>3, <4>4, <4>5 DEF OutstandingExact
    <3>8. SentExactly'
      <4>1. request_id' + toSend' <= qdepth' + MaxRequests - 1
        BY <1>4, <2>4, <3>2, <3>4 DEF Smaller
      <4>2. ASSUME client' \in {"stopping", "closed"}
            PROVE  request_id' = qdepth' + MaxRequests - 1 /\ completed' = request_id'
        <5>1. completed' >= MaxRequests /\ outstanding' = 0 /\ toSend' = 0
          BY <2>4, <3>1, <3>2, <4>2
        <5>2. completed' = request_id'
          BY <1>4, <2>3, <2>4, <3>1, <3>2, <5>1
        <5> QED BY <1>4, <2>4, <3>2, <3>4, <5>1, <5>2 DEF Smaller
      <4> QED BY <4>1, <4>2 DEF SentExactly
    <3> QED BY <2>10, <3>3, <3>5, <3>6, <3>7, <3>8 DEF EchoInv
  <2> QED BY <2>11, <2>12
<1> QED BY <1>15, <1>16
\* The steps that move no unit.
LEMMA ControlKeeps ==
    EchoInv /\ (Connect \/ ConnectErr \/ writeErr \/ ClientReadEOF \/ Close
                  \/ connectionAccepted \/ readEOF \/ Lose \/ UNCHANGED vars)
       => EchoInv'
<1> SUFFICES ASSUME EchoInv,
                    Connect \/ ConnectErr \/ writeErr \/ ClientReadEOF
                       \/ Close \/ connectionAccepted \/ readEOF \/ Lose
                       \/ UNCHANGED vars
             PROVE  EchoInv'
  OBVIOUS
<1>1. /\ TypeOK /\ BuffersFit /\ CountersFit /\ Framed /\ EchoedInOrder
      /\ OutstandingExact /\ SentExactly
  BY DEF EchoInv
<1>2. /\ qdepth \in Nat \ {0} /\ MaxRequests \in Nat \ {0} /\ ReqSize \in Nat \ {0}
  BY <1>1, EchoAssumption DEF TypeOK
<1>3. UNCHANGED <<qdepth, request_id, outstanding, answered, clientOut, up,
                  serverBuf, serverOut, down, clientBuf, delayed>>
  BY DEF Connect, ConnectErr, writeErr, ClientReadEOF, Close,
         connectionAccepted, readEOF, Lose, vars, clientVars, serverVars
<1>3a. server' \in {"none", "running", "ended"} /\ link' \in BOOLEAN /\ (link' => link)
  <2>1. link' = link \/ link' = FALSE
    BY DEF Connect, ConnectErr, writeErr, ClientReadEOF, Close,
           connectionAccepted, readEOF, Lose, vars, clientVars, serverVars
  <2>2. server' = server \/ server' = "running" \/ server' = "ended"
    BY DEF Connect, ConnectErr, writeErr, ClientReadEOF, Close,
           connectionAccepted, readEOF, Lose, vars, clientVars, serverVars
  <2>3. link \in BOOLEAN
    BY <1>1 DEF TypeOK
  <2>4. ASSUME link' = link PROVE link' \in BOOLEAN /\ (link' => link)
    BY <2>3, <2>4
  <2>5. ASSUME link' = FALSE PROVE link' \in BOOLEAN /\ (link' => link)
    BY <2>5
  <2>6. link' \in BOOLEAN /\ (link' => link)
    BY <2>1, <2>4, <2>5
  <2> QED BY <1>1, <2>2, <2>6 DEF TypeOK
<1>4. Stream' = Stream /\ completed' = completed
  BY <1>3 DEF Stream, completed
<1>5. BuffersFit' /\ Framed'
  BY <1>1, <1>3, <1>4 DEF BuffersFit, Framed, Whole
<1>6. /\ client = "connecting" =>
            /\ request_id = 0 /\ outstanding = 0 /\ completed = 0
            /\ Len(Stream) = 0 /\ answered = <<>>
  BY <1>1 DEF CountersFit, completed
<1>7. CASE Connect
  <2>1. client = "connecting" /\ client' = "running" /\ toSend' = qdepth
    BY <1>7 DEF Connect
  <2>2. TypeOK'
    BY <1>1, <1>2, <1>3, <1>3a, <2>1 DEF TypeOK
  <2>3. CountersFit'
    BY <1>2, <1>3, <1>4, <1>6, <2>1 DEF CountersFit, Smaller
  <2>4. EchoedInOrder'
    BY <1>1, <1>3, <1>4, <2>1 DEF EchoedInOrder
  <2>5. OutstandingExact'
    BY <1>2, <1>3, <1>4, <1>6, <2>1 DEF OutstandingExact
  <2>6. SentExactly'
    BY <1>2, <1>3, <1>4, <1>6, <2>1 DEF SentExactly
  <2> QED BY <1>5, <2>2, <2>3, <2>4, <2>5, <2>6 DEF EchoInv
<1>8. CASE ConnectErr
  <2>1. client = "connecting" /\ client' = "aborted" /\ toSend' = toSend
    BY <1>8 DEF ConnectErr
  <2>2. TypeOK'
    BY <1>1, <1>3, <1>3a, <2>1 DEF TypeOK
  <2>3. CountersFit' /\ OutstandingExact'
    BY <2>1 DEF CountersFit, OutstandingExact
  <2>4. EchoedInOrder'
    BY <1>1, <1>3, <1>4, <1>6, <2>1 DEF EchoedInOrder
  <2>5. SentExactly'
    BY <1>1, <1>3, <1>4, <2>1 DEF SentExactly
  <2> QED BY <1>5, <2>2, <2>3, <2>4, <2>5 DEF EchoInv
<1>9. CASE ClientReadEOF
  <2>1. /\ client = "running" /\ client' = "cut" /\ toSend' = toSend /\ ~link
        /\ link' = link
    BY <1>9 DEF ClientReadEOF, serverVars
  <2>2. TypeOK'
    BY <1>1, <1>3, <1>3a, <2>1 DEF TypeOK
  <2>3. CountersFit'
    BY <2>1 DEF CountersFit
  <2>4. EchoedInOrder'
    BY <1>1, <1>3, <1>4, <2>1 DEF EchoedInOrder
  <2>5. OutstandingExact'
    BY <1>1, <1>3, <1>4, <2>1 DEF OutstandingExact
  <2>6. SentExactly'
    BY <1>1, <1>3, <1>4, <2>1 DEF SentExactly
  <2> QED BY <1>5, <2>2, <2>3, <2>4, <2>5, <2>6 DEF EchoInv
<1>10. CASE Close
  <2>1. /\ \/ client = "stopping" /\ client' = "closed"
           \/ client = "cut" /\ client' = "closedEarly"
           \/ client = "cut" /\ client' = "aborted"
        /\ toSend' = toSend /\ link' = link
    BY <1>10 DEF Close, serverVars
  <2>2. TypeOK'
    BY <1>1, <1>3, <1>3a, <2>1 DEF TypeOK
  <2>3. CASE client = "stopping"
    <3>1. CountersFit'
      BY <1>1, <1>3, <1>4, <2>1, <2>3 DEF CountersFit
    <3>2. EchoedInOrder'
      BY <1>1, <1>3, <1>4, <2>1, <2>3 DEF EchoedInOrder
    <3>3. OutstandingExact'
      BY <1>1, <1>3, <1>4, <2>1, <2>3 DEF OutstandingExact
    <3>4. SentExactly'
      BY <1>1, <1>3, <1>4, <2>1, <2>3 DEF SentExactly
    <3> QED BY <1>5, <2>2, <3>1, <3>2, <3>3, <3>4 DEF EchoInv
  <2>4. CASE client = "cut"
    <3>0. ~link
      BY <1>1, <2>4 DEF OutstandingExact
    <3>1. CountersFit'
      BY <2>1, <2>4 DEF CountersFit
    <3>2. EchoedInOrder'
      BY <1>1, <1>3, <1>4, <2>1, <2>4, <3>0 DEF EchoedInOrder
    <3>3. OutstandingExact'
      BY <1>1, <1>3, <1>4, <2>1, <2>4, <3>0 DEF OutstandingExact
    <3>4. SentExactly'
      BY <1>1, <1>3, <1>4, <2>1, <2>4 DEF SentExactly
    <3> QED BY <1>5, <2>2, <3>1, <3>2, <3>3, <3>4 DEF EchoInv
  <2> QED BY <2>1, <2>3, <2>4
<1>11. CASE connectionAccepted \/ readEOF \/ Lose \/ writeErr \/ UNCHANGED vars
  <2>1. /\ toSend' = toSend
        /\ client' = client \/ (client' = "aborted" /\ ~link)
    BY <1>11 DEF connectionAccepted, readEOF, Lose, writeErr, vars, clientVars
  <2>2. TypeOK'
    BY <1>1, <1>3, <1>3a, <2>1 DEF TypeOK
  <2> QED BY <1>3, <1>3a, <1>4, <1>5, <2>1, <2>2, SameStream
<1> QED BY <1>7, <1>8, <1>9, <1>10, <1>11

\* The invariant holds at the start.
LEMMA EchoInit == Init => EchoInv
<1> SUFFICES ASSUME Init PROVE EchoInv
  OBVIOUS
<1>1. /\ qdepth \in Nat \ {0} /\ MaxRequests \in Nat \ {0}
      /\ ReqSize \in Nat \ {0} /\ Room \in Nat \ {0}
  BY EchoAssumption DEF Init
<1>2. /\ clientBuf = <<>> /\ down = <<>> /\ serverOut = <<>> /\ serverBuf = <<>>
      /\ up = <<>> /\ clientOut = <<>> /\ answered = <<>>
  BY DEF Init
<1>3. TypeOK
  <2>1. <<>> \in Units /\ <<>> \in Seq(Nat)
    BY NoUnits
  <2>2. /\ clientBuf \in Units /\ down \in Units /\ serverOut \in Units
        /\ serverBuf \in Units /\ up \in Units /\ clientOut \in Units
        /\ answered \in Seq(Nat)
    BY <1>2, <2>1
  <2>3. /\ qdepth \in QDepths /\ client = "connecting" /\ toSend = 0
        /\ server = "none" /\ link = TRUE
        /\ request_id = 0 /\ outstanding = 0 /\ delayed = FALSE
    BY DEF Init
  <2> QED BY <2>2, <2>3 DEF TypeOK
<1>4. Len(Stream) = 0 /\ completed = 0
  <2>1. Len(clientBuf) = 0 /\ Len(down) = 0 /\ Len(serverOut) = 0
        /\ Len(serverBuf) = 0 /\ Len(up) = 0 /\ Len(clientOut) = 0
    BY <1>2, NoUnits
  <2> QED BY <1>2, <1>3, <2>1, StreamFacts DEF completed
<1>5. Whole(0)
  BY <1>1 DEF Whole
<1>6. BuffersFit
  <2>1. Len(up) = 0 /\ Len(down) = 0 /\ Len(clientBuf) + Len(down) + Len(serverOut) = 0
    BY <1>2, NoUnits
  <2>2. Whole(Len(Stream)) /\ Whole(Len(clientBuf) + Len(down) + Len(serverOut))
    BY <1>4, <1>5, <2>1
  <2> QED BY <1>1, <1>2, <2>1, <2>2 DEF BuffersFit
<1>7. CountersFit
  BY <1>4 DEF Init, CountersFit
<1>8. Framed
  BY <1>1, <1>2, <1>4, NoUnits DEF Framed
<1>9. EchoedInOrder
  BY <1>2, <1>4 DEF Init, EchoedInOrder
<1>10. OutstandingExact /\ SentExactly
  BY <1>1, <1>4 DEF Init, OutstandingExact, SentExactly
<1> QED BY <1>3, <1>6, <1>7, <1>8, <1>9, <1>10 DEF EchoInv

\* Every step of either program preserves the invariant.
LEMMA EchoNext == EchoInv /\ [Next]_vars => EchoInv'
<1> SUFFICES ASSUME EchoInv, [Next]_vars PROVE EchoInv'
  OBVIOUS
<1>1. TypeOK /\ BuffersFit /\ Framed
  BY DEF EchoInv
<1>2. CASE requests_send
  BY <1>2, SendKeeps
<1>3. CASE ClientRead
  BY <1>3, ClientReadKeeps
<1>4. CASE ClientFlush
  <2>1. /\ TypeOK' /\ BuffersFit' /\ Framed' /\ delayed
        /\ Len(Stream') = Len(Stream)
    BY <1>1, <1>4, ClientFlushStream
  <2>2. UNCHANGED <<qdepth, toSend, request_id, outstanding, answered, delayed, link>>
    BY <1>4 DEF ClientFlush, serverVars
  <2>3. client = "running" /\ (client' = client \/ client' = "aborted")
    BY <1>4 DEF ClientFlush, Dangling
  <2> QED BY <2>1, <2>2, <2>3, SameStream
<1>5. CASE ServerRead
  <2>1. TypeOK' /\ BuffersFit' /\ Framed' /\ Stream' = Stream
    BY <1>1, <1>5, ServerReadStream
  <2>2. UNCHANGED <<qdepth, toSend, request_id, outstanding, answered, delayed,
                    client, link>>
    BY <1>5 DEF ServerRead, clientVars
  <2> QED BY <2>1, <2>2, SameStream
<1>6. CASE ServerFlush
  <2>1. TypeOK' /\ BuffersFit' /\ Framed' /\ Stream' = Stream
    BY <1>1, <1>6, ServerFlushStream
  <2>2. UNCHANGED <<qdepth, toSend, request_id, outstanding, answered, delayed,
                    client, link>>
    BY <1>6 DEF ServerFlush, clientVars
  <2> QED BY <2>1, <2>2, SameStream
<1>7. CASE Connect \/ ConnectErr \/ writeErr \/ ClientReadEOF \/ Close
             \/ connectionAccepted \/ readEOF \/ Lose \/ UNCHANGED vars
  BY <1>7, ControlKeeps
<1> QED BY <1>2, <1>3, <1>4, <1>5, <1>6, <1>7 DEF Next, ClientStep, ServerStep

\* The invariant holds of the specification.
THEOREM EchoCorrect == Spec => []EchoInv
<1>1. Init => EchoInv
  BY EchoInit
<1>2. EchoInv /\ [Next]_vars => EchoInv'
  BY EchoNext
<1> QED BY <1>1, <1>2, PTL DEF Spec

(***************************************************************************)
(* Both sides of the benchmark stay in step with the boundaries of the     *)
(* requests, however readDataAvailable and the socket's writes cut them    *)
(* and even when undefined behaviour has spoilt their ids.                 *)
(***************************************************************************)
THEOREM FramedCorrect == Spec => []Framed
<1>1. EchoInv => Framed
  BY DEF EchoInv
<1> QED BY <1>1, EchoCorrect, PTL

(***************************************************************************)
(* As long as no write outlives its WriteCallback, request_received is     *)
(* called for the requests in the order in which requests_send wrote them, *)
(* once each, and its assert holds.                                        *)
(***************************************************************************)
THEOREM EchoOrderCorrect == Spec => []EchoedInOrder
<1>1. EchoInv => EchoedInOrder
  BY DEF EchoInv
<1> QED BY <1>1, EchoCorrect, PTL

(***************************************************************************)
(* req_outstanding is the number of requests between the two programs, at  *)
(* most qdepth_, and never wraps.                                          *)
(***************************************************************************)
THEOREM OutstandingCorrect == Spec => []OutstandingExact
<1>1. EchoInv => OutstandingExact
  BY DEF EchoInv
<1> QED BY <1>1, EchoCorrect, PTL

\* A Benchmark that stops has sent qdepth_ - 1 requests beyond max_requests.
THEOREM SentCorrect == Spec => []SentExactly
<1>1. EchoInv => SentExactly
  BY DEF EchoInv
<1> QED BY <1>1, EchoCorrect, PTL
=============================================================================
