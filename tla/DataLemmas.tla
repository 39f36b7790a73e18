----------------------------- MODULE DataLemmas -----------------------------
(***************************************************************************)
(* Lemmas about the data that the modules compute with: numbers and their  *)
(* remainders, which pick a connection or a loop from a counter that wraps,*)
(* sequences, and the closed form of process_resp in RespFraming, for      *)
(* buffers of any length.                                                  *)
(***************************************************************************)
EXTENDS RespFraming, SequenceTheorems, WellFoundedInduction, TLAPS

-----------------------------------------------------------------------------
(* Numbers.                                                                *)

\* Every nonempty set of natural numbers has a least element.
LEMMA LeastNat ==
  ASSUME NEW T \in SUBSET Nat, T # {}
  PROVE  \E x \in T : \A y \in T : x <= y
<1> DEFINE Less == {ss \in Nat \X Nat : ss[1] < ss[2]}
<1>1. IsWellFoundedOn(Less, Nat)
  BY NatLessThanWellFounded DEF OpToRel
<1>2. \A x, y \in Nat : x < y => <<x, y>> \in Less
  OBVIOUS
<1>3. \A x, y \in Nat : ~ (y < x) => x <= y
  OBVIOUS
<1> HIDE DEF Less
<1>4. PICK x \in T : \A y \in T : <<y, x>> \notin Less
  BY <1>1, WFMin
<1>5. \A y \in T : ~ (y < x)
  BY <1>4, <1>2
<1>6. QED
  BY <1>5, <1>3

\* Division with remainder.
LEMMA DivMod ==
  ASSUME NEW a \in Nat, NEW b \in Nat \ {0}
  PROVE  a % b \in 0..b - 1 /\ \E k \in Nat : a = b * k + (a % b)
<1>1. a \div b \in Nat /\ a = b * (a \div b) + (a % b)
  OBVIOUS
<1>2. a % b \in 0..b - 1
  OBVIOUS
<1>3. QED
  BY <1>1, <1>2

\* Quotient and remainder are unique.
LEMMA UniqueDiv ==
  ASSUME NEW b \in Nat \ {0}, NEW m \in Int, NEW n \in Int,
         NEW x \in 0..b - 1, NEW y \in 0..b - 1, b * m + x = b * n + y
  PROVE  m = n /\ x = y
<1>1. b * (m - n) = y - x /\ y - x < b /\ -b < y - x
  OBVIOUS
<1>2. ~(m - n >= 1)
  <2>1. m - n >= 1 => b * (m - n) >= b
    OBVIOUS
  <2>2. QED
    BY <1>1, <2>1
<1>3. ~(m - n <= -1)
  <2>1. m - n <= -1 => b * (m - n) <= -b
    OBVIOUS
  <2>2. QED
    BY <1>1, <2>1
<1>4. m = n
  BY <1>2, <1>3
<1>5. QED
  BY <1>4

LEMMA ModOf ==
  ASSUME NEW b \in Nat \ {0}, NEW k \in Nat, NEW r \in 0..b - 1
  PROVE  (b * k + r) % b = r
<1>1. b * k \in Nat /\ b * k + r \in Nat
  OBVIOUS
<1> DEFINE y == (b * k + r) % b
<1>2. y \in 0..b - 1 /\ \E m \in Nat : b * k + r = b * m + y
  BY <1>1, DivMod
<1> HIDE DEF y
<1>3. PICK m \in Nat : b * k + r = b * m + y
  BY <1>2
<1>4. r = y
  BY <1>2, <1>3, UniqueDiv
<1>5. QED
  BY <1>4 DEF y

LEMMA SmallMod ==
  ASSUME NEW b \in Nat \ {0}, NEW r \in 0..b - 1
  PROVE  r % b = r
OBVIOUS

\* Numbers less than b apart have different remainders.
LEMMA WindowMod ==
  ASSUME NEW b \in Nat \ {0}, NEW i \in Nat, NEW j \in Nat, i < j, j < i + b
  PROVE  i % b # j % b
<1> SUFFICES ASSUME i % b = j % b PROVE FALSE
  OBVIOUS
<1>1. PICK k \in Nat : i = b * k + (i % b)
  BY DivMod
<1>2. PICK l \in Nat : j = b * l + (j % b)
  BY DivMod
<1>3. b * (l - k) = j - i
  BY <1>1, <1>2
<1>4. b * (l - k) \in 1..b - 1
  BY <1>3
<1>5. ~(l - k >= 1)
  <2>1. l - k >= 1 => b * (l - k) >= b
    OBVIOUS
  <2>2. QED
    BY <1>4, <2>1
<1>6. ~(l - k <= 0)
  <2>1. l - k <= 0 => b * (l - k) <= 0
    OBVIOUS
  <2>2. QED
    BY <1>4, <2>1
<1>7. QED
  BY <1>5, <1>6

\* A counter that wraps at a multiple of b goes through the remainders of b in
\* turn.
LEMMA ModMod ==
  ASSUME NEW a \in Nat, NEW b \in Nat \ {0}, NEW n \in Nat \ {0}, n % b = 0
  PROVE  (a % n) % b = a % b
<1> DEFINE x == a % n
<1>1. PICK k \in Nat : a = n * k + x
  BY DivMod
<1>2. x \in Nat
  BY DivMod
<1> HIDE DEF x
<1>3. PICK l \in Nat : n = b * l
  <2>1. PICK l \in Nat : n = b * l + (n % b)
    BY DivMod
  <2>2. QED
    BY <2>1
<1>4. PICK m \in Nat : x = b * m + (x % b)
  BY <1>2, DivMod
<1>5. x % b \in 0..b - 1
  BY <1>2, DivMod
<1>6. a = b * (l * k + m) + (x % b)
  <2>1. a = (b * l) * k + (b * m + (x % b))
    BY <1>1, <1>3, <1>4
  <2>2. (b * l) * k = b * (l * k) /\ b * (l * k + m) = b * (l * k) + b * m
    OBVIOUS
  <2>3. QED
    BY <1>5, <2>1, <2>2
<1>7. l * k + m \in Nat
  OBVIOUS
<1>8. (b * (l * k + m) + (x % b)) % b = x % b
  BY <1>5, <1>7, ModOf
<1>9. QED
  BY <1>6, <1>8 DEF x

LEMMA NextMod ==
  ASSUME NEW a \in Nat, NEW n \in Nat \ {0}
  PROVE  ((a % n) + 1) % n = (a + 1) % n
<1> DEFINE x == a % n
<1>1. PICK k \in Nat : a = n * k + x
  BY DivMod
<1>2. x \in 0..n - 1
  BY DivMod
<1> HIDE DEF x
<1>3. CASE x + 1 \in 0..n - 1
  <2>1. (x + 1) % n = x + 1
    BY <1>3, SmallMod
  <2>2. (n * k + (x + 1)) % n = x + 1
    BY <1>3, ModOf
  <2>3. a + 1 = n * k + (x + 1)
    BY <1>1, <1>2
  <2>4. QED
    BY <2>1, <2>2, <2>3 DEF x
<1>4. CASE x + 1 = n
  <2>1. (x + 1) % n = 0
    BY <1>4
  <2>2. (n * (k + 1) + 0) % n = 0
    BY ModOf
  <2>3. a + 1 = n * (k + 1) + 0
    <3>1. n * (k + 1) = n * k + n
      OBVIOUS
    <3>2. n * k \in Nat
      OBVIOUS
    <3>3. QED
      BY <1>1, <1>2, <1>4, <3>1, <3>2
  <2>4. QED
    BY <2>1, <2>2, <2>3 DEF x
<1>5. QED
  BY <1>2, <1>3, <1>4

\* One of l + 1 tries from g on, with a counter of range n, hits place j of l.
Meets(n, l, g, j) == \E i \in 0..l : ((g + i) % n) % l = j

\* l numbers in a row include one that leaves the remainder j.
LEMMA RoundHits ==
  ASSUME NEW l \in Nat \ {0}, NEW g \in Nat, NEW j \in 0..l - 1
  PROVE  \E d \in 0..l - 1, m \in Nat : g + d = l * m + j
<1>1. PICK k \in Nat : g = l * k + (g % l)
  BY DivMod
<1>2. PICK r \in 0..l - 1 : r = g % l
  BY DivMod
<1>3. g = l * k + r
  BY <1>1, <1>2
<1>4. CASE r <= j
  <2>1. j - r \in 0..l - 1 /\ g + (j - r) = l * k + j
    <3>1. l * k \in Nat
      OBVIOUS
    <3>2. QED
      BY <1>3, <1>4, <3>1
  <2>2. QED
    BY <2>1
<1>5. CASE r > j
  <2>1. l * (k + 1) = l * k + l /\ l * k \in Nat
    OBVIOUS
  <2>2. l + j - r \in 0..l - 1 /\ g + (l + j - r) = l * (k + 1) + j
    BY <1>3, <1>5, <2>1
  <2>3. k + 1 \in Nat
    OBVIOUS
  <2>4. QED
    BY <2>2, <2>3
<1>6. QED
  BY <1>4, <1>5

\* A try before the counter wraps hits the place that its remainder says.
LEMMA TryBeforeWrap ==
  ASSUME NEW n \in Nat \ {0}, NEW l \in Nat \ {0}, NEW g \in Nat,
         NEW j \in 0..l - 1, NEW d \in 0..l - 1, NEW m \in Nat,
         g + d = l * m + j, g + d < n
  PROVE  Meets(n, l, g, j)
<1> USE DEF Meets
<1>1. g + d \in 0..n - 1
  OBVIOUS
<1>2. (g + d) % n = g + d
  BY <1>1, SmallMod
<1>3. (l * m + j) % l = j
  BY ModOf
<1>4. ((g + d) % n) % l = j
  BY <1>2, <1>3
<1>5. d \in 0..l
  OBVIOUS
<1>6. QED
  BY <1>4, <1>5

\* A round of tries that ends before the counter wraps meets every place.
LEMMA RoundBeforeWrap ==
  ASSUME NEW n \in Nat \ {0}, NEW l \in Nat \ {0}, NEW g \in Nat,
         NEW j \in 0..l - 1, g + l <= n
  PROVE  Meets(n, l, g, j)
<1>1. PICK d \in 0..l - 1, m \in Nat : g + d = l * m + j
  BY RoundHits
<1>2. g + d < n
  OBVIOUS
<1>3. QED
  BY <1>1, <1>2, TryBeforeWrap

\* l + 1 tries from anywhere meet every one of l places, also across the wrap
\* of a counter whose range leaves a remainder of at most one.
LEMMA TriesMeet ==
  ASSUME NEW n \in Nat \ {0}, NEW l \in Nat \ {0}, l <= n, n % l \in {0, 1},
         NEW g \in 0..n - 1, NEW j \in 0..l - 1
  PROVE  Meets(n, l, g, j)
<1> USE DEF Meets
<1>1. PICK d \in 0..l - 1, m \in Nat : g + d = l * m + j
  <2>1. g \in Nat
    OBVIOUS
  <2>2. QED
    BY <2>1, RoundHits
<1>2. CASE g + d < n
  <2> HIDE DEF Meets
  <2>1. g \in Nat
    OBVIOUS
  <2>2. QED
    BY <1>1, <1>2, <2>1, TryBeforeWrap
<1>3. CASE g + d >= n
  <2>1. PICK e \in Nat : g + d = n + e /\ e + 1 \in 0..l - 1 /\ e \in 0..l - 1
    <3>1. g + d - n \in Nat /\ g + d - n + 1 \in 0..l - 1 /\ g + d - n \in 0..l - 1
      BY <1>3
    <3>2. g + d = n + (g + d - n)
      OBVIOUS
    <3>3. QED
      BY <3>1, <3>2
  <2>2. PICK k \in Nat : n = l * k + (n % l)
    BY DivMod
  <2>3. PICK w \in {0, 1} : w = n % l
    OBVIOUS
  <2>4. w + e \in 0..l - 1
    BY <2>1, <2>3
  <2>5. l * m + j = l * k + (w + e)
    <3>1. n = l * k + w
      BY <2>2, <2>3
    <3>2. l * k \in Nat
      OBVIOUS
    <3>3. QED
      BY <1>1, <2>1, <3>1, <3>2
  <2>6. j = w + e
    BY <2>4, <2>5, UniqueDiv
  <2>7. \A x \in 0..l - 1 : (n + x) % n = x /\ x % l = x
    <3> SUFFICES ASSUME NEW x \in 0..l - 1 PROVE (n + x) % n = x /\ x % l = x
      OBVIOUS
    <3>1. x \in 0..n - 1
      OBVIOUS
    <3>2. (n * 1 + x) % n = x
      BY <3>1, ModOf
    <3>3. n * 1 = n
      OBVIOUS
    <3>4. QED
      BY <3>2, <3>3, SmallMod
  <2>8. CASE w = 0
    <3>1. ((g + d) % n) % l = e /\ e = j
      BY <2>1, <2>6, <2>7, <2>8
    <3>2. d \in 0..l
      OBVIOUS
    <3>3. QED
      BY <3>1, <3>2
  <2>9. CASE w = 1
    <3>1. g + (d + 1) = n + (e + 1)
      BY <2>1
    <3>2. ((g + (d + 1)) % n) % l = e + 1 /\ e + 1 = j
      BY <2>1, <2>6, <2>7, <2>9, <3>1
    <3>3. d + 1 \in 0..l
      OBVIOUS
    <3>4. QED
      BY <3>2, <3>3
  <2>10. QED
    BY <2>3, <2>8, <2>9
<1>4. QED
  BY <1>2, <1>3

-----------------------------------------------------------------------------
(* Sequences.                                                              *)

\* A function on 1..n is a sequence.
LEMMA SeqFromFunction ==
  ASSUME NEW S, NEW n \in Nat, NEW f \in [1..n -> S]
  PROVE  f \in Seq(S)
BY SeqDef

\* A sequence is determined by its items.
LEMMA OneItem ==
  ASSUME NEW S, NEW q \in Seq(S), Len(q) = 1
  PROVE  q = <<q[1]>>
<1>1. q[1] \in S
  BY ElementOfSeq
<1>2. <<q[1]>> \in Seq(S) /\ Len(<<q[1]>>) = 1 /\ <<q[1]>>[1] = q[1]
  BY <1>1
<1>3. \A i \in 1..Len(q) : q[i] = <<q[1]>>[i]
  BY <1>2
<1>4. QED
  BY <1>2, <1>3, SeqEqual

LEMMA TwoItems ==
  ASSUME NEW S, NEW q \in Seq(S), Len(q) = 2
  PROVE  q = <<q[1], q[2]>>
<1>1. q[1] \in S /\ q[2] \in S
  BY ElementOfSeq
<1>2. <<q[1], q[2]>> \in Seq(S) /\ Len(<<q[1], q[2]>>) = 2
      /\ <<q[1], q[2]>>[1] = q[1] /\ <<q[1], q[2]>>[2] = q[2]
  BY <1>1
<1>3. \A i \in 1..Len(q) : q[i] = <<q[1], q[2]>>[i]
  BY <1>2
<1>4. QED
  BY <1>2, <1>3, SeqEqual

\* How two items are cut and put together.
LEMMA PairFacts ==
  ASSUME NEW h, NEW e
  PROVE  /\ SubSeq(<<h>>, 1, 1) = <<h>>
         /\ SubSeq(<<h, e>>, 1, 1) = <<h>>
         /\ SubSeq(<<h, e>>, 1, 2) = <<h, e>>
         /\ SubSeq(<<h, e>>, 2, 2) = <<e>>
         /\ <<h>> \o <<e>> = <<h, e>>
         /\ Append(<<h>>, e) = <<h, e>>
         /\ <<>> \o <<h>> = <<h>> /\ <<>> \o <<h, e>> = <<h, e>>
         /\ Behind(<<h, e>>, 1) = <<e>>
         /\ Behind(<<h, e>>, 2) = <<>> /\ Behind(<<h>>, 1) = <<>>
<1> DEFINE S == {h, e}
<1>1. <<h>> \in Seq(S) /\ <<e>> \in Seq(S) /\ <<h, e>> \in Seq(S)
  OBVIOUS
<1>2. ASSUME NEW x, x = <<h>>
      PROVE  SubSeq(x, 1, 1) = x
  <2>1. x \in Seq(S) /\ Len(x) = 1
    BY <1>1, <1>2
  <2>2. QED
    BY <2>1, SubSeqFull
<1>3. ASSUME NEW x, x = <<h, e>>
      PROVE  SubSeq(x, 1, 1) = <<h>> /\ SubSeq(x, 1, 2) = x /\ SubSeq(x, 2, 2) = <<e>>
  <2>1. x \in Seq(S) /\ Len(x) = 2 /\ x[1] = h /\ x[2] = e
    BY <1>1, <1>3
  <2> HIDE <1>3
  <2>2. SubSeq(x, 1, 2) = x
    BY <2>1, SubSeqFull
  <2>3. /\ SubSeq(x, 1, 1) \in Seq(S) /\ Len(SubSeq(x, 1, 1)) = 1
        /\ SubSeq(x, 1, 1)[1] = h
    BY <2>1, SubSeqProperties
  <2>4. /\ SubSeq(x, 2, 2) \in Seq(S) /\ Len(SubSeq(x, 2, 2)) = 1
        /\ SubSeq(x, 2, 2)[1] = e
    BY <2>1, SubSeqProperties
  <2>5. SubSeq(x, 1, 1) = <<h>>
    BY <2>3, OneItem
  <2>6. SubSeq(x, 2, 2) = <<e>>
    BY <2>4, OneItem
  <2>7. QED
    BY <2>2, <2>5, <2>6
<1>4. Append(<<h>>, e) = <<h, e>>
  <2>1. /\ Append(<<h>>, e) \in Seq(S) /\ Len(Append(<<h>>, e)) = 2
        /\ Append(<<h>>, e)[1] = h /\ Append(<<h>>, e)[2] = e
    BY <1>1, AppendProperties
  <2>2. QED
    BY <2>1, TwoItems
<1>5. <<h>> \o <<e>> = Append(<<h>>, e)
  BY <1>1, AppendIsConcat
<1>6. <<>> \o <<h>> = <<h>> /\ <<>> \o <<h, e>> = <<h, e>>
  BY <1>1, ConcatEmptySeq
<1>7. /\ Behind(<<h, e>>, 1) = SubSeq(<<h, e>>, 2, 2)
      /\ Behind(<<h, e>>, 2) = SubSeq(<<h, e>>, 3, 2)
      /\ Behind(<<h>>, 1) = SubSeq(<<h>>, 2, 1)
  BY DEF Behind
<1>8. SubSeq(<<h, e>>, 3, 2) = <<>> /\ SubSeq(<<h>>, 2, 1) = <<>>
  BY SubSeqEmpty
<1>9. QED
  BY <1>2, <1>3, <1>4, <1>5, <1>6, <1>7, <1>8

-----------------------------------------------------------------------------
(* The closed form of process_resp.                                        *)

\* Singles is well defined: it is the length of the longest prefix of "one"s.
LEMMA SinglesFacts ==
  ASSUME NEW S, NEW buf \in Seq(S)
  PROVE  /\ Singles(buf) \in 0..Len(buf)
         /\ \A i \in 1..Singles(buf) : buf[i].t = "one"
         /\ Singles(buf) < Len(buf) => buf[Singles(buf) + 1].t # "one"
<1>1. Len(buf) \in Nat
  BY LenProperties
<1> DEFINE Stops == {n \in 0..Len(buf) : n < Len(buf) => buf[n + 1].t # "one"}
<1>2. Stops \in SUBSET Nat /\ Len(buf) \in Stops
  BY <1>1
<1>3. PICK n \in Stops : \A m \in Stops : n <= m
  BY <1>2, LeastNat
<1>4. \A i \in 1..n : buf[i].t = "one"
  <2>1. SUFFICES ASSUME NEW i \in 1..n, buf[i].t # "one"
                 PROVE  FALSE
    OBVIOUS
  <2>2. i - 1 \in Stops
    BY <1>1, <2>1
  <2>3. QED
    BY <1>1, <1>3, <2>2
<1>5. \E m \in 0..Len(buf) : /\ \A i \in 1..m : buf[i].t = "one"
                             /\ m < Len(buf) => buf[m + 1].t # "one"
  BY <1>3, <1>4
<1>6. QED
  BY <1>5 DEF Singles

\* What is behind the first n tokens.
LEMMA BehindFacts ==
  ASSUME NEW S, NEW buf \in Seq(S), NEW n \in Nat
  PROVE  /\ Behind(buf, n) \in Seq(S)
         /\ n <= Len(buf) => Len(Behind(buf, n)) = Len(buf) - n
         /\ \A i \in 1..Len(buf) - n : Behind(buf, n)[i] = buf[n + i]
<1>1. Len(buf) \in Nat /\ \A i \in n + 1..Len(buf) : buf[i] \in S
  BY LenProperties, ElementOfSeq
<1> DEFINE m == n + 1
           l == Len(buf)
<1>2. m \in Int /\ l \in Int /\ \A i \in m..l : buf[i] \in S
  BY <1>1
<1>3. /\ SubSeq(buf, m, l) \in Seq(S)
      /\ Len(SubSeq(buf, m, l)) = IF m <= l THEN l - m + 1 ELSE 0
      /\ \A i \in 1..l - m + 1 : SubSeq(buf, m, l)[i] = buf[m + i - 1]
  <2> HIDE DEF m, l
  <2> QED
    BY <1>2, SubSeqProperties
<1>4. QED
  BY <1>1, <1>3 DEF Behind

\* No message is made of an incomplete or bad token: the messages of a buffer
\* over T consist of those tokens of T that are complete.
LEMMA MessagesType ==
  ASSUME NEW S, NEW T, NEW buf \in Seq(T),
         \A x \in T : x.t \notin {"part", "bad"} => x \in S
  PROVE  Messages(buf) \in Seq(Seq(S))
<1>1. /\ Singles(buf) \in 0..Len(buf) /\ Len(buf) \in Nat
      /\ \A i \in 1..Singles(buf) : buf[i].t = "one"
  BY SinglesFacts, LenProperties
<1>2. \A i \in 1..Singles(buf) : <<buf[i]>> \in Seq(S)
  <2> SUFFICES ASSUME NEW i \in 1..Singles(buf) PROVE <<buf[i]>> \in Seq(S)
    OBVIOUS
  <2>1. buf[i] \in T
    BY <1>1, ElementOfSeq
  <2>2. buf[i] \in S
    BY <1>1, <2>1
  <2>3. QED
    BY <2>2
<1>3. [i \in 1..Singles(buf) |-> <<buf[i]>>] \in Seq(Seq(S))
  <2>1. [i \in 1..Singles(buf) |-> <<buf[i]>>] \in [1..Singles(buf) -> Seq(S)]
    BY <1>2
  <2>2. Singles(buf) \in Nat
    BY <1>1
  <2>3. QED
    BY <2>1, <2>2, SeqFromFunction
<1>4. ASSUME Merged(buf)
      PROVE  Behind(buf, Singles(buf)) \in Seq(S)
  <2> DEFINE rest == Behind(buf, Singles(buf))
  <2>1. rest \in Seq(T)
    BY <1>1, BehindFacts
  <2>2. \A i \in 1..Len(rest) : rest[i].t \notin {"part", "bad"}
    BY <1>4 DEF Merged, Clean, OfKind
  <2>3. \A i \in 1..Len(rest) : rest[i] \in S
    BY <2>1, <2>2, ElementOfSeq
  <2>4. Len(rest) \in Nat /\ rest \in [1..Len(rest) -> T] /\ DOMAIN rest = 1..Len(rest)
    BY <2>1, LenProperties
  <2>5. rest \in [1..Len(rest) -> S]
    <3> HIDE DEF rest
    <3> QED
      BY <2>3, <2>4
  <2>6. QED
    BY <2>4, <2>5, SeqFromFunction
<1>5. ASSUME Merged(buf)
      PROVE  <<Behind(buf, Singles(buf))>> \in Seq(Seq(S))
  BY <1>4, <1>5
<1>6. <<>> \in Seq(Seq(S))
  BY EmptySeq
<1>7. QED
  BY <1>3, <1>5, <1>6, ConcatProperties DEF Messages

\* onRead never drains more than the buffer holds.
LEMMA ConsumedType ==
  ASSUME NEW S, NEW buf \in Seq(S)
  PROVE  Consumed(buf) \in 0..Len(buf)
<1>1. Singles(buf) \in 0..Len(buf) /\ Len(buf) \in Nat
  BY SinglesFacts, LenProperties
<1>2. QED
  BY <1>1 DEF Consumed

-----------------------------------------------------------------------------
(* The buffers of clients that wait, and of redis when it answers with one  *)
(* item.                                                                    *)

\* Items that stand alone are a message each, whether or not the beginning of
\* another one is behind them.
LEMMA OnesFraming ==
  ASSUME NEW S, NEW data \in Seq(S), \A i \in 1..Len(data) : data[i].t = "one",
         NEW part, part.t = "part",
         NEW buf, buf = data \/ buf = Append(data, part)
  PROVE  /\ Len(Messages(buf)) = Len(data)
         /\ \A i \in 1..Len(data) : Messages(buf)[i] = <<data[i]>>
         /\ Consumed(buf) = Len(data)
<1> DEFINE T == S \cup {part}
<1>0. data \in Seq(T) /\ part \in T
  BY SeqMonotonic
<1> HIDE DEF T
<1>1. /\ Len(data) \in Nat /\ buf \in Seq(T) /\ Len(buf) \in Nat
      /\ Len(buf) \in {Len(data), Len(data) + 1}
      /\ \A i \in 1..Len(data) : buf[i] = data[i]
      /\ Len(buf) = Len(data) + 1 => buf[Len(data) + 1] = part
  BY <1>0, LenProperties, AppendProperties
<1>2. Singles(buf) = Len(data)
  <2>1. /\ Singles(buf) \in 0..Len(buf)
        /\ \A i \in 1..Singles(buf) : buf[i].t = "one"
        /\ Singles(buf) < Len(buf) => buf[Singles(buf) + 1].t # "one"
    BY <1>1, SinglesFacts
  <2>2. ~ (Singles(buf) < Len(data))
    BY <1>1, <2>1
  <2>3. ~ (Singles(buf) > Len(data))
    BY <1>1, <2>1
  <2>4. QED
    BY <1>1, <2>1, <2>2, <2>3
<1>3. ~Merged(buf)
  <2> DEFINE rest == Behind(buf, Len(data))
  <2>1. /\ rest \in Seq(T) /\ Len(rest) = Len(buf) - Len(data)
        /\ \A i \in 1..Len(buf) - Len(data) : rest[i] = buf[Len(data) + i]
    <3>1. Len(data) <= Len(buf) /\ Len(data) \in Nat /\ buf \in Seq(T)
      BY <1>1
    <3>2. QED
      BY <3>1, BehindFacts
  <2>2. SUFFICES ASSUME rest # <<>> PROVE Head(rest).t # "arr"
    BY <1>2 DEF Merged
  <2> HIDE DEF rest
  <2>3. Len(rest) # 0
    BY <2>1, <2>2, EmptySeq
  <2>4. rest[1] = part
    BY <1>1, <2>1, <2>3
  <2>5. Head(rest) = rest[1]
    BY <2>1, <2>2
  <2>6. QED
    BY <2>4, <2>5
<1>4. Messages(buf) = [i \in 1..Len(data) |-> <<buf[i]>>] \o <<>>
  BY <1>2, <1>3 DEF Messages
<1>5. [i \in 1..Len(data) |-> <<buf[i]>>] = [i \in 1..Len(data) |-> <<data[i]>>]
  BY <1>1
<1>6. [i \in 1..Len(data) |-> <<data[i]>>] \in Seq(Seq(S))
  <2>1. \A i \in 1..Len(data) : <<data[i]>> \in Seq(S)
    BY ElementOfSeq
  <2>2. QED
    BY <1>1, <2>1, SeqFromFunction
<1>7. Messages(buf) = [i \in 1..Len(data) |-> <<data[i]>>]
  BY <1>4, <1>5, <1>6, ConcatEmptySeq
<1>8. /\ Len([i \in 1..Len(data) |-> <<data[i]>>]) = Len(data)
      /\ \A i \in 1..Len(data) : [j \in 1..Len(data) |-> <<data[j]>>][i] = <<data[i]>>
  BY <1>1
<1>9. Consumed(buf) = Len(data)
  BY <1>2, <1>3 DEF Consumed
<1>10. QED
  BY <1>7, <1>8, <1>9

\* A header and its element are one message.
LEMMA PairFraming ==
  ASSUME NEW h, NEW e, h.t = "arr", e.t = "one"
  PROVE  Messages(<<h, e>>) = <<<<h, e>>>> /\ Consumed(<<h, e>>) = 2
<1> DEFINE buf == <<h, e>>
<1>1. buf \in Seq({h, e}) /\ Len(buf) = 2 /\ buf[1] = h /\ buf[2] = e
  OBVIOUS
<1> HIDE DEF buf
<1>2. Singles(buf) = 0
  BY <1>1, SinglesFacts
<1>3. Behind(buf, 0) = buf
  BY <1>1 DEF Behind
<1>4. Merged(buf)
  <2>1. Head(buf) = h /\ buf # <<>>
    BY <1>1
  <2>2. Clean(buf)
    BY <1>1 DEF Clean, OfKind
  <2>3. QED
    BY <1>2, <1>3, <2>1, <2>2 DEF Merged
<1>5. [i \in 1..0 |-> <<buf[i]>>] = <<>>
  OBVIOUS
<1>6. Messages(buf) = <<>> \o <<buf>>
  BY <1>2, <1>3, <1>4, <1>5 DEF Messages
<1>7. <<>> \o <<buf>> = <<buf>>
  OBVIOUS
<1>8. QED
  BY <1>1, <1>4, <1>6, <1>7 DEF Consumed, buf

\* A header whose element is not all there waits in the buffer.
LEMMA CutFraming ==
  ASSUME NEW h, NEW part, h.t = "arr", part.t = "part"
  PROVE  Messages(<<h, part>>) = <<>> /\ Consumed(<<h, part>>) = 0
<1> DEFINE buf == <<h, part>>
<1>1. buf \in Seq({h, part}) /\ Len(buf) = 2 /\ buf[1] = h /\ buf[2] = part
  OBVIOUS
<1> HIDE DEF buf
<1>2. Singles(buf) = 0
  BY <1>1, SinglesFacts
<1>3. Behind(buf, 0) = buf
  BY <1>1 DEF Behind
<1>4. ~Merged(buf)
  <2>1. ~Clean(buf)
    BY <1>1 DEF Clean, OfKind
  <2>2. QED
    BY <1>2, <1>3, <2>1 DEF Merged
<1>5. [i \in 1..0 |-> <<buf[i]>>] = <<>>
  OBVIOUS
<1>6. Messages(buf) = <<>> \o <<>>
  BY <1>2, <1>4, <1>5 DEF Messages
<1>7. QED
  BY <1>2, <1>4, <1>6 DEF Consumed, buf
=============================================================================
