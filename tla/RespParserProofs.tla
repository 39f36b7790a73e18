-------------------------- MODULE RespParserProofs --------------------------
(***************************************************************************)
(* Theorems about RespParser, for buffers and streams of any length and    *)
(* arrays of any size: process_resp computes the closed form of            *)
(* RespFraming, nothing that arrives is lost, repeated or reordered, and   *)
(* a peer that sends a value at a time has every value forwarded whole.    *)
(*                                                                         *)
(* A recursive function is what its definition says if any function is,    *)
(* and two that are differ nowhere, least of all where they differ first.  *)
(***************************************************************************)
EXTENDS RespParser, DataLemmas

USE RespParserAssumption

-----------------------------------------------------------------------------
\* Concatenation is associative, as an operator the provers need not look into.
Regrouped(a, b, c) == (a \o b) \o c = a \o (b \o c)

LEMMA Regroup ==
  ASSUME NEW S, NEW a \in Seq(S), NEW b \in Seq(S), NEW c \in Seq(S)
  PROVE  Regrouped(a, b, c)
BY ConcatAssociative DEF Regrouped

-----------------------------------------------------------------------------
(* The closed form, from one token to the next.                            *)

LEMMA SinglesUnique ==
  ASSUME NEW S, NEW c \in Seq(S), NEW n \in 0..Len(c),
         \A i \in 1..n : c[i].t = "one",
         n < Len(c) => c[n + 1].t # "one"
  PROVE  Singles(c) = n
<1>1. /\ Len(c) \in Nat /\ Singles(c) \in 0..Len(c)
      /\ \A i \in 1..Singles(c) : c[i].t = "one"
      /\ Singles(c) < Len(c) => c[Singles(c) + 1].t # "one"
  BY SinglesFacts, LenProperties
<1>2. ~ (n < Singles(c))
  BY <1>1
<1>3. ~ (Singles(c) < n)
  BY <1>1
<1>4. QED
  BY <1>1, <1>2, <1>3

LEMMA BehindBehind ==
  ASSUME NEW S, NEW b \in Seq(S), NEW m \in Nat, NEW n \in Nat, m + n <= Len(b)
  PROVE  Behind(Behind(b, m), n) = Behind(b, m + n)
<1> DEFINE c == Behind(b, m)
           d == Behind(c, n)
           e == Behind(b, m + n)
<1>0. Len(b) \in Nat /\ m <= Len(b) /\ m + n \in Nat
  BY LenProperties
<1>1. /\ c \in Seq(S) /\ Len(c) = Len(b) - m
      /\ \A i \in 1..Len(b) - m : c[i] = b[m + i]
  BY <1>0, BehindFacts
<1>2. /\ e \in Seq(S) /\ Len(e) = Len(b) - (m + n)
      /\ \A i \in 1..Len(b) - (m + n) : e[i] = b[m + n + i]
  BY <1>0, BehindFacts
<1> HIDE DEF c, e
<1>3. /\ d \in Seq(S) /\ Len(d) = Len(c) - n
      /\ \A i \in 1..Len(c) - n : d[i] = c[n + i]
  <2>1. n <= Len(c) /\ c \in Seq(S)
    BY <1>0, <1>1
  <2>2. QED
    BY <2>1, BehindFacts
<1> HIDE DEF d
<1>4. Len(d) = Len(e) /\ \A i \in 1..Len(d) : d[i] = e[i]
  BY <1>0, <1>1, <1>2, <1>3
<1>5. d = e
  BY <1>2, <1>3, <1>4, SeqEqual
<1>6. QED
  BY <1>5 DEF c, d, e

LEMMA BehindEnds ==
  ASSUME NEW S, NEW b \in Seq(S)
  PROVE  Behind(b, 0) = b /\ Behind(b, Len(b)) = <<>>
<1>1. Len(b) \in Nat
  BY LenProperties
<1>2. Behind(b, 0) = SubSeq(b, 1, Len(b)) /\ Behind(b, Len(b)) = SubSeq(b, Len(b) + 1, Len(b))
  BY DEF Behind
<1>3. QED
  BY <1>1, <1>2, SubSeqFull, SubSeqEmpty

\* How process_resp ends: it completes if it consumed everything, and otherwise
\* what is first in the rest says why not.
Outcome(c) ==
  IF Consumed(c) = Len(c) THEN "Completed"
  ELSE IF c[Singles(c) + 1].t = "part" THEN "Incompleted" ELSE "Error"

Closed(c) == Result(Consumed(c), Outcome(c), Messages(c))

LEMMA ClosedEmpty ==
  ASSUME NEW S, NEW c \in Seq(S), c = <<>>
  PROVE  Closed(c) = Result(0, "Completed", <<>>)
<1>1. Len(c) = 0
  BY EmptySeq
<1>2. Singles(c) = 0
  <2>1. Singles(c) \in 0..Len(c)
    BY SinglesFacts
  <2>2. QED
    BY <1>1, <2>1
<1>3. Behind(c, 0) = <<>>
  BY BehindEnds
<1>4. ~Merged(c)
  BY <1>2, <1>3 DEF Merged
<1>5. Messages(c) = [i \in 1..0 |-> <<c[i]>>] \o <<>>
  BY <1>2, <1>4 DEF Messages
<1>6. [i \in 1..0 |-> <<c[i]>>] = <<>>
  OBVIOUS
<1>7. Messages(c) = <<>> \o <<>>
  BY <1>5, <1>6
<1>8. <<>> \o <<>> = <<>>
  BY EmptySeq, ConcatEmptySeq
<1>9. QED
  BY <1>1, <1>2, <1>4, <1>7, <1>8 DEF Closed, Outcome, Consumed

\* A token that cannot be part of a message is where process_resp stops.
LEMMA ClosedStop ==
  ASSUME NEW S, NEW c \in Seq(S), c # <<>>, c[1].t # "one", c[1].t = "arr" => ~Clean(c)
  PROVE  Closed(c) = Result(0, IF c[1].t = "part" THEN "Incompleted" ELSE "Error", <<>>)
<1>1. Len(c) \in Nat \ {0}
  BY EmptySeq
<1>2. Singles(c) = 0
  BY <1>1, SinglesUnique
<1>3. Behind(c, 0) = c
  BY BehindEnds
<1>4. Head(c) = c[1]
  OBVIOUS
<1>5. ~Merged(c)
  BY <1>2, <1>3, <1>4 DEF Merged
<1>6. [i \in 1..0 |-> <<c[i]>>] = <<>> /\ <<>> \o <<>> = <<>>
  BY EmptySeq, ConcatEmptySeq
<1>7. Messages(c) = <<>>
  BY <1>2, <1>5, <1>6 DEF Messages
<1>8. QED
  BY <1>1, <1>2, <1>5, <1>7 DEF Closed, Outcome, Consumed

\* An array header with nothing cut or bad behind it takes everything.
LEMMA ClosedMerge ==
  ASSUME NEW S, NEW c \in Seq(S), c # <<>>, c[1].t = "arr", Clean(c)
  PROVE  Closed(c) = Result(Len(c), "Completed", <<c>>)
<1>1. Len(c) \in Nat \ {0}
  BY EmptySeq
<1>2. Singles(c) = 0
  BY <1>1, SinglesUnique
<1>3. Behind(c, 0) = c
  BY BehindEnds
<1>4. Head(c) = c[1]
  OBVIOUS
<1>5. Merged(c)
  BY <1>2, <1>3, <1>4 DEF Merged
<1>6. [i \in 1..0 |-> <<c[i]>>] = <<>> /\ <<>> \o <<c>> = <<c>>
  BY ConcatEmptySeq
<1>7. Messages(c) = <<c>>
  BY <1>2, <1>3, <1>5, <1>6 DEF Messages
<1>8. QED
  BY <1>1, <1>5, <1>7 DEF Closed, Outcome, Consumed

\* An item that stands alone is a message, and the rest is as before.
LEMMA ClosedOne ==
  ASSUME NEW S, NEW c \in Seq(S), c # <<>>, c[1].t = "one"
  PROVE  LET d == Closed(Behind(c, 1))
         IN  Closed(c) = Result(1 + d.n, d.res, <<<<c[1]>>>> \o d.calls)
<1> DEFINE d == Behind(c, 1)
           n == Singles(d)
<1>1. Len(c) \in Nat \ {0} /\ 1 <= Len(c) /\ c[1] \in S
  BY EmptySeq, ElementOfSeq
<1>2. /\ d \in Seq(S) /\ Len(d) = Len(c) - 1
      /\ \A i \in 1..Len(c) - 1 : d[i] = c[1 + i]
  BY <1>1, BehindFacts
<1>3. /\ n \in 0..Len(d)
      /\ \A i \in 1..n : d[i].t = "one"
      /\ n < Len(d) => d[n + 1].t # "one"
  <2> HIDE DEF d
  <2> QED
    BY <1>2, SinglesFacts
<1>4. Singles(c) = n + 1
  <2> HIDE DEF n
  <2>1. n + 1 \in 0..Len(c) /\ Len(d) \in Nat
    BY <1>1, <1>2, <1>3
  <2>2. ASSUME NEW i \in 1..n + 1 PROVE c[i].t = "one"
    <3>1. CASE i = 1
      BY <3>1
    <3>2. CASE i # 1
      <4>1. i - 1 \in 1..n /\ i - 1 \in 1..Len(c) - 1 /\ 1 + (i - 1) = i
        BY <1>1, <1>2, <1>3, <2>1, <3>2
      <4>2. QED
        BY <1>2, <1>3, <4>1
    <3>3. QED
      BY <3>1, <3>2
  <2>3. n + 1 < Len(c) => c[n + 1 + 1].t # "one"
    <3> SUFFICES ASSUME n + 1 < Len(c) PROVE c[n + 1 + 1].t # "one"
      OBVIOUS
    <3>1. n < Len(d) /\ n + 1 \in 1..Len(c) - 1 /\ 1 + (n + 1) = n + 1 + 1
      BY <1>1, <1>2, <1>3, <2>1
    <3>2. QED
      BY <1>2, <1>3, <3>1
  <2>4. QED
    BY <2>1, <2>2, <2>3, SinglesUnique
<1>5. Behind(c, Singles(c)) = Behind(d, n)
  <2>1. n \in Nat /\ 1 \in Nat /\ 1 + n <= Len(c) /\ 1 + n = n + 1
    BY <1>1, <1>2, <1>3
  <2>2. Behind(Behind(c, 1), n) = Behind(c, 1 + n)
    <3> HIDE DEF n
    <3> QED
      BY <2>1, BehindBehind
  <2>3. QED
    BY <1>4, <2>1, <2>2
<1>6. Merged(c) <=> Merged(d)
  BY <1>5 DEF Merged
<1>7. Consumed(c) = 1 + Consumed(d) /\ Consumed(d) \in 0..Len(d)
  BY <1>1, <1>2, <1>3, <1>4, <1>6 DEF Consumed
<1>8. Outcome(c) = Outcome(d)
  <2>1. Consumed(c) = Len(c) <=> Consumed(d) = Len(d)
    BY <1>1, <1>2, <1>7
  <2>2. ASSUME Consumed(d) # Len(d) PROVE c[Singles(c) + 1] = d[n + 1]
    <3>1. n + 1 \in 1..Len(c) - 1 /\ 1 + (n + 1) = Singles(c) + 1
      <4> HIDE DEF n
      <4>1. Consumed(d) = n
        BY <2>2 DEF Consumed, n
      <4>2. QED
        BY <1>1, <1>2, <1>3, <1>4, <2>2, <4>1
    <3>2. QED
      BY <1>2, <3>1
  <2>3. QED
    BY <2>1, <2>2 DEF Outcome
<1>9. Messages(c) = <<<<c[1]>>>> \o Messages(d)
  <2> DEFINE T == Seq(S)
             x == [i \in 1..n + 1 |-> <<c[i]>>]
             y == [i \in 1..n |-> <<d[i]>>]
             z == IF Merged(d) THEN <<Behind(d, n)>> ELSE <<>>
             w == <<<<c[1]>>>>
  <2>1. n \in Nat /\ n + 1 \in Nat
    BY <1>1, <1>2, <1>3
  <2> HIDE DEF n
  <2>2. x \in Seq(T) /\ Len(x) = n + 1 /\ \A i \in 1..n + 1 : x[i] = <<c[i]>>
    <3>1. ASSUME NEW i \in 1..n + 1 PROVE <<c[i]>> \in Seq(S)
      <4>1. c[i] \in S
        BY <1>1, <1>2, <1>3, <2>1, ElementOfSeq
      <4>2. QED
        BY <4>1
    <3>2. x \in [1..n + 1 -> T]
      BY <3>1
    <3>3. QED
      BY <2>1, <3>2, SeqFromFunction
  <2>3. y \in Seq(T) /\ Len(y) = n /\ \A i \in 1..n : y[i] = <<d[i]>>
    <3>1. ASSUME NEW i \in 1..n PROVE <<d[i]>> \in Seq(S)
      <4>1. d[i] \in S
        <5>1. i \in 1..Len(d)
          BY <1>1, <1>2, <1>3, <2>1
        <5> HIDE DEF d
        <5>2. QED
          BY <1>2, <5>1, ElementOfSeq
      <4>2. QED
        BY <4>1
    <3>2. y \in [1..n -> T]
      BY <3>1
    <3>3. QED
      BY <2>1, <3>2, SeqFromFunction
  <2>4. z \in Seq(T)
    <3>1. Behind(d, n) \in T
      <4> HIDE DEF d
      <4> QED
        BY <1>2, <2>1, BehindFacts
    <3>2. <<>> \in Seq(T)
      BY EmptySeq
    <3>3. QED
      BY <3>1, <3>2
  <2>5. w \in Seq(T) /\ Len(w) = 1 /\ w[1] = <<c[1]>>
    BY <1>1
  <2>6. x = w \o y
    <3> HIDE DEF x, y, w, d
    <3>1. /\ w \o y \in Seq(T) /\ Len(w \o y) = n + 1
          /\ \A i \in 1..n + 1 : (w \o y)[i] = IF i <= 1 THEN w[i] ELSE y[i - 1]
      <4>1. /\ w \o y \in Seq(T) /\ Len(w \o y) = Len(w) + Len(y)
            /\ \A i \in 1..Len(w) + Len(y) :
                 (w \o y)[i] = IF i <= Len(w) THEN w[i] ELSE y[i - Len(w)]
        BY <2>3, <2>5, ConcatProperties
      <4>2. QED
        BY <2>1, <2>3, <2>5, <4>1
    <3>2. ASSUME NEW i \in 1..n + 1 PROVE x[i] = (w \o y)[i]
      <4>1. CASE i = 1
        <5>1. x[1] = <<c[1]>> /\ (w \o y)[1] = w[1]
          <6>1. 1 \in 1..n + 1
            BY <2>1
          <6>2. x[1] = <<c[1]>>
            BY <2>2, <6>1
          <6>3. (w \o y)[1] = w[1]
            BY <3>1, <6>1
          <6>4. QED
            BY <6>2, <6>3
        <5>2. QED
          BY <2>5, <4>1, <5>1
      <4>2. CASE i # 1
        <5>1. i - 1 \in 1..n /\ i - 1 \in 1..Len(c) - 1 /\ 1 + (i - 1) = i /\ ~ (i <= 1)
          BY <1>1, <1>2, <1>3, <2>1, <4>2
        <5>2. d[i - 1] = c[i]
          BY <1>2, <5>1
        <5>3. QED
          BY <2>2, <2>3, <3>1, <5>1, <5>2
      <4>3. QED
        BY <4>1, <4>2
    <3>3. QED
      BY <2>2, <3>1, <3>2, SeqEqual
  <2>7. Messages(c) = x \o z
    BY <1>4, <1>5, <1>6 DEF Messages, n
  <2>8. Messages(d) = y \o z
    BY DEF Messages, n
  <2>9. (w \o y) \o z = w \o (y \o z)
    <3>1. w \in Seq(T) /\ y \in Seq(T) /\ z \in Seq(T)
      BY <2>3, <2>4, <2>5
    <3> HIDE DEF w, y, z, T
    <3>2. Regrouped(w, y, z)
      BY <3>1, Regroup
    <3>3. QED
      BY <3>2 DEF Regrouped
  <2>10. QED
    BY <2>6, <2>7, <2>8, <2>9
<1>10. QED
  BY <1>7, <1>8, <1>9 DEF Closed, Result

\* process_resp completes if and only if nothing is cut or bad.
LEMMA CompletedClean ==
  ASSUME NEW S, NEW c \in Seq(S), \A i \in 1..Len(c) : c[i].t \in TokenKind
  PROVE  /\ Outcome(c) = "Completed" <=> Clean(c)
         /\ Clean(c) => Consumed(c) = Len(c)
<1> DEFINE n == Singles(c)
           rest == Behind(c, n)
<1>1. /\ Len(c) \in Nat /\ n \in 0..Len(c)
      /\ \A i \in 1..n : c[i].t = "one"
      /\ n < Len(c) => c[n + 1].t # "one"
  BY SinglesFacts, LenProperties
<1>2. /\ rest \in Seq(S) /\ Len(rest) = Len(c) - n
      /\ \A i \in 1..Len(c) - n : rest[i] = c[n + i]
  <2> HIDE DEF n
  <2> QED
    BY <1>1, BehindFacts
<1> HIDE DEF n, rest
<1>3. Clean(c) <=> Clean(rest)
  <2>1. ASSUME Clean(c) PROVE Clean(rest)
    <3>1. ASSUME NEW i \in 1..Len(rest) PROVE rest[i].t \notin {"part", "bad"}
      <4>1. i \in 1..Len(c) - n /\ n + i \in 1..Len(c)
        BY <1>1, <1>2
      <4>2. QED
        BY <1>2, <2>1, <4>1 DEF Clean, OfKind
    <3>2. QED
      BY <3>1 DEF Clean, OfKind
  <2>2. ASSUME Clean(rest), NEW i \in 1..Len(c) PROVE c[i].t \notin {"part", "bad"}
    <3>1. CASE i \in 1..n
      BY <1>1, <3>1
    <3>2. CASE i \notin 1..n
      <4>1. i - n \in 1..Len(c) - n /\ n + (i - n) = i
        BY <1>1, <3>2
      <4>2. rest[i - n] = c[i] /\ i - n \in 1..Len(rest)
        BY <1>2, <4>1
      <4>3. QED
        BY <2>2, <4>2 DEF Clean, OfKind
    <3>3. QED
      BY <3>1, <3>2
  <2>3. QED
    BY <2>1, <2>2 DEF Clean, OfKind
<1>4. ASSUME Clean(c) PROVE Consumed(c) = Len(c)
  <2>1. CASE n = Len(c)
    BY <2>1 DEF Consumed, n
  <2>2. CASE n # Len(c)
    <3>1. n < Len(c) /\ n + 1 \in 1..Len(c) /\ 1 \in 1..Len(c) - n
      BY <1>1, <2>2
    <3>2. c[n + 1].t \notin {"one", "part", "bad"} /\ c[n + 1].t \in TokenKind
      BY <1>1, <1>4, <3>1 DEF Clean, OfKind
    <3>3. rest # <<>> /\ Head(rest) = rest[1] /\ rest[1] = c[n + 1]
      <4>1. Len(rest) # 0
        BY <1>1, <1>2, <2>2
      <4>2. QED
        BY <1>2, <3>1, <4>1, EmptySeq
    <3>4. Merged(c)
      BY <1>3, <1>4, <3>2, <3>3 DEF Merged, rest, n, TokenKind
    <3>5. QED
      BY <3>4 DEF Consumed
  <2>3. QED
    BY <2>1, <2>2
<1>5. ASSUME Consumed(c) = Len(c) PROVE Clean(c)
  <2>1. CASE Merged(c)
    BY <1>3, <2>1 DEF Merged, rest, n
  <2>2. CASE ~Merged(c)
    <3>1. n = Len(c)
      BY <1>5, <2>2 DEF Consumed, n
    <3>2. QED
      BY <1>1, <3>1 DEF Clean, OfKind
  <2>3. QED
    BY <2>1, <2>2
<1>6. QED
  BY <1>4, <1>5 DEF Outcome

-----------------------------------------------------------------------------
(* process_array and process_resp.                                         *)

LEMMA RespUnfold ==
  ASSUME NEW b, \E f : f = [p \in 0..Len(b) |-> RespAt(b, f, p)]
  PROVE  Resp(b) = [p \in 0..Len(b) |-> RespAt(b, Resp(b), p)]
<1> DEFINE P(f) == f = [p \in 0..Len(b) |-> RespAt(b, f, p)]
<1>1. P(CHOOSE f : P(f))
  OBVIOUS
<1>2. QED
  BY <1>1 DEF Resp

LEMMA RoundsUnfold ==
  ASSUME NEW resp, NEW start, NEW size,
         \E f : f = [k \in 0..size |-> Round(resp, start, f, k)]
  PROVE  Rounds(resp, start, size)
           = [k \in 0..size |-> Round(resp, start, Rounds(resp, start, size), k)]
BY DEF Rounds

\* process_array, whose header is in front of position start: the first round
\* runs to the end of the buffer, or nowhere; the others find nothing left.
LEMMA RoundsClosed ==
  ASSUME NEW l \in Nat, NEW start \in 0..l, NEW size \in Nat \ {0}, NEW resp,
         NEW clean \in BOOLEAN,
         resp[start].res = "Completed" <=> clean,
         clean => resp[start].n = l - start,
         resp[l].res = "Completed", resp[l].n = 0
  PROVE  Rounds(resp, start, size)[size]
           = IF clean THEN Result(l, "Completed", <<>>) ELSE Result(0, "Error", <<>>)
<1> DEFINE first == Result(start, "Completed", <<>>)
           other == IF clean THEN Result(l, "Completed", <<>>) ELSE Result(0, "Error", <<>>)
           g == [k \in 0..size |-> IF k = 0 THEN first ELSE other]
           f == Rounds(resp, start, size)
<1>1. /\ first.n = start /\ first.res = "Completed"
      /\ other.res = "Completed" <=> clean
      /\ clean => other.n = l
  BY DEF Result
<1>2. ASSUME NEW h, NEW k \in 1..size, h[k - 1] = IF k = 1 THEN first ELSE other
      PROVE  Round(resp, start, h, k) = other
  <2> HIDE DEF first
  <2>1. k # 0
    OBVIOUS
  <2>2. CASE k = 1
    <3>1. h[k - 1].n = start /\ h[k - 1].res = "Completed"
      BY <1>1, <1>2, <2>2
    <3>2. CASE clean
      <4>1. start + (l - start) = l
        OBVIOUS
      <4>2. QED
        BY <2>1, <3>1, <3>2, <4>1 DEF Round
    <3>3. CASE ~clean
      BY <2>1, <3>1, <3>3 DEF Round
    <3>4. QED
      BY <3>2, <3>3
  <2>3. CASE k # 1
    <3>1. h[k - 1] = other
      BY <1>2, <2>3
    <3>2. CASE clean
      <4>1. h[k - 1].n = l /\ h[k - 1].res = "Completed" /\ l + 0 = l
        BY <1>1, <3>1, <3>2
      <4>2. QED
        BY <2>1, <3>2, <4>1 DEF Round
    <3>3. CASE ~clean
      BY <1>1, <2>1, <3>1, <3>3 DEF Round
    <3>4. QED
      BY <3>2, <3>3
  <2>4. QED
    BY <2>2, <2>3
<1>3. \A h : Round(resp, start, h, 0) = first
  BY DEF Round
<1> HIDE DEF first, other
<1>4. g = [k \in 0..size |-> Round(resp, start, g, k)]
  <2>1. ASSUME NEW k \in 1..size PROVE Round(resp, start, g, k) = other
    <3>1. k - 1 \in 0..size /\ (k - 1 = 0 <=> k = 1)
      OBVIOUS
    <3>2. g[k - 1] = IF k = 1 THEN first ELSE other
      BY <3>1
    <3> HIDE DEF g
    <3>3. QED
      BY <1>2, <3>2
  <2>2. \A k \in 0..size : k = 0 \/ k \in 1..size
    OBVIOUS
  <2>3. \A k \in 0..size : Round(resp, start, g, k) = IF k = 0 THEN first ELSE other
    <3> HIDE DEF g
    <3> QED
      BY <1>3, <2>1, <2>2
  <2>4. QED
    BY <2>3
<1>5. f = [k \in 0..size |-> Round(resp, start, f, k)]
  <2> HIDE DEF g
  <2> QED
    BY <1>4, RoundsUnfold
<1> HIDE DEF f
<1>6. f[0] = first
  BY <1>3, <1>5
<1>7. ASSUME NEW k \in 1..size, k = 1 \/ f[k - 1] = other PROVE f[k] = other
  <2>1. f[k - 1] = IF k = 1 THEN first ELSE other
    BY <1>6, <1>7
  <2>2. f[k] = Round(resp, start, f, k)
    BY <1>5
  <2>3. QED
    BY <1>2, <2>1, <2>2
<1>8. f[size] = other
  <2> DEFINE T == {k \in 1..size : f[k] # other}
  <2> SUFFICES ASSUME T # {} PROVE FALSE
    OBVIOUS
  <2>0. T \in SUBSET Nat
    OBVIOUS
  <2>1. PICK k \in T : \A j \in T : k <= j
    <3> HIDE DEF T
    <3> QED
      BY <2>0, LeastNat
  <2>2. k # 1 /\ f[k - 1] # other
    BY <1>7, <2>1
  <2>3. k - 1 \in T
    BY <2>1, <2>2
  <2>4. QED
    BY <2>1, <2>3
<1>9. QED
  BY <1>8 DEF f, other

LEMMA TokenFacts ==
  ASSUME NEW x \in Token
  PROVE  /\ x.t \in TokenKind /\ x.k \in Nat
         /\ x.t = "arr" => x.k \in Nat \ {0}
         /\ x.t # "arr" => x.k = 0
BY DEF Token, TokenKind

\* One round of the loop of process_resp, given that process_resp is right
\* about what is behind its item.
LEMMA RespAtClosed ==
  ASSUME NEW b \in Seq(Token), NEW p \in 0..Len(b), NEW f,
         \A q \in p + 1..Len(b) : f[q] = Closed(Behind(b, q))
  PROVE  RespAt(b, f, p) = Closed(Behind(b, p))
<1> DEFINE c == Behind(b, p)
           x == b[p + 1]
<1>1. /\ Len(b) \in Nat /\ c \in Seq(Token) /\ Len(c) = Len(b) - p
      /\ \A i \in 1..Len(b) - p : c[i] = b[p + i]
  BY LenProperties, BehindFacts
<1>2. CASE p = Len(b)
  <2>1. c = <<>>
    BY <1>2, BehindEnds
  <2>2. Closed(c) = Result(0, "Completed", <<>>)
    <3> HIDE DEF c
    <3> QED
      BY <1>1, <2>1, ClosedEmpty
  <2>3. QED
    BY <1>2, <2>2 DEF RespAt
<1>3. CASE p # Len(b)
  <2>1. /\ p + 1 \in 1..Len(b) /\ p + 1 \in p + 1..Len(b) /\ Len(b) \in p + 1..Len(b)
        /\ 1 \in 1..Len(b) - p /\ p \in Nat /\ p + 1 \in Nat /\ Len(c) # 0
    BY <1>1, <1>3
  <2>2. c # <<>> /\ c[1] = x /\ x \in Token
    BY <1>1, <2>1, EmptySeq, ElementOfSeq
  <2>3. /\ x.t \in TokenKind
        /\ x.t = "arr" => x.k \in Nat \ {0}
    BY <2>2, TokenFacts
  <2> DEFINE d == Behind(b, p + 1)
  <2>4. Behind(c, 1) = d
    <3>1. p + 1 <= Len(b)
      BY <2>1
    <3>2. QED
      BY <2>1, <3>1, BehindBehind
  <2>5. d \in Seq(Token) /\ Len(d) = Len(b) - (p + 1)
        /\ \A i \in 1..Len(b) - (p + 1) : d[i] = b[p + 1 + i]
    BY <2>1, BehindFacts
  <2>6. f[p + 1] = Closed(d) /\ f[Len(b)] = Result(0, "Completed", <<>>)
    <3>1. f[p + 1] = Closed(d) /\ f[Len(b)] = Closed(Behind(b, Len(b)))
      BY <2>1
    <3>2. Behind(b, Len(b)) = <<>> /\ <<>> \in Seq(Token)
      BY BehindEnds, EmptySeq
    <3>3. QED
      BY <3>1, <3>2, ClosedEmpty
  <2> HIDE DEF c, d, x
  <2>7. CASE x.t = "one"
    <3>1. ProcessItem(b, f, p) = Result(1, "Completed", <<>>)
      BY <2>7 DEF ProcessItem, x
    <3>2. SubSeq(b, p + 1, p + 1) = <<c[1]>>
      <4>1. SubSeq(b, p + 1, p + 1) = <<b[p + 1]>> \o SubSeq(b, p + 1 + 1, p + 1)
        BY <1>1, <2>1, SubSeqRecursiveFirst
      <4>2. SubSeq(b, p + 1 + 1, p + 1) = <<>>
        BY <2>1, SubSeqEmpty
      <4>3. <<x>> \o <<>> = <<x>>
        BY <2>2, ConcatEmptySeq
      <4>4. QED
        BY <2>2, <4>1, <4>2, <4>3 DEF x
    <3>3. RespAt(b, f, p)
            = Result(1 + Closed(d).n, Closed(d).res, <<<<c[1]>>>> \o Closed(d).calls)
      <4> DEFINE r == Result(1, "Completed", <<>>)
      <4>1. r.n = 1 /\ r.res = "Completed"
        BY DEF Result
      <4> HIDE DEF r
      <4>2. QED
        BY <1>3, <2>6, <3>1, <3>2, <4>1 DEF RespAt, r
    <3>4. Closed(c) = Result(1 + Closed(d).n, Closed(d).res, <<<<c[1]>>>> \o Closed(d).calls)
      BY <1>1, <2>2, <2>4, <2>7, ClosedOne
    <3>5. QED
      BY <3>3, <3>4 DEF c
  <2>8. CASE x.t \in {"part", "bad"}
    <3> DEFINE why == IF x.t = "part" THEN "Incompleted" ELSE "Error"
    <3>1. ProcessItem(b, f, p) = Result(0, why, <<>>)
      BY <2>8 DEF ProcessItem, x
    <3>2. RespAt(b, f, p) = Result(0, why, <<>>)
      <4>1. Result(0, why, <<>>).res = why /\ why # "Completed"
        BY DEF Result
      <4> HIDE DEF why
      <4>2. QED
        BY <1>3, <3>1, <4>1 DEF RespAt
    <3>3. Closed(c) = Result(0, why, <<>>)
      BY <1>1, <2>2, <2>8, ClosedStop
    <3>4. QED
      BY <3>2, <3>3 DEF c
  <2>9. CASE x.t = "arr"
    <3>1. Clean(c) <=> Clean(d)
      <4>1. ASSUME Clean(c) PROVE Clean(d)
        <5>1. ASSUME NEW i \in 1..Len(d) PROVE d[i].t \notin {"part", "bad"}
          <6>1. 1 + i \in 1..Len(b) - p /\ p + (1 + i) = p + 1 + i /\ i \in 1..Len(b) - (p + 1)
            BY <1>1, <2>1, <2>5
          <6>2. c[1 + i] = d[i] /\ 1 + i \in 1..Len(c)
            BY <1>1, <2>5, <6>1
          <6>3. QED
            BY <4>1, <6>2 DEF Clean, OfKind
        <5>2. QED
          BY <5>1 DEF Clean, OfKind
      <4>2. ASSUME Clean(d) PROVE Clean(c)
        <5>1. ASSUME NEW i \in 1..Len(c) PROVE c[i].t \notin {"part", "bad"}
          <6>1. CASE i = 1
            BY <2>2, <2>9, <6>1
          <6>2. CASE i # 1
            <7>1. i - 1 \in 1..Len(b) - (p + 1) /\ i \in 1..Len(b) - p
                  /\ p + 1 + (i - 1) = p + i
              BY <1>1, <2>1, <6>2
            <7>2. d[i - 1] = c[i] /\ i - 1 \in 1..Len(d)
              BY <1>1, <2>5, <7>1
            <7>3. QED
              BY <4>2, <7>2 DEF Clean, OfKind
          <6>3. QED
            BY <6>1, <6>2
        <5>2. QED
          BY <5>1 DEF Clean, OfKind
      <4>3. QED
        BY <4>1, <4>2
    <3>2. /\ f[p + 1].res = "Completed" <=> Clean(d)
          /\ Clean(d) => f[p + 1].n = Len(b) - (p + 1)
          /\ f[Len(b)].res = "Completed" /\ f[Len(b)].n = 0
      <4>1. \A i \in 1..Len(d) : d[i].t \in TokenKind
        BY <2>5, ElementOfSeq, TokenFacts
      <4>2. /\ Outcome(d) = "Completed" <=> Clean(d)
            /\ Clean(d) => Consumed(d) = Len(d)
        BY <2>5, <4>1, CompletedClean
      <4>3. QED
        BY <2>5, <2>6, <4>2 DEF Closed, Result
    <3>3. Rounds(f, p + 1, x.k)[x.k]
            = IF Clean(d) THEN Result(Len(b), "Completed", <<>>) ELSE Result(0, "Error", <<>>)
      <4> DEFINE l == Len(b)
                 start == p + 1
                 size == x.k
                 clean == (Clean(d) = TRUE)
      <4>1. l \in Nat /\ start \in 0..l /\ size \in Nat \ {0} /\ clean \in BOOLEAN
        BY <1>1, <2>1, <2>3, <2>9
      <4>2. /\ f[start].res = "Completed" <=> clean
            /\ clean => f[start].n = l - start
            /\ f[l].res = "Completed" /\ f[l].n = 0
        BY <3>2
      <4>3. Clean(d) <=> clean
        OBVIOUS
      <4> HIDE DEF l, start, size, clean
      <4>4. Rounds(f, start, size)[size]
              = IF clean THEN Result(l, "Completed", <<>>) ELSE Result(0, "Error", <<>>)
        BY <4>1, <4>2, RoundsClosed
      <4>5. QED
        BY <4>3, <4>4 DEF l, start, size
    <3>4. ProcessItem(b, f, p)
            = IF Clean(d) THEN Result(Len(b) - p, "Completed", <<>>) ELSE Result(0, "Error", <<>>)
      <4>1. ProcessItem(b, f, p) = ProcessArray(b, f, p)
        BY <2>9 DEF ProcessItem, x
      <4>2. QED
        BY <3>3, <4>1 DEF ProcessArray, Result, x
    <3>5. CASE Clean(d)
      <4>1. RespAt(b, f, p) = Result(Len(b) - p, "Completed", <<SubSeq(b, p + 1, Len(b))>>)
        <5> DEFINE r == Result(Len(b) - p, "Completed", <<>>)
        <5>1. r.n = Len(b) - p /\ r.res = "Completed" /\ p + (Len(b) - p) = Len(b)
              /\ Len(b) - p + 0 = Len(b) - p
          BY <1>1 DEF Result
        <5>2. f[Len(b)].n = 0 /\ f[Len(b)].res = "Completed" /\ f[Len(b)].calls = <<>>
          BY <2>6 DEF Result
        <5>3. <<SubSeq(b, p + 1, Len(b))>> \o <<>> = <<SubSeq(b, p + 1, Len(b))>>
          BY ConcatEmptySeq
        <5> HIDE DEF r
        <5>4. QED
          BY <1>3, <3>4, <3>5, <5>1, <5>2, <5>3 DEF RespAt, r
      <4>2. Closed(c) = Result(Len(c), "Completed", <<c>>)
        BY <1>1, <2>2, <2>9, <3>1, <3>5, ClosedMerge
      <4>3. c = SubSeq(b, p + 1, Len(b))
        BY DEF c, Behind
      <4>4. QED
        BY <1>1, <4>1, <4>2, <4>3 DEF c
    <3>6. CASE ~Clean(d)
      <4>1. RespAt(b, f, p) = Result(0, "Error", <<>>)
        <5>1. Result(0, "Error", <<>>).res = "Error"
          BY DEF Result
        <5>2. QED
          BY <1>3, <3>4, <3>6, <5>1 DEF RespAt
      <4>2. Closed(c) = Result(0, "Error", <<>>)
        BY <1>1, <2>2, <2>9, <3>1, <3>6, ClosedStop
      <4>3. QED
        BY <4>1, <4>2 DEF c
    <3>7. QED
      BY <3>5, <3>6
  <2>10. QED
    BY <2>3, <2>7, <2>8, <2>9 DEF TokenKind
<1>4. QED
  BY <1>2, <1>3

\* process_resp at any position of any buffer.
LEMMA RespClosed ==
  ASSUME NEW b \in Seq(Token), NEW p \in 0..Len(b)
  PROVE  ProcessResp(b, p) = Closed(Behind(b, p))
<1> DEFINE g == [q \in 0..Len(b) |-> Closed(Behind(b, q))]
           f == Resp(b)
<1>0. Len(b) \in Nat
  BY LenProperties
<1>1. g = [q \in 0..Len(b) |-> RespAt(b, g, q)]
  <2>1. ASSUME NEW q \in 0..Len(b) PROVE RespAt(b, g, q) = Closed(Behind(b, q))
    <3>1. \A r \in q + 1..Len(b) : g[r] = Closed(Behind(b, r))
      BY <1>0
    <3> HIDE DEF g
    <3>2. QED
      BY <3>1, RespAtClosed
  <2>2. QED
    BY <2>1
<1>2. f = [q \in 0..Len(b) |-> RespAt(b, f, q)]
  <2> HIDE DEF g
  <2> QED
    BY <1>1, RespUnfold
<1> HIDE DEF f, g
<1> DEFINE T == {n \in 0..Len(b) : f[Len(b) - n] # Closed(Behind(b, Len(b) - n))}
<1>3. T = {}
  <2> SUFFICES ASSUME T # {} PROVE FALSE
    OBVIOUS
  <2>0. T \in SUBSET Nat
    BY <1>0
  <2>1. PICK n \in T : \A m \in T : n <= m
    <3> HIDE DEF T
    <3> QED
      BY <2>0, LeastNat
  <2> DEFINE q == Len(b) - n
  <2>2. n \in 0..Len(b) /\ q \in 0..Len(b)
    BY <1>0, <2>1
  <2>3. ASSUME NEW r \in q + 1..Len(b) PROVE f[r] = Closed(Behind(b, r))
    <3>1. Len(b) - r \in 0..Len(b) /\ ~ (n <= Len(b) - r) /\ Len(b) - (Len(b) - r) = r
      BY <1>0, <2>2
    <3>2. Len(b) - r \notin T
      BY <2>1, <3>1
    <3>3. QED
      BY <3>1, <3>2
  <2>4. RespAt(b, f, q) = Closed(Behind(b, q))
    <3> HIDE DEF q
    <3> QED
      BY <2>2, <2>3, RespAtClosed
  <2>5. f[q] = Closed(Behind(b, q))
    BY <1>2, <2>2, <2>4
  <2>6. QED
    BY <2>1, <2>5
<1>4. Len(b) - p \in 0..Len(b) /\ Len(b) - (Len(b) - p) = p
  BY <1>0
<1>5. f[p] = Closed(Behind(b, p))
  BY <1>3, <1>4
<1>6. QED
  BY <1>5 DEF ProcessResp, f

-----------------------------------------------------------------------------
(* Functions defined by recursion on a number, and FlattenSeq.             *)

\* Some f starts with a and goes on by the steps, up to n.
Solvable(T, a, n, step) ==
  \E f \in [0..n -> T] : f[0] = a /\ \A i \in 1..n : f[i] = step[i][f[i - 1]]

\* Every start and every step have a function: the shortest stretch without
\* one would be one longer than a stretch that has one.
LEMMA RecursionExists ==
  ASSUME NEW T, NEW a \in T, NEW n \in Nat, NEW step \in [1..n -> [T -> T]]
  PROVE  Solvable(T, a, n, step)
<1> DEFINE Solves(m, f) == f[0] = a /\ \A i \in 1..m : f[i] = step[i][f[i - 1]]
           D == {m \in 0..n : ~ \E f \in [0..m -> T] : Solves(m, f)}
<1>1. D = {}
  <2> SUFFICES ASSUME D # {} PROVE FALSE
    OBVIOUS
  <2>0. D \in SUBSET Nat
    OBVIOUS
  <2>1. PICK m \in D : \A j \in D : m <= j
    <3> HIDE DEF D
    <3> QED
      BY <2>0, LeastNat
  <2>2. m \in 0..n /\ ~ \E f \in [0..m -> T] : Solves(m, f)
    BY <2>1
  <2>3. m # 0
    <3> DEFINE f == [i \in 0..0 |-> a]
    <3>1. f \in [0..0 -> T] /\ f[0] = a
      OBVIOUS
    <3>2. Solves(0, f)
      BY <3>1
    <3>3. QED
      BY <2>2, <3>1, <3>2
  <2>4. m - 1 \in 0..n /\ m - 1 \notin D /\ m \in 1..n
    <3>1. m - 1 \in 0..n /\ m \in 1..n /\ ~ (m <= m - 1)
      BY <2>2, <2>3
    <3> HIDE DEF D
    <3>2. QED
      BY <2>1, <3>1
  <2>5. PICK g \in [0..m - 1 -> T] : Solves(m - 1, g)
    BY <2>4
  <2> DEFINE f == [i \in 0..m |-> IF i = m THEN step[m][g[m - 1]] ELSE g[i]]
  <2>6. f \in [0..m -> T]
    <3>1. step[m][g[m - 1]] \in T
      <4>1. g[m - 1] \in T
        BY <2>4
      <4>2. QED
        BY <2>4, <4>1
    <3>2. ASSUME NEW i \in 0..m, i # m PROVE g[i] \in T
      <4>1. i \in 0..m - 1
        BY <2>4, <3>2
      <4>2. QED
        BY <4>1
    <3>3. QED
      BY <3>1, <3>2
  <2>7. \A i \in 1..m : i - 1 \in 0..m /\ i - 1 # m /\ i \in 0..m /\ (i # m => i \in 1..m - 1)
    BY <2>4
  <2>8. Solves(m, f)
    <3>1. f[0] = a
      BY <2>4, <2>5
    <3>2. ASSUME NEW i \in 1..m PROVE f[i] = step[i][f[i - 1]]
      <4>1. f[i - 1] = g[i - 1]
        BY <2>7
      <4>2. CASE i = m
        BY <2>7, <4>1, <4>2
      <4>3. CASE i # m
        <5>1. f[i] = g[i] /\ g[i] = step[i][g[i - 1]]
          BY <2>5, <2>7, <4>3
        <5>2. QED
          BY <4>1, <5>1
      <4>4. QED
        BY <4>2, <4>3
    <3>3. QED
      BY <3>1, <3>2
  <2>9. QED
    BY <2>2, <2>6, <2>8
<1>2. n \notin D
  <2> HIDE DEF D
  <2> QED
    BY <1>1
<1>3. n \in 0..n
  OBVIOUS
<1>4. QED
  BY <1>2, <1>3 DEF Solvable

\* Two functions that start the same and step the same are the same.
LEMMA FlattenUnfold ==
  ASSUME NEW S, NEW s \in Seq(Seq(S)), s # <<>>
  PROVE  \E f : /\ f \in [1..Len(s) -> Seq(S)]
                /\ f = [i \in 1..Len(s) |-> IF i = 1 THEN s[i] ELSE f[i - 1] \o s[i]]
                /\ FlattenSeq(s) = f[Len(s)]
<1> DEFINE n == Len(s)
           P(f) == f = [i \in 1..n |-> IF i = 1 THEN s[i] ELSE f[i - 1] \o s[i]]
           step == [i \in 1..n |-> [x \in Seq(S) |-> x \o s[i]]]
<1>1. n \in Nat \ {0} /\ \A i \in 1..n : s[i] \in Seq(S)
  BY EmptySeq, ElementOfSeq
<1>2. step \in [1..n -> [Seq(S) -> Seq(S)]] /\ <<>> \in Seq(S)
  <2>1. ASSUME NEW i \in 1..n, NEW x \in Seq(S) PROVE x \o s[i] \in Seq(S)
    BY <1>1, ConcatProperties
  <2>2. QED
    BY <2>1, EmptySeq
<1> HIDE DEF step
<1>3. PICK h \in [0..n -> Seq(S)] :
        h[0] = <<>> /\ \A i \in 1..n : h[i] = step[i][h[i - 1]]
  <2>1. <<>> \in Seq(S) /\ step \in [1..n -> [Seq(S) -> Seq(S)]] /\ n \in Nat
    BY <1>1, <1>2
  <2> HIDE DEF n
  <2>2. Solvable(Seq(S), <<>>, n, step)
    BY <2>1, RecursionExists
  <2>3. QED
    BY <2>2 DEF Solvable
<1>4. ASSUME NEW i \in 1..n PROVE i - 1 \in 0..n /\ h[i] = h[i - 1] \o s[i]
  <2>1. i - 1 \in 0..n
    BY <1>1
  <2>2. h[i - 1] \in Seq(S)
    BY <2>1
  <2>3. step[i][h[i - 1]] = h[i - 1] \o s[i]
    BY <2>2 DEF step
  <2>4. QED
    BY <1>3, <2>1, <2>3
<1> DEFINE f == [i \in 1..n |-> h[i]]
<1>5. f \in [1..n -> Seq(S)]
  <2>1. \A i \in 1..n : i \in 0..n
    BY <1>1
  <2>2. QED
    BY <2>1
<1>6. P(f)
  <2>1. ASSUME NEW i \in 1..n PROVE f[i] = IF i = 1 THEN s[i] ELSE f[i - 1] \o s[i]
    <3>1. CASE i = 1
      <4>0. 1 \in 1..n /\ 1 - 1 = 0
        BY <1>1
      <4>1. h[1] = h[1 - 1] \o s[1] /\ s[1] \in Seq(S) /\ h[0] = <<>>
        BY <1>1, <1>3, <1>4, <4>0
      <4>2. <<>> \o s[1] = s[1]
        BY <4>1, ConcatEmptySeq
      <4>3. QED
        BY <3>1, <4>0, <4>1, <4>2
    <3>2. CASE i # 1
      <4>1. i - 1 \in 1..n
        BY <1>1, <3>2
      <4>2. QED
        BY <1>4, <3>2, <4>1
    <3>3. QED
      BY <3>1, <3>2
  <2>2. QED
    BY <2>1
<1>7. PICK c : P(c) /\ c = CHOOSE g : P(g)
  <2> HIDE DEF f
  <2> QED
    BY <1>6
<1>8. FlattenSeq(s) = c[n]
  BY <1>1, <1>7 DEF FlattenSeq
<1> HIDE DEF f
<1>9. c = f
  <2> DEFINE D == {i \in 1..n : c[i] # f[i]}
  <2>1. D = {}
    <3> SUFFICES ASSUME D # {} PROVE FALSE
      OBVIOUS
    <3>0. D \in SUBSET Nat
      OBVIOUS
    <3>1. PICK i \in D : \A j \in D : i <= j
      <4> HIDE DEF D
      <4> QED
        BY <3>0, LeastNat
    <3>2. i \in 1..n /\ c[i] # f[i]
      BY <3>1
    <3>3. /\ c[i] = IF i = 1 THEN s[i] ELSE c[i - 1] \o s[i]
          /\ f[i] = IF i = 1 THEN s[i] ELSE f[i - 1] \o s[i]
      BY <1>6, <1>7, <3>2
    <3>4. i # 1
      BY <3>2, <3>3
    <3>5. i - 1 \in 1..n /\ ~ (i <= i - 1)
      BY <1>1, <3>2, <3>4
    <3>6. c[i - 1] = f[i - 1]
      BY <3>1, <3>5
    <3>7. QED
      BY <3>2, <3>3, <3>4, <3>6
  <2>2. \A i \in 1..n : c[i] = f[i]
    BY <2>1
  <2>3. c = [i \in 1..n |-> c[i]] /\ f = [i \in 1..n |-> f[i]]
    BY <1>5, <1>7
  <2>4. QED
    BY <2>2, <2>3
<1>10. QED
  BY <1>5, <1>6, <1>8, <1>9

LEMMA FlattenType ==
  ASSUME NEW S, NEW s \in Seq(Seq(S))
  PROVE  FlattenSeq(s) \in Seq(S) /\ FlattenSeq(<<>>) = <<>>
<1>1. FlattenSeq(<<>>) = <<>> /\ <<>> \in Seq(S)
  BY EmptySeq DEF FlattenSeq
<1>2. CASE s # <<>>
  <2>1. PICK f \in [1..Len(s) -> Seq(S)] : FlattenSeq(s) = f[Len(s)]
    BY <1>2, FlattenUnfold
  <2>2. Len(s) \in 1..Len(s)
    <3>1. Len(s) \in Nat \ {0}
      BY <1>2, EmptySeq
    <3>2. QED
      BY <3>1
  <2>3. QED
    BY <1>1, <2>1, <2>2
<1>3. QED
  BY <1>1, <1>2

LEMMA FlattenAppend ==
  ASSUME NEW S, NEW s \in Seq(Seq(S)), NEW e \in Seq(S)
  PROVE  FlattenSeq(Append(s, e)) = FlattenSeq(s) \o e
<1> DEFINE n == Len(s)
           t == Append(s, e)
<1>1. /\ n \in Nat /\ t \in Seq(Seq(S)) /\ t # <<>> /\ Len(t) = n + 1
      /\ \A i \in 1..n : t[i] = s[i]
      /\ t[n + 1] = e
  BY AppendProperties, LenProperties
<1>2. PICK f : /\ f = [i \in 1..n + 1 |-> IF i = 1 THEN t[i] ELSE f[i - 1] \o t[i]]
               /\ FlattenSeq(t) = f[n + 1]
  <2> HIDE DEF t, n
  <2>1. PICK f : /\ f = [i \in 1..Len(t) |-> IF i = 1 THEN t[i] ELSE f[i - 1] \o t[i]]
                 /\ FlattenSeq(t) = f[Len(t)]
    BY <1>1, FlattenUnfold
  <2>2. QED
    BY <1>1, <2>1
<1> HIDE DEF t
<1>3. CASE s = <<>>
  <2>1. n = 0 /\ <<>> \o e = e
    BY <1>3, EmptySeq, ConcatEmptySeq
  <2>2. FlattenSeq(s) = <<>>
    BY <1>3, FlattenType
  <2>3. f[n + 1] = t[n + 1]
    <3>1. n + 1 = 1 /\ 1 \in 1..n + 1
      BY <2>1
    <3>2. QED
      BY <1>2, <3>1
  <2>4. QED
    BY <1>1, <1>2, <1>3, <2>1, <2>2, <2>3 DEF t
<1>4. CASE s # <<>>
  <2>0. n \in Nat \ {0}
    BY <1>4, EmptySeq
  <2>1. PICK g : /\ g = [i \in 1..n |-> IF i = 1 THEN s[i] ELSE g[i - 1] \o s[i]]
                 /\ FlattenSeq(s) = g[n]
    BY <1>4, FlattenUnfold
  <2> HIDE DEF n
  <2> DEFINE D == {i \in 1..n : f[i] # g[i]}
  <2>2. D = {}
    <3> SUFFICES ASSUME D # {} PROVE FALSE
      OBVIOUS
    <3>0. D \in SUBSET Nat
      OBVIOUS
    <3>1. PICK i \in D : \A j \in D : i <= j
      <4> HIDE DEF D
      <4> QED
        BY <3>0, LeastNat
    <3>2. i \in 1..n /\ f[i] # g[i]
      BY <3>1
    <3>3. i \in 1..n + 1
      BY <2>0, <3>2
    <3>4. /\ f[i] = IF i = 1 THEN t[i] ELSE f[i - 1] \o t[i]
          /\ g[i] = IF i = 1 THEN s[i] ELSE g[i - 1] \o s[i]
          /\ t[i] = s[i]
      BY <1>1, <1>2, <2>1, <3>2, <3>3
    <3>5. i # 1
      BY <3>2, <3>4
    <3>6. i - 1 \in 1..n /\ ~ (i <= i - 1)
      BY <2>0, <3>2, <3>5
    <3>7. f[i - 1] = g[i - 1]
      BY <3>1, <3>6
    <3>8. QED
      BY <3>2, <3>4, <3>5, <3>7
  <2>3. n \in 1..n /\ n + 1 \in 1..n + 1 /\ n + 1 # 1 /\ n + 1 - 1 = n
    BY <2>0
  <2>4. f[n] = g[n]
    BY <2>2, <2>3
  <2>5. f[n + 1] = f[n] \o t[n + 1]
    <3>1. \A i \in 1..n + 1 : f[i] = IF i = 1 THEN t[i] ELSE f[i - 1] \o t[i]
      BY <1>2
    <3> DEFINE m == n + 1
    <3>2. m \in 1..n + 1 /\ m # 1 /\ m - 1 = n
      BY <2>3
    <3> HIDE DEF m
    <3>3. f[m] = f[m - 1] \o t[m]
      BY <3>1, <3>2
    <3>4. f[m] = f[n] \o t[m]
      BY <3>2, <3>3
    <3>5. QED
      BY <3>4 DEF m
  <2>6. QED
    BY <1>1, <1>2, <2>1, <2>4, <2>5 DEF t
<1>5. QED
  BY <1>3, <1>4

\* Forwarding the messages of a buffer is forwarding what onRead drains.
LEMMA FlattenMessages ==
  ASSUME NEW S, NEW s \in Seq(Seq(S)), NEW c \in Seq(S)
  PROVE  FlattenSeq(s \o Messages(c)) = FlattenSeq(s) \o SubSeq(c, 1, Consumed(c))
<1> DEFINE n == Singles(c)
           T == Seq(S)
           x(k) == [i \in 1..k |-> <<c[i]>>]
           Right(k) == FlattenSeq(s \o x(k)) = FlattenSeq(s) \o SubSeq(c, 1, k)
<1>1. n \in 0..Len(c) /\ Len(c) \in Nat /\ n \in Nat
  BY SinglesFacts, LenProperties
<1> HIDE DEF n
<1>2. ASSUME NEW k \in 0..n
      PROVE  /\ x(k) \in Seq(T) /\ Len(x(k)) = k
             /\ \A i \in 1..k : x(k)[i] = <<c[i]>>
  <2>1. ASSUME NEW i \in 1..k PROVE <<c[i]>> \in T
    <3>1. c[i] \in S
      BY <1>1, ElementOfSeq
    <3>2. QED
      BY <3>1
  <2>2. x(k) \in [1..k -> T] /\ k \in Nat
    BY <1>1, <2>1
  <2>3. QED
    BY <2>2, SeqFromFunction
<1>3. FlattenSeq(s) \in Seq(S)
  BY FlattenType
<1>4. Right(0)
  <2>1. x(0) = <<>>
    OBVIOUS
  <2>2. s \o <<>> = s /\ FlattenSeq(s) \o <<>> = FlattenSeq(s)
    BY <1>3, ConcatEmptySeq
  <2>3. SubSeq(c, 1, 0) = <<>>
    BY SubSeqEmpty
  <2>4. QED
    BY <2>1, <2>2, <2>3
<1>5. ASSUME NEW k \in 1..n, Right(k - 1) PROVE Right(k)
  <2>1. k - 1 \in 0..n /\ k \in 0..n /\ k \in 1..Len(c) /\ k \in Nat /\ k - 1 \in Nat
    BY <1>1
  <2>2. c[k] \in S /\ <<c[k]>> \in T
    BY <2>1, ElementOfSeq
  <2> DEFINE u == s \o x(k)
             v == s \o x(k - 1)
             w == Append(v, <<c[k]>>)
  <2>3. u = w
    <3>1. /\ u \in Seq(T) /\ Len(u) = Len(s) + k
          /\ \A i \in 1..Len(s) + k : u[i] = IF i <= Len(s) THEN s[i] ELSE x(k)[i - Len(s)]
      <4>1. x(k) \in Seq(T) /\ Len(x(k)) = k
        BY <1>2, <2>1
      <4> HIDE DEF x, T
      <4>2. QED
        BY <4>1, ConcatProperties DEF T
    <3>2. /\ v \in Seq(T) /\ Len(v) = Len(s) + (k - 1)
          /\ \A i \in 1..Len(s) + (k - 1) :
               v[i] = IF i <= Len(s) THEN s[i] ELSE x(k - 1)[i - Len(s)]
      <4>1. x(k - 1) \in Seq(T) /\ Len(x(k - 1)) = k - 1
        BY <1>2, <2>1
      <4> HIDE DEF x, T
      <4>2. QED
        BY <4>1, ConcatProperties DEF T
    <3>3. /\ \A i \in 1..k : x(k)[i] = <<c[i]>>
          /\ \A i \in 1..k - 1 : x(k - 1)[i] = <<c[i]>>
      BY <1>2, <2>1
    <3>4. Len(s) \in Nat
      BY LenProperties
    <3> HIDE DEF u, v, x, T
    <3>5. /\ w \in Seq(T) /\ Len(w) = Len(v) + 1
          /\ \A i \in 1..Len(v) : w[i] = v[i]
          /\ w[Len(v) + 1] = <<c[k]>>
      BY <2>2, <3>2, AppendProperties
    <3> HIDE DEF w
    <3>6. ASSUME NEW i \in 1..Len(s) + k PROVE u[i] = w[i]
      <4>1. CASE i <= Len(s)
        <5>1. i \in 1..Len(s) + (k - 1) /\ i \in 1..Len(v)
          BY <2>1, <3>2, <3>4, <4>1
        <5>2. QED
          BY <3>1, <3>2, <3>5, <4>1, <5>1
      <4>2. CASE ~ (i <= Len(s)) /\ i # Len(s) + k
        <5>1. /\ i \in 1..Len(s) + (k - 1) /\ i \in 1..Len(v)
              /\ i - Len(s) \in 1..k - 1 /\ i - Len(s) \in 1..k
          <6>1. i \in Nat /\ i <= Len(s) + (k - 1) /\ 1 <= i - Len(s) /\ i - Len(s) <= k - 1
            BY <2>1, <3>4, <4>2
          <6>2. i - Len(s) \in 1..k - 1
            BY <2>1, <3>4, <6>1
          <6>3. i \in 1..Len(s) + (k - 1)
            BY <2>1, <3>4, <4>2, <6>1
          <6>4. QED
            BY <2>1, <3>2, <6>2, <6>3
        <5>2. QED
          BY <3>1, <3>2, <3>3, <3>5, <4>2, <5>1
      <4>3. CASE i = Len(s) + k
        <5>1. i = Len(v) + 1 /\ ~ (i <= Len(s)) /\ i - Len(s) = k /\ k \in 1..k
          BY <2>1, <3>2, <3>4, <4>3
        <5>2. QED
          BY <3>1, <3>3, <3>5, <5>1
      <4>4. QED
        BY <4>1, <4>2, <4>3
    <3>7. Len(u) = Len(w)
      BY <2>1, <3>1, <3>2, <3>4, <3>5
    <3>8. QED
      BY <3>1, <3>5, <3>6, <3>7, SeqEqual
  <2>4. v \in Seq(Seq(S))
    <3>1. x(k - 1) \in Seq(T)
      BY <1>2, <2>1
    <3> HIDE DEF x
    <3>2. QED
      BY <3>1, ConcatProperties
  <2>5. FlattenSeq(w) = FlattenSeq(v) \o <<c[k]>>
    <3> HIDE DEF v, x
    <3> QED
      BY <2>2, <2>4, FlattenAppend
  <2>6. SubSeq(c, 1, k) = SubSeq(c, 1, k - 1) \o <<c[k]>> /\ SubSeq(c, 1, k - 1) \in Seq(S)
    <3>1. 1 \in 1..Len(c) /\ k \in 1..Len(c) /\ 1 \in Int /\ k - 1 \in Int
      BY <1>1, <2>1
    <3>2. ASSUME NEW i \in 1..k - 1 PROVE c[i] \in S
      BY <1>1, <2>1, ElementOfSeq
    <3>3. QED
      BY <3>1, <3>2, SubSeqRecursiveSecond, SubSeqProperties
  <2>7. (FlattenSeq(s) \o SubSeq(c, 1, k - 1)) \o <<c[k]>>
          = FlattenSeq(s) \o (SubSeq(c, 1, k - 1) \o <<c[k]>>)
    <3> DEFINE a == FlattenSeq(s)
               b == SubSeq(c, 1, k - 1)
               e == <<c[k]>>
    <3>1. a \in Seq(S) /\ b \in Seq(S) /\ e \in Seq(S)
      BY <1>3, <2>2, <2>6
    <3> HIDE DEF a, b, e
    <3>2. Regrouped(a, b, e)
      BY <3>1, Regroup
    <3>3. QED
      BY <3>2 DEF Regrouped, a, b, e
  <2>8. FlattenSeq(v) = FlattenSeq(s) \o SubSeq(c, 1, k - 1)
    BY <1>5
  <2>9. FlattenSeq(u) = FlattenSeq(v) \o <<c[k]>>
    BY <2>3, <2>5
  <2> HIDE DEF v, w
  <2>10. FlattenSeq(u) = FlattenSeq(s) \o SubSeq(c, 1, k)
    BY <2>6, <2>7, <2>8, <2>9
  <2>11. QED
    BY <2>10
<1> HIDE DEF Right
<1>6. Right(n)
  <2> DEFINE D == {k \in 0..n : ~Right(k)}
  <2>1. D = {}
    <3> SUFFICES ASSUME D # {} PROVE FALSE
      OBVIOUS
    <3>0. D \in SUBSET Nat
      OBVIOUS
    <3>1. PICK k \in D : \A j \in D : k <= j
      <4> HIDE DEF D
      <4> QED
        BY <3>0, LeastNat
    <3>2. k \in 0..n /\ ~Right(k)
      BY <3>1
    <3>3. k \in 1..n /\ k - 1 \in 0..n /\ ~ (k <= k - 1)
      <4>1. k # 0
        BY <1>4, <3>2
      <4>2. QED
        BY <1>1, <3>2, <4>1
    <3>4. k - 1 \notin D
      <4> HIDE DEF D
      <4> QED
        BY <3>1, <3>3
    <3>5. QED
      BY <1>5, <3>2, <3>3, <3>4
  <2>2. QED
    BY <1>1, <2>1
<1>7. FlattenSeq(s \o x(n)) = FlattenSeq(s) \o SubSeq(c, 1, n)
  BY <1>6 DEF Right
<1>8. x(n) \in Seq(T) /\ s \in Seq(T)
  BY <1>1, <1>2
<1>9. CASE ~Merged(c)
  <2>1. Messages(c) = x(n) \o <<>> /\ Consumed(c) = n
    BY <1>9 DEF Messages, Consumed, n
  <2>2. x(n) \o <<>> = x(n)
    <3> HIDE DEF x
    <3> QED
      BY <1>8, ConcatEmptySeq
  <2>3. QED
    BY <1>7, <2>1, <2>2
<1>10. CASE Merged(c)
  <2> DEFINE d == Behind(c, n)
  <2>1. Messages(c) = x(n) \o <<d>> /\ Consumed(c) = Len(c)
    BY <1>10 DEF Messages, Consumed, n
  <2>2. d \in T /\ <<d>> \in Seq(T) /\ d = SubSeq(c, n + 1, Len(c))
    <3>1. d \in T
      BY <1>1, BehindFacts
    <3>2. d = SubSeq(c, n + 1, Len(c))
      BY DEF Behind
    <3> HIDE DEF d
    <3>3. QED
      BY <3>1, <3>2
  <2> HIDE DEF d
  <2>3. s \o (x(n) \o <<d>>) = Append(s \o x(n), d) /\ s \o x(n) \in Seq(T)
    <3> DEFINE y == x(n)
               e == <<d>>
    <3>1. s \in Seq(T) /\ y \in Seq(T) /\ e \in Seq(T)
      BY <1>8, <2>2
    <3> HIDE DEF y, x, T, e
    <3>2. s \o y \in Seq(T)
      BY <3>1, ConcatProperties
    <3>3. (s \o y) \o e = s \o (y \o e)
      <4>1. Regrouped(s, y, e)
        BY <3>1, Regroup
      <4>2. QED
        BY <4>1 DEF Regrouped
    <3>4. Append(s \o y, d) = (s \o y) \o <<d>>
      BY <2>2, <3>2, AppendIsConcat
    <3>5. QED
      BY <3>2, <3>3, <3>4 DEF y, e
  <2>4. FlattenSeq(s \o Messages(c)) = FlattenSeq(s \o x(n)) \o d
    <3> HIDE DEF x
    <3>1. FlattenSeq(Append(s \o x(n), d)) = FlattenSeq(s \o x(n)) \o d
      BY <2>2, <2>3, FlattenAppend
    <3>2. QED
      BY <2>1, <2>3, <3>1
  <2>5. SubSeq(c, 1, n) \o d = SubSeq(c, 1, Len(c)) /\ SubSeq(c, 1, n) \in Seq(S)
    <3>1. 1 \in 1..Len(c) + 1 /\ n \in 1 - 1..Len(c) /\ Len(c) \in n..Len(c) /\ 1 \in Int /\ n \in Int
      BY <1>1
    <3>2. ASSUME NEW i \in 1..n PROVE c[i] \in S
      BY <1>1, ElementOfSeq
    <3>3. QED
      BY <2>2, <3>1, <3>2, ConcatAdjacentSubSeq, SubSeqProperties
  <2>6. (FlattenSeq(s) \o SubSeq(c, 1, n)) \o d = FlattenSeq(s) \o (SubSeq(c, 1, n) \o d)
    <3> DEFINE a == FlattenSeq(s)
               b == SubSeq(c, 1, n)
    <3>1. a \in Seq(S) /\ b \in Seq(S) /\ d \in Seq(S)
      BY <1>3, <2>2, <2>5
    <3> HIDE DEF a, b, T, x
    <3>2. (a \o b) \o d = a \o (b \o d)
      <4>1. Regrouped(a, b, d)
        BY <3>1, Regroup
      <4>2. QED
        BY <4>1 DEF Regrouped
    <3>3. QED
      BY <3>2 DEF a, b
  <2> HIDE DEF x
  <2>7. QED
    BY <1>7, <2>1, <2>4, <2>5, <2>6
<1>11. QED
  BY <1>9, <1>10

-----------------------------------------------------------------------------
(* The bytes of a partial item, which are not read yet.                    *)

\* A "part" is always the last token of a buffer.
PartLast(c) == \A i \in 1..Len(c) : c[i].t = "part" => i = Len(c)

Whole(c) == IF c # <<>> /\ c[Len(c)].t = "part" THEN Front(c) ELSE c

LEMMA FrontFacts ==
  ASSUME NEW S, NEW c \in Seq(S), c # <<>>
  PROVE  /\ Front(c) \in Seq(S) /\ Len(Front(c)) = Len(c) - 1
         /\ \A i \in 1..Len(c) - 1 : Front(c)[i] = c[i]
<1>1. Len(c) \in Nat \ {0} /\ \A i \in 1..Len(c) : c[i] \in S
  BY EmptySeq, ElementOfSeq
<1> DEFINE n == Len(c) - 1
           d == SubSeq(c, 1, n)
<1>2. n \in Nat /\ 1 \in Int /\ n \in Int /\ \A i \in 1..n : c[i] \in S
  BY <1>1
<1> HIDE DEF n
<1>3. /\ d \in Seq(S) /\ Len(d) = IF 1 <= n THEN n - 1 + 1 ELSE 0
      /\ \A i \in 1..n - 1 + 1 : d[i] = c[1 + i - 1]
  BY <1>2, SubSeqProperties
<1> HIDE DEF d
<1>4. Len(d) = n /\ \A i \in 1..n : d[i] = c[i]
  <2>1. Len(d) = n /\ n - 1 + 1 = n /\ \A i \in 1..n : 1 + i - 1 = i
    BY <1>2, <1>3
  <2>2. QED
    BY <1>3, <2>1
<1>5. QED
  BY <1>3, <1>4 DEF Front, d, n

LEMMA WholeFacts ==
  ASSUME NEW c \in Seq(Token), PartLast(c)
  PROVE  /\ Whole(c) \in Seq(Token)
         /\ \A i \in 1..Len(Whole(c)) : Whole(c)[i].t # "part"
<1>1. Len(c) \in Nat
  BY LenProperties
<1>2. CASE c # <<>> /\ c[Len(c)].t = "part"
  <2>1. /\ Front(c) \in Seq(Token) /\ Len(Front(c)) = Len(c) - 1
        /\ \A i \in 1..Len(c) - 1 : Front(c)[i] = c[i]
    BY <1>2, FrontFacts
  <2>2. ASSUME NEW i \in 1..Len(c) - 1 PROVE c[i].t # "part"
    BY <1>1 DEF PartLast
  <2>3. Whole(c) = Front(c)
    BY <1>2 DEF Whole
  <2>4. QED
    BY <2>1, <2>2, <2>3
<1>3. CASE ~ (c # <<>> /\ c[Len(c)].t = "part")
  <2>1. Whole(c) = c
    BY <1>3 DEF Whole
  <2>2. ASSUME NEW i \in 1..Len(c) PROVE c[i].t # "part"
    <3>1. c # <<>>
      <4>1. Len(c) # 0
        BY <1>1
      <4>2. QED
        BY <4>1, EmptySeq
    <3>2. QED
      BY <1>3, <3>1 DEF PartLast
  <2>3. QED
    BY <2>1, <2>2
<1>4. QED
  BY <1>2, <1>3

LEMMA WholeArrive ==
  ASSUME NEW u \in Seq(Token), NEW tok \in Token,
         \A i \in 1..Len(u) : u[i].t # "part"
  PROVE  /\ PartLast(Append(u, tok))
         /\ Whole(Append(u, tok)) = IF tok.t = "part" THEN u ELSE Append(u, tok)
<1> DEFINE c == Append(u, tok)
<1>1. /\ Len(u) \in Nat /\ c \in Seq(Token) /\ c # <<>> /\ Len(c) = Len(u) + 1
      /\ \A i \in 1..Len(u) : c[i] = u[i]
      /\ c[Len(u) + 1] = tok
  BY AppendProperties, LenProperties
<1> HIDE DEF c
<1>2. PartLast(c)
  <2>1. ASSUME NEW i \in 1..Len(c), i # Len(c) PROVE c[i].t # "part"
    <3>1. i \in 1..Len(u)
      BY <1>1, <2>1
    <3>2. QED
      BY <1>1, <3>1
  <2>2. QED
    BY <2>1 DEF PartLast
<1>3. Front(c) = u
  <2>1. /\ Front(c) \in Seq(Token) /\ Len(Front(c)) = Len(c) - 1
        /\ \A i \in 1..Len(c) - 1 : Front(c)[i] = c[i]
    BY <1>1, FrontFacts
  <2>2. Len(c) - 1 = Len(u)
    BY <1>1
  <2>3. Len(Front(c)) = Len(u) /\ \A i \in 1..Len(Front(c)) : Front(c)[i] = u[i]
    BY <1>1, <2>1, <2>2
  <2>4. QED
    BY <2>1, <2>3, SeqEqual
<1>4. Whole(c) = IF tok.t = "part" THEN u ELSE c
  BY <1>1, <1>3 DEF Whole
<1>5. QED
  BY <1>2, <1>4 DEF c

\* What is drained and what is still unread was unread before.
LEMMA WholeDrain ==
  ASSUME NEW c \in Seq(Token), PartLast(c), NEW n, n = Consumed(c)
  PROVE  /\ PartLast(Behind(c, n))
         /\ SubSeq(c, 1, n) \in Seq(Token)
         /\ SubSeq(c, 1, n) \o Whole(Behind(c, n)) = Whole(c)
<1> DEFINE l == Len(c)
           d == Behind(c, n)
           e == SubSeq(c, 1, n)
<1>1. l \in Nat /\ n \in 0..l /\ n \in Nat
  BY LenProperties, ConsumedType
<1>2. /\ d \in Seq(Token) /\ Len(d) = l - n
      /\ \A i \in 1..l - n : d[i] = c[n + i]
  <2>1. n \in Nat /\ n <= Len(c)
    BY <1>1
  <2>2. /\ Behind(c, n) \in Seq(Token) /\ Len(Behind(c, n)) = Len(c) - n
        /\ \A i \in 1..Len(c) - n : Behind(c, n)[i] = c[n + i]
    BY <2>1, BehindFacts
  <2>3. QED
    BY <2>2
<1>3. e \in Seq(Token)
  <2>1. ASSUME NEW i \in 1..n PROVE c[i] \in Token
    BY <1>1, ElementOfSeq
  <2>2. 1 \in Int /\ n \in Int
    BY <1>1
  <2>3. QED
    BY <2>1, <2>2, SubSeqProperties
<1>4. PartLast(d)
  <2>1. ASSUME NEW i \in 1..Len(d), d[i].t = "part" PROVE i = Len(d)
    <3>1. n + i \in 1..l /\ d[i] = c[n + i]
      BY <1>1, <1>2
    <3>2. n + i = l
      BY <2>1, <3>1 DEF PartLast
    <3>3. QED
      BY <1>1, <1>2, <3>2
  <2>2. QED
    BY <2>1 DEF PartLast
<1>5. e \o d = c
  <2>1. 1 \in 1..l + 1 /\ n \in 1 - 1..l /\ l \in n..l
    BY <1>1
  <2>2. e \o SubSeq(c, n + 1, l) = SubSeq(c, 1, l)
    <3> HIDE DEF d
    <3> QED
      BY <2>1, ConcatAdjacentSubSeq
  <2>3. SubSeq(c, 1, l) = c /\ d = SubSeq(c, n + 1, l)
    BY SubSeqFull DEF Behind
  <2>4. QED
    BY <2>2, <2>3
<1>6. CASE n = l
  <2>1. Clean(c)
    <3>1. \A i \in 1..Len(c) : c[i].t \in TokenKind
      BY ElementOfSeq, TokenFacts
    <3>2. Outcome(c) = "Completed"
      BY <1>6 DEF Outcome
    <3>3. QED
      BY <3>1, <3>2, CompletedClean
  <2>2. Whole(c) = c
    <3>1. c = <<>> \/ l \in 1..l
      BY <1>1, EmptySeq
    <3>2. QED
      BY <2>1, <3>1 DEF Whole, Clean, OfKind
  <2>3. d = <<>>
    BY <1>6, BehindEnds
  <2>4. Whole(d) = d
    <3> HIDE DEF d
    <3> QED
      BY <2>3 DEF Whole
  <2>5. QED
    BY <1>3, <1>4, <1>5, <2>2, <2>4
<1>7. CASE n # l
  <2>1. n < l /\ l - n \in 1..l - n /\ n + (l - n) = l /\ Len(d) # 0
    BY <1>1, <1>2, <1>7
  <2>2. d # <<>> /\ c # <<>> /\ d[Len(d)] = c[l]
    <3>1. l # 0
      BY <1>1, <2>1
    <3>2. QED
      BY <1>2, <2>1, <3>1, EmptySeq
  <2>3. CASE c[l].t # "part"
    <3>1. Whole(c) = c /\ Whole(d) = d
      <4> HIDE DEF d
      <4> QED
        BY <2>2, <2>3 DEF Whole
    <3>2. QED
      BY <1>3, <1>4, <1>5, <3>1
  <2>4. CASE c[l].t = "part"
    <3>1. Whole(c) = Front(c) /\ Whole(d) = Front(d)
      <4> HIDE DEF d
      <4> QED
        BY <2>2, <2>4 DEF Whole
    <3>2. Front(c) \in Seq(Token) /\ Len(Front(c)) = l - 1 /\ \A i \in 1..l - 1 : Front(c)[i] = c[i]
      <4> HIDE DEF d
      <4> QED
        BY <2>2, FrontFacts
    <3>3. /\ Front(d) \in Seq(Token) /\ Len(Front(d)) = l - n - 1
          /\ \A i \in 1..l - n - 1 : Front(d)[i] = d[i]
      <4> HIDE DEF d
      <4>1. /\ Front(d) \in Seq(Token) /\ Len(Front(d)) = Len(d) - 1
            /\ \A i \in 1..Len(d) - 1 : Front(d)[i] = d[i]
        BY <1>2, <2>2, FrontFacts
      <4>2. QED
        BY <1>2, <4>1
    <3> DEFINE x == Front(c)
               y == Front(d)
               w == SubSeq(c, n + 1, l - 1)
    <3>4. y = w
      <4>1. ASSUME NEW i \in n + 1..l - 1 PROVE c[i] \in Token
        <5>1. i \in 1..Len(c)
          BY <1>1
        <5>2. QED
          BY <5>1, ElementOfSeq
      <4>2. n + 1 \in Int /\ l - 1 \in Int
        BY <1>1
      <4>3. /\ w \in Seq(Token) /\ Len(w) = IF n + 1 <= l - 1 THEN l - 1 - (n + 1) + 1 ELSE 0
            /\ \A i \in 1..l - 1 - (n + 1) + 1 : w[i] = c[n + 1 + i - 1]
        BY <4>1, <4>2, SubSeqProperties
      <4> HIDE DEF w, y, x
      <4>4. /\ l - 1 - (n + 1) + 1 = l - n - 1 /\ Len(w) = l - n - 1
            /\ \A i \in 1..l - n - 1 : n + 1 + i - 1 = n + i /\ i \in 1..l - n
        <5> HIDE DEF l
        <5>1. l - 1 - (n + 1) + 1 = l - n - 1
          BY <1>1
        <5>2. Len(w) = l - n - 1
          <6>0. n \in Nat /\ l \in Nat /\ n < l
            BY <1>1, <2>1
          <6>1. Len(w) = IF n + 1 <= l - 1 THEN l - 1 - (n + 1) + 1 ELSE 0
            BY <4>3
          <6>2. CASE n + 1 <= l - 1
            BY <5>1, <6>1, <6>2
          <6>3. CASE ~ (n + 1 <= l - 1)
            <7>1. l - n - 1 = 0
              BY <6>0, <6>3
            <7>2. QED
              BY <6>1, <6>3, <7>1
          <6>4. QED
            BY <6>2, <6>3
        <5>3. \A i \in 1..l - n - 1 : n + 1 + i - 1 = n + i /\ i \in 1..l - n
          BY <1>1
        <5>4. QED
          BY <5>1, <5>2, <5>3
      <4>5. ASSUME NEW i \in 1..l - n - 1 PROVE w[i] = d[i]
        <5>1. n + 1 + i - 1 = n + i /\ i \in 1..l - n
          BY <4>4
        <5>2. w[i] = c[n + 1 + i - 1]
          BY <4>3, <4>4
        <5>3. d[i] = c[n + i]
          BY <1>2, <5>1
        <5>4. QED
          BY <5>1, <5>2, <5>3
      <4>6. y \in Seq(Token) /\ Len(y) = l - n - 1 /\ \A i \in 1..l - n - 1 : y[i] = d[i]
        BY <3>3 DEF y
      <4>7. Len(y) = Len(w) /\ \A i \in 1..Len(y) : y[i] = w[i]
        BY <4>4, <4>5, <4>6
      <4>8. QED
        BY <4>3, <4>6, <4>7, SeqEqual
    <3>5. x = SubSeq(c, 1, l - 1)
      BY DEF Front
    <3>6. e \o w = SubSeq(c, 1, l - 1)
      <4>1. 1 \in 1..l + 1 /\ n \in 1 - 1..l /\ l - 1 \in n..l
        BY <1>1, <2>1
      <4> HIDE DEF d, x, y
      <4>2. QED
        BY <4>1, ConcatAdjacentSubSeq
    <3>7. QED
      BY <1>3, <1>4, <3>1, <3>4, <3>5, <3>6
  <2>5. QED
    BY <2>3, <2>4
<1>8. QED
  BY <1>6, <1>7

-----------------------------------------------------------------------------
(* Values.                                                                 *)

LEMMA MissingFacts ==
  ASSUME NEW b \in Seq(Token)
  PROVE  /\ Missing(b)[0] = 1
         /\ \A i \in 1..Len(b) : Missing(b)[i] = Missing(b)[i - 1] - 1 + b[i].k
<1> DEFINE n == Len(b)
           P(f) == f = [i \in 0..n |-> IF i = 0 THEN 1 ELSE f[i - 1] - 1 + b[i].k]
           step == [i \in 1..n |-> [x \in Int |-> x - 1 + b[i].k]]
<1>1. n \in Nat /\ \A i \in 1..n : b[i].k \in Nat
  BY LenProperties, ElementOfSeq, TokenFacts
<1>2. step \in [1..n -> [Int -> Int]] /\ 1 \in Int
  <2>1. ASSUME NEW i \in 1..n, NEW x \in Int PROVE x - 1 + b[i].k \in Int
    <3>1. b[i].k \in Nat
      BY <1>1
    <3>2. QED
      BY <3>1
  <2>2. \A i \in 1..n : [x \in Int |-> x - 1 + b[i].k] \in [Int -> Int]
    BY <2>1
  <2> DEFINE one(i) == [x \in Int |-> x - 1 + b[i].k]
  <2>3. \A i \in 1..n : one(i) \in [Int -> Int]
    BY <2>2
  <2> HIDE DEF one
  <2>4. [i \in 1..n |-> one(i)] \in [1..n -> [Int -> Int]]
    BY <2>3
  <2>5. QED
    BY <2>4 DEF one
<1> HIDE DEF step
<1>3. PICK h \in [0..n -> Int] : h[0] = 1 /\ \A i \in 1..n : h[i] = step[i][h[i - 1]]
  <2> HIDE DEF n
  <2>1. Solvable(Int, 1, n, step)
    BY <1>1, <1>2, RecursionExists
  <2>2. QED
    BY <2>1 DEF Solvable
<1>4. P(h)
  <2>1. ASSUME NEW i \in 1..n PROVE h[i] = h[i - 1] - 1 + b[i].k
    <3>1. i - 1 \in 0..n
      BY <1>1
    <3>2. h[i - 1] \in Int
      BY <3>1
    <3>3. step[i][h[i - 1]] = h[i - 1] - 1 + b[i].k
      BY <3>2 DEF step
    <3>4. QED
      BY <1>3, <3>3
  <2>2. \A i \in 0..n : h[i] = IF i = 0 THEN 1 ELSE h[i - 1] - 1 + b[i].k
    <3>1. \A i \in 0..n : i = 0 \/ (i # 0 /\ i \in 1..n)
      BY <1>1
    <3>2. QED
      BY <1>3, <2>1, <3>1
  <2>3. QED
    BY <2>2
<1>5. P(CHOOSE f : P(f))
  BY <1>4
<1>6. P(Missing(b))
  BY <1>5 DEF Missing
<1>7. \A i \in 0..n : Missing(b)[i] = IF i = 0 THEN 1 ELSE Missing(b)[i - 1] - 1 + b[i].k
  BY <1>6
<1>8. 0 \in 0..n /\ \A i \in 1..n : i \in 0..n /\ i # 0
  BY <1>1
<1>9. QED
  BY <1>7, <1>8

\* An item that stands alone is a value, and no longer buffer that starts with
\* one is a value.
LEMMA ValueOfOne ==
  ASSUME NEW b \in Seq(Token), b # <<>>, b[1].t = "one"
  PROVE  /\ IsValue(SubSeq(b, 1, 1))
         /\ IsValue(b) => Len(b) = 1
<1> DEFINE v == SubSeq(b, 1, 1)
<1>1. Len(b) \in Nat \ {0} /\ 1 \in 1..Len(b) /\ 1 \in 0..Len(b) /\ 1 - 1 = 0
  BY EmptySeq
<1>2. b[1] \in Token /\ b[1].k = 0
  BY <1>1, ElementOfSeq, TokenFacts
<1>3. v \in Seq(Token) /\ Len(v) = 1 /\ v[1] = b[1]
  <2>1. 1 \in Int /\ \A i \in 1..1 : b[i] \in Token
    BY <1>2
  <2>2. /\ v \in Seq(Token) /\ Len(v) = IF 1 <= 1 THEN 1 - 1 + 1 ELSE 0
        /\ \A i \in 1..1 - 1 + 1 : v[i] = b[1 + i - 1]
    BY <2>1, SubSeqProperties
  <2> HIDE DEF v
  <2>3. v[1] = b[1 + 1 - 1] /\ 1 + 1 - 1 = 1
    BY <2>2
  <2>4. QED
    BY <2>2, <2>3
<1> HIDE DEF v
<1>4. IsValue(v)
  <2>1. Missing(v)[0] = 1 /\ Missing(v)[1] = 0
    <3>1. 1 \in 1..Len(v)
      BY <1>3
    <3>2. Missing(v)[0] = 1 /\ Missing(v)[1] = Missing(v)[1 - 1] - 1 + v[1].k
      BY <1>3, <3>1, MissingFacts
    <3>3. QED
      BY <1>1, <1>2, <1>3, <3>2
  <2>2. \A i \in 0..Len(v) : i = 0 \/ i = 1
    BY <1>3
  <2>3. \A i \in 0..Len(v) : Missing(v)[i] = 0 <=> i = Len(v)
    BY <1>3, <2>1, <2>2
  <2>4. Clean(v)
    <3>1. \A i \in 1..Len(v) : i = 1
      BY <1>3
    <3>2. QED
      BY <1>3, <3>1 DEF Clean, OfKind
  <2>5. QED
    BY <2>3, <2>4 DEF IsValue
<1>5. ASSUME IsValue(b) PROVE Len(b) = 1
  <2>1. Missing(b)[1] = 0
    <3>1. Missing(b)[0] = 1 /\ Missing(b)[1] = Missing(b)[1 - 1] - 1 + b[1].k
      BY <1>1, MissingFacts
    <3>2. QED
      BY <1>1, <1>2, <3>1
  <2>2. QED
    BY <1>1, <1>5, <2>1 DEF IsValue
<1>6. QED
  BY <1>4, <1>5 DEF v

\* A read that finds one value forwards that value, and one that ends inside
\* the first value forwards nothing.
LEMMA ForwardsValues ==
  ASSUME NEW b \in Seq(Token), b # <<>>,
         \/ IsValue(b)
         \/ /\ b[Len(b)].t = "part"
            /\ \A i \in 1..Len(b) - 1 : ~IsValue(SubSeq(b, 1, i))
  PROVE  \A i \in 1..Len(Messages(b)) : IsValue(Messages(b)[i])
<1>1. Len(b) \in Nat \ {0} /\ 1 \in 1..Len(b) /\ Len(b) \in 1..Len(b)
  BY EmptySeq
<1>2. b[1] \in Token /\ b[1].t \in TokenKind
  BY <1>1, ElementOfSeq, TokenFacts
<1>3. CASE IsValue(b)
  <2>1. Clean(b)
    BY <1>3 DEF IsValue
  <2>2. b[1].t \in {"one", "arr"}
    BY <1>1, <1>2, <2>1 DEF Clean, OfKind, TokenKind
  <2>3. Messages(b) = <<b>>
    <3>1. CASE b[1].t = "arr"
      <4>1. Closed(b) = Result(Len(b), "Completed", <<b>>)
        BY <2>1, <3>1, ClosedMerge
      <4>2. QED
        BY <4>1 DEF Closed, Result
    <3>2. CASE b[1].t = "one"
      <4>1. Len(b) = 1
        BY <1>3, <3>2, ValueOfOne
      <4>2. Behind(b, 1) = <<>>
        BY <4>1, BehindEnds
      <4>3. Closed(<<>>) = Result(0, "Completed", <<>>)
        <5>1. <<>> \in Seq(Token)
          BY EmptySeq
        <5>2. QED
          BY <5>1, ClosedEmpty
      <4>4. Closed(b).calls = <<<<b[1]>>>> \o Closed(Behind(b, 1)).calls
        <5>1. LET d == Closed(Behind(b, 1))
              IN  Closed(b) = Result(1 + d.n, d.res, <<<<b[1]>>>> \o d.calls)
          BY <3>2, ClosedOne
        <5>2. QED
          BY <5>1 DEF Result
      <4>5. Messages(b) = <<<<b[1]>>>> \o <<>>
        BY <4>2, <4>3, <4>4 DEF Closed, Result
      <4>6. <<<<b[1]>>>> \o <<>> = <<<<b[1]>>>>
        BY ConcatEmptySeq
      <4>7. b = <<b[1]>>
        BY <4>1, OneItem
      <4>8. QED
        BY <4>5, <4>6, <4>7
    <3>3. QED
      BY <2>2, <3>1, <3>2
  <2>4. QED
    BY <1>3, <2>3
<1>4. CASE /\ b[Len(b)].t = "part"
           /\ \A i \in 1..Len(b) - 1 : ~IsValue(SubSeq(b, 1, i))
  <2>1. ~Clean(b)
    BY <1>1, <1>4 DEF Clean, OfKind
  <2>2. b[1].t # "one"
    <3> SUFFICES ASSUME b[1].t = "one" PROVE FALSE
      OBVIOUS
    <3>1. IsValue(SubSeq(b, 1, 1))
      BY ValueOfOne
    <3>2. Len(b) # 1
      BY <1>4
    <3> DEFINE l == Len(b)
    <3>3. 1 \in 1..l - 1
      <4>1. l \in Nat \ {0} /\ l # 1
        BY <1>1, <3>2
      <4> HIDE DEF l
      <4>2. QED
        BY <4>1
    <3>4. QED
      BY <1>4, <3>1, <3>3
  <2>3. Messages(b) = <<>>
    <3> DEFINE why == IF b[1].t = "part" THEN "Incompleted" ELSE "Error"
    <3>1. Closed(b) = Result(0, why, <<>>)
      BY <2>1, <2>2, ClosedStop
    <3> HIDE DEF why
    <3>2. QED
      BY <3>1 DEF Closed, Result
  <2>4. QED
    BY <2>3, EmptySeq
<1>5. QED
  BY <1>3, <1>4

-----------------------------------------------------------------------------
(* The theorems.                                                           *)

ParserInv ==
  /\ buf \in Seq(Token) /\ PartLast(buf)
  /\ msgs \in Seq(Seq(Token)) /\ received \in Seq(Token)
  /\ NothingLost
  /\ OneByOneIsOneValue

LEMMA UnreadWhole == Unread = Whole(buf) /\ Unread' = Whole(buf')
BY DEF Unread, Whole

\* What a read computes.
LEMMA ReadClosed ==
  ASSUME buf \in Seq(Token)
  PROVE  ProcessResp(buf, 0) = Result(Consumed(buf), Outcome(buf), Messages(buf))
<1>1. 0 \in 0..Len(buf)
  BY LenProperties
<1>2. ProcessResp(buf, 0) = Closed(Behind(buf, 0))
  BY <1>1, RespClosed
<1>3. QED
  BY <1>2, BehindEnds DEF Closed

LEMMA InitInv == Init => ParserInv
<1> SUFFICES ASSUME Init PROVE ParserInv
  OBVIOUS
<1>1. /\ buf \in Seq(Token) /\ msgs \in Seq(Seq(Token)) /\ received \in Seq(Token)
      /\ Len(buf) = 0 /\ Len(msgs) = 0
  BY EmptySeq DEF Init
<1>2. PartLast(buf)
  BY <1>1 DEF PartLast
<1>3. NothingLost
  <2>1. FlattenSeq(msgs) = <<>> /\ Unread = <<>>
    BY <1>1, FlattenType DEF Init, Unread
  <2>2. <<>> \o <<>> = <<>>
    BY EmptySeq, ConcatEmptySeq
  <2>3. QED
    BY <2>1, <2>2 DEF NothingLost, Init
<1>4. OneByOneIsOneValue
  BY <1>1 DEF OneByOneIsOneValue
<1>5. QED
  BY <1>1, <1>2, <1>3, <1>4 DEF ParserInv

LEMMA ArriveInv ==
  ASSUME ParserInv, NEW tok \in Token, Arrive(tok)
  PROVE  ParserInv'
<1> DEFINE u == Unread
<1>1. u \in Seq(Token) /\ \A i \in 1..Len(u) : u[i].t # "part"
  BY UnreadWhole, WholeFacts DEF ParserInv
<1>2. buf' = Append(u, tok) /\ UNCHANGED <<msgs, oneByOne>>
  BY DEF Arrive
<1> HIDE DEF u
<1>3. /\ PartLast(buf')
      /\ Unread' = IF tok.t = "part" THEN u ELSE Append(u, tok)
      /\ buf' \in Seq(Token)
  BY <1>1, <1>2, UnreadWhole, WholeArrive, AppendProperties
<1>4. received' \in Seq(Token) /\ msgs' \in Seq(Seq(Token))
  BY <1>2, AppendProperties DEF ParserInv, Arrive
<1>5. NothingLost'
  <2>1. FlattenSeq(msgs) \o u = received
    BY DEF ParserInv, NothingLost, u
  <2>2. CASE tok.t = "part"
    BY <1>2, <1>3, <2>1, <2>2 DEF NothingLost, Arrive
  <2>3. CASE tok.t # "part"
    <3> DEFINE a == FlattenSeq(msgs)
    <3>1. a \in Seq(Token)
      BY FlattenType DEF ParserInv
    <3> HIDE DEF a
    <3>2. a \o Append(u, tok) = Append(a \o u, tok)
      <4>1. a \o u \in Seq(Token)
        BY <1>1, <3>1, ConcatProperties
      <4>2. Append(u, tok) = u \o <<tok>> /\ Append(a \o u, tok) = (a \o u) \o <<tok>>
        BY <1>1, <4>1, AppendIsConcat
      <4> DEFINE e == <<tok>>
      <4>3. e \in Seq(Token)
        OBVIOUS
      <4> HIDE DEF e
      <4>4. (a \o u) \o e = a \o (u \o e)
        <5>1. Regrouped(a, u, e)
          BY <1>1, <3>1, <4>3, Regroup
        <5>2. QED
          BY <5>1 DEF Regrouped
      <4>5. QED
        BY <4>2, <4>4 DEF e
    <3>3. received' = Append(received, tok) /\ Unread' = Append(u, tok)
      BY <1>3, <2>3 DEF Arrive
    <3>4. QED
      BY <1>2, <2>1, <3>2, <3>3 DEF NothingLost, a
  <2>4. QED
    BY <2>2, <2>3
<1>6. OneByOneIsOneValue'
  BY <1>2 DEF ParserInv, OneByOneIsOneValue
<1>7. QED
  BY <1>3, <1>4, <1>5, <1>6 DEF ParserInv

LEMMA OnReadInv ==
  ASSUME ParserInv, OnRead
  PROVE  ParserInv'
<1> DEFINE n == Consumed(buf)
           m == Messages(buf)
<1>1. /\ buf \in Seq(Token) /\ PartLast(buf) /\ msgs \in Seq(Seq(Token))
      /\ received \in Seq(Token) /\ buf # <<>>
  BY DEF ParserInv, OnRead
<1>2. /\ buf' = Behind(buf, n) /\ msgs' = msgs \o m
      /\ oneByOne' = (oneByOne /\ SeesOneValue) /\ received' = received
  <2>1. ProcessResp(buf, 0).n = n /\ ProcessResp(buf, 0).calls = m
    <3> HIDE DEF n, m
    <3>1. ProcessResp(buf, 0) = Result(n, Outcome(buf), m)
      BY <1>1, ReadClosed DEF n, m
    <3>2. QED
      BY <3>1 DEF Result
  <2> HIDE DEF n, m
  <2>2. QED
    BY <2>1 DEF OnRead
<1>3. n \in Nat
  BY <1>1, ConsumedType
<1>4. m \in Seq(Seq(Token))
  BY <1>1, MessagesType
<1>5. msgs' \in Seq(Seq(Token))
  <2> DEFINE T == Seq(Token)
  <2>1. msgs \in Seq(T) /\ m \in Seq(T)
    BY <1>1, <1>4
  <2> HIDE DEF T, m
  <2>2. msgs \o m \in Seq(T)
    BY <2>1, ConcatProperties
  <2>3. QED
    BY <1>2, <2>2 DEF T
<1>6. buf' \in Seq(Token)
  BY <1>1, <1>2, <1>3, BehindFacts
<1>7. /\ PartLast(buf')
      /\ SubSeq(buf, 1, n) \in Seq(Token)
      /\ SubSeq(buf, 1, n) \o Unread' = Unread
  BY <1>1, <1>2, UnreadWhole, WholeDrain
<1>8. NothingLost'
  <2> DEFINE a == FlattenSeq(msgs)
             b == SubSeq(buf, 1, n)
             u == Unread'
  <2>1. FlattenSeq(msgs') = a \o b
    BY <1>1, <1>2, FlattenMessages
  <2>2. a \in Seq(Token) /\ b \in Seq(Token) /\ u \in Seq(Token)
    BY <1>1, <1>6, <1>7, FlattenType, WholeFacts, UnreadWhole
  <2>3. b \o u = Unread /\ a \o Unread = received
    BY <1>7 DEF ParserInv, NothingLost
  <2> HIDE DEF a, b, u
  <2>4. (a \o b) \o u = a \o (b \o u)
    <3>1. Regrouped(a, b, u)
      BY <2>2, Regroup
    <3>2. QED
      BY <3>1 DEF Regrouped
  <2>5. QED
    BY <1>2, <2>1, <2>3, <2>4 DEF NothingLost, u
<1>9. OneByOneIsOneValue'
  <2> SUFFICES ASSUME oneByOne', NEW i \in 1..Len(msgs') PROVE IsValue(msgs'[i])
    BY DEF OneByOneIsOneValue
  <2>1. oneByOne /\ SeesOneValue
    BY <1>2
  <2>2. /\ Len(msgs) \in Nat /\ Len(m) \in Nat
        /\ Len(msgs') = Len(msgs) + Len(m)
        /\ msgs'[i] = IF i <= Len(msgs) THEN msgs[i] ELSE m[i - Len(msgs)]
    <3> DEFINE T == Seq(Token)
    <3>1. msgs \in Seq(T) /\ m \in Seq(T)
      BY <1>1, <1>4
    <3> HIDE DEF T, m
    <3>2. /\ Len(msgs) \in Nat /\ Len(m) \in Nat /\ Len(msgs \o m) = Len(msgs) + Len(m)
          /\ \A j \in 1..Len(msgs) + Len(m) :
               (msgs \o m)[j] = IF j <= Len(msgs) THEN msgs[j] ELSE m[j - Len(msgs)]
      BY <3>1, ConcatProperties, LenProperties
    <3>3. QED
      BY <1>2, <3>2
  <2>3. CASE i <= Len(msgs)
    <3>1. i \in 1..Len(msgs)
      BY <2>2, <2>3
    <3>2. QED
      BY <2>1, <2>2, <2>3, <3>1 DEF ParserInv, OneByOneIsOneValue
  <2>4. CASE ~ (i <= Len(msgs))
    <3>1. i - Len(msgs) \in 1..Len(m)
      BY <2>2, <2>4
    <3>2. \A j \in 1..Len(m) : IsValue(m[j])
      BY <1>1, <2>1, ForwardsValues DEF SeesOneValue
    <3>3. QED
      BY <2>2, <2>4, <3>1, <3>2
  <2>5. QED
    BY <2>3, <2>4
<1>10. received' \in Seq(Token)
  BY <1>1, <1>2
<1>11. QED
  BY <1>5, <1>6, <1>7, <1>8, <1>9, <1>10 DEF ParserInv

\* In every reachable state: the types, a cut item only at the end of the
\* buffer, and the two properties that follow.
THEOREM ParserInvariant == Spec => []ParserInv
<1>1. ParserInv /\ [Next]_vars => ParserInv'
  <2> SUFFICES ASSUME ParserInv, [Next]_vars PROVE ParserInv'
    OBVIOUS
  <2>1. ASSUME NEW tok \in Token, Arrive(tok) PROVE ParserInv'
    BY <2>1, ArriveInv
  <2>2. CASE OnRead
    BY <2>2, OnReadInv
  <2>3. CASE UNCHANGED vars
    BY <2>3 DEF vars, ParserInv, PartLast, NothingLost, Unread, OneByOneIsOneValue
  <2>4. QED
    BY <2>1, <2>2, <2>3 DEF Next
<1>2. QED
  BY InitInv, <1>1, PTL DEF Spec

\* process_resp computes the closed form of RespFraming on every buffer, of
\* any length and with arrays of any size (resp_parser.cpp:120-231).
THEOREM ClosedFormTheorem == Spec => []ClosedForm
<1>1. ParserInv => ClosedForm
  <2> SUFFICES ASSUME ParserInv PROVE ClosedForm
    OBVIOUS
  <2> DEFINE n == Consumed(buf)
             o == Outcome(buf)
             m == Messages(buf)
  <2>1. ProcessResp(buf, 0) = Result(n, o, m)
    BY ReadClosed DEF ParserInv
  <2> HIDE DEF n, o, m
  <2>2. ProcessResp(buf, 0).calls = m /\ ProcessResp(buf, 0).n = n
    BY <2>1 DEF Result
  <2>3. QED
    BY <2>2 DEF ClosedForm, n, m
<1>2. QED
  BY ParserInvariant, <1>1, PTL

\* Forwarding and draining agree: what was forwarded and what is unread is
\* what arrived (tcp_session.cpp:30-70, redis_tcp_client.hpp:29-41).
THEOREM NothingLostTheorem == Spec => []NothingLost
<1>1. ParserInv => NothingLost
  BY DEF ParserInv
<1>2. QED
  BY ParserInvariant, <1>1, PTL

\* Reads that find one value, or end inside one, forward whole values one at
\* a time, nested arrays of any depth included (resp_parser.cpp:155-173).
THEOREM OneByOneTheorem == Spec => []OneByOneIsOneValue
<1>1. ParserInv => OneByOneIsOneValue
  BY DEF ParserInv
<1>2. QED
  BY ParserInvariant, <1>1, PTL
=============================================================================
