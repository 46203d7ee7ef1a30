----------------------------- MODULE DataLemmas -----------------------------
(***************************************************************************)
(* Facts about sequences and numbers that the proofs of several components *)
(* cite: what FlattenSeq does to the empty sequence, to an element added   *)
(* at the end and to one added in front, and what the powers of a number   *)
(* are.  Both are recursive functions; what they are comes from induction  *)
(* over the naturals, stated here of sets, for the provers cannot          *)
(* instantiate an operator.                                                *)
(***************************************************************************)
EXTENDS Integers, SequencesExt, TLAPS, WellFoundedInduction, SequenceTheorems

(* Induction: a set with zero and with every successor is all of Nat.      *)
LEMMA Induction ==
  ASSUME NEW T, T \subseteq Nat, 0 \in T, \A n \in T : n + 1 \in T
  PROVE  T = Nat
<1> SUFFICES ASSUME T # Nat PROVE FALSE
  OBVIOUS
<1> DEFINE R == OpToRel(<, Nat)
           U == Nat \ T
<1>1. IsWellFoundedOn(R, Nat)
  BY NatLessThanWellFounded
<1>2. U \subseteq Nat /\ U # {}
  OBVIOUS
<1> HIDE DEF R
<1>3. PICK x \in U : \A y \in U : ~ (<<y, x>> \in R)
  <2> HIDE DEF U
  <2> QED
    BY <1>1, <1>2, WFMin
<1>4. x \in Nat /\ x # 0 /\ x - 1 \in Nat /\ x - 1 < x
  OBVIOUS
<1>5. <<x - 1, x>> \in R
  BY <1>4 DEF R, OpToRel
<1>6. x - 1 \in T
  BY <1>3, <1>4, <1>5
<1> QED
  BY <1>4, <1>6

LEMMA FunctionIsSeq ==
  ASSUME NEW S, NEW n \in Nat, NEW f \in [1 .. n -> S]
  PROVE  f \in Seq(S) /\ Len(f) = n
BY SMT

(* What is, element by element, a sequence with one more in front or at    *)
(* the end is that sequence.                                               *)
LEMMA IsAppend ==
  ASSUME NEW S, NEW s \in Seq(S), NEW e \in S,
         NEW t \in [1 .. Len(s) + 1 -> S],
         \A i \in 1 .. Len(s) : t[i] = s[i],
         t[Len(s) + 1] = e
  PROVE  t = Append(s, e)
<1> DEFINE u == Append(s, e)
<1>1. /\ Len(s) \in Nat /\ u \in Seq(S) /\ Len(u) = Len(s) + 1
      /\ \A i \in 1 .. Len(s) : u[i] = s[i]
      /\ u[Len(s) + 1] = e
  OBVIOUS
<1>2. t \in Seq(S) /\ Len(t) = Len(s) + 1
  <2>1. Len(s) + 1 \in Nat
    BY <1>1
  <2> QED
    BY <2>1, FunctionIsSeq
<1>3. \A i \in 1 .. Len(s) + 1 : i \in 1 .. Len(s) \/ i = Len(s) + 1
  BY <1>1
<1> HIDE DEF u
<1>4. \A i \in 1 .. Len(t) : t[i] = u[i]
  BY <1>1, <1>2, <1>3
<1>5. t = u
  BY <1>1, <1>2, <1>4, SeqEqual
<1> QED
  BY <1>5 DEF u

LEMMA IsCons ==
  ASSUME NEW S, NEW s \in Seq(S), NEW e \in S,
         NEW t \in [1 .. Len(s) + 1 -> S],
         \A i \in 1 .. Len(s) : t[i + 1] = s[i],
         t[1] = e
  PROVE  t = <<e>> \o s
<1> DEFINE u == <<e>> \o s
<1>1. Len(s) \in Nat /\ Len(s) + 1 \in Nat
  OBVIOUS
<1>2. u \in Seq(S) /\ Len(u) = Len(s) + 1
  OBVIOUS
<1>3. u[1] = e /\ \A i \in 1 .. Len(s) : u[i + 1] = s[i]
  <2>1. <<e>> \in Seq(S) /\ Len(<<e>>) = 1 /\ <<e>>[1] = e
    OBVIOUS
  <2>2. \A i \in 1 .. 1 + Len(s) : u[i] = IF i <= 1 THEN <<e>>[i] ELSE s[i - 1]
    BY <2>1, ConcatProperties
  <2>3. \A i \in 1 .. Len(s) : i + 1 \in 1 .. 1 + Len(s) /\ ~(i + 1 <= 1)
                               /\ (i + 1) - 1 = i
    BY <1>1
  <2>4. 1 \in 1 .. 1 + Len(s)
    BY <1>1
  <2> HIDE DEF u
  <2> QED
    BY <2>1, <2>2, <2>3, <2>4
<1>4. t \in Seq(S) /\ Len(t) = Len(s) + 1
  BY <1>1, FunctionIsSeq
<1>5. \A i \in 1 .. Len(s) + 1 : i = 1 \/ (i - 1 \in 1 .. Len(s)
                                           /\ (i - 1) + 1 = i)
  BY <1>1
<1> HIDE DEF u
<1>6. \A i \in 1 .. Len(t) : t[i] = u[i]
  BY <1>3, <1>4, <1>5
<1>7. t = u
  BY <1>2, <1>4, <1>6, SeqEqual
<1> QED
  BY <1>7 DEF u
-----------------------------------------------------------------------------
(* The sums of a sequence of sequences: g[i] is its first i elements, one  *)
(* after the other, for the first n of them.                               *)
SumsTo(g, ss, n) ==
  \A i \in 1 .. n : g[i] = IF i = 1 THEN ss[i] ELSE g[i - 1] \o ss[i]

Sums(g, ss) ==
  g = [i \in 1 .. Len(ss) |-> IF i = 1 THEN ss[i] ELSE g[i - 1] \o ss[i]]

LEMMA OneMoreSum ==
  ASSUME NEW S, NEW ss \in Seq(Seq(S)),
         NEW n \in Nat, n + 1 <= Len(ss),
         NEW g \in [1 .. n -> Seq(S)], SumsTo(g, ss, n)
  PROVE  \E h \in [1 .. n + 1 -> Seq(S)] : SumsTo(h, ss, n + 1)
<1> DEFINE next == IF n = 0 THEN ss[1] ELSE g[n] \o ss[n + 1]
           h == [i \in 1 .. n + 1 |-> IF i = n + 1 THEN next ELSE g[i]]
<1>1. ss[n + 1] \in Seq(S)
  OBVIOUS
<1>2. next \in Seq(S)
  <2>1. CASE n = 0
    BY <1>1, <2>1
  <2>2. CASE n # 0
    <3>1. g[n] \in Seq(S)
      BY <2>2
    <3> QED
      BY <1>1, <2>2, <3>1
  <2> QED
    BY <2>1, <2>2
<1>3. \A i \in 1 .. n + 1 : i # n + 1 => i \in 1 .. n
  OBVIOUS
<1>4. /\ n = 0 => next = ss[1]
      /\ n # 0 => next = g[n] \o ss[n + 1]
  OBVIOUS
<1> HIDE DEF next
<1>5. h \in [1 .. n + 1 -> Seq(S)]
  BY <1>2, <1>3
<1>6. /\ h[n + 1] = next
      /\ \A i \in 1 .. n : h[i] = g[i]
  OBVIOUS
<1> HIDE DEF h
<1>7. SumsTo(h, ss, n + 1)
  <2> SUFFICES ASSUME NEW i \in 1 .. n + 1
               PROVE  h[i] = IF i = 1 THEN ss[i] ELSE h[i - 1] \o ss[i]
    BY DEF SumsTo
  <2>1. CASE i = n + 1 /\ n = 0
    BY <1>4, <1>6, <2>1
  <2>2. CASE i = n + 1 /\ n # 0
    <3>1. i - 1 = n /\ n \in 1 .. n /\ i # 1
      BY <2>2
    <3> QED
      BY <1>4, <1>6, <2>2, <3>1
  <2>3. CASE i # n + 1
    <3>1. i \in 1 .. n /\ (i # 1 => i - 1 \in 1 .. n)
      BY <2>3
    <3> QED
      BY <1>6, <3>1 DEF SumsTo
  <2> QED
    BY <2>1, <2>2, <2>3
<1> QED
  BY <1>5, <1>7

LEMMA SumsExist ==
  ASSUME NEW S, NEW ss \in Seq(Seq(S))
  PROVE  \E g : Sums(g, ss)
<1> DEFINE P(n) ==
             n <= Len(ss) => \E g \in [1 .. n -> Seq(S)] : SumsTo(g, ss, n)
           T == {n \in Nat : P(n)}
<1>l. Len(ss) \in Nat
  OBVIOUS
<1>0. P(0)
  <2>1. [i \in 1 .. 0 |-> <<>>] \in [1 .. 0 -> Seq(S)]
    OBVIOUS
  <2>2. SumsTo([i \in 1 .. 0 |-> <<>>], ss, 0)
    BY DEF SumsTo
  <2> QED
    BY <2>1, <2>2
<1>1. ASSUME NEW n \in Nat, P(n) PROVE P(n + 1)
  <2> SUFFICES ASSUME n + 1 <= Len(ss)
               PROVE  \E h \in [1 .. n + 1 -> Seq(S)] : SumsTo(h, ss, n + 1)
    OBVIOUS
  <2>1. n <= Len(ss)
    BY <1>l
  <2>2. PICK g \in [1 .. n -> Seq(S)] : SumsTo(g, ss, n)
    BY <1>1, <2>1
  <2> QED
    BY <2>2, OneMoreSum
<1>2. \A n \in Nat : P(n)
  <2> HIDE DEF P
  <2>1. T \subseteq Nat /\ 0 \in T /\ \A n \in T : n + 1 \in T
    BY <1>0, <1>1
  <2>2. T = Nat
    <3> HIDE DEF T
    <3> QED
      BY <2>1, Induction
  <2> QED
    BY <2>2
<1>3. PICK g \in [1 .. Len(ss) -> Seq(S)] : SumsTo(g, ss, Len(ss))
  BY <1>l, <1>2
<1> QED
  BY <1>3 DEF Sums, SumsTo

(* FlattenSeq is the last sum.                                             *)
LEMMA FlattenIsSum ==
  ASSUME NEW S, NEW ss \in Seq(Seq(S)), Len(ss) # 0
  PROVE  \E g : Sums(g, ss) /\ FlattenSeq(ss) = g[Len(ss)]
<1> DEFINE g == CHOOSE f : Sums(f, ss)
<1>1. Sums(g, ss)
  <2>1. \E f : Sums(f, ss)
    BY SumsExist
  <2> QED
    BY <2>1, Zenon
<1>2. FlattenSeq(ss) = g[Len(ss)]
  BY SMT DEF FlattenSeq, Sums
<1> QED
  BY <1>1, <1>2

(* The sums, one by one.                                                   *)
LEMMA SumsAre ==
  ASSUME NEW S, NEW ss \in Seq(Seq(S)), NEW g, Sums(g, ss)
  PROVE  /\ 1 \in 1 .. Len(ss) => g[1] = ss[1]
         /\ \A n \in Nat : n + 1 \in 1 .. Len(ss) /\ n # 0
                             => g[n + 1] = g[n] \o ss[n + 1]
         /\ \A i \in 1 .. Len(ss) : g[i] \in Seq(S)
<1> DEFINE F(i) == IF i = 1 THEN ss[i] ELSE g[i - 1] \o ss[i]
<1>1. \A i \in 1 .. Len(ss) : g[i] = F(i)
  <2>1. g = [i \in 1 .. Len(ss) |-> F(i)]
    BY DEF Sums
  <2> HIDE DEF F
  <2> QED
    BY <2>1
<1>2. 1 \in 1 .. Len(ss) => g[1] = ss[1]
  BY <1>1
<1>3. ASSUME NEW n \in Nat, n + 1 \in 1 .. Len(ss), n # 0
      PROVE  g[n + 1] = g[n] \o ss[n + 1]
  <2>1. g[n + 1] = F(n + 1) /\ (n + 1) - 1 = n /\ n + 1 # 1
    BY <1>1, <1>3
  <2> QED
    BY <2>1
<1>4. \A i \in 1 .. Len(ss) : g[i] \in Seq(S)
  <2> DEFINE P(n) == n + 1 \in 1 .. Len(ss) => g[n + 1] \in Seq(S)
             T == {n \in Nat : P(n)}
  <2>0. P(0)
    BY <1>2
  <2>1. ASSUME NEW n \in Nat, P(n) PROVE P(n + 1)
    <3> SUFFICES ASSUME (n + 1) + 1 \in 1 .. Len(ss)
                 PROVE  g[(n + 1) + 1] \in Seq(S)
      OBVIOUS
    <3>1. n + 1 \in 1 .. Len(ss) /\ n + 1 \in Nat /\ n + 1 # 0
      OBVIOUS
    <3>2. g[n + 1] \in Seq(S) /\ ss[(n + 1) + 1] \in Seq(S)
      BY <2>1, <3>1
    <3>3. g[(n + 1) + 1] = g[n + 1] \o ss[(n + 1) + 1]
      BY <1>3, <3>1
    <3> QED
      BY <3>2, <3>3
  <2>2. \A n \in Nat : P(n)
    <3> HIDE DEF P
    <3>1. T \subseteq Nat /\ 0 \in T /\ \A n \in T : n + 1 \in T
      BY <2>0, <2>1
    <3>2. T = Nat
      <4> HIDE DEF T
      <4> QED
        BY <3>1, Induction
    <3> QED
      BY <3>2
  <2> SUFFICES ASSUME NEW i \in 1 .. Len(ss) PROVE g[i] \in Seq(S)
    OBVIOUS
  <2>3. i - 1 \in Nat /\ (i - 1) + 1 = i
    OBVIOUS
  <2> QED
    BY <2>2, <2>3
<1> QED
  BY <1>2, <1>3, <1>4
-----------------------------------------------------------------------------
(* g[n] is the first n elements of ss, one after the other.                *)
PrefixSums(g, ss, S) ==
  /\ g \in [Nat -> Seq(S)]
  /\ g[0] = <<>>
  /\ \A n \in Nat : n < Len(ss) => g[n + 1] = g[n] \o ss[n + 1]

LEMMA FlattenEmpty == FlattenSeq(<<>>) = <<>>
BY DEF FlattenSeq

LEMMA FlattenIsPrefix ==
  ASSUME NEW S, NEW ss \in Seq(Seq(S))
  PROVE  \E g : PrefixSums(g, ss, S) /\ FlattenSeq(ss) = g[Len(ss)]
<1>1. CASE Len(ss) = 0
  <2> DEFINE g == [n \in Nat |-> <<>>]
  <2>1. PrefixSums(g, ss, S)
    BY <1>1 DEF PrefixSums
  <2>2. ss = <<>> /\ g[0] = <<>>
    BY <1>1
  <2> QED
    BY <1>1, <2>1, <2>2, FlattenEmpty
<1>2. CASE Len(ss) # 0
  <2>1. PICK h : Sums(h, ss) /\ FlattenSeq(ss) = h[Len(ss)]
    BY <1>2, FlattenIsSum
  <2>2. Sums(h, ss)
    BY <2>1
  <2>3. /\ 1 \in 1 .. Len(ss) => h[1] = ss[1]
        /\ \A n \in Nat : n + 1 \in 1 .. Len(ss) /\ n # 0
                            => h[n + 1] = h[n] \o ss[n + 1]
        /\ \A i \in 1 .. Len(ss) : h[i] \in Seq(S)
    BY <2>2, SumsAre
  <2> DEFINE g == [n \in Nat |-> IF n \in 1 .. Len(ss) THEN h[n] ELSE <<>>]
  <2>4. g \in [Nat -> Seq(S)] /\ g[0] = <<>>
    BY <2>3
  <2>5. \A n \in 1 .. Len(ss) : g[n] = h[n]
    OBVIOUS
  <2> HIDE DEF g
  <2>6. ASSUME NEW n \in Nat, n < Len(ss) PROVE g[n + 1] = g[n] \o ss[n + 1]
    <3>1. n + 1 \in 1 .. Len(ss) /\ (n # 0 => n \in 1 .. Len(ss))
      BY <2>6
    <3>2. g[n + 1] = h[n + 1] /\ (n # 0 => g[n] = h[n])
      BY <2>5, <3>1
    <3>3. ss[n + 1] \in Seq(S)
      BY <3>1
    <3>4. CASE n = 0
      <4>1. h[1] = ss[1] /\ n + 1 = 1
        BY <2>3, <3>1, <3>4
      <4>2. g[n] = <<>>
        BY <2>4, <3>4
      <4>3. g[n + 1] = ss[n + 1]
        BY <3>2, <3>4, <4>1
      <4>4. <<>> \o ss[n + 1] = ss[n + 1]
        BY <3>3, ConcatEmptySeq
      <4> QED
        BY <4>2, <4>3, <4>4
    <3>5. CASE n # 0
      BY <2>3, <3>1, <3>2, <3>5
    <3> QED
      BY <3>4, <3>5
  <2>7. Len(ss) \in 1 .. Len(ss)
    BY <1>2
  <2> QED
    BY <2>1, <2>4, <2>5, <2>6, <2>7 DEF PrefixSums
<1> QED
  BY <1>1, <1>2

LEMMA FlattenIsSeq ==
  ASSUME NEW S, NEW ss \in Seq(Seq(S))
  PROVE  FlattenSeq(ss) \in Seq(S)
<1>1. PICK g : PrefixSums(g, ss, S) /\ FlattenSeq(ss) = g[Len(ss)]
  BY FlattenIsPrefix
<1> QED
  BY <1>1 DEF PrefixSums

(* An element at the end adds itself at the end.                           *)
LEMMA FlattenAppend ==
  ASSUME NEW S, NEW ss \in Seq(Seq(S)), NEW s \in Seq(S)
  PROVE  FlattenSeq(Append(ss, s)) = FlattenSeq(ss) \o s
<1> DEFINE tt == Append(ss, s)
           l == Len(ss)
<1>1. /\ tt \in Seq(Seq(S)) /\ l \in Nat /\ Len(tt) = l + 1
      /\ \A i \in 1 .. l : tt[i] = ss[i]
      /\ tt[l + 1] = s
  OBVIOUS
<1> HIDE DEF tt
<1>2. PICK g : PrefixSums(g, ss, S) /\ FlattenSeq(ss) = g[l]
  BY FlattenIsPrefix
<1>3. PICK h : PrefixSums(h, tt, S) /\ FlattenSeq(tt) = h[Len(tt)]
  BY <1>1, FlattenIsPrefix
<1> HIDE DEF l
<1>4. /\ g[0] = <<>>
      /\ \A n \in Nat : n < l => g[n + 1] = g[n] \o ss[n + 1]
  BY <1>2 DEF PrefixSums, l
<1>5. /\ h[0] = <<>>
      /\ \A n \in Nat : n < l + 1 => h[n + 1] = h[n] \o tt[n + 1]
  BY <1>1, <1>3 DEF PrefixSums
<1> DEFINE P(n) == n <= l => h[n] = g[n]
           T == {n \in Nat : P(n)}
<1>6. P(0)
  BY <1>4, <1>5
<1>7. ASSUME NEW n \in Nat, P(n), n + 1 <= l PROVE h[n + 1] = g[n + 1]
  <2>1. n <= l /\ n < l /\ n < l + 1 /\ n + 1 \in 1 .. l
    BY <1>1, <1>7
  <2>2. h[n] = g[n]
    BY <1>7, <2>1
  <2> QED
    BY <1>1, <1>4, <1>5, <2>1, <2>2
<1>8. \A n \in Nat : P(n)
  <2>1. T \subseteq Nat /\ 0 \in T /\ \A n \in T : n + 1 \in T
    <3>1. ASSUME NEW n \in Nat, P(n) PROVE P(n + 1)
      BY <1>7, <3>1
    <3> HIDE DEF P
    <3> QED
      BY <1>6, <3>1
  <2>2. T = Nat
    <3> HIDE DEF T
    <3> QED
      BY <2>1, Induction
  <2> QED
    BY <2>2
<1>9. h[l + 1] = h[l] \o tt[l + 1] /\ h[l] = g[l]
  <2>1. l \in Nat /\ l < l + 1 /\ l <= l
    BY <1>1
  <2> QED
    BY <1>5, <1>8, <2>1
<1> QED
  BY <1>1, <1>2, <1>3, <1>9 DEF tt

(* An element in front adds itself in front.                               *)
LEMMA FlattenCons ==
  ASSUME NEW S, NEW ss \in Seq(Seq(S)), NEW s \in Seq(S)
  PROVE  FlattenSeq(<<s>> \o ss) = s \o FlattenSeq(ss)
<1> DEFINE tt == <<s>> \o ss
           l == Len(ss)
<1>1. /\ tt \in Seq(Seq(S)) /\ l \in Nat /\ Len(tt) = l + 1
      /\ \A i \in 1 .. l : tt[i + 1] = ss[i] /\ ss[i] \in Seq(S)
      /\ tt[1] = s
  <2>1. <<s>> \in Seq(Seq(S)) /\ Len(<<s>>) = 1 /\ <<s>>[1] = s
    OBVIOUS
  <2>2. /\ tt \in Seq(Seq(S)) /\ Len(tt) = 1 + l /\ l \in Nat
        /\ \A i \in 1 .. Len(tt) : tt[i] = IF i <= 1 THEN <<s>>[i] ELSE ss[i - 1]
    <3> HIDE DEF tt
    <3> QED
      BY <2>1 DEF tt
  <2>3. \A i \in 1 .. l : i + 1 \in 1 .. Len(tt) /\ ~(i + 1 <= 1)
                           /\ (i + 1) - 1 = i
    BY <2>2
  <2>4. \A i \in 1 .. l : ss[i] \in Seq(S)
    OBVIOUS
  <2> QED
    BY <2>1, <2>2, <2>3, <2>4
<1> HIDE DEF tt
<1>2. PICK g : PrefixSums(g, ss, S) /\ FlattenSeq(ss) = g[l]
  BY FlattenIsPrefix
<1>3. PICK h : PrefixSums(h, tt, S) /\ FlattenSeq(tt) = h[Len(tt)]
  BY <1>1, FlattenIsPrefix
<1> HIDE DEF l
<1>4. /\ g[0] = <<>> /\ g \in [Nat -> Seq(S)]
      /\ \A n \in Nat : n < l => g[n + 1] = g[n] \o ss[n + 1]
  BY <1>2 DEF PrefixSums, l
<1>5. /\ h[0] = <<>>
      /\ \A n \in Nat : n < l + 1 => h[n + 1] = h[n] \o tt[n + 1]
  BY <1>1, <1>3 DEF PrefixSums
<1> DEFINE P(n) == n <= l => h[n + 1] = s \o g[n]
           T == {n \in Nat : P(n)}
<1>6. P(0)
  <2>1. 0 \in Nat /\ 0 < l + 1 /\ 0 + 1 = 1
    BY <1>1
  <2>2. h[1] = <<>> \o s
    BY <1>1, <1>5, <2>1
  <2>3. <<>> \o s = s /\ s \o <<>> = s
    BY ConcatEmptySeq
  <2> QED
    BY <1>4, <2>1, <2>2, <2>3
<1>7. ASSUME NEW n \in Nat, P(n), n + 1 <= l
      PROVE  h[(n + 1) + 1] = s \o g[n + 1]
  <2>1. n <= l /\ n < l /\ n + 1 < l + 1 /\ n + 1 \in 1 .. l /\ n + 1 \in Nat
    BY <1>1, <1>7
  <2>2. h[n + 1] = s \o g[n]
    BY <1>7, <2>1
  <2>3. h[(n + 1) + 1] = h[n + 1] \o tt[(n + 1) + 1]
    BY <1>5, <2>1
  <2>4. g[n + 1] = g[n] \o ss[n + 1]
    BY <1>4, <2>1
  <2>5. /\ tt[(n + 1) + 1] = ss[n + 1] /\ ss[n + 1] \in Seq(S)
        /\ g[n] \in Seq(S)
    BY <1>1, <1>4, <2>1
  <2> DEFINE u == g[n]
             v == ss[n + 1]
  <2>6. (s \o u) \o v = s \o (u \o v)
    <3>1. u \in Seq(S) /\ v \in Seq(S)
      BY <2>5
    <3> HIDE DEF u, v
    <3> QED
      BY <3>1, ConcatAssociative
  <2> QED
    BY <2>2, <2>3, <2>4, <2>5, <2>6
<1>8. \A n \in Nat : P(n)
  <2>1. T \subseteq Nat /\ 0 \in T /\ \A n \in T : n + 1 \in T
    <3>1. ASSUME NEW n \in Nat, P(n) PROVE P(n + 1)
      BY <1>7, <3>1
    <3> HIDE DEF P
    <3> QED
      BY <1>6, <3>1
  <2>2. T = Nat
    <3> HIDE DEF T
    <3> QED
      BY <2>1, Induction
  <2> QED
    BY <2>2
<1>9. h[l + 1] = s \o g[l]
  <2>1. l \in Nat /\ l <= l
    BY <1>1
  <2> QED
    BY <1>8, <2>1
<1> QED
  BY <1>1, <1>2, <1>3, <1>9 DEF tt
-----------------------------------------------------------------------------
(* Every element of s replaced by the sequence that M gives it.            *)
Mapped(M, s) == [i \in DOMAIN s |-> M[s[i]]]

IsImage(m, M, s, S) ==
  /\ m \in Seq(Seq(S))
  /\ Len(m) = Len(s)
  /\ \A i \in 1 .. Len(s) : m[i] = M[s[i]]

LEMMA MappedIsSeq ==
  ASSUME NEW E, NEW S, NEW M \in [E -> Seq(S)], NEW s \in Seq(E)
  PROVE  IsImage(Mapped(M, s), M, s, S)
<1> DEFINE t == [i \in DOMAIN s |-> M[s[i]]]
<1>1. /\ Len(s) \in Nat /\ DOMAIN s = 1 .. Len(s)
      /\ \A i \in 1 .. Len(s) : s[i] \in E
  OBVIOUS
<1>2. \A i \in 1 .. Len(s) : t[i] = M[s[i]]
  BY <1>1
<1>3. t \in [1 .. Len(s) -> Seq(S)]
  BY <1>1
<1> HIDE DEF t
<1>4. t \in Seq(Seq(S)) /\ Len(t) = Len(s)
  BY <1>1, <1>3, FunctionIsSeq
<1> QED
  BY <1>2, <1>4 DEF Mapped, IsImage, t

AppendsImage(M, s, e) ==
  FlattenSeq(Mapped(M, Append(s, e))) = FlattenSeq(Mapped(M, s)) \o M[e]

ConsesImage(M, s, e) ==
  FlattenSeq(Mapped(M, <<e>> \o s)) = M[e] \o FlattenSeq(Mapped(M, s))

LEMMA MappedAppend ==
  ASSUME NEW E, NEW S, NEW M \in [E -> Seq(S)], NEW s \in Seq(E), NEW e \in E
  PROVE  AppendsImage(M, s, e)
<1> DEFINE t == Append(s, e)
           m == Mapped(M, s)
           n == Mapped(M, t)
           x == M[e]
<1>1. /\ t \in Seq(E) /\ Len(s) \in Nat /\ Len(t) = Len(s) + 1
      /\ \A i \in 1 .. Len(s) : t[i] = s[i]
      /\ t[Len(s) + 1] = e
  OBVIOUS
<1> HIDE DEF t
<1>m. IsImage(m, M, s, S) /\ IsImage(n, M, t, S)
  BY <1>1, MappedIsSeq
<1>4. x \in Seq(S)
  OBVIOUS
<1> HIDE DEF m, n
<1>2. /\ m \in Seq(Seq(S)) /\ Len(m) = Len(s)
      /\ \A i \in 1 .. Len(s) : m[i] = M[s[i]]
  BY <1>m DEF IsImage
<1>3. /\ n \in Seq(Seq(S)) /\ Len(n) = Len(t)
      /\ \A i \in 1 .. Len(t) : n[i] = M[t[i]]
  BY <1>m DEF IsImage
<1>5. /\ \A i \in 1 .. Len(s) : i \in 1 .. Len(t)
      /\ Len(s) + 1 \in 1 .. Len(t)
  BY <1>1
<1>6. /\ \A i \in 1 .. Len(m) : n[i] = m[i]
      /\ n[Len(m) + 1] = x
  BY <1>1, <1>2, <1>3, <1>5
<1>7. n \in [1 .. Len(m) + 1 -> Seq(S)]
  BY <1>1, <1>2, <1>3
<1> HIDE DEF x
<1>8. n = Append(m, x)
  BY <1>2, <1>4, <1>6, <1>7, IsAppend
<1>9. FlattenSeq(Append(m, x)) = FlattenSeq(m) \o x
  BY <1>2, <1>4, FlattenAppend
<1> QED
  BY <1>8, <1>9 DEF m, n, t, x, AppendsImage

LEMMA MappedCons ==
  ASSUME NEW E, NEW S, NEW M \in [E -> Seq(S)], NEW s \in Seq(E), NEW e \in E
  PROVE  ConsesImage(M, s, e)
<1> DEFINE t == <<e>> \o s
           m == Mapped(M, s)
           n == Mapped(M, t)
           x == M[e]
<1>1. /\ t \in Seq(E) /\ Len(s) \in Nat /\ Len(t) = Len(s) + 1
      /\ \A i \in 1 .. Len(s) : t[i + 1] = s[i]
      /\ t[1] = e
  OBVIOUS
<1> HIDE DEF t
<1>m. IsImage(m, M, s, S) /\ IsImage(n, M, t, S)
  BY <1>1, MappedIsSeq
<1>4. x \in Seq(S)
  OBVIOUS
<1> HIDE DEF m, n
<1>2. /\ m \in Seq(Seq(S)) /\ Len(m) = Len(s)
      /\ \A i \in 1 .. Len(s) : m[i] = M[s[i]]
  BY <1>m DEF IsImage
<1>3. /\ n \in Seq(Seq(S)) /\ Len(n) = Len(t)
      /\ \A i \in 1 .. Len(t) : n[i] = M[t[i]]
  BY <1>m DEF IsImage
<1>5. /\ \A i \in 1 .. Len(s) : i + 1 \in 1 .. Len(t)
      /\ 1 \in 1 .. Len(t)
  BY <1>1
<1>6. /\ \A i \in 1 .. Len(m) : n[i + 1] = m[i]
      /\ n[1] = x
  BY <1>1, <1>2, <1>3, <1>5
<1>7. n \in [1 .. Len(m) + 1 -> Seq(S)]
  BY <1>1, <1>2, <1>3
<1> HIDE DEF x
<1>8. n = <<x>> \o m
  BY <1>2, <1>4, <1>6, <1>7, IsCons
<1>9. FlattenSeq(<<x>> \o m) = x \o FlattenSeq(m)
  BY <1>2, <1>4, FlattenCons
<1> QED
  BY <1>8, <1>9 DEF m, n, t, x, ConsesImage
-----------------------------------------------------------------------------
(* The powers of b: a function that satisfies their recursion up to n, and *)
(* the one that satisfies it everywhere.                                   *)
PowerTo(g, b, n) == /\ g \in [0 .. n -> Nat]
                    /\ g[0] = 1
                    /\ \A i \in 1 .. n : g[i] = b * g[i - 1]

IsPower(f, b) == f = [k \in Nat |-> IF k = 0 THEN 1 ELSE b * f[k - 1]]

LEMMA PowersAgree ==
  ASSUME NEW b \in Nat, NEW n \in Nat, NEW m \in 0 .. n,
         NEW g, PowerTo(g, b, m), NEW h, PowerTo(h, b, n)
  PROVE  g[m] = h[m]
<1> DEFINE P(i) == i <= m => g[i] = h[i]
           T == {i \in Nat : P(i)}
<1>1. P(0)
  BY DEF PowerTo
<1>2. ASSUME NEW i \in Nat, P(i), i + 1 <= m PROVE g[i + 1] = h[i + 1]
  <2>1. i + 1 \in 1 .. m /\ i + 1 \in 1 .. n /\ (i + 1) - 1 = i /\ i <= m
    BY <1>2
  <2> QED
    BY <1>2, <2>1 DEF PowerTo
<1>3. T = Nat
  <2>1. T \subseteq Nat /\ 0 \in T /\ \A i \in T : i + 1 \in T
    <3>1. ASSUME NEW i \in Nat, P(i) PROVE P(i + 1)
      BY <1>2, <3>1
    <3> HIDE DEF P
    <3> QED
      BY <1>1, <3>1
  <2> HIDE DEF T
  <2> QED
    BY <2>1, Induction
<1> QED
  BY <1>3

LEMMA PowersToExist ==
  ASSUME NEW b \in Nat PROVE \A n \in Nat : \E g : PowerTo(g, b, n)
<1> DEFINE P(n) == \E g : PowerTo(g, b, n)
           T == {n \in Nat : P(n)}
<1>1. P(0)
  <2>1. PowerTo([i \in 0 .. 0 |-> 1], b, 0)
    BY DEF PowerTo
  <2> QED
    BY <2>1
<1>2. ASSUME NEW n \in Nat, P(n) PROVE P(n + 1)
  <2>1. PICK g : PowerTo(g, b, n)
    BY <1>2
  <2> DEFINE h == [i \in 0 .. n + 1 |-> IF i <= n THEN g[i] ELSE b * g[n]]
  <2>2. g \in [0 .. n -> Nat] /\ g[0] = 1 /\ g[n] \in Nat
        /\ \A i \in 1 .. n : g[i] = b * g[i - 1]
    BY <2>1 DEF PowerTo
  <2>3. h \in [0 .. n + 1 -> Nat] /\ h[0] = 1
    BY <2>2
  <2>4. ASSUME NEW i \in 1 .. n + 1 PROVE h[i] = b * h[i - 1]
    <3>1. CASE i <= n
      <4>1. i \in 1 .. n /\ i \in 0 .. n + 1 /\ i - 1 \in 0 .. n + 1 /\ i - 1 <= n
        BY <3>1
      <4> QED
        BY <2>2, <3>1, <4>1
    <3>2. CASE ~(i <= n)
      <4>1. i \in 0 .. n + 1 /\ i - 1 = n /\ n \in 0 .. n + 1 /\ n <= n
        BY <3>2
      <4> QED
        BY <3>2, <4>1
    <3> QED
      BY <3>1, <3>2
  <2> HIDE DEF h
  <2>5. PowerTo(h, b, n + 1)
    BY <2>3, <2>4 DEF PowerTo
  <2> QED
    BY <2>5
<1>3. T = Nat
  <2>1. T \subseteq Nat /\ 0 \in T /\ \A n \in T : n + 1 \in T
    <3> HIDE DEF P
    <3> QED
      BY <1>1, <1>2
  <2> HIDE DEF T
  <2> QED
    BY <2>1, Induction
<1> QED
  BY <1>3

LEMMA PowersExist == ASSUME NEW b \in Nat PROVE \E f : IsPower(f, b)
<1> DEFINE c(n) == CHOOSE g : PowerTo(g, b, n)
           f == [n \in Nat |-> c(n)[n]]
<1>1. \A n \in Nat : PowerTo(c(n), b, n)
  BY PowersToExist, Zenon
<1>2. ASSUME NEW n \in Nat PROVE c(n)[n] = IF n = 0 THEN 1 ELSE b * c(n - 1)[n - 1]
  <2>1. CASE n = 0
    BY <1>1, <2>1 DEF PowerTo
  <2>2. CASE n # 0
    <3>1. n - 1 \in Nat /\ n \in Nat /\ n - 1 \in 0 .. n /\ n \in 1 .. n
      BY <2>2
    <3>2. PowerTo(c(n), b, n) /\ PowerTo(c(n - 1), b, n - 1)
      BY <1>1, <3>1
    <3> DEFINE g == c(n)
               h == c(n - 1)
               m == n - 1
    <3>3. PowerTo(g, b, n) /\ PowerTo(h, b, m) /\ m \in 0 .. n
      BY <3>1, <3>2
    <3> HIDE DEF g, h, m, c
    <3>4. h[m] = g[m]
      BY <3>3, PowersAgree
    <3>5. g[n] = b * g[n - 1]
      BY <3>1, <3>3 DEF PowerTo
    <3> QED
      BY <2>2, <3>4, <3>5 DEF g, h, m
  <2> QED
    BY <2>1, <2>2
<1>3. \A n \in Nat : f[n] = c(n)[n]
  OBVIOUS
<1>4. \A n \in Nat : f[n] = IF n = 0 THEN 1 ELSE b * f[n - 1]
  <2> HIDE DEF c, f
  <2> QED
    BY <1>2, <1>3
<1>5. IsPower(f, b)
  <2> HIDE DEF c
  <2>1. f = [n \in Nat |-> f[n]]
    OBVIOUS
  <2> HIDE DEF f
  <2> QED
    BY <1>4, <2>1 DEF IsPower
<1> QED
  BY <1>5

ArePowers(f, b) ==
  /\ f[0] = 1
  /\ \A k \in Nat : f[k] \in Nat \ {0} /\ f[k + 1] = b * f[k]

LEMMA PowersAre ==
  ASSUME NEW b \in Nat \ {0}, NEW f, f = CHOOSE g : IsPower(g, b)
  PROVE  ArePowers(f, b)
<1>1. IsPower(f, b)
  BY PowersExist, Zenon
<1>2. f[0] = 1
  BY <1>1 DEF IsPower
<1>3. ASSUME NEW k \in Nat PROVE f[k + 1] = b * f[k]
  <2>1. k + 1 \in Nat /\ k + 1 # 0 /\ (k + 1) - 1 = k
    OBVIOUS
  <2> QED
    BY <1>1, <2>1 DEF IsPower
<1> DEFINE T == {k \in Nat : f[k] \in Nat \ {0}}
<1>4. T = Nat
  <2>1. T \subseteq Nat /\ 0 \in T
    BY <1>2
  <2>2. \A k \in T : k + 1 \in T
    BY <1>3
  <2> HIDE DEF T
  <2> QED
    BY <2>1, <2>2, Induction
<1> QED
  BY <1>2, <1>3, <1>4 DEF ArePowers

Exceeds(f) == \A k \in Nat : k < f[k]

LEMMA PowersExceed ==
  ASSUME NEW b \in Nat, b > 1, NEW f, ArePowers(f, b)
  PROVE  Exceeds(f)
<1> DEFINE T == {k \in Nat : k < f[k]}
<1>1. T \subseteq Nat /\ 0 \in T
  BY DEF ArePowers
<1>2. ASSUME NEW k \in T PROVE k + 1 \in T
  <2>1. k \in Nat /\ f[k] \in Nat /\ k < f[k] /\ f[k + 1] = b * f[k]
    BY DEF ArePowers
  <2> DEFINE x == f[k]
  <2>2. x \in Nat /\ k < x
    BY <2>1
  <2> HIDE DEF x
  <2>3. b * x >= 2 * x
    BY <2>2
  <2>4. k + 1 < b * x
    BY <2>1, <2>2, <2>3
  <2> QED
    BY <2>1, <2>4 DEF x
<1>3. T = Nat
  <2> HIDE DEF T
  <2> QED
    BY <1>1, <1>2, Induction
<1> QED
  BY <1>3 DEF Exceeds

PowersMultiply(f, m) == \A n \in Nat : f[m + n] = f[m] * f[n]

LEMMA PowersAdd ==
  ASSUME NEW b \in Nat, NEW f, ArePowers(f, b), NEW m \in Nat
  PROVE  PowersMultiply(f, m)
<1> DEFINE T == {n \in Nat : f[m + n] = f[m] * f[n]}
<1>1. T \subseteq Nat /\ 0 \in T
  BY DEF ArePowers
<1>2. ASSUME NEW n \in T PROVE n + 1 \in T
  <2> DEFINE x == f[m]
             y == f[n]
             z == f[m + n]
  <2>1. m + n \in Nat /\ m + (n + 1) = (m + n) + 1
    OBVIOUS
  <2>2. f[m + (n + 1)] = b * z /\ f[n + 1] = b * y /\ z = x * y
    BY <2>1 DEF ArePowers
  <2>3. x \in Nat /\ y \in Nat
    BY DEF ArePowers
  <2> HIDE DEF x, y, z
  <2>4. b * (x * y) = x * (b * y)
    BY <2>3
  <2>5. f[m + (n + 1)] = x * f[n + 1]
    BY <2>2, <2>4
  <2> QED
    BY <2>5 DEF x
<1>3. T = Nat
  <2> HIDE DEF T
  <2> QED
    BY <1>1, <1>2, Induction
<1> QED
  BY <1>3 DEF PowersMultiply
=============================================================================
