-------------------------- MODULE DataStream_proofs --------------------------
(***************************************************************************)
(* What is encoded is decoded again, for every list of messages and every  *)
(* size of the buffer; and while datagrams arrive whole or not at all, the *)
(* bytes of the stream are those of DataHandler's segments, and a call     *)
(* returns what DataHandler returns.                                       *)
(*                                                                         *)
(* First what the operators on sequences do, then numbers, nodes, messages *)
(* and packets that are read back as they were written, then the stream.   *)
(***************************************************************************)
EXTENDS DataStream, WellFoundedInduction, TLAPS

(* Every nonempty set of naturals has a least element.                     *)
LEMMA LeastNatural ==
    ASSUME NEW T, T \subseteq Nat, T # {}
    PROVE  \E x \in T : \A y \in T : x <= y
  <1> DEFINE R == OpToRel(<, Nat)
  <1>1. PICK x \in T : \A y \in T : ~ (<<y, x>> \in R)
    <2>1. IsWellFoundedOn(R, Nat)
      BY NatLessThanWellFounded
    <2> HIDE DEF R
    <2> QED BY <2>1, WFMin, Zenon
  <1>2. ASSUME NEW y \in T PROVE x <= y
    <2>1. ~ (<<y, x>> \in R)
      BY <1>1
    <2>2. \A a, b \in Nat : a < b => <<a, b>> \in R
      BY DEF OpToRel
    <2> HIDE DEF R
    <2> QED BY <2>1, <2>2
  <1> QED BY <1>2

(* Induction along a list: what holds before its first element, and from   *)
(* each element to the next, holds up to its end.                          *)
LEMMA Upwards ==
    ASSUME NEW n \in Nat, NEW T, 0 \in T, \A k \in 1 .. n : k - 1 \in T => k \in T
    PROVE  \A k \in 0 .. n : k \in T
  <1> DEFINE Bad == {k \in 0 .. n : k \notin T}
  <1> SUFFICES ASSUME Bad # {} PROVE FALSE
    OBVIOUS
  <1>1. PICK k \in Bad : \A j \in Bad : k <= j
    <2>1. Bad \subseteq Nat
      OBVIOUS
    <2> HIDE DEF Bad
    <2> QED BY <2>1, LeastNatural
  <1>2. k \in 1 .. n /\ k \notin T
    OBVIOUS
  <1>3. k - 1 \in 0 .. n /\ ~ (k <= k - 1)
    BY <1>2
  <1>4. k - 1 \notin Bad
    <2> HIDE DEF Bad
    <2> QED BY <1>1, <1>3
  <1> QED BY <1>2, <1>3, <1>4

-----------------------------------------------------------------------------
(* Sequences and their beginnings.                                         *)
Begin(s, k) == SubSeq(s, 1, k)

LEMMA SeqFacts ==
    ASSUME NEW S, NEW s \in Seq(S)
    PROVE  /\ Len(s) \in Nat /\ DOMAIN s = 1 .. Len(s)
           /\ \A i \in 1 .. Len(s) : s[i] \in S
           /\ s = << >> <=> Len(s) = 0
  OBVIOUS

LEMMA SameSequence ==
    ASSUME NEW S, NEW s \in Seq(S), NEW t \in Seq(S), Len(s) = Len(t),
           \A i \in 1 .. Len(s) : s[i] = t[i]
    PROVE  s = t
  <1>1. s = [i \in 1 .. Len(s) |-> s[i]] /\ t = [i \in 1 .. Len(t) |-> t[i]]
    OBVIOUS
  <1> QED BY <1>1

LEMMA BeginFacts ==
    ASSUME NEW S, NEW s \in Seq(S), NEW k \in 0 .. Len(s)
    PROVE  /\ Begin(s, k) \in Seq(S) /\ Len(Begin(s, k)) = k
           /\ \A i \in 1 .. k : Begin(s, k)[i] = s[i]
           /\ Begin(s, 0) = << >>
           /\ Begin(s, Len(s)) = s
           /\ k > 0 => Begin(s, k) = Append(Begin(s, k - 1), s[k])
  <1>1. ASSUME NEW j \in 0 .. Len(s)
        PROVE  /\ Begin(s, j) \in Seq(S) /\ Len(Begin(s, j)) = j
               /\ \A i \in 1 .. j : Begin(s, j)[i] = s[i]
    BY DEF Begin
  <1>2. Begin(s, 0) = << >>
    <2>1. 0 \in 0 .. Len(s)
      OBVIOUS
    <2> QED BY <1>1, <2>1, SeqFacts
  <1>3. Begin(s, Len(s)) = s
    <2>1. Len(s) \in 0 .. Len(s)
      OBVIOUS
    <2> QED BY <1>1, <2>1, SameSequence
  <1>4. ASSUME k > 0 PROVE Begin(s, k) = Append(Begin(s, k - 1), s[k])
    <2> DEFINE b == Begin(s, k - 1)
               t == Append(b, s[k])
    <2>1. k - 1 \in 0 .. Len(s) /\ k \in 1 .. Len(s) /\ s[k] \in S
      BY <1>4
    <2>2. b \in Seq(S) /\ Len(b) = k - 1 /\ \A i \in 1 .. k - 1 : b[i] = s[i]
      BY <1>1, <2>1
    <2> HIDE DEF b
    <2>3. t \in Seq(S) /\ Len(t) = k /\ \A i \in 1 .. k : t[i] = s[i]
      BY <2>1, <2>2
    <2> HIDE DEF t
    <2>4. Begin(s, k) = t
      BY <1>1, <2>3, SameSequence
    <2> QED BY <2>4 DEF t, b
  <1> QED BY <1>1, <1>2, <1>3, <1>4

LEMMA ConcatFacts ==
    ASSUME NEW S, NEW s \in Seq(S), NEW t \in Seq(S)
    PROVE  /\ s \o t \in Seq(S) /\ Len(s \o t) = Len(s) + Len(t)
           /\ \A i \in 1 .. Len(s) : (s \o t)[i] = s[i]
           /\ \A i \in 1 .. Len(t) : (s \o t)[Len(s) + i] = t[i]
           /\ s \o << >> = s /\ << >> \o s = s
  <1>1. /\ s \o t \in Seq(S) /\ Len(s \o t) = Len(s) + Len(t)
        /\ \A i \in 1 .. Len(s) + Len(t) :
              (s \o t)[i] = IF i <= Len(s) THEN s[i] ELSE t[i - Len(s)]
    OBVIOUS
  <1>2. s \o << >> = s /\ << >> \o s = s
    OBVIOUS
  <1> QED BY <1>1, <1>2

LEMMA ConcatAssociates ==
    ASSUME NEW S, NEW s \in Seq(S), NEW t \in Seq(S), NEW u \in Seq(S)
    PROVE  (s \o t) \o u = s \o (t \o u)
  OBVIOUS

LEMMA ConcatAppends ==
    ASSUME NEW S, NEW s \in Seq(S), NEW t \in Seq(S), NEW x \in S
    PROVE  s \o Append(t, x) = Append(s \o t, x)
  OBVIOUS

-----------------------------------------------------------------------------
(* FlattenSeq is what its definition says.                                 *)
Joins(f, s, k) == f = [i \in 1 .. k |-> IF i = 1 THEN s[i] ELSE f[i - 1] \o s[i]]

LEMMA JoinsExists ==
    ASSUME NEW s, NEW n \in Nat
    PROVE  \E f : Joins(f, s, n)
  <1> DEFINE T == {k \in 0 .. n : \E f : Joins(f, s, k)}
  <1>1. 0 \in T
    <2>1. Joins([i \in 1 .. 0 |-> s], s, 0)
      BY DEF Joins
    <2> QED BY <2>1
  <1>2. ASSUME NEW k \in 1 .. n, k - 1 \in T PROVE k \in T
    <2>1. PICK f : Joins(f, s, k - 1)
      BY <1>2
    <2> DEFINE g == [i \in 1 .. k |-> IF i = k THEN (IF k = 1 THEN s[k] ELSE f[k - 1] \o s[k])
                                      ELSE f[i]]
    <2>2. ASSUME NEW i \in 1 .. k
          PROVE  g[i] = IF i = 1 THEN s[i] ELSE g[i - 1] \o s[i]
      <3>1. CASE i = k
        <4>1. i # 1 => i - 1 \in 1 .. k /\ i - 1 # k
          BY <3>1
        <4> QED BY <3>1, <4>1
      <3>2. CASE i # k
        <4>1. i \in 1 .. k - 1 /\ (i # 1 => i - 1 \in 1 .. k /\ i - 1 # k)
          BY <3>2
        <4>2. f[i] = IF i = 1 THEN s[i] ELSE f[i - 1] \o s[i]
          BY <2>1, <4>1 DEF Joins
        <4>3. g[i] = f[i] /\ (i # 1 => g[i - 1] = f[i - 1])
          BY <3>2, <4>1
        <4> HIDE DEF g
        <4> QED BY <4>2, <4>3
      <3> QED BY <3>1, <3>2
    <2>3. Joins(g, s, k)
      <3>1. g = [i \in 1 .. k |-> g[i]]
        OBVIOUS
      <3> HIDE DEF g
      <3> QED BY <2>2, <3>1 DEF Joins
    <2> QED BY <2>3
  <1>3. n \in T
    <2>1. n \in 0 .. n
      OBVIOUS
    <2> HIDE DEF T
    <2> QED BY <1>1, <1>2, <2>1, Upwards
  <1> QED BY <1>3

LEMMA FlattenIsJoined ==
    ASSUME NEW S, NEW s \in Seq(S), Len(s) > 0
    PROVE  \E f : Joins(f, s, Len(s)) /\ FlattenSeq(s) = f[Len(s)]
  <1> DEFINE f == CHOOSE f : Joins(f, s, Len(s))
  <1>1. Joins(f, s, Len(s))
    <2>1. \E g : Joins(g, s, Len(s))
      BY SeqFacts, JoinsExists
    <2> QED BY <2>1
  <1>2. FlattenSeq(s) = f[Len(s)]
    <2>1. Len(s) # 0
      OBVIOUS
    <2> QED BY <2>1 DEF FlattenSeq, Joins
  <1> QED BY <1>1, <1>2

(* It grows by one part of the list after the other.                       *)
LEMMA FlattenSteps ==
    ASSUME NEW S, NEW s \in Seq(Seq(S))
    PROVE  /\ FlattenSeq(Begin(s, 0)) = << >>
           /\ \A k \in 1 .. Len(s) :
                 FlattenSeq(Begin(s, k)) = FlattenSeq(Begin(s, k - 1)) \o s[k]
           /\ \A k \in 0 .. Len(s) : FlattenSeq(Begin(s, k)) \in Seq(S)
  <1> DEFINE n == Len(s)
             P(k) == FlattenSeq(Begin(s, k))
  <1>1. n \in Nat /\ \A i \in 1 .. n : s[i] \in Seq(S)
    OBVIOUS
  <1>2. P(0) = << >>
    <2>1. Begin(s, 0) = << >> /\ Len(<< >>) = 0
      BY <1>1, BeginFacts
    <2> QED BY <2>1 DEF FlattenSeq
  <1>3. PICK f : Joins(f, s, n)
    BY <1>1, JoinsExists
  <1>4. \A i \in 1 .. n : f[i] = IF i = 1 THEN s[i] ELSE f[i - 1] \o s[i]
    BY <1>3 DEF Joins
  <1>5. ASSUME NEW k \in 1 .. n PROVE P(k) = f[k]
    <2>1. /\ Begin(s, k) \in Seq(Seq(S)) /\ Len(Begin(s, k)) = k
          /\ \A i \in 1 .. k : Begin(s, k)[i] = s[i]
      BY <1>1, BeginFacts
    <2>2. PICK g : Joins(g, Begin(s, k), k) /\ P(k) = g[k]
      <3> DEFINE b == Begin(s, k)
      <3>1. b \in Seq(Seq(S)) /\ Len(b) > 0
        BY <2>1
      <3>2. \E g : Joins(g, b, Len(b)) /\ FlattenSeq(b) = g[Len(b)]
        <4> HIDE DEF b
        <4> QED BY <3>1, FlattenIsJoined
      <3> QED BY <2>1, <3>2
    <2> DEFINE T == {i \in 0 .. k : i > 0 => g[i] = f[i]}
    <2>3. 0 \in T
      OBVIOUS
    <2>4. ASSUME NEW i \in 1 .. k, i - 1 \in T PROVE i \in T
      <3>1. g[i] = IF i = 1 THEN s[i] ELSE g[i - 1] \o s[i]
        BY <2>1, <2>2 DEF Joins
      <3>2. i \in 1 .. n /\ i \in 0 .. k /\ (i # 1 => i - 1 > 0)
        BY <1>1
      <3>3. i # 1 => g[i - 1] = f[i - 1]
        BY <2>4, <3>2
      <3>4. g[i] = f[i]
        BY <1>4, <3>1, <3>2, <3>3
      <3> QED BY <3>2, <3>4
    <2>5. k \in T
      <3>1. k \in Nat /\ k \in 0 .. k
        BY <1>1
      <3> HIDE DEF T
      <3> QED BY <2>3, <2>4, <3>1, Upwards
    <2> QED BY <2>2, <2>5
  <1> DEFINE T == {k \in 0 .. n : P(k) \in Seq(S)}
  <1>6. 0 \in T
    <2>1. 0 \in 0 .. n /\ << >> \in Seq(S)
      BY <1>1
    <2> HIDE DEF P
    <2> QED BY <1>2, <2>1
  <1>7. ASSUME NEW k \in 1 .. n PROVE P(k) = P(k - 1) \o s[k]
    <2>1. CASE k = 1
      <3>1. P(k) = s[k] /\ P(k - 1) = << >>
        BY <1>2, <1>4, <1>5, <2>1
      <3> HIDE DEF P
      <3> QED BY <1>1, <3>1, ConcatFacts
    <2>2. CASE k # 1
      <3>1. k - 1 \in 1 .. n
        BY <1>1, <2>2
      <3>2. P(k) = f[k] /\ P(k - 1) = f[k - 1]
        BY <1>5, <3>1
      <3> HIDE DEF P
      <3> QED BY <1>4, <2>2, <3>2
    <2> QED BY <2>1, <2>2
  <1>8. ASSUME NEW k \in 1 .. n, k - 1 \in T PROVE k \in T
    <2>1. P(k - 1) \in Seq(S) /\ P(k) = P(k - 1) \o s[k] /\ s[k] \in Seq(S)
      BY <1>1, <1>7, <1>8
    <2> HIDE DEF P
    <2>2. P(k) \in Seq(S)
      BY <2>1, ConcatFacts
    <2> QED BY <2>2
  <1>9. \A k \in 0 .. n : P(k) \in Seq(S)
    <2>1. \A k \in 0 .. n : k \in T
      <3> HIDE DEF T
      <3> QED BY <1>1, <1>6, <1>8, Upwards
    <2> QED BY <2>1
  <1> QED BY <1>2, <1>7, <1>9

LEMMA FlattenFacts ==
    ASSUME NEW S, NEW s \in Seq(Seq(S))
    PROVE  /\ FlattenSeq(<< >>) = << >>
           /\ FlattenSeq(s) \in Seq(S)
           /\ \A x \in Seq(S) : FlattenSeq(Append(s, x)) = FlattenSeq(s) \o x
  <1>1. FlattenSeq(<< >>) = << >>
    <2>1. Begin(s, 0) = << >> /\ Len(s) \in Nat
      BY SeqFacts, BeginFacts
    <2> QED BY <2>1, FlattenSteps
  <1>2. FlattenSeq(s) \in Seq(S)
    <2>1. Begin(s, Len(s)) = s /\ Len(s) \in 0 .. Len(s)
      BY SeqFacts, BeginFacts
    <2> QED BY <2>1, FlattenSteps
  <1>3. ASSUME NEW x \in Seq(S) PROVE FlattenSeq(Append(s, x)) = FlattenSeq(s) \o x
    <2> DEFINE t == Append(s, x)
    <2>1. /\ t \in Seq(Seq(S)) /\ Len(t) = Len(s) + 1 /\ t[Len(s) + 1] = x
          /\ \A i \in 1 .. Len(s) : t[i] = s[i]
      OBVIOUS
    <2>2. Len(t) \in 1 .. Len(t) /\ Len(t) - 1 = Len(s) /\ Len(s) \in 0 .. Len(t)
      BY <2>1, SeqFacts
    <2> HIDE DEF t
    <2>3. Begin(t, Len(t)) = t
      BY <2>1, <2>2, BeginFacts
    <2>4. Begin(t, Len(s)) = s
      <3>1. /\ Begin(t, Len(s)) \in Seq(Seq(S)) /\ Len(Begin(t, Len(s))) = Len(s)
            /\ \A i \in 1 .. Len(s) : Begin(t, Len(s))[i] = t[i]
        BY <2>1, <2>2, BeginFacts, SMTT(30)
      <3> QED BY <2>1, <3>1, SameSequence
    <2>5. FlattenSeq(Begin(t, Len(t))) = FlattenSeq(Begin(t, Len(t) - 1)) \o t[Len(t)]
      BY <2>1, <2>2, FlattenSteps
    <2> QED BY <2>1, <2>2, <2>3, <2>4, <2>5 DEF t
  <1> QED BY <1>1, <1>2, <1>3

LEMMA FlattenConcat ==
    ASSUME NEW S, NEW s \in Seq(Seq(S)), NEW t \in Seq(Seq(S))
    PROVE  FlattenSeq(s \o t) = FlattenSeq(s) \o FlattenSeq(t)
  <1> DEFINE n == Len(t)
             T == {k \in 0 .. n : FlattenSeq(s \o Begin(t, k))
                                     = FlattenSeq(s) \o FlattenSeq(Begin(t, k))}
  <1>1. n \in Nat /\ n \in 0 .. n /\ 0 \in 0 .. n
    BY SeqFacts
  <1>2. FlattenSeq(s) \in Seq(S)
    BY FlattenFacts
  <1>3. 0 \in T
    <2>1. Begin(t, 0) = << >> /\ s \o << >> = s /\ FlattenSeq(<< >>) = << >>
      BY <1>1, BeginFacts, ConcatFacts, FlattenFacts
    <2>2. FlattenSeq(s) \o << >> = FlattenSeq(s)
      BY <1>2, ConcatFacts
    <2> QED BY <1>1, <2>1, <2>2
  <1>4. ASSUME NEW k \in 1 .. n, k - 1 \in T PROVE k \in T
    <2> DEFINE b == Begin(t, k - 1)
    <2>1. k \in 0 .. n /\ k > 0 /\ k - 1 \in 0 .. n /\ t[k] \in Seq(S)
      BY <1>1
    <2>2. b \in Seq(Seq(S)) /\ Begin(t, k) = Append(b, t[k])
      BY <2>1, BeginFacts
    <2>3. FlattenSeq(s \o b) = FlattenSeq(s) \o FlattenSeq(b)
      BY <1>4
    <2> HIDE DEF b
    <2> DEFINE x == t[k]
               u == FlattenSeq(s)
               v == FlattenSeq(b)
               c == s \o b
    <2> HIDE DEF x, u, v, c
    <2>4. c \in Seq(Seq(S)) /\ s \o Append(b, x) = Append(c, x)
      <3>1. s \o b \in Seq(Seq(S))
        BY <2>2, ConcatFacts
      <3>2. s \o Append(b, x) = Append(s \o b, x)
        <4> DEFINE E == Seq(S)
        <4>1. x \in E /\ s \in Seq(E) /\ b \in Seq(E)
          BY <2>1, <2>2 DEF x
        <4> HIDE DEF E
        <4> QED BY <4>1, ConcatAppends
      <3> QED BY <3>1, <3>2 DEF c
    <2>5. FlattenSeq(Append(c, x)) = (u \o v) \o x
      <3>1. FlattenSeq(Append(c, x)) = FlattenSeq(c) \o x
        <4>1. x \in Seq(S)
          BY <2>1 DEF x
        <4> QED BY <2>4, <4>1, FlattenFacts
      <3> QED BY <2>3, <3>1 DEF c, u, v
    <2>6. FlattenSeq(Append(b, x)) = v \o x
      <3>1. x \in Seq(S)
        BY <2>1 DEF x
      <3> QED BY <2>2, <3>1, FlattenFacts DEF v
    <2>7. (u \o v) \o x = u \o (v \o x)
      <3>1. u \in Seq(S) /\ v \in Seq(S) /\ x \in Seq(S)
        BY <1>2, <2>1, <2>2, FlattenFacts DEF u, v, x
      <3> QED BY <3>1, SMTT(30)
    <2> QED BY <2>1, <2>2, <2>4, <2>5, <2>6, <2>7 DEF u, x
  <1>5. n \in T
    <2> HIDE DEF T
    <2> QED BY <1>1, <1>3, <1>4, Upwards
  <1>6. Begin(t, n) = t
    BY <1>1, BeginFacts
  <1> QED BY <1>5, <1>6

(* A list of lists of parts, joined twice.                                 *)
Flattened(s, t) == Len(t) = Len(s) /\ \A i \in 1 .. Len(s) : t[i] = FlattenSeq(s[i])

LEMMA FlattenTwice ==
    ASSUME NEW S, NEW s \in Seq(Seq(Seq(S))), NEW t \in Seq(Seq(S)), Flattened(s, t)
    PROVE  FlattenSeq(s) \in Seq(Seq(S)) /\ FlattenSeq(FlattenSeq(s)) = FlattenSeq(t)
  <1> DEFINE n == Len(s)
             T == {k \in 0 .. n : FlattenSeq(FlattenSeq(Begin(s, k))) = FlattenSeq(Begin(t, k))}
  <1> Len(t) = Len(s) /\ \A i \in 1 .. Len(s) : t[i] = FlattenSeq(s[i])
    BY DEF Flattened
  <1>1. n \in Nat /\ n \in 0 .. n /\ 0 \in 0 .. n
    BY SeqFacts
  <1>2. 0 \in T
    <2>1. Begin(s, 0) = << >> /\ Begin(t, 0) = << >>
      BY <1>1, BeginFacts
    <2>2. FlattenSeq(<< >>) = << >>
      BY FlattenFacts
    <2> QED BY <1>1, <2>1, <2>2
  <1>3. ASSUME NEW k \in 1 .. n, k - 1 \in T PROVE k \in T
    <2> DEFINE b == FlattenSeq(Begin(s, k - 1))
    <2>1. k \in 0 .. n /\ k - 1 \in 0 .. n /\ s[k] \in Seq(Seq(S))
      BY <1>1
    <2>2. b \in Seq(Seq(S)) /\ FlattenSeq(Begin(s, k)) = b \o s[k]
      BY <2>1, FlattenSteps
    <2>3. FlattenSeq(b) = FlattenSeq(Begin(t, k - 1))
      BY <1>3
    <2> HIDE DEF b
    <2>4. FlattenSeq(b \o s[k]) = FlattenSeq(b) \o FlattenSeq(s[k])
      BY <2>1, <2>2, FlattenConcat
    <2>5. FlattenSeq(Begin(t, k)) = FlattenSeq(Begin(t, k - 1)) \o t[k]
      BY FlattenSteps
    <2> QED BY <2>1, <2>2, <2>3, <2>4, <2>5
  <1>4. n \in T
    <2> HIDE DEF T
    <2> QED BY <1>1, <1>2, <1>3, Upwards
  <1>5. Begin(s, n) = s /\ Begin(t, n) = t
    BY <1>1, BeginFacts
  <1>6. FlattenSeq(s) \in Seq(Seq(S))
    BY FlattenFacts
  <1> QED BY <1>4, <1>5, <1>6

-----------------------------------------------------------------------------
(* How long it is.                                                         *)
LEMMA SameAlong ==
    ASSUME NEW n \in Nat, NEW f, NEW g, f[0] = g[0],
           \A i \in 1 .. n : f[i - 1] = g[i - 1] => f[i] = g[i]
    PROVE  f[n] = g[n]
  <1> DEFINE T == {i \in 0 .. n : f[i] = g[i]}
  <1>1. 0 \in T /\ n \in 0 .. n
    OBVIOUS
  <1>2. \A i \in 1 .. n : i - 1 \in T => i \in T
    OBVIOUS
  <1>3. n \in T
    <2> HIDE DEF T
    <2> QED BY <1>1, <1>2, Upwards
  <1> QED BY <1>3

Sums(f, t) == f = [i \in 0 .. Len(t) |-> IF i = 0 THEN 0 ELSE f[i - 1] + t[i]]

LEMMA SumOfLengths ==
    ASSUME NEW S, NEW s \in Seq(Seq(S)), NEW t, Len(t) = Len(s),
           \A i \in 1 .. Len(s) : t[i] = Len(s[i])
    PROVE  Sum(t) = Len(FlattenSeq(s))
  <1> DEFINE n == Len(s)
             g == [i \in 0 .. n |-> Len(FlattenSeq(Begin(s, i)))]
             f == CHOOSE f : Sums(f, t)
  <1>1. n \in Nat /\ n \in 0 .. n /\ 0 \in 0 .. n
    BY SeqFacts
  <1>2. g[0] = 0 /\ g[n] = Len(FlattenSeq(s))
    <2>1. FlattenSeq(Begin(s, 0)) = << >> /\ Begin(s, n) = s
      <3>1. FlattenSeq(Begin(s, 0)) = << >>
        BY FlattenSteps
      <3> QED BY <1>1, <3>1, BeginFacts
    <2>2. g[0] = Len(<< >>) /\ g[n] = Len(FlattenSeq(s))
      <3>1. g[0] = Len(FlattenSeq(Begin(s, 0))) /\ g[n] = Len(FlattenSeq(Begin(s, n)))
        BY <1>1
      <3> HIDE DEF g, n
      <3> QED BY <2>1, <3>1
    <2> QED BY <2>2
  <1>3. ASSUME NEW i \in 1 .. n PROVE g[i] = g[i - 1] + t[i]
    <2>1. i \in 0 .. n /\ i - 1 \in 0 .. n /\ s[i] \in Seq(S)
      BY <1>1
    <2>2. /\ FlattenSeq(Begin(s, i)) = FlattenSeq(Begin(s, i - 1)) \o s[i]
          /\ FlattenSeq(Begin(s, i - 1)) \in Seq(S)
      BY <2>1, FlattenSteps
    <2>3. Len(FlattenSeq(Begin(s, i))) = Len(FlattenSeq(Begin(s, i - 1))) + Len(s[i])
      BY <2>1, <2>2, ConcatFacts
    <2> QED BY <2>1, <2>3
  <1>4. Sums(g, t)
    <2>1. g = [i \in 0 .. n |-> g[i]]
      OBVIOUS
    <2>2. \A i \in 0 .. n : i # 0 => i \in 1 .. n
      BY <1>1
    <2> HIDE DEF g
    <2>3. \A i \in 0 .. n : g[i] = IF i = 0 THEN 0 ELSE g[i - 1] + t[i]
      BY <1>2, <1>3, <2>2
    <2> HIDE DEF n
    <2>4. Len(t) = n
      BY DEF n
    <2> QED BY <2>1, <2>3, <2>4 DEF Sums
  <1>5. Sums(f, t)
    BY <1>4
  <1>6. Sum(t) = f[n]
    BY DEF Sum, Sums
  <1> HIDE DEF f, g
  <1>7. f[0] = 0 /\ \A i \in 1 .. n : f[i] = f[i - 1] + t[i]
    <2>1. \A i \in 0 .. Len(t) : f[i] = IF i = 0 THEN 0 ELSE f[i - 1] + t[i]
      BY <1>5 DEF Sums
    <2>2. \A i \in 1 .. n : i \in 0 .. Len(t) /\ i # 0
      BY <1>1
    <2>3. 0 \in 0 .. Len(t)
      BY <1>1
    <2> QED BY <2>1, <2>2, <2>3
  <1>8. f[n] = g[n]
    <2>1. f[0] = g[0] /\ \A i \in 1 .. n : f[i - 1] = g[i - 1] => f[i] = g[i]
      BY <1>2, <1>3, <1>7
    <2> HIDE DEF n
    <2> QED BY <1>1, <2>1, SameAlong
  <1> QED BY <1>2, <1>6, <1>8

LEMMA FlattenLengths ==
    ASSUME NEW S, NEW s \in Seq(Seq(S))
    PROVE  /\ \A k \in 0 .. Len(s) : Len(FlattenSeq(Begin(s, k))) \in Nat
           /\ \A k \in 0 .. Len(s) : Len(FlattenSeq(Begin(s, k))) <= Len(FlattenSeq(s))
           /\ (\A i \in 1 .. Len(s) : Len(s[i]) >= 1) => Len(s) <= Len(FlattenSeq(s))
           /\ (\A i \in 1 .. Len(s) : Len(s[i]) = 2) => Len(FlattenSeq(s)) = 2 * Len(s)
  <1> DEFINE n == Len(s)
             L(k) == Len(FlattenSeq(Begin(s, k)))
  <1>1. n \in Nat /\ n \in 0 .. n /\ 0 \in 0 .. n
    BY SeqFacts
  <1>2. \A k \in 0 .. n : L(k) \in Nat
    BY FlattenSteps, SeqFacts
  <1>3. L(0) = 0 /\ L(n) = Len(FlattenSeq(s))
    <2>1. FlattenSeq(Begin(s, 0)) = << >>
      BY FlattenSteps
    <2>2. Begin(s, n) = s
      BY <1>1, BeginFacts
    <2> HIDE DEF n
    <2> QED BY <2>1, <2>2
  <1>4. ASSUME NEW k \in 1 .. n
        PROVE  L(k) = L(k - 1) + Len(s[k]) /\ Len(s[k]) \in Nat /\ k \in 0 .. n /\ k - 1 \in 0 .. n
    <2>1. k - 1 \in 0 .. n /\ k \in 0 .. n /\ s[k] \in Seq(S)
      BY <1>1
    <2>2. /\ FlattenSeq(Begin(s, k)) = FlattenSeq(Begin(s, k - 1)) \o s[k]
          /\ FlattenSeq(Begin(s, k - 1)) \in Seq(S)
      BY <2>1, FlattenSteps
    <2> QED BY <2>1, <2>2, ConcatFacts, SeqFacts
  <1> HIDE DEF L
  <1>5. \A k \in 0 .. n : L(k) <= L(n)
    <2> DEFINE T == {k \in 0 .. n : L(n - k) <= L(n)}
    <2>1. 0 \in T
      BY <1>1, <1>2
    <2>2. ASSUME NEW k \in 1 .. n, k - 1 \in T PROVE k \in T
      <3>1. n - (k - 1) \in 1 .. n /\ (n - (k - 1)) - 1 = n - k /\ k \in 0 .. n
        BY <1>1
      <3>2. L(n - (k - 1)) = L(n - k) + Len(s[n - (k - 1)]) /\ Len(s[n - (k - 1)]) \in Nat
        BY <1>4, <3>1
      <3>3. n - k \in 0 .. n /\ L(n - k) \in Nat /\ L(n) \in Nat
        BY <1>1, <1>2
      <3> QED BY <2>2, <3>1, <3>2, <3>3
    <2>3. \A k \in 0 .. n : k \in T
      <3> HIDE DEF T
      <3> QED BY <1>1, <2>1, <2>2, Upwards
    <2>4. ASSUME NEW k \in 0 .. n PROVE L(k) <= L(n)
      <3>1. n - k \in 0 .. n /\ n - (n - k) = k
        BY <1>1
      <3> QED BY <2>3, <3>1
    <2> QED BY <2>4
  <1>6. ASSUME \A i \in 1 .. n : Len(s[i]) >= 1 PROVE n <= L(n)
    <2> DEFINE T == {k \in 0 .. n : k <= L(k)}
    <2>1. 0 \in T
      BY <1>1, <1>3
    <2>2. ASSUME NEW k \in 1 .. n, k - 1 \in T PROVE k \in T
      BY <1>2, <1>4, <1>6, <2>2
    <2>3. n \in T
      <3> HIDE DEF T
      <3> QED BY <1>1, <2>1, <2>2, Upwards
    <2> QED BY <2>3
  <1>7. ASSUME \A i \in 1 .. n : Len(s[i]) = 2 PROVE L(n) = 2 * n
    <2> DEFINE T == {k \in 0 .. n : L(k) = 2 * k}
    <2>1. 0 \in T
      BY <1>1, <1>3
    <2>2. ASSUME NEW k \in 1 .. n, k - 1 \in T PROVE k \in T
      <3>1. L(k) = L(k - 1) + Len(s[k]) /\ k \in 0 .. n
        BY <1>4
      <3>2. Len(s[k]) = 2 /\ L(k - 1) = 2 * (k - 1) /\ k \in Int
        BY <1>1, <1>7, <2>2
      <3>3. L(k) = 2 * k
        BY <3>1, <3>2
      <3> QED BY <3>1, <3>3
    <2>3. n \in T
      <3> HIDE DEF T
      <3> QED BY <1>1, <2>1, <2>2, Upwards
    <2> QED BY <2>3
  <1> QED BY <1>2, <1>3, <1>5, <1>6, <1>7 DEF L

-----------------------------------------------------------------------------
(* A number of two or of four bytes is what its bytes stand for.           *)
Values(f, b) == f = [i \in 0 .. Len(b) |-> IF i = 0 THEN 0 ELSE 256 * f[i - 1] + b[i]]

\* f goes to the value of b byte by byte.
StepsTo(f, b) ==
    /\ Value(b) = f[Len(b)] /\ f[0] = 0
    /\ \A i \in 1 .. Len(b) : f[i] = 256 * f[i - 1] + b[i]

LEMMA ValueSteps ==
    ASSUME NEW b, Len(b) \in Nat, NEW g, Values(g, b)
    PROVE  \E f : StepsTo(f, b)
  <1> DEFINE f == CHOOSE f : Values(f, b)
  <1>1. Values(f, b)
    OBVIOUS
  <1>2. Value(b) = f[Len(b)]
    BY DEF Value, Values
  <1> HIDE DEF f
  <1>3. \A i \in 0 .. Len(b) : f[i] = IF i = 0 THEN 0 ELSE 256 * f[i - 1] + b[i]
    BY <1>1 DEF Values
  <1>4. f[0] = 0 /\ \A i \in 1 .. Len(b) : f[i] = 256 * f[i - 1] + b[i]
    BY <1>3
  <1>5. StepsTo(f, b)
    BY <1>2, <1>4 DEF StepsTo
  <1> QED BY <1>5

LEMMA ValueOfTwo ==
    ASSUME NEW b, Len(b) = 2, b[1] \in Int, b[2] \in Int
    PROVE  Value(b) = 256 * b[1] + b[2]
  <1> DEFINE g == [i \in 0 .. 2 |-> CASE i = 0 -> 0
                                      [] i = 1 -> b[1]
                                      [] i = 2 -> 256 * b[1] + b[2]]
  <1>1. g[0] = 0 /\ g[1] = b[1] /\ g[2] = 256 * b[1] + b[2]
    OBVIOUS
  <1>2. g = [i \in 0 .. 2 |-> g[i]]
    OBVIOUS
  <1> HIDE DEF g
  <1>3. \A i \in 0 .. 2 : g[i] = IF i = 0 THEN 0 ELSE 256 * g[i - 1] + b[i]
    <2>1. \A i \in 0 .. 2 : i = 0 \/ i = 1 \/ i = 2
      OBVIOUS
    <2>2. g[1] = 256 * g[0] + b[1] /\ g[2] = 256 * g[1] + b[2]
      BY <1>1
    <2> QED BY <1>1, <2>1, <2>2
  <1>4. Values(g, b)
    BY <1>2, <1>3 DEF Values
  <1>5. PICK f : StepsTo(f, b)
    <2>1. Len(b) \in Nat
      OBVIOUS
    <2> QED BY <1>4, <2>1, ValueSteps
  <1>6. /\ Value(b) = f[2] /\ f[0] = 0
        /\ f[1] = 256 * f[0] + b[1] /\ f[2] = 256 * f[1] + b[2]
    <2>1. 1 \in 1 .. Len(b) /\ 2 \in 1 .. Len(b)
      OBVIOUS
    <2> QED BY <1>5, <2>1 DEF StepsTo
  <1> QED BY <1>6

LEMMA ValueOfFour ==
    ASSUME NEW b, Len(b) = 4, \A i \in 1 .. 4 : b[i] \in Int
    PROVE  Value(b) = 16777216 * b[1] + 65536 * b[2] + 256 * b[3] + b[4]
  <1> DEFINE v1 == b[1]
             v2 == 256 * v1 + b[2]
             v3 == 256 * v2 + b[3]
             v4 == 256 * v3 + b[4]
             g == [i \in 0 .. 4 |-> CASE i = 0 -> 0 [] i = 1 -> v1 [] i = 2 -> v2
                                      [] i = 3 -> v3 [] i = 4 -> v4]
  <1>1. b[1] \in Int /\ b[2] \in Int /\ b[3] \in Int /\ b[4] \in Int
    OBVIOUS
  <1>2. v4 = 16777216 * b[1] + 65536 * b[2] + 256 * b[3] + b[4]
    BY <1>1, SMT
  <1>3. /\ v1 = 256 * 0 + b[1] /\ v2 = 256 * v1 + b[2]
        /\ v3 = 256 * v2 + b[3] /\ v4 = 256 * v3 + b[4]
    BY <1>1
  <1> HIDE DEF v1, v2, v3, v4
  <1>4. g[0] = 0 /\ g[1] = v1 /\ g[2] = v2 /\ g[3] = v3 /\ g[4] = v4
    OBVIOUS
  <1>5. g = [i \in 0 .. 4 |-> g[i]]
    OBVIOUS
  <1> HIDE DEF g
  <1>6. \A i \in 0 .. 4 : g[i] = IF i = 0 THEN 0 ELSE 256 * g[i - 1] + b[i]
    <2>1. \A i \in 0 .. 4 : i = 0 \/ i = 1 \/ i = 2 \/ i = 3 \/ i = 4
      OBVIOUS
    <2>2. /\ g[1] = 256 * g[0] + b[1] /\ g[2] = 256 * g[1] + b[2]
          /\ g[3] = 256 * g[2] + b[3] /\ g[4] = 256 * g[3] + b[4]
      BY <1>3, <1>4
    <2> QED BY <1>4, <2>1, <2>2
  <1>7. Values(g, b)
    BY <1>5, <1>6 DEF Values
  <1>8. PICK f : StepsTo(f, b)
    <2>1. Len(b) \in Nat
      OBVIOUS
    <2> QED BY <1>7, <2>1, ValueSteps
  <1>9. /\ Value(b) = f[4] /\ f[0] = 0
        /\ f[1] = 256 * f[0] + b[1] /\ f[2] = 256 * f[1] + b[2]
        /\ f[3] = 256 * f[2] + b[3] /\ f[4] = 256 * f[3] + b[4]
    <2>1. /\ 1 \in 1 .. Len(b) /\ 2 \in 1 .. Len(b)
          /\ 3 \in 1 .. Len(b) /\ 4 \in 1 .. Len(b)
      OBVIOUS
    <2> QED BY <1>8, <2>1 DEF StepsTo
  <1> QED BY <1>2, <1>3, <1>9, SMT

\* What fits into so many bytes.
Holds(n, width) ==
    \/ width = 2 /\ n \in Uint16
    \/ width = 4 /\ n \in Uint32

LEMMA RangeFacts ==
    ASSUME NEW n
    PROVE  /\ n \in Byte <=> n \in Nat /\ n <= 255
           /\ n \in Uint16 <=> n \in Nat /\ n <= 65535
           /\ n \in Uint32 <=> n \in Nat /\ n \div 65536 <= 65535
           /\ BufferSize \in Nat /\ BufferSize <= 65535
  <1>1. n \in Byte <=> n \in Nat /\ n <= 255
    BY DEF Byte
  <1>2. \A m : m \in Uint16 <=> m \in Nat /\ m <= UINT16_MAX
    <2>1. UINT16_MAX \in Nat
      BY DEF UINT16_MAX
    <2> QED BY <2>1 DEF Uint16
  <1>3. n \in Nat => n \div 65536 \in Nat
    BY SMT
  <1>4. n \in Uint32 <=> n \in Nat /\ n \div 65536 \in Uint16
    BY SMT DEF Uint32
  <1>5. UINT16_MAX \in Nat
    BY DEF UINT16_MAX
  <1>6. BufferSize \in Nat /\ BufferSize <= UINT16_MAX
    BY BufferSizeAssumption, <1>5
  <1> QED BY <1>1, <1>2, <1>3, <1>4, <1>5, <1>6, SMT DEF UINT16_MAX

LEMMA BytesFacts ==
    ASSUME NEW n \in Nat, NEW width \in {2, 4}
    PROVE  /\ Bytes(n, width) \in Seq(Byte) /\ Len(Bytes(n, width)) = width
           /\ Holds(n, width) => Value(Bytes(n, width)) = n
  <1> DEFINE b == Bytes(n, width)
  <1>1. \A i \in 1 .. width : PlaceValues[width + 1 - i] \in Nat \ {0}
    BY DEF PlaceValues
  <1>2. \A i \in 1 .. width : b[i] = (n \div PlaceValues[width + 1 - i]) % 256
    BY DEF Bytes
  <1>3. \A i \in 1 .. width : b[i] \in Byte
    <2>1. \A d \in Nat \ {0} : (n \div d) % 256 \in Nat /\ (n \div d) % 256 <= 255
      OBVIOUS
    <2> QED BY <1>1, <1>2, <2>1, RangeFacts
  <1>4. b = [i \in 1 .. width |-> b[i]]
    BY DEF Bytes
  <1>5. b \in Seq(Byte) /\ Len(b) = width
    <2>1. width \in Nat
      OBVIOUS
    <2> HIDE DEF b
    <2> QED BY <1>3, <1>4, <2>1
  <1>6. ASSUME width = 2, n \in Uint16 PROVE Value(b) = n
    <2>1. PlaceValues[2] = 256 /\ PlaceValues[1] = 1
      BY SMT DEF PlaceValues
    <2>2. b[1] = (n \div 256) % 256 /\ b[2] = (n \div 1) % 256
      BY <1>2, <1>6, <2>1
    <2>3. Value(b) = 256 * b[1] + b[2]
      <3>1. b[1] \in Int /\ b[2] \in Int
        BY <1>3, <1>6, RangeFacts
      <3> HIDE DEF b
      <3> QED BY <1>5, <1>6, <3>1, ValueOfTwo
    <2>4. 256 * ((n \div 256) % 256) + ((n \div 1) % 256) = n
      <3>1. n <= 65535
        BY <1>6, RangeFacts, SMT
      <3> QED BY <3>1, SMT
    <2> QED BY <2>2, <2>3, <2>4
  <1>7. ASSUME width = 4, n \in Uint32 PROVE Value(b) = n
    <2>1. /\ PlaceValues[4] = 16777216 /\ PlaceValues[3] = 65536
          /\ PlaceValues[2] = 256 /\ PlaceValues[1] = 1
      BY SMT DEF PlaceValues
    <2>2. /\ b[1] = (n \div 16777216) % 256 /\ b[2] = (n \div 65536) % 256
          /\ b[3] = (n \div 256) % 256 /\ b[4] = (n \div 1) % 256
      BY <1>2, <1>7, <2>1, SMT
    <2>3. Value(b) = 16777216 * b[1] + 65536 * b[2] + 256 * b[3] + b[4]
      <3>1. (\A i \in 1 .. 4 : b[i] \in Int) /\ Len(b) = 4
        BY <1>3, <1>5, <1>7, RangeFacts, SMTT(30)
      <3> HIDE DEF b
      <3> QED BY <3>1, ValueOfFour
    <2>4. 16777216 * ((n \div 16777216) % 256) + 65536 * ((n \div 65536) % 256)
             + 256 * ((n \div 256) % 256) + ((n \div 1) % 256) = n
      <3>1. n \div 65536 <= 65535
        BY <1>7, RangeFacts, SMT
      <3>2. (n \div 16777216) % 256 = n \div 16777216
        BY <3>1, SMT
      <3> QED BY <3>1, <3>2, SMT
    <2> QED BY <2>2, <2>3, <2>4, SMT
  <1> QED BY <1>5, <1>6, <1>7 DEF Holds

-----------------------------------------------------------------------------
(* Bytes that stand in others from a place on, and how they are read.  The *)
(* others may hold more than bytes: nothing is said of the digest.         *)
Wide(S) == Byte \subseteq S

Stands(x, b, at) ==
    /\ at + Len(x) <= Len(b)
    /\ \A i \in 1 .. Len(x) : b[at + i] = x[i]

\* A reader that has read all so far, at a place.
Fine == TRUE
ReaderAt(b, at, value) == [bytes |-> b, at |-> at, value |-> value, ok |-> Fine]

LEMMA StandsConcat ==
    ASSUME NEW S, NEW x \in Seq(S), NEW y \in Seq(S), NEW b \in Seq(S), NEW at \in Nat,
           Stands(x \o y, b, at)
    PROVE  Stands(x, b, at) /\ Stands(y, b, at + Len(x))
  <1>1. /\ Len(x) \in Nat /\ Len(y) \in Nat /\ Len(x \o y) = Len(x) + Len(y)
        /\ \A i \in 1 .. Len(x) : (x \o y)[i] = x[i]
        /\ \A i \in 1 .. Len(y) : (x \o y)[Len(x) + i] = y[i]
    BY ConcatFacts, SeqFacts
  <1>2. Len(b) \in Nat
    BY SeqFacts
  <1> DEFINE z == x \o y
  <1>3. /\ at + (Len(x) + Len(y)) <= Len(b)
        /\ \A i \in 1 .. Len(x) + Len(y) : b[at + i] = z[i]
    BY <1>1 DEF Stands
  <1> HIDE DEF z
  <1>4. Stands(x, b, at)
    <2>1. \A i \in 1 .. Len(x) : i \in 1 .. Len(x) + Len(y)
      BY <1>1
    <2> QED BY <1>1, <1>2, <1>3, <2>1 DEF Stands, z
  <1>5. Stands(y, b, at + Len(x))
    <2>1. \A i \in 1 .. Len(y) : /\ Len(x) + i \in 1 .. Len(x) + Len(y)
                                 /\ (at + Len(x)) + i = at + (Len(x) + i)
      BY <1>1
    <2>2. \A i \in 1 .. Len(y) : z[Len(x) + i] = y[i]
      BY <1>1 DEF z
    <2> QED BY <1>1, <1>2, <1>3, <2>1, <2>2 DEF Stands
  <1> QED BY <1>4, <1>5

LEMMA StandsAt ==
    ASSUME NEW S, NEW x \in Seq(S), NEW b \in Seq(S), NEW at \in Nat, Stands(x, b, at)
    PROVE  /\ SubSeq(b, at + 1, at + Len(x)) = x
           /\ at + Len(x) <= Len(b) /\ at + Len(x) \in Nat
  <1> DEFINE n == Len(x)
             t == SubSeq(b, at + 1, at + n)
  <1>1. n \in Nat /\ Len(b) \in Nat /\ at + n <= Len(b) /\ \A i \in 1 .. n : b[at + i] = x[i]
    BY SeqFacts DEF Stands
  <1> HIDE DEF n
  <1>2. /\ t \in Seq(S) /\ Len(t) = n
        /\ \A i \in 1 .. n : t[i] = b[at + i]
    BY <1>1
  <1> HIDE DEF t
  <1>3. t = x
    <2>1. Len(t) = Len(x) /\ \A i \in 1 .. Len(t) : t[i] = x[i]
      BY <1>1, <1>2 DEF n
    <2> QED BY <1>2, <2>1, SameSequence
  <1> QED BY <1>1, <1>3 DEF n, t

LEMMA StandsFlatten ==
    ASSUME NEW S, NEW s \in Seq(Seq(S)), NEW b \in Seq(S), NEW at \in Nat,
           Stands(FlattenSeq(s), b, at)
    PROVE  \A k \in 1 .. Len(s) : Stands(s[k], b, at + Len(FlattenSeq(Begin(s, k - 1))))
  <1> DEFINE n == Len(s)
             P(k) == FlattenSeq(Begin(s, k))
             T == {d \in 0 .. n : Stands(P(n - d), b, at)}
  <1>1. n \in Nat /\ Begin(s, n) = s /\ n - 0 = n /\ 0 \in 0 .. n
    BY SeqFacts, BeginFacts
  <1>2. \A k \in 1 .. n : /\ P(k) = P(k - 1) \o s[k] /\ s[k] \in Seq(S)
                          /\ P(k - 1) \in Seq(S)
    <2>1. \A k \in 1 .. n : s[k] \in Seq(S) /\ k - 1 \in 0 .. n
      BY <1>1
    <2> QED BY <2>1, FlattenSteps
  <1>3. 0 \in T
    BY <1>1
  <1> HIDE DEF P
  <1>4. ASSUME NEW k \in 1 .. n, Stands(P(k), b, at)
        PROVE  Stands(P(k - 1), b, at) /\ Stands(s[k], b, at + Len(P(k - 1)))
    BY <1>2, <1>4, StandsConcat
  <1>5. ASSUME NEW d \in 1 .. n, d - 1 \in T PROVE d \in T
    <2>1. n - (d - 1) \in 1 .. n /\ (n - (d - 1)) - 1 = n - d /\ d \in 0 .. n
      BY <1>1
    <2>2. Stands(P(n - (d - 1)), b, at)
      BY <1>5
    <2> QED BY <1>4, <2>1, <2>2
  <1>6. \A d \in 0 .. n : d \in T
    <2> HIDE DEF T
    <2> QED BY <1>1, <1>3, <1>5, Upwards
  <1>7. ASSUME NEW k \in 1 .. n PROVE Stands(s[k], b, at + Len(P(k - 1)))
    <2>1. n - k \in 0 .. n /\ n - (n - k) = k
      BY <1>1
    <2>2. Stands(P(k), b, at)
      BY <1>6, <2>1
    <2> QED BY <1>4, <2>2
  <1> QED BY <1>7 DEF P

LEMMA ReadFacts ==
    ASSUME NEW b, NEW at \in Int, NEW value, NEW v, NEW n \in Int
    PROVE  /\ Read(ReaderAt(b, at, value), v, n) = ReaderAt(b, at + n, v)
           /\ Read(ReaderAt(b, at, value), v, 0) = ReaderAt(b, at, v)
  <1>1. ReaderAt(b, at, value).at = at
    BY DEF ReaderAt
  <1>2. [ReaderAt(b, at, value) EXCEPT !.value = v] = ReaderAt(b, at, v)
    BY DEF ReaderAt
  <1>3. ASSUME NEW m PROVE [ReaderAt(b, at, v) EXCEPT !.at = m] = ReaderAt(b, m, v)
    BY DEF ReaderAt
  <1>4. Read(ReaderAt(b, at, value), v, n) = ReaderAt(b, at + n, v)
    BY <1>1, <1>2, <1>3 DEF Read
  <1>5. Read(ReaderAt(b, at, value), v, 0) = ReaderAt(b, at, v)
    <2>1. at + 0 = at
      OBVIOUS
    <2> QED BY <1>1, <1>2, <1>3, <2>1 DEF Read
  <1> QED BY <1>4, <1>5

LEMMA TurnFacts ==
    ASSUME NEW b, NEW from \in Int, NEW before, NEW to \in Int, NEW x, NEW read, NEW item,
           read = ReaderAt(b, from, before), item = ReaderAt(b, to, x)
    PROVE  Read(item, Append(read.value, item.value), 0) = ReaderAt(b, to, Append(before, x))
  <1>1. read.value = before /\ item.value = x
    BY DEF ReaderAt
  <1>2. Read(ReaderAt(b, to, x), Append(before, x), 0) = ReaderAt(b, to, Append(before, x))
    BY ReadFacts
  <1> QED BY <1>1, <1>2

LEMMA ReadIntFacts ==
    ASSUME NEW S, Wide(S), NEW b \in Seq(S), NEW at \in Nat, NEW value,
           NEW n \in Nat, NEW width \in {2, 4}, Holds(n, width), Stands(Bytes(n, width), b, at)
    PROVE  ReadInt(ReaderAt(b, at, value), width) = ReaderAt(b, at + width, n)
  <1> DEFINE x == Bytes(n, width)
             r == ReaderAt(b, at, value)
  <1>1. x \in Seq(S) /\ Len(x) = width /\ Value(x) = n
    <2>1. x \in Seq(Byte) /\ Len(x) = width /\ Value(x) = n
      BY BytesFacts
    <2> HIDE DEF x
    <2> QED BY <2>1 DEF Wide
  <1>2. /\ SubSeq(b, at + 1, at + width) = x /\ at + width <= Len(b)
    BY <1>1, StandsAt
  <1>3. NextBytes(r, width) = x /\ Left(r) >= width
    <2>1. Len(b) \in Nat /\ width \in Nat
      BY SeqFacts
    <2>2. r.bytes = b /\ r.at = at
      BY DEF ReaderAt
    <2> HIDE DEF r, x
    <2> QED BY <1>2, <2>1, <2>2 DEF Left, NextBytes
  <1>4. Read(r, n, width) = ReaderAt(b, at + width, n)
    BY ReadFacts
  <1> HIDE DEF r, x
  <1>5. ReadInt(r, width) = ReaderAt(b, at + width, n)
    BY <1>1, <1>3, <1>4 DEF ReadInt
  <1> QED BY <1>5 DEF r

\* The bytes of the first i parts of a list take up so much room.
Passed(parts, i) == Len(FlattenSeq(Begin(parts, i)))

LEMMA PassedFacts ==
    ASSUME NEW S, NEW parts \in Seq(Seq(S))
    PROVE  /\ Passed(parts, 0) = 0 /\ Passed(parts, Len(parts)) = Len(FlattenSeq(parts))
           /\ \A i \in 0 .. Len(parts) : Passed(parts, i) \in Nat
           /\ \A i \in 1 .. Len(parts) : Passed(parts, i) = Passed(parts, i - 1) + Len(parts[i])
  <1>1. Len(parts) \in Nat /\ Begin(parts, 0) = << >> /\ Begin(parts, Len(parts)) = parts
    BY SeqFacts, BeginFacts
  <1>2. Passed(parts, 0) = 0 /\ Passed(parts, Len(parts)) = Len(FlattenSeq(parts))
    BY <1>1, FlattenFacts DEF Passed
  <1>3. \A i \in 0 .. Len(parts) : Passed(parts, i) \in Nat
    BY FlattenLengths DEF Passed
  <1>4. ASSUME NEW i \in 1 .. Len(parts)
        PROVE  Passed(parts, i) = Passed(parts, i - 1) + Len(parts[i])
    <2>1. i - 1 \in 0 .. Len(parts) /\ parts[i] \in Seq(S)
      BY <1>1
    <2> DEFINE p == FlattenSeq(Begin(parts, i - 1))
    <2>2. p \in Seq(S) /\ FlattenSeq(Begin(parts, i)) = p \o parts[i]
      BY <2>1, FlattenSteps
    <2> HIDE DEF p
    <2>3. Len(p \o parts[i]) = Len(p) + Len(parts[i])
      BY <2>1, <2>2, ConcatFacts
    <2> QED BY <2>2, <2>3 DEF Passed, p
  <1> QED BY <1>2, <1>3, <1>4

\* Where the i-th part ends, when the first begins at a place.
Place(parts, at, i) == at + Passed(parts, i)

LEMMA PlaceFacts ==
    ASSUME NEW S, NEW parts \in Seq(Seq(S)), NEW at \in Nat
    PROVE  /\ Place(parts, at, 0) = at
           /\ Place(parts, at, Len(parts)) = at + Len(FlattenSeq(parts))
           /\ \A i \in 0 .. Len(parts) : Place(parts, at, i) \in Nat
           /\ \A i \in 1 .. Len(parts) :
                 Place(parts, at, i) = Place(parts, at, i - 1) + Len(parts[i])
  <1> DEFINE q(i) == Passed(parts, i)
  <1>1. /\ q(0) = 0 /\ q(Len(parts)) = Len(FlattenSeq(parts))
        /\ \A i \in 0 .. Len(parts) : q(i) \in Nat
        /\ \A i \in 1 .. Len(parts) : q(i) = q(i - 1) + Len(parts[i])
    BY PassedFacts
  <1>2. \A i \in 1 .. Len(parts) : i - 1 \in 0 .. Len(parts) /\ Len(parts[i]) \in Nat
    BY SeqFacts
  <1>3. \A i : Place(parts, at, i) = at + q(i)
    BY DEF Place
  <1> HIDE DEF q
  <1>4. Place(parts, at, 0) = at
    BY <1>1, <1>3
  <1>5. Place(parts, at, Len(parts)) = at + Len(FlattenSeq(parts))
    BY <1>1, <1>3
  <1>6. ASSUME NEW i \in 0 .. Len(parts) PROVE Place(parts, at, i) \in Nat
    BY <1>1, <1>3
  <1>7. ASSUME NEW i \in 1 .. Len(parts)
        PROVE  Place(parts, at, i) = Place(parts, at, i - 1) + Len(parts[i])
    <2>1. q(i - 1) \in Nat /\ Len(parts[i]) \in Nat /\ q(i) = q(i - 1) + Len(parts[i])
      BY <1>1, <1>2
    <2>2. Place(parts, at, i) = at + q(i) /\ Place(parts, at, i - 1) = at + q(i - 1)
      BY <1>3
    <2> QED BY <2>1, <2>2
  <1> QED BY <1>4, <1>5, <1>6, <1>7

(* Numbers that are read one after another.                                *)
IntTurn(read, width) ==
    Read(ReadInt(read, width), Append(read.value, ReadInt(read, width).value), 0)
IntsRead(f, r, widths) ==
    f = [i \in 0 .. Len(widths) |->
           IF i = 0 THEN Read(r, << >>, 0) ELSE IntTurn(f[i - 1], widths[i])]

Ints(ns, widths, fields) ==
    /\ ns \in Seq(Nat) /\ Len(widths) = Len(ns) /\ Len(fields) = Len(ns)
    /\ \A i \in 1 .. Len(ns) : /\ widths[i] \in {2, 4} /\ Holds(ns[i], widths[i])
                              /\ fields[i] = Bytes(ns[i], widths[i])

LEMMA IntTurnFacts ==
    ASSUME NEW S, Wide(S), NEW b \in Seq(S), NEW at \in Nat, NEW v,
           NEW x \in Nat, NEW w \in {2, 4}, Holds(x, w), Stands(Bytes(x, w), b, at)
    PROVE  IntTurn(ReaderAt(b, at, v), w) = ReaderAt(b, at + w, Append(v, x))
  <1> DEFINE read == ReaderAt(b, at, v)
             item == ReadInt(read, w)
             to == at + w
  <1>1. item = ReaderAt(b, to, x)
    BY ReadIntFacts
  <1>2. at \in Int /\ to \in Int /\ read = ReaderAt(b, at, v)
    OBVIOUS
  <1> HIDE DEF read, item, to
  <1>3. Read(item, Append(read.value, item.value), 0) = ReaderAt(b, to, Append(v, x))
    BY <1>1, <1>2, TurnFacts
  <1> QED BY <1>3 DEF IntTurn, read, item, to

LEMMA ReadIntsFacts ==
    ASSUME NEW S, Wide(S), NEW b \in Seq(S), NEW at \in Nat, NEW value,
           NEW ns, NEW widths, NEW fields \in Seq(Seq(S)), Ints(ns, widths, fields),
           Stands(FlattenSeq(fields), b, at)
    PROVE  ReadInts(ReaderAt(b, at, value), widths)
              = ReaderAt(b, at + Len(FlattenSeq(fields)), ns)
  <1> DEFINE r == ReaderAt(b, at, value)
             n == Len(ns)
             p(i) == Place(fields, at, i)
             g == [i \in 0 .. n |-> ReaderAt(b, p(i), Begin(ns, i))]
             f == CHOOSE f : IntsRead(f, r, widths)
  <1> Len(widths) = n /\ Len(fields) = n /\ ns \in Seq(Nat)
    BY DEF Ints
  <1>1. n \in Nat /\ n \in 0 .. n /\ 0 \in 0 .. n /\ \A i \in 1 .. n : i \in 0 .. n /\ i - 1 \in 0 .. n
    BY SeqFacts
  <1>2. /\ p(0) = at /\ p(n) = at + Len(FlattenSeq(fields))
        /\ \A i \in 0 .. n : p(i) \in Nat
        /\ \A i \in 1 .. n : p(i) = p(i - 1) + Len(fields[i])
    BY PlaceFacts
  <1> HIDE DEF p
  <1>3. g[0] = Read(r, << >>, 0)
    <2>1. Begin(ns, 0) = << >>
      BY <1>1, BeginFacts
    <2>2. g[0] = ReaderAt(b, at, << >>)
      BY <1>1, <1>2, <2>1
    <2>3. Read(r, << >>, 0) = ReaderAt(b, at, << >>)
      BY ReadFacts
    <2> QED BY <2>2, <2>3
  <1>4. g[n] = ReaderAt(b, at + Len(FlattenSeq(fields)), ns)
    BY <1>1, <1>2, BeginFacts
  <1>5. ASSUME NEW i \in 1 .. n PROVE g[i] = IntTurn(g[i - 1], widths[i])
    <2> DEFINE v == Begin(ns, i - 1)
               x == ns[i]
               w == widths[i]
               from == p(i - 1)
    <2>1. /\ from \in Nat /\ w \in {2, 4} /\ x \in Nat /\ Holds(x, w)
          /\ fields[i] = Bytes(x, w) /\ i - 1 \in 0 .. n /\ i \in 0 .. n
      <3>1. i - 1 \in 0 .. n /\ i \in 0 .. n /\ x \in Nat
        BY <1>1
      <3> QED BY <1>2, <3>1 DEF Ints
    <2>2. Stands(Bytes(x, w), b, from)
      BY <2>1, StandsFlatten DEF Passed, Place, p
    <2>3. g[i - 1] = ReaderAt(b, from, v)
      BY <2>1
    <2>4. g[i] = ReaderAt(b, from + w, Append(v, x))
      <3>1. p(i) = from + w
        <4>1. Len(Bytes(x, w)) = w
          BY <2>1, BytesFacts
        <4> QED BY <1>2, <2>1, <4>1
      <3>2. Begin(ns, i) = Append(v, x)
        <4>1. i > 0 /\ i \in 0 .. Len(ns)
          BY <1>1
        <4> QED BY <4>1, BeginFacts
      <3> QED BY <2>1, <3>1, <3>2
    <2> HIDE DEF v, g, x, w, from
    <2>5. IntTurn(ReaderAt(b, from, v), w) = ReaderAt(b, from + w, Append(v, x))
      BY <2>1, <2>2, IntTurnFacts, SMTT(30)
    <2> QED BY <2>3, <2>4, <2>5 DEF w
  <1>6. IntsRead(g, r, widths)
    <2>1. g = [i \in 0 .. n |-> g[i]]
      OBVIOUS
    <2> HIDE DEF g, r
    <2>2. \A i \in 0 .. n : g[i] = IF i = 0 THEN Read(r, << >>, 0)
                                  ELSE IntTurn(g[i - 1], widths[i])
      <3>1. \A i \in 0 .. n : i # 0 => i \in 1 .. n
        BY <1>1
      <3> QED BY <1>3, <1>5, <3>1
    <2>3. g = [i \in 0 .. n |-> IF i = 0 THEN Read(r, << >>, 0)
                                ELSE IntTurn(g[i - 1], widths[i])]
      BY <2>1, <2>2
    <2> QED BY <2>3 DEF IntsRead
  <1>7. IntsRead(f, r, widths)
    <2> HIDE DEF g, r
    <2> QED BY <1>6
  <1>8. ReadInts(r, widths) = f[n]
    BY DEF ReadInts, ReadSeq, IntsRead, IntTurn
  <1> HIDE DEF f, g, r
  <1>9. f[0] = g[0] /\ \A i \in 1 .. n : f[i] = IntTurn(f[i - 1], widths[i])
    <2>1. \A i \in 0 .. n : f[i] = IF i = 0 THEN Read(r, << >>, 0)
                                  ELSE IntTurn(f[i - 1], widths[i])
      BY <1>7 DEF IntsRead
    <2>2. \A i \in 1 .. n : i # 0
      BY <1>1
    <2> QED BY <1>1, <1>3, <2>1, <2>2
  <1>10. f[n] = g[n]
    <2>1. \A i \in 1 .. n : f[i - 1] = g[i - 1] => f[i] = g[i]
      BY <1>5, <1>9
    <2> HIDE DEF n
    <2> QED BY <1>1, <1>9, <2>1, SameAlong
  <1> QED BY <1>4, <1>8, <1>10 DEF r

-----------------------------------------------------------------------------
(* The fields of a node, of a message and of a list: how much room they    *)
(* take, and that they are read as they were written.                      *)
LEMMA Widen ==
    ASSUME NEW S, Wide(S)
    PROVE  /\ \A x \in Seq(Byte) : x \in Seq(S)
           /\ \A x \in Seq(Seq(Byte)) : x \in Seq(Seq(S))
  <1>1. \A x \in Seq(Byte) : x \in Seq(S)
    BY DEF Wide
  <1> DEFINE E == Seq(Byte)
             F == Seq(S)
  <1>2. E \subseteq F
    BY <1>1
  <1>3. \A x \in Seq(E) : x \in Seq(F)
    <2> HIDE DEF E, F
    <2> QED BY <1>2
  <1> QED BY <1>1, <1>3

LEMMA ShortLists ==
    ASSUME NEW S, NEW parts \in Seq(Seq(S))
    PROVE  /\ Len(parts) = 2 => Len(FlattenSeq(parts)) = Len(parts[1]) + Len(parts[2])
           /\ Len(parts) = 3 => Len(FlattenSeq(parts))
                                   = Len(parts[1]) + Len(parts[2]) + Len(parts[3])
  <1>1. /\ Passed(parts, 0) = 0 /\ Passed(parts, Len(parts)) = Len(FlattenSeq(parts))
        /\ \A i \in 1 .. Len(parts) : Passed(parts, i) = Passed(parts, i - 1) + Len(parts[i])
    BY PassedFacts
  <1>2. \A i \in 1 .. Len(parts) : Len(parts[i]) \in Nat
    BY SeqFacts
  <1>3. CASE Len(parts) = 2
    <2>1. Passed(parts, 1) = 0 + Len(parts[1]) /\ Passed(parts, 2) = Passed(parts, 1) + Len(parts[2])
      <3>1. 1 \in 1 .. Len(parts) /\ 2 \in 1 .. Len(parts) /\ 1 - 1 = 0 /\ 2 - 1 = 1
        BY <1>3
      <3> QED BY <1>1, <3>1
    <2>2. Len(parts[1]) \in Nat /\ Len(parts[2]) \in Nat
      BY <1>2, <1>3
    <2> QED BY <1>1, <1>3, <2>1, <2>2
  <1>4. CASE Len(parts) = 3
    <2>1. /\ Passed(parts, 1) = 0 + Len(parts[1])
          /\ Passed(parts, 2) = Passed(parts, 1) + Len(parts[2])
          /\ Passed(parts, 3) = Passed(parts, 2) + Len(parts[3])
      <3>1. /\ 1 \in 1 .. Len(parts) /\ 2 \in 1 .. Len(parts) /\ 3 \in 1 .. Len(parts)
            /\ 1 - 1 = 0 /\ 2 - 1 = 1 /\ 3 - 1 = 2
        BY <1>4
      <3> QED BY <1>1, <3>1
    <2>2. Len(parts[1]) \in Nat /\ Len(parts[2]) \in Nat /\ Len(parts[3]) \in Nat
      BY <1>2, <1>4
    <2> QED BY <1>1, <1>4, <2>1, <2>2
  <1> QED BY <1>3, <1>4

LEMMA PartsFit ==
    ASSUME NEW S, NEW parts \in Seq(Seq(S))
    PROVE  /\ Len(FlattenSeq(parts)) \in Nat
           /\ \A i \in 1 .. Len(parts) : Len(parts[i]) <= Len(FlattenSeq(parts))
  <1>1. Len(FlattenSeq(parts)) \in Nat
    BY FlattenFacts, SeqFacts
  <1>2. ASSUME NEW i \in 1 .. Len(parts) PROVE Len(parts[i]) <= Len(FlattenSeq(parts))
    <2>1. i \in 0 .. Len(parts) /\ i - 1 \in 0 .. Len(parts) /\ Len(parts[i]) \in Nat
      BY SeqFacts
    <2>2. Passed(parts, i) = Passed(parts, i - 1) + Len(parts[i]) /\ Passed(parts, i - 1) \in Nat
      BY <2>1, PassedFacts
    <2>3. Passed(parts, i) <= Len(FlattenSeq(parts))
      BY <2>1, FlattenLengths DEF Passed
    <2> QED BY <1>1, <2>1, <2>2, <2>3
  <1> QED BY <1>1, <1>2

\* The fields of a node, but for its jumps; and these.
NodeHead(node) == <<Bytes(node.id, 2), Bytes(node.address, 4), Bytes(Len(node.jumps), 2)>>
Jumps(node) == [j \in DOMAIN node.jumps |-> Bytes(node.jumps[j], 2)]

LEMMA NodeFieldsFacts ==
    ASSUME NEW node \in Nodes
    PROVE  /\ NodeHead(node) \in Seq(Seq(Byte)) /\ Len(FlattenSeq(NodeHead(node))) = 8
           /\ Jumps(node) \in Seq(Seq(Byte)) /\ Len(Jumps(node)) = Len(node.jumps)
           /\ \A j \in 1 .. Len(node.jumps) : Jumps(node)[j] = Bytes(node.jumps[j], 2)
           /\ NodeFields(node) \in Seq(Seq(Byte))
           /\ FlattenSeq(NodeFields(node)) = FlattenSeq(NodeHead(node)) \o FlattenSeq(Jumps(node))
           /\ FlattenSeq(NodeFields(node)) \in Seq(Byte)
           /\ Len(FlattenSeq(NodeFields(node))) = 8 + 2 * Len(node.jumps)
  <1> DEFINE head == NodeHead(node)
             jumps == Jumps(node)
             n == Len(node.jumps)
  <1>1. /\ node.id \in Nat /\ node.address \in Nat /\ node.jumps \in Seq(Uint16)
        /\ n \in Nat /\ DOMAIN node.jumps = 1 .. n /\ \A j \in 1 .. n : node.jumps[j] \in Nat
    <2>1. node.id \in Uint16 /\ node.address \in Uint32 /\ node.jumps \in Seq(Uint16)
      BY DEF Nodes
    <2>2. n \in Nat /\ DOMAIN node.jumps = 1 .. n /\ \A j \in 1 .. n : node.jumps[j] \in Uint16
      BY <2>1, SeqFacts
    <2> QED BY <2>1, <2>2, RangeFacts
  <1>2. head \in Seq(Seq(Byte)) /\ Len(FlattenSeq(head)) = 8
    <2> DEFINE x == Bytes(node.id, 2)
               y == Bytes(node.address, 4)
               z == Bytes(n, 2)
    <2>1. /\ x \in Seq(Byte) /\ y \in Seq(Byte) /\ z \in Seq(Byte)
          /\ Len(x) = 2 /\ Len(y) = 4 /\ Len(z) = 2
      BY <1>1, BytesFacts
    <2>2. head = <<x, y, z>>
      BY DEF NodeHead
    <2> DEFINE E == Seq(Byte)
    <2>3. x \in E /\ y \in E /\ z \in E
      BY <2>1
    <2> HIDE DEF x, y, z, E, head
    <2>4. /\ head \in Seq(E) /\ Len(head) = 3
          /\ head[1] = x /\ head[2] = y /\ head[3] = z
      BY <2>2, <2>3
    <2>5. Len(FlattenSeq(head)) = Len(x) + Len(y) + Len(z)
      BY <2>4, ShortLists DEF E
    <2> QED BY <2>1, <2>4, <2>5 DEF E
  <1>3. /\ jumps \in Seq(Seq(Byte)) /\ Len(jumps) = n
        /\ \A j \in 1 .. n : jumps[j] = Bytes(node.jumps[j], 2) /\ Len(jumps[j]) = 2
    <2>1. \A j \in 1 .. n : /\ Bytes(node.jumps[j], 2) \in Seq(Byte)
                            /\ Len(Bytes(node.jumps[j], 2)) = 2
      BY <1>1, BytesFacts
    <2>2. jumps = [j \in 1 .. n |-> Bytes(node.jumps[j], 2)]
      BY <1>1 DEF Jumps
    <2> DEFINE E == Seq(Byte)
    <2> HIDE DEF jumps, E, n
    <2>3. \A j \in 1 .. n : Bytes(node.jumps[j], 2) \in E
      BY <2>1 DEF E
    <2>4. jumps \in Seq(E) /\ Len(jumps) = n
      BY <1>1, <2>2, <2>3
    <2> QED BY <2>1, <2>2, <2>4 DEF E
  <1>4. NodeFields(node) = head \o jumps
    BY DEF NodeFields, NodeHead, Jumps
  <1> HIDE DEF head, jumps
  <1>5. /\ head \o jumps \in Seq(Seq(Byte))
        /\ FlattenSeq(head \o jumps) = FlattenSeq(head) \o FlattenSeq(jumps)
    BY <1>2, <1>3, FlattenConcat, ConcatFacts
  <1>6. /\ FlattenSeq(head) \in Seq(Byte) /\ FlattenSeq(jumps) \in Seq(Byte)
        /\ Len(FlattenSeq(jumps)) = 2 * n
    BY <1>2, <1>3, FlattenFacts, FlattenLengths
  <1> DEFINE c == FlattenSeq(head)
             d == FlattenSeq(jumps)
  <1> HIDE DEF c, d
  <1>7. c \o d \in Seq(Byte) /\ Len(c \o d) = Len(c) + Len(d)
    BY <1>6, ConcatFacts DEF c, d
  <1>8. Len(c \o d) = 8 + 2 * n
    BY <1>2, <1>6, <1>7 DEF c, d
  <1> QED BY <1>2, <1>3, <1>4, <1>5, <1>7, <1>8 DEF c, d, head, jumps

LEMMA NodeInts ==
    ASSUME NEW node \in Nodes, Len(node.jumps) \in Uint16
    PROVE  /\ Ints(<<node.id, node.address, Len(node.jumps)>>, <<2, 4, 2>>, NodeHead(node))
           /\ Ints(node.jumps, [j \in 1 .. Len(node.jumps) |-> 2], Jumps(node))
  <1> DEFINE n == Len(node.jumps)
             ns == <<node.id, node.address, n>>
             ws == <<2, 4, 2>>
             head == NodeHead(node)
             twos == [j \in 1 .. n |-> 2]
  <1>1. /\ node.id \in Uint16 /\ node.address \in Uint32 /\ node.jumps \in Seq(Uint16)
        /\ node.id \in Nat /\ node.address \in Nat /\ n \in Nat
        /\ \A j \in 1 .. n : node.jumps[j] \in Uint16 /\ node.jumps[j] \in Nat
    <2>1. node.id \in Uint16 /\ node.address \in Uint32 /\ node.jumps \in Seq(Uint16)
      BY DEF Nodes
    <2>2. n \in Nat /\ \A j \in 1 .. n : node.jumps[j] \in Uint16
      BY <2>1, SeqFacts
    <2> QED BY <2>1, <2>2, RangeFacts
  <1>2. Ints(ns, ws, head)
    <2>1. /\ ns \in Seq(Nat) /\ Len(ns) = 3 /\ ns[1] = node.id /\ ns[2] = node.address /\ ns[3] = n
      BY <1>1
    <2>2. Len(ws) = 3 /\ ws[1] = 2 /\ ws[2] = 4 /\ ws[3] = 2
      OBVIOUS
    <2>3. /\ Len(head) = 3 /\ head[1] = Bytes(node.id, 2) /\ head[2] = Bytes(node.address, 4)
          /\ head[3] = Bytes(n, 2)
      BY DEF NodeHead
    <2> HIDE DEF ns, ws, head
    <2>4. \A i \in 1 .. Len(ns) : i = 1 \/ i = 2 \/ i = 3
      BY <2>1
    <2>5. Holds(node.id, 2) /\ Holds(node.address, 4) /\ Holds(n, 2)
      BY <1>1 DEF Holds
    <2>6. \A i \in 1 .. Len(ns) : /\ ws[i] \in {2, 4} /\ Holds(ns[i], ws[i])
                                  /\ head[i] = Bytes(ns[i], ws[i])
      <3> SUFFICES ASSUME NEW i \in 1 .. Len(ns)
                   PROVE  ws[i] \in {2, 4} /\ Holds(ns[i], ws[i]) /\ head[i] = Bytes(ns[i], ws[i])
        OBVIOUS
      <3>1. CASE i = 1
        BY <2>1, <2>2, <2>3, <2>5, <3>1
      <3>2. CASE i = 2
        BY <2>1, <2>2, <2>3, <2>5, <3>2
      <3>3. CASE i = 3
        BY <2>1, <2>2, <2>3, <2>5, <3>3
      <3> QED BY <2>4, <3>1, <3>2, <3>3
    <2> QED BY <2>1, <2>2, <2>3, <2>6 DEF Ints
  <1>3. Ints(node.jumps, twos, Jumps(node))
    <2>1. Len(Jumps(node)) = n /\ \A j \in 1 .. n : Jumps(node)[j] = Bytes(node.jumps[j], 2)
      BY NodeFieldsFacts
    <2>2. Len(twos) = n /\ \A j \in 1 .. n : twos[j] = 2
      BY <1>1
    <2>3. \A j \in 1 .. n : Holds(node.jumps[j], 2)
      BY <1>1 DEF Holds
    <2>4. node.jumps \in Seq(Nat)
      <3> DEFINE s == node.jumps
      <3>1. s \in Seq(Uint16) /\ \A j \in 1 .. Len(s) : s[j] \in Nat
        BY <1>1
      <3> HIDE DEF s
      <3>2. s = [j \in 1 .. Len(s) |-> s[j]] /\ Len(s) \in Nat
        BY <3>1
      <3>3. s \in Seq(Nat)
        BY <3>1, <3>2
      <3> QED BY <3>3 DEF s
    <2> HIDE DEF twos
    <2>5. \A j \in 1 .. n : /\ twos[j] \in {2, 4} /\ Holds(node.jumps[j], twos[j])
                            /\ Jumps(node)[j] = Bytes(node.jumps[j], twos[j])
      BY <2>1, <2>2, <2>3
    <2> QED BY <2>1, <2>2, <2>4, <2>5 DEF Ints
  <1> QED BY <1>2, <1>3

LEMMA ReadNodeFacts ==
    ASSUME NEW S, Wide(S), NEW b \in Seq(S), NEW at \in Nat, NEW value,
           NEW node \in Nodes, Len(node.jumps) \in Uint16,
           Stands(FlattenSeq(NodeFields(node)), b, at)
    PROVE  ReadNode(ReaderAt(b, at, value))
              = ReaderAt(b, at + Len(FlattenSeq(NodeFields(node))), node)
  <1> DEFINE head == NodeHead(node)
             jumps == Jumps(node)
             n == Len(node.jumps)
             r == ReaderAt(b, at, value)
             ns == <<node.id, node.address, n>>
             ws == <<2, 4, 2>>
             twos == [j \in 1 .. n |-> 2]
             c == FlattenSeq(head)
             d == FlattenSeq(jumps)
  <1>1. head \in Seq(Seq(S)) /\ jumps \in Seq(Seq(S))
    <2>1. head \in Seq(Seq(Byte)) /\ jumps \in Seq(Seq(Byte))
      BY NodeFieldsFacts
    <2> HIDE DEF head, jumps
    <2> QED BY <2>1, Widen
  <1>2. Ints(ns, ws, head) /\ Ints(node.jumps, twos, jumps)
    BY NodeInts
  <1>3. c \in Seq(S) /\ d \in Seq(S)
    <2> HIDE DEF head, jumps
    <2> QED BY <1>1, FlattenFacts
  <1>4. Len(c) = 8 /\ FlattenSeq(NodeFields(node)) = c \o d
    BY NodeFieldsFacts
  <1> DEFINE end == at + 8 + Len(d)
  <1>5. /\ Len(d) \in Nat /\ at + Len(FlattenSeq(NodeFields(node))) = end
        /\ Stands(c, b, at) /\ Stands(d, b, at + 8)
    <2> HIDE DEF c, d
    <2>1. Len(c \o d) = 8 + Len(d) /\ Len(d) \in Nat
      <3>1. Len(c \o d) = Len(c) + Len(d)
        BY <1>3, ConcatFacts
      <3>2. Len(d) \in Nat
        BY <1>3, SeqFacts
      <3> QED BY <1>4, <3>1, <3>2
    <2>2. Stands(c \o d, b, at)
      BY <1>4
    <2>3. Stands(c, b, at) /\ Stands(d, b, at + 8)
      BY <1>3, <1>4, <2>2, StandsConcat
    <2> QED BY <1>4, <2>1, <2>3
  <1> HIDE DEF head, jumps, ns, ws, twos
  <1>6. ReadInts(r, ws) = ReaderAt(b, at + 8, ns)
    <2>1. ReadInts(r, ws) = ReaderAt(b, at + Len(FlattenSeq(head)), ns)
      BY <1>1, <1>2, <1>5, ReadIntsFacts
    <2> QED BY <1>4, <2>1
  <1>7. ReadInts(ReaderAt(b, at + 8, ns), twos) = ReaderAt(b, end, node.jumps)
    <2>1. at + 8 \in Nat
      OBVIOUS
    <2>2. ReadInts(ReaderAt(b, at + 8, ns), twos)
             = ReaderAt(b, (at + 8) + Len(FlattenSeq(jumps)), node.jumps)
      BY <1>1, <1>2, <1>5, <2>1, ReadIntsFacts
    <2> QED BY <2>2
  <1>8. ns[1] = node.id /\ ns[2] = node.address /\ ns[3] = n
    BY DEF ns
  <1>9. node = [id |-> node.id, address |-> node.address, jumps |-> node.jumps]
    BY DEF Nodes
  <1> DEFINE first == ReadInts(r, ws)
             second == ReadInts(first, [j \in 1 .. first.value[3] |-> 2])
  <1>10. first = ReaderAt(b, at + 8, ns) /\ first.value = ns
    <2>1. first = ReaderAt(b, at + 8, ns)
      BY <1>6
    <2> HIDE DEF first
    <2> QED BY <2>1 DEF ReaderAt
  <1>11. second = ReaderAt(b, end, node.jumps) /\ second.value = node.jumps
    <2>1. [j \in 1 .. first.value[3] |-> 2] = twos
      <3> HIDE DEF first
      <3> QED BY <1>8, <1>10 DEF twos
    <2>2. second = ReaderAt(b, end, node.jumps)
      <3> HIDE DEF first
      <3> QED BY <1>7, <1>10, <2>1
    <2> HIDE DEF second
    <2> QED BY <2>2 DEF ReaderAt
  <1>12. Read(ReaderAt(b, end, node.jumps), node, 0) = ReaderAt(b, end, node)
    <2>1. end \in Int
      BY <1>5
    <2> HIDE DEF end
    <2> QED BY <2>1, ReadFacts
  <1>13. ReadNode(r) = Read(second, [id |-> first.value[1], address |-> first.value[2],
                                    jumps |-> second.value], 0)
    BY DEF ReadNode, ws
  <1> HIDE DEF first, second, r, end
  <1>14. ReadNode(r) = Read(second, node, 0)
    BY <1>8, <1>9, <1>10, <1>11, <1>13
  <1> QED BY <1>5, <1>11, <1>12, <1>14 DEF r, end

LEMMA SmallerFits ==
    ASSUME NEW n \in Nat, NEW m \in Uint16, n <= m
    PROVE  n \in Uint16 /\ n \in Uint32
  <1>1. n <= 65535
    <2>1. m \in Nat /\ m <= 65535
      BY RangeFacts, SMT
    <2> QED BY <2>1, SMT
  <1>2. n \div 65536 <= 65535
    BY <1>1, SMT
  <1> QED BY <1>1, <1>2, RangeFacts, SMT

\* The fields of the nodes, and the bytes of each node.
NodeParts(nodes) == [i \in DOMAIN nodes |-> NodeFields(nodes[i])]
NodeBytes(nodes) == [i \in 1 .. Len(nodes) |-> FlattenSeq(NodeFields(nodes[i]))]

LEMMA NodesFacts ==
    ASSUME NEW nodes \in Seq(Nodes)
    PROVE  /\ NodeBytes(nodes) \in Seq(Seq(Byte)) /\ Len(NodeBytes(nodes)) = Len(nodes)
           /\ \A i \in 1 .. Len(nodes) :
                 /\ NodeBytes(nodes)[i] = FlattenSeq(NodeFields(nodes[i]))
                 /\ Len(NodeBytes(nodes)[i]) = 8 + 2 * Len(nodes[i].jumps)
           /\ FlattenSeq(NodeParts(nodes)) \in Seq(Seq(Byte))
           /\ FlattenSeq(FlattenSeq(NodeParts(nodes))) = FlattenSeq(NodeBytes(nodes))
           /\ Sum([i \in DOMAIN nodes |-> 8 + 2 * Len(nodes[i].jumps)])
                 = Len(FlattenSeq(NodeBytes(nodes)))
  <1> DEFINE n == Len(nodes)
             parts == NodeParts(nodes)
             bytes == NodeBytes(nodes)
             sizes == [i \in DOMAIN nodes |-> 8 + 2 * Len(nodes[i].jumps)]
             E == Seq(Byte)
             F == Seq(Seq(Byte))
  <1>1. n \in Nat /\ DOMAIN nodes = 1 .. n /\ \A i \in 1 .. n : nodes[i] \in Nodes
    BY SeqFacts
  <1>2. \A i \in 1 .. n : /\ NodeFields(nodes[i]) \in F
                          /\ FlattenSeq(NodeFields(nodes[i])) \in E
                          /\ Len(FlattenSeq(NodeFields(nodes[i]))) = 8 + 2 * Len(nodes[i].jumps)
    BY <1>1, NodeFieldsFacts
  <1> HIDE DEF E, F
  <1>3. /\ parts = [i \in 1 .. n |-> NodeFields(nodes[i])]
        /\ bytes = [i \in 1 .. n |-> FlattenSeq(NodeFields(nodes[i]))]
        /\ sizes = [i \in 1 .. n |-> 8 + 2 * Len(nodes[i].jumps)]
    BY <1>1 DEF NodeParts, NodeBytes
  <1> HIDE DEF parts, bytes, sizes, n
  <1>4. /\ parts \in Seq(F) /\ Len(parts) = n
        /\ \A i \in 1 .. n : parts[i] = NodeFields(nodes[i])
    BY <1>1, <1>2, <1>3
  <1>5. /\ bytes \in Seq(E) /\ Len(bytes) = n
        /\ \A i \in 1 .. n : bytes[i] = FlattenSeq(NodeFields(nodes[i]))
    BY <1>1, <1>2, <1>3
  <1>6. Len(sizes) = n /\ \A i \in 1 .. n : sizes[i] = 8 + 2 * Len(nodes[i].jumps)
    BY <1>1, <1>3
  <1>7. FlattenSeq(parts) \in Seq(E) /\ FlattenSeq(FlattenSeq(parts)) = FlattenSeq(bytes)
    <2>1. Flattened(parts, bytes)
      BY <1>4, <1>5 DEF Flattened
    <2>2. parts \in Seq(F) /\ bytes \in Seq(E)
      BY <1>4, <1>5
    <2> QED BY <2>1, <2>2, FlattenTwice DEF E, F
  <1>8. Sum(sizes) = Len(FlattenSeq(bytes))
    <2>1. \A i \in 1 .. Len(bytes) : sizes[i] = Len(bytes[i])
      BY <1>2, <1>5, <1>6
    <2> QED BY <1>5, <1>6, <2>1, SumOfLengths DEF E
  <1> QED BY <1>2, <1>5, <1>7, <1>8 DEF E, parts, bytes, sizes, n

(* Nodes that are read one after another.                                  *)
NodeTurn(read) == Read(ReadNode(read), Append(read.value, ReadNode(read).value), 0)
NodesRead(f, r, n) ==
    f = [i \in 0 .. n |-> IF i = 0 THEN Read(r, << >>, 0) ELSE NodeTurn(f[i - 1])]

LEMMA NodeTurnFacts ==
    ASSUME NEW S, Wide(S), NEW b \in Seq(S), NEW at \in Nat, NEW v,
           NEW node \in Nodes, Len(node.jumps) \in Uint16,
           Stands(FlattenSeq(NodeFields(node)), b, at)
    PROVE  NodeTurn(ReaderAt(b, at, v))
              = ReaderAt(b, at + Len(FlattenSeq(NodeFields(node))), Append(v, node))
  <1> DEFINE read == ReaderAt(b, at, v)
             item == ReadNode(read)
             to == at + Len(FlattenSeq(NodeFields(node)))
  <1>1. item = ReaderAt(b, to, node)
    BY ReadNodeFacts
  <1>2. at \in Int /\ to \in Int /\ read = ReaderAt(b, at, v)
    <2>1. FlattenSeq(NodeFields(node)) \in Seq(Byte)
      BY NodeFieldsFacts
    <2>2. Len(FlattenSeq(NodeFields(node))) \in Nat
      BY <2>1, SeqFacts
    <2> QED BY <2>2
  <1> HIDE DEF read, item, to
  <1>3. Read(item, Append(read.value, item.value), 0) = ReaderAt(b, to, Append(v, node))
    BY <1>1, <1>2, TurnFacts
  <1> QED BY <1>3 DEF NodeTurn, read, item, to

LEMMA ReadNodesFacts ==
    ASSUME NEW S, Wide(S), NEW b \in Seq(S), NEW at \in Nat, NEW value,
           NEW nodes \in Seq(Nodes), Len(FlattenSeq(NodeBytes(nodes))) \in Uint16,
           Stands(FlattenSeq(NodeBytes(nodes)), b, at)
    PROVE  ReadNodes(ReaderAt(b, at, value), Len(nodes))
              = ReaderAt(b, at + Len(FlattenSeq(NodeBytes(nodes))), nodes)
  <1> DEFINE r == ReaderAt(b, at, value)
             n == Len(nodes)
             fields == NodeBytes(nodes)
             p(i) == Place(fields, at, i)
             g == [i \in 0 .. n |-> ReaderAt(b, p(i), Begin(nodes, i))]
             f == CHOOSE f : NodesRead(f, r, n)
  <1>1. n \in Nat /\ n \in 0 .. n /\ 0 \in 0 .. n /\ \A i \in 1 .. n : i \in 0 .. n /\ i - 1 \in 0 .. n
    BY SeqFacts
  <1>2. fields \in Seq(Seq(S)) /\ Len(fields) = n
    <2>1. fields \in Seq(Seq(Byte)) /\ Len(fields) = n
      BY NodesFacts
    <2> HIDE DEF fields
    <2> QED BY <2>1, Widen
  <1>3. /\ p(0) = at /\ p(n) = at + Len(FlattenSeq(fields))
        /\ \A i \in 0 .. n : p(i) \in Nat
        /\ \A i \in 1 .. n : p(i) = p(i - 1) + Len(fields[i])
    <2> HIDE DEF fields
    <2> QED BY <1>2, PlaceFacts
  <1> HIDE DEF p
  <1>4. g[0] = Read(r, << >>, 0)
    <2>1. Begin(nodes, 0) = << >>
      BY <1>1, BeginFacts
    <2>2. g[0] = ReaderAt(b, at, << >>)
      BY <1>1, <1>3, <2>1
    <2>3. Read(r, << >>, 0) = ReaderAt(b, at, << >>)
      BY ReadFacts
    <2> QED BY <2>2, <2>3
  <1>5. g[n] = ReaderAt(b, at + Len(FlattenSeq(fields)), nodes)
    BY <1>1, <1>3, BeginFacts
  <1>6. ASSUME NEW i \in 1 .. n PROVE g[i] = NodeTurn(g[i - 1])
    <2> DEFINE v == Begin(nodes, i - 1)
               x == nodes[i]
               from == p(i - 1)
               l == Len(FlattenSeq(NodeFields(x)))
    <2>1. /\ from \in Nat /\ x \in Nodes /\ i - 1 \in 0 .. n /\ i \in 0 .. n
          /\ fields[i] = FlattenSeq(NodeFields(x)) /\ Len(fields[i]) = 8 + 2 * Len(x.jumps)
      <3>1. i - 1 \in 0 .. n /\ i \in 0 .. n /\ x \in Nodes
        BY <1>1
      <3> QED BY <1>3, <3>1, NodesFacts
    <2>2. Stands(FlattenSeq(NodeFields(x)), b, from)
      <3> HIDE DEF fields
      <3>1. \A k \in 1 .. Len(fields) :
               Stands(fields[k], b, at + Len(FlattenSeq(Begin(fields, k - 1))))
        BY <1>2, StandsFlatten DEF fields
      <3> QED BY <1>2, <2>1, <3>1 DEF Passed, Place, p
    <2>3. Len(x.jumps) \in Uint16
      <3> HIDE DEF fields
      <3>1. Len(fields[i]) <= Len(FlattenSeq(fields))
        BY <1>2, PartsFit
      <3>2. Len(x.jumps) \in Nat
        BY <2>1, SeqFacts DEF Nodes
      <3>3. Len(FlattenSeq(fields)) \in Uint16 /\ Len(FlattenSeq(fields)) \in Nat
        BY <1>2, PartsFit DEF fields
      <3>4. Len(x.jumps) <= Len(FlattenSeq(fields))
        BY <2>1, <3>1, <3>2, <3>3
      <3> QED BY <3>2, <3>3, <3>4, SmallerFits
    <2>4. g[i - 1] = ReaderAt(b, from, v)
      BY <2>1
    <2>5. g[i] = ReaderAt(b, from + l, Append(v, x))
      <3>1. p(i) = from + l
        BY <1>3, <2>1
      <3>2. Begin(nodes, i) = Append(v, x)
        <4>1. i > 0 /\ i \in 0 .. Len(nodes)
          BY <1>1
        <4> QED BY <4>1, BeginFacts
      <3> QED BY <2>1, <3>1, <3>2
    <2> HIDE DEF v, g, x, from
    <2>6. NodeTurn(ReaderAt(b, from, v)) = ReaderAt(b, from + l, Append(v, x))
      <3>1. from \in Nat /\ x \in Nodes
        BY <2>1
      <3> QED BY <2>2, <2>3, <3>1, NodeTurnFacts
    <2> QED BY <2>4, <2>5, <2>6
  <1>7. NodesRead(g, r, n)
    <2>1. g = [i \in 0 .. n |-> g[i]]
      OBVIOUS
    <2> HIDE DEF g, r, n
    <2>2. \A i \in 0 .. n : g[i] = IF i = 0 THEN Read(r, << >>, 0) ELSE NodeTurn(g[i - 1])
      <3>1. \A i \in 0 .. n : i # 0 => i \in 1 .. n
        BY <1>1
      <3> QED BY <1>4, <1>6, <3>1
    <2>3. g = [i \in 0 .. n |-> IF i = 0 THEN Read(r, << >>, 0) ELSE NodeTurn(g[i - 1])]
      BY <2>1, <2>2
    <2> QED BY <2>3 DEF NodesRead
  <1>8. NodesRead(f, r, n)
    <2> HIDE DEF g, r, n
    <2> QED BY <1>7
  <1>9. ReadNodes(r, n) = f[n]
    BY DEF ReadNodes, ReadSeq, NodesRead, NodeTurn
  <1> HIDE DEF f, g, r, n
  <1>10. f[0] = g[0] /\ \A i \in 1 .. n : f[i] = NodeTurn(f[i - 1])
    <2>1. \A i \in 0 .. n : f[i] = IF i = 0 THEN Read(r, << >>, 0) ELSE NodeTurn(f[i - 1])
      BY <1>8 DEF NodesRead
    <2>2. \A i \in 1 .. n : i # 0
      BY <1>1
    <2> QED BY <1>1, <1>4, <2>1, <2>2
  <1>11. f[n] = g[n]
    <2>1. \A i \in 1 .. n : f[i - 1] = g[i - 1] => f[i] = g[i]
      BY <1>6, <1>10
    <2> QED BY <1>1, <1>10, <2>1, SameAlong
  <1> QED BY <1>5, <1>9, <1>11 DEF r, n

\* Two numbers: the form of every head.
Pair(x, v, y, w) == <<Bytes(x, v), Bytes(y, w)>>

LEMMA PairFields ==
    ASSUME NEW x \in Nat, NEW y \in Nat, NEW v \in {2, 4}, NEW w \in {2, 4}
    PROVE  /\ Pair(x, v, y, w) \in Seq(Seq(Byte))
           /\ FlattenSeq(Pair(x, v, y, w)) \in Seq(Byte)
           /\ Len(FlattenSeq(Pair(x, v, y, w))) = v + w
  <1> DEFINE a == Bytes(x, v)
             c == Bytes(y, w)
             pair == Pair(x, v, y, w)
             E == Seq(Byte)
  <1>1. a \in E /\ c \in E /\ Len(a) = v /\ Len(c) = w
    BY BytesFacts
  <1>2. pair = <<a, c>>
    BY DEF Pair
  <1> HIDE DEF a, c, pair, E
  <1>3. pair \in Seq(E) /\ Len(pair) = 2 /\ pair[1] = a /\ pair[2] = c
    BY <1>1, <1>2
  <1>4. Len(FlattenSeq(pair)) = Len(a) + Len(c)
    BY <1>3, ShortLists DEF E
  <1>5. FlattenSeq(pair) \in Seq(Byte)
    BY <1>3, FlattenFacts DEF E
  <1> QED BY <1>1, <1>3, <1>4, <1>5 DEF pair, E

LEMMA PairRead ==
    ASSUME NEW S, Wide(S), NEW b \in Seq(S), NEW at \in Nat, NEW value,
           NEW x \in Nat, NEW y \in Nat, NEW v \in {2, 4}, NEW w \in {2, 4},
           Holds(x, v), Holds(y, w), Stands(FlattenSeq(Pair(x, v, y, w)), b, at)
    PROVE  ReadInts(ReaderAt(b, at, value), <<v, w>>) = ReaderAt(b, at + (v + w), <<x, y>>)
  <1> DEFINE ns == <<x, y>>
             ws == <<v, w>>
             pair == Pair(x, v, y, w)
  <1>1. ns \in Seq(Nat) /\ Len(ns) = 2 /\ ns[1] = x /\ ns[2] = y
    OBVIOUS
  <1>2. Len(ws) = 2 /\ ws[1] = v /\ ws[2] = w
    OBVIOUS
  <1>3. Len(pair) = 2 /\ pair[1] = Bytes(x, v) /\ pair[2] = Bytes(y, w)
    BY DEF Pair
  <1>4. pair \in Seq(Seq(Byte)) /\ Len(FlattenSeq(pair)) = v + w
    BY PairFields
  <1> HIDE DEF ns, ws, pair
  <1>5. Ints(ns, ws, pair)
    <2> SUFFICES ASSUME NEW i \in 1 .. Len(ns)
                 PROVE  ws[i] \in {2, 4} /\ Holds(ns[i], ws[i]) /\ pair[i] = Bytes(ns[i], ws[i])
      BY <1>1, <1>2, <1>3 DEF Ints
    <2>1. i = 1 \/ i = 2
      BY <1>1
    <2>2. CASE i = 1
      BY <1>1, <1>2, <1>3, <2>2
    <2>3. CASE i = 2
      BY <1>1, <1>2, <1>3, <2>3
    <2> QED BY <2>1, <2>2, <2>3
  <1>6. pair \in Seq(Seq(S))
    BY <1>4, Widen
  <1>7. Stands(FlattenSeq(pair), b, at)
    BY DEF pair
  <1>8. ReadInts(ReaderAt(b, at, value), ws) = ReaderAt(b, at + Len(FlattenSeq(pair)), ns)
    BY <1>5, <1>6, <1>7, ReadIntsFacts
  <1> QED BY <1>4, <1>8 DEF ns, ws

\* The bytes after the head of a message.
NodesBody(id, nodes) == FlattenSeq(Pair(id, 2, Len(nodes), 2)) \o FlattenSeq(NodeBytes(nodes))
DataBody(id, data) == FlattenSeq(Pair(id, 2, Len(data), 2)) \o data

LEMMA BodyFacts ==
    ASSUME NEW id \in Uint16
    PROVE  /\ \A nodes \in Seq(Nodes) :
                 /\ FlattenSeq(NodeBytes(nodes)) \in Seq(Byte)
                 /\ NodesBody(id, nodes) \in Seq(Byte)
                 /\ Len(NodesBody(id, nodes)) = 4 + Len(FlattenSeq(NodeBytes(nodes)))
           /\ \A data \in Seq(Byte) :
                 /\ DataBody(id, data) \in Seq(Byte)
                 /\ Len(DataBody(id, data)) = 4 + Len(data)
  <1>1. ASSUME NEW n \in Nat, NEW x \in Seq(Byte)
        PROVE  /\ FlattenSeq(Pair(id, 2, n, 2)) \o x \in Seq(Byte)
               /\ Len(FlattenSeq(Pair(id, 2, n, 2)) \o x) = 4 + Len(x)
    <2> DEFINE c == FlattenSeq(Pair(id, 2, n, 2))
    <2>1. id \in Nat
      BY RangeFacts
    <2>2. c \in Seq(Byte) /\ Len(c) = 2 + 2
      BY <2>1, PairFields
    <2> HIDE DEF c
    <2>3. c \o x \in Seq(Byte) /\ Len(c \o x) = Len(c) + Len(x)
      BY <2>2, ConcatFacts
    <2>4. Len(x) \in Nat /\ Len(c) = 4
      BY <2>2, SeqFacts
    <2> QED BY <2>3, <2>4 DEF c
  <1>2. ASSUME NEW nodes \in Seq(Nodes)
        PROVE  /\ FlattenSeq(NodeBytes(nodes)) \in Seq(Byte)
               /\ NodesBody(id, nodes) \in Seq(Byte)
               /\ Len(NodesBody(id, nodes)) = 4 + Len(FlattenSeq(NodeBytes(nodes)))
    <2>1. NodeBytes(nodes) \in Seq(Seq(Byte)) /\ Len(nodes) \in Nat
      BY NodesFacts, SeqFacts
    <2>2. FlattenSeq(NodeBytes(nodes)) \in Seq(Byte)
      BY <2>1, FlattenFacts
    <2> QED BY <1>1, <2>1, <2>2 DEF NodesBody
  <1>3. ASSUME NEW data \in Seq(Byte)
        PROVE  DataBody(id, data) \in Seq(Byte) /\ Len(DataBody(id, data)) = 4 + Len(data)
    <2>1. Len(data) \in Nat
      BY SeqFacts
    <2> QED BY <1>1, <2>1 DEF DataBody
  <1> QED BY <1>2, <1>3

\* What stands somewhere leaves so many bytes to a reader in front of it.
LEMMA LeftFacts ==
    ASSUME NEW S, NEW b \in Seq(S), NEW at \in Nat, NEW x \in Seq(S), Stands(x, b, at), NEW value
    PROVE  Left(ReaderAt(b, at, value)) >= Len(x)
  <1>1. Left(ReaderAt(b, at, value)) = Len(b) - at
    BY DEF Left, ReaderAt
  <1>2. at + Len(x) <= Len(b) /\ Len(x) \in Nat /\ Len(b) \in Nat
    BY SeqFacts DEF Stands
  <1> QED BY <1>1, <1>2

LEMMA ReadDiscoveryFacts ==
    ASSUME NEW S, Wide(S), NEW b \in Seq(S), NEW at \in Nat, NEW value,
           NEW id \in Uint16, NEW nodes \in Seq(Nodes), Len(NodesBody(id, nodes)) \in Uint16,
           Stands(NodesBody(id, nodes), b, at)
    PROVE  ReadDiscovery(ReaderAt(b, at, value))
              = ReaderAt(b, at + Len(NodesBody(id, nodes)),
                         [type |-> DiscoveryType, id |-> id, nodes |-> nodes])
  <1> DEFINE r == ReaderAt(b, at, value)
             n == Len(nodes)
             c == FlattenSeq(Pair(id, 2, n, 2))
             d == FlattenSeq(NodeBytes(nodes))
             ns == <<id, n>>
             message == [type |-> DiscoveryType, id |-> id, nodes |-> nodes]
             end == at + 4 + Len(d)
  <1>1. /\ id \in Nat /\ n \in Nat /\ c \in Seq(Byte) /\ Len(c) = 4
        /\ d \in Seq(Byte) /\ Len(d) \in Nat /\ Len(NodesBody(id, nodes)) = 4 + Len(d)
    <2>1. id \in Nat /\ n \in Nat
      BY RangeFacts, SeqFacts
    <2>2. c \in Seq(Byte) /\ Len(c) = 2 + 2
      BY <2>1, PairFields
    <2>3. d \in Seq(Byte) /\ Len(NodesBody(id, nodes)) = 4 + Len(d)
      BY BodyFacts
    <2> HIDE DEF d
    <2>4. Len(d) \in Nat
      BY <2>3, SeqFacts
    <2> QED BY <2>1, <2>2, <2>3, <2>4
  <1>2. Stands(c, b, at) /\ Stands(d, b, at + 4)
    <2>1. Stands(c \o d, b, at)
      BY DEF NodesBody
    <2> HIDE DEF c, d
    <2>2. c \in Seq(S) /\ d \in Seq(S)
      BY <1>1, Widen
    <2> QED BY <1>1, <2>1, <2>2, StandsConcat
  <1>3. n \in Uint16 /\ Len(d) \in Uint16
    <2>1. n <= Len(d)
      <3> DEFINE x == NodeBytes(nodes)
      <3>1. x \in Seq(Seq(Byte)) /\ Len(x) = n
        BY NodesFacts
      <3>2. \A i \in 1 .. n : Len(x[i]) >= 1
        <4> SUFFICES ASSUME NEW i \in 1 .. n PROVE Len(x[i]) >= 1
          OBVIOUS
        <4>1. nodes[i] \in Nodes
          BY SeqFacts
        <4>2. Len(nodes[i].jumps) \in Nat
          BY <4>1, SeqFacts DEF Nodes
        <4>3. Len(x[i]) = 8 + 2 * Len(nodes[i].jumps)
          BY NodesFacts
        <4> QED BY <4>2, <4>3
      <3> HIDE DEF x
      <3>3. Len(x) <= Len(FlattenSeq(x))
        BY <3>1, <3>2, FlattenLengths
      <3> QED BY <3>1, <3>3 DEF x
    <2> DEFINE l == Len(NodesBody(id, nodes))
    <2>2. l \in Uint16 /\ l = 4 + Len(d)
      BY <1>1
    <2> HIDE DEF d, l, n
    <2>3. n <= l /\ Len(d) <= l
      BY <1>1, <2>1, <2>2
    <2> QED BY <1>1, <2>2, <2>3, SmallerFits
  <1>4. ReadInts(r, <<2, 2>>) = ReaderAt(b, at + 4, ns)
    <2>1. Holds(id, 2) /\ Holds(n, 2)
      BY <1>3 DEF Holds
    <2>2. ReadInts(r, <<2, 2>>) = ReaderAt(b, at + (2 + 2), ns)
      BY <1>1, <1>2, <2>1, PairRead
    <2> QED BY <2>2
  <1>5. ReadNodes(ReaderAt(b, at + 4, ns), n) = ReaderAt(b, end, nodes)
    <2>1. at + 4 \in Nat
      OBVIOUS
    <2>2. ReadNodes(ReaderAt(b, at + 4, ns), n) = ReaderAt(b, (at + 4) + Len(d), nodes)
      <3> HIDE DEF ns
      <3> QED BY <1>2, <1>3, <2>1, ReadNodesFacts
    <2> QED BY <2>2
  <1>6. ~ (Left(r) < 4)
    <2>1. Left(r) >= Len(c)
      <3>1. c \in Seq(S)
        BY <1>1, Widen
      <3> QED BY <1>2, <3>1, LeftFacts
    <2>2. Left(r) \in Int
      <3>1. Left(r) = Len(b) - at
        BY DEF Left, ReaderAt
      <3> HIDE DEF r
      <3> QED BY <3>1, SeqFacts
    <2> HIDE DEF r, c
    <2> QED BY <1>1, <2>1, <2>2
  <1>7. ns[1] = id /\ ns[2] = n
    OBVIOUS
  <1> HIDE DEF ns, end, message
  <1> DEFINE head == ReadInts(r, <<2, 2>>)
             read == ReadNodes(head, head.value[2])
  <1>8. head = ReaderAt(b, at + 4, ns) /\ head.value = ns
    <2>1. head = ReaderAt(b, at + 4, ns)
      BY <1>4
    <2> HIDE DEF head
    <2> QED BY <2>1 DEF ReaderAt
  <1>9. read = ReaderAt(b, end, nodes) /\ read.value = nodes
    <2>1. read = ReaderAt(b, end, nodes)
      <3> HIDE DEF head
      <3> QED BY <1>5, <1>7, <1>8
    <2> HIDE DEF read
    <2> QED BY <2>1 DEF ReaderAt
  <1>10. Read(ReaderAt(b, end, nodes), message, 0) = ReaderAt(b, end, message)
    <2>1. end \in Int
      BY <1>1 DEF end
    <2> QED BY <2>1, ReadFacts
  <1>11. ReadDiscovery(r) = IF Left(r) < 4 THEN Fail(r)
                            ELSE Read(read, [type |-> DiscoveryType, id |-> head.value[1],
                                             nodes |-> read.value], 0)
    BY DEF ReadDiscovery
  <1> HIDE DEF head, read, r
  <1>12. ReadDiscovery(r) = ReaderAt(b, end, message)
    <2>1. [type |-> DiscoveryType, id |-> head.value[1], nodes |-> read.value] = message
      BY <1>7, <1>8, <1>9 DEF message
    <2> QED BY <1>6, <1>9, <1>10, <1>11, <2>1
  <1>13. end = at + Len(NodesBody(id, nodes))
    BY <1>1 DEF end
  <1> QED BY <1>12, <1>13 DEF r, message

LEMMA ReadDataFacts ==
    ASSUME NEW S, Wide(S), NEW b \in Seq(S), NEW at \in Nat, NEW value,
           NEW id \in Uint16, NEW data \in Seq(Byte), Len(DataBody(id, data)) \in Uint16,
           Stands(DataBody(id, data), b, at), at + Len(DataBody(id, data)) < Len(b)
    PROVE  ReadData(ReaderAt(b, at, value))
              = ReaderAt(b, at + Len(DataBody(id, data)),
                         [type |-> DataType, id |-> id, data |-> data])
  <1> DEFINE r == ReaderAt(b, at, value)
             n == Len(data)
             c == FlattenSeq(Pair(id, 2, n, 2))
             ns == <<id, n>>
             message == [type |-> DataType, id |-> id, data |-> data]
             end == at + 4 + n
  <1>1. /\ id \in Nat /\ n \in Nat /\ c \in Seq(Byte) /\ Len(c) = 4
        /\ Len(DataBody(id, data)) = 4 + n
    <2>1. id \in Nat /\ n \in Nat
      BY RangeFacts, SeqFacts
    <2>2. c \in Seq(Byte) /\ Len(c) = 2 + 2
      BY <2>1, PairFields
    <2>3. Len(DataBody(id, data)) = 4 + n
      BY BodyFacts
    <2> QED BY <2>1, <2>2, <2>3
  <1>2. data \in Seq(S) /\ c \in Seq(S)
    BY <1>1, Widen
  <1>3. Stands(c, b, at) /\ Stands(data, b, at + 4)
    <2>1. Stands(c \o data, b, at)
      BY DEF DataBody
    <2> HIDE DEF c
    <2> QED BY <1>1, <1>2, <2>1, StandsConcat
  <1>4. n \in Uint16
    <2> DEFINE l == Len(DataBody(id, data))
    <2>1. l \in Uint16 /\ l = 4 + n
      BY <1>1
    <2> HIDE DEF l, n
    <2>2. n <= l
      BY <1>1, <2>1
    <2> QED BY <1>1, <2>1, <2>2, SmallerFits
  <1>5. ReadInts(r, <<2, 2>>) = ReaderAt(b, at + 4, ns)
    <2>1. Holds(id, 2) /\ Holds(n, 2)
      BY <1>4 DEF Holds
    <2>2. ReadInts(r, <<2, 2>>) = ReaderAt(b, at + (2 + 2), ns)
      BY <1>1, <1>3, <2>1, PairRead
    <2> QED BY <2>2
  <1>6. ReadBuffer(ReaderAt(b, at + 4, ns), n) = ReaderAt(b, end, data)
    <2> DEFINE h == ReaderAt(b, at + 4, ns)
    <2>1. h.bytes = b /\ h.at = at + 4
      BY DEF ReaderAt
    <2>2. SubSeq(b, (at + 4) + 1, (at + 4) + n) = data
      <3>1. at + 4 \in Nat
        OBVIOUS
      <3> QED BY <1>2, <1>3, <3>1, StandsAt
    <2>3. Read(h, data, n) = ReaderAt(b, (at + 4) + n, data)
      <3>1. at + 4 \in Int /\ n \in Int
        BY <1>1
      <3> HIDE DEF ns, n
      <3> QED BY <3>1, ReadFacts
    <2>4. n >= 0 /\ Left(h) > n
      <3>1. at + (4 + n) < Len(b) /\ Len(b) \in Nat
        BY <1>1, SeqFacts
      <3> HIDE DEF h, n
      <3>2. Left(h) = Len(b) - (at + 4)
        BY <2>1 DEF Left
      <3> QED BY <1>1, <3>1, <3>2
    <2>5. NextBytes(h, n) = data
      <3> HIDE DEF h, n
      <3> QED BY <2>1, <2>2 DEF NextBytes
    <2> HIDE DEF h, n, ns
    <2>6. ReadBuffer(h, n) = Read(h, data, n)
      BY <2>4, <2>5 DEF ReadBuffer
    <2> QED BY <1>1, <2>3, <2>6 DEF h
  <1>7. ~ (Left(r) < 4)
    <2>1. Left(r) >= Len(c)
      BY <1>2, <1>3, LeftFacts
    <2>2. Left(r) \in Int
      <3>1. Left(r) = Len(b) - at
        BY DEF Left, ReaderAt
      <3> HIDE DEF r
      <3> QED BY <3>1, SeqFacts
    <2> HIDE DEF r, c
    <2> QED BY <1>1, <2>1, <2>2
  <1>8. ns[1] = id /\ ns[2] = n
    OBVIOUS
  <1> HIDE DEF ns, end, message
  <1> DEFINE head == ReadInts(r, <<2, 2>>)
             read == ReadBuffer(head, head.value[2])
  <1>9. head = ReaderAt(b, at + 4, ns) /\ head.value = ns
    <2>1. head = ReaderAt(b, at + 4, ns)
      BY <1>5
    <2> HIDE DEF head
    <2> QED BY <2>1 DEF ReaderAt
  <1>10. read = ReaderAt(b, end, data) /\ read.value = data
    <2>1. read = ReaderAt(b, end, data)
      <3> HIDE DEF head
      <3> QED BY <1>6, <1>8, <1>9
    <2> HIDE DEF read
    <2> QED BY <2>1 DEF ReaderAt
  <1>11. Read(ReaderAt(b, end, data), message, 0) = ReaderAt(b, end, message)
    <2>1. end \in Int
      BY <1>1 DEF end
    <2> QED BY <2>1, ReadFacts
  <1>12. ReadData(r) = IF Left(r) < 4 THEN Fail(r)
                       ELSE Read(read, [type |-> DataType, id |-> head.value[1],
                                        data |-> read.value], 0)
    BY DEF ReadData
  <1> HIDE DEF head, read, r
  <1>13. ReadData(r) = ReaderAt(b, end, message)
    <2>1. [type |-> DataType, id |-> head.value[1], data |-> read.value] = message
      BY <1>8, <1>9, <1>10 DEF message
    <2> QED BY <1>7, <1>10, <1>11, <1>12, <2>1
  <1>14. end = at + Len(DataBody(id, data))
    BY <1>1 DEF end
  <1> QED BY <1>13, <1>14 DEF r, message

\* The messages there are, and the bytes after their header.
Messages == DiscoveryMessages \cup DataMessages
Body(m) == IF m.type = DiscoveryType THEN NodesBody(m.id, m.nodes) ELSE DataBody(m.id, m.data)

LEMMA MessageTypes ==
    ASSUME NEW m \in Messages
    PROVE  /\ m.id \in Uint16 /\ m.type \in Uint16
           /\ \/ /\ m.type = DiscoveryType /\ m.nodes \in Seq(Nodes)
                 /\ m = [type |-> DiscoveryType, id |-> m.id, nodes |-> m.nodes]
              \/ /\ m.type # DiscoveryType /\ m.data \in Seq(Byte)
                 /\ m = [type |-> m.type, id |-> m.id, data |-> m.data]
           /\ Body(m) \in Seq(Byte) /\ Len(Body(m)) \in Nat
           /\ EncodedSize(m) = 6 + Len(Body(m))
  <1>1. DiscoveryType \in Uint16
    <2>1. 0 \in Nat /\ 1 \in Nat /\ 1 <= 65535
      BY SMT
    <2>2. 1 \in Uint16
      BY <2>1, RangeFacts, SMT
    <2> QED BY <2>2 DEF DiscoveryType
  <1>2. CASE m \in DiscoveryMessages
    <2>1. /\ m.type = DiscoveryType /\ m.id \in Uint16 /\ m.nodes \in Seq(Nodes)
          /\ m = [type |-> m.type, id |-> m.id, nodes |-> m.nodes]
      BY <1>2 DEF DiscoveryMessages
    <2>2. /\ Body(m) = NodesBody(m.id, m.nodes) /\ Body(m) \in Seq(Byte)
          /\ Len(Body(m)) = 4 + Len(FlattenSeq(NodeBytes(m.nodes)))
      BY <2>1, BodyFacts DEF Body
    <2>3. Len(Body(m)) \in Nat /\ Len(FlattenSeq(NodeBytes(m.nodes))) \in Nat
      <3>1. FlattenSeq(NodeBytes(m.nodes)) \in Seq(Byte)
        BY <2>1, BodyFacts
      <3> QED BY <2>2, <3>1, SeqFacts
    <2>4. EncodedSize(m) = 6 + 4 + Len(FlattenSeq(NodeBytes(m.nodes)))
      <3>1. Sum([i \in DOMAIN m.nodes |-> 8 + 2 * Len(m.nodes[i].jumps)])
               = Len(FlattenSeq(NodeBytes(m.nodes)))
        BY <2>1, NodesFacts
      <3> QED BY <2>1, <3>1 DEF EncodedSize, DiscoverySize, MessageHeaderSize
    <2>5. EncodedSize(m) = 6 + Len(Body(m))
      BY <2>2, <2>3, <2>4
    <2> QED BY <1>1, <2>1, <2>2, <2>3, <2>5
  <1>3. CASE m \in DataMessages
    <2>1. /\ m.type \in Uint16 /\ m.type # DiscoveryType /\ m.id \in Uint16 /\ m.data \in Seq(Byte)
          /\ m = [type |-> m.type, id |-> m.id, data |-> m.data]
      BY <1>3 DEF DataMessages
    <2>2. /\ Body(m) \in Seq(Byte) /\ Len(Body(m)) = 4 + Len(m.data)
      BY <2>1, BodyFacts DEF Body
    <2>3. Len(Body(m)) \in Nat /\ Len(m.data) \in Nat
      BY <2>1, <2>2, SeqFacts
    <2>4. EncodedSize(m) = 6 + 4 + Len(m.data)
      BY <2>1 DEF EncodedSize, DataSize, MessageHeaderSize
    <2>5. EncodedSize(m) = 6 + Len(Body(m))
      BY <2>2, <2>3, <2>4
    <2> QED BY <2>1, <2>2, <2>3, <2>5
  <1> QED BY <1>2, <1>3 DEF Messages

LEMMA ThreeParts ==
    ASSUME NEW S, NEW x \in Seq(S), NEW y \in Seq(S), NEW z \in Seq(S)
    PROVE  /\ <<x, y, z>> \in Seq(Seq(S))
           /\ FlattenSeq(<<x, y, z>>) = FlattenSeq(<<x, y>>) \o z
  <1> DEFINE E == Seq(S)
             two == <<x, y>>
             three == <<x, y, z>>
  <1>1. x \in E /\ y \in E /\ z \in E
    OBVIOUS
  <1> HIDE DEF E
  <1>2. /\ two \in Seq(E) /\ Len(two) = 2 /\ two[1] = x /\ two[2] = y
        /\ three \in Seq(E) /\ Len(three) = 3 /\ three[1] = x /\ three[2] = y /\ three[3] = z
    BY <1>1
  <1> HIDE DEF two, three
  <1>3. Begin(three, 3) = three
    <2>1. Len(three) \in 0 .. Len(three)
      BY <1>2
    <2> QED BY <1>2, <2>1, BeginFacts
  <1>4. Begin(three, 2) = two
    <2> DEFINE t == Begin(three, 2)
    <2>1. t \in Seq(E) /\ Len(t) = 2 /\ \A i \in 1 .. 2 : t[i] = three[i]
      <3>1. 2 \in 0 .. Len(three) /\ three \in Seq(E)
        BY <1>2
      <3>2. /\ Begin(three, 2) \in Seq(E) /\ Len(Begin(three, 2)) = 2
            /\ \A i \in 1 .. 2 : Begin(three, 2)[i] = three[i]
        BY <3>1, BeginFacts
      <3> QED BY <3>2
    <2> HIDE DEF t
    <2>2. Len(t) = Len(two) /\ \A i \in 1 .. Len(t) : t[i] = two[i]
      <3>1. t[1] = x /\ t[2] = y
        BY <1>2, <2>1
      <3>2. \A i \in 1 .. Len(t) : i = 1 \/ i = 2
        BY <2>1
      <3> QED BY <1>2, <2>1, <3>1, <3>2
    <2>3. t = two
      BY <1>2, <2>1, <2>2, SameSequence
    <2> QED BY <2>3 DEF t
  <1>5. FlattenSeq(Begin(three, 3)) = FlattenSeq(Begin(three, 3 - 1)) \o three[3]
    <2>1. 3 \in 1 .. Len(three)
      BY <1>2
    <2>2. \A k \in 1 .. Len(three) :
             FlattenSeq(Begin(three, k)) = FlattenSeq(Begin(three, k - 1)) \o three[k]
      BY <1>2, FlattenSteps DEF E
    <2> QED BY <2>1, <2>2
  <1>6. 3 - 1 = 2
    OBVIOUS
  <1> QED BY <1>2, <1>3, <1>4, <1>5, <1>6 DEF E, two, three

LEMMA FieldsFacts ==
    ASSUME NEW m \in Messages
    PROVE  /\ Fields(m) \in Seq(Seq(Byte)) /\ FlattenSeq(Fields(m)) \in Seq(Byte)
           /\ FlattenSeq(Fields(m)) = FlattenSeq(Pair(EncodedSize(m), 4, m.type, 2)) \o Body(m)
           /\ EncodedSize(m) \in Nat /\ Len(FlattenSeq(Fields(m))) = EncodedSize(m)
  <1> DEFINE h == Pair(EncodedSize(m), 4, m.type, 2)
             E == Seq(Byte)
  <1>1. EncodedSize(m) \in Nat /\ m.type \in Nat /\ m.id \in Nat
    <2>1. /\ m.type \in Uint16 /\ m.id \in Uint16
          /\ Len(Body(m)) \in Nat /\ EncodedSize(m) = 6 + Len(Body(m))
      BY MessageTypes
    <2>2. m.type \in Nat /\ m.id \in Nat
      BY <2>1, RangeFacts
    <2> QED BY <2>1, <2>2
  <1>2. h \in Seq(E) /\ FlattenSeq(h) \in Seq(Byte) /\ Len(FlattenSeq(h)) = 4 + 2
    BY <1>1, PairFields
  <1>3. HeaderFields(m) = h
    BY DEF HeaderFields, Pair
  <1> HIDE DEF h, E
  <1>4. /\ Fields(m) \in Seq(E)
        /\ FlattenSeq(Fields(m)) = FlattenSeq(h) \o Body(m)
    <2>1. CASE m.type = DiscoveryType
      <3> DEFINE p == Pair(m.id, 2, Len(m.nodes), 2)
                 q == FlattenSeq(NodeParts(m.nodes))
      <3>1. m.nodes \in Seq(Nodes)
        BY <2>1, MessageTypes
      <3>2. p \in Seq(E) /\ FlattenSeq(p) \in Seq(Byte)
        <4>1. Len(m.nodes) \in Nat
          BY <3>1, SeqFacts
        <4> QED BY <1>1, <4>1, PairFields DEF E
      <3>3. /\ q \in Seq(E) /\ FlattenSeq(q) = FlattenSeq(NodeBytes(m.nodes))
            /\ FlattenSeq(q) \in Seq(Byte)
        <4>1. q \in Seq(E) /\ FlattenSeq(q) = FlattenSeq(NodeBytes(m.nodes))
          BY <3>1, NodesFacts DEF E
        <4> HIDE DEF q
        <4> QED BY <4>1, FlattenFacts DEF E
      <3>4. Fields(m) = (h \o p) \o q
        <4>1. q = FlattenSeq([i \in DOMAIN m.nodes |-> NodeFields(m.nodes[i])])
          BY DEF NodeParts
        <4> HIDE DEF q
        <4> QED BY <1>3, <2>1, <4>1 DEF Fields, DiscoveryFields, Pair
      <3>5. Body(m) = FlattenSeq(p) \o FlattenSeq(q)
        BY <2>1, <3>3 DEF Body, NodesBody
      <3> HIDE DEF p, q
      <3> DEFINE hp == h \o p
      <3>6. hp \in Seq(E) /\ FlattenSeq(hp) = FlattenSeq(h) \o FlattenSeq(p)
        <4>1. hp \in Seq(E)
          BY <1>2, <3>2, ConcatFacts
        <4>2. FlattenSeq(hp) = FlattenSeq(h) \o FlattenSeq(p)
          BY <1>2, <3>2, FlattenConcat DEF E
        <4> QED BY <4>1, <4>2
      <3> HIDE DEF hp
      <3>7. hp \o q \in Seq(E) /\ FlattenSeq(hp \o q) = FlattenSeq(hp) \o FlattenSeq(q)
        <4>1. hp \o q \in Seq(E)
          BY <3>3, <3>6, ConcatFacts
        <4>2. FlattenSeq(hp \o q) = FlattenSeq(hp) \o FlattenSeq(q)
          BY <3>3, <3>6, FlattenConcat DEF E
        <4> QED BY <4>1, <4>2
      <3>8. (FlattenSeq(h) \o FlattenSeq(p)) \o FlattenSeq(q)
               = FlattenSeq(h) \o (FlattenSeq(p) \o FlattenSeq(q))
        BY <1>2, <3>2, <3>3, ConcatAssociates, SMTT(30)
      <3> QED BY <3>4, <3>5, <3>6, <3>7, <3>8 DEF hp
    <2>2. CASE m.type # DiscoveryType
      <3> DEFINE x == Bytes(m.id, 2)
                 y == Bytes(Len(m.data), 2)
                 p == <<x, y>>
                 q == <<x, y, m.data>>
      <3>1. m.data \in Seq(Byte) /\ Len(m.data) \in Nat
        <4>1. m.data \in Seq(Byte)
          BY <2>2, MessageTypes
        <4> QED BY <4>1, SeqFacts
      <3>2. x \in Seq(Byte) /\ y \in Seq(Byte)
        BY <1>1, <3>1, BytesFacts
      <3>3. p = Pair(m.id, 2, Len(m.data), 2)
        BY DEF Pair
      <3>4. q \in Seq(E) /\ FlattenSeq(q) = FlattenSeq(p) \o m.data
        <4> HIDE DEF x, y
        <4> QED BY <3>1, <3>2, ThreeParts DEF E
      <3>5. Fields(m) = h \o q
        BY <1>3, <2>2 DEF Fields, DataFields
      <3>6. Body(m) = FlattenSeq(p) \o m.data
        BY <2>2, <3>3 DEF Body, DataBody
      <3> HIDE DEF x, y, p, q
      <3>7. h \o q \in Seq(E)
        BY <1>2, <3>4, ConcatFacts
      <3>8. FlattenSeq(h \o q) = FlattenSeq(h) \o FlattenSeq(q)
        BY <1>2, <3>4, FlattenConcat DEF E
      <3> QED BY <3>4, <3>5, <3>6, <3>7, <3>8
    <2> QED BY <2>1, <2>2
  <1>5. Body(m) \in Seq(Byte) /\ EncodedSize(m) = 6 + Len(Body(m)) /\ Len(Body(m)) \in Nat
    BY MessageTypes
  <1> DEFINE c == FlattenSeq(h)
             d == Body(m)
  <1>6. c \in Seq(Byte) /\ d \in Seq(Byte) /\ Len(c) = 6
    BY <1>2, <1>5
  <1> HIDE DEF c, d
  <1>7. c \o d \in Seq(Byte) /\ Len(c \o d) = Len(c) + Len(d)
    BY <1>6, ConcatFacts
  <1>8. Len(c \o d) = EncodedSize(m)
    BY <1>5, <1>6, <1>7 DEF d
  <1> QED BY <1>1, <1>4, <1>7, <1>8 DEF c, d, h, E

LEMMA ReadMessageFacts ==
    ASSUME NEW S, Wide(S), NEW b \in Seq(S), NEW at \in Nat, NEW value,
           NEW m \in Messages, m.type \in {DiscoveryType, DataType},
           EncodedSize(m) \in Uint16, Stands(FlattenSeq(Fields(m)), b, at),
           at + EncodedSize(m) < Len(b)
    PROVE  ReadMessage(ReaderAt(b, at, value)) = ReaderAt(b, at + EncodedSize(m), m)
  <1> DEFINE r == ReaderAt(b, at, value)
             c == FlattenSeq(Pair(EncodedSize(m), 4, m.type, 2))
             d == Body(m)
             ns == <<EncodedSize(m), m.type>>
             size == EncodedSize(m)
  <1>1. /\ m.id \in Uint16 /\ m.type \in Uint16 /\ m.type \in Nat /\ size \in Nat
        /\ d \in Seq(Byte) /\ Len(d) \in Nat /\ size = 6 + Len(d)
    <2>1. /\ m.id \in Uint16 /\ m.type \in Uint16
          /\ d \in Seq(Byte) /\ Len(d) \in Nat /\ size = 6 + Len(d)
      BY MessageTypes
    <2>2. m.type \in Nat
      BY <2>1, RangeFacts
    <2> QED BY <2>1, <2>2
  <1>2. c \in Seq(Byte) /\ Len(c) = 6 /\ FlattenSeq(Fields(m)) = c \o d
    <2>1. c \in Seq(Byte) /\ Len(c) = 4 + 2
      BY <1>1, PairFields
    <2>2. FlattenSeq(Fields(m)) = c \o d
      BY FieldsFacts
    <2> QED BY <2>1, <2>2
  <1>3. c \in Seq(S) /\ d \in Seq(S)
    <2> HIDE DEF c, d
    <2> QED BY <1>1, <1>2, Widen
  <1>4. Stands(c, b, at) /\ Stands(d, b, at + 6)
    <2>1. Stands(c \o d, b, at)
      BY <1>2
    <2> HIDE DEF c, d
    <2> QED BY <1>2, <1>3, <2>1, StandsConcat
  <1>5. ReadInts(r, <<4, 2>>) = ReaderAt(b, at + 6, ns)
    <2>1. size \in Uint32
      <3>1. size <= size
        BY <1>1
      <3> HIDE DEF size
      <3> QED BY <1>1, <3>1, SmallerFits DEF size
    <2>2. Holds(size, 4) /\ Holds(m.type, 2)
      BY <1>1, <2>1 DEF Holds
    <2>3. ReadInts(r, <<4, 2>>) = ReaderAt(b, at + (4 + 2), ns)
      BY <1>1, <1>4, <2>2, PairRead
    <2> QED BY <2>3
  <1>6. Left(r) >= MessageHeaderSize /\ ~ (Left(r) < MessageHeaderSize)
    <2>1. Left(r) >= Len(c)
      BY <1>3, <1>4, LeftFacts
    <2>2. Left(r) \in Int
      <3>1. Left(r) = Len(b) - at
        BY DEF Left, ReaderAt
      <3> HIDE DEF r
      <3> QED BY <3>1, SeqFacts
    <2> HIDE DEF r, c
    <2> QED BY <1>2, <2>1, <2>2 DEF MessageHeaderSize
  <1> DEFINE header == ReadInts(r, <<4, 2>>)
  <1>7. header = ReaderAt(b, at + 6, ns) /\ header.value[2] = m.type
    <2>1. header = ReaderAt(b, at + 6, ns)
      BY <1>5
    <2> HIDE DEF header
    <2>2. header.value = ns
      BY <2>1 DEF ReaderAt
    <2> QED BY <2>1, <2>2
  <1>8. at + 6 \in Nat /\ (at + 6) + Len(d) = at + size /\ Len(d) \in Uint16
    <2>1. Len(d) <= size
      BY <1>1
    <2>2. Len(d) \in Uint16
      <3> HIDE DEF d, size
      <3> QED BY <1>1, <2>1, SmallerFits DEF size
    <2> QED BY <1>1, <2>2
  <1>9. DiscoveryType # DataType
    BY DEF DiscoveryType, DataType
  <1>10. CASE m.type = DiscoveryType
    <2>1. /\ m.nodes \in Seq(Nodes) /\ d = NodesBody(m.id, m.nodes)
          /\ m = [type |-> DiscoveryType, id |-> m.id, nodes |-> m.nodes]
      BY <1>10, MessageTypes DEF Body
    <2>2. ReadDiscovery(ReaderAt(b, at + 6, ns)) = ReaderAt(b, (at + 6) + Len(d), m)
      <3>1. Len(NodesBody(m.id, m.nodes)) \in Uint16 /\ Stands(NodesBody(m.id, m.nodes), b, at + 6)
        BY <1>4, <1>8, <2>1
      <3> HIDE DEF ns, d
      <3>2. ReadDiscovery(ReaderAt(b, at + 6, ns))
               = ReaderAt(b, (at + 6) + Len(NodesBody(m.id, m.nodes)),
                          [type |-> DiscoveryType, id |-> m.id, nodes |-> m.nodes])
        BY <1>1, <1>8, <2>1, <3>1, ReadDiscoveryFacts
      <3> QED BY <2>1, <3>2
    <2>3. ReadMessage(r) = ReadDiscovery(header)
      <3> HIDE DEF r
      <3> QED BY <1>6, <1>7, <1>9, <1>10 DEF ReadMessage
    <2> QED BY <1>7, <1>8, <2>2, <2>3
  <1>11. CASE m.type = DataType
    <2>1. /\ m.data \in Seq(Byte) /\ d = DataBody(m.id, m.data)
          /\ m = [type |-> DataType, id |-> m.id, data |-> m.data]
      BY <1>9, <1>11, MessageTypes DEF Body
    <2>2. ReadData(ReaderAt(b, at + 6, ns)) = ReaderAt(b, (at + 6) + Len(d), m)
      <3>1. /\ Len(DataBody(m.id, m.data)) \in Uint16 /\ Stands(DataBody(m.id, m.data), b, at + 6)
            /\ (at + 6) + Len(DataBody(m.id, m.data)) < Len(b)
        BY <1>4, <1>8, <2>1
      <3> HIDE DEF ns, d
      <3>2. ReadData(ReaderAt(b, at + 6, ns))
               = ReaderAt(b, (at + 6) + Len(DataBody(m.id, m.data)),
                          [type |-> DataType, id |-> m.id, data |-> m.data])
        BY <1>1, <1>8, <2>1, <3>1, ReadDataFacts
      <3> QED BY <2>1, <3>2
    <2>3. ReadMessage(r) = ReadData(header)
      <3> HIDE DEF r
      <3> QED BY <1>6, <1>7, <1>9, <1>11 DEF ReadMessage
    <2> QED BY <1>7, <1>8, <2>2, <2>3
  <1> QED BY <1>10, <1>11

\* The fields of the messages, and the bytes of each message.
MessageParts(list) == [i \in DOMAIN list |-> Fields(list[i])]
MessageBytes(list) == [i \in 1 .. Len(list) |-> FlattenSeq(Fields(list[i]))]

LEMMA ListFacts ==
    ASSUME NEW list \in MessageLists
    PROVE  /\ MessageBytes(list) \in Seq(Seq(Byte)) /\ Len(MessageBytes(list)) = Len(list)
           /\ \A i \in 1 .. Len(list) :
                 /\ list[i] \in Messages
                 /\ MessageBytes(list)[i] = FlattenSeq(Fields(list[i]))
                 /\ Len(MessageBytes(list)[i]) = EncodedSize(list[i])
           /\ FlattenSeq(MessageParts(list)) \in Seq(Seq(Byte))
           /\ FlattenSeq(FlattenSeq(MessageParts(list))) = FlattenSeq(MessageBytes(list))
           /\ TotalSize(list) = 10 + Len(FlattenSeq(MessageBytes(list)))
           /\ NeededSize(list) = Len(FlattenSeq(MessageBytes(list))) + 10
  <1> DEFINE n == Len(list)
             parts == MessageParts(list)
             bytes == MessageBytes(list)
             sizes == [i \in DOMAIN list |-> EncodedSize(list[i])]
             E == Seq(Byte)
             F == Seq(Seq(Byte))
  <1>1. n \in Nat /\ DOMAIN list = 1 .. n /\ \A i \in 1 .. n : list[i] \in Messages
    <2>1. list \in Seq(Messages)
      BY DEF MessageLists, Messages
    <2> QED BY <2>1, SeqFacts
  <1>2. \A i \in 1 .. n : /\ Fields(list[i]) \in F
                          /\ FlattenSeq(Fields(list[i])) \in E
                          /\ Len(FlattenSeq(Fields(list[i]))) = EncodedSize(list[i])
    BY <1>1, FieldsFacts
  <1> HIDE DEF E, F
  <1>3. /\ parts = [i \in 1 .. n |-> Fields(list[i])]
        /\ bytes = [i \in 1 .. n |-> FlattenSeq(Fields(list[i]))]
        /\ sizes = [i \in 1 .. n |-> EncodedSize(list[i])]
    BY <1>1 DEF MessageParts, MessageBytes
  <1> HIDE DEF parts, bytes, sizes, n
  <1>4. /\ parts \in Seq(F) /\ Len(parts) = n
        /\ \A i \in 1 .. n : parts[i] = Fields(list[i])
    BY <1>1, <1>2, <1>3
  <1>5. /\ bytes \in Seq(E) /\ Len(bytes) = n
        /\ \A i \in 1 .. n : bytes[i] = FlattenSeq(Fields(list[i]))
    BY <1>1, <1>2, <1>3
  <1>6. Len(sizes) = n /\ \A i \in 1 .. n : sizes[i] = EncodedSize(list[i])
    BY <1>1, <1>3
  <1>7. FlattenSeq(parts) \in Seq(E) /\ FlattenSeq(FlattenSeq(parts)) = FlattenSeq(bytes)
    <2>1. Flattened(parts, bytes)
      BY <1>4, <1>5 DEF Flattened
    <2>2. parts \in Seq(F) /\ bytes \in Seq(E)
      BY <1>4, <1>5
    <2> QED BY <2>1, <2>2, FlattenTwice DEF E, F
  <1>8. Sum(sizes) = Len(FlattenSeq(bytes))
    <2>1. \A i \in 1 .. Len(bytes) : sizes[i] = Len(bytes[i])
      BY <1>2, <1>5, <1>6
    <2> QED BY <1>5, <1>6, <2>1, SumOfLengths DEF E
  <1>9. TotalSize(list) = 10 + Len(FlattenSeq(bytes))
    BY <1>8 DEF TotalSize, PacketHeaderSize, sizes
  <1>10. NeededSize(list) = Len(FlattenSeq(bytes)) + 10
    <2>1. parts = [i \in DOMAIN list |-> Fields(list[i])]
      BY DEF parts, MessageParts
    <2> QED BY <1>7, <2>1 DEF NeededSize, PacketHeaderSize
  <1> QED BY <1>1, <1>2, <1>5, <1>7, <1>9, <1>10 DEF E, parts, bytes, n

(* Messages that are read one after another.                               *)
MessageItem(read) == IF read.ok THEN ReadMessage(read) ELSE read
MessageTurn(read) == Read(MessageItem(read), Append(read.value, MessageItem(read).value), 0)
MessagesRead(f, r, n) ==
    f = [i \in 0 .. n |-> IF i = 0 THEN Read(r, << >>, 0) ELSE MessageTurn(f[i - 1])]

LEMMA MessageTurnFacts ==
    ASSUME NEW S, Wide(S), NEW b \in Seq(S), NEW at \in Nat, NEW v,
           NEW m \in Messages, m.type \in {DiscoveryType, DataType},
           EncodedSize(m) \in Uint16, Stands(FlattenSeq(Fields(m)), b, at),
           at + EncodedSize(m) < Len(b)
    PROVE  MessageTurn(ReaderAt(b, at, v)) = ReaderAt(b, at + EncodedSize(m), Append(v, m))
  <1> DEFINE read == ReaderAt(b, at, v)
             item == MessageItem(read)
             to == at + EncodedSize(m)
  <1>1. ReadMessage(read) = ReaderAt(b, to, m)
    BY ReadMessageFacts
  <1>2. read.ok
    <2>1. read.ok = Fine
      BY DEF ReaderAt
    <2> HIDE DEF read
    <2> QED BY <2>1, Zenon DEF Fine
  <1>3. at \in Int /\ to \in Int /\ read = ReaderAt(b, at, v)
    BY RangeFacts
  <1> HIDE DEF read
  <1>4. item = ReaderAt(b, to, m)
    <2>1. item = ReadMessage(read)
      BY <1>2, Zenon DEF MessageItem
    <2> QED BY <1>1, <2>1
  <1> HIDE DEF item, to
  <1>5. Read(item, Append(read.value, item.value), 0) = ReaderAt(b, to, Append(v, m))
    BY <1>3, <1>4, TurnFacts
  <1> QED BY <1>5 DEF MessageTurn, read, item, to

\* The list is all of messages this program knows.
LEMMA UnderstoodFacts ==
    ASSUME NEW list \in MessageLists, IsUnderstood(list)
    PROVE  \A i \in 1 .. Len(list) : list[i].type \in {DiscoveryType, DataType}
  <1>1. DOMAIN list = 1 .. Len(list)
    BY SeqFacts DEF MessageLists
  <1> QED BY <1>1 DEF IsUnderstood

LEMMA ReadMessagesFacts ==
    ASSUME NEW S, Wide(S), NEW b \in Seq(S), NEW at \in Nat, NEW value,
           NEW list \in MessageLists, IsUnderstood(list),
           Len(FlattenSeq(MessageBytes(list))) \in Uint16,
           Stands(FlattenSeq(MessageBytes(list)), b, at),
           at + Len(FlattenSeq(MessageBytes(list))) < Len(b)
    PROVE  ReadMessages(ReaderAt(b, at, value), Len(list))
              = ReaderAt(b, at + Len(FlattenSeq(MessageBytes(list))), list)
  <1> DEFINE r == ReaderAt(b, at, value)
             n == Len(list)
             fields == MessageBytes(list)
             p(i) == Place(fields, at, i)
             g == [i \in 0 .. n |-> ReaderAt(b, p(i), Begin(list, i))]
             f == CHOOSE f : MessagesRead(f, r, n)
  <1> list \in Seq(Messages)
    BY DEF MessageLists, Messages
  <1>1. n \in Nat /\ n \in 0 .. n /\ 0 \in 0 .. n /\ \A i \in 1 .. n : i \in 0 .. n /\ i - 1 \in 0 .. n
    BY SeqFacts
  <1>2. fields \in Seq(Seq(S)) /\ Len(fields) = n
    <2>1. fields \in Seq(Seq(Byte)) /\ Len(fields) = n
      BY ListFacts
    <2> HIDE DEF fields
    <2> QED BY <2>1, Widen
  <1>3. /\ p(0) = at /\ p(n) = at + Len(FlattenSeq(fields))
        /\ \A i \in 0 .. n : p(i) \in Nat
        /\ \A i \in 1 .. n : p(i) = p(i - 1) + Len(fields[i])
    <2> HIDE DEF fields
    <2> QED BY <1>2, PlaceFacts
  <1>4. \A i \in 0 .. n : p(i) < Len(b)
    <2> SUFFICES ASSUME NEW i \in 0 .. n PROVE p(i) < Len(b)
      OBVIOUS
    <2> DEFINE l == Len(FlattenSeq(fields))
               q == Len(FlattenSeq(Begin(fields, i)))
    <2>1. q \in Nat /\ q <= l
      <3> HIDE DEF fields
      <3> QED BY <1>2, FlattenLengths
    <2>2. l \in Nat /\ at + l < Len(b) /\ Len(b) \in Nat
      <3>1. l \in Nat
        <4> HIDE DEF fields
        <4> QED BY <1>2, PartsFit
      <3> QED BY <3>1, SeqFacts
    <2>3. p(i) = at + q
      BY DEF Place, Passed
    <2> HIDE DEF p, l, q
    <2> QED BY <2>1, <2>2, <2>3
  <1> HIDE DEF p
  <1>5. g[0] = Read(r, << >>, 0)
    <2>1. Begin(list, 0) = << >>
      BY <1>1, BeginFacts
    <2>2. g[0] = ReaderAt(b, at, << >>)
      BY <1>1, <1>3, <2>1
    <2>3. Read(r, << >>, 0) = ReaderAt(b, at, << >>)
      BY ReadFacts
    <2> QED BY <2>2, <2>3
  <1>6. g[n] = ReaderAt(b, at + Len(FlattenSeq(fields)), list)
    BY <1>1, <1>3, BeginFacts
  <1>7. ASSUME NEW i \in 1 .. n PROVE g[i] = MessageTurn(g[i - 1])
    <2> DEFINE v == Begin(list, i - 1)
               x == list[i]
               from == p(i - 1)
               l == EncodedSize(x)
    <2>1. /\ from \in Nat /\ x \in Messages /\ i - 1 \in 0 .. n /\ i \in 0 .. n
          /\ fields[i] = FlattenSeq(Fields(x)) /\ Len(fields[i]) = l /\ l \in Nat
      <3>1. i - 1 \in 0 .. n /\ i \in 0 .. n
        BY <1>1
      <3>2. x \in Messages /\ fields[i] = FlattenSeq(Fields(x)) /\ Len(fields[i]) = l
        BY ListFacts
      <3>3. l \in Nat
        <4> HIDE DEF x
        <4> QED BY <3>2, FieldsFacts
      <3> QED BY <1>3, <3>1, <3>2, <3>3
    <2>2. Stands(FlattenSeq(Fields(x)), b, from)
      <3> HIDE DEF fields
      <3>1. \A k \in 1 .. Len(fields) :
               Stands(fields[k], b, at + Len(FlattenSeq(Begin(fields, k - 1))))
        BY <1>2, StandsFlatten DEF fields
      <3> QED BY <1>2, <2>1, <3>1 DEF Passed, Place, p
    <2>3. l \in Uint16
      <3> HIDE DEF fields
      <3>1. Len(fields[i]) <= Len(FlattenSeq(fields))
        BY <1>2, PartsFit
      <3>2. Len(FlattenSeq(fields)) \in Uint16
        BY DEF fields
      <3> HIDE DEF x, l
      <3> QED BY <2>1, <3>1, <3>2, SmallerFits
    <2>4. g[i - 1] = ReaderAt(b, from, v)
      BY <2>1
    <2>5. p(i) = from + l
      BY <1>3, <2>1
    <2>6. g[i] = ReaderAt(b, from + l, Append(v, x))
      <3>1. Begin(list, i) = Append(v, x)
        <4>1. i > 0 /\ i \in 0 .. Len(list)
          BY <1>1
        <4> QED BY <4>1, BeginFacts
      <3> QED BY <2>1, <2>5, <3>1
    <2>7. from + l < Len(b)
      BY <1>4, <2>1, <2>5
    <2>8. x.type \in {DiscoveryType, DataType}
      BY UnderstoodFacts
    <2> HIDE DEF v, g, x, from, fields
    <2>9. MessageTurn(ReaderAt(b, from, v)) = ReaderAt(b, from + l, Append(v, x))
      <3>1. from \in Nat /\ x \in Messages
        BY <2>1
      <3> QED BY <2>2, <2>3, <2>7, <2>8, <3>1, MessageTurnFacts
    <2> QED BY <2>4, <2>6, <2>9
  <1>8. MessagesRead(g, r, n)
    <2>1. g = [i \in 0 .. n |-> g[i]]
      OBVIOUS
    <2> HIDE DEF g, r, n
    <2>2. \A i \in 0 .. n : g[i] = IF i = 0 THEN Read(r, << >>, 0) ELSE MessageTurn(g[i - 1])
      <3>1. \A i \in 0 .. n : i # 0 => i \in 1 .. n
        BY <1>1
      <3> QED BY <1>5, <1>7, <3>1
    <2>3. g = [i \in 0 .. n |-> IF i = 0 THEN Read(r, << >>, 0) ELSE MessageTurn(g[i - 1])]
      BY <2>1, <2>2
    <2> QED BY <2>3 DEF MessagesRead
  <1>9. MessagesRead(f, r, n)
    <2> HIDE DEF g, r, n
    <2> QED BY <1>8
  <1>10. ReadMessages(r, n) = f[n]
    BY DEF ReadMessages, ReadSeq, MessagesRead, MessageTurn, MessageItem
  <1> HIDE DEF f, g, r, n
  <1>11. f[0] = g[0] /\ \A i \in 1 .. n : f[i] = MessageTurn(f[i - 1])
    <2>1. \A i \in 0 .. n : f[i] = IF i = 0 THEN Read(r, << >>, 0) ELSE MessageTurn(f[i - 1])
      BY <1>9 DEF MessagesRead
    <2>2. \A i \in 1 .. n : i # 0
      BY <1>1
    <2> QED BY <1>1, <1>5, <2>1, <2>2
  <1>12. f[n] = g[n]
    <2>1. \A i \in 1 .. n : f[i - 1] = g[i - 1] => f[i] = g[i]
      BY <1>7, <1>11
    <2> QED BY <1>1, <1>11, <2>1, SameAlong
  <1> QED BY <1>6, <1>10, <1>12 DEF r, n

-----------------------------------------------------------------------------
(* What is written.                                                        *)
Written(f, buffer, fields) ==
    f = [i \in 0 .. Len(fields) |-> IF i = 0 THEN buffer ELSE Put(f[i - 1], fields[i])]

LEMMA PutAllFacts ==
    ASSUME NEW fields \in Seq(Seq(Byte)), Len(FlattenSeq(fields)) <= BufferSize
    PROVE  PutAll(<< >>, fields) = FlattenSeq(fields)
  <1> DEFINE n == Len(fields)
             g == [i \in 0 .. n |-> FlattenSeq(Begin(fields, i))]
             f == CHOOSE f : Written(f, << >>, fields)
  <1>1. n \in Nat /\ n \in 0 .. n /\ 0 \in 0 .. n /\ \A i \in 1 .. n : i \in 0 .. n /\ i - 1 \in 0 .. n
    BY SeqFacts
  <1>2. g[0] = << >> /\ g[n] = FlattenSeq(fields)
    <2>1. FlattenSeq(Begin(fields, 0)) = << >> /\ Begin(fields, n) = fields
      BY <1>1, BeginFacts, FlattenSteps
    <2> QED BY <1>1, <2>1
  <1>3. ASSUME NEW i \in 1 .. n PROVE g[i] = Put(g[i - 1], fields[i])
    <2> DEFINE p == FlattenSeq(Begin(fields, i - 1))
               q == FlattenSeq(Begin(fields, i))
               x == fields[i]
    <2>1. g[i - 1] = p /\ g[i] = q
      BY <1>1
    <2>2. p \in Seq(Byte) /\ q = p \o x /\ x \in Seq(Byte)
      <3>1. i - 1 \in 0 .. n /\ x \in Seq(Byte)
        BY <1>1
      <3> QED BY <3>1, FlattenSteps
    <2>3. Len(q) <= Len(FlattenSeq(fields)) /\ Len(FlattenSeq(fields)) \in Nat
      <3>1. i \in 0 .. n
        BY <1>1
      <3> QED BY <3>1, FlattenLengths, PartsFit
    <2> HIDE DEF p, q, x, g
    <2>4. Len(q) = Len(p) + Len(x) /\ Len(p) \in Nat /\ Len(x) \in Nat
      <3>1. Len(p \o x) = Len(p) + Len(x)
        BY <2>2, ConcatFacts
      <3> QED BY <2>2, <3>1, SeqFacts
    <2>5. BufferSize \in Nat
      BY RangeFacts
    <2>6. ~ (Len(x) > BufferSize - Len(p))
      BY <2>3, <2>4, <2>5
    <2>7. Put(p, x) = q
      BY <2>2, <2>6 DEF Put
    <2> QED BY <2>1, <2>7 DEF x
  <1>4. Written(g, << >>, fields)
    <2>1. g = [i \in 0 .. n |-> g[i]]
      OBVIOUS
    <2> HIDE DEF g
    <2>2. \A i \in 0 .. n : g[i] = IF i = 0 THEN << >> ELSE Put(g[i - 1], fields[i])
      <3>1. \A i \in 0 .. n : i # 0 => i \in 1 .. n
        BY <1>1
      <3> QED BY <1>2, <1>3, <3>1
    <2>3. g = [i \in 0 .. n |-> IF i = 0 THEN << >> ELSE Put(g[i - 1], fields[i])]
      BY <2>1, <2>2
    <2> QED BY <2>3 DEF Written
  <1>5. Written(f, << >>, fields)
    <2> HIDE DEF g
    <2> QED BY <1>4
  <1>6. PutAll(<< >>, fields) = f[n]
    BY DEF PutAll, Written
  <1> HIDE DEF f, g
  <1>7. f[0] = g[0] /\ \A i \in 1 .. n : f[i] = Put(f[i - 1], fields[i])
    <2>1. \A i \in 0 .. n : f[i] = IF i = 0 THEN << >> ELSE Put(f[i - 1], fields[i])
      BY <1>5 DEF Written
    <2>2. \A i \in 1 .. n : i # 0
      BY <1>1
    <2> QED BY <1>1, <1>2, <2>1, <2>2
  <1>8. f[n] = g[n]
    <2>1. \A i \in 1 .. n : f[i - 1] = g[i - 1] => f[i] = g[i]
      BY <1>3, <1>7
    <2> HIDE DEF n
    <2> QED BY <1>1, <1>7, <2>1, SameAlong
  <1> QED BY <1>2, <1>6, <1>8

\* The packet of a list without its checksum, and the checksum.
Content(list) == FlattenSeq(Pair(TotalSize(list), 4, Len(list), 2)) \o FlattenSeq(MessageBytes(list))
Checksum(list) == Bytes(Digest(Content(list)), 4)

LEMMA ContentFacts ==
    ASSUME NEW list \in MessageLists
    PROVE  /\ TotalSize(list) \in Nat /\ Len(list) \in Nat
           /\ FlattenSeq(MessageBytes(list)) \in Seq(Byte)
           /\ Len(FlattenSeq(MessageBytes(list))) \in Nat
           /\ TotalSize(list) = 10 + Len(FlattenSeq(MessageBytes(list)))
           /\ FlattenSeq(Pair(TotalSize(list), 4, Len(list), 2)) \in Seq(Byte)
           /\ Len(FlattenSeq(Pair(TotalSize(list), 4, Len(list), 2))) = 6
           /\ Content(list) \in Seq(Byte) /\ Len(Content(list)) = TotalSize(list) - 4
  <1> DEFINE n == Len(list)
             d == FlattenSeq(MessageBytes(list))
             c == FlattenSeq(Pair(TotalSize(list), 4, n, 2))
  <1>1. n \in Nat
    BY SeqFacts DEF MessageLists
  <1>2. d \in Seq(Byte) /\ Len(d) \in Nat /\ TotalSize(list) = 10 + Len(d)
    <2>1. MessageBytes(list) \in Seq(Seq(Byte)) /\ TotalSize(list) = 10 + Len(d)
      BY ListFacts
    <2>2. d \in Seq(Byte)
      BY <2>1, FlattenFacts
    <2> HIDE DEF d
    <2> QED BY <2>1, <2>2, SeqFacts
  <1>3. TotalSize(list) \in Nat
    BY <1>2
  <1>4. c \in Seq(Byte) /\ Len(c) = 4 + 2
    BY <1>1, <1>3, PairFields
  <1> HIDE DEF c, d
  <1>5. c \o d \in Seq(Byte) /\ Len(c \o d) = Len(c) + Len(d)
    BY <1>2, <1>4, ConcatFacts
  <1>6. Len(c \o d) = TotalSize(list) - 4
    BY <1>2, <1>4, <1>5
  <1>7. Content(list) = c \o d
    BY DEF Content, c, d
  <1> QED BY <1>1, <1>2, <1>3, <1>4, <1>5, <1>6, <1>7 DEF c, d

LEMMA EncodeFacts ==
    ASSUME NEW list \in MessageLists, Fits(list)
    PROVE  Encode(list) = Content(list) \o Checksum(list)
  <1> DEFINE h == Pair(TotalSize(list), 4, Len(list), 2)
             q == FlattenSeq(MessageParts(list))
             content == PutAll(<< >>, h \o q)
             x == Content(list)
             sum == Checksum(list)
  <1>1. /\ TotalSize(list) \in Nat /\ Len(list) \in Nat
        /\ x \in Seq(Byte) /\ Len(x) = TotalSize(list) - 4
    BY ContentFacts
  <1>2. TotalSize(list) <= BufferSize /\ BufferSize \in Nat
    BY RangeFacts DEF Fits
  <1>3. h \in Seq(Seq(Byte))
    BY <1>1, PairFields
  <1>4. q \in Seq(Seq(Byte)) /\ FlattenSeq(q) = FlattenSeq(MessageBytes(list))
    BY ListFacts
  <1> HIDE DEF q
  <1>5. h \o q \in Seq(Seq(Byte)) /\ FlattenSeq(h \o q) = x
    <2> HIDE DEF h
    <2>1. h \o q \in Seq(Seq(Byte))
      BY <1>3, <1>4, ConcatFacts
    <2>2. FlattenSeq(h \o q) = FlattenSeq(h) \o FlattenSeq(q)
      BY <1>3, <1>4, FlattenConcat
    <2> QED BY <1>4, <2>1, <2>2 DEF Content, h
  <1>6. content = x
    <2> DEFINE fields == h \o q
    <2>1. fields \in Seq(Seq(Byte)) /\ FlattenSeq(fields) = x
      BY <1>5
    <2>2. Len(x) <= BufferSize
      <3> HIDE DEF x
      <3> QED BY <1>1, <1>2
    <2> HIDE DEF fields
    <2>3. PutAll(<< >>, fields) = x
      BY <2>1, <2>2, PutAllFacts
    <2> QED BY <2>3 DEF fields
  <1>7. Len(sum) = 4
    BY DEF Checksum, Bytes
  <1>8. Put(x, sum) = x \o sum
    <2> HIDE DEF x, sum
    <2>1. ~ (Len(sum) > BufferSize - Len(x))
      BY <1>1, <1>2, <1>7
    <2> QED BY <2>1 DEF Put
  <1>9. Encode(list) = Put(content, Bytes(Digest(content), ChecksumSize))
    <2>1. q = FlattenSeq([i \in DOMAIN list |-> Fields(list[i])])
      BY DEF q, MessageParts
    <2>2. h = <<Bytes(TotalSize(list), 4), Bytes(Len(list), 2)>>
      BY DEF Pair
    <2> HIDE DEF h
    <2> QED BY <2>1, <2>2 DEF Encode
  <1>10. Bytes(Digest(x), ChecksumSize) = sum
    BY DEF Checksum, ChecksumSize
  <1> HIDE DEF content, x, sum
  <1> QED BY <1>6, <1>8, <1>9, <1>10 DEF x, sum

\* The bytes of the packets that are written: those of a checksum are what Digest makes them.
Cell == Byte \cup UNION {{Checksum(list)[i] : i \in 1 .. 4} : list \in MessageLists}

LEMMA PacketCells ==
    ASSUME NEW list \in MessageLists, Fits(list)
    PROVE  /\ Wide(Cell) /\ Encode(list) \in Seq(Cell) /\ Len(Encode(list)) = TotalSize(list)
           /\ Content(list) \in Seq(Cell) /\ Checksum(list) \in Seq(Cell)
           /\ Len(Checksum(list)) = 4
           /\ Stands(Encode(list), Encode(list), 0)
  <1> DEFINE x == Content(list)
             sum == Checksum(list)
             b == Encode(list)
  <1>1. x \in Seq(Byte) /\ Len(x) = TotalSize(list) - 4 /\ TotalSize(list) \in Nat
    BY ContentFacts
  <1>2. b = x \o sum
    BY EncodeFacts
  <1>3. Wide(Cell)
    BY DEF Wide, Cell
  <1>4. sum \in Seq(Cell) /\ Len(sum) = 4
    <2>1. sum = [i \in 1 .. 4 |-> sum[i]]
      BY DEF Checksum, Bytes
    <2>2. \A i \in 1 .. 4 : sum[i] \in Cell
      BY DEF Cell
    <2> HIDE DEF sum
    <2> QED BY <2>1, <2>2
  <1> HIDE DEF x, sum, b
  <1>5. x \in Seq(Cell)
    BY <1>1, <1>3, Widen
  <1>6. b \in Seq(Cell) /\ Len(b) = TotalSize(list)
    <2>1. x \o sum \in Seq(Cell) /\ Len(x \o sum) = Len(x) + Len(sum)
      BY <1>4, <1>5, ConcatFacts
    <2> QED BY <1>1, <1>2, <1>4, <2>1
  <1>7. Stands(b, b, 0)
    <2>1. Len(b) \in Nat
      BY <1>6, SeqFacts
    <2> QED BY <2>1 DEF Stands
  <1> QED BY <1>3, <1>4, <1>5, <1>6, <1>7 DEF x, sum, b

(* A packet at the beginning of a buffer: where its parts stand, and what  *)
(* fits.                                                                   *)
LEMMA PacketFacts ==
    ASSUME NEW list \in MessageLists, Fits(list),
           NEW b \in Seq(Cell), Stands(Encode(list), b, 0)
    PROVE  /\ TotalSize(list) <= Len(b)
           /\ Stands(Content(list), b, 0)
           /\ Stands(Checksum(list), b, TotalSize(list) - 4)
           /\ Stands(FlattenSeq(Pair(TotalSize(list), 4, Len(list), 2)), b, 0)
           /\ Stands(Bytes(TotalSize(list), 4), b, 0)
           /\ Stands(FlattenSeq(MessageBytes(list)), b, 6)
           /\ Holds(TotalSize(list), 4) /\ Holds(Len(list), 2)
           /\ Len(FlattenSeq(MessageBytes(list))) \in Uint16
  <1> DEFINE total == TotalSize(list)
             n == Len(list)
             x == Content(list)
             sum == Checksum(list)
             h == Pair(total, 4, n, 2)
             c == FlattenSeq(h)
             d == FlattenSeq(MessageBytes(list))
  <1>1. /\ total \in Nat /\ n \in Nat /\ d \in Seq(Byte) /\ Len(d) \in Nat /\ total = 10 + Len(d)
        /\ c \in Seq(Byte) /\ Len(c) = 6 /\ x \in Seq(Byte) /\ Len(x) = total - 4
    BY ContentFacts
  <1>2. x = c \o d /\ Encode(list) = x \o sum
    BY EncodeFacts DEF Content
  <1>3. Wide(Cell) /\ sum \in Seq(Cell) /\ Len(sum) = 4 /\ Len(Encode(list)) = total
    BY PacketCells
  <1>5. h \in Seq(Seq(Byte))
    BY <1>1, PairFields
  <1> HIDE DEF x, sum, c, d, h, total, n
  <1>6. x \in Seq(Cell) /\ c \in Seq(Cell) /\ d \in Seq(Cell) /\ h \in Seq(Seq(Cell))
    BY <1>1, <1>3, <1>5, Widen
  <1>7. total <= Len(b)
    <2>1. 0 + Len(Encode(list)) <= Len(b)
      BY DEF Stands
    <2> QED BY <1>1, <1>3, <2>1
  <1>9. Stands(x, b, 0) /\ Stands(sum, b, total - 4)
    <2>1. Stands(x \o sum, b, 0)
      BY <1>2
    <2>2. Stands(x, b, 0) /\ Stands(sum, b, 0 + Len(x))
      BY <1>3, <1>6, <2>1, StandsConcat
    <2>3. 0 + Len(x) = total - 4
      BY <1>1
    <2> QED BY <2>2, <2>3
  <1>10. Stands(c, b, 0) /\ Stands(d, b, 6)
    <2>1. Stands(c \o d, b, 0)
      BY <1>2, <1>9
    <2>2. Stands(c, b, 0) /\ Stands(d, b, 0 + Len(c))
      BY <1>6, <2>1, StandsConcat
    <2>3. 0 + Len(c) = 6
      BY <1>1
    <2> QED BY <2>2, <2>3
  <1>11. Stands(Bytes(total, 4), b, 0)
    <2>1. Len(h) = 2 /\ h[1] = Bytes(total, 4)
      BY DEF h, Pair
    <2>2. \A k \in 1 .. Len(h) : Stands(h[k], b, 0 + Len(FlattenSeq(Begin(h, k - 1))))
      BY <1>6, <1>10, StandsFlatten DEF c
    <2>3. 1 \in 1 .. Len(h) /\ 1 - 1 = 0
      BY <2>1
    <2>4. Stands(h[1], b, 0 + Len(FlattenSeq(Begin(h, 0))))
      BY <2>2, <2>3
    <2>5. FlattenSeq(Begin(h, 0)) = << >> /\ Len(<< >>) = 0
      BY <1>6, FlattenSteps
    <2> QED BY <2>1, <2>4, <2>5
  <1>12. total <= BufferSize /\ BufferSize \in Uint16
    <2>1. total <= BufferSize
      BY DEF Fits, total
    <2>2. BufferSize \in Uint16
      BY BufferSizeAssumption DEF Uint16
    <2> QED BY <2>1, <2>2
  <1>13. total \in Uint32 /\ Len(d) \in Uint16 /\ n \in Uint16
    <2>1. n <= Len(d)
      <3> DEFINE s == MessageBytes(list)
      <3>1. s \in Seq(Seq(Byte)) /\ Len(s) = n
        BY ListFacts DEF n
      <3>2. \A i \in 1 .. n : Len(s[i]) >= 1
        <4> SUFFICES ASSUME NEW i \in 1 .. n PROVE Len(s[i]) >= 1
          OBVIOUS
        <4>1. list[i] \in Messages /\ Len(s[i]) = EncodedSize(list[i])
          BY ListFacts DEF n
        <4>2. EncodedSize(list[i]) = 6 + Len(Body(list[i])) /\ Len(Body(list[i])) \in Nat
          BY <4>1, MessageTypes
        <4> QED BY <4>1, <4>2
      <3> HIDE DEF s
      <3>3. Len(s) <= Len(FlattenSeq(s))
        BY <3>1, <3>2, FlattenLengths
      <3> QED BY <3>1, <3>3 DEF s, d
    <2>2. BufferSize \in Nat
      BY RangeFacts
    <2>3. Len(d) <= BufferSize /\ n <= BufferSize
      BY <1>1, <1>12, <2>1, <2>2
    <2> QED BY <1>1, <1>12, <2>3, SmallerFits
  <1>14. Holds(total, 4) /\ Holds(n, 2)
    BY <1>13 DEF Holds
  <1> QED BY <1>7, <1>9, <1>10, <1>11, <1>13, <1>14 DEF x, sum, c, d, h, total, n

LEMMA PacketIsValid ==
    ASSUME NEW list \in MessageLists, Fits(list),
           NEW b \in Seq(Cell), Stands(Encode(list), b, 0)
    PROVE  IsValid(b)
  <1> DEFINE x == Content(list)
             total == TotalSize(list)
             sum == Checksum(list)
             r == ReaderAt(b, 0, 0)
             body == ReaderAt(b, total - 4, x)
  <1>1. /\ Wide(Cell) /\ x \in Seq(Cell) /\ sum \in Seq(Cell)
        /\ Len(sum) = 4 /\ Len(b) \in Nat /\ total <= Len(b)
        /\ Stands(x, b, 0) /\ Stands(sum, b, total - 4)
        /\ Stands(Bytes(total, 4), b, 0) /\ Holds(total, 4)
    BY PacketCells, PacketFacts, SeqFacts
  <1>2. /\ total \in Nat /\ total >= 10 /\ Len(x) = total - 4
    BY ContentFacts
  <1>3. Reader(b) = r
    BY Zenon DEF Reader, ReaderAt, Fine
  <1>4. sum = Bytes(Digest(x), ChecksumSize)
    BY DEF Checksum, ChecksumSize
  <1> HIDE DEF x, sum, total
  <1>5. ReadInt(r, 4).value = total
    <2>1. ReadInt(r, 4) = ReaderAt(b, 0 + 4, total)
      BY <1>1, <1>2, ReadIntFacts
    <2> QED BY <2>1 DEF ReaderAt
  <1>6. r.bytes = b /\ r.at = 0
    BY DEF ReaderAt
  <1>7. ReadBuffer(r, total - 4) = body
    <2>1. SubSeq(b, 0 + 1, 0 + Len(x)) = x
      BY <1>1, StandsAt
    <2>2. total - 4 >= 0 /\ Left(r) > total - 4
      <3> HIDE DEF r
      <3> QED BY <1>1, <1>2, <1>6 DEF Left
    <2>3. NextBytes(r, total - 4) = x
      <3> HIDE DEF r
      <3> QED BY <1>2, <1>6, <2>1 DEF NextBytes
    <2>4. Read(r, x, total - 4) = ReaderAt(b, 0 + (total - 4), x)
      <3>1. total - 4 \in Int
        BY <1>2
      <3> QED BY <3>1, ReadFacts
    <2>5. 0 + (total - 4) = total - 4
      BY <1>2
    <2> HIDE DEF r
    <2> QED BY <2>2, <2>3, <2>4, <2>5 DEF ReadBuffer
  <1>8. NextBytes(body, 4) = sum /\ body.value = x
    <2>1. body.bytes = b /\ body.at = total - 4 /\ body.value = x
      BY DEF ReaderAt
    <2>2. SubSeq(b, (total - 4) + 1, (total - 4) + Len(sum)) = sum
      <3>1. total - 4 \in Nat
        BY <1>2
      <3> QED BY <1>1, <3>1, StandsAt
    <2> HIDE DEF body
    <2> QED BY <1>1, <2>1, <2>2 DEF NextBytes
  <1> HIDE DEF r, body
  <1>9. Len(b) >= 4 /\ Len(b) >= total
    BY <1>1, <1>2
  <1> QED BY <1>3, <1>4, <1>5, <1>7, <1>8, <1>9 DEF IsValid, SizeFieldSize, ChecksumSize

(* What encode writes, decode reads: the messages that were handed over,   *)
(* up to the last byte, and nothing behind it.                             *)
LEMMA RoundTrip ==
    ASSUME NEW list \in MessageLists, IsUnderstood(list), Fits(list),
           NEW b \in Seq(Cell), Stands(Encode(list), b, 0)
    PROVE  Decode(b) = [ok |-> TRUE, list |-> list, read |-> TotalSize(list)]
  <1> DEFINE total == TotalSize(list)
             d == FlattenSeq(MessageBytes(list))
             ns == <<total, Len(list)>>
             last == ReaderAt(b, total - 4, list)
  <1>1. /\ Wide(Cell) /\ Len(b) \in Nat /\ total <= Len(b)
        /\ Stands(FlattenSeq(Pair(total, 4, Len(list), 2)), b, 0) /\ Stands(d, b, 6)
        /\ Holds(total, 4) /\ Holds(Len(list), 2) /\ Len(d) \in Uint16
    BY PacketCells, PacketFacts, SeqFacts
  <1>2. /\ total \in Nat /\ Len(list) \in Nat /\ Len(d) \in Nat /\ total = 10 + Len(d)
    BY ContentFacts
  <1>3. Reader(b) = ReaderAt(b, 0, 0)
    BY Zenon DEF Reader, ReaderAt, Fine
  <1>4. IsValid(b)
    BY PacketIsValid
  <1> HIDE DEF total
  <1> DEFINE head == ReadInts(Reader(b), <<4, 2>>)
             messages == ReadMessages(head, head.value[2])
  <1>5. head = ReaderAt(b, 6, ns) /\ head.value[2] = Len(list)
    <2>1. ReadInts(ReaderAt(b, 0, 0), <<4, 2>>) = ReaderAt(b, 0 + (4 + 2), ns)
      BY <1>1, <1>2, PairRead
    <2>2. head = ReaderAt(b, 6, ns)
      BY <1>3, <2>1
    <2> HIDE DEF head
    <2>3. head.value = ns
      BY <2>2 DEF ReaderAt
    <2> QED BY <2>2, <2>3
  <1> HIDE DEF ns, head
  <1>6. messages = last
    <2>1. 6 + Len(d) < Len(b)
      <3> HIDE DEF d
      <3> QED BY <1>1, <1>2
    <2>2. ReadMessages(ReaderAt(b, 6, ns), Len(list)) = ReaderAt(b, 6 + Len(d), list)
      BY <1>1, <2>1, ReadMessagesFacts
    <2>3. 6 + Len(d) = total - 4
      <3> HIDE DEF d
      <3> QED BY <1>2
    <2> QED BY <1>5, <2>2, <2>3
  <1> HIDE DEF messages
  <1>7. last.ok /\ last.value = list /\ last.bytes = b /\ last.at = total - 4
    <2>1. last.ok = Fine /\ last.value = list /\ last.bytes = b /\ last.at = total - 4
      BY DEF ReaderAt
    <2> HIDE DEF last
    <2> QED BY <2>1, Zenon DEF Fine
  <1>8. ReadInt(last, ChecksumSize).at = total
    <2> DEFINE v == Value(NextBytes(last, 4))
    <2>1. Left(last) >= 4
      <3> HIDE DEF last
      <3> QED BY <1>1, <1>2, <1>7 DEF Left
    <2>2. Read(last, v, 4) = ReaderAt(b, (total - 4) + 4, v)
      <3>1. total - 4 \in Int
        BY <1>2
      <3> HIDE DEF v
      <3> QED BY <3>1, ReadFacts
    <2>3. ReadInt(last, 4) = Read(last, v, 4)
      <3> HIDE DEF last
      <3> QED BY <2>1 DEF ReadInt
    <2>4. (total - 4) + 4 = total
      BY <1>2
    <2> HIDE DEF v
    <2>5. ReaderAt(b, total, v).at = total
      BY DEF ReaderAt
    <2> HIDE DEF last
    <2> QED BY <2>2, <2>3, <2>4, <2>5 DEF ChecksumSize
  <1> HIDE DEF last
  <1>9. Decode(b) = [ok |-> TRUE, list |-> messages.value,
                     read |-> ReadInt(messages, ChecksumSize).at]
    <2>1. messages.ok
      BY <1>6, <1>7, Zenon
    <2> QED BY <1>4, <2>1, Zenon DEF Decode, head, messages
  <1> QED BY <1>6, <1>7, <1>8, <1>9, Zenon DEF total

-----------------------------------------------------------------------------
(* What the sender writes is always what encode makes of its list.         *)
WireInv == sent \in Lists /\ wire = Encode(sent)

LEMMA WireKept ==
    ASSUME WireInv, [Next]_vars
    PROVE  WireInv'
  <1>1. ASSUME NEW list \in Lists, Transmit(list) PROVE WireInv'
    BY <1>1 DEF Transmit, WireInv
  <1>2. CASE UNCHANGED <<sent, wire>>
    BY <1>2 DEF WireInv
  <1>3. CASE Arrive
    BY <1>2, <1>3 DEF Arrive, HandleReceive
  <1>4. CASE ArriveHead
    BY <1>2, <1>4 DEF ArriveHead, HandleReceive
  <1>5. CASE ArriveTail
    BY <1>2, <1>5 DEF ArriveTail, HandleReceive
  <1>6. ASSUME NEW i \in Flaws, ArriveDamaged(i) PROVE WireInv'
    BY <1>2, <1>6 DEF ArriveDamaged, HandleReceive
  <1>7. CASE Process
    BY <1>2, <1>7 DEF Process
  <1>8. CASE UNCHANGED vars
    BY <1>2, <1>8 DEF vars
  <1> QED BY <1>1, <1>3, <1>4, <1>5, <1>6, <1>7, <1>8 DEF Next

LEMMA WireInductive == Spec => []WireInv
  <1>1. Init => WireInv
    BY DEF Init, WireInv
  <1>2. WireInv /\ [Next]_vars => WireInv'
    BY WireKept
  <1> QED BY <1>1, <1>2, PTL DEF Spec

(* WrittenWholeOrNot: for every size of the buffer and every digest, a     *)
(* list of messages is written as nothing, or as one datagram that is      *)
(* decoded to that list and used up.                                       *)
THEOREM DatagramsRoundTrip == Spec => []WrittenWholeOrNot
  <1>1. WireInv => WrittenWholeOrNot
    <2> SUFFICES ASSUME WireInv PROVE WrittenWholeOrNot
      OBVIOUS
    <2>1. sent \in MessageLists /\ wire = Encode(sent)
      BY ListsTyped DEF WireInv
    <2>2. NeededSize(sent) = TotalSize(sent)
      <3>1. /\ TotalSize(sent) = 10 + Len(FlattenSeq(MessageBytes(sent)))
            /\ Len(FlattenSeq(MessageBytes(sent))) \in Nat
        BY <2>1, ContentFacts
      <3>2. NeededSize(sent) = Len(FlattenSeq(MessageBytes(sent))) + 10
        BY <2>1, ListFacts
      <3> QED BY <3>1, <3>2
    <2>3. TotalSize(sent) \in Nat /\ BufferSize \in Nat
      BY <2>1, ContentFacts, RangeFacts
    <2>4. CASE NeededSize(sent) > BufferSize
      <3>1. ~ Fits(sent)
        BY <2>2, <2>3, <2>4 DEF Fits
      <3>2. wire = << >>
        BY <2>1, <3>1 DEF Encode
      <3> QED BY <2>4, <3>2 DEF WrittenWholeOrNot
    <2>5. CASE ~ (NeededSize(sent) > BufferSize)
      <3>1. Fits(sent)
        BY <2>2, <2>3, <2>5 DEF Fits
      <3>2. IsUnderstood(sent) => Decode(wire) = [ok |-> TRUE, list |-> sent, read |-> Len(wire)]
        <4> SUFFICES ASSUME IsUnderstood(sent)
                     PROVE  Decode(Encode(sent)) = [ok |-> TRUE, list |-> sent,
                                                    read |-> Len(Encode(sent))]
          BY <2>1
        <4>1. /\ Encode(sent) \in Seq(Cell) /\ Stands(Encode(sent), Encode(sent), 0)
              /\ Len(Encode(sent)) = TotalSize(sent)
          BY <2>1, <3>1, PacketCells
        <4>2. Decode(Encode(sent)) = [ok |-> TRUE, list |-> sent, read |-> TotalSize(sent)]
          BY <2>1, <3>1, <4>1, RoundTrip, Zenon
        <4> QED BY <4>1, <4>2
      <3> QED BY <2>5, <3>2, Zenon DEF WrittenWholeOrNot
    <2> QED BY <2>4, <2>5
  <1> QED BY <1>1, WireInductive, PTL

-----------------------------------------------------------------------------
(* Packets that are not understood, and bytes that are zero.               *)

\* A reader that has failed, at a place.
Broken == FALSE
FailedAt(b, at, value) == [bytes |-> b, at |-> at, value |-> value, ok |-> Broken]

LEMMA FailFacts ==
    ASSUME NEW b, NEW at \in Int, NEW value, NEW v
    PROVE  /\ Fail(ReaderAt(b, at, value)) = FailedAt(b, at, value)
           /\ Read(FailedAt(b, at, value), v, 0) = FailedAt(b, at, v)
           /\ MessageItem(FailedAt(b, at, value)) = FailedAt(b, at, value)
  <1>1. Fail(ReaderAt(b, at, value)) = FailedAt(b, at, value)
    <2>1. ASSUME NEW x PROVE [ReaderAt(b, at, value) EXCEPT !.ok = x]
                               = [bytes |-> b, at |-> at, value |-> value, ok |-> x]
      BY DEF ReaderAt
    <2>2. [ReaderAt(b, at, value) EXCEPT !.ok = Broken] = FailedAt(b, at, value)
      BY <2>1 DEF FailedAt
    <2> QED BY <2>2, Zenon DEF Fail, Broken
  <1>2. Read(FailedAt(b, at, value), v, 0) = FailedAt(b, at, v)
    <2>1. FailedAt(b, at, value).at = at /\ at + 0 = at
      BY DEF FailedAt
    <2>2. [FailedAt(b, at, value) EXCEPT !.value = v] = FailedAt(b, at, v)
      BY DEF FailedAt
    <2>3. [FailedAt(b, at, v) EXCEPT !.at = at] = FailedAt(b, at, v)
      BY DEF FailedAt
    <2>4. FailedAt(b, at, v).at = at
      BY DEF FailedAt
    <2> QED BY <2>1, <2>2, <2>3, <2>4 DEF Read
  <1>3. MessageItem(FailedAt(b, at, value)) = FailedAt(b, at, value)
    <2>1. FailedAt(b, at, value).ok = Broken
      BY DEF FailedAt
    <2>2. ~ FailedAt(b, at, value).ok
      BY <2>1, Zenon DEF Broken
    <2> QED BY <2>2, Zenon DEF MessageItem
  <1> QED BY <1>1, <1>2, <1>3

LEMMA MessagesReadExists ==
    ASSUME NEW r, NEW n \in Nat
    PROVE  \E f : MessagesRead(f, r, n)
  <1> DEFINE T == {k \in 0 .. n : \E f : MessagesRead(f, r, k)}
  <1>1. 0 \in T
    <2> DEFINE g == [i \in 0 .. 0 |-> Read(r, << >>, 0)]
    <2>1. MessagesRead(g, r, 0)
      BY DEF MessagesRead
    <2> QED BY <2>1
  <1>2. ASSUME NEW k \in 1 .. n, k - 1 \in T PROVE k \in T
    <2>1. PICK f : MessagesRead(f, r, k - 1)
      BY <1>2
    <2> DEFINE g == [i \in 0 .. k |-> IF i = k THEN MessageTurn(f[k - 1]) ELSE f[i]]
    <2>2. ASSUME NEW i \in 0 .. k
          PROVE  g[i] = IF i = 0 THEN Read(r, << >>, 0) ELSE MessageTurn(g[i - 1])
      <3>1. i # 0 => i - 1 \in 0 .. k /\ i - 1 # k
        OBVIOUS
      <3>2. i # 0 => g[i - 1] = f[i - 1]
        BY <3>1
      <3>3. CASE i = k
        <4>1. i # 0 /\ g[i] = MessageTurn(f[k - 1])
          BY <3>3
        <4> HIDE DEF g
        <4> QED BY <3>2, <3>3, <4>1
      <3>4. CASE i # k
        <4>1. i \in 0 .. k - 1 /\ g[i] = f[i]
          BY <3>4
        <4>2. f[i] = IF i = 0 THEN Read(r, << >>, 0) ELSE MessageTurn(f[i - 1])
          BY <2>1, <4>1 DEF MessagesRead
        <4> HIDE DEF g
        <4> QED BY <3>2, <4>1, <4>2
      <3> QED BY <3>3, <3>4
    <2>3. MessagesRead(g, r, k)
      <3>1. g = [i \in 0 .. k |-> g[i]]
        OBVIOUS
      <3> HIDE DEF g
      <3> QED BY <2>2, <3>1 DEF MessagesRead
    <2> QED BY <2>3
  <1>3. n \in T
    <2>1. n \in 0 .. n
      OBVIOUS
    <2> HIDE DEF T
    <2> QED BY <1>1, <1>2, <2>1, Upwards
  <1> QED BY <1>3

\* The list begins with a message this program does not know.
IsForeign(list) == list # << >> /\ list[1].type \notin {DiscoveryType, DataType}

LEMMA ForeignFacts ==
    ASSUME NEW list \in MessageLists, IsForeign(list), Fits(list),
           NEW b \in Seq(Cell), Stands(Encode(list), b, 0), NEW value
    PROVE  /\ Len(list) \in Nat \ {0} /\ TotalSize(list) >= 20
           /\ ReadMessage(ReaderAt(b, 6, value))
                 = FailedAt(b, 12, <<EncodedSize(list[1]), list[1].type>>)
  <1> DEFINE m == list[1]
             bytes == MessageBytes(list)
             d == FlattenSeq(bytes)
             c == FlattenSeq(Pair(EncodedSize(m), 4, m.type, 2))
             size == EncodedSize(m)
             ns == <<size, m.type>>
             r == ReaderAt(b, 6, value)
  <1>1. Wide(Cell) /\ Stands(d, b, 6) /\ Len(d) \in Uint16
    BY PacketCells, PacketFacts
  <1>2. /\ bytes \in Seq(Seq(Byte)) /\ Len(bytes) = Len(list) /\ Len(list) \in Nat \ {0}
        /\ m \in Messages /\ bytes[1] = FlattenSeq(Fields(m)) /\ Len(bytes[1]) = size
    <2>1. Len(list) \in Nat \ {0}
      BY SeqFacts DEF IsForeign, MessageLists
    <2>2. 1 \in 1 .. Len(list)
      BY <2>1
    <2> QED BY <2>1, <2>2, ListFacts
  <1>3. bytes \in Seq(Seq(Cell))
    BY <1>1, <1>2, Widen
  <1>4. Stands(bytes[1], b, 6)
    <2> HIDE DEF bytes
    <2>1. 1 \in 1 .. Len(bytes) /\ 1 - 1 = 0
      BY <1>2
    <2>2. Stands(bytes[1], b, 6 + Len(FlattenSeq(Begin(bytes, 0))))
      BY <1>1, <1>3, <2>1, StandsFlatten
    <2>3. Passed(bytes, 0) = 0
      BY <1>3, PassedFacts
    <2> QED BY <2>2, <2>3 DEF Passed
  <1>5. /\ Body(m) \in Seq(Byte) /\ Len(Body(m)) \in Nat /\ size = 6 + Len(Body(m))
        /\ m.type \in Uint16 /\ m.type \in Nat /\ Len(Body(m)) >= 4 /\ size \in Nat
    <2>1. /\ Body(m) \in Seq(Byte) /\ Len(Body(m)) \in Nat /\ size = 6 + Len(Body(m))
          /\ m.type \in Uint16
      BY <1>2, MessageTypes
    <2>2. m.type \in Nat
      BY <2>1, RangeFacts
    <2>3. Len(Body(m)) >= 4
      <3>1. m.type # DiscoveryType /\ m.data \in Seq(Byte) /\ m.id \in Uint16
        BY <1>2, MessageTypes DEF IsForeign
      <3>2. Len(DataBody(m.id, m.data)) = 4 + Len(m.data) /\ Len(m.data) \in Nat
        BY <3>1, BodyFacts, SeqFacts
      <3>3. Body(m) = DataBody(m.id, m.data)
        BY <3>1 DEF Body
      <3> QED BY <3>2, <3>3
    <2> QED BY <2>1, <2>2, <2>3
  <1>6. size <= Len(d) /\ Len(d) \in Nat /\ TotalSize(list) = 10 + Len(d)
    <2>1. Len(bytes[1]) <= Len(d)
      <3> HIDE DEF bytes
      <3>1. 1 \in 1 .. Len(bytes)
        BY <1>2
      <3> QED BY <1>3, <3>1, PartsFit
    <2> QED BY <1>2, <2>1, ContentFacts
  <1>7. /\ c \in Seq(Byte) /\ Len(c) = 6 /\ FlattenSeq(Fields(m)) = c \o Body(m)
    <2>1. c \in Seq(Byte) /\ Len(c) = 4 + 2
      BY <1>5, PairFields
    <2>2. FlattenSeq(Fields(m)) = c \o Body(m)
      BY <1>2, FieldsFacts
    <2> HIDE DEF c, m
    <2> QED BY <2>1, <2>2
  <1>8. c \in Seq(Cell) /\ Stands(c, b, 6)
    <2> DEFINE body == Body(m)
    <2> HIDE DEF c, body
    <2>1. c \in Seq(Cell) /\ body \in Seq(Cell)
      BY <1>1, <1>5, <1>7, Widen DEF body
    <2>2. Stands(c \o body, b, 6)
      BY <1>2, <1>4, <1>7 DEF body
    <2> QED BY <2>1, <2>2, StandsConcat
  <1>9. Holds(size, 4) /\ Holds(m.type, 2)
    <2>1. size \in Uint32
      <3> HIDE DEF d, size
      <3> QED BY <1>1, <1>5, <1>6, SmallerFits
    <2> HIDE DEF size
    <2> QED BY <1>5, <2>1 DEF Holds
  <1> DEFINE header == ReadInts(r, <<4, 2>>)
  <1>10. header = ReaderAt(b, 12, ns) /\ header.value[2] = m.type
    <2>1. ReadInts(ReaderAt(b, 6, value), <<4, 2>>) = ReaderAt(b, 6 + (4 + 2), ns)
      BY <1>1, <1>5, <1>8, <1>9, PairRead
    <2>2. header = ReaderAt(b, 12, ns)
      BY <2>1
    <2> HIDE DEF header
    <2>3. header.value = ns
      BY <2>2 DEF ReaderAt
    <2> QED BY <2>2, <2>3
  <1>11. Left(r) >= MessageHeaderSize /\ ~ (Left(r) < MessageHeaderSize)
    <2>1. Left(r) >= Len(c)
      BY <1>8, LeftFacts
    <2>2. Left(r) \in Int
      <3>1. Left(r) = Len(b) - 6
        BY DEF Left, ReaderAt
      <3> HIDE DEF r
      <3> QED BY <3>1, SeqFacts
    <2> HIDE DEF r, c
    <2> QED BY <1>7, <2>1, <2>2 DEF MessageHeaderSize
  <1>12. ReadMessage(r) = Fail(header)
    <2>1. m.type # DiscoveryType /\ m.type # DataType
      BY DEF IsForeign
    <2> HIDE DEF r, m
    <2> QED BY <1>10, <1>11, <2>1 DEF ReadMessage, header
  <1>13. Fail(ReaderAt(b, 12, ns)) = FailedAt(b, 12, ns)
    BY FailFacts
  <1>14. TotalSize(list) >= 20
    <2> HIDE DEF size, d
    <2> QED BY <1>5, <1>6
  <1> QED BY <1>2, <1>10, <1>12, <1>13, <1>14

LEMMA ForeignStops ==
    ASSUME NEW list \in MessageLists, IsForeign(list), Fits(list),
           NEW b \in Seq(Cell), Stands(Encode(list), b, 0), NEW value
    PROVE  \E v : ReadMessages(ReaderAt(b, 6, value), Len(list)) = FailedAt(b, 12, v)
  <1> DEFINE r == ReaderAt(b, 6, value)
             n == Len(list)
             f == CHOOSE f : MessagesRead(f, r, n)
             x == <<EncodedSize(list[1]), list[1].type>>
  <1>1. n \in Nat \ {0} /\ ReadMessage(ReaderAt(b, 6, << >>)) = FailedAt(b, 12, x)
    BY ForeignFacts
  <1>2. MessagesRead(f, r, n)
    <2> HIDE DEF r
    <2>1. n \in Nat
      BY <1>1
    <2> QED BY <2>1, MessagesReadExists
  <1>3. ReadMessages(r, n) = f[n]
    BY DEF ReadMessages, ReadSeq, MessagesRead, MessageTurn, MessageItem
  <1>4. Read(r, << >>, 0) = ReaderAt(b, 6, << >>)
    BY ReadFacts
  <1> HIDE DEF f, r, n, x
  <1>5. f[0] = ReaderAt(b, 6, << >>) /\ \A i \in 1 .. n : f[i] = MessageTurn(f[i - 1])
    <2>1. \A i \in 0 .. n : f[i] = IF i = 0 THEN Read(r, << >>, 0) ELSE MessageTurn(f[i - 1])
      BY <1>2 DEF MessagesRead
    <2>2. 0 \in 0 .. n /\ \A i \in 1 .. n : i \in 0 .. n /\ i # 0
      BY <1>1
    <2> QED BY <1>4, <2>1, <2>2
  <1>6. \E v : f[1] = FailedAt(b, 12, v)
    <2> DEFINE start == ReaderAt(b, 6, << >>)
    <2>1. MessageItem(start) = FailedAt(b, 12, x)
      <3>1. start.ok = Fine
        BY DEF ReaderAt
      <3>2. ReadMessage(start) = FailedAt(b, 12, x)
        BY <1>1
      <3> HIDE DEF start
      <3> QED BY <3>1, <3>2, Zenon DEF MessageItem, Fine
    <2>2. f[1] = MessageTurn(start)
      <3>1. 1 \in 1 .. n /\ 1 - 1 = 0
        BY <1>1
      <3> QED BY <1>5, <3>1
    <2> HIDE DEF start
    <2>3. ASSUME NEW v PROVE Read(FailedAt(b, 12, x), v, 0) = FailedAt(b, 12, v)
      BY FailFacts
    <2> QED BY <2>1, <2>2, <2>3 DEF MessageTurn
  <1> DEFINE T == {i \in 0 .. n : i # 0 => \E v : f[i] = FailedAt(b, 12, v)}
  <1>7. 0 \in T
    BY <1>1
  <1>8. ASSUME NEW i \in 1 .. n, i - 1 \in T PROVE i \in T
    <2>1. CASE i = 1
      BY <1>1, <1>6, <2>1
    <2>2. CASE i # 1
      <3>1. i - 1 # 0 /\ i \in 0 .. n
        BY <1>1, <2>2
      <3>2. PICK v : f[i - 1] = FailedAt(b, 12, v)
        BY <1>8, <3>1
      <3>3. f[i] = MessageTurn(FailedAt(b, 12, v))
        BY <1>5, <3>2
      <3>4. MessageItem(FailedAt(b, 12, v)) = FailedAt(b, 12, v)
        BY FailFacts
      <3>5. ASSUME NEW y PROVE Read(FailedAt(b, 12, v), y, 0) = FailedAt(b, 12, y)
        BY FailFacts
      <3>6. \E y : f[i] = FailedAt(b, 12, y)
        BY <3>3, <3>4, <3>5 DEF MessageTurn
      <3> QED BY <3>1, <3>6
    <2> QED BY <2>1, <2>2
  <1>9. n \in T
    <2>1. n \in 0 .. n /\ n \in Nat
      BY <1>1
    <2> HIDE DEF T
    <2> QED BY <1>7, <1>8, <2>1, Upwards
  <1> QED BY <1>1, <1>3, <1>9 DEF r, n

(* What decode makes of a packet it does not understand: it stops behind   *)
(* the header of its first message.                                        *)
LEMMA ForeignDecode ==
    ASSUME NEW list \in MessageLists, IsForeign(list), Fits(list),
           NEW b \in Seq(Cell), Stands(Encode(list), b, 0)
    PROVE  Decode(b) = [ok |-> FALSE, list |-> << >>, read |-> 12]
  <1> DEFINE total == TotalSize(list)
             ns == <<total, Len(list)>>
             head == ReadInts(Reader(b), <<4, 2>>)
             messages == ReadMessages(head, head.value[2])
  <1>1. /\ Wide(Cell) /\ Stands(FlattenSeq(Pair(total, 4, Len(list), 2)), b, 0)
        /\ Holds(total, 4) /\ Holds(Len(list), 2)
    BY PacketCells, PacketFacts
  <1>2. total \in Nat /\ Len(list) \in Nat
    BY ContentFacts
  <1>3. Reader(b) = ReaderAt(b, 0, 0)
    BY Zenon DEF Reader, ReaderAt, Fine
  <1>4. IsValid(b)
    BY PacketIsValid
  <1>5. head = ReaderAt(b, 6, ns) /\ head.value[2] = Len(list)
    <2>1. ReadInts(ReaderAt(b, 0, 0), <<4, 2>>) = ReaderAt(b, 0 + (4 + 2), ns)
      <3> HIDE DEF total
      <3> QED BY <1>1, <1>2, PairRead
    <2>2. head = ReaderAt(b, 6, ns)
      BY <1>3, <2>1
    <2> HIDE DEF head
    <2>3. head.value = ns
      BY <2>2 DEF ReaderAt
    <2> QED BY <2>2, <2>3
  <1> HIDE DEF ns, head
  <1>6. PICK v : messages = FailedAt(b, 12, v)
    <2>1. \E v : ReadMessages(ReaderAt(b, 6, ns), Len(list)) = FailedAt(b, 12, v)
      BY ForeignStops
    <2> QED BY <1>5, <2>1
  <1> HIDE DEF messages
  <1>7. messages.ok = Broken /\ messages.at = 12
    BY <1>6 DEF FailedAt
  <1>8. ~messages.ok
    BY <1>7, Zenon DEF Broken
  <1>9. Decode(b) = [ok |-> FALSE, list |-> << >>, read |-> messages.at]
    BY <1>4, <1>8, Zenon DEF Decode, head, messages
  <1> QED BY <1>7, <1>9, Zenon

(* A packet declares its size.                                             *)
LEMMA PacketDeclares ==
    ASSUME NEW list \in MessageLists, Fits(list),
           NEW b \in Seq(Cell), Stands(Encode(list), b, 0)
    PROVE  Declared(b) = TotalSize(list)
  <1> DEFINE total == TotalSize(list)
             x == Bytes(total, 4)
  <1>1. Wide(Cell) /\ Stands(x, b, 0) /\ Holds(total, 4) /\ total <= Len(b)
    BY PacketCells, PacketFacts
  <1>2. total \in Nat /\ total >= 10 /\ Len(b) \in Nat
    BY ContentFacts, SeqFacts
  <1>3. x \in Seq(Byte) /\ Len(x) = 4 /\ Value(x) = total
    <2> HIDE DEF total
    <2> QED BY <1>1, <1>2, BytesFacts
  <1> HIDE DEF x, total
  <1>4. SubSeq(b, 1, 4) = x
    <2>1. x \in Seq(Cell)
      BY <1>1, <1>3, Widen
    <2>2. SubSeq(b, 0 + 1, 0 + Len(x)) = x
      BY <1>1, <2>1, StandsAt
    <2> QED BY <1>3, <2>2
  <1>5. ~ (Len(b) < 4)
    BY <1>1, <1>2
  <1>6. Declared(b) = total
    BY <1>3, <1>4, <1>5 DEF Declared, SizeFieldSize
  <1> QED BY <1>6 DEF total

(* Zero bytes, as many as a size takes: the size they declare is zero, and *)
(* no checksum is right, because that of no bytes is not zero.             *)
ZeroRun(n) == [i \in 1 .. n |-> 0]

LEMMA ZeroRunFacts ==
    ASSUME NEW n \in Nat
    PROVE  /\ ZeroRun(n) \in Seq(Byte) /\ Len(ZeroRun(n)) = n
           /\ \A i \in 1 .. n : ZeroRun(n)[i] = 0
  <1>1. 0 \in Byte
    BY RangeFacts
  <1> QED BY <1>1 DEF ZeroRun

LEMMA ZerosDecode ==
    ASSUME NEW b \in Seq(Cell), Len(b) >= 4, \A i \in 1 .. 4 : b[i] = 0
    PROVE  /\ Declared(b) = 0
           /\ Decode(b) = [ok |-> FALSE, list |-> << >>, read |-> 0]
  <1> DEFINE z == SubSeq(b, 1, 4)
             r == Reader(b)
             size == ReadInt(r, SizeFieldSize).value
             message == ReadBuffer(r, size - ChecksumSize)
  <1>1. /\ Len(b) \in Nat /\ z \in Seq(Cell) /\ Len(z) = 4
        /\ z[1] = 0 /\ z[2] = 0 /\ z[3] = 0 /\ z[4] = 0
    <2>1. Len(b) \in Nat /\ 4 \in 0 .. Len(b)
      BY SeqFacts
    <2>2. /\ Begin(b, 4) \in Seq(Cell) /\ Len(Begin(b, 4)) = 4
          /\ \A i \in 1 .. 4 : Begin(b, 4)[i] = b[i]
      <3> DEFINE k == 4
      <3>1. k \in 0 .. Len(b)
        BY <2>1
      <3> HIDE DEF k
      <3>2. /\ Begin(b, k) \in Seq(Cell) /\ Len(Begin(b, k)) = k
            /\ \A i \in 1 .. k : Begin(b, k)[i] = b[i]
        BY <3>1, BeginFacts
      <3> QED BY <3>2 DEF k
    <2>3. 1 \in 1 .. 4 /\ 2 \in 1 .. 4 /\ 3 \in 1 .. 4 /\ 4 \in 1 .. 4
      OBVIOUS
    <2> HIDE DEF z
    <2>4. z = Begin(b, 4)
      BY DEF z, Begin
    <2> QED BY <2>1, <2>2, <2>3, <2>4
  <1> HIDE DEF z
  <1>2. Value(z) = 0
    <2>1. \A i \in 1 .. 4 : z[i] \in Int
      <3>1. \A i \in 1 .. 4 : i = 1 \/ i = 2 \/ i = 3 \/ i = 4
        OBVIOUS
      <3> QED BY <1>1, <3>1
    <2>2. Value(z) = 16777216 * z[1] + 65536 * z[2] + 256 * z[3] + z[4]
      BY <1>1, <2>1, ValueOfFour
    <2> QED BY <1>1, <2>2, SMT
  <1>3. Declared(b) = 0
    <2>1. ~ (Len(b) < 4)
      BY <1>1
    <2> QED BY <1>2, <2>1 DEF Declared, SizeFieldSize, z
  <1>4. r = ReaderAt(b, 0, 0)
    BY Zenon DEF Reader, ReaderAt, Fine
  <1>5. r.bytes = b /\ r.at = 0
    BY <1>4 DEF ReaderAt
  <1> HIDE DEF r
  <1>6. size = 0
    <2>1. Left(r) >= 4
      BY <1>1, <1>5 DEF Left
    <2>2. NextBytes(r, 4) = z
      BY <1>5 DEF NextBytes, z
    <2>3. ReadInt(r, 4) = Read(r, 0, 4)
      BY <1>2, <2>1, <2>2 DEF ReadInt
    <2>4. Read(r, 0, 4) = ReaderAt(b, 0 + 4, 0)
      BY <1>4, ReadFacts
    <2>5. ReaderAt(b, 0 + 4, 0).value = 0
      BY DEF ReaderAt
    <2> QED BY <2>3, <2>4, <2>5 DEF SizeFieldSize
  <1> HIDE DEF size
  <1>7. message = ReaderAt(b, 0, << >>)
    <2>1. ~ (size - ChecksumSize >= 0)
      BY <1>6 DEF ChecksumSize
    <2>2. message = Read(r, << >>, 0)
      BY <2>1 DEF ReadBuffer
    <2>3. Read(r, << >>, 0) = ReaderAt(b, 0, << >>)
      BY <1>4, ReadFacts
    <2> QED BY <2>2, <2>3
  <1> HIDE DEF message
  <1>8. NextBytes(message, 4) = z /\ message.value = << >>
    <2>1. message.bytes = b /\ message.at = 0 /\ message.value = << >>
      BY <1>7 DEF ReaderAt
    <2> QED BY <2>1 DEF NextBytes, z
  <1>9. z = [i \in 1 .. ChecksumSize |-> 0]
    <2> DEFINE y == [i \in 1 .. 4 |-> 0]
    <2>1. z = [i \in 1 .. 4 |-> z[i]]
      BY <1>1
    <2>2. \A i \in 1 .. 4 : z[i] = 0
      <3>1. \A i \in 1 .. 4 : i = 1 \/ i = 2 \/ i = 3 \/ i = 4
        OBVIOUS
      <3> QED BY <1>1, <3>1
    <2> QED BY <2>1, <2>2 DEF ChecksumSize
  <1>10. ~IsValid(b)
    <2>1. NextBytes(message, ChecksumSize) # Bytes(Digest(message.value), ChecksumSize)
      <3>1. NextBytes(message, ChecksumSize) = [i \in 1 .. ChecksumSize |-> 0]
        BY <1>8, <1>9 DEF ChecksumSize
      <3>2. Digest(message.value) = Digest(<< >>)
        BY <1>8
      <3> QED BY <3>1, <3>2, EmptyDigest, Zenon
    <2> QED BY <2>1, Zenon DEF IsValid, message, size, r
  <1>11. Decode(b) = [ok |-> FALSE, list |-> << >>, read |-> 0]
    BY <1>10, Zenon DEF Decode
  <1> QED BY <1>3, <1>11

-----------------------------------------------------------------------------
(* The segments of a stream that only whole datagrams have reached, with   *)
(* the bytes each stands for; those of the buffer are these in a row.      *)
ZeroSegments == [kind: {"zeros"}, len: {n \in Nat : n >= 8}, declared: {0}]
ListSegments ==
    {x \in [name: Lists, kind: {"packet", "foreign"}, len: Nat, declared: Nat] :
        /\ Fits(x.name) /\ x.kind = Kind(x.name)
        /\ x.len = TotalSize(x.name) /\ x.declared = x.len}
Held == ZeroSegments \cup ListSegments

PartOf(x) == IF x.kind = "zeros" THEN ZeroRun(x.len) ELSE Encode(x.name)
Parts(held) == [i \in 1 .. Len(held) |-> PartOf(held[i])]
BufferOf(held) == FlattenSeq(Parts(held))

LEMMA HeldFacts ==
    ASSUME NEW x \in Held
    PROVE  /\ x.len \in Nat /\ x.declared \in Nat /\ x.len >= 8
           /\ PartOf(x) \in Seq(Cell) /\ Len(PartOf(x)) = x.len
           /\ \/ x.kind = "zeros" /\ x.declared = 0 /\ PartOf(x) = ZeroRun(x.len)
              \/ /\ x.kind = "packet" /\ IsUnderstood(x.name) /\ x.name \in Lists
                 /\ x.name \in MessageLists /\ Fits(x.name)
                 /\ x.declared = x.len /\ x.len = TotalSize(x.name)
                 /\ x.len >= 10 /\ PartOf(x) = Encode(x.name)
              \/ /\ x.kind = "foreign" /\ IsForeign(x.name) /\ x.name \in Lists
                 /\ x.name \in MessageLists /\ Fits(x.name)
                 /\ x.declared = x.len /\ x.len = TotalSize(x.name)
                 /\ x.len >= 20 /\ PartOf(x) = Encode(x.name)
  <1>1. CASE x \in ZeroSegments
    <2>1. x.kind = "zeros" /\ x.len \in Nat /\ x.len >= 8 /\ x.declared = 0
      BY <1>1 DEF ZeroSegments
    <2>2. PartOf(x) = ZeroRun(x.len)
      BY <2>1 DEF PartOf
    <2>3. ZeroRun(x.len) \in Seq(Byte) /\ Len(ZeroRun(x.len)) = x.len
      BY <2>1, ZeroRunFacts
    <2>4. \A s \in Seq(Byte) : s \in Seq(Cell)
      BY DEF Cell
    <2> QED BY <2>1, <2>2, <2>3, <2>4
  <1>2. CASE x \in ListSegments
    <2>1. /\ x.name \in Lists /\ x.kind \in {"packet", "foreign"} /\ x.len \in Nat
          /\ Fits(x.name) /\ x.kind = Kind(x.name)
          /\ x.len = TotalSize(x.name) /\ x.declared = x.len
      BY <1>2 DEF ListSegments
    <2>2. x.name \in MessageLists
      BY <2>1, ListsTyped
    <2>3. PartOf(x) = Encode(x.name)
      BY <2>1 DEF PartOf
    <2>4. PartOf(x) \in Seq(Cell) /\ Len(PartOf(x)) = x.len
      BY <2>1, <2>2, <2>3, PacketCells
    <2>5. x.len >= 10
      BY <2>1, <2>2, ContentFacts
    <2>6. CASE x.kind = "packet"
      <3>1. ~IsForeign(x.name)
        BY <2>1, <2>6, Zenon DEF Kind, IsForeign
      <3>2. IsUnderstood(x.name)
        <4>1. CASE x.name = << >>
          BY <4>1 DEF IsUnderstood
        <4>2. CASE x.name # << >>
          BY <2>1, <3>1, <4>2, UnknownComesFirst DEF IsForeign
        <4> QED BY <4>1, <4>2
      <3> QED BY <2>1, <2>2, <2>3, <2>4, <2>5, <2>6, <3>2
    <2>7. CASE x.kind = "foreign"
      <3>1. IsForeign(x.name)
        BY <2>1, <2>7, Zenon DEF Kind, IsForeign
      <3>2. Encode(x.name) \in Seq(Cell) /\ Stands(Encode(x.name), Encode(x.name), 0)
        BY <2>1, <2>2, PacketCells
      <3>3. x.len >= 20
        BY <2>1, <2>2, <3>1, <3>2, ForeignFacts
      <3> QED BY <2>1, <2>2, <2>3, <2>4, <2>5, <2>7, <3>1, <3>3
    <2> QED BY <2>1, <2>6, <2>7
  <1> QED BY <1>1, <1>2 DEF Held

LEMMA PartsFacts ==
    ASSUME NEW held \in Seq(Held)
    PROVE  /\ Parts(held) \in Seq(Seq(Cell)) /\ Len(Parts(held)) = Len(held)
           /\ \A i \in 1 .. Len(held) : Parts(held)[i] = PartOf(held[i])
           /\ BufferOf(held) \in Seq(Cell) /\ Len(BufferOf(held)) \in Nat
  <1>1. Len(held) \in Nat /\ \A i \in 1 .. Len(held) : held[i] \in Held
    BY SeqFacts
  <1>2. \A i \in 1 .. Len(held) : PartOf(held[i]) \in Seq(Cell)
    BY <1>1, HeldFacts
  <1> DEFINE E == Seq(Cell)
  <1>3. /\ Parts(held) \in Seq(E) /\ Len(Parts(held)) = Len(held)
        /\ \A i \in 1 .. Len(held) : Parts(held)[i] = PartOf(held[i])
    <2>1. \A i \in 1 .. Len(held) : PartOf(held[i]) \in E
      BY <1>2
    <2> HIDE DEF E
    <2> QED BY <1>1, <2>1 DEF Parts
  <1>4. BufferOf(held) \in Seq(Cell)
    <2>1. Parts(held) \in Seq(Seq(Cell))
      BY <1>3
    <2> QED BY <2>1, FlattenFacts DEF BufferOf
  <1> QED BY <1>3, <1>4, SeqFacts

\* The segments behind the k-th.
Behind(held, k) == SubSeq(held, k + 1, Len(held))

LEMMA BehindFacts ==
    ASSUME NEW S, NEW s \in Seq(S), NEW k \in 0 .. Len(s)
    PROVE  /\ Behind(s, k) \in Seq(S) /\ Len(Behind(s, k)) = Len(s) - k
           /\ \A i \in 1 .. Len(s) - k : Behind(s, k)[i] = s[k + i]
           /\ Behind(s, 0) = s
           /\ Behind(s, Len(s)) = << >>
           /\ k < Len(s) => Behind(s, k) = <<s[k + 1]>> \o Behind(s, k + 1)
  <1>1. ASSUME NEW j \in 0 .. Len(s)
        PROVE  /\ Behind(s, j) \in Seq(S) /\ Len(Behind(s, j)) = Len(s) - j
               /\ \A i \in 1 .. Len(s) - j : Behind(s, j)[i] = s[j + i]
    BY DEF Behind
  <1>2. Len(s) \in Nat /\ 0 \in 0 .. Len(s) /\ Len(s) \in 0 .. Len(s)
    BY SeqFacts
  <1>3. Behind(s, 0) = s
    <2> DEFINE t == Behind(s, 0)
    <2>1. t \in Seq(S) /\ Len(t) = Len(s) /\ \A i \in 1 .. Len(t) : t[i] = s[i]
      BY <1>1, <1>2
    <2> HIDE DEF t
    <2>2. t = s
      BY <2>1, SameSequence
    <2> QED BY <2>2 DEF t
  <1>4. Behind(s, Len(s)) = << >>
    BY <1>1, <1>2, SeqFacts
  <1>5. ASSUME k < Len(s) PROVE Behind(s, k) = <<s[k + 1]>> \o Behind(s, k + 1)
    <2> DEFINE t == Behind(s, k)
               u == Behind(s, k + 1)
               x == s[k + 1]
               v == <<x>> \o u
    <2>1. k + 1 \in 0 .. Len(s) /\ x \in S /\ k \in Nat
      BY <1>2, <1>5
    <2>2. /\ t \in Seq(S) /\ Len(t) = Len(s) - k
          /\ \A i \in 1 .. Len(s) - k : t[i] = s[k + i]
      BY <1>1
    <2>3. /\ u \in Seq(S) /\ Len(u) = Len(s) - (k + 1)
          /\ \A i \in 1 .. Len(s) - (k + 1) : u[i] = s[(k + 1) + i]
      BY <1>1, <2>1
    <2> HIDE DEF t, u
    <2>4. <<x>> \in Seq(S) /\ Len(<<x>>) = 1 /\ <<x>>[1] = x
      BY <2>1
    <2> DEFINE one == <<x>>
    <2> HIDE DEF one, x
    <2>5. /\ one \o u \in Seq(S) /\ Len(one \o u) = Len(one) + Len(u)
          /\ \A i \in 1 .. Len(one) : (one \o u)[i] = one[i]
          /\ \A i \in 1 .. Len(u) : (one \o u)[Len(one) + i] = u[i]
      <3>1. one \in Seq(S) /\ u \in Seq(S)
        BY <2>3, <2>4 DEF one
      <3> QED BY <3>1, ConcatFacts
    <2>6. v = one \o u /\ one[1] = x /\ Len(one) = 1
      BY <2>4 DEF one
    <2> HIDE DEF v
    <2>7. v \in Seq(S) /\ Len(v) = Len(t)
      BY <1>2, <2>1, <2>2, <2>3, <2>5, <2>6
    <2>8. ASSUME NEW i \in 1 .. Len(t) PROVE t[i] = v[i]
      <3>1. t[i] = s[k + i]
        BY <2>2
      <3>2. CASE i = 1
        <4>1. v[1] = x
          BY <2>5, <2>6
        <4> QED BY <3>1, <3>2, <4>1 DEF x
      <3>3. CASE i # 1
        <4>1. i - 1 \in 1 .. Len(u) /\ (k + 1) + (i - 1) = k + i /\ 1 + (i - 1) = i
          BY <1>2, <2>1, <2>2, <2>3, <3>3
        <4>2. v[1 + (i - 1)] = u[i - 1]
          BY <2>5, <2>6, <4>1
        <4>3. u[i - 1] = s[(k + 1) + (i - 1)]
          BY <2>3, <4>1
        <4> QED BY <3>1, <4>1, <4>2, <4>3
      <3> QED BY <3>2, <3>3
    <2>9. t = v
      BY <2>2, <2>7, <2>8, SameSequence
    <2> QED BY <2>9 DEF t, v, u, x
  <1> QED BY <1>1, <1>3, <1>4, <1>5

(* The bytes of a segment come first, then those of what is behind it.     *)
LEMMA BufferAppends ==
    ASSUME NEW s \in Seq(Held), NEW t \in Seq(Held)
    PROVE  /\ BufferOf(<< >>) = << >>
           /\ BufferOf(s \o t) = BufferOf(s) \o BufferOf(t)
           /\ \A x \in Held : BufferOf(<<x>>) = PartOf(x)
  <1> DEFINE E == Seq(Cell)
             p == Parts(s)
             q == Parts(t)
             r == Parts(s \o t)
  <1>1. p \in Seq(E) /\ Len(p) = Len(s) /\ \A i \in 1 .. Len(s) : p[i] = PartOf(s[i])
    BY PartsFacts
  <1>2. q \in Seq(E) /\ Len(q) = Len(t) /\ \A i \in 1 .. Len(t) : q[i] = PartOf(t[i])
    BY PartsFacts
  <1>3. /\ s \o t \in Seq(Held) /\ Len(s \o t) = Len(s) + Len(t)
        /\ \A i \in 1 .. Len(s) : (s \o t)[i] = s[i]
        /\ \A i \in 1 .. Len(t) : (s \o t)[Len(s) + i] = t[i]
    BY ConcatFacts
  <1> DEFINE u == s \o t
  <1>4. /\ r \in Seq(E) /\ Len(r) = Len(u) /\ \A i \in 1 .. Len(u) : r[i] = PartOf(u[i])
    <2>1. u \in Seq(Held)
      BY <1>3
    <2> HIDE DEF u
    <2>2. /\ Parts(u) \in Seq(Seq(Cell)) /\ Len(Parts(u)) = Len(u)
          /\ \A i \in 1 .. Len(u) : Parts(u)[i] = PartOf(u[i])
      BY <2>1, PartsFacts
    <2> QED BY <2>2 DEF u
  <1>5. Len(s) \in Nat /\ Len(t) \in Nat
    BY SeqFacts
  <1> HIDE DEF E, p, q, r, u
  <1>6. /\ p \o q \in Seq(E) /\ Len(p \o q) = Len(p) + Len(q)
        /\ \A i \in 1 .. Len(p) : (p \o q)[i] = p[i]
        /\ \A i \in 1 .. Len(q) : (p \o q)[Len(p) + i] = q[i]
    <2>1. p \in Seq(E) /\ q \in Seq(E)
      BY <1>1, <1>2
    <2> QED BY <2>1, ConcatFacts
  <1> DEFINE v == p \o q
  <1> HIDE DEF v
  <1>7. r = v
    <2>1. v \in Seq(E) /\ Len(v) = Len(r)
      BY <1>1, <1>2, <1>3, <1>4, <1>6 DEF v, u
    <2>2. ASSUME NEW i \in 1 .. Len(r) PROVE r[i] = v[i]
      <3>1. i \in 1 .. Len(s) + Len(t) /\ r[i] = PartOf(u[i])
        BY <1>3, <1>4 DEF u
      <3>2. CASE i \in 1 .. Len(s)
        <4>1. u[i] = s[i]
          BY <1>3, <3>2 DEF u
        <4>2. v[i] = p[i]
          BY <1>1, <1>6, <3>2 DEF v
        <4>3. p[i] = PartOf(s[i])
          BY <1>1, <3>2
        <4> QED BY <3>1, <4>1, <4>2, <4>3
      <3>3. CASE i \notin 1 .. Len(s)
        <4> DEFINE j == i - Len(s)
        <4>1. j \in 1 .. Len(t) /\ i = Len(s) + j
          BY <1>5, <3>1, <3>3
        <4> HIDE DEF j
        <4>2. u[i] = t[j]
          BY <1>3, <4>1 DEF u
        <4>3. v[i] = q[j]
          BY <1>1, <1>2, <1>6, <4>1 DEF v
        <4>4. q[j] = PartOf(t[j])
          BY <1>2, <4>1
        <4> QED BY <3>1, <4>2, <4>3, <4>4
      <3> QED BY <3>2, <3>3
    <2> QED BY <1>4, <2>1, <2>2, SameSequence
  <1>8. FlattenSeq(v) = FlattenSeq(p) \o FlattenSeq(q)
    BY <1>1, <1>2, FlattenConcat DEF E, v
  <1>9. BufferOf(s \o t) = BufferOf(s) \o BufferOf(t)
    BY <1>7, <1>8 DEF BufferOf, r, p, q
  <1>10. BufferOf(<< >>) = << >>
    <2>1. Parts(<< >>) = << >>
      <3>1. << >> \in Seq(Held) /\ Len(<< >>) = 0
        OBVIOUS
      <3>2. Parts(<< >>) \in Seq(Seq(Cell)) /\ Len(Parts(<< >>)) = 0
        BY <3>1, PartsFacts
      <3> QED BY <3>2, SeqFacts
    <2>2. FlattenSeq(<< >>) = << >>
      BY <1>1, FlattenFacts DEF E
    <2> QED BY <2>1, <2>2 DEF BufferOf
  <1>11. ASSUME NEW x \in Held PROVE BufferOf(<<x>>) = PartOf(x)
    <2> DEFINE one == <<x>>
               w == Parts(one)
    <2>1. one \in Seq(Held) /\ Len(one) = 1 /\ one[1] = x
      OBVIOUS
    <2> HIDE DEF one
    <2>2. w \in Seq(Seq(Cell)) /\ Len(w) = 1 /\ w[1] = PartOf(x)
      <3>1. 1 \in 1 .. Len(one)
        BY <2>1
      <3>2. /\ w \in Seq(Seq(Cell)) /\ Len(w) = Len(one)
            /\ \A i \in 1 .. Len(one) : w[i] = PartOf(one[i])
        BY <2>1, PartsFacts
      <3> HIDE DEF w
      <3> QED BY <2>1, <3>1, <3>2
    <2> HIDE DEF w
    <2>3. 1 \in 1 .. Len(w) /\ 1 - 1 = 0 /\ 1 \in 0 .. Len(w)
      BY <2>2
    <2>4. /\ FlattenSeq(Begin(w, 0)) = << >>
          /\ FlattenSeq(Begin(w, 1)) = FlattenSeq(Begin(w, 0)) \o w[1]
      <3>1. \A k \in 1 .. Len(w) : FlattenSeq(Begin(w, k)) = FlattenSeq(Begin(w, k - 1)) \o w[k]
        BY <2>2, FlattenSteps
      <3>2. FlattenSeq(Begin(w, 0)) = << >>
        BY <2>2, FlattenSteps
      <3>3. FlattenSeq(Begin(w, 1)) = FlattenSeq(Begin(w, 1 - 1)) \o w[1]
        BY <2>3, <3>1
      <3> QED BY <2>3, <3>2, <3>3
    <2>5. Begin(w, 1) = w
      BY <2>2, <2>3, BeginFacts
    <2>6. << >> \o PartOf(x) = PartOf(x)
      <3>1. PartOf(x) \in Seq(Cell)
        BY HeldFacts
      <3> QED BY <3>1, ConcatFacts
    <2> QED BY <2>2, <2>4, <2>5, <2>6 DEF BufferOf, w, one
  <1> QED BY <1>9, <1>10, <1>11

LEMMA BufferBehind ==
    ASSUME NEW held \in Seq(Held), NEW i \in 1 .. Len(held)
    PROVE  /\ BufferOf(Behind(held, i - 1)) = PartOf(held[i]) \o BufferOf(Behind(held, i))
           /\ Len(BufferOf(Behind(held, i - 1))) = held[i].len + Len(BufferOf(Behind(held, i)))
           /\ BufferOf(Behind(held, i - 1)) \in Seq(Cell) /\ BufferOf(Behind(held, i)) \in Seq(Cell)
  <1> DEFINE x == held[i]
             t == Behind(held, i)
  <1>1. i - 1 \in 0 .. Len(held) /\ i \in 0 .. Len(held) /\ i - 1 < Len(held) /\ (i - 1) + 1 = i
    BY SeqFacts
  <1>2. x \in Held /\ t \in Seq(Held) /\ Behind(held, i - 1) = <<x>> \o t
    <2>1. x \in Held
      OBVIOUS
    <2>2. t \in Seq(Held)
      BY <1>1, BehindFacts
    <2>3. Behind(held, i - 1) = <<held[(i - 1) + 1]>> \o Behind(held, (i - 1) + 1)
      BY <1>1, BehindFacts
    <2> QED BY <1>1, <2>1, <2>2, <2>3
  <1> HIDE DEF x, t
  <1>3. BufferOf(<<x>> \o t) = PartOf(x) \o BufferOf(t)
    <2>1. <<x>> \in Seq(Held)
      BY <1>2
    <2> DEFINE one == <<x>>
    <2>2. BufferOf(one) = PartOf(x)
      BY <1>2, BufferAppends
    <2>3. BufferOf(one \o t) = BufferOf(one) \o BufferOf(t)
      <3> HIDE DEF one
      <3>1. one \in Seq(Held)
        BY <2>1 DEF one
      <3> QED BY <1>2, <3>1, BufferAppends
    <2> QED BY <2>2, <2>3
  <1>4. PartOf(x) \in Seq(Cell) /\ BufferOf(t) \in Seq(Cell) /\ Len(PartOf(x)) = x.len
    BY <1>2, HeldFacts, PartsFacts
  <1>5. /\ PartOf(x) \o BufferOf(t) \in Seq(Cell)
        /\ Len(PartOf(x) \o BufferOf(t)) = x.len + Len(BufferOf(t))
    BY <1>4, ConcatFacts
  <1> QED BY <1>2, <1>3, <1>4, <1>5 DEF x, t

-----------------------------------------------------------------------------
(* What DataHandler counts and finds in such segments.                     *)
LEMMA Downwards ==
    ASSUME NEW n \in Nat, NEW T, n + 1 \in T, \A i \in 1 .. n : i + 1 \in T => i \in T
    PROVE  \A i \in 1 .. n + 1 : i \in T
  <1> DEFINE U == {d \in 0 .. n : n + 1 - d \in T}
  <1>1. 0 \in U
    OBVIOUS
  <1>2. ASSUME NEW d \in 1 .. n, d - 1 \in U PROVE d \in U
    <2>1. n + 1 - d \in 1 .. n /\ (n + 1 - d) + 1 = n + 1 - (d - 1) /\ d \in 0 .. n
      OBVIOUS
    <2> QED BY <1>2, <2>1
  <1>3. \A d \in 0 .. n : d \in U
    <2> HIDE DEF U
    <2> QED BY <1>1, <1>2, Upwards
  <1>4. ASSUME NEW i \in 1 .. n + 1 PROVE i \in T
    <2>1. n + 1 - i \in 0 .. n /\ n + 1 - (n + 1 - i) = i
      OBVIOUS
    <2> QED BY <1>3, <2>1
  <1> QED BY <1>4

Counts(f, held, k) ==
    f = [j \in k .. Len(held) + 1 |->
           IF j > Len(held) THEN 0 ELSE held[j].len + f[j + 1]]

LEMMA CountsExists ==
    ASSUME NEW held, Len(held) \in Nat
    PROVE  \E f : Counts(f, held, 1)
  <1> DEFINE n == Len(held)
             T == {k \in 1 .. n + 1 : \E f : Counts(f, held, k)}
  <1>1. n + 1 \in T
    <2> DEFINE f == [j \in n + 1 .. n + 1 |-> 0]
    <2>1. Counts(f, held, n + 1)
      BY DEF Counts
    <2> QED BY <2>1
  <1>2. ASSUME NEW k \in 1 .. n, k + 1 \in T PROVE k \in T
    <2>1. PICK f : Counts(f, held, k + 1)
      BY <1>2
    <2> DEFINE g == [j \in k .. n + 1 |-> IF j = k THEN held[k].len + f[k + 1] ELSE f[j]]
    <2>2. ASSUME NEW j \in k .. n + 1
          PROVE  g[j] = IF j > n THEN 0 ELSE held[j].len + g[j + 1]
      <3>1. CASE j = k
        <4>1. k + 1 \in k .. n + 1 /\ k + 1 # k /\ ~ (j > n)
          BY <3>1
        <4> QED BY <3>1, <4>1
      <3>2. CASE j # k
        <4>1. j \in k + 1 .. n + 1 /\ (~ (j > n) => j + 1 \in k .. n + 1 /\ j + 1 # k)
          BY <3>2
        <4>2. f[j] = IF j > n THEN 0 ELSE held[j].len + f[j + 1]
          BY <2>1, <4>1 DEF Counts
        <4>3. g[j] = f[j] /\ (~ (j > n) => g[j + 1] = f[j + 1])
          BY <3>2, <4>1
        <4> HIDE DEF g
        <4> QED BY <4>2, <4>3
      <3> QED BY <3>1, <3>2
    <2>3. Counts(g, held, k)
      <3>1. g = [j \in k .. n + 1 |-> g[j]]
        OBVIOUS
      <3> HIDE DEF g
      <3> QED BY <2>2, <3>1 DEF Counts
    <2> QED BY <2>3
  <1>3. 1 \in T
    <2>1. n \in Nat /\ 1 \in 1 .. n + 1
      OBVIOUS
    <2> HIDE DEF T, n
    <2>2. \A i \in 1 .. n + 1 : i \in T
      BY <1>1, <1>2, <2>1, Downwards
    <2> QED BY <2>1, <2>2
  <1> QED BY <1>3

LEMMA BytesAreCounted ==
    ASSUME NEW held \in Seq(Held)
    PROVE  \A i \in 1 .. Len(held) + 1 :
              D!BytesFrom(held, i) = Len(BufferOf(Behind(held, i - 1)))
  <1> DEFINE n == Len(held)
             f == CHOOSE f : Counts(f, held, 1)
             T == {i \in 1 .. n + 1 : f[i] = Len(BufferOf(Behind(held, i - 1)))}
  <1>1. n \in Nat
    BY SeqFacts
  <1>2. Counts(f, held, 1)
    BY <1>1, CountsExists
  <1>3. \A i : D!BytesFrom(held, i) = f[i]
    BY DEF D!BytesFrom, Counts
  <1> HIDE DEF f
  <1>4. f[n + 1] = 0 /\ \A i \in 1 .. n : f[i] = held[i].len + f[i + 1]
    BY <1>1, <1>2 DEF Counts
  <1>5. n + 1 \in T
    <2>1. Behind(held, n) = << >>
      <3>1. 0 \in 0 .. Len(held)
        BY <1>1
      <3> QED BY <3>1, BehindFacts
    <2>2. BufferOf(<< >>) = << >> /\ Len(<< >>) = 0
      <3>1. BufferOf(<< >>) = << >>
        BY BufferAppends
      <3> QED BY <3>1
    <2>3. n + 1 \in 1 .. n + 1 /\ (n + 1) - 1 = n
      BY <1>1
    <2> QED BY <1>4, <2>1, <2>2, <2>3
  <1>6. ASSUME NEW i \in 1 .. n, i + 1 \in T PROVE i \in T
    <2>1. i \in 1 .. n + 1 /\ (i + 1) - 1 = i
      BY <1>1
    <2>2. Len(BufferOf(Behind(held, i - 1))) = held[i].len + Len(BufferOf(Behind(held, i)))
      BY BufferBehind
    <2>3. f[i + 1] = Len(BufferOf(Behind(held, i)))
      BY <1>6, <2>1
    <2>4. f[i] = held[i].len + f[i + 1]
      BY <1>4
    <2> QED BY <2>1, <2>2, <2>3, <2>4
  <1>7. \A i \in 1 .. n + 1 : i \in T
    <2> HIDE DEF T, n
    <2> QED BY <1>1, <1>5, <1>6, Downwards
  <1> QED BY <1>3, <1>7

(* From each place on: a packet is found and what follows behind it, or    *)
(* nothing is found and so much is left.                                   *)
With(name, outcome) == [outcome EXCEPT !.packets = <<name>> \o @]
NoMore(rest) == [packets |-> << >>, rest |-> rest]

LeftBehind(held, k) == Len(BufferOf(Behind(held, k)))
LastRest(held, k) ==
    IF k = Len(held) \/ LeftBehind(held, k) < 10 THEN Behind(held, k)
    ELSE IF held[k + 1].kind = "foreign" THEN D!Zeros(LeftBehind(held, k) - 12) ELSE << >>

\* How many packets come first.
IsLast(held, k) == k = Len(held) \/ held[k + 1].kind # "packet"

LEMMA ZerosHeld ==
    ASSUME NEW n \in Nat, n >= 8
    PROVE  D!Zeros(n) \in Seq(Held) /\ BufferOf(D!Zeros(n)) = ZeroRun(n)
  <1> DEFINE x == [kind |-> "zeros", len |-> n, declared |-> 0]
  <1>1. x \in Held /\ x.kind = "zeros" /\ x.len = n
    BY DEF Held, ZeroSegments
  <1>2. D!Zeros(n) = <<x>>
    BY DEF D!Zeros
  <1> HIDE DEF x
  <1>3. <<x>> \in Seq(Held)
    BY <1>1
  <1>4. BufferOf(<<x>>) = PartOf(x)
    BY <1>1, <1>3, BufferAppends
  <1>5. PartOf(x) = ZeroRun(n)
    BY <1>1 DEF PartOf
  <1> QED BY <1>2, <1>3, <1>4, <1>5

LEMMA LeftFirst ==
    ASSUME NEW held \in Seq(Held), NEW k \in 0 .. Len(held), k < Len(held)
    PROVE  /\ k + 1 \in 1 .. Len(held) /\ held[k + 1] \in Held
           /\ LeftBehind(held, k) \in Nat /\ LeftBehind(held, k) >= held[k + 1].len
           /\ D!BytesFrom(held, k + 1) = LeftBehind(held, k)
           /\ Stands(PartOf(held[k + 1]), BufferOf(Behind(held, k)), 0)
  <1> DEFINE i == k + 1
             b == BufferOf(Behind(held, k))
             t == BufferOf(Behind(held, k + 1))
             x == held[i]
  <1>1. Len(held) \in Nat /\ i \in 1 .. Len(held) /\ i \in 1 .. Len(held) + 1 /\ i - 1 = k
    BY SeqFacts
  <1>2. x \in Held
    BY <1>1
  <1>3. b = PartOf(x) \o t /\ Len(b) = x.len + Len(t) /\ b \in Seq(Cell) /\ t \in Seq(Cell)
    <2>1. /\ BufferOf(Behind(held, i - 1)) = PartOf(held[i]) \o BufferOf(Behind(held, i))
          /\ Len(BufferOf(Behind(held, i - 1))) = held[i].len + Len(BufferOf(Behind(held, i)))
          /\ BufferOf(Behind(held, i - 1)) \in Seq(Cell) /\ BufferOf(Behind(held, i)) \in Seq(Cell)
      BY <1>1, BufferBehind
    <2> QED BY <1>1, <2>1
  <1>4. D!BytesFrom(held, i) = Len(b)
    BY <1>1, BytesAreCounted
  <1>5. PartOf(x) \in Seq(Cell) /\ Len(PartOf(x)) = x.len /\ x.len \in Nat
    BY <1>2, HeldFacts
  <1> HIDE DEF b, t, x
  <1>6. Stands(PartOf(x), b, 0)
    <2>1. \A j \in 1 .. Len(PartOf(x)) : (PartOf(x) \o t)[j] = PartOf(x)[j]
      BY <1>3, <1>5, ConcatFacts
    <2>2. Len(t) \in Nat /\ Len(b) \in Nat
      BY <1>3, SeqFacts
    <2>3. \A j \in 1 .. Len(PartOf(x)) : 0 + j = j
      BY <1>5
    <2> QED BY <1>3, <1>5, <2>1, <2>2, <2>3 DEF Stands
  <1>7. Len(t) \in Nat /\ Len(b) \in Nat
    BY <1>3, SeqFacts
  <1> QED BY <1>1, <1>2, <1>3, <1>4, <1>5, <1>6, <1>7 DEF LeftBehind, b, x

LEMMA ProceedsFacts ==
    ASSUME NEW held \in Seq(Held), NEW k \in 0 .. Len(held), NEW f
    PROVE  /\ ~IsLast(held, k) =>
                D!Proceeds(f, held, k + 1) = With(held[k + 1].name, f[k + 2])
           /\ IsLast(held, k) => D!Proceeds(f, held, k + 1) = NoMore(LastRest(held, k))
           /\ IsLast(held, k) => LastRest(held, k) \in Seq(Held)
  <1>1. Len(held) \in Nat
    BY SeqFacts
  <1>2. CASE k = Len(held)
    <2>1. k + 1 > Len(held) /\ IsLast(held, k)
      BY <1>1, <1>2 DEF IsLast
    <2>2. LastRest(held, k) = << >>
      BY <1>1, <1>2, BehindFacts DEF LastRest
    <2>3. << >> \in Seq(Held)
      OBVIOUS
    <2>4. D!Proceeds(f, held, k + 1) = [packets |-> << >>, rest |-> << >>]
      BY <1>1, <2>1 DEF D!Proceeds
    <2> QED BY <2>1, <2>2, <2>3, <2>4 DEF NoMore
  <1>3. CASE k # Len(held)
    <2> DEFINE i == k + 1
               x == held[i]
               n == LeftBehind(held, k)
    <2>1. k < Len(held) /\ i + 1 = k + 2
      BY <1>1, <1>3
    <2>2. i \in 1 .. Len(held) /\ x \in Held /\ n \in Nat /\ n >= x.len /\ D!BytesFrom(held, i) = n
      BY <2>1, LeftFirst
    <2>3. i <= Len(held) /\ ~ (i > Len(held))
      BY <1>1, <2>2
    <2>4. D!IsIncomplete(held, i) <=> n < 10 \/ n < x.declared
      BY <2>2 DEF D!IsIncomplete, PacketHeaderSize
    <2>5. D!IsWhole(held, i) <=> x.kind = "packet"
      BY DEF D!IsWhole
    <2>6. ~D!IsSplit(held, i)
      <3>1. x.kind # "head"
        BY <2>2, HeldFacts
      <3> HIDE DEF i
      <3> QED BY <3>1 DEF D!IsSplit
    <2>7. CASE x.kind = "packet"
      <3>1. x.len \in Nat /\ x.declared = x.len /\ x.len >= 10
        BY <2>2, <2>7, HeldFacts
      <3> HIDE DEF x, n, i
      <3>2. ~D!IsIncomplete(held, i)
        BY <2>2, <2>4, <3>1
      <3>3. D!Proceeds(f, held, i) = With(held[i].name, f[i + 1])
        BY <2>3, <2>5, <2>6, <2>7, <3>2 DEF D!Proceeds, With
      <3>4. ~IsLast(held, k)
        BY <2>7, <1>3 DEF IsLast, x, i
      <3> QED BY <2>1, <3>3, <3>4 DEF i
    <2>8. CASE x.kind # "packet"
      <3>1. IsLast(held, k)
        BY <2>8 DEF IsLast
      <3>2. CASE n < 10
        <4>1. LastRest(held, k) = SubSeq(held, i, Len(held))
          BY <3>2 DEF LastRest, Behind
        <4>2. LastRest(held, k) \in Seq(Held)
          BY <3>2, BehindFacts DEF LastRest
        <4> HIDE DEF x, n, i
        <4>3. D!Proceeds(f, held, i) = [packets |-> << >>, rest |-> SubSeq(held, i, Len(held))]
          BY <2>3, <2>4, <3>2 DEF D!Proceeds
        <4> QED BY <3>1, <4>1, <4>2, <4>3 DEF NoMore, i
      <3>3. CASE ~ (n < 10)
        <4>1. ~ (n < x.declared)
          <5>1. x.declared = 0 \/ x.declared = x.len
            BY <2>2, HeldFacts
          <5>2. x.len \in Nat
            BY <2>2, HeldFacts
          <5> HIDE DEF x, n
          <5> QED BY <2>2, <5>1, <5>2
        <4>2. ~D!IsIncomplete(held, i)
          BY <2>4, <3>3, <4>1
        <4>3. LastRest(held, k) = D!AfterFailure(held, i)
          <5>1. D!AfterFailure(held, i) = IF x.kind = "foreign" THEN D!Zeros(n - 12) ELSE << >>
            <6>1. SizeFieldSize + 2 + MessageHeaderSize = 12
              BY DEF SizeFieldSize, MessageHeaderSize
            <6> HIDE DEF n, i
            <6> QED BY <2>2, <6>1 DEF D!AfterFailure
          <5> QED BY <1>3, <3>3, <5>1 DEF LastRest
        <4>4. LastRest(held, k) \in Seq(Held)
          <5>1. CASE x.kind = "foreign"
            <6>1. x.len >= 20 /\ x.len \in Nat
              BY <2>2, <5>1, HeldFacts
            <6>2. n - 12 \in Nat /\ n - 12 >= 8
              <7> HIDE DEF x, n
              <7> QED BY <2>2, <6>1
            <6>3. D!Zeros(n - 12) \in Seq(Held)
              BY <6>2, ZerosHeld
            <6> QED BY <1>3, <3>3, <5>1, <6>3 DEF LastRest
          <5>2. CASE x.kind # "foreign"
            <6>1. LastRest(held, k) = << >>
              BY <1>3, <3>3, <5>2 DEF LastRest
            <6> QED BY <6>1
          <5> QED BY <5>1, <5>2
        <4> HIDE DEF x, n, i
        <4>5. D!Proceeds(f, held, i) = [packets |-> << >>, rest |-> D!AfterFailure(held, i)]
          BY <2>3, <2>5, <2>6, <2>8, <4>2 DEF D!Proceeds
        <4> QED BY <3>1, <4>3, <4>4, <4>5 DEF NoMore, i
      <3> QED BY <3>2, <3>3
    <2> QED BY <2>7, <2>8
  <1> QED BY <1>2, <1>3

Runs(f, held, k) == f = [i \in k .. Len(held) + 1 |-> D!Proceeds(f, held, i)]

LEMMA ProceedsAlike ==
    ASSUME NEW held \in Seq(Held), NEW i \in 1 .. Len(held) + 1, NEW f, NEW g,
           i # Len(held) + 1 => f[i + 1] = g[i + 1]
    PROVE  D!Proceeds(f, held, i) = D!Proceeds(g, held, i)
  <1> DEFINE k == i - 1
  <1>1. k \in 0 .. Len(held) /\ k + 1 = i /\ k + 2 = i + 1
    BY SeqFacts
  <1>2. ~IsLast(held, k) => i # Len(held) + 1
    BY <1>1, SeqFacts DEF IsLast
  <1> HIDE DEF k
  <1>3. ASSUME NEW h
        PROVE  /\ ~IsLast(held, k) => D!Proceeds(h, held, k + 1) = With(held[k + 1].name, h[k + 2])
               /\ IsLast(held, k) => D!Proceeds(h, held, k + 1) = NoMore(LastRest(held, k))
    BY <1>1, ProceedsFacts
  <1> QED BY <1>1, <1>2, <1>3

LEMMA RunsExists ==
    ASSUME NEW held \in Seq(Held)
    PROVE  \E f : Runs(f, held, 1)
  <1> DEFINE n == Len(held)
             T == {k \in 1 .. n + 1 : \E f : Runs(f, held, k)}
  <1>1. n \in Nat /\ 1 \in 1 .. n + 1 /\ n + 1 \in 1 .. n + 1
    BY SeqFacts
  <1>2. n + 1 \in T
    <2> DEFINE f == [i \in n + 1 .. n + 1 |-> NoMore(LastRest(held, n))]
    <2>1. f[n + 1] = NoMore(LastRest(held, n))
      BY <1>1
    <2>2. f = [i \in n + 1 .. n + 1 |-> f[i]]
      OBVIOUS
    <2> HIDE DEF f
    <2>3. D!Proceeds(f, held, n + 1) = NoMore(LastRest(held, n))
      <3>1. n \in 0 .. Len(held) /\ IsLast(held, n)
        BY <1>1 DEF IsLast
      <3> QED BY <3>1, ProceedsFacts
    <2>4. \A i \in n + 1 .. n + 1 : f[i] = D!Proceeds(f, held, i)
      <3>1. \A i \in n + 1 .. n + 1 : i = n + 1
        BY <1>1
      <3> QED BY <2>1, <2>3, <3>1
    <2>5. Runs(f, held, n + 1)
      BY <2>2, <2>4 DEF Runs
    <2> QED BY <1>1, <2>5
  <1>3. ASSUME NEW k \in 1 .. n, k + 1 \in T PROVE k \in T
    <2>1. PICK f : Runs(f, held, k + 1)
      BY <1>3
    <2> DEFINE g == [i \in k .. n + 1 |-> IF i = k THEN D!Proceeds(f, held, k) ELSE f[i]]
    <2>2. \A i \in k + 1 .. n + 1 : g[i] = f[i]
      BY <1>1
    <2>3. g[k] = D!Proceeds(f, held, k)
      BY <1>1
    <2>4. g = [i \in k .. n + 1 |-> g[i]]
      OBVIOUS
    <2> HIDE DEF g
    <2>5. ASSUME NEW i \in k .. n + 1 PROVE g[i] = D!Proceeds(g, held, i)
      <3>1. i \in 1 .. n + 1 /\ (i # n + 1 => i + 1 \in k + 1 .. n + 1)
        BY <1>1
      <3>2. D!Proceeds(g, held, i) = D!Proceeds(f, held, i)
        <4>1. i \in 1 .. Len(held) + 1 /\ (i # Len(held) + 1 => g[i + 1] = f[i + 1])
          BY <2>2, <3>1
        <4> QED BY <4>1, ProceedsAlike
      <3>3. CASE i = k
        BY <2>3, <3>2, <3>3
      <3>4. CASE i # k
        <4>1. i \in k + 1 .. n + 1
          BY <1>1, <3>4
        <4>2. f[i] = D!Proceeds(f, held, i)
          BY <2>1, <4>1 DEF Runs
        <4> QED BY <2>2, <3>2, <4>1, <4>2
      <3> QED BY <3>3, <3>4
    <2>6. Runs(g, held, k)
      BY <2>4, <2>5 DEF Runs
    <2>7. k \in 1 .. n + 1
      BY <1>1
    <2> QED BY <2>6, <2>7
  <1>4. 1 \in T
    <2> HIDE DEF T, n
    <2>1. \A i \in 1 .. n + 1 : i \in T
      BY <1>1, <1>2, <1>3, Downwards
    <2> QED BY <1>1, <2>1
  <1> QED BY <1>4

\* So many packets come first, and no more.
Leading(held, w) == IsLast(held, w) /\ \A k \in 0 .. w - 1 : ~IsLast(held, k)
Names(held, w) == [i \in 1 .. w |-> held[i].name]

LEMMA LeadingFacts ==
    ASSUME NEW held \in Seq(Held)
    PROVE  \E w \in 0 .. Len(held) : Leading(held, w)
  <1> DEFINE T == {k \in 0 .. Len(held) : IsLast(held, k)}
  <1>1. Len(held) \in Nat /\ Len(held) \in T /\ T \subseteq Nat
    BY SeqFacts DEF IsLast
  <1>2. PICK w \in T : \A k \in T : w <= k
    <2> HIDE DEF T
    <2> QED BY <1>1, LeastNatural
  <1>3. w \in 0 .. Len(held) /\ IsLast(held, w)
    BY <1>2
  <1>4. ASSUME NEW k \in 0 .. w - 1 PROVE ~IsLast(held, k)
    <2>1. k \in 0 .. Len(held) /\ ~ (w <= k)
      BY <1>1, <1>3
    <2> QED BY <1>2, <2>1
  <1> QED BY <1>3, <1>4 DEF Leading

LEMMA NamesFacts ==
    ASSUME NEW held \in Seq(Held), NEW w \in 0 .. Len(held), Leading(held, w)
    PROVE  /\ \A i \in 1 .. w : /\ held[i] \in Held /\ held[i].kind = "packet"
                               /\ i \in 1 .. Len(held) /\ i - 1 \in 0 .. Len(held)
                               /\ ~IsLast(held, i - 1)
           /\ Names(held, w) \in Seq(Lists) /\ Len(Names(held, w)) = w
           /\ \A i \in 1 .. w : Names(held, w)[i] = held[i].name
  <1>1. Len(held) \in Nat
    BY SeqFacts
  <1>2. ASSUME NEW i \in 1 .. w
        PROVE  /\ held[i] \in Held /\ held[i].kind = "packet"
               /\ i \in 1 .. Len(held) /\ i - 1 \in 0 .. Len(held) /\ ~IsLast(held, i - 1)
    <2>1. i \in 1 .. Len(held) /\ i - 1 \in 0 .. Len(held) /\ i - 1 \in 0 .. w - 1 /\ (i - 1) + 1 = i
      BY <1>1
    <2>2. ~IsLast(held, i - 1)
      BY <2>1 DEF Leading
    <2>3. held[i] \in Held
      BY <2>1
    <2> QED BY <2>1, <2>2, <2>3 DEF IsLast
  <1>3. \A i \in 1 .. w : held[i].name \in Lists
    BY <1>2, HeldFacts
  <1> QED BY <1>2, <1>3 DEF Names

LEMMA WithFacts ==
    ASSUME NEW x, NEW p, NEW r
    PROVE  With(x, [packets |-> p, rest |-> r]) = [packets |-> <<x>> \o p, rest |-> r]
  <1> DEFINE o == [packets |-> p, rest |-> r]
             y == <<x>> \o p
  <1>1. o.packets = p
    OBVIOUS
  <1>2. ASSUME NEW z PROVE [o EXCEPT !.packets = z] = [packets |-> z, rest |-> r]
    OBVIOUS
  <1> HIDE DEF o
  <1>3. With(x, o) = [o EXCEPT !.packets = <<x>> \o o.packets]
    BY Zenon DEF With
  <1>4. With(x, o) = [o EXCEPT !.packets = y]
    BY <1>1, <1>3, Zenon
  <1> HIDE DEF y
  <1> QED BY <1>2, <1>4 DEF o, y

LEMMA OutcomeFacts ==
    ASSUME NEW held \in Seq(Held), NEW w \in 0 .. Len(held), Leading(held, w)
    PROVE  D!Outcome(held) = [packets |-> Names(held, w), rest |-> LastRest(held, w)]
  <1> DEFINE n == Len(held)
             names == Names(held, w)
             rest == LastRest(held, w)
             f == CHOOSE f : Runs(f, held, 1)
             T == {i \in 1 .. w + 1 : f[i] = [packets |-> Behind(names, i - 1), rest |-> rest]}
  <1>1. Runs(f, held, 1)
    BY RunsExists
  <1>2. D!Outcome(held) = f[1]
    BY DEF D!Outcome, Runs
  <1> HIDE DEF f
  <1>3. n \in Nat /\ w \in Nat
    BY SeqFacts
  <1>4. \A i \in 1 .. n + 1 : f[i] = D!Proceeds(f, held, i)
    BY <1>1, <1>3 DEF Runs
  <1>5. names \in Seq(Lists) /\ Len(names) = w /\ \A i \in 1 .. w : names[i] = held[i].name
    BY NamesFacts
  <1> HIDE DEF names
  <1>6. w + 1 \in T
    <2>1. f[w + 1] = D!Proceeds(f, held, w + 1)
      BY <1>3, <1>4
    <2>2. D!Proceeds(f, held, w + 1) = NoMore(rest)
      <3>1. IsLast(held, w)
        BY DEF Leading
      <3> QED BY <3>1, ProceedsFacts
    <2>3. Behind(names, w) = << >>
      <3>1. 0 \in 0 .. Len(names)
        BY <1>3, <1>5
      <3> QED BY <1>5, <3>1, BehindFacts
    <2>4. w + 1 \in 1 .. w + 1 /\ (w + 1) - 1 = w
      BY <1>3
    <2> HIDE DEF rest
    <2> QED BY <2>1, <2>2, <2>3, <2>4 DEF NoMore
  <1> HIDE DEF rest
  <1>7. ASSUME NEW i \in 1 .. w, i + 1 \in T PROVE i \in T
    <2> DEFINE p == Behind(names, i)
               x == held[i].name
    <2>1. i \in 1 .. w + 1 /\ i \in 1 .. n + 1 /\ i - 1 \in 0 .. n /\ (i + 1) - 1 = i
          /\ (i - 1) + 1 = i /\ (i - 1) + 2 = i + 1
      BY <1>3
    <2>2. f[i + 1] = [packets |-> p, rest |-> rest]
      BY <1>7, <2>1
    <2>3. f[i] = With(x, f[i + 1])
      <3>1. ~IsLast(held, i - 1)
        BY NamesFacts
      <3>2. D!Proceeds(f, held, (i - 1) + 1) = With(held[(i - 1) + 1].name, f[(i - 1) + 2])
        BY <2>1, <3>1, ProceedsFacts
      <3> QED BY <1>4, <2>1, <3>2
    <2>4. Behind(names, i - 1) = <<x>> \o p
      <3> DEFINE k == i - 1
      <3>1. k \in 0 .. Len(names) /\ k < Len(names) /\ k + 1 = i
        BY <1>3, <1>5
      <3> HIDE DEF k
      <3>2. Behind(names, k) = <<names[k + 1]>> \o Behind(names, k + 1)
        BY <1>5, <3>1, BehindFacts
      <3>3. Behind(names, k) = <<x>> \o p
        BY <1>5, <3>1, <3>2
      <3> QED BY <3>3 DEF k
    <2> HIDE DEF p, x
    <2>5. f[i] = [packets |-> <<x>> \o p, rest |-> rest]
      <3>1. With(x, [packets |-> p, rest |-> rest]) = [packets |-> <<x>> \o p, rest |-> rest]
        BY WithFacts
      <3>2. With(x, f[i + 1]) = With(x, [packets |-> p, rest |-> rest])
        BY <2>2, Zenon
      <3> QED BY <2>3, <3>1, <3>2, Zenon
    <2> QED BY <2>1, <2>4, <2>5
  <1>8. 1 \in T
    <2>1. \A i \in 1 .. w + 1 : i \in T
      <3> HIDE DEF T
      <3> QED BY <1>3, <1>6, <1>7, Downwards
    <2>2. 1 \in 1 .. w + 1
      BY <1>3
    <2> QED BY <2>1, <2>2
  <1>9. Behind(names, 0) = names
    <2>1. 0 \in 0 .. Len(names)
      BY <1>3, <1>5
    <2> QED BY <1>5, <2>1, BehindFacts
  <1> QED BY <1>2, <1>8, <1>9 DEF names, rest

-----------------------------------------------------------------------------
(* A turn of process()'s loop.                                             *)
Going == TRUE
Done == FALSE
Loop(bytes, lists, more) == [bytes |-> bytes, lists |-> lists, more |-> more]

\* A loop whose fields are assigned.
LEMMA Assigned ==
    ASSUME NEW b, NEW l, NEW m, NEW c, NEW k, NEW n
    PROVE  /\ [Loop(b, l, m) EXCEPT !.bytes = c] = Loop(c, l, m)
           /\ [Loop(b, l, m) EXCEPT !.lists = k] = Loop(b, k, m)
           /\ [Loop(b, l, m) EXCEPT !.more = n] = Loop(b, l, n)
  BY DEF Loop

LEMMA LoopTurnFacts ==
    ASSUME NEW b, NEW lists, Len(b) \in Nat, NEW packet, packet = Decode(b)
    PROVE  /\ Turn(Loop(b, lists, Done)) = Loop(b, lists, Done)
           /\ Len(b) < 10 \/ Len(b) < Declared(b) =>
                Turn(Loop(b, lists, Going)) = Loop(b, lists, Done)
           /\ ~ (Len(b) < 10 \/ Len(b) < Declared(b)) /\ packet.ok =>
                Turn(Loop(b, lists, Going))
                   = Loop(SubSeq(b, packet.read + 1, Len(b)), Append(lists, packet.list), Going)
           /\ ~ (Len(b) < 10 \/ Len(b) < Declared(b)) /\ ~packet.ok =>
                Turn(Loop(b, lists, Going))
                   = Loop(IF packet.read = 0 THEN << >> ELSE ZeroRun(Len(b) - packet.read),
                          lists, Done)
  <1> DEFINE done == Loop(b, lists, Done)
             going == Loop(b, lists, Going)
             short == Len(b) < 10 \/ Len(b) < Declared(b)
             behind == SubSeq(b, packet.read + 1, Len(b))
             zeros == IF packet.read = 0 THEN << >> ELSE ZeroRun(Len(b) - packet.read)
  <1>1. done.more = Done /\ going.more = Going /\ going.bytes = b /\ going.lists = lists
    BY DEF Loop
  <1>2. [going EXCEPT !.more = Done] = Loop(b, lists, Done)
    BY Assigned
  <1> HIDE DEF done, going, behind, zeros
  <1>3. ASSUME NEW c, NEW l
        PROVE  [going EXCEPT !.bytes = c, !.lists = l] = Loop(c, l, Going)
    <2>1. [going EXCEPT !.bytes = c, !.lists = l]
            = [[going EXCEPT !.bytes = c] EXCEPT !.lists = l]
      OBVIOUS
    <2>2. [going EXCEPT !.bytes = c] = Loop(c, lists, Going)
      BY Assigned DEF going
    <2>3. [Loop(c, lists, Going) EXCEPT !.lists = l] = Loop(c, l, Going)
      BY Assigned
    <2> QED BY <2>1, <2>2, <2>3
  <1>4. ASSUME NEW c
        PROVE  [going EXCEPT !.bytes = c, !.more = Done] = Loop(c, lists, Done)
    <2>1. [going EXCEPT !.bytes = c, !.more = Done]
            = [[going EXCEPT !.bytes = c] EXCEPT !.more = Done]
      OBVIOUS
    <2>2. [going EXCEPT !.bytes = c] = Loop(c, lists, Going)
      BY Assigned DEF going
    <2>3. [Loop(c, lists, Going) EXCEPT !.more = Done] = Loop(c, lists, Done)
      BY Assigned
    <2> QED BY <2>1, <2>2, <2>3
  <1>5. Turn(done) = done
    BY <1>1, Zenon DEF Turn, Done
  <1>6. going.more
    BY <1>1, Zenon DEF Going
  <1>7. ASSUME short PROVE Turn(going) = [going EXCEPT !.more = Done]
    BY <1>1, <1>6, <1>7, Zenon DEF Turn, PacketHeaderSize, Done
  <1>8. ASSUME ~short, packet.ok
        PROVE  Turn(going) = [going EXCEPT !.bytes = behind, !.lists = Append(lists, packet.list)]
    BY <1>1, <1>6, <1>8, Zenon DEF Turn, Taken, PacketHeaderSize, behind
  <1>9. ASSUME ~short, ~packet.ok
        PROVE  Turn(going) = [going EXCEPT !.bytes = zeros, !.more = Done]
    BY <1>1, <1>6, <1>9, Zenon DEF Turn, Taken, PacketHeaderSize, zeros, ZeroRun, Done
  <1> QED BY <1>2, <1>3, <1>4, <1>5, <1>7, <1>8, <1>9 DEF done, going, behind, zeros

LEMMA BehindConcat ==
    ASSUME NEW S, NEW x \in Seq(S), NEW t \in Seq(S)
    PROVE  SubSeq(x \o t, Len(x) + 1, Len(x \o t)) = t
  <1> DEFINE b == x \o t
             k == Len(x)
  <1>1. /\ b \in Seq(S) /\ Len(b) = k + Len(t) /\ k \in Nat /\ Len(t) \in Nat
        /\ \A i \in 1 .. Len(t) : b[k + i] = t[i]
    BY ConcatFacts, SeqFacts
  <1> HIDE DEF b, k
  <1>2. k \in 0 .. Len(b) /\ Len(b) - k = Len(t)
    BY <1>1
  <1>3. /\ Behind(b, k) \in Seq(S) /\ Len(Behind(b, k)) = Len(t)
        /\ \A i \in 1 .. Len(t) : Behind(b, k)[i] = b[k + i]
    BY <1>1, <1>2, BehindFacts
  <1>4. Behind(b, k) = t
    BY <1>1, <1>3, SameSequence
  <1> QED BY <1>4 DEF Behind, b, k

(* A turn with a packet in front takes it off and returns its list.        *)
LEMMA PacketTurn ==
    ASSUME NEW held \in Seq(Held), NEW k \in 0 .. Len(held), ~IsLast(held, k), NEW lists
    PROVE  /\ Turn(Loop(BufferOf(Behind(held, k)), lists, Going))
                 = Loop(BufferOf(Behind(held, k + 1)), Append(lists, held[k + 1].name), Going)
           /\ Len(BufferOf(Behind(held, k))) >= 10 + Len(BufferOf(Behind(held, k + 1)))
  <1> DEFINE b == BufferOf(Behind(held, k))
             t == BufferOf(Behind(held, k + 1))
             x == held[k + 1]
             n == x.len
  <1>1. k < Len(held) /\ x.kind = "packet"
    BY SeqFacts DEF IsLast
  <1>2. k + 1 \in 1 .. Len(held) /\ x \in Held /\ Stands(PartOf(x), b, 0)
    BY <1>1, LeftFirst
  <1>3. /\ IsUnderstood(x.name) /\ x.name \in MessageLists /\ Fits(x.name)
        /\ n \in Nat /\ n = TotalSize(x.name) /\ n >= 10 /\ PartOf(x) = Encode(x.name)
        /\ PartOf(x) \in Seq(Cell) /\ Len(PartOf(x)) = n
    BY <1>1, <1>2, HeldFacts
  <1>4. b = PartOf(x) \o t /\ Len(b) = n + Len(t) /\ b \in Seq(Cell) /\ t \in Seq(Cell)
    <2>1. (k + 1) - 1 = k
      OBVIOUS
    <2>2. /\ BufferOf(Behind(held, (k + 1) - 1)) = PartOf(x) \o t
          /\ Len(BufferOf(Behind(held, (k + 1) - 1))) = n + Len(t)
          /\ BufferOf(Behind(held, (k + 1) - 1)) \in Seq(Cell) /\ t \in Seq(Cell)
      BY <1>2, BufferBehind
    <2> QED BY <2>1, <2>2
  <1> HIDE DEF b, t, x
  <1>5. Declared(b) = n
    BY <1>2, <1>3, <1>4, PacketDeclares
  <1> DEFINE packet == [ok |-> TRUE, list |-> x.name, read |-> n]
  <1>6. Decode(b) = packet
    BY <1>2, <1>3, <1>4, RoundTrip, Zenon
  <1>7. packet.ok /\ packet.list = x.name /\ packet.read = n
    OBVIOUS
  <1> HIDE DEF packet, n
  <1>8. Len(b) \in Nat /\ Len(t) \in Nat /\ ~ (Len(b) < 10 \/ Len(b) < Declared(b))
    <2>1. Len(b) \in Nat /\ Len(t) \in Nat
      BY <1>4, SeqFacts
    <2> QED BY <1>3, <1>4, <1>5, <2>1
  <1>9. SubSeq(b, n + 1, Len(b)) = t
    <2>1. SubSeq(PartOf(x) \o t, Len(PartOf(x)) + 1, Len(PartOf(x) \o t)) = t
      BY <1>3, <1>4, BehindConcat
    <2> QED BY <1>3, <1>4, <2>1
  <1>10. Turn(Loop(b, lists, Going))
           = Loop(SubSeq(b, packet.read + 1, Len(b)), Append(lists, packet.list), Going)
    BY <1>6, <1>7, <1>8, LoopTurnFacts, Zenon
  <1>11. Turn(Loop(b, lists, Going)) = Loop(t, Append(lists, x.name), Going)
    BY <1>7, <1>9, <1>10, Zenon
  <1>12. Len(b) >= 10 + Len(t)
    BY <1>3, <1>4, <1>8
  <1> QED BY <1>11, <1>12 DEF b, t, x

(* The turn after the last packet leaves what DataHandler leaves.          *)
LEMMA LastTurn ==
    ASSUME NEW held \in Seq(Held), NEW k \in 0 .. Len(held), IsLast(held, k), NEW lists
    PROVE  Turn(Loop(BufferOf(Behind(held, k)), lists, Going))
              = Loop(BufferOf(LastRest(held, k)), lists, Done)
  <1> DEFINE b == BufferOf(Behind(held, k))
             rest == LastRest(held, k)
  <1>1. Behind(held, k) \in Seq(Held) /\ Len(held) \in Nat
    BY SeqFacts, BehindFacts
  <1>2. b \in Seq(Cell) /\ Len(b) \in Nat
    BY <1>1, PartsFacts
  <1>3. LeftBehind(held, k) = Len(b)
    BY DEF LeftBehind
  <1>4. BufferOf(<< >>) = << >>
    <2>1. << >> \in Seq(Held)
      OBVIOUS
    <2> QED BY <2>1, BufferAppends
  <1>5. CASE k = Len(held) \/ Len(b) < 10
    <2>1. Len(b) < 10
      <3>1. CASE k = Len(held)
        <4>1. Behind(held, k) = << >>
          BY <3>1, BehindFacts
        <4>2. Len(<< >>) = 0
          OBVIOUS
        <4> QED BY <1>4, <4>1, <4>2
      <3> QED BY <1>5, <3>1
    <2>2. rest = Behind(held, k)
      BY <1>3, <1>5 DEF LastRest
    <2> DEFINE packet == Decode(b)
    <2>3. packet = Decode(b)
      OBVIOUS
    <2> HIDE DEF packet, b
    <2>4. Turn(Loop(b, lists, Going)) = Loop(b, lists, Done)
      BY <1>2, <2>1, <2>3, LoopTurnFacts, Zenon
    <2> QED BY <2>2, <2>4 DEF b
  <1>6. CASE ~ (k = Len(held) \/ Len(b) < 10)
    <2> DEFINE x == held[k + 1]
    <2>1. k < Len(held) /\ x.kind # "packet"
      BY <1>1, <1>6 DEF IsLast
    <2>2. x \in Held /\ Stands(PartOf(x), b, 0) /\ Len(b) >= x.len
      BY <1>3, <2>1, LeftFirst
    <2>3. rest = IF x.kind = "foreign" THEN D!Zeros(Len(b) - 12) ELSE << >>
      BY <1>3, <1>6 DEF LastRest
    <2> HIDE DEF x, b, rest
    <2>4. CASE x.kind = "zeros"
      <3>1. PartOf(x) = ZeroRun(x.len) /\ x.len \in Nat /\ x.len >= 8 /\ Len(PartOf(x)) = x.len
        BY <2>2, <2>4, HeldFacts
      <3>2. \A i \in 1 .. 4 : b[i] = 0
        <4>1. \A i \in 1 .. x.len : ZeroRun(x.len)[i] = 0
          BY <3>1, ZeroRunFacts
        <4>2. \A i \in 1 .. x.len : b[0 + i] = PartOf(x)[i]
          BY <2>2, <3>1 DEF Stands
        <4>3. \A i \in 1 .. 4 : i \in 1 .. x.len /\ 0 + i = i
          BY <3>1
        <4> QED BY <3>1, <4>1, <4>2, <4>3
      <3>3. Declared(b) = 0 /\ Decode(b) = [ok |-> FALSE, list |-> << >>, read |-> 0]
        BY <1>2, <1>6, <3>2, ZerosDecode
      <3> DEFINE packet == [ok |-> FALSE, list |-> << >>, read |-> 0]
      <3>4. ~packet.ok /\ packet.read = 0 /\ packet = Decode(b)
        BY <3>3, Zenon
      <3> HIDE DEF packet
      <3>5. ~ (Len(b) < 10 \/ Len(b) < Declared(b))
        BY <1>2, <1>6, <3>3
      <3>6. Turn(Loop(b, lists, Going))
              = Loop(IF packet.read = 0 THEN << >> ELSE ZeroRun(Len(b) - packet.read), lists, Done)
        BY <1>2, <3>4, <3>5, LoopTurnFacts
      <3>7. rest = << >>
        BY <2>3, <2>4
      <3> QED BY <1>4, <3>4, <3>6, <3>7 DEF b, rest
    <2>5. CASE x.kind = "foreign"
      <3>1. /\ IsForeign(x.name) /\ x.name \in MessageLists /\ Fits(x.name)
            /\ x.len = TotalSize(x.name) /\ x.len >= 20 /\ x.len \in Nat
            /\ PartOf(x) = Encode(x.name)
        BY <2>2, <2>5, HeldFacts
      <3>2. Stands(Encode(x.name), b, 0)
        BY <2>2, <3>1
      <3>3. Declared(b) = x.len
        BY <1>2, <3>1, <3>2, PacketDeclares
      <3> DEFINE packet == [ok |-> FALSE, list |-> << >>, read |-> 12]
      <3>4. Decode(b) = packet
        BY <1>2, <3>1, <3>2, ForeignDecode
      <3>5. ~packet.ok /\ packet.read = 12 /\ packet.read # 0
        OBVIOUS
      <3> HIDE DEF packet
      <3>6. ~ (Len(b) < 10 \/ Len(b) < Declared(b))
        BY <1>2, <1>6, <2>2, <3>1, <3>3
      <3>7. Turn(Loop(b, lists, Going))
              = Loop(IF packet.read = 0 THEN << >> ELSE ZeroRun(Len(b) - packet.read), lists, Done)
        BY <1>2, <3>4, <3>5, <3>6, LoopTurnFacts
      <3>8. rest = D!Zeros(Len(b) - 12)
        BY <2>3, <2>5
      <3>9. Len(b) - 12 \in Nat /\ Len(b) - 12 >= 8
        BY <1>2, <2>2, <3>1
      <3>10. BufferOf(rest) = ZeroRun(Len(b) - 12)
        BY <3>8, <3>9, ZerosHeld
      <3>11. Turn(Loop(b, lists, Going)) = Loop(ZeroRun(Len(b) - 12), lists, Done)
        BY <3>5, <3>7
      <3> QED BY <3>10, <3>11 DEF b, rest
    <2>6. x.kind \in {"zeros", "foreign"}
      <3>1. x.kind = "zeros" \/ x.kind = "packet" \/ x.kind = "foreign"
        BY <2>2, HeldFacts
      <3> QED BY <2>1, <3>1 DEF x
    <2> QED BY <2>4, <2>5, <2>6
  <1> QED BY <1>5, <1>6

(* All the turns of a call.                                                *)
TurnsTaken(f, bytes, last) ==
    f = [k \in 0 .. last |-> IF k = 0 THEN Loop(bytes, << >>, Going) ELSE Turn(f[k - 1])]

LEMMA TurnsAre ==
    ASSUME NEW bytes
    PROVE  LET last == 1 + Len(bytes) \div 10
           IN  Turns(bytes) = (CHOOSE f : TurnsTaken(f, bytes, last))[last]
  BY DEF Turns, TurnsTaken, Loop, Going, PacketHeaderSize

LEMMA EnoughTurns ==
    ASSUME NEW held \in Seq(Held), NEW w \in 0 .. Len(held), Leading(held, w)
    PROVE  w <= Len(BufferOf(held)) \div 10
  <1> DEFINE size == Len(BufferOf(held))
             T == {k \in 0 .. w : size >= 10 * k + Len(BufferOf(Behind(held, k)))}
  <1>1. size \in Nat /\ w \in Nat /\ Len(held) \in Nat
    BY SeqFacts, PartsFacts
  <1>2. ASSUME NEW k \in 0 .. w PROVE k \in 0 .. Len(held) /\ Len(BufferOf(Behind(held, k))) \in Nat
    <2>1. k \in 0 .. Len(held)
      BY <1>1
    <2>2. Behind(held, k) \in Seq(Held)
      BY <2>1, BehindFacts
    <2> QED BY <2>1, <2>2, PartsFacts
  <1>3. 0 \in T
    <2>1. 0 \in 0 .. Len(held) /\ 0 \in 0 .. w
      BY <1>1
    <2>2. Behind(held, 0) = held
      BY <2>1, BehindFacts
    <2> QED BY <1>1, <2>1, <2>2
  <1>4. ASSUME NEW k \in 1 .. w, k - 1 \in T PROVE k \in T
    <2>1. k - 1 \in 0 .. Len(held) /\ k - 1 \in 0 .. w - 1 /\ (k - 1) + 1 = k /\ k \in 0 .. w
          /\ k - 1 \in 0 .. w
      BY <1>1
    <2>2. ~IsLast(held, k - 1)
      BY <2>1 DEF Leading
    <2> DEFINE now == Len(BufferOf(Behind(held, k - 1)))
               next == Len(BufferOf(Behind(held, k)))
    <2>3. now >= 10 + next
      <3>1. Len(BufferOf(Behind(held, k - 1))) >= 10 + Len(BufferOf(Behind(held, (k - 1) + 1)))
        BY <2>1, <2>2, PacketTurn
      <3> QED BY <2>1, <3>1
    <2>4. size >= 10 * (k - 1) + now
      BY <1>4
    <2>5. now \in Nat /\ next \in Nat
      BY <1>2, <2>1
    <2> HIDE DEF now, next, size
    <2>6. size >= 10 * k + next
      BY <1>1, <2>1, <2>3, <2>4, <2>5
    <2> QED BY <2>1, <2>6 DEF next, size
  <1>5. \A k \in 0 .. w : k \in T
    <2> HIDE DEF T
    <2> QED BY <1>1, <1>3, <1>4, Upwards
  <1>6. size >= 10 * w
    <2>1. w \in 0 .. w
      BY <1>1
    <2>2. size >= 10 * w + Len(BufferOf(Behind(held, w)))
      BY <1>5, <2>1
    <2> HIDE DEF size
    <2> QED BY <1>1, <1>2, <2>1, <2>2
  <1> HIDE DEF size
  <1>7. w <= size \div 10
    BY <1>1, <1>6
  <1> QED BY <1>7 DEF size

LEMMA TurnsFacts ==
    ASSUME NEW held \in Seq(Held), NEW w \in 0 .. Len(held), Leading(held, w)
    PROVE  Turns(BufferOf(held)) = Loop(BufferOf(LastRest(held, w)), Names(held, w), Done)
  <1> DEFINE bytes == BufferOf(held)
             last == 1 + Len(bytes) \div 10
             names == Names(held, w)
             end == Loop(BufferOf(LastRest(held, w)), names, Done)
             B(k) == BufferOf(Behind(held, k))
             g == [k \in 0 .. last |-> IF k <= w THEN Loop(B(k), Begin(names, k), Going) ELSE end]
             f == CHOOSE f : TurnsTaken(f, bytes, last)
  <1>1. w \in Nat /\ Len(held) \in Nat /\ last \in Nat /\ w + 1 <= last
    <2>1. w <= Len(bytes) \div 10 /\ Len(bytes) \in Nat
      BY EnoughTurns, PartsFacts
    <2>2. w \in Nat /\ Len(held) \in Nat
      BY SeqFacts
    <2> HIDE DEF bytes
    <2>3. Len(bytes) \div 10 \in Nat
      BY <2>1
    <2> QED BY <2>1, <2>2, <2>3
  <1>2. Turns(bytes) = f[last]
    BY TurnsAre
  <1> HIDE DEF last, bytes
  <1>3. /\ names \in Seq(Lists) /\ Len(names) = w
        /\ \A i \in 1 .. w : names[i] = held[i].name /\ ~IsLast(held, i - 1)
    BY NamesFacts
  <1>4. B(0) = bytes
    <2>1. 0 \in 0 .. Len(held)
      BY <1>1
    <2>2. Behind(held, 0) = held
      BY <2>1, BehindFacts
    <2> QED BY <2>2 DEF bytes
  <1>5. \A k \in 0 .. w : Turn(Loop(B(k), Begin(names, k), Going))
                            = IF k < w THEN Loop(B(k + 1), Begin(names, k + 1), Going) ELSE end
    <2> SUFFICES ASSUME NEW k \in 0 .. w
                 PROVE  Turn(Loop(B(k), Begin(names, k), Going))
                          = IF k < w THEN Loop(B(k + 1), Begin(names, k + 1), Going) ELSE end
      OBVIOUS
    <2> HIDE DEF names
    <2>1. k \in 0 .. Len(held) /\ k \in 0 .. Len(names)
      BY <1>1, <1>3
    <2>2. CASE k < w
      <3>1. k + 1 \in 1 .. w /\ (k + 1) - 1 = k /\ k + 1 \in 0 .. Len(names) /\ k + 1 > 0
        BY <1>1, <1>3, <2>2
      <3>2. ~IsLast(held, k) /\ names[k + 1] = held[k + 1].name
        BY <1>3, <3>1
      <3>3. Turn(Loop(B(k), Begin(names, k), Going))
              = Loop(B(k + 1), Append(Begin(names, k), held[k + 1].name), Going)
        BY <2>1, <3>2, PacketTurn
      <3>4. Begin(names, k + 1) = Append(Begin(names, (k + 1) - 1), names[k + 1])
        BY <1>3, <3>1, BeginFacts
      <3> HIDE DEF B
      <3> QED BY <2>2, <3>1, <3>2, <3>3, <3>4
    <2>3. CASE ~ (k < w)
      <3>1. k = w
        BY <1>1, <2>3
      <3>2. IsLast(held, w)
        BY DEF Leading
      <3>3. Begin(names, w) = names
        <4>1. Begin(names, Len(names)) = names
          BY <1>3, <2>1, BeginFacts
        <4> QED BY <1>3, <4>1
      <3>4. Turn(Loop(B(w), names, Going)) = end
        BY <2>1, <3>1, <3>2, LastTurn
      <3> HIDE DEF B, end
      <3> QED BY <2>3, <3>1, <3>3, <3>4
    <2> QED BY <2>2, <2>3
  <1>6. Turn(end) = end
    <2> DEFINE b == BufferOf(LastRest(held, w))
               packet == Decode(b)
    <2>1. Len(b) \in Nat
      <3>1. LastRest(held, w) \in Seq(Held)
        BY ProceedsFacts DEF Leading
      <3> QED BY <3>1, PartsFacts
    <2>2. packet = Decode(b)
      OBVIOUS
    <2> HIDE DEF b, packet, names
    <2>3. Turn(Loop(b, names, Done)) = Loop(b, names, Done)
      BY <2>1, <2>2, LoopTurnFacts, Zenon
    <2> QED BY <2>3 DEF b
  <1>7. g[0] = Loop(bytes, << >>, Going)
    <2>1. 0 \in 0 .. last /\ 0 <= w /\ 0 \in 0 .. Len(names)
      BY <1>1, <1>3
    <2> HIDE DEF names, B, end
    <2>2. g[0] = Loop(B(0), Begin(names, 0), Going)
      BY <2>1
    <2>3. Begin(names, 0) = << >>
      BY <1>3, <2>1, BeginFacts
    <2> QED BY <1>4, <2>2, <2>3
  <1> HIDE DEF B, names, end
  <1>8. ASSUME NEW k \in 1 .. last PROVE g[k] = Turn(g[k - 1])
    <2>1. k \in 0 .. last /\ k - 1 \in 0 .. last /\ (k - 1) + 1 = k
      BY <1>1
    <2>2. CASE k - 1 <= w
      <3>1. k - 1 \in 0 .. w
        BY <1>1, <2>2
      <3>2. g[k - 1] = Loop(B(k - 1), Begin(names, k - 1), Going)
        BY <2>1, <2>2
      <3>3. g[k] = IF k - 1 < w THEN Loop(B(k), Begin(names, k), Going) ELSE end
        <4>1. k <= w <=> k - 1 < w
          BY <1>1
        <4> QED BY <2>1, <4>1
      <3>4. Turn(Loop(B(k - 1), Begin(names, k - 1), Going))
              = IF k - 1 < w THEN Loop(B((k - 1) + 1), Begin(names, (k - 1) + 1), Going) ELSE end
        BY <1>5, <3>1
      <3> HIDE DEF g
      <3> QED BY <2>1, <3>2, <3>3, <3>4
    <2>3. CASE ~ (k - 1 <= w)
      <3>1. g[k - 1] = end
        BY <2>1, <2>3
      <3>2. ~ (k <= w)
        BY <1>1, <2>3
      <3>3. g[k] = end
        BY <2>1, <3>2
      <3> HIDE DEF g
      <3> QED BY <1>6, <3>1, <3>3, Zenon
    <2> QED BY <2>2, <2>3
  <1>9. g[last] = end
    <2>1. last \in 0 .. last /\ ~ (last <= w)
      BY <1>1
    <2> QED BY <2>1
  <1>10. TurnsTaken(g, bytes, last)
    <2>1. g = [k \in 0 .. last |-> g[k]]
      OBVIOUS
    <2> HIDE DEF g
    <2>2. \A k \in 0 .. last : k # 0 => k \in 1 .. last
      BY <1>1
    <2>3. \A k \in 0 .. last :
             g[k] = IF k = 0 THEN Loop(bytes, << >>, Going) ELSE Turn(g[k - 1])
      <3> SUFFICES ASSUME NEW k \in 0 .. last
                   PROVE  g[k] = IF k = 0 THEN Loop(bytes, << >>, Going) ELSE Turn(g[k - 1])
        OBVIOUS
      <3>1. CASE k = 0
        BY <1>7, <3>1, Zenon
      <3>2. CASE k # 0
        BY <1>8, <2>2, <3>2, Zenon
      <3> QED BY <3>1, <3>2
    <2> QED BY <2>1, <2>3 DEF TurnsTaken
  <1>11. TurnsTaken(f, bytes, last)
    <2> HIDE DEF g
    <2> QED BY <1>10
  <1> HIDE DEF f, g
  <1>12. f[0] = g[0] /\ \A k \in 1 .. last : f[k] = Turn(f[k - 1])
    <2>1. \A k \in 0 .. last :
             f[k] = IF k = 0 THEN Loop(bytes, << >>, Going) ELSE Turn(f[k - 1])
      BY <1>11 DEF TurnsTaken
    <2>2. 0 \in 0 .. last /\ \A k \in 1 .. last : k \in 0 .. last /\ k # 0
      BY <1>1
    <2> QED BY <1>7, <2>1, <2>2
  <1>13. f[last] = g[last]
    <2>1. \A k \in 1 .. last : f[k - 1] = g[k - 1] => f[k] = g[k]
      BY <1>8, <1>12
    <2> QED BY <1>1, <1>12, <2>1, SameAlong
  <1> QED BY <1>2, <1>9, <1>13 DEF bytes, end, names

-----------------------------------------------------------------------------
(* While datagrams arrive whole or not at all, the bytes of the stream are *)
(* those of the segments DataHandler sees.                                 *)
ArrivesWhole ==
    [][~ArriveHead /\ ~ArriveTail /\ \A i \in Flaws : ~ArriveDamaged(i)]_vars

WholeInv == WireInv /\ segments \in Seq(Held) /\ m_buffer = BufferOf(segments)

LEMMA BytesAreThose ==
    ASSUME NEW held \in Seq(Held)
    PROVE  D!Bytes(held) = Len(BufferOf(held))
  <1>1. 1 \in 1 .. Len(held) + 1 /\ 0 \in 0 .. Len(held) /\ 1 - 1 = 0
    BY SeqFacts
  <1>2. D!BytesFrom(held, 1) = Len(BufferOf(Behind(held, 1 - 1)))
    BY <1>1, BytesAreCounted
  <1>3. Behind(held, 0) = held
    BY <1>1, BehindFacts
  <1> QED BY <1>1, <1>2, <1>3 DEF D!Bytes

\* The segment that is made of a datagram.
Whole(list, bytes) ==
    [name |-> list, kind |-> Kind(list), len |-> Len(bytes), declared |-> Declared(bytes)]

LEMMA WholeIsHeld ==
    ASSUME NEW list \in Lists, NEW bytes, bytes = Encode(list), bytes # << >>
    PROVE  /\ Whole(list, bytes) \in Held /\ PartOf(Whole(list, bytes)) = bytes
           /\ Whole(list, bytes).len = Len(bytes) /\ bytes \in Seq(Cell)
  <1>1. list \in MessageLists
    BY ListsTyped
  <1>2. Fits(list)
    BY DEF Encode
  <1>3. /\ bytes \in Seq(Cell) /\ Len(bytes) = TotalSize(list) /\ Stands(Encode(list), bytes, 0)
        /\ TotalSize(list) \in Nat
    BY <1>1, <1>2, PacketCells, ContentFacts
  <1>4. Declared(bytes) = TotalSize(list)
    BY <1>1, <1>2, <1>3, PacketDeclares
  <1>5. Kind(list) \in {"packet", "foreign"}
    BY DEF Kind
  <1> DEFINE x == Whole(list, bytes)
  <1>6. /\ x.name = list /\ x.kind = Kind(list) /\ x.len = Len(bytes)
        /\ x.declared = Declared(bytes)
    BY DEF Whole
  <1>7. x \in [name: Lists, kind: {"packet", "foreign"}, len: Nat, declared: Nat]
    BY <1>3, <1>4, <1>5 DEF Whole
  <1> HIDE DEF x
  <1>8. x \in Held
    BY <1>2, <1>3, <1>4, <1>6, <1>7 DEF Held, ListSegments
  <1>9. PartOf(x) = bytes
    BY <1>5, <1>6 DEF PartOf
  <1> QED BY <1>3, <1>6, <1>8, <1>9 DEF x

(* A datagram that arrives: the buffer grows as DataHandler says.          *)
LEMMA ArriveHeld ==
    ASSUME WholeInv, Arrive
    PROVE  segments' \in Seq(Held) /\ m_buffer' = BufferOf(segments')
  <1> DEFINE x == Whole(sent, wire)
             n == Len(m_buffer) + Len(wire)
             zeros == D!Zeros(2 * n)
             one == <<x>>
  <1>1. /\ sent \in Lists /\ wire = Encode(sent) /\ wire # << >>
        /\ segments \in Seq(Held) /\ m_buffer = BufferOf(segments)
    BY DEF WholeInv, WireInv, Arrive, HandleReceive
  <1>2. x \in Held /\ PartOf(x) = wire /\ x.len = Len(wire) /\ wire \in Seq(Cell)
    BY <1>1, WholeIsHeld
  <1>3. segments' = D!Buffered("sender", x) /\ m_buffer' = Grown(wire) \o wire
    BY DEF Arrive, HandleReceive, Whole
  <1> HIDE DEF x
  <1>4. m_buffer \in Seq(Cell) /\ Len(m_buffer) \in Nat /\ Len(wire) \in Nat /\ Len(wire) >= 8
    <2>1. m_buffer \in Seq(Cell)
      BY <1>1, PartsFacts
    <2>2. x.len >= 8
      BY <1>2, HeldFacts
    <2> QED BY <1>2, <2>1, <2>2, SeqFacts
  <1>5. D!Bytes(segments) = Len(m_buffer)
    BY <1>1, BytesAreThose
  <1>6. segments' = IF n > capacity THEN zeros \o Append(segments, x) ELSE Append(segments, x)
    <2>1. D!Waiting("sender") = segments /\ D!Room("sender") = capacity
      BY DEF D!Waiting, D!Room, D!Known
    <2>2. D!Buffered("sender", x)
            = IF D!Bytes(segments) + x.len > capacity
              THEN D!Zeros(2 * (D!Bytes(segments) + x.len)) \o Append(segments, x)
              ELSE Append(segments, x)
      BY <2>1 DEF D!Buffered, D!Overflows
    <2> QED BY <1>2, <1>3, <1>5, <2>2
  <1>7. one \in Seq(Held) /\ Append(segments, x) = segments \o one /\ BufferOf(one) = wire
    <2>1. one \in Seq(Held) /\ Append(segments, x) = segments \o one
      BY <1>1, <1>2
    <2>2. BufferOf(<<x>>) = PartOf(x)
      BY <1>1, <1>2, BufferAppends
    <2> QED BY <1>2, <2>1, <2>2
  <1> HIDE DEF one
  <1>8. segments \o one \in Seq(Held) /\ BufferOf(segments \o one) = m_buffer \o wire
    <2>1. segments \o one \in Seq(Held)
      BY <1>1, <1>7, ConcatFacts
    <2>2. BufferOf(segments \o one) = BufferOf(segments) \o BufferOf(one)
      BY <1>1, <1>7, BufferAppends
    <2> QED BY <1>1, <1>7, <2>1, <2>2
  <1>9. CASE ~ (n > capacity)
    <2>1. Grown(wire) = m_buffer
      BY <1>9 DEF Grown
    <2> QED BY <1>3, <1>6, <1>7, <1>8, <1>9, <2>1
  <1>10. CASE n > capacity
    <2>1. Grown(wire) = ZeroRun(2 * n) \o m_buffer
      BY <1>10 DEF Grown, ZeroRun
    <2>2. 2 * n \in Nat /\ 2 * n >= 8
      BY <1>4
    <2>3. zeros \in Seq(Held) /\ BufferOf(zeros) = ZeroRun(2 * n)
      BY <2>2, ZerosHeld
    <2>4. ZeroRun(2 * n) \in Seq(Cell)
      <3>1. BufferOf(zeros) \in Seq(Cell)
        BY <2>3, PartsFacts
      <3> QED BY <2>3, <3>1
    <2> DEFINE run == ZeroRun(2 * n)
               behind == segments \o one
    <2> HIDE DEF zeros, run, behind, n
    <2>5. zeros \o behind \in Seq(Held)
      BY <1>8, <2>3, ConcatFacts DEF behind
    <2>6. BufferOf(zeros \o behind) = BufferOf(zeros) \o BufferOf(behind)
      BY <1>8, <2>3, BufferAppends DEF behind
    <2>7. (run \o m_buffer) \o wire = run \o (m_buffer \o wire)
      <3>1. run \in Seq(Cell)
        BY <2>4 DEF run
      <3>2. m_buffer \in Seq(Cell) /\ wire \in Seq(Cell)
        BY <1>2, <1>4
      <3>3. \A a \in Seq(Cell) : (a \o m_buffer) \o wire = a \o (m_buffer \o wire)
        BY <3>2, ConcatAssociates
      <3> QED BY <3>1, <3>3, Zenon
    <2>8. segments' = zeros \o behind
      BY <1>6, <1>7, <1>10 DEF behind
    <2>9. m_buffer' = (run \o m_buffer) \o wire
      BY <1>3, <2>1 DEF run
    <2> QED BY <1>8, <2>3, <2>5, <2>6, <2>7, <2>8, <2>9 DEF behind, run
  <1> QED BY <1>9, <1>10

(* A call: it returns what DataHandler finds and leaves what it leaves.    *)
LEMMA ProcessHeld ==
    ASSUME WholeInv, Process
    PROVE  /\ returned' = D!Outcome(segments).packets
           /\ segments' \in Seq(Held) /\ m_buffer' = BufferOf(segments')
  <1> DEFINE loop == Turns(m_buffer)
             outcome == D!Outcome(segments)
  <1>1. segments \in Seq(Held) /\ m_buffer = BufferOf(segments)
    BY DEF WholeInv
  <1>2. returned' = loop.lists /\ m_buffer' = loop.bytes /\ segments' = outcome.rest
    BY Zenon DEF Process
  <1>3. PICK w \in 0 .. Len(segments) : Leading(segments, w)
    BY <1>1, LeadingFacts
  <1> DEFINE names == Names(segments, w)
             rest == LastRest(segments, w)
  <1>4. loop = Loop(BufferOf(rest), names, Done)
    BY <1>1, <1>3, TurnsFacts
  <1>5. outcome = [packets |-> names, rest |-> rest]
    BY <1>1, <1>3, OutcomeFacts
  <1>6. rest \in Seq(Held)
    BY <1>1, <1>3, ProceedsFacts DEF Leading
  <1> HIDE DEF loop, outcome, names, rest
  <1>7. loop.lists = names /\ loop.bytes = BufferOf(rest)
    BY <1>4 DEF Loop
  <1>8. outcome.packets = names /\ outcome.rest = rest
    BY <1>5
  <1> QED BY <1>2, <1>6, <1>7, <1>8 DEF outcome

LEMMA WholeInductive == Spec /\ ArrivesWhole => []WholeInv
  <1> DEFINE Intact == ~ArriveHead /\ ~ArriveTail /\ \A i \in Flaws : ~ArriveDamaged(i)
  <1>1. Init => WholeInv
    <2> SUFFICES ASSUME Init PROVE WholeInv
      OBVIOUS
    <2>1. WireInv /\ segments = << >> /\ m_buffer = << >>
      BY DEF Init, WireInv
    <2>2. << >> \in Seq(Held)
      OBVIOUS
    <2>3. BufferOf(<< >>) = << >>
      BY <2>2, BufferAppends
    <2> QED BY <2>1, <2>2, <2>3 DEF WholeInv
  <1>2. WholeInv /\ [Next]_vars /\ [Intact]_vars => WholeInv'
    <2> SUFFICES ASSUME WholeInv, [Next]_vars, [Intact]_vars PROVE WholeInv'
      OBVIOUS
    <2>1. WireInv'
      BY WireKept DEF WholeInv
    <2>2. CASE UNCHANGED <<segments, m_buffer>>
      BY <2>1, <2>2 DEF WholeInv
    <2>3. ASSUME NEW list \in Lists, Transmit(list) PROVE WholeInv'
      BY <2>2, <2>3 DEF Transmit
    <2>4. CASE Arrive
      BY <2>1, <2>4, ArriveHeld DEF WholeInv
    <2>5. CASE Process
      BY <2>1, <2>5, ProcessHeld DEF WholeInv
    <2>6. CASE UNCHANGED vars
      BY <2>2, <2>6 DEF vars
    <2> HIDE DEF vars
    <2> QED BY <2>3, <2>4, <2>5, <2>6 DEF Next
  <1> QED BY <1>1, <1>2, PTL DEF Spec, ArrivesWhole

LEMMA BeginBehind ==
    ASSUME NEW S, NEW s \in Seq(S), NEW k \in 0 .. Len(s)
    PROVE  s = Begin(s, k) \o Behind(s, k)
  <1> DEFINE p == Begin(s, k)
             q == Behind(s, k)
  <1>1. /\ p \in Seq(S) /\ Len(p) = k /\ \A i \in 1 .. k : p[i] = s[i]
        /\ q \in Seq(S) /\ Len(q) = Len(s) - k /\ \A i \in 1 .. Len(s) - k : q[i] = s[k + i]
        /\ Len(s) \in Nat
    <2>1. p \in Seq(S) /\ Len(p) = k /\ \A i \in 1 .. k : p[i] = s[i]
      BY BeginFacts
    <2>2. /\ q \in Seq(S) /\ Len(q) = Len(s) - k
          /\ \A i \in 1 .. Len(s) - k : q[i] = s[k + i]
      BY BehindFacts
    <2> HIDE DEF p, q
    <2> QED BY <2>1, <2>2, SeqFacts
  <1> HIDE DEF p, q
  <1>2. /\ p \o q \in Seq(S) /\ Len(p \o q) = Len(p) + Len(q)
        /\ \A i \in 1 .. Len(p) : (p \o q)[i] = p[i]
        /\ \A i \in 1 .. Len(q) : (p \o q)[Len(p) + i] = q[i]
    BY <1>1, ConcatFacts
  <1>3. Len(p \o q) = Len(s)
    BY <1>1, <1>2
  <1>4. ASSUME NEW i \in 1 .. Len(s) PROVE s[i] = (p \o q)[i]
    <2>1. CASE i <= k
      <3>1. i \in 1 .. k
        BY <1>1, <2>1
      <3> QED BY <1>1, <1>2, <3>1
    <2>2. CASE ~ (i <= k)
      <3>1. i - k \in 1 .. Len(q) /\ i - k \in 1 .. Len(s) - k /\ k + (i - k) = i
        BY <1>1, <2>2
      <3>2. (p \o q)[k + (i - k)] = q[i - k]
        BY <1>1, <1>2, <3>1
      <3>3. q[i - k] = s[k + (i - k)]
        BY <1>1, <3>1
      <3> QED BY <3>1, <3>2, <3>3
    <2> QED BY <2>1, <2>2
  <1>5. s = p \o q
    BY <1>2, <1>3, <1>4, SameSequence
  <1> QED BY <1>5 DEF p, q

LEMMA Inside ==
    ASSUME NEW S, NEW p \in Seq(S), NEW x \in Seq(S), NEW t \in Seq(S)
    PROVE  SubSeq(p \o (x \o t), Len(p) + 1, Len(p) + Len(x)) = x
  <1> DEFINE u == x \o t
             b == p \o u
  <1>1. /\ u \in Seq(S) /\ Len(u) = Len(x) + Len(t) /\ \A i \in 1 .. Len(x) : u[i] = x[i]
        /\ Len(x) \in Nat /\ Len(t) \in Nat /\ Len(p) \in Nat
    <2>1. u \in Seq(S) /\ Len(u) = Len(x) + Len(t) /\ \A i \in 1 .. Len(x) : u[i] = x[i]
      BY ConcatFacts
    <2> HIDE DEF u
    <2> QED BY <2>1, SeqFacts
  <1> HIDE DEF u
  <1>2. /\ b \in Seq(S) /\ Len(b) = Len(p) + Len(u)
        /\ \A i \in 1 .. Len(u) : b[Len(p) + i] = u[i]
    <2>1. p \in Seq(S) /\ u \in Seq(S)
      BY <1>1
    <2> QED BY <2>1, ConcatFacts
  <1> HIDE DEF b
  <1>3. Stands(x, b, Len(p))
    <2>1. \A i \in 1 .. Len(x) : i \in 1 .. Len(u)
      BY <1>1
    <2>2. Len(p) + Len(x) <= Len(b)
      BY <1>1, <1>2
    <2> QED BY <1>1, <1>2, <2>1, <2>2 DEF Stands
  <1>4. SubSeq(b, Len(p) + 1, Len(p) + Len(x)) = x
    BY <1>1, <1>2, <1>3, StandsAt
  <1> QED BY <1>4 DEF b, u

(* The bytes of the i-th segment are where DataHandler's count puts them.  *)
LEMMA PartIsThere ==
    ASSUME NEW held \in Seq(Held), NEW i \in 1 .. Len(held)
    PROVE  LET at == Len(BufferOf(held)) - D!BytesFrom(held, i)
           IN  SubSeq(BufferOf(held), at + 1, at + held[i].len) = PartOf(held[i])
  <1> DEFINE k == i - 1
             b == BufferOf(held)
             p == BufferOf(Begin(held, k))
             t == BufferOf(Behind(held, i))
             x == PartOf(held[i])
             after == BufferOf(Behind(held, k))
             at == Len(b) - D!BytesFrom(held, i)
  <1>1. k \in 0 .. Len(held) /\ i \in 1 .. Len(held) + 1 /\ held[i] \in Held
    BY SeqFacts
  <1>2. x \in Seq(Cell) /\ Len(x) = held[i].len
    BY <1>1, HeldFacts
  <1>3. after = x \o t /\ after \in Seq(Cell) /\ t \in Seq(Cell)
    BY BufferBehind
  <1>4. b = p \o after /\ p \in Seq(Cell)
    <2>1. Begin(held, k) \in Seq(Held)
      BY <1>1, BeginFacts
    <2>2. Behind(held, k) \in Seq(Held)
      BY <1>1, BehindFacts
    <2>3. held = Begin(held, k) \o Behind(held, k)
      BY <1>1, BeginBehind
    <2>4. BufferOf(Begin(held, k) \o Behind(held, k)) = p \o after
      BY <2>1, <2>2, BufferAppends
    <2>5. p \in Seq(Cell)
      BY <2>1, PartsFacts
    <2> QED BY <2>3, <2>4, <2>5
  <1>5. D!BytesFrom(held, i) = Len(after)
    BY <1>1, BytesAreCounted
  <1> HIDE DEF b, p, t, x, after
  <1>6. at = Len(p)
    <2>1. Len(b) = Len(p) + Len(after) /\ Len(p) \in Nat /\ Len(after) \in Nat
      BY <1>3, <1>4, ConcatFacts, SeqFacts
    <2> QED BY <1>5, <2>1
  <1> HIDE DEF at
  <1>7. SubSeq(p \o (x \o t), Len(p) + 1, Len(p) + Len(x)) = x
    BY <1>2, <1>3, <1>4, Inside
  <1>8. SubSeq(b, at + 1, at + held[i].len) = x
    BY <1>2, <1>3, <1>4, <1>6, <1>7
  <1> QED BY <1>8 DEF at, b, x

(* SegmentsAreExact: while datagrams arrive whole or not at all, the bytes *)
(* in the stream are, one after another, those of the packets DataHandler  *)
(* has in it and the zeros it counts, for every digest, every size of the  *)
(* buffers, and lists that overflow them or are not understood.            *)
THEOREM BytesAreSegments == Spec /\ ArrivesWhole => []SegmentsAreExact
  <1>1. WholeInv => SegmentsAreExact
    <2> SUFFICES ASSUME WholeInv PROVE SegmentsAreExact
      OBVIOUS
    <2>1. segments \in Seq(Held) /\ m_buffer = BufferOf(segments)
      BY DEF WholeInv
    <2>2. Len(m_buffer) = D!Bytes(segments)
      BY <2>1, BytesAreThose
    <2>3. DOMAIN segments = 1 .. Len(segments)
      BY <2>1, SeqFacts
    <2>4. ASSUME NEW i \in 1 .. Len(segments), NEW bytes,
                 bytes = SubSeq(m_buffer, Offset(i) + 1, Offset(i) + segments[i].len)
          PROVE  CASE segments[i].kind = "packet" -> bytes = Encode(segments[i].name)
                   [] segments[i].kind = "zeros" -> \A j \in DOMAIN bytes : bytes[j] = 0
                   [] OTHER -> Declared(bytes) = segments[i].declared
      <3> DEFINE x == segments[i]
      <3>1. x \in Held
        BY <2>1, SeqFacts
      <3>2. bytes = PartOf(x)
        BY <2>1, <2>4, PartIsThere DEF Offset
      <3> HIDE DEF x
      <3>3. CASE x.kind = "packet"
        <4>1. PartOf(x) = Encode(x.name)
          BY <3>1, <3>3, HeldFacts
        <4> QED BY <3>2, <3>3, <4>1 DEF x
      <3>4. CASE x.kind = "zeros"
        <4>1. PartOf(x) = ZeroRun(x.len) /\ x.len \in Nat
          BY <3>1, <3>4, HeldFacts
        <4>2. \A j \in DOMAIN bytes : bytes[j] = 0
          BY <3>2, <4>1 DEF ZeroRun
        <4> QED BY <3>4, <4>2 DEF x
      <3>5. CASE x.kind = "foreign"
        <4>1. /\ x.name \in MessageLists /\ Fits(x.name) /\ PartOf(x) = Encode(x.name)
              /\ x.declared = TotalSize(x.name)
          BY <3>1, <3>5, HeldFacts
        <4>2. bytes \in Seq(Cell) /\ Stands(Encode(x.name), bytes, 0)
          BY <3>2, <4>1, PacketCells
        <4>3. Declared(bytes) = TotalSize(x.name)
          BY <4>1, <4>2, PacketDeclares
        <4> QED BY <3>5, <4>1, <4>3 DEF x
      <3>6. x.kind = "packet" \/ x.kind = "zeros" \/ x.kind = "foreign"
        BY <3>1, HeldFacts
      <3> QED BY <3>3, <3>4, <3>5, <3>6
    <2> QED BY <2>2, <2>3, <2>4 DEF SegmentsAreExact
  <1> QED BY <1>1, WholeInductive, PTL

(* ReturnsWhatWasSent: while datagrams arrive whole or not at all, a call  *)
(* returns the lists whose packets DataHandler finds in the buffer, field  *)
(* for field as they were sent and in the order they came.                 *)
THEOREM WholeDatagramsReturn == Spec /\ ArrivesWhole => ReturnsWhatWasSent
  <1>1. WholeInv /\ [Next]_vars => [Process => returned' = D!Outcome(segments).packets]_vars
    <2> SUFFICES ASSUME WholeInv, Process PROVE returned' = D!Outcome(segments).packets
      OBVIOUS
    <2> QED BY ProcessHeld
  <1> QED BY <1>1, WholeInductive, PTL DEF Spec, ReturnsWhatWasSent
=============================================================================
