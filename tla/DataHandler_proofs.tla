------------------------- MODULE DataHandler_proofs -------------------------
(***************************************************************************)
(* What the streams of data_handler keep and return, for every set of      *)
(* senders and datagrams, every buffer size and every number of segments:  *)
(* a clean stream returns all that arrived, no stream returns what did not *)
(* arrive, and what waits in a buffer waits for bytes to come.             *)
(*                                                                         *)
(* BytesFrom and Outcome are recursive functions over the places of a      *)
(* buffer.  That they have values, and what those are, is shown by         *)
(* induction from the last place to the first (Downwards), which rests on  *)
(* the least element of a set of naturals: the library's own induction     *)
(* theorems take an operator as a parameter.                               *)
(***************************************************************************)
EXTENDS DataHandler, WellFoundedInduction, TLAPS

(* Every nonempty set of naturals has a least element.                     *)
LEMMA LeastNatural ==
    ASSUME NEW T, T \subseteq Nat, T # {}
    PROVE  \E x \in T : \A y \in T : x <= y
  <1> DEFINE R == OpToRel(<, Nat)
  <1>1. PICK x \in T : \A y \in T : ~ (<<y, x>> \in R)
    <2>1. IsWellFoundedOn(R, Nat)
      BY NatLessThanWellFounded
    <2> HIDE DEF R
    <2> QED BY <2>1, WFMin, Zenon
  <1>2. ASSUME NEW y \in T PROVE x <= y
    <2>1. ~ (<<y, x>> \in R)
      BY <1>1
    <2>2. \A a, b \in Nat : a < b => <<a, b>> \in R
      BY DEF OpToRel
    <2> HIDE DEF R
    <2> QED BY <2>1, <2>2
  <1> QED BY <1>2

(* Induction from the end of a list to its beginning: what holds behind    *)
(* its last element, and of a place if it holds of all later ones, holds   *)
(* of every place.                                                         *)
LEMMA Downwards ==
    ASSUME NEW n \in Nat, NEW T, n + 1 \in T,
           \A i \in 1 .. n : (\A j \in i + 1 .. n + 1 : j \in T) => i \in T
    PROVE  \A i \in 1 .. n + 1 : i \in T
  <1> DEFINE Bad == {d \in 0 .. n : n + 1 - d \notin T}
  <1>1. Bad = {}
    <2> SUFFICES ASSUME Bad # {} PROVE FALSE
      OBVIOUS
    <2>1. PICK d \in Bad : \A e \in Bad : d <= e
      <3>1. Bad \subseteq Nat
        OBVIOUS
      <3> HIDE DEF Bad
      <3> QED BY <3>1, LeastNatural
    <2>2. d \in 0 .. n /\ n + 1 - d \notin T
      OBVIOUS
    <2>3. d # 0
      BY <2>2
    <2>4. n + 1 - d \in 1 .. n
      BY <2>2, <2>3
    <2>5. ASSUME NEW j \in (n + 1 - d) + 1 .. n + 1 PROVE j \in T
      <3>1. n + 1 - j \in 0 .. n /\ ~ (d <= n + 1 - j) /\ n + 1 - (n + 1 - j) = j
        BY <2>2, <2>3
      <3>2. n + 1 - j \notin Bad
        <4> HIDE DEF Bad
        <4> QED BY <2>1, <3>1
      <3> QED BY <3>1, <3>2
    <2> QED BY <2>2, <2>4, <2>5
  <1>2. ASSUME NEW i \in 1 .. n + 1 PROVE i \in T
    <2>1. n + 1 - i \in 0 .. n /\ n + 1 - (n + 1 - i) = i
      OBVIOUS
    <2> QED BY <1>1, <2>1
  <1> QED BY <1>2

-----------------------------------------------------------------------------
(* BytesFrom is what its definition says.                                  *)
Counts(f, segments, k) ==
    f = [j \in k .. Len(segments) + 1 |->
           IF j > Len(segments) THEN 0 ELSE segments[j].len + f[j + 1]]

LEMMA CountsExists ==
    ASSUME NEW segments, Len(segments) \in Nat
    PROVE  \E f : Counts(f, segments, 1)
  <1> DEFINE n == Len(segments)
             T == {k \in 1 .. n + 1 : \E f : Counts(f, segments, k)}
  <1>1. n + 1 \in T
    <2> DEFINE f == [j \in n + 1 .. n + 1 |-> 0]
    <2>1. Counts(f, segments, n + 1)
      BY DEF Counts
    <2> QED BY <2>1
  <1>2. ASSUME NEW k \in 1 .. n, k + 1 \in T PROVE k \in T
    <2>1. PICK f : Counts(f, segments, k + 1)
      BY <1>2
    <2> DEFINE g == [j \in k .. n + 1 |-> IF j = k THEN segments[k].len + f[k + 1] ELSE f[j]]
    <2>2. ASSUME NEW j \in k .. n + 1
          PROVE  g[j] = IF j > n THEN 0 ELSE segments[j].len + g[j + 1]
      <3>1. CASE j = k
        <4>1. k + 1 \in k .. n + 1 /\ k + 1 # k /\ ~ (j > n)
          BY <3>1
        <4> QED BY <3>1, <4>1
      <3>2. CASE j # k
        <4>1. j \in k + 1 .. n + 1 /\ (~ (j > n) => j + 1 \in k .. n + 1 /\ j + 1 # k)
          BY <3>2
        <4>2. f[j] = IF j > n THEN 0 ELSE segments[j].len + f[j + 1]
          BY <2>1, <4>1 DEF Counts
        <4>3. g[j] = f[j] /\ (~ (j > n) => g[j + 1] = f[j + 1])
          BY <3>2, <4>1
        <4> HIDE DEF g
        <4> QED BY <4>2, <4>3
      <3> QED BY <3>1, <3>2
    <2>3. Counts(g, segments, k)
      <3>1. g = [j \in k .. n + 1 |-> g[j]]
        OBVIOUS
      <3> HIDE DEF g
      <3> QED BY <2>2, <3>1 DEF Counts
    <2> QED BY <2>3
  <1>3. \A k \in 1 .. n : (\A j \in k + 1 .. n + 1 : j \in T) => k \in T
    <2> HIDE DEF T
    <2> QED BY <1>2
  <1>4. 1 \in T
    <2>1. n \in Nat /\ 1 \in 1 .. n + 1
      OBVIOUS
    <2> HIDE DEF T, n
    <2>2. \A i \in 1 .. n + 1 : i \in T
      BY <1>1, <1>3, <2>1, Downwards
    <2> QED BY <2>1, <2>2
  <1> QED BY <1>4

LEMMA BytesFromFacts ==
    ASSUME NEW segments, Len(segments) \in Nat
    PROVE  /\ BytesFrom(segments, Len(segments) + 1) = 0
           /\ \A i \in 1 .. Len(segments) :
                 BytesFrom(segments, i) = segments[i].len + BytesFrom(segments, i + 1)
  <1> DEFINE f == CHOOSE f : Counts(f, segments, 1)
  <1>1. Counts(f, segments, 1)
    BY CountsExists
  <1>2. \A i : BytesFrom(segments, i) = f[i]
    BY DEF BytesFrom, Counts
  <1> HIDE DEF f
  <1>3. f[Len(segments) + 1] = 0
    BY <1>1 DEF Counts
  <1>4. \A i \in 1 .. Len(segments) : f[i] = segments[i].len + f[i + 1]
    BY <1>1 DEF Counts
  <1> QED BY <1>2, <1>3, <1>4

-----------------------------------------------------------------------------
(* What a buffer holds: datagrams, and zero bytes.                         *)
Buffers == Datagrams \cup ZeroBytes
Packets == Seq(STRING)
Outcomes == [packets: Packets, rest: Seq(Buffers)]

LEMMA BufferFacts ==
    ASSUME NEW x \in Buffers
    PROVE  /\ x \in Segments \cup ZeroBytes /\ x.len \in Nat /\ x.declared \in Nat
           /\ x.kind # "zeros" => x \in Datagrams /\ x.name \in STRING
           /\ x.kind \in {"packet", "foreign"} => x.len = x.declared /\ x.len >= HeaderSize
           /\ x.kind = "foreign" => x.len > ReadSize
  <1>1. CASE x \in Datagrams
    <2>1. x \in Segments
      BY <1>1, DatagramsTyped
    <2>2. x.len \in Nat /\ x.declared \in Nat /\ x.name \in STRING
      BY <2>1 DEF Segments
    <2>3. /\ x.kind \in {"packet", "foreign"} => x.len = x.declared /\ x.len >= HeaderSize
          /\ x.kind = "foreign" => x.len > ReadSize
      BY <1>1, DatagramsTyped
    <2> QED BY <1>1, <2>1, <2>2, <2>3
  <1>2. CASE x \in ZeroBytes
    BY <1>2 DEF ZeroBytes
  <1> QED BY <1>1, <1>2 DEF Buffers

LEMMA SeqFacts ==
    ASSUME NEW S, NEW s \in Seq(S)
    PROVE  /\ Len(s) \in Nat /\ DOMAIN s = 1 .. Len(s)
           /\ \A i \in 1 .. Len(s) : s[i] \in S
           /\ s = << >> <=> Len(s) = 0
  OBVIOUS

LEMMA SameSequence ==
    ASSUME NEW S, NEW s \in Seq(S), NEW t \in Seq(S), Len(s) = Len(t),
           \A i \in 1 .. Len(s) : s[i] = t[i]
    PROVE  s = t
  <1>1. s = [i \in 1 .. Len(s) |-> s[i]] /\ t = [i \in 1 .. Len(t) |-> t[i]]
    OBVIOUS
  <1> QED BY <1>1

LEMMA ConsFacts ==
    ASSUME NEW S, NEW s \in Seq(S), NEW x \in S
    PROVE  /\ <<x>> \o s \in Seq(S) /\ Len(<<x>> \o s) = Len(s) + 1
           /\ (<<x>> \o s)[1] = x
           /\ \A i \in 1 .. Len(s) : (<<x>> \o s)[i + 1] = s[i]
  <1>1. <<x>> \in Seq(S) /\ Len(<<x>>) = 1 /\ Len(s) \in Nat /\ <<x>>[1] = x
    OBVIOUS
  <1>2. /\ <<x>> \o s \in Seq(S) /\ Len(<<x>> \o s) = Len(<<x>>) + Len(s)
        /\ \A i \in 1 .. Len(<<x>>) + Len(s) :
              (<<x>> \o s)[i] = IF i <= Len(<<x>>) THEN <<x>>[i] ELSE s[i - Len(<<x>>)]
    BY <1>1
  <1>3. \A i \in 1 .. Len(s) : i + 1 \in 1 .. 1 + Len(s) /\ ~ (i + 1 <= 1) /\ i + 1 - 1 = i
    BY <1>1
  <1> QED BY <1>1, <1>2, <1>3

LEMMA BytesTyped ==
    ASSUME NEW segments \in Seq(Buffers)
    PROVE  /\ \A i \in 1 .. Len(segments) + 1 : BytesFrom(segments, i) \in Nat
           /\ \A i \in 1 .. Len(segments) :
                 BytesFrom(segments, i) = segments[i].len + BytesFrom(segments, i + 1)
  <1> DEFINE n == Len(segments)
             T == {i \in 1 .. n + 1 : BytesFrom(segments, i) \in Nat}
  <1>1. n \in Nat /\ \A i \in 1 .. n : segments[i].len \in Nat
    BY SeqFacts, BufferFacts
  <1>2. /\ BytesFrom(segments, n + 1) = 0
        /\ \A i \in 1 .. n : BytesFrom(segments, i) = segments[i].len + BytesFrom(segments, i + 1)
    BY <1>1, BytesFromFacts
  <1>3. n + 1 \in T
    BY <1>1, <1>2
  <1>4. \A i \in 1 .. n : (\A j \in i + 1 .. n + 1 : j \in T) => i \in T
    <2> SUFFICES ASSUME NEW i \in 1 .. n, \A j \in i + 1 .. n + 1 : j \in T PROVE i \in T
      OBVIOUS
    <2>1. i + 1 \in i + 1 .. n + 1 /\ i \in 1 .. n + 1
      BY <1>1
    <2>2. BytesFrom(segments, i + 1) \in Nat
      BY <2>1
    <2>3. BytesFrom(segments, i) = segments[i].len + BytesFrom(segments, i + 1)
      BY <1>2
    <2>4. segments[i].len \in Nat
      BY <1>1
    <2>5. BytesFrom(segments, i) \in Nat
      BY <2>2, <2>3, <2>4
    <2> QED BY <2>1, <2>5
  <1>5. \A i \in 1 .. n + 1 : i \in T
    <2> HIDE DEF T, n
    <2> QED BY <1>1, <1>3, <1>4, Downwards
  <1> QED BY <1>2, <1>5

-----------------------------------------------------------------------------
(* Outcome is what its definition says: from each place, what is found     *)
(* there and what follows from a later one.                                *)
Nothing == [packets |-> << >>, rest |-> << >>]
With(name, outcome) == [outcome EXCEPT !.packets = <<name>> \o @]
After(segments, i) == IF IsSplit(segments, i) THEN i + 2 ELSE i + 1

Runs(f, segments, k) == f = [i \in k .. Len(segments) + 1 |-> Proceeds(f, segments, i)]

LEMMA ProceedsFacts ==
    ASSUME NEW f, NEW segments, Len(segments) \in Nat, NEW i \in 1 .. Len(segments) + 1
    PROVE  /\ i = Len(segments) + 1 => Proceeds(f, segments, i) = Nothing
           /\ i # Len(segments) + 1 =>
                /\ IsIncomplete(segments, i) =>
                     Proceeds(f, segments, i) =
                        [packets |-> << >>, rest |-> SubSeq(segments, i, Len(segments))]
                /\ ~IsIncomplete(segments, i) =>
                     /\ IsWhole(segments, i) \/ IsSplit(segments, i) =>
                          Proceeds(f, segments, i) =
                             With(segments[i].name, f[After(segments, i)])
                     /\ ~ (IsWhole(segments, i) \/ IsSplit(segments, i)) =>
                          Proceeds(f, segments, i) =
                             [packets |-> << >>, rest |-> AfterFailure(segments, i)]
  <1>1. CASE i = Len(segments) + 1
    BY <1>1 DEF Proceeds, Nothing
  <1>2. CASE i # Len(segments) + 1
    BY <1>2 DEF Proceeds, After, With
  <1> QED BY <1>1, <1>2

LEMMA AfterFacts ==
    ASSUME NEW segments, Len(segments) \in Nat, NEW i \in 1 .. Len(segments)
    PROVE  After(segments, i) \in i + 1 .. Len(segments) + 1
  BY DEF After, IsSplit

LEMMA ProceedsAlike ==
    ASSUME NEW f, NEW g, NEW segments, Len(segments) \in Nat, NEW i \in 1 .. Len(segments) + 1,
           \A j \in i + 1 .. Len(segments) + 1 : f[j] = g[j]
    PROVE  Proceeds(f, segments, i) = Proceeds(g, segments, i)
  <1>1. CASE i = Len(segments) + 1
    BY <1>1, ProceedsFacts
  <1>2. CASE i # Len(segments) + 1
    <2>1. i \in 1 .. Len(segments)
      BY <1>2
    <2>2. f[After(segments, i)] = g[After(segments, i)]
      BY <2>1, AfterFacts
    <2> QED BY <1>2, <2>2, ProceedsFacts
  <1> QED BY <1>1, <1>2

LEMMA RunsExists ==
    ASSUME NEW segments, Len(segments) \in Nat
    PROVE  \E f : Runs(f, segments, 1)
  <1> DEFINE n == Len(segments)
             T == {k \in 1 .. n + 1 : \E f : Runs(f, segments, k)}
  <1>1. n \in Nat /\ 1 \in 1 .. n + 1 /\ n + 1 \in 1 .. n + 1
    OBVIOUS
  <1>2. n + 1 \in T
    <2> DEFINE f == [i \in n + 1 .. n + 1 |-> Nothing]
    <2>1. \A i \in n + 1 .. n + 1 : f[i] = Proceeds(f, segments, i)
      <3> HIDE DEF f
      <3>1. f[n + 1] = Nothing
        BY <1>1 DEF f
      <3> QED BY <1>1, <3>1, ProceedsFacts
    <2>2. f = [i \in n + 1 .. n + 1 |-> f[i]]
      OBVIOUS
    <2>3. Runs(f, segments, n + 1)
      <3> HIDE DEF f
      <3> QED BY <2>1, <2>2 DEF Runs
    <2> QED BY <1>1, <2>3
  <1>3. ASSUME NEW k \in 1 .. n, k + 1 \in T PROVE k \in T
    <2>1. PICK f : Runs(f, segments, k + 1)
      BY <1>3
    <2> DEFINE g == [i \in k .. n + 1 |-> IF i = k THEN Proceeds(f, segments, k) ELSE f[i]]
    <2>2. \A i \in k + 1 .. n + 1 : i \in k .. n + 1 /\ g[i] = f[i]
      BY <1>1
    <2>3. ASSUME NEW i \in k .. n + 1
          PROVE  g[i] = Proceeds(g, segments, i)
      <3>1. i \in 1 .. n + 1 /\ \A j \in i + 1 .. n + 1 : j \in k + 1 .. n + 1
        BY <1>1
      <3>2. \A j \in i + 1 .. Len(segments) + 1 : g[j] = f[j]
        BY <2>2, <3>1
      <3>3. Proceeds(g, segments, i) = Proceeds(f, segments, i)
        <4>1. Len(segments) \in Nat /\ i \in 1 .. Len(segments) + 1
          BY <1>1, <3>1
        <4> HIDE DEF g
        <4>2. ASSUME NEW h, \A j \in i + 1 .. Len(segments) + 1 : h[j] = f[j]
              PROVE  Proceeds(h, segments, i) = Proceeds(f, segments, i)
          BY <4>1, <4>2, ProceedsAlike
        <4> QED BY <3>2, <4>2, Zenon
      <3>4. CASE i = k
        <4>1. g[k] = Proceeds(f, segments, k)
          BY <1>1
        <4> HIDE DEF g
        <4> QED BY <3>3, <3>4, <4>1
      <3>5. CASE i # k
        <4>1. i \in k + 1 .. n + 1
          BY <1>1, <3>5
        <4>2. f[i] = Proceeds(f, segments, i)
          BY <2>1, <4>1 DEF Runs
        <4> HIDE DEF g
        <4> QED BY <2>2, <3>3, <4>1, <4>2
      <3> QED BY <3>4, <3>5
    <2>4. Runs(g, segments, k)
      <3>1. g = [i \in k .. n + 1 |-> g[i]]
        OBVIOUS
      <3> HIDE DEF g
      <3> QED BY <2>3, <3>1 DEF Runs
    <2>5. k \in 1 .. n + 1
      BY <1>1
    <2> QED BY <2>4, <2>5
  <1>4. \A k \in 1 .. n : (\A j \in k + 1 .. n + 1 : j \in T) => k \in T
    <2> TAKE k \in 1 .. n
    <2>1. k + 1 \in k + 1 .. n + 1
      BY <1>1
    <2> HIDE DEF T
    <2> QED BY <1>3, <2>1
  <1>5. 1 \in T
    <2> HIDE DEF T, n
    <2>1. \A i \in 1 .. n + 1 : i \in T
      BY <1>1, <1>2, <1>4, Downwards
    <2> QED BY <1>1, <2>1
  <1> QED BY <1>5

LEMMA OutcomeFacts ==
    ASSUME NEW segments, Len(segments) \in Nat
    PROVE  \E f : /\ Outcome(segments) = f[1]
                  /\ \A i \in 1 .. Len(segments) + 1 : f[i] = Proceeds(f, segments, i)
  <1> DEFINE f == CHOOSE f : Runs(f, segments, 1)
  <1>1. Runs(f, segments, 1)
    BY RunsExists
  <1>2. Outcome(segments) = f[1]
    BY DEF Outcome, Runs
  <1> HIDE DEF f
  <1>3. \A i \in 1 .. Len(segments) + 1 : f[i] = Proceeds(f, segments, i)
    BY <1>1 DEF Runs
  <1> QED BY <1>2, <1>3

-----------------------------------------------------------------------------
(* The packets of an outcome are named by segments of the buffer, in their *)
(* order: by whole packets, and by the second parts of split ones.         *)
Completes(segments, p, i) ==
    segments[p].kind = "packet" \/ (segments[p].kind = "tail" /\ p > i)
Draws(ps, segments, i) ==
    \E g \in [DOMAIN ps -> i .. Len(segments)] :
        /\ \A j \in DOMAIN ps : ps[j] = segments[g[j]].name /\ Completes(segments, g[j], i)
        /\ \A j, l \in DOMAIN ps : j < l => g[j] < g[l]

(* What it leaves: nothing, an incomplete packet, or zero bytes for what   *)
(* had not been read of a message of an unknown type.                      *)
Leaves(rest, segments) ==
    \/ rest = << >>
    \/ \E j \in 1 .. Len(segments) :
          IsIncomplete(segments, j) /\ rest = SubSeq(segments, j, Len(segments))
    \/ \E j \in 1 .. Len(segments) :
          segments[j].kind = "foreign" /\ rest = Zeros(BytesFrom(segments, j) - ReadSize)

Found(o, segments, i) ==
    /\ o \in Outcomes
    /\ Draws(o.packets, segments, i)
    /\ Leaves(o.rest, segments)

LEMMA WithFacts ==
    ASSUME NEW o \in Outcomes, NEW name \in STRING
    PROVE  /\ With(name, o) \in Outcomes
           /\ With(name, o).packets = <<name>> \o o.packets
           /\ With(name, o).rest = o.rest
  <1>1. o.packets \in Packets
    BY DEF Outcomes
  <1>2. <<name>> \o o.packets \in Packets
    BY <1>1, ConsFacts DEF Packets
  <1> QED BY <1>2 DEF With, Outcomes

LEMMA DrawsNothing ==
    ASSUME NEW segments, NEW i
    PROVE  Draws(<< >>, segments, i)
  <1> DEFINE g == [j \in DOMAIN << >> |-> i]
  <1>1. DOMAIN << >> = {}
    OBVIOUS
  <1>2. g \in [DOMAIN << >> -> i .. Len(segments)]
    BY <1>1
  <1> QED BY <1>1, <1>2 DEF Draws

LEMMA DrawsMore ==
    ASSUME NEW segments, Len(segments) \in Nat, NEW i \in 1 .. Len(segments),
           NEW k \in i + 1 .. Len(segments) + 1, NEW p \in i .. k - 1,
           Completes(segments, p, i), segments[p].name \in STRING,
           NEW ps \in Packets, Draws(ps, segments, k)
    PROVE  Draws(<<segments[p].name>> \o ps, segments, i)
  <1> DEFINE name == segments[p].name
             qs == <<name>> \o ps
  <1>1. PICK g \in [DOMAIN ps -> k .. Len(segments)] :
           /\ \A j \in DOMAIN ps : ps[j] = segments[g[j]].name /\ Completes(segments, g[j], k)
           /\ \A j, l \in DOMAIN ps : j < l => g[j] < g[l]
    BY DEF Draws
  <1>2. /\ qs \in Packets /\ Len(qs) = Len(ps) + 1 /\ qs[1] = name
        /\ \A j \in 1 .. Len(ps) : qs[j + 1] = ps[j]
    BY ConsFacts DEF Packets
  <1>3. DOMAIN ps = 1 .. Len(ps) /\ DOMAIN qs = 1 .. Len(qs) /\ Len(ps) \in Nat
    BY <1>2, SeqFacts DEF Packets
  <1> HIDE DEF qs, name
  <1> DEFINE h == [j \in DOMAIN qs |-> IF j = 1 THEN p ELSE g[j - 1]]
  <1>4. ASSUME NEW j \in DOMAIN qs
        PROVE  \/ j = 1 /\ h[j] = p /\ qs[j] = name
               \/ /\ j # 1 /\ j - 1 \in DOMAIN ps /\ h[j] = g[j - 1] /\ qs[j] = ps[j - 1]
                  /\ h[j] \in k .. Len(segments)
    <2>1. CASE j = 1
      BY <1>2, <2>1
    <2>2. CASE j # 1
      <3>1. j - 1 \in 1 .. Len(ps) /\ (j - 1) + 1 = j
        BY <1>2, <1>3, <2>2
      <3>2. g[j - 1] \in k .. Len(segments) /\ qs[j] = ps[j - 1]
        BY <1>2, <1>3, <3>1
      <3> QED BY <1>3, <2>2, <3>1, <3>2
    <2> QED BY <2>1, <2>2
  <1>5. h \in [DOMAIN qs -> i .. Len(segments)]
    <2>1. \A j \in DOMAIN qs : h[j] \in i .. Len(segments)
      <3> HIDE DEF h
      <3> QED BY <1>4
    <2> QED BY <2>1
  <1> HIDE DEF h
  <1>6. ASSUME NEW j \in DOMAIN qs
        PROVE  qs[j] = segments[h[j]].name /\ Completes(segments, h[j], i)
    <2>1. CASE j = 1
      BY <1>4, <2>1 DEF name
    <2>2. CASE j # 1
      <3>1. j - 1 \in DOMAIN ps /\ h[j] = g[j - 1] /\ qs[j] = ps[j - 1] /\ h[j] \in k .. Len(segments)
        BY <1>4, <2>2
      <3>2. qs[j] = segments[h[j]].name /\ Completes(segments, h[j], k)
        BY <1>1, <3>1
      <3> QED BY <3>1, <3>2 DEF Completes
    <2> QED BY <2>1, <2>2
  <1>7. ASSUME NEW j \in DOMAIN qs, NEW l \in DOMAIN qs, j < l
        PROVE  h[j] < h[l]
    <2>1. l # 1 /\ j \in Nat /\ l \in Nat
      BY <1>3, <1>7
    <2>2. l - 1 \in DOMAIN ps /\ h[l] = g[l - 1] /\ h[l] \in k .. Len(segments)
      BY <1>4, <2>1
    <2>3. CASE j = 1
      <3>1. h[j] = p
        BY <1>4, <2>3
      <3> QED BY <2>2, <3>1
    <2>4. CASE j # 1
      <3>1. j - 1 \in DOMAIN ps /\ h[j] = g[j - 1]
        BY <1>4, <2>4
      <3>2. j - 1 < l - 1
        BY <1>7, <2>1
      <3> QED BY <1>1, <2>2, <3>1, <3>2
    <2> QED BY <2>3, <2>4
  <1>8. Draws(qs, segments, i)
    BY <1>5, <1>6, <1>7 DEF Draws
  <1> QED BY <1>8 DEF qs, name

LEMMA ZerosFacts ==
    ASSUME NEW n \in Nat
    PROVE  /\ Zeros(n) \in Seq(Buffers) /\ Len(Zeros(n)) <= 1
           /\ n = 0 => Zeros(n) = << >>
           /\ n # 0 => Len(Zeros(n)) = 1 /\ Zeros(n)[1].kind = "zeros"
                       /\ Zeros(n)[1].len = n
  <1> DEFINE z == [kind |-> "zeros", len |-> n, declared |-> 0]
  <1>1. z \in Buffers
    BY DEF Buffers, ZeroBytes
  <1>2. <<z>> \in Seq(Buffers)
    BY <1>1
  <1>3. << >> \in Seq(Buffers)
    OBVIOUS
  <1>4. Zeros(n) = IF n = 0 THEN << >> ELSE <<z>>
    BY DEF Zeros
  <1>5. z.kind = "zeros" /\ z.len = n
    OBVIOUS
  <1> HIDE DEF z
  <1>6. Len(<<z>>) = 1 /\ <<z>>[1] = z
    OBVIOUS
  <1> QED BY <1>2, <1>3, <1>4, <1>5, <1>6

LEMMA SubSeqFacts ==
    ASSUME NEW S, NEW s \in Seq(S), NEW j \in 1 .. Len(s)
    PROVE  /\ SubSeq(s, j, Len(s)) \in Seq(S)
           /\ Len(SubSeq(s, j, Len(s))) = Len(s) + 1 - j
           /\ \A i \in 1 .. Len(s) + 1 - j : SubSeq(s, j, Len(s))[i] = s[j + i - 1]
  OBVIOUS

LEMMA FailureFacts ==
    ASSUME NEW segments \in Seq(Buffers), NEW i \in 1 .. Len(segments)
    PROVE  /\ AfterFailure(segments, i) \in Seq(Buffers)
           /\ Leaves(AfterFailure(segments, i), segments)
  <1>1. CASE segments[i].kind = "foreign"
    <2>1. segments[i] \in Buffers /\ Len(segments) \in Nat
      BY SeqFacts
    <2>2. segments[i].len \in Nat /\ segments[i].len > ReadSize
      BY <1>1, <2>1, BufferFacts
    <2>3. /\ BytesFrom(segments, i) = segments[i].len + BytesFrom(segments, i + 1)
          /\ BytesFrom(segments, i + 1) \in Nat
      <3>1. i + 1 \in 1 .. Len(segments) + 1
        BY <2>1
      <3> QED BY <3>1, BytesTyped
    <2>4. BytesFrom(segments, i) - ReadSize \in Nat
      BY <2>2, <2>3, SizesAssumption
    <2>5. AfterFailure(segments, i) = Zeros(BytesFrom(segments, i) - ReadSize)
      BY <1>1 DEF AfterFailure
    <2> QED BY <1>1, <2>4, <2>5, ZerosFacts DEF Leaves
  <1>2. CASE segments[i].kind # "foreign"
    <2>1. AfterFailure(segments, i) = << >>
      BY <1>2 DEF AfterFailure
    <2> QED BY <2>1 DEF Leaves
  <1> QED BY <1>1, <1>2

LEMMA NothingFound ==
    ASSUME NEW segments, NEW i, NEW rest \in Seq(Buffers), Leaves(rest, segments)
    PROVE  Found([packets |-> << >>, rest |-> rest], segments, i)
  <1>1. << >> \in Packets
    BY DEF Packets
  <1> QED BY <1>1, DrawsNothing DEF Found, Outcomes

(* What is found from a place on, when what follows it is a packet.        *)
LEMMA MoreFound ==
    ASSUME NEW segments \in Seq(Buffers), NEW i \in 1 .. Len(segments),
           IsWhole(segments, i) \/ IsSplit(segments, i),
           NEW o, Found(o, segments, After(segments, i))
    PROVE  Found(With(segments[i].name, o), segments, i)
  <1>1. /\ Len(segments) \in Nat /\ segments[i] \in Buffers
        /\ After(segments, i) \in i + 1 .. Len(segments) + 1
    BY SeqFacts, AfterFacts
  <1>2. segments[i].kind \in {"packet", "head"}
    BY DEF IsWhole, IsSplit
  <1>3. segments[i].name \in STRING
    BY <1>1, <1>2, BufferFacts
  <1>4. o \in Outcomes /\ o.packets \in Packets /\ Draws(o.packets, segments, After(segments, i))
        /\ Leaves(o.rest, segments)
    BY DEF Found, Outcomes
  <1>5. \E p \in i .. After(segments, i) - 1 :
           Completes(segments, p, i) /\ segments[p].name = segments[i].name
    <2>1. CASE IsSplit(segments, i)
      <3>1. /\ i + 1 \in i .. After(segments, i) - 1 /\ i + 1 > i
            /\ segments[i + 1].kind = "tail" /\ segments[i + 1].name = segments[i].name
        BY <2>1 DEF IsSplit, After
      <3> QED BY <3>1 DEF Completes
    <2>2. CASE ~IsSplit(segments, i)
      <3>1. i \in i .. After(segments, i) - 1 /\ segments[i].kind = "packet"
        BY <2>2 DEF IsWhole, After
      <3> QED BY <3>1 DEF Completes
    <2> QED BY <2>1, <2>2
  <1>6. Draws(<<segments[i].name>> \o o.packets, segments, i)
    <2>1. PICK p \in i .. After(segments, i) - 1 :
             Completes(segments, p, i) /\ segments[p].name = segments[i].name
      BY <1>5
    <2> QED BY <1>1, <1>3, <1>4, <2>1, DrawsMore
  <1>7. /\ With(segments[i].name, o) \in Outcomes
        /\ With(segments[i].name, o).packets = <<segments[i].name>> \o o.packets
        /\ With(segments[i].name, o).rest = o.rest
    BY <1>3, <1>4, WithFacts
  <1> QED BY <1>4, <1>6, <1>7 DEF Found

(* What an outcome consists of.                                            *)
LEMMA OutcomeFound ==
    ASSUME NEW segments \in Seq(Buffers)
    PROVE  Found(Outcome(segments), segments, 1)
  <1> DEFINE n == Len(segments)
  <1>1. n \in Nat /\ 1 \in 1 .. n + 1
    BY SeqFacts
  <1>2. PICK f : /\ Outcome(segments) = f[1]
                 /\ \A i \in 1 .. n + 1 : f[i] = Proceeds(f, segments, i)
    BY <1>1, OutcomeFacts
  <1> DEFINE T == {i \in 1 .. n + 1 : Found(f[i], segments, i)}
  <1>3. n + 1 \in T
    <2>1. n + 1 \in 1 .. n + 1
      BY <1>1
    <2>2. f[n + 1] = Nothing
      BY <1>1, <1>2, <2>1, ProceedsFacts
    <2>3. Found(Nothing, segments, n + 1)
      <3>1. << >> \in Seq(Buffers) /\ Leaves(<< >>, segments)
        BY DEF Leaves
      <3> QED BY <3>1, NothingFound DEF Nothing
    <2> QED BY <2>1, <2>2, <2>3
  <1>4. ASSUME NEW i \in 1 .. n, \A j \in i + 1 .. n + 1 : j \in T PROVE i \in T
    <2>1. i \in 1 .. n + 1 /\ i # n + 1
      BY <1>1
    <2>2. f[i] = Proceeds(f, segments, i)
      BY <1>2, <2>1
    <2>3. CASE IsIncomplete(segments, i)
      <3>1. f[i] = [packets |-> << >>, rest |-> SubSeq(segments, i, n)]
        BY <1>1, <2>1, <2>2, <2>3, ProceedsFacts
      <3>2. Leaves(SubSeq(segments, i, n), segments) /\ SubSeq(segments, i, n) \in Seq(Buffers)
        BY <2>3, SubSeqFacts DEF Leaves
      <3>3. Found(f[i], segments, i)
        BY <3>1, <3>2, NothingFound
      <3> QED BY <2>1, <3>3
    <2>4. CASE ~IsIncomplete(segments, i) /\ (IsWhole(segments, i) \/ IsSplit(segments, i))
      <3>1. f[i] = With(segments[i].name, f[After(segments, i)])
        BY <1>1, <2>1, <2>2, <2>4, ProceedsFacts
      <3>2. Found(f[After(segments, i)], segments, After(segments, i))
        BY <1>1, <1>4, AfterFacts
      <3>3. Found(f[i], segments, i)
        BY <2>4, <3>1, <3>2, MoreFound
      <3> QED BY <2>1, <3>3
    <2>5. CASE ~IsIncomplete(segments, i) /\ ~ (IsWhole(segments, i) \/ IsSplit(segments, i))
      <3>1. f[i] = [packets |-> << >>, rest |-> AfterFailure(segments, i)]
        BY <1>1, <2>1, <2>2, <2>5, ProceedsFacts
      <3>2. Found(f[i], segments, i)
        BY <3>1, FailureFacts, NothingFound
      <3> QED BY <2>1, <3>2
    <2> QED BY <2>3, <2>4, <2>5
  <1>5. \A i \in 1 .. n + 1 : i \in T
    <2>1. \A i \in 1 .. n : (\A j \in i + 1 .. n + 1 : j \in T) => i \in T
      BY <1>4
    <2> HIDE DEF T, n
    <2> QED BY <1>1, <1>3, <2>1, Downwards
  <1> QED BY <1>1, <1>2, <1>5

(* A buffer of whole packets gives all of them.                            *)
Delivered(o, segments, i) ==
    /\ o \in Outcomes
    /\ Len(o.packets) = Len(segments) + 1 - i
    /\ \A j \in 1 .. Len(o.packets) : o.packets[j] = segments[i + j - 1].name
    /\ o.rest = << >>

LEMMA PacketIsComplete ==
    ASSUME NEW segments \in Seq(Buffers), NEW i \in 1 .. Len(segments),
           segments[i].kind = "packet"
    PROVE  ~IsIncomplete(segments, i)
  <1>1. segments[i] \in Buffers /\ i + 1 \in 1 .. Len(segments) + 1
    BY SeqFacts
  <1>2. /\ segments[i].len = segments[i].declared /\ segments[i].len >= HeaderSize
        /\ segments[i].len \in Nat
    BY <1>1, BufferFacts
  <1>3. /\ BytesFrom(segments, i) = segments[i].len + BytesFrom(segments, i + 1)
        /\ BytesFrom(segments, i + 1) \in Nat
    BY <1>1, BytesTyped
  <1>4. BytesFrom(segments, i) >= segments[i].len /\ BytesFrom(segments, i) \in Nat
    BY <1>2, <1>3
  <1> QED BY <1>2, <1>4, SizesAssumption DEF IsIncomplete

LEMMA OutcomeDelivers ==
    ASSUME NEW segments \in Seq(Buffers),
           \A i \in 1 .. Len(segments) : segments[i].kind = "packet"
    PROVE  Delivered(Outcome(segments), segments, 1)
  <1> DEFINE n == Len(segments)
  <1>1. n \in Nat /\ 1 \in 1 .. n + 1
    BY SeqFacts
  <1>2. PICK f : /\ Outcome(segments) = f[1]
                 /\ \A i \in 1 .. n + 1 : f[i] = Proceeds(f, segments, i)
    BY <1>1, OutcomeFacts
  <1> DEFINE T == {i \in 1 .. n + 1 : Delivered(f[i], segments, i)}
  <1>3. n + 1 \in T
    <2>1. n + 1 \in 1 .. n + 1
      BY <1>1
    <2>2. f[n + 1] = Nothing
      BY <1>1, <1>2, <2>1, ProceedsFacts
    <2>3. Delivered(Nothing, segments, n + 1)
      <3>1. Nothing \in Outcomes /\ Nothing.packets = << >> /\ Nothing.rest = << >>
        BY DEF Nothing, Outcomes, Packets
      <3>2. Len(<< >>) = n + 1 - (n + 1) /\ 1 .. 0 = {} /\ Len(<< >>) = 0
        BY <1>1
      <3> QED BY <3>1, <3>2 DEF Delivered
    <2> QED BY <2>1, <2>2, <2>3
  <1>4. ASSUME NEW i \in 1 .. n, \A j \in i + 1 .. n + 1 : j \in T PROVE i \in T
    <2>1. i \in 1 .. n + 1 /\ i # n + 1 /\ i + 1 \in i + 1 .. n + 1
      BY <1>1
    <2>2. f[i] = Proceeds(f, segments, i)
      BY <1>2, <2>1
    <2>3. ~IsIncomplete(segments, i)
      BY PacketIsComplete
    <2>4. IsWhole(segments, i) /\ After(segments, i) = i + 1
      BY DEF IsWhole, IsSplit, After
    <2>5. f[i] = With(segments[i].name, f[i + 1])
      BY <1>1, <2>1, <2>2, <2>3, <2>4, ProceedsFacts
    <2>6. Delivered(f[i + 1], segments, i + 1)
      BY <1>4, <2>1
    <2>7. segments[i].name \in STRING
      BY SeqFacts, BufferFacts
    <2> DEFINE ps == f[i + 1].packets
    <2>8. /\ f[i] \in Outcomes /\ f[i].packets = <<segments[i].name>> \o ps
          /\ f[i].rest = << >> /\ ps \in Packets
          /\ Len(ps) = n + 1 - (i + 1)
          /\ \A j \in 1 .. Len(ps) : ps[j] = segments[(i + 1) + j - 1].name
      <3>1. /\ f[i + 1] \in Outcomes /\ f[i + 1].rest = << >>
            /\ Len(ps) = n + 1 - (i + 1)
            /\ \A j \in 1 .. Len(ps) : ps[j] = segments[(i + 1) + j - 1].name
        BY <2>6 DEF Delivered
      <3>2. ps \in Packets
        BY <3>1 DEF Outcomes
      <3>3. /\ f[i] \in Outcomes /\ f[i].packets = <<segments[i].name>> \o ps
            /\ f[i].rest = << >>
        <4> HIDE DEF n
        <4> DEFINE o == f[i + 1]
        <4>1. o \in Outcomes /\ o.rest = << >>
          BY <3>1
        <4>2. f[i] = With(segments[i].name, o)
          BY <2>5
        <4> HIDE DEF o
        <4>3. /\ With(segments[i].name, o) \in Outcomes
              /\ With(segments[i].name, o).packets = <<segments[i].name>> \o o.packets
              /\ With(segments[i].name, o).rest = o.rest
          BY <2>7, <4>1, WithFacts
        <4> QED BY <4>1, <4>2, <4>3, Zenon DEF o
      <3> QED BY <3>1, <3>2, <3>3
    <2> HIDE DEF ps
    <2>9. /\ Len(f[i].packets) = Len(ps) + 1 /\ f[i].packets[1] = segments[i].name
          /\ \A j \in 1 .. Len(ps) : f[i].packets[j + 1] = ps[j]
      BY <2>7, <2>8, ConsFacts DEF Packets
    <2>10. Len(f[i].packets) = n + 1 - i /\ Len(ps) = n - i
      <3>1. Len(f[i].packets) = Len(ps) + 1
        BY <2>9
      <3>2. Len(ps) = n + 1 - (i + 1)
        BY <2>8
      <3>3. n + 1 - (i + 1) = n - i /\ n - i + 1 = n + 1 - i
        BY <1>1
      <3> QED BY <3>1, <3>2, <3>3
    <2>11. ASSUME NEW j \in 1 .. Len(f[i].packets)
           PROVE  f[i].packets[j] = segments[i + j - 1].name
      <3>1. CASE j = 1
        <4>1. i + 1 - 1 = i
          BY <1>1
        <4> QED BY <2>9, <3>1, <4>1
      <3>2. CASE j # 1
        <4>1. j - 1 \in 1 .. Len(ps) /\ (j - 1) + 1 = j /\ (i + 1) + (j - 1) - 1 = i + j - 1
          BY <1>1, <2>10, <3>2
        <4>2. f[i].packets[j] = ps[j - 1] /\ ps[j - 1] = segments[(i + 1) + (j - 1) - 1].name
          BY <2>8, <2>9, <4>1
        <4> QED BY <4>1, <4>2
      <3> QED BY <3>1, <3>2
    <2>12. Delivered(f[i], segments, i)
      BY <2>8, <2>10, <2>11 DEF Delivered
    <2> QED BY <2>1, <2>12
  <1>5. \A i \in 1 .. n + 1 : i \in T
    <2>1. \A i \in 1 .. n : (\A j \in i + 1 .. n + 1 : j \in T) => i \in T
      BY <1>4
    <2> HIDE DEF T, n
    <2> QED BY <1>1, <1>3, <2>1, Downwards
  <1> QED BY <1>1, <1>2, <1>5

-----------------------------------------------------------------------------
(* The suffix of a buffer counts the bytes of the buffer from there on.    *)
LEMMA BytesOfSuffix ==
    ASSUME NEW segments \in Seq(Buffers), NEW j \in 1 .. Len(segments)
    PROVE  BytesFrom(SubSeq(segments, j, Len(segments)), 1) = BytesFrom(segments, j)
  <1> DEFINE rest == SubSeq(segments, j, Len(segments))
             n == Len(rest)
             T == {i \in 1 .. n + 1 : BytesFrom(rest, i) = BytesFrom(segments, j + i - 1)}
  <1>1. /\ rest \in Seq(Buffers) /\ n = Len(segments) + 1 - j
        /\ \A i \in 1 .. n : rest[i] = segments[j + i - 1]
    BY SubSeqFacts
  <1>2. Len(segments) \in Nat /\ n \in Nat /\ 1 \in 1 .. n + 1 /\ n + 1 \in 1 .. n + 1
    BY <1>1, SeqFacts
  <1>3. /\ BytesFrom(rest, n + 1) = 0
        /\ \A i \in 1 .. n : BytesFrom(rest, i) = rest[i].len + BytesFrom(rest, i + 1)
    BY <1>2, BytesFromFacts
  <1>4. /\ BytesFrom(segments, Len(segments) + 1) = 0
        /\ \A i \in 1 .. Len(segments) :
              BytesFrom(segments, i) = segments[i].len + BytesFrom(segments, i + 1)
    BY <1>2, BytesFromFacts
  <1> HIDE DEF rest, n
  <1>5. n + 1 \in T
    <2>1. j + (n + 1) - 1 = Len(segments) + 1
      BY <1>1, <1>2
    <2> QED BY <1>2, <1>3, <1>4, <2>1
  <1>6. ASSUME NEW i \in 1 .. n, \A l \in i + 1 .. n + 1 : l \in T PROVE i \in T
    <2>1. /\ i + 1 \in i + 1 .. n + 1 /\ j + i - 1 \in 1 .. Len(segments)
          /\ (j + i - 1) + 1 = j + (i + 1) - 1 /\ i \in 1 .. n + 1
      BY <1>1, <1>2
    <2>2. BytesFrom(rest, i + 1) = BytesFrom(segments, j + (i + 1) - 1)
      BY <1>6, <2>1
    <2>3. BytesFrom(rest, i) = segments[j + i - 1].len + BytesFrom(rest, i + 1)
      BY <1>1, <1>3
    <2>4. BytesFrom(segments, j + i - 1)
             = segments[j + i - 1].len + BytesFrom(segments, j + (i + 1) - 1)
      BY <1>4, <2>1
    <2> QED BY <2>1, <2>2, <2>3, <2>4
  <1>7. 1 \in T
    <2>1. \A i \in 1 .. n : (\A l \in i + 1 .. n + 1 : l \in T) => i \in T
      BY <1>6
    <2> HIDE DEF T
    <2>2. \A i \in 1 .. n + 1 : i \in T
      BY <1>2, <1>5, <2>1, Downwards
    <2> QED BY <1>2, <2>2
  <1>8. j + 1 - 1 = j
    OBVIOUS
  <1> QED BY <1>7, <1>8 DEF rest

-----------------------------------------------------------------------------
(* The first k segments of a buffer were there after the last process():   *)
(* they do not begin with a packet, and what began there was not complete. *)
Old(segments, k) ==
    k >= 1 => /\ segments[1].kind # "packet"
              /\ k >= 2 => ~IsSplit(segments, 1)

(* The later ones that complete a packet are owed, in their order.         *)
Arrived(segments, k) ==
    {p \in k + 1 .. Len(segments) : segments[p].kind \in {"packet", "tail"}}
Owes(segments, names, k) ==
    \E place \in [Arrived(segments, k) -> DOMAIN names] :
        /\ \A p \in Arrived(segments, k) : names[place[p]] = segments[p].name
        /\ \A p, q \in Arrived(segments, k) : p < q => place[p] < place[q]
Accounted(segments, names) ==
    \E k \in 0 .. Len(segments) : Old(segments, k) /\ Owes(segments, names, k)

LEMMA AppendFacts ==
    ASSUME NEW S, NEW s \in Seq(S), NEW x \in S
    PROVE  /\ Append(s, x) \in Seq(S) /\ Len(Append(s, x)) = Len(s) + 1
           /\ Append(s, x)[Len(s) + 1] = x
           /\ \A i \in 1 .. Len(s) : Append(s, x)[i] = s[i]
  OBVIOUS

(* A datagram that arrives.                                                *)
OwedAfter(names, d) ==
    IF d.kind \in {"packet", "tail"} THEN Append(names, d.name) ELSE names

LEMMA OwedAfterFacts ==
    ASSUME NEW names \in Packets, NEW d \in Datagrams
    PROVE  /\ OwedAfter(names, d) \in Packets
           /\ \A i \in DOMAIN names :
                 i \in DOMAIN OwedAfter(names, d) /\ OwedAfter(names, d)[i] = names[i]
           /\ d.kind \in {"packet", "tail"} =>
                 /\ Len(names) + 1 \in DOMAIN OwedAfter(names, d)
                 /\ OwedAfter(names, d)[Len(names) + 1] = d.name
                 /\ Len(OwedAfter(names, d)) = Len(names) + 1
  <1>1. d.name \in STRING
    BY DatagramsTyped DEF Segments
  <1>2. CASE d.kind \in {"packet", "tail"}
    <2>1. OwedAfter(names, d) = Append(names, d.name)
      BY <1>2 DEF OwedAfter
    <2>2. /\ Append(names, d.name) \in Packets /\ Len(Append(names, d.name)) = Len(names) + 1
          /\ Append(names, d.name)[Len(names) + 1] = d.name
          /\ \A i \in 1 .. Len(names) : Append(names, d.name)[i] = names[i]
      BY <1>1, AppendFacts DEF Packets
    <2>3. DOMAIN names = 1 .. Len(names) /\ Len(names) \in Nat
          /\ DOMAIN Append(names, d.name) = 1 .. Len(names) + 1
      BY <2>2, SeqFacts DEF Packets
    <2> QED BY <2>1, <2>2, <2>3
  <1>3. CASE d.kind \notin {"packet", "tail"}
    BY <1>3 DEF OwedAfter
  <1> QED BY <1>2, <1>3

LEMMA ArrivalAccounted ==
    ASSUME NEW segments \in Seq(Buffers), NEW names \in Packets, NEW d \in Datagrams,
           Accounted(segments, names)
    PROVE  Accounted(Append(segments, d), OwedAfter(names, d))
  <1> DEFINE n == Len(segments)
             longer == Append(segments, d)
             more == OwedAfter(names, d)
  <1>1. PICK k \in 0 .. n : Old(segments, k) /\ Owes(segments, names, k)
    BY DEF Accounted
  <1>2. PICK place \in [Arrived(segments, k) -> DOMAIN names] :
           /\ \A p \in Arrived(segments, k) : names[place[p]] = segments[p].name
           /\ \A p, q \in Arrived(segments, k) : p < q => place[p] < place[q]
    BY <1>1 DEF Owes
  <1>3. n \in Nat /\ DOMAIN names = 1 .. Len(names) /\ Len(names) \in Nat
    BY SeqFacts DEF Packets
  <1>4. /\ longer \in Seq(Buffers) /\ Len(longer) = n + 1 /\ longer[n + 1] = d
        /\ \A i \in 1 .. n : longer[i] = segments[i]
    BY AppendFacts DEF Buffers
  <1>5. /\ \A i \in DOMAIN names : i \in DOMAIN more /\ more[i] = names[i]
        /\ d.kind \in {"packet", "tail"} =>
              Len(names) + 1 \in DOMAIN more /\ more[Len(names) + 1] = d.name
    BY OwedAfterFacts
  <1> HIDE DEF longer, more, n
  <1>6. k \in 0 .. Len(longer) /\ Old(longer, k)
    <2>1. k >= 1 => longer[1] = segments[1]
      BY <1>3, <1>4
    <2>2. k >= 2 => longer[2] = segments[2] /\ n >= 2
      BY <1>3, <1>4
    <2>3. k >= 2 => (IsSplit(longer, 1) => IsSplit(segments, 1))
      BY <1>3, <1>4, <2>1, <2>2 DEF IsSplit, n
    <2> QED BY <1>1, <1>3, <1>4, <2>1, <2>3 DEF Old
  <1> DEFINE at == [p \in Arrived(longer, k) |-> IF p = n + 1 THEN Len(names) + 1 ELSE place[p]]
  <1>7. ASSUME NEW p \in Arrived(longer, k)
        PROVE  \/ /\ p = n + 1 /\ at[p] = Len(names) + 1 /\ at[p] \in DOMAIN more
                  /\ more[at[p]] = longer[p].name
               \/ /\ p < n + 1 /\ p \in Arrived(segments, k) /\ at[p] = place[p]
                  /\ at[p] \in DOMAIN more /\ at[p] \in 1 .. Len(names)
                  /\ more[at[p]] = longer[p].name
    <2>1. p \in k + 1 .. n + 1 /\ longer[p].kind \in {"packet", "tail"}
      BY <1>4 DEF Arrived
    <2>2. CASE p = n + 1
      BY <1>4, <1>5, <2>1, <2>2
    <2>3. CASE p # n + 1
      <3>1. p \in k + 1 .. n /\ p \in 1 .. n /\ longer[p] = segments[p]
        BY <1>3, <1>4, <2>1, <2>3
      <3>2. p \in Arrived(segments, k)
        BY <2>1, <3>1 DEF Arrived, n
      <3>3. place[p] \in DOMAIN names /\ names[place[p]] = segments[p].name
        BY <1>2, <3>2
      <3>4. at[p] = place[p]
        BY <2>3
      <3> HIDE DEF at
      <3> QED BY <1>3, <1>5, <3>1, <3>2, <3>3, <3>4
    <2> QED BY <2>2, <2>3
  <1>8. at \in [Arrived(longer, k) -> DOMAIN more]
    <2>1. \A p \in Arrived(longer, k) : at[p] \in DOMAIN more
      <3> HIDE DEF at
      <3> QED BY <1>7
    <2> QED BY <2>1
  <1> HIDE DEF at
  <1>9. ASSUME NEW p \in Arrived(longer, k), NEW q \in Arrived(longer, k), p < q
        PROVE  at[p] < at[q]
    <2>1. p < n + 1 /\ p \in Arrived(segments, k) /\ at[p] = place[p] /\ at[p] \in 1 .. Len(names)
      <3>1. q \in k + 1 .. n + 1 /\ p \in k + 1 .. n + 1
        BY <1>4 DEF Arrived
      <3>2. p # n + 1
        BY <1>3, <1>9, <3>1
      <3> QED BY <1>7, <3>2
    <2>2. CASE q = n + 1
      <3>1. at[q] = Len(names) + 1
        BY <1>3, <1>7, <2>2
      <3> QED BY <1>3, <2>1, <3>1
    <2>3. CASE q # n + 1
      <3>1. q \in Arrived(segments, k) /\ at[q] = place[q]
        BY <1>7, <2>3
      <3> QED BY <1>2, <1>9, <2>1, <3>1
    <2> QED BY <2>2, <2>3
  <1>10. Owes(longer, more, k)
    <2>1. \A p \in Arrived(longer, k) : more[at[p]] = longer[p].name
      BY <1>7
    <2> QED BY <1>8, <1>9, <2>1 DEF Owes
  <1>11. Accounted(longer, more)
    BY <1>6, <1>10 DEF Accounted
  <1> QED BY <1>11 DEF longer, more

(* Zero bytes that come before what was in the buffer.                     *)
LEMMA OverflowAccounted ==
    ASSUME NEW segments \in Seq(Buffers), NEW names, NEW z \in Buffers, z.kind = "zeros",
           Accounted(segments, names)
    PROVE  Accounted(<<z>> \o segments, names)
  <1> DEFINE n == Len(segments)
             longer == <<z>> \o segments
  <1>1. PICK k \in 0 .. n : Owes(segments, names, k)
    BY DEF Accounted
  <1>2. PICK place \in [Arrived(segments, k) -> DOMAIN names] :
           /\ \A p \in Arrived(segments, k) : names[place[p]] = segments[p].name
           /\ \A p, q \in Arrived(segments, k) : p < q => place[p] < place[q]
    BY <1>1 DEF Owes
  <1>3. /\ Len(longer) = n + 1 /\ longer[1] = z
        /\ \A i \in 1 .. n : longer[i + 1] = segments[i]
    BY ConsFacts
  <1>4. n \in Nat
    BY SeqFacts
  <1> HIDE DEF longer, n
  <1>5. k + 1 \in 0 .. Len(longer) /\ Old(longer, k + 1)
    BY <1>3, <1>4 DEF Old, IsSplit
  <1>6. ASSUME NEW p \in Arrived(longer, k + 1)
        PROVE  p - 1 \in Arrived(segments, k) /\ longer[p] = segments[p - 1] /\ p \in Nat
    <2>1. p \in k + 2 .. n + 1 /\ longer[p].kind \in {"packet", "tail"}
      BY <1>3 DEF Arrived
    <2>2. p - 1 \in k + 1 .. n /\ p - 1 \in 1 .. n /\ (p - 1) + 1 = p
      BY <1>4, <2>1
    <2>3. longer[p] = segments[p - 1]
      BY <1>3, <2>2
    <2> QED BY <2>1, <2>2, <2>3 DEF Arrived, n
  <1> DEFINE at == [p \in Arrived(longer, k + 1) |-> place[p - 1]]
  <1>7. \A p \in Arrived(longer, k + 1) : at[p] = place[p - 1]
    OBVIOUS
  <1>8. at \in [Arrived(longer, k + 1) -> DOMAIN names]
    BY <1>2, <1>6
  <1> HIDE DEF at
  <1>9. \A p \in Arrived(longer, k + 1) : names[at[p]] = longer[p].name
    BY <1>2, <1>6, <1>7
  <1>10. ASSUME NEW p \in Arrived(longer, k + 1), NEW q \in Arrived(longer, k + 1), p < q
         PROVE  at[p] < at[q]
    <2>1. p - 1 < q - 1 /\ p - 1 \in Arrived(segments, k) /\ q - 1 \in Arrived(segments, k)
      BY <1>6, <1>10
    <2> QED BY <1>2, <1>7, <2>1
  <1>11. Owes(longer, names, k + 1)
    BY <1>8, <1>9, <1>10 DEF Owes
  <1> QED BY <1>5, <1>11 DEF Accounted, longer

(* What process() leaves is old, and nothing is owed for it.               *)
LEMMA LeftoversAccounted ==
    ASSUME NEW segments \in Seq(Buffers), NEW rest \in Seq(Buffers), Leaves(rest, segments)
    PROVE  Accounted(rest, << >>)
  <1> DEFINE k == Len(rest)
             n == Len(segments)
  <1>1. k \in Nat /\ n \in Nat /\ k \in 0 .. Len(rest)
    BY SeqFacts
  <1>2. Owes(rest, << >>, k)
    <2>1. Arrived(rest, k) = {}
      BY <1>1 DEF Arrived
    <2> DEFINE place == [p \in Arrived(rest, k) |-> p]
    <2>2. place \in [Arrived(rest, k) -> DOMAIN << >>]
      BY <2>1
    <2> HIDE DEF place, k
    <2> QED BY <2>1, <2>2 DEF Owes
  <1>3. Old(rest, k)
    <2>1. CASE rest = << >>
      <3>1. k = 0
        BY <2>1
      <3> QED BY <3>1 DEF Old
    <2>2. ASSUME NEW j \in 1 .. n, IsIncomplete(segments, j), rest = SubSeq(segments, j, n)
          PROVE  Old(rest, k)
      <3>1. /\ k = n + 1 - j
            /\ \A i \in 1 .. k : rest[i] = segments[j + i - 1]
        BY <2>2, SubSeqFacts
      <3>2. 1 \in 1 .. k /\ j + 1 - 1 = j
        BY <1>1, <3>1
      <3>3. rest[1] = segments[j]
        BY <3>1, <3>2
      <3>4. segments[j].kind # "packet"
        BY <2>2, PacketIsComplete
      <3>5. ASSUME k >= 2, IsSplit(rest, 1) PROVE FALSE
        <4>1. 2 \in 1 .. k /\ j + 2 - 1 = j + 1 /\ j + 1 \in 1 .. n /\ j + 2 \in 1 .. n + 1
              /\ (j + 1) + 1 = j + 2
          BY <1>1, <3>1, <3>5
        <4>2. rest[2] = segments[j + 1]
          BY <3>1, <4>1
        <4>3. /\ segments[j].kind = "head" /\ segments[j + 1].kind = "tail"
              /\ segments[j + 1].name = segments[j].name
          BY <3>3, <3>5, <4>2 DEF IsSplit
        <4>4. segments[j] \in Buffers /\ segments[j + 1] \in Buffers
          BY <4>1, SeqFacts
        <4>5. segments[j] \in Datagrams /\ segments[j + 1] \in Datagrams
          BY <4>3, <4>4, BufferFacts
        <4>6. segments[j].len + segments[j + 1].len = segments[j].declared
              /\ segments[j].declared >= HeaderSize
          BY <4>3, <4>5, DatagramsTyped
        <4>7. segments[j].len \in Nat /\ segments[j + 1].len \in Nat /\ segments[j].declared \in Nat
          BY <4>4, BufferFacts
        <4>8. /\ BytesFrom(segments, j) = segments[j].len + BytesFrom(segments, j + 1)
              /\ BytesFrom(segments, j + 1) = segments[j + 1].len + BytesFrom(segments, j + 2)
              /\ BytesFrom(segments, j + 2) \in Nat
          BY <4>1, BytesTyped
        <4>9. BytesFrom(segments, j) \in Nat /\ BytesFrom(segments, j) >= segments[j].declared
          <5>1. ASSUME NEW a \in Nat, NEW b \in Nat, NEW c \in Nat
                PROVE  a + (b + c) \in Nat /\ a + (b + c) >= a + b
            OBVIOUS
          <5> DEFINE a == segments[j].len
                     b == segments[j + 1].len
                     c == BytesFrom(segments, j + 2)
          <5>2. a \in Nat /\ b \in Nat /\ c \in Nat /\ a + b = segments[j].declared
            BY <4>6, <4>7, <4>8
          <5>3. BytesFrom(segments, j) = a + (b + c)
            BY <4>8
          <5> HIDE DEF a, b, c
          <5> QED BY <5>1, <5>2, <5>3
        <4>10. BytesFrom(segments, j) >= HeaderSize
          BY <4>6, <4>7, <4>9, SizesAssumption
        <4>11. BytesFrom(segments, j) < HeaderSize
               \/ BytesFrom(segments, j) < segments[j].declared
          BY <2>2 DEF IsIncomplete
        <4> QED BY <4>7, <4>9, <4>10, <4>11, SizesAssumption
      <3> QED BY <3>3, <3>4, <3>5 DEF Old
    <2>3. ASSUME NEW j \in 1 .. n, segments[j].kind = "foreign",
                 rest = Zeros(BytesFrom(segments, j) - ReadSize)
          PROVE  Old(rest, k)
      <3>1. rest # << >> => rest[1].kind = "zeros" /\ k = 1
        <4> DEFINE z == [kind |-> "zeros", len |-> BytesFrom(segments, j) - ReadSize, declared |-> 0]
        <4>1. rest = << >> \/ rest = <<z>>
          BY <2>3 DEF Zeros
        <4>2. z.kind = "zeros"
          OBVIOUS
        <4> HIDE DEF z
        <4> QED BY <4>1, <4>2
      <3>2. CASE rest # << >>
        <4> HIDE DEF k
        <4> QED BY <3>1, <3>2 DEF Old
      <3> QED BY <2>1, <3>2
    <2> QED BY <2>1, <2>2, <2>3 DEF Leaves
  <1> QED BY <1>1, <1>2, <1>3 DEF Accounted

(* At a place where no packet begins, none is found.                       *)
LEMMA NoneFound ==
    ASSUME NEW segments \in Seq(Buffers), segments # << >>,
           ~IsWhole(segments, 1), ~IsSplit(segments, 1)
    PROVE  Outcome(segments).packets = << >>
  <1>1. Len(segments) \in Nat /\ 1 \in 1 .. Len(segments) + 1 /\ 1 # Len(segments) + 1
    BY SeqFacts
  <1>2. PICK f : /\ Outcome(segments) = f[1]
                 /\ \A i \in 1 .. Len(segments) + 1 : f[i] = Proceeds(f, segments, i)
    BY <1>1, OutcomeFacts
  <1>3. \/ f[1] = [packets |-> << >>, rest |-> SubSeq(segments, 1, Len(segments))]
        \/ f[1] = [packets |-> << >>, rest |-> AfterFailure(segments, 1)]
    BY <1>1, <1>2, ProceedsFacts
  <1> QED BY <1>2, <1>3

(* What process() returns is part of what is owed.                         *)
LEMMA ReturnsOwed ==
    ASSUME NEW segments \in Seq(Buffers), NEW names, Accounted(segments, names)
    PROVE  IsPartOf(Outcome(segments).packets, names)
  <1> DEFINE n == Len(segments)
             ps == Outcome(segments).packets
  <1>1. PICK k \in 0 .. n : Old(segments, k) /\ Owes(segments, names, k)
    BY DEF Accounted
  <1>2. PICK place \in [Arrived(segments, k) -> DOMAIN names] :
           /\ \A p \in Arrived(segments, k) : names[place[p]] = segments[p].name
           /\ \A p, q \in Arrived(segments, k) : p < q => place[p] < place[q]
    BY <1>1 DEF Owes
  <1>3. n \in Nat /\ ps \in Packets /\ DOMAIN ps = 1 .. Len(ps)
    BY SeqFacts, OutcomeFound DEF Found, Outcomes, Packets
  <1>4. PICK g \in [DOMAIN ps -> 1 .. n] :
           /\ \A j \in DOMAIN ps : ps[j] = segments[g[j]].name /\ Completes(segments, g[j], 1)
           /\ \A j, l \in DOMAIN ps : j < l => g[j] < g[l]
    BY OutcomeFound DEF Found, Draws
  <1>5. k >= 2 => ps = << >>
    <2>1. CASE k >= 2
      <3>1. segments # << >>
        BY <1>3, <2>1
      <3>2. ~IsWhole(segments, 1) /\ ~IsSplit(segments, 1)
        BY <1>1, <2>1 DEF Old, IsWhole
      <3> QED BY <3>1, <3>2, NoneFound
    <2> QED BY <2>1
  <1> HIDE DEF ps, n
  <1>6. ASSUME NEW j \in DOMAIN ps PROVE g[j] \in Arrived(segments, k)
    <2>1. k = 0 \/ k = 1
      <3>1. DOMAIN << >> = {}
        OBVIOUS
      <3> QED BY <1>3, <1>5, <3>1
    <2>2. g[j] \in 1 .. n /\ segments[g[j]].kind \in {"packet", "tail"}
      BY <1>4 DEF Completes
    <2>3. k = 1 => g[j] > 1
      <3>1. CASE k = 1
        <4>1. segments[1].kind # "packet"
          BY <1>1, <3>1 DEF Old
        <4>2. g[j] = 1 => segments[g[j]].kind = "packet"
          BY <1>4 DEF Completes
        <4> QED BY <2>2, <4>1, <4>2
      <3> QED BY <3>1
    <2>4. g[j] \in k + 1 .. n
      BY <1>3, <2>1, <2>2, <2>3
    <2> QED BY <2>2, <2>4 DEF Arrived, n
  <1> DEFINE f == [j \in DOMAIN ps |-> place[g[j]]]
  <1>7. \A j \in DOMAIN ps : f[j] = place[g[j]]
    OBVIOUS
  <1>8. f \in [DOMAIN ps -> DOMAIN names]
    BY <1>2, <1>6
  <1> HIDE DEF f
  <1>9. \A j \in DOMAIN ps : ps[j] = names[f[j]]
    BY <1>2, <1>4, <1>6, <1>7
  <1>10. \A j, l \in DOMAIN ps : j < l => f[j] < f[l]
    BY <1>2, <1>4, <1>6, <1>7
  <1>11. IsPartOf(ps, names)
    BY <1>8, <1>9, <1>10 DEF IsPartOf
  <1> QED BY <1>11 DEF ps

(* What process() leaves waits for more, unless it met an unknown message. *)
LEMMA LeavesIncomplete ==
    ASSUME NEW segments \in Seq(Buffers), NEW rest, Leaves(rest, segments), rest # << >>
    PROVE  \/ IsIncomplete(rest, 1)
           \/ \E i \in DOMAIN segments : segments[i].kind = "foreign"
  <1>1. DOMAIN segments = 1 .. Len(segments)
    BY SeqFacts
  <1>2. ASSUME NEW j \in 1 .. Len(segments), IsIncomplete(segments, j),
               rest = SubSeq(segments, j, Len(segments))
        PROVE  IsIncomplete(rest, 1)
    <2>1. BytesFrom(rest, 1) = BytesFrom(segments, j)
      BY <1>2, BytesOfSuffix
    <2>2. rest[1] = segments[j]
      <3>1. 1 \in 1 .. Len(segments) + 1 - j /\ j + 1 - 1 = j
        BY SeqFacts
      <3>2. rest[1] = segments[j + 1 - 1]
        BY <1>2, <3>1, SubSeqFacts
      <3> QED BY <3>1, <3>2
    <2> QED BY <1>2, <2>1, <2>2 DEF IsIncomplete
  <1> QED BY <1>1, <1>2 DEF Leaves

-----------------------------------------------------------------------------
(* The inductive invariant: what a buffer holds are datagrams that may     *)
(* arrive and zero bytes; while nothing has gone wrong they are packets,   *)
(* which are owed; and always each packet that has been completed since    *)
(* the last process() is owed.                                             *)
Typed ==
    /\ Known \subseteq Senders
    /\ m_streams \in [Known -> Seq(Buffers)]
    /\ capacity \in [Known -> Nat]
    /\ returned \in [Senders -> Packets]
    /\ owed \in [Senders -> Packets]
    /\ spoiled \subseteq Known

IsClean(segments, names) ==
    /\ Len(names) = Len(segments)
    /\ \A i \in 1 .. Len(segments) :
          segments[i].kind = "packet" /\ names[i] = segments[i].name
CleanOnes == \A s \in Senders \ spoiled : IsClean(Waiting(s), owed[s])
AllAccounted == \A s \in Senders : Accounted(Waiting(s), owed[s])

IInv == Typed /\ CleanOnes /\ AllAccounted

LEMMA NothingWaits ==
    IsClean(<< >>, << >>) /\ Accounted(<< >>, << >>) /\ << >> \in Seq(Buffers)
  <1>1. << >> \in Seq(Buffers) /\ Leaves(<< >>, << >>)
    BY DEF Leaves
  <1>2. Accounted(<< >>, << >>)
    BY <1>1, LeftoversAccounted
  <1>3. IsClean(<< >>, << >>)
    BY DEF IsClean
  <1> QED BY <1>1, <1>2, <1>3

LEMMA Initially == Init => IInv
  <1> SUFFICES ASSUME Init PROVE IInv
    OBVIOUS
  <1>1. Known = {} /\ Typed
    BY DEF Init, Known, Typed, Packets
  <1>2. \A s \in Senders : Waiting(s) = << >> /\ owed[s] = << >>
    BY <1>1 DEF Init, Waiting
  <1> QED BY <1>1, <1>2, NothingWaits DEF IInv, CleanOnes, AllAccounted

LEMMA WaitingFacts ==
    ASSUME Typed, NEW s \in Senders
    PROVE  /\ Waiting(s) \in Seq(Buffers) /\ owed[s] \in Packets
           /\ Room(s) \in Nat /\ Bytes(Waiting(s)) \in Nat
  <1>1. Waiting(s) \in Seq(Buffers)
    BY DEF Typed, Waiting
  <1>2. owed[s] \in Packets
    BY DEF Typed
  <1>3. Room(s) \in Nat
    BY SizesAssumption DEF Typed, Room
  <1>4. Bytes(Waiting(s)) \in Nat
    <2>1. 1 \in 1 .. Len(Waiting(s)) + 1
      BY <1>1, SeqFacts
    <2> QED BY <1>1, <2>1, BytesTyped DEF Bytes
  <1> QED BY <1>1, <1>2, <1>3, <1>4

(* What the buffer holds when a datagram has been received.                *)
LEMMA BufferedFacts ==
    ASSUME Typed, NEW s \in Senders, NEW d \in Datagrams
    PROVE  /\ Buffered(s, d) \in Seq(Buffers) /\ Bytes(Buffered(s, d)) \in Nat
           /\ Accounted(Waiting(s), owed[s]) =>
                 Accounted(Buffered(s, d), OwedAfter(owed[s], d))
  <1> DEFINE longer == Append(Waiting(s), d)
             zeros == 2 * (Bytes(Waiting(s)) + d.len)
             z == [kind |-> "zeros", len |-> zeros, declared |-> 0]
  <1>1. /\ Waiting(s) \in Seq(Buffers) /\ owed[s] \in Packets
        /\ Room(s) \in Nat /\ Bytes(Waiting(s)) \in Nat
    BY WaitingFacts
  <1>2. d \in Buffers /\ d.len \in Nat
    BY BufferFacts DEF Buffers
  <1>3. longer \in Seq(Buffers)
    BY <1>1, <1>2, AppendFacts
  <1>4. Accounted(Waiting(s), owed[s]) => Accounted(longer, OwedAfter(owed[s], d))
    BY <1>1, ArrivalAccounted
  <1>5. CASE ~Overflows(s, d)
    <2>1. Buffered(s, d) = longer
      BY <1>5 DEF Buffered
    <2>2. 1 \in 1 .. Len(longer) + 1
      BY <1>3, SeqFacts
    <2>3. Bytes(Buffered(s, d)) \in Nat
      BY <1>3, <2>1, <2>2, BytesTyped DEF Bytes
    <2> QED BY <1>3, <1>4, <2>1, <2>3
  <1>6. CASE Overflows(s, d)
    <2>1. Bytes(Waiting(s)) + d.len > 0 /\ zeros \in Nat /\ zeros # 0
      BY <1>1, <1>2, <1>6 DEF Overflows
    <2>2. Buffered(s, d) = <<z>> \o longer
      BY <1>6, <2>1 DEF Buffered, Zeros
    <2>3. z \in Buffers /\ z.kind = "zeros"
      BY <2>1 DEF Buffers, ZeroBytes
    <2> HIDE DEF z, longer
    <2>4. Buffered(s, d) \in Seq(Buffers)
      BY <1>3, <2>2, <2>3, ConsFacts
    <2>5. Bytes(Buffered(s, d)) \in Nat
      <3>1. 1 \in 1 .. Len(Buffered(s, d)) + 1
        BY <2>4, SeqFacts
      <3> QED BY <2>4, <3>1, BytesTyped DEF Bytes
    <2>6. Accounted(longer, OwedAfter(owed[s], d)) =>
             Accounted(Buffered(s, d), OwedAfter(owed[s], d))
      BY <1>3, <2>2, <2>3, OverflowAccounted
    <2> QED BY <1>4, <2>4, <2>5, <2>6
  <1> QED BY <1>5, <1>6

(* What the two operations do to the buffer of a sender and what is owed.  *)
LEMMA ReceiveFacts ==
    ASSUME Typed, NEW s \in Senders, NEW d \in Datagrams, HandleReceive(s, d)
    PROVE  /\ Known' = Known \cup {s} /\ returned' = returned
           /\ Waiting(s)' = Buffered(s, d) /\ owed'[s] = OwedAfter(owed[s], d)
           /\ \A t \in Senders : t # s => Waiting(t)' = Waiting(t) /\ owed'[t] = owed[t]
           /\ spoiled' = IF d.kind # "packet" \/ Overflows(s, d)
                         THEN spoiled \cup {s} ELSE spoiled
  <1>1. m_streams' = [t \in Known \cup {s} |->
                         IF t = s THEN Buffered(s, d) ELSE m_streams[t]]
    BY DEF HandleReceive
  <1>2. Known' = Known \cup {s}
    BY <1>1 DEF Known
  <1>3. Waiting(s)' = Buffered(s, d)
    BY <1>1, <1>2 DEF Waiting
  <1>4. \A t \in Senders : t # s => Waiting(t)' = Waiting(t)
    BY <1>1, <1>2 DEF Waiting
  <1>5. owed' = [owed EXCEPT ![s] = OwedAfter(owed[s], d)]
    BY DEF HandleReceive, OwedAfter
  <1>6. owed'[s] = OwedAfter(owed[s], d) /\ \A t \in Senders : t # s => owed'[t] = owed[t]
    BY <1>5 DEF Typed
  <1>7. /\ returned' = returned
        /\ spoiled' = IF d.kind # "packet" \/ Overflows(s, d) THEN spoiled \cup {s} ELSE spoiled
    BY DEF HandleReceive
  <1> QED BY <1>2, <1>3, <1>4, <1>6, <1>7

LEMMA ProcessFacts ==
    ASSUME Typed, Process
    PROVE  /\ Known' = Known
           /\ \A s \in Known : /\ m_streams'[s] = Outcome(m_streams[s]).rest
                               /\ returned'[s] = Outcome(m_streams[s]).packets
                               /\ m_streams[s] \in Seq(Buffers) /\ s \in Senders
           /\ \A s \in Senders : /\ s \notin Known => returned'[s] = << >>
                                 /\ owed'[s] = << >>
  <1>1. m_streams' = [s \in Known |-> Outcome(m_streams[s]).rest]
    BY DEF Process
  <1>2. \A s \in Senders :
           /\ returned'[s] = IF s \in Known THEN Outcome(m_streams[s]).packets ELSE << >>
           /\ owed'[s] = << >>
    BY DEF Process
  <1>3. Known' = Known
    BY <1>1 DEF Known
  <1>4. \A s \in Known : s \in Senders /\ m_streams[s] \in Seq(Buffers)
    BY DEF Typed
  <1>5. \A s \in Known : m_streams'[s] = Outcome(m_streams[s]).rest
    BY <1>1
  <1> QED BY <1>2, <1>3, <1>4, <1>5

LEMMA ReceiveTyped ==
    ASSUME Typed, NEW s \in Senders, NEW d \in Datagrams, HandleReceive(s, d)
    PROVE  Typed'
  <1>1. Known' = Known \cup {s}
    BY ReceiveFacts
  <1>2. /\ Buffered(s, d) \in Seq(Buffers) /\ Bytes(Buffered(s, d)) \in Nat
        /\ Room(s) \in Nat /\ owed[s] \in Packets
    BY BufferedFacts, WaitingFacts
  <1>3. m_streams' \in [(Known \cup {s}) -> Seq(Buffers)]
    BY <1>2 DEF HandleReceive, Typed
  <1>4. capacity' \in [(Known \cup {s}) -> Nat]
    <2>1. Grows(s, Bytes(Buffered(s, d))) \in Nat
      BY <1>2 DEF Grows
    <2> QED BY <2>1 DEF HandleReceive, Typed
  <1>5. owed' \in [Senders -> Packets]
    <2>1. OwedAfter(owed[s], d) \in Packets
      BY <1>2, OwedAfterFacts
    <2>2. owed' = [owed EXCEPT ![s] = OwedAfter(owed[s], d)]
      BY DEF HandleReceive, OwedAfter
    <2> QED BY <2>1, <2>2 DEF Typed
  <1>6. returned' \in [Senders -> Packets] /\ spoiled' \subseteq Known \cup {s}
        /\ Known \cup {s} \subseteq Senders
    BY DEF HandleReceive, Typed
  <1> QED BY <1>1, <1>3, <1>4, <1>5, <1>6 DEF Typed

LEMMA ReceiveClean ==
    ASSUME Typed, CleanOnes, NEW s \in Senders, NEW d \in Datagrams, HandleReceive(s, d)
    PROVE  CleanOnes'
  <1>1. /\ Waiting(s)' = Buffered(s, d) /\ owed'[s] = OwedAfter(owed[s], d)
        /\ \A t \in Senders : t # s => Waiting(t)' = Waiting(t) /\ owed'[t] = owed[t]
        /\ spoiled' = IF d.kind # "packet" \/ Overflows(s, d) THEN spoiled \cup {s} ELSE spoiled
    BY ReceiveFacts
  <1>2. SUFFICES ASSUME NEW t \in Senders, t \notin spoiled'
                 PROVE  IsClean(Waiting(t)', owed'[t])
    BY DEF CleanOnes
  <1>3. t \notin spoiled /\ IsClean(Waiting(t), owed[t])
    BY <1>1, <1>2 DEF CleanOnes
  <1>4. CASE t = s
    <2>1. d.kind = "packet" /\ ~Overflows(s, d)
      BY <1>1, <1>2, <1>4
    <2>2. /\ Waiting(s)' = Append(Waiting(s), d)
          /\ owed'[s] = Append(owed[s], d.name)
      BY <1>1, <2>1 DEF Buffered, OwedAfter
    <2>3. Waiting(s) \in Seq(Buffers) /\ owed[s] \in Seq(STRING)
      BY WaitingFacts DEF Packets
    <2>4. d \in Buffers /\ d.name \in STRING
      BY DatagramsTyped DEF Buffers, Segments
    <2>5. /\ Len(Append(Waiting(s), d)) = Len(Waiting(s)) + 1
          /\ Append(Waiting(s), d)[Len(Waiting(s)) + 1] = d
          /\ \A i \in 1 .. Len(Waiting(s)) : Append(Waiting(s), d)[i] = Waiting(s)[i]
      BY <2>3, <2>4, AppendFacts
    <2>6. /\ Len(Append(owed[s], d.name)) = Len(owed[s]) + 1
          /\ Append(owed[s], d.name)[Len(owed[s]) + 1] = d.name
          /\ \A i \in 1 .. Len(owed[s]) : Append(owed[s], d.name)[i] = owed[s][i]
      BY <2>3, <2>4, AppendFacts
    <2>7. Len(Waiting(s)) \in Nat
      BY <2>3, SeqFacts
    <2>8. IsClean(Append(Waiting(s), d), Append(owed[s], d.name))
      <3>1. ASSUME NEW i \in 1 .. Len(Waiting(s)) + 1
            PROVE  /\ Append(Waiting(s), d)[i].kind = "packet"
                   /\ Append(owed[s], d.name)[i] = Append(Waiting(s), d)[i].name
        <4>1. CASE i = Len(Waiting(s)) + 1
          BY <1>3, <1>4, <2>1, <2>5, <2>6, <4>1 DEF IsClean
        <4>2. CASE i # Len(Waiting(s)) + 1
          <5>1. i \in 1 .. Len(Waiting(s))
            BY <2>7, <4>2
          <5> QED BY <1>3, <1>4, <2>5, <2>6, <5>1 DEF IsClean
        <4> QED BY <4>1, <4>2
      <3> QED BY <1>3, <1>4, <2>5, <2>6, <3>1 DEF IsClean
    <2> QED BY <1>4, <2>2, <2>8
  <1>5. CASE t # s
    BY <1>1, <1>3, <1>5
  <1> QED BY <1>4, <1>5

LEMMA ReceiveAccounted ==
    ASSUME Typed, AllAccounted, NEW s \in Senders, NEW d \in Datagrams, HandleReceive(s, d)
    PROVE  AllAccounted'
  <1>1. /\ Waiting(s)' = Buffered(s, d) /\ owed'[s] = OwedAfter(owed[s], d)
        /\ \A t \in Senders : t # s => Waiting(t)' = Waiting(t) /\ owed'[t] = owed[t]
    BY ReceiveFacts
  <1>2. Accounted(Buffered(s, d), OwedAfter(owed[s], d))
    BY BufferedFacts DEF AllAccounted
  <1>3. ASSUME NEW t \in Senders PROVE Accounted(Waiting(t)', owed'[t])
    BY <1>1, <1>2 DEF AllAccounted
  <1> QED BY <1>3 DEF AllAccounted

LEMMA ProcessTyped ==
    ASSUME Typed, Process
    PROVE  Typed'
  <1>1. /\ Known' = Known
        /\ \A s \in Known : m_streams[s] \in Seq(Buffers) /\ s \in Senders
    BY ProcessFacts
  <1>2. \A s \in Known : Outcome(m_streams[s]) \in Outcomes
    BY <1>1, OutcomeFound DEF Found
  <1>3. \A s \in Known : /\ Outcome(m_streams[s]).rest \in Seq(Buffers)
                         /\ Outcome(m_streams[s]).packets \in Packets
    BY <1>2 DEF Outcomes
  <1>4. << >> \in Packets
    BY DEF Packets
  <1>5. m_streams' \in [Known -> Seq(Buffers)]
    BY <1>3 DEF Process
  <1>6. returned' \in [Senders -> Packets]
    BY <1>3, <1>4 DEF Process
  <1>7. owed' \in [Senders -> Packets]
    BY <1>4 DEF Process
  <1>8. spoiled' \subseteq Known /\ capacity' \in [Known -> Nat] /\ Known \subseteq Senders
    BY DEF Process, Typed
  <1> QED BY <1>1, <1>5, <1>6, <1>7, <1>8 DEF Typed

LEMMA ProcessClean ==
    ASSUME Typed, CleanOnes, Process
    PROVE  CleanOnes'
  <1>1. /\ Known' = Known
        /\ \A s \in Known : /\ m_streams'[s] = Outcome(m_streams[s]).rest
                            /\ m_streams[s] \in Seq(Buffers)
        /\ \A s \in Senders : owed'[s] = << >>
    BY ProcessFacts
  <1>2. spoiled' = {s \in spoiled : m_streams'[s] # << >>}
    BY DEF Process
  <1>3. SUFFICES ASSUME NEW s \in Senders, s \notin spoiled'
                 PROVE  Waiting(s)' = << >>
    BY <1>1, NothingWaits DEF CleanOnes
  <1>4. CASE s \notin Known
    BY <1>1, <1>4 DEF Waiting
  <1>5. CASE s \in spoiled
    <2>1. m_streams'[s] = << >>
      BY <1>2, <1>3, <1>5
    <2> QED BY <1>1, <1>5, <2>1 DEF Waiting, Typed
  <1>6. CASE s \in Known /\ s \notin spoiled
    <2>1. IsClean(m_streams[s], owed[s])
      BY <1>6 DEF CleanOnes, Waiting
    <2>2. Delivered(Outcome(m_streams[s]), m_streams[s], 1)
      BY <1>1, <1>6, <2>1, OutcomeDelivers DEF IsClean
    <2>3. m_streams'[s] = << >>
      BY <1>1, <1>6, <2>2 DEF Delivered
    <2> QED BY <1>1, <1>6, <2>3 DEF Waiting
  <1> QED BY <1>4, <1>5, <1>6

LEMMA ProcessAccounted ==
    ASSUME Typed, Process
    PROVE  AllAccounted'
  <1>1. /\ Known' = Known
        /\ \A s \in Known : /\ m_streams'[s] = Outcome(m_streams[s]).rest
                            /\ m_streams[s] \in Seq(Buffers)
        /\ \A s \in Senders : owed'[s] = << >>
    BY ProcessFacts
  <1>2. SUFFICES ASSUME NEW s \in Senders
                 PROVE  Accounted(Waiting(s)', << >>)
    BY <1>1 DEF AllAccounted
  <1>3. CASE s \notin Known
    <2>1. Waiting(s)' = << >>
      BY <1>1, <1>3 DEF Waiting
    <2> QED BY <2>1, NothingWaits
  <1>4. CASE s \in Known
    <2>1. Waiting(s)' = Outcome(m_streams[s]).rest
      BY <1>1, <1>4 DEF Waiting
    <2>2. /\ Outcome(m_streams[s]).rest \in Seq(Buffers)
          /\ Leaves(Outcome(m_streams[s]).rest, m_streams[s])
      BY <1>1, <1>4, OutcomeFound DEF Found, Outcomes
    <2> QED BY <1>1, <1>4, <2>1, <2>2, LeftoversAccounted
  <1> QED BY <1>3, <1>4

LEMMA Inductively == IInv /\ [Next]_vars => IInv'
  <1> SUFFICES ASSUME IInv, [Next]_vars PROVE IInv'
    OBVIOUS
  <1>1. CASE \E s \in Senders, d \in Datagrams : HandleReceive(s, d)
    BY <1>1, ReceiveTyped, ReceiveClean, ReceiveAccounted DEF IInv
  <1>2. CASE Process
    BY <1>2, ProcessTyped, ProcessClean, ProcessAccounted DEF IInv
  <1>3. CASE UNCHANGED vars
    BY <1>3 DEF vars, IInv, Typed, Known, CleanOnes, AllAccounted, Waiting
  <1> QED BY <1>1, <1>2, <1>3 DEF Next

LEMMA Invariantly == Spec => []IInv
  BY Initially, Inductively, PTL DEF Spec

-----------------------------------------------------------------------------
(* The buffers stay what they should be, however they grow and whatever    *)
(* was undecodable: never a negative number of zero bytes.                 *)
THEOREM StreamsTypeCorrect == Spec => []TypeOK
  <1>1. IInv => TypeOK
    <2> SUFFICES ASSUME IInv PROVE TypeOK
      OBVIOUS
    <2>1. Buffers \subseteq Segments \cup ZeroBytes
      BY BufferFacts
    <2>2. \A t \in Seq(Buffers) : t \in Seq(Segments \cup ZeroBytes)
      <3> HIDE DEF Buffers, Segments, ZeroBytes
      <3> QED BY <2>1
    <2> QED BY <2>2 DEF IInv, Typed, TypeOK, Packets
  <1> QED BY <1>1, Invariantly, PTL

(* A clean stream returns exactly the packets that arrived, in order.      *)
THEOREM CleanStreamsReturnAll == Spec => CleanStreamsDeliver
  <1>1. ASSUME IInv, Process, NEW s \in Senders \ spoiled
        PROVE  returned'[s] = owed[s]
    <2>1. Typed /\ IsClean(Waiting(s), owed[s]) /\ owed[s] \in Packets
      BY <1>1, WaitingFacts DEF IInv, CleanOnes
    <2>2. CASE s \notin Known
      <3>1. Len(owed[s]) = 0 /\ Waiting(s) = << >>
        BY <2>1, <2>2 DEF IsClean, Waiting
      <3>2. owed[s] = << >>
        BY <2>1, <3>1, SeqFacts DEF Packets
      <3> QED BY <1>1, <2>1, <2>2, <3>2, ProcessFacts
    <2>3. CASE s \in Known
      <3>1. /\ returned'[s] = Outcome(m_streams[s]).packets
            /\ m_streams[s] \in Seq(Buffers)
        BY <1>1, <2>1, <2>3, ProcessFacts
      <3>2. IsClean(m_streams[s], owed[s])
        BY <2>1, <2>3 DEF Waiting
      <3> DEFINE ps == Outcome(m_streams[s]).packets
      <3>3. Delivered(Outcome(m_streams[s]), m_streams[s], 1)
        BY <3>1, <3>2, OutcomeDelivers DEF IsClean
      <3>4. ps \in Packets /\ Len(ps) = Len(m_streams[s]) + 1 - 1
            /\ \A j \in 1 .. Len(ps) : ps[j] = m_streams[s][1 + j - 1].name
        BY <3>3 DEF Delivered, Outcomes
      <3>5. Len(m_streams[s]) \in Nat
        BY <3>1, SeqFacts
      <3> HIDE DEF ps
      <3>6. Len(ps) = Len(owed[s]) /\ Len(ps) = Len(m_streams[s])
        BY <3>2, <3>4, <3>5 DEF IsClean
      <3>7. \A j \in 1 .. Len(ps) : ps[j] = owed[s][j]
        <4> TAKE j \in 1 .. Len(ps)
        <4>1. 1 + j - 1 = j
          OBVIOUS
        <4> QED BY <3>2, <3>4, <3>6, <4>1 DEF IsClean
      <3>8. ps = owed[s]
        BY <2>1, <3>4, <3>6, <3>7, SameSequence DEF Packets
      <3> QED BY <3>1, <3>8 DEF ps
    <2> QED BY <2>2, <2>3
  <1>2. IInv /\ [Next]_vars =>
           [Process => \A s \in Senders \ spoiled : returned'[s] = owed[s]]_vars
    BY <1>1
  <1> QED BY <1>2, Invariantly, PTL DEF Spec, CleanStreamsDeliver

(* No packet is invented, returned twice, or returned out of order.        *)
THEOREM NothingIsInvented == Spec => NothingInvented
  <1>1. ASSUME IInv, Process, NEW s \in Known
        PROVE  IsPartOf(returned'[s], owed[s])
    <2>1. Typed
      BY <1>1 DEF IInv
    <2>2. /\ returned'[s] = Outcome(m_streams[s]).packets
          /\ m_streams[s] \in Seq(Buffers) /\ s \in Senders
      BY <1>1, <2>1, ProcessFacts
    <2>3. Accounted(m_streams[s], owed[s])
      BY <1>1, <2>2 DEF IInv, AllAccounted, Waiting
    <2> QED BY <2>2, <2>3, ReturnsOwed
  <1>2. IInv /\ [Next]_vars =>
           [Process => \A s \in Known : IsPartOf(returned'[s], owed[s])]_vars
    BY <1>1
  <1> QED BY <1>2, Invariantly, PTL DEF Spec, NothingInvented

(* What a call leaves in a buffer waits for bytes that are to come.        *)
THEOREM LeftoversWait == Spec => LeftoversAreIncomplete
  <1>1. ASSUME IInv, Process, NEW s \in Known, m_streams'[s] # << >>
        PROVE  \/ IsIncomplete(m_streams'[s], 1)
               \/ \E i \in DOMAIN m_streams[s] : m_streams[s][i].kind = "foreign"
    <2>1. /\ m_streams'[s] = Outcome(m_streams[s]).rest
          /\ m_streams[s] \in Seq(Buffers)
      BY <1>1, ProcessFacts DEF IInv
    <2>2. Leaves(Outcome(m_streams[s]).rest, m_streams[s])
      BY <2>1, OutcomeFound DEF Found
    <2> QED BY <1>1, <2>1, <2>2, LeavesIncomplete
  <1>2. IInv /\ [Next]_vars =>
           [Process => \A s \in Known :
               m_streams'[s] # << >> =>
                  \/ IsIncomplete(m_streams'[s], 1)
                  \/ \E i \in DOMAIN m_streams[s] : m_streams[s][i].kind = "foreign"]_vars
    BY <1>1
  <1> QED BY <1>2, Invariantly, PTL DEF Spec, LeftoversAreIncomplete
=============================================================================
