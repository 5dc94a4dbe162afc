------------------------ MODULE NetworkHandler_proofs ------------------------
(***************************************************************************)
(* Proofs about AdapterManager, for every set of MAC addresses and every   *)
(* list get_adapters may return, about AdapterFetcher, for every list of   *)
(* interfaces Windows may have, and about NetworkHandler, alone and under  *)
(* TransmissionHandler, for every number of attempts and of changes.       *)
(***************************************************************************)
EXTENDS TransmissionHandler, AdapterFetcher, FiniteSetTheorems,
        WellFoundedInduction, TLAPS

(* Every nonempty set of naturals has a least element.                     *)
LEMMA LeastNatural ==
    ASSUME NEW T, T \subseteq Nat, T # {}
    PROVE  \E x \in T : \A y \in T : x <= y
  <1> DEFINE R == OpToRel(<, Nat)
  <1>1. PICK x \in T : \A y \in T : ~ (<<y, x>> \in R)
    <2>1. IsWellFoundedOn(R, Nat)
      BY NatLessThanWellFounded
    <2> HIDE DEF R
    <2> QED BY <2>1, WFMin, Zenon
  <1>2. ASSUME NEW y \in T PROVE x <= y
    <2>1. ~ (<<y, x>> \in R)
      BY <1>1
    <2>2. \A a, b \in Nat : a < b => <<a, b>> \in R
      BY DEF OpToRel
    <2> HIDE DEF R
    <2> QED BY <2>1, <2>2
  <1> QED BY <1>2

LEMMA SeqFacts ==
    ASSUME NEW S, NEW s \in Seq(S)
    PROVE  /\ Len(s) \in Nat /\ DOMAIN s = 1 .. Len(s)
           /\ \A i \in 1 .. Len(s) : s[i] \in S
           /\ s = << >> <=> Len(s) = 0
           /\ s # << >> => /\ Head(s) = s[1] /\ Tail(s) \in Seq(S) /\ Len(Tail(s)) = Len(s) - 1
                           /\ \A i \in 1 .. Len(s) - 1 : Tail(s)[i] = s[i + 1]
           /\ \A x \in S : /\ Append(s, x) \in Seq(S) /\ Len(Append(s, x)) = Len(s) + 1
                          /\ Append(s, x)[Len(s) + 1] = x
                          /\ \A i \in 1 .. Len(s) : Append(s, x)[i] = s[i]
  OBVIOUS

-----------------------------------------------------------------------------
(* Only, of Selection.                                                     *)

(* The greatest of some of the first naturals.                             *)
LEMMA LastIndex ==
    ASSUME NEW n \in Nat, NEW T \in SUBSET (1 .. n), T # {}
    PROVE  \E x \in T : \A y \in T : y <= x
  <1> DEFINE U == {n - x : x \in T}
  <1>1. U \subseteq Nat /\ U # {}
    <2>1. \A x \in T : n - x \in Nat
      OBVIOUS
    <2> QED BY <2>1
  <1>2. PICK u \in U : \A v \in U : u <= v
    BY <1>1, LeastNatural
  <1>3. PICK x \in T : u = n - x
    OBVIOUS
  <1>4. \A y \in T : n - x <= n - y
    BY <1>2, <1>3
  <1> QED BY <1>4

LEMMA MaxFacts ==
    ASSUME NEW k \in Nat, NEW S \in SUBSET (1 .. k), S # {}
    PROVE  Max(S) \in S /\ \A x \in S : x <= Max(S)
  <1>1. PICK x \in S : \A y \in S : y <= x
    BY LastIndex
  <1>2. \A y \in S : x >= y
    BY <1>1
  <1>3. Max(S) \in S /\ \A y \in S : Max(S) >= y
    BY <1>2 DEF Max
  <1> QED BY <1>3

(* What the fold that Only is computes, for the first elements.            *)
Keeps(kept, x, T) == IF x \in T THEN Append(kept, x) ELSE kept
Folds(f, s, T, k) ==
    f = [S \in SUBSET (1 .. k) |->
           IF S = {} THEN << >> ELSE Keeps(f[S \ {Max(S)}], s[Max(S)], T)]

LEMMA FoldExists ==
    ASSUME NEW s, NEW T, NEW k \in Nat
    PROVE  \E f : Folds(f, s, T, k)
  <1> DEFINE Bad == {n \in Nat : ~ \E f : Folds(f, s, T, n)}
  <1> SUFFICES ASSUME Bad # {} PROVE FALSE
    OBVIOUS
  <1>1. PICK n \in Bad : \A m \in Bad : n <= m
    <2>1. Bad \subseteq Nat
      OBVIOUS
    <2> HIDE DEF Bad
    <2> QED BY <2>1, LeastNatural
  <1>2. n \in Nat
    OBVIOUS
  <1>3. CASE n = 0
    <2> DEFINE f == [S \in SUBSET (1 .. n) |-> << >>]
    <2>1. \A S \in SUBSET (1 .. n) : S = {}
      BY <1>3
    <2>2. Folds(f, s, T, n)
      BY <2>1 DEF Folds
    <2> QED BY <2>2
  <1>4. CASE n # 0
    <2>1. n - 1 \in Nat /\ n - 1 \notin Bad
      <3>1. n - 1 \in Nat /\ ~ (n <= n - 1)
        BY <1>2, <1>4
      <3> HIDE DEF Bad
      <3> QED BY <1>1, <3>1
    <2>2. PICK f : Folds(f, s, T, n - 1)
      BY <2>1
    <2> DEFINE g == [S \in SUBSET (1 .. n) |->
                       IF n \in S THEN Keeps(f[S \ {n}], s[n], T) ELSE f[S]]
    <2>3. ASSUME NEW S \in SUBSET (1 .. n)
          PROVE  g[S] = IF S = {} THEN << >> ELSE Keeps(g[S \ {Max(S)}], s[Max(S)], T)
      <3>1. CASE n \in S
        <4>1. Max(S) = n
          <5>1. Max(S) \in S /\ \A x \in S : x <= Max(S)
            BY <1>2, <3>1, MaxFacts
          <5>2. n <= Max(S) /\ Max(S) \in 1 .. n
            BY <3>1, <5>1
          <5> QED BY <1>2, <5>2
        <4>2. S \ {n} \in SUBSET (1 .. n) /\ n \notin S \ {n} /\ S # {}
          BY <3>1
        <4>3. g[S \ {n}] = f[S \ {n}] /\ g[S] = Keeps(f[S \ {n}], s[n], T)
          BY <3>1, <4>2
        <4> HIDE DEF g
        <4> QED BY <4>1, <4>2, <4>3
      <3>2. CASE n \notin S
        <4>1. S \in SUBSET (1 .. n - 1)
          BY <1>2, <3>2
        <4>2. f[S] = IF S = {} THEN << >> ELSE Keeps(f[S \ {Max(S)}], s[Max(S)], T)
          BY <2>2, <4>1 DEF Folds
        <4>3. S \ {Max(S)} \in SUBSET (1 .. n) /\ n \notin S \ {Max(S)}
          BY <3>2
        <4>4. g[S] = f[S] /\ g[S \ {Max(S)}] = f[S \ {Max(S)}]
          BY <3>2, <4>3
        <4> HIDE DEF g
        <4> QED BY <4>2, <4>4
      <3> QED BY <3>1, <3>2
    <2>4. Folds(g, s, T, n)
      <3>1. g = [S \in SUBSET (1 .. n) |-> g[S]]
        OBVIOUS
      <3> HIDE DEF g
      <3> QED BY <2>3, <3>1 DEF Folds
    <2> QED BY <2>4
  <1> QED BY <1>3, <1>4

LEMMA OnlyIsFold ==
    ASSUME NEW S, NEW s \in Seq(S), NEW T
    PROVE  \E f : Folds(f, s, T, Len(s)) /\ Only(s, T) = f[1 .. Len(s)]
  <1> DEFINE f == CHOOSE f : Folds(f, s, T, Len(s))
  <1>1. Len(s) \in Nat /\ DOMAIN s = 1 .. Len(s)
    OBVIOUS
  <1>2. Folds(f, s, T, Len(s))
    BY <1>1, FoldExists
  <1>3. Only(s, T) = f[1 .. Len(s)]
    BY <1>1 DEF Only, FoldLeft, MapThenFoldSet, Folds, Keeps
  <1> QED BY <1>2, <1>3

(* The kept elements are those of the list at increasing places: every one *)
(* that is in the set.                                                     *)
Places(at, kept, s, T, n) ==
    /\ at \in [1 .. Len(kept) -> 1 .. n]
    /\ \A i, j \in 1 .. Len(kept) : i < j => at[i] < at[j]
    /\ \A i \in 1 .. Len(kept) : kept[i] = s[at[i]] /\ kept[i] \in T
    /\ \A i \in 1 .. n : s[i] \in T => \E j \in 1 .. Len(kept) : at[j] = i

LEMMA PlacesStep ==
    ASSUME NEW S, NEW s \in Seq(S), NEW T, NEW n \in 1 .. Len(s),
           NEW kept \in Seq(S), NEW at, Places(at, kept, s, T, n - 1)
    PROVE  /\ Keeps(kept, s[n], T) \in Seq(S)
           /\ \E b : Places(b, Keeps(kept, s[n], T), s, T, n)
  <1>1. n \in Nat /\ n >= 1 /\ s[n] \in S /\ Len(kept) \in Nat
    OBVIOUS
  <1>2. CASE s[n] \notin T
    <2>1. Keeps(kept, s[n], T) = kept
      BY <1>2 DEF Keeps
    <2>2. at \in [1 .. Len(kept) -> 1 .. n]
      <3>1. at \in [1 .. Len(kept) -> 1 .. n - 1] /\ 1 .. n - 1 \subseteq 1 .. n
        BY <1>1 DEF Places
      <3> QED BY <3>1
    <2>3. \A i \in 1 .. n : i = n \/ i \in 1 .. n - 1
      BY <1>1
    <2>4. Places(at, kept, s, T, n)
      BY <1>2, <2>2, <2>3 DEF Places
    <2> QED BY <2>1, <2>4
  <1>3. CASE s[n] \in T
    <2> DEFINE l == Len(kept)
               k == Append(kept, s[n])
               b == [i \in 1 .. l + 1 |-> IF i = l + 1 THEN n ELSE at[i]]
    <2>1. Keeps(kept, s[n], T) = k /\ k \in Seq(S)
      BY <1>1, <1>3 DEF Keeps
    <2>2. Len(k) = l + 1 /\ k[l + 1] = s[n] /\ \A i \in 1 .. l : k[i] = kept[i]
      BY <1>1
    <2>3. l \in Nat /\ \A i \in 1 .. l + 1 : i \in 1 .. l \/ i = l + 1
      BY <1>1
    <2> HIDE DEF k
    <2>4. \A i \in 1 .. l : at[i] \in 1 .. n - 1 /\ b[i] = at[i]
      BY <2>3 DEF Places
    <2>5. b[l + 1] = n
      BY <2>3
    <2>6. b \in [1 .. l + 1 -> 1 .. n]
      <3>1. \A i \in 1 .. l + 1 : b[i] \in 1 .. n
        <4>1. n \in 1 .. n /\ \A x \in 1 .. n - 1 : x \in 1 .. n
          BY <1>1
        <4> HIDE DEF b
        <4> QED BY <2>3, <2>4, <2>5, <4>1
      <3> QED BY <3>1
    <2> HIDE DEF b, l
    <2>7. \A i, j \in 1 .. l + 1 : i < j => b[i] < b[j]
      <3> SUFFICES ASSUME NEW i \in 1 .. l + 1, NEW j \in 1 .. l + 1, i < j PROVE b[i] < b[j]
        OBVIOUS
      <3>1. i \in 1 .. l
        BY <2>3
      <3>2. CASE j \in 1 .. l
        BY <2>4, <3>1, <3>2 DEF Places, l
      <3>3. CASE j = l + 1
        BY <1>1, <2>4, <2>5, <3>1, <3>3
      <3> QED BY <2>3, <3>2, <3>3
    <2>8. \A i \in 1 .. l + 1 : k[i] = s[b[i]] /\ k[i] \in T
      BY <1>3, <2>2, <2>3, <2>4, <2>5 DEF Places, l
    <2>9. \A i \in 1 .. n : s[i] \in T => \E j \in 1 .. l + 1 : b[j] = i
      <3> SUFFICES ASSUME NEW i \in 1 .. n, s[i] \in T PROVE \E j \in 1 .. l + 1 : b[j] = i
        OBVIOUS
      <3>1. CASE i = n
        BY <2>3, <2>5, <3>1
      <3>2. CASE i # n
        <4>1. i \in 1 .. n - 1
          BY <1>1, <3>2
        <4>2. PICK j \in 1 .. l : at[j] = i
          BY <4>1 DEF Places, l
        <4> QED BY <2>3, <2>4, <4>2
      <3> QED BY <3>1, <3>2
    <2>10. Places(b, k, s, T, n)
      BY <2>2, <2>6, <2>7, <2>8, <2>9 DEF Places
    <2> QED BY <2>1, <2>10
  <1> QED BY <1>2, <1>3

LEMMA OnlyFacts ==
    ASSUME NEW S, NEW s \in Seq(S), NEW T
    PROVE  Only(s, T) \in Seq(S) /\ \E at : Places(at, Only(s, T), s, T, Len(s))
  <1>1. Len(s) \in Nat
    OBVIOUS
  <1>2. PICK f : Folds(f, s, T, Len(s)) /\ Only(s, T) = f[1 .. Len(s)]
    BY OnlyIsFold
  <1>3. f[1 .. 0] = << >>
    BY <1>1, <1>2 DEF Folds
  <1>4. ASSUME NEW n \in 1 .. Len(s) PROVE f[1 .. n] = Keeps(f[1 .. n - 1], s[n], T)
    <2>1. n \in Nat /\ n \in 1 .. n /\ \A i \in 1 .. n : i \in 1 .. Len(s)
      BY <1>1
    <2>2. Max(1 .. n) = n
      <3>1. Max(1 .. n) \in 1 .. n /\ n <= Max(1 .. n)
        <4>1. 1 .. n \in SUBSET (1 .. n) /\ 1 .. n # {}
          BY <2>1
        <4> QED BY <2>1, <4>1, MaxFacts
      <3> QED BY <3>1
    <2>3. (1 .. n) \ {n} = 1 .. (n - 1)
      BY <2>1
    <2>4. 1 .. n # {} /\ 1 .. n \in SUBSET (1 .. Len(s))
      BY <2>1
    <2> QED BY <1>2, <2>2, <2>3, <2>4 DEF Folds
  <1> DEFINE Good(n) == f[1 .. n] \in Seq(S) /\ \E at : Places(at, f[1 .. n], s, T, n)
             Bad == {n \in 0 .. Len(s) : ~Good(n)}
  <1>5. Good(0)
    <2>1. Places(<< >>, << >>, s, T, 0)
      BY DEF Places
    <2> QED BY <1>3, <2>1
  <1>6. ASSUME NEW n \in 1 .. Len(s), Good(n - 1) PROVE Good(n)
    <2>1. PICK at : Places(at, f[1 .. n - 1], s, T, n - 1)
      BY <1>6
    <2> QED BY <1>4, <1>6, <2>1, PlacesStep
  <1>7. Bad = {}
    <2> SUFFICES ASSUME Bad # {} PROVE FALSE
      OBVIOUS
    <2> HIDE DEF Good
    <2>1. Bad \subseteq Nat
      BY <1>1
    <2>2. PICK n \in Bad : \A m \in Bad : n <= m
      <3> HIDE DEF Bad
      <3> QED BY <2>1, LeastNatural
    <2>3. n \in 0 .. Len(s) /\ ~Good(n) /\ n # 0
      BY <1>5
    <2>4. n \in 1 .. Len(s) /\ n - 1 \in 0 .. Len(s) /\ ~ (n <= n - 1)
      BY <1>1, <2>3
    <2>5. Good(n - 1)
      BY <2>2, <2>4
    <2> QED BY <1>6, <2>3, <2>4, <2>5
  <1>8. Good(Len(s))
    <2> HIDE DEF Good
    <2> QED BY <1>1, <1>7
  <1> QED BY <1>2, <1>8

-----------------------------------------------------------------------------
(* A step of the manager: one that begins an update with any list, one of  *)
(* the loops', or the end.                                                 *)
Compares == DetectNew \/ DetectChange \/ DetectSame
Removes  == \E mac \in Macs : DetectRemoved(mac)
Begins == \E list \in Seq(Entries) : Fetch(list)

LEMMA ManagerSteps ==
    ManagerNext => Begins \/ Compares \/ Removes \/ EndUpdate
  BY FetchesTyped DEF ManagerNext, Begins, Compares, Removes

LEMMA MapFacts ==
    ASSUME IsAdapterMap(m_adapters), NEW mac \in Macs, NEW adapter \in Adapters
    PROVE  /\ IsAdapterMap(With(mac, adapter)) /\ IsAdapterMap(Without(mac))
           /\ DOMAIN With(mac, adapter) = Known \cup {mac}
           /\ DOMAIN Without(mac) = Known \ {mac}
           /\ \A n \in Known \cup {mac} :
                 With(mac, adapter)[n] = IF n = mac THEN adapter ELSE m_adapters[n]
           /\ \A n \in Known \ {mac} : Without(mac)[n] = m_adapters[n]
  BY DEF IsAdapterMap, With, Without, Known

(* The entry that is compared.                                             *)
LEMMA CurrentFacts ==
    ASSUME ManagerTypeOK, Compares
    PROVE  /\ updating /\ Len(todo) > 0 /\ Len(todo) \in Nat
           /\ Current = todo[1] /\ Current.mac \in Macs /\ Current.adapter \in Adapters
           /\ todo' \in Seq(Entries) /\ Len(todo') = Len(todo) - 1
           /\ \A i \in 1 .. Len(todo) - 1 : todo'[i] = todo[i + 1]
           /\ fetched' = fetched /\ updating' = updating
  <1>1. updating /\ todo # << >> /\ todo' = Tail(todo) /\ fetched' = fetched /\ updating' = updating
    BY DEF Compares, DetectNew, DetectChange, DetectSame, TakeEntry
  <1>2. todo \in Seq(Entries)
    BY DEF ManagerTypeOK
  <1>3. Current \in Entries
    BY <1>1, <1>2, SeqFacts DEF Current
  <1> QED BY <1>1, <1>2, <1>3, SeqFacts DEF Current, Entries

Signals == {"new", "changed", "removed"} \X Macs

LEMMA ManagerTypeStep ==
    ASSUME ManagerTypeOK, Begins \/ Compares \/ Removes \/ EndUpdate \/ UNCHANGED managerVars
    PROVE  ManagerTypeOK'
  <1> USE DEF ManagerTypeOK
  <1>1. CASE Begins
    <2>1. PICK list \in Seq(Entries) : Fetch(list)
      BY <1>1 DEF Begins
    <2>2. << >> \in Seq(Signals)
      OBVIOUS
    <2> QED BY <2>1, <2>2 DEF Fetch, IsAdapterMap, Signals
  <1>2. CASE Compares
    <2>1. /\ Current.mac \in Macs /\ Current.adapter \in Adapters
          /\ todo' \in Seq(Entries) /\ fetched' = fetched /\ updating' = updating
      BY <1>2, CurrentFacts
    <2>2. events' \in Seq(Signals)
      <3>1. /\ <<"new", Current.mac>> \in Signals /\ <<"changed", Current.mac>> \in Signals
            /\ events \in Seq(Signals)
        BY <2>1 DEF Signals
      <3>2. \/ events' = Append(events, <<"new", Current.mac>>)
            \/ events' = Append(events, <<"changed", Current.mac>>)
            \/ events' = events
        BY <1>2, Zenon DEF Compares, DetectNew, DetectChange, DetectSame
      <3>3. \A x \in Signals : Append(events, x) \in Seq(Signals)
        BY <3>1, SeqFacts
      <3> HIDE DEF Signals
      <3> QED BY <3>1, <3>2, <3>3
    <2>3. IsAdapterMap(m_adapters')
      <3>1. m_adapters' = With(Current.mac, Current.adapter) \/ m_adapters' = m_adapters
        BY <1>2, Zenon DEF Compares, DetectNew, DetectChange, DetectSame
      <3>2. IsAdapterMap(With(Current.mac, Current.adapter))
        BY <2>1, MapFacts
      <3> QED BY <3>1, <3>2, Zenon
    <2> QED BY <2>1, <2>2, <2>3 DEF Signals
  <1>3. CASE Removes
    <2>1. PICK mac \in Macs : DetectRemoved(mac)
      BY <1>3 DEF Removes
    <2>2. events' \in Seq(Signals)
      <3>1. <<"removed", mac>> \in Signals /\ events \in Seq(Signals)
        BY DEF Signals
      <3> QED BY <2>1, <3>1, SeqFacts DEF DetectRemoved
    <2>3. IsAdapterMap(Without(mac))
      BY DEF IsAdapterMap, Without, Known
    <2> QED BY <2>1, <2>2, <2>3 DEF DetectRemoved, Signals
  <1>4. CASE EndUpdate
    BY <1>4 DEF EndUpdate, IsAdapterMap
  <1>5. CASE UNCHANGED managerVars
    BY <1>5 DEF managerVars, IsAdapterMap
  <1> QED BY <1>1, <1>2, <1>3, <1>4, <1>5

LEMMA ManagerTypeInit == ManagerInit => ManagerTypeOK
  <1>1. << >> \in Seq(Signals) /\ << >> \in Seq(Entries)
    OBVIOUS
  <1> QED BY <1>1 DEF ManagerInit, ManagerTypeOK, IsAdapterMap, Signals

(* The manager's state keeps its type.                                     *)
THEOREM ManagerTypeCorrect == ManagerSpec => []ManagerTypeOK
  <1>1. ManagerTypeOK /\ [ManagerNext]_managerVars => ManagerTypeOK'
    BY ManagerTypeStep, ManagerSteps
  <1> QED BY <1>1, ManagerTypeInit, PTL DEF ManagerSpec

-----------------------------------------------------------------------------
(* How far the first loop is: Done entries are compared, todo is the rest  *)
(* of the list.                                                            *)
Done == Len(fetched) - Len(todo)

Position ==
    /\ Len(todo) <= Len(fetched)
    /\ \A i \in 1 .. Len(todo) : todo[i] = fetched[Done + i]
    /\ ~updating => Len(todo) = 0

LEMMA Lengths ==
    ASSUME ManagerTypeOK
    PROVE  /\ Len(todo) \in Nat /\ Len(fetched) \in Nat
           /\ DOMAIN fetched = 1 .. Len(fetched)
           /\ \A i \in 1 .. Len(fetched) :
                 /\ fetched[i] \in Entries
                 /\ fetched[i].mac \in Macs /\ fetched[i].adapter \in Adapters
  <1>1. fetched \in Seq(Entries) /\ todo \in Seq(Entries)
    BY DEF ManagerTypeOK
  <1>2. /\ Len(todo) \in Nat /\ Len(fetched) \in Nat /\ DOMAIN fetched = 1 .. Len(fetched)
        /\ \A i \in 1 .. Len(fetched) : fetched[i] \in Entries
    BY <1>1, SeqFacts
  <1> QED BY <1>2 DEF Entries

(* A comparison takes the next entry of the list.                          *)
LEMMA NextEntry ==
    ASSUME ManagerTypeOK, Position, Compares
    PROVE  /\ Done' = Done + 1 /\ Done' \in 1 .. Len(fetched)
           /\ fetched' = fetched /\ fetched[Done'] = Current
  <1>1. Done' = Done + 1 /\ fetched' = fetched
    <2>1. Len(todo') = Len(todo) - 1 /\ fetched' = fetched
      BY CurrentFacts
    <2>2. Len(todo) \in Nat /\ Len(fetched) \in Nat
      BY Lengths
    <2>3. Done' = Len(fetched) - (Len(todo) - 1)
      BY <2>1 DEF Done
    <2> QED BY <2>1, <2>2, <2>3 DEF Done
  <1>2. Done' \in 1 .. Len(fetched)
    BY <1>1, CurrentFacts, Lengths DEF Done, Position
  <1>3. fetched[Done + 1] = todo[1]
    BY CurrentFacts, Lengths DEF Position
  <1> QED BY <1>1, <1>2, <1>3, CurrentFacts

LEMMA PositionStep ==
    ASSUME ManagerTypeOK, Position,
           Begins \/ Compares \/ Removes \/ EndUpdate \/ UNCHANGED managerVars
    PROVE  Position'
  <1>1. CASE Begins
    <2>1. /\ todo' = fetched' /\ updating' /\ Len(fetched') \in Nat
          /\ \A i \in 1 .. Len(todo') : 0 + i = i
      BY <1>1, SeqFacts DEF Begins, Fetch
    <2> QED BY <2>1 DEF Position, Done
  <1>2. CASE Compares
    <2>1. /\ Len(todo') = Len(todo) - 1 /\ Len(todo) > 0 /\ updating'
          /\ \A i \in 1 .. Len(todo) - 1 : todo'[i] = todo[i + 1]
      BY <1>2, CurrentFacts
    <2>2. Done' = Done + 1 /\ fetched' = fetched
      BY <1>2, NextEntry
    <2>3. ASSUME NEW i \in 1 .. Len(todo') PROVE todo'[i] = fetched'[Done' + i]
      <3>1. i \in Nat /\ i + 1 \in 1 .. Len(todo) /\ i \in 1 .. Len(todo) - 1
        BY <2>1, Lengths
      <3>2. todo'[i] = fetched[Done + (i + 1)]
        BY <2>1, <3>1 DEF Position
      <3>3. Done + (i + 1) = Done' + i
        BY <2>2, <3>1, Lengths DEF Done
      <3> QED BY <2>2, <3>2, <3>3
    <2> QED BY <2>1, <2>2, <2>3, Lengths DEF Position
  <1>3. CASE Removes \/ UNCHANGED managerVars
    BY <1>3 DEF Removes, DetectRemoved, managerVars, Position, Done
  <1>4. CASE EndUpdate
    BY <1>4 DEF EndUpdate, Position, Done
  <1> QED BY <1>1, <1>2, <1>3, <1>4

-----------------------------------------------------------------------------
(* The manager follows the part of the list it has compared: it knows its  *)
(* adapters, and of each what the last entry says but for the loopback     *)
(* flag.  Between updates it knows no other adapter.                       *)
SameButLoopback(a, b) == a = [b EXCEPT !.loopback = a.loopback]
LatestSoFar(i) == \A j \in 1 .. Done : fetched[j].mac = fetched[i].mac => j <= i

TracksList ==
    /\ \A i \in 1 .. Done : fetched[i].mac \in Known
    /\ \A i \in 1 .. Done : LatestSoFar(i) =>
          SameButLoopback(m_adapters[fetched[i].mac], fetched[i].adapter)
    /\ ~updating => Known \subseteq Reported(fetched)

LEMMA ComparedFacts ==
    ASSUME ManagerTypeOK, Compares
    PROVE  /\ Known' = Known \cup {Current.mac}
           /\ SameButLoopback(m_adapters'[Current.mac], Current.adapter)
           /\ \A mac \in Known : mac # Current.mac => m_adapters'[mac] = m_adapters[mac]
  <1> USE DEF ManagerTypeOK
  <1>1. Current.mac \in Macs /\ Current.adapter \in Adapters
    BY CurrentFacts
  <1>2. ASSUME m_adapters' = With(Current.mac, Current.adapter)
        PROVE  /\ Known' = Known \cup {Current.mac}
               /\ m_adapters'[Current.mac] = Current.adapter
               /\ \A mac \in Known : mac # Current.mac => m_adapters'[mac] = m_adapters[mac]
    <2>1. /\ DOMAIN With(Current.mac, Current.adapter) = Known \cup {Current.mac}
          /\ \A n \in Known \cup {Current.mac} : With(Current.mac, Current.adapter)[n] =
                IF n = Current.mac THEN Current.adapter ELSE m_adapters[n]
      BY <1>1, MapFacts
    <2> QED BY <1>2, <2>1 DEF Known
  <1>3. SameButLoopback(Current.adapter, Current.adapter)
    BY <1>1 DEF SameButLoopback, Adapters
  <1>4. CASE DetectNew \/ DetectChange
    <2>1. m_adapters' = With(Current.mac, Current.adapter)
      BY <1>4, Zenon DEF DetectNew, DetectChange
    <2> QED BY <1>2, <1>3, <2>1
  <1>5. CASE DetectSame
    <2>1. /\ Current.mac \in Known /\ ~Differ(Previous, Current.adapter)
          /\ m_adapters' = m_adapters
      BY <1>5 DEF DetectSame
    <2>2. Previous \in Adapters
      BY <2>1 DEF Previous, IsAdapterMap, Known
    <2>3. SameButLoopback(Previous, Current.adapter)
      BY <1>1, <2>1, <2>2 DEF Differ, SameButLoopback, Adapters
    <2> QED BY <2>1, <2>3 DEF Known, Previous
  <1> QED BY <1>4, <1>5 DEF Compares

LEMMA TracksStep ==
    ASSUME ManagerTypeOK, Position, TracksList,
           Begins \/ Compares \/ Removes \/ EndUpdate \/ UNCHANGED managerVars
    PROVE  TracksList'
  <1>1. CASE Begins
    <2>1. fetched' = todo' /\ updating' /\ Len(fetched') \in Nat
      BY <1>1, SeqFacts DEF Begins, Fetch
    <2> QED BY <2>1 DEF TracksList, Done
  <1>2. CASE Compares
    <2>1. /\ Done' = Done + 1 /\ Done' \in 1 .. Len(fetched)
          /\ fetched' = fetched /\ fetched[Done'] = Current
      BY <1>2, NextEntry
    <2>2. /\ Known' = Known \cup {Current.mac}
          /\ SameButLoopback(m_adapters'[Current.mac], Current.adapter)
          /\ \A mac \in Known : mac # Current.mac => m_adapters'[mac] = m_adapters[mac]
      BY <1>2, ComparedFacts
    <2>0. Done \in Int
      BY Lengths DEF Done
    <2>3. \A i \in 1 .. Done' : i \in 1 .. Done \/ i = Done'
      BY <2>0, <2>1
    <2>4. \A i \in 1 .. Done' : fetched'[i].mac \in Known'
      BY <2>1, <2>2, <2>3 DEF TracksList
    <2>5. ASSUME NEW i \in 1 .. Done', LatestSoFar(i)'
          PROVE  SameButLoopback(m_adapters'[fetched'[i].mac], fetched'[i].adapter)
      <3>1. CASE i = Done'
        BY <2>1, <2>2, <3>1
      <3>2. CASE i \in 1 .. Done /\ i # Done'
        <4>1. 1 .. Done \subseteq 1 .. Done' /\ Done' \in 1 .. Done' /\ ~ Done' <= i
          BY <2>0, <2>1, <3>2
        <4>2. LatestSoFar(i) /\ fetched[i].mac # Current.mac
          BY <2>1, <2>5, <4>1 DEF LatestSoFar
        <4>3. fetched[i].mac \in Known
          BY <3>2 DEF TracksList
        <4> QED BY <2>1, <2>2, <3>2, <4>2, <4>3 DEF TracksList
      <3> QED BY <2>3, <3>1, <3>2
    <2>6. updating'
      BY <1>2, CurrentFacts
    <2> QED BY <2>4, <2>5, <2>6 DEF TracksList
  <1>3. CASE Removes
    <2>1. PICK mac \in Macs : DetectRemoved(mac)
      BY <1>3 DEF Removes
    <2>2. /\ mac \in Known /\ \A i \in DOMAIN fetched : fetched[i].mac # mac
          /\ m_adapters' = Without(mac)
          /\ fetched' = fetched /\ todo' = todo /\ updating' = updating /\ updating
      BY <2>1 DEF DetectRemoved, IsFirstAbsent, Absent
    <2>3. Known' = Known \ {mac} /\ \A n \in Known \ {mac} : m_adapters'[n] = m_adapters[n]
      BY <2>2 DEF Without, Known
    <2>4. Done' = Done /\ 1 .. Done \subseteq DOMAIN fetched
      BY <2>2, Lengths DEF Done
    <2>5. \A i \in 1 .. Done : fetched[i].mac \in Known \ {mac}
      BY <2>2, <2>4 DEF TracksList
    <2>6. \A i : LatestSoFar(i)' <=> LatestSoFar(i)
      BY <2>2, <2>4 DEF LatestSoFar
    <2> QED BY <2>2, <2>3, <2>4, <2>5, <2>6 DEF TracksList
  <1>4. CASE EndUpdate
    BY <1>4 DEF EndUpdate, Absent, Reported, Known, TracksList, LatestSoFar, Done
  <1>5. CASE UNCHANGED managerVars
    BY <1>5 DEF managerVars, Reported, Known, TracksList, LatestSoFar, Done
  <1> QED BY <1>1, <1>2, <1>3, <1>4, <1>5

LEMMA CurrentFollows ==
    ASSUME ManagerTypeOK, Position, TracksList
    PROVE  ManagerIsCurrent
  <1> SUFFICES ASSUME ~updating PROVE
        /\ Known = Reported(fetched)
        /\ \A mac \in Known : SameButLoopback(m_adapters[mac], LastEntry(fetched, mac))
    BY DEF ManagerIsCurrent, SameButLoopback
  <1>1. Done = Len(fetched) /\ DOMAIN fetched = 1 .. Done
    BY Lengths DEF Position, Done
  <1>2. Known = Reported(fetched)
    BY <1>1 DEF TracksList, Reported
  <1>3. ASSUME NEW mac \in Known
        PROVE  SameButLoopback(m_adapters[mac], LastEntry(fetched, mac))
    <2> DEFINE T == {i \in DOMAIN fetched : fetched[i].mac = mac}
               IsLast(i) == /\ fetched[i].mac = mac
                            /\ \A j \in DOMAIN fetched : fetched[j].mac = mac => j <= i
    <2>1. T \in SUBSET (1 .. Done) /\ T # {} /\ Done \in Nat
      BY <1>1, <1>2, Lengths DEF Reported
    <2>2. \E i \in DOMAIN fetched : IsLast(i)
      BY <2>1, LastIndex
    <2>3. PICK i \in DOMAIN fetched : IsLast(i) /\ LastEntry(fetched, mac) = fetched[i].adapter
      BY <2>2 DEF LastEntry
    <2>4. LatestSoFar(i)
      BY <1>1, <2>3 DEF LatestSoFar
    <2> QED BY <1>1, <2>3, <2>4 DEF TracksList
  <1> QED BY <1>2, <1>3

LEMMA PositionInit == ManagerInit => Position /\ TracksList
  BY DEF ManagerInit, Position, TracksList, Known, Done

(* After each update the manager knows the list it fetched: the adapters   *)
(* it names and what the last entry of each says, but for the loopback     *)
(* flag.                                                                   *)
THEOREM KnowsTheList == ManagerSpec => []ManagerIsCurrent
  <1>1. ManagerTypeOK /\ Position /\ TracksList /\ [ManagerNext]_managerVars
            => Position' /\ TracksList'
    BY PositionStep, TracksStep, ManagerSteps
  <1> QED BY <1>1, ManagerTypeCorrect, PositionInit, CurrentFollows, PTL DEF ManagerSpec

-----------------------------------------------------------------------------
(* A signal of this update is about an adapter whose entry is compared, or *)
(* about one that is not in the list and no longer known.                  *)
EntriesDiffer == \A i, j \in DOMAIN fetched : fetched[i].mac = fetched[j].mac => i = j

SignalledOnce ==
    /\ \A k \in DOMAIN events :
          \/ \E i \in 1 .. Done : fetched[i].mac = events[k][2]
          \/ events[k][2] \notin Reported(fetched) /\ events[k][2] \notin Known
    /\ EntriesDiffer => \A j, k \in DOMAIN events : events[j][2] = events[k][2] => j = k

(* A list in which as many adapters are named as it has entries names each *)
(* once.                                                                   *)
LEMMA NoDuplicatesDiffer ==
    ASSUME ManagerTypeOK, NoDuplicates(fetched)
    PROVE  EntriesDiffer
  <1> DEFINE n == Len(fetched)
             f == [i \in 1 .. n |-> fetched[i].mac]
  <1>1. n \in Nat /\ DOMAIN fetched = 1 .. n
    BY Lengths
  <1>2. f \in Surjection(1 .. n, Reported(fetched))
    BY <1>1 DEF Surjection, Reported
  <1>3. IsFiniteSet(1 .. n) /\ Cardinality(1 .. n) = n
    <2>1. IsFiniteSet(1 .. n) /\ Cardinality(1 .. n) = IF 1 > n THEN 0 ELSE n - 1 + 1
      <3> HIDE DEF n
      <3> QED BY <1>1, FS_Interval
    <2> HIDE DEF n
    <2> QED BY <1>1, <2>1
  <1>4. Cardinality(Reported(fetched)) = n
    BY DEF NoDuplicates
  <1>5. f \in Injection(1 .. n, Reported(fetched))
    <2> HIDE DEF f, n
    <2> QED BY <1>2, <1>3, <1>4, FS_SurjSameCardinalityImpliesInj
  <1>6. \A i, j \in 1 .. n : f[i] = f[j] => i = j
    BY <1>5 DEF Injection, IsInjective
  <1> QED BY <1>1, <1>6 DEF EntriesDiffer

(* What a signal adds to the history.                                      *)
LEMMA Signalled ==
    ASSUME ManagerTypeOK, NEW x \in Signals, events' = Append(events, x)
    PROVE  /\ DOMAIN events' = DOMAIN events \cup {Len(events) + 1}
           /\ Len(events) + 1 \notin DOMAIN events
           /\ events'[Len(events) + 1] = x
           /\ \A k \in DOMAIN events : events'[k] = events[k]
  <1>1. events \in Seq(Signals)
    BY DEF ManagerTypeOK, Signals
  <1>2. /\ Len(events) \in Nat /\ DOMAIN events = 1 .. Len(events)
        /\ Append(events, x) \in Seq(Signals) /\ Len(Append(events, x)) = Len(events) + 1
        /\ Append(events, x)[Len(events) + 1] = x
        /\ \A i \in 1 .. Len(events) : Append(events, x)[i] = events[i]
    BY <1>1, SeqFacts
  <1>3. DOMAIN Append(events, x) = 1 .. Len(events) + 1
    BY <1>2, SeqFacts
  <1> QED BY <1>2, <1>3

LEMMA SignalledStep ==
    ASSUME ManagerTypeOK, Position, TracksList, SignalledOnce,
           Begins \/ Compares \/ Removes \/ EndUpdate \/ UNCHANGED managerVars
    PROVE  SignalledOnce'
  <1>1. CASE Begins
    BY <1>1 DEF Begins, Fetch, SignalledOnce
  <1>2. CASE Compares
    <2>1. /\ Done' = Done + 1 /\ Done' \in 1 .. Len(fetched)
          /\ fetched' = fetched /\ fetched[Done'] = Current
      BY <1>2, NextEntry
    <2>2. Known' = Known \cup {Current.mac} /\ Current.mac \in Macs
      BY <1>2, ComparedFacts, CurrentFacts
    <2>3. Current.mac \in Reported(fetched) /\ DOMAIN fetched = 1 .. Len(fetched)
      BY <2>1, Lengths DEF Reported
    <2>4. 1 .. Done \subseteq 1 .. Done' /\ Done' \in 1 .. Done' /\ Done' \notin 1 .. Done
          /\ 1 .. Done \subseteq DOMAIN fetched
      <3>1. Done \in Int /\ Len(fetched) \in Nat
        BY Lengths DEF Done
      <3> QED BY <2>1, <2>3, <3>1
    <2>5. \A k \in DOMAIN events :
             \/ \E i \in 1 .. Done' : fetched'[i].mac = events[k][2]
             \/ events[k][2] \notin Reported(fetched') /\ events[k][2] \notin Known'
      BY <2>1, <2>2, <2>3, <2>4 DEF SignalledOnce
    <2>6. CASE events' = events
      BY <2>1, <2>5, <2>6 DEF SignalledOnce, EntriesDiffer
    <2>7. ASSUME NEW x \in Signals, x[2] = Current.mac, events' = Append(events, x)
          PROVE  SignalledOnce'
      <3>1. /\ DOMAIN events' = DOMAIN events \cup {Len(events) + 1}
            /\ Len(events) + 1 \notin DOMAIN events
            /\ events'[Len(events) + 1] = x
            /\ \A k \in DOMAIN events : events'[k] = events[k]
        BY <2>7, Signalled
      <3>2. \A k \in DOMAIN events' :
               \/ \E i \in 1 .. Done' : fetched'[i].mac = events'[k][2]
               \/ events'[k][2] \notin Reported(fetched') /\ events'[k][2] \notin Known'
        BY <2>1, <2>4, <2>5, <2>7, <3>1
      <3>3. ASSUME EntriesDiffer, NEW k \in DOMAIN events PROVE events[k][2] # Current.mac
        BY <2>1, <2>3, <2>4, <3>3 DEF SignalledOnce, EntriesDiffer
      <3>4. EntriesDiffer' => EntriesDiffer
        BY <2>1 DEF EntriesDiffer
      <3> QED BY <2>7, <3>1, <3>2, <3>3, <3>4 DEF SignalledOnce
    <2>8. \/ events' = Append(events, <<"new", Current.mac>>)
          \/ events' = Append(events, <<"changed", Current.mac>>)
          \/ events' = events
      BY <1>2, Zenon DEF Compares, DetectNew, DetectChange, DetectSame
    <2>9. <<"new", Current.mac>> \in Signals /\ <<"changed", Current.mac>> \in Signals
      BY <2>2 DEF Signals
    <2> QED BY <2>6, <2>7, <2>8, <2>9
  <1>3. CASE Removes
    <2>1. PICK mac \in Macs : DetectRemoved(mac)
      BY <1>3 DEF Removes
    <2>2. /\ mac \in Known /\ mac \notin Reported(fetched)
          /\ Known' = Known \ {mac} /\ fetched' = fetched /\ todo' = todo
          /\ events' = Append(events, <<"removed", mac>>)
      BY <2>1 DEF DetectRemoved, IsFirstAbsent, Absent, Without, Known, Reported
    <2>3. <<"removed", mac>> \in Signals
      BY DEF Signals
    <2>4. /\ DOMAIN events' = DOMAIN events \cup {Len(events) + 1}
          /\ Len(events) + 1 \notin DOMAIN events
          /\ events'[Len(events) + 1] = <<"removed", mac>>
          /\ \A k \in DOMAIN events : events'[k] = events[k]
      BY <2>2, <2>3, Signalled
    <2>5. 1 .. Done \subseteq DOMAIN fetched /\ Done' = Done
      <3>1. Done \in Int /\ Len(fetched) \in Nat /\ DOMAIN fetched = 1 .. Len(fetched)
            /\ Done <= Len(fetched)
        BY Lengths DEF Done
      <3> QED BY <2>2, <3>1 DEF Done
    <2>6. \A k \in DOMAIN events : events[k][2] # mac
      BY <2>2, <2>5 DEF SignalledOnce, Reported
    <2>7. \A k \in DOMAIN events' :
             \/ \E i \in 1 .. Done' : fetched'[i].mac = events'[k][2]
             \/ events'[k][2] \notin Reported(fetched') /\ events'[k][2] \notin Known'
      BY <2>2, <2>4, <2>5 DEF SignalledOnce
    <2>8. EntriesDiffer' => EntriesDiffer
      BY <2>2 DEF EntriesDiffer
    <2>9. events'[Len(events) + 1][2] = mac
      BY <2>4
    <2> QED BY <2>4, <2>6, <2>7, <2>8, <2>9 DEF SignalledOnce
  <1>4. CASE EndUpdate \/ UNCHANGED managerVars
    <2>1. fetched' = fetched /\ todo' = todo /\ events' = events /\ m_adapters' = m_adapters
      BY <1>4 DEF EndUpdate, managerVars
    <2> QED BY <2>1 DEF SignalledOnce, EntriesDiffer, Done, Known, Reported
  <1> QED BY <1>1, <1>2, <1>3, <1>4

LEMMA SignalledInit == ManagerInit => SignalledOnce
  BY DEF ManagerInit, SignalledOnce

(* In one update an adapter causes one signal at most, and none that is    *)
(* listed is reported removed, if the list names no adapter twice.         *)
THEOREM SignalsOnce == ManagerSpec => []OneSignalPerAdapter
  <1>1. ManagerTypeOK /\ Position /\ TracksList /\ SignalledOnce /\ [ManagerNext]_managerVars
            => Position' /\ TracksList' /\ SignalledOnce'
    BY PositionStep, TracksStep, SignalledStep, ManagerSteps
  <1>2. ManagerTypeOK /\ SignalledOnce => OneSignalPerAdapter
    BY NoDuplicatesDiffer DEF OneSignalPerAdapter, SignalledOnce
  <1> QED BY <1>1, <1>2, ManagerTypeCorrect, PositionInit, SignalledInit, PTL DEF ManagerSpec

-----------------------------------------------------------------------------
(* Under windows_adapter_fetcher the adapter manager behaves as it does on *)
(* its own, so what was proved of it holds of the two.                     *)
LEMMA InterfacesListed == FetcherSpec => [](interfaces \in InterfaceLists)
  <1>1. FetcherInit => interfaces \in InterfaceLists
    BY DEF FetcherInit
  <1>2. interfaces \in InterfaceLists /\ [FetcherNext]_fetchingVars => (interfaces \in InterfaceLists)'
    BY DEF FetcherNext, Loop, Configure, AskSize, Read, ReadFails, Compare, Finish, fetcherVars,
       fetchingVars
  <1> QED BY <1>1, <1>2, PTL DEF FetcherSpec

(* Each step of the fetcher is one of the manager or leaves it alone: the  *)
(* list it reads is one that get_adapters may return, whatever happened    *)
(* between its two calls.                                                  *)
THEOREM FetcherFeedsManager == FetcherSpec => ManagerSpec
  <1>1. FetcherInit => ManagerInit
    BY DEF FetcherInit
  <1>2. interfaces \in InterfaceLists /\ [FetcherNext]_fetchingVars => [ManagerNext]_managerVars
    BY FetchesAssumption DEF FetcherNext, Loop, Configure, AskSize, Read, ReadFails, Compare, Finish,
       ManagerNext, fetchingVars
  <1> QED BY <1>1, <1>2, InterfacesListed, PTL DEF FetcherSpec, ManagerSpec

(* After each update the manager knows the adapters of the list it read.   *)
THEOREM ManagerKnowsInterfaces == FetcherSpec => []ManagerIsCurrent
  BY FetcherFeedsManager, KnowsTheList, PTL

(* However the interfaces change between and during updates, one update    *)
(* signals an adapter once.                                                *)
THEOREM FetcherSignalsOnce == FetcherSpec => []OneSignalPerAdapter
  BY FetcherFeedsManager, SignalsOnce, PTL

-----------------------------------------------------------------------------
(* What get_adapters keeps.                                                *)
LEMMA V4Facts ==
    ASSUME NEW i \in Interfaces
    PROVE  V4Addresses(i) \in Seq(Addresses) /\ Len(V4Addresses(i)) \in Nat
  <1> DEFINE v4 == Only(i.addresses, {a \in InterfaceAddresses : a.v4})
  <1>1. v4 \in Seq(InterfaceAddresses)
    BY OnlyFacts DEF Interfaces
  <1>2. /\ Len(v4) \in Nat /\ DOMAIN v4 = 1 .. Len(v4)
        /\ \A j \in 1 .. Len(v4) : v4[j].address \in Addresses
    <2> HIDE DEF v4
    <2>1. /\ Len(v4) \in Nat /\ DOMAIN v4 = 1 .. Len(v4)
          /\ \A j \in 1 .. Len(v4) : v4[j] \in InterfaceAddresses
      BY <1>1, SeqFacts
    <2> QED BY <2>1 DEF InterfaceAddresses
  <1>3. V4Addresses(i) = [j \in 1 .. Len(v4) |-> v4[j].address]
    BY <1>2 DEF V4Addresses
  <1> HIDE DEF v4
  <1>4. V4Addresses(i) \in Seq(Addresses)
    BY <1>2, <1>3
  <1> QED BY <1>4, SeqFacts

(* GetAdapters takes the usable interfaces, each once and in their order.  *)
TakesUsable(at, list) ==
    /\ at \in [1 .. Len(GetAdapters(list)) -> 1 .. Len(list)]
    /\ \A i, j \in 1 .. Len(GetAdapters(list)) : i < j => at[i] < at[j]
    /\ \A i \in 1 .. Len(GetAdapters(list)) :
          GetAdapters(list)[i] = AsAdapter(list[at[i]]) /\ IsUsable(list[at[i]])
    /\ \A i \in 1 .. Len(list) :
          IsUsable(list[i]) => \E j \in 1 .. Len(GetAdapters(list)) : at[j] = i

LEMMA GetAdaptersFacts ==
    ASSUME NEW list \in Seq(Interfaces)
    PROVE  GetAdapters(list) \in Seq(Entries) /\ \E at : TakesUsable(at, list)
  <1> DEFINE T == {i \in Interfaces : IsUsable(i)}
             usable == Only(list, T)
  <1>1. usable \in Seq(Interfaces) /\ \E at : Places(at, usable, list, T, Len(list))
    BY OnlyFacts
  <1>2. PICK at : Places(at, usable, list, T, Len(list))
    BY <1>1
  <1>3. /\ Len(usable) \in Nat /\ DOMAIN usable = 1 .. Len(usable)
        /\ \A j \in 1 .. Len(usable) : usable[j] \in Interfaces
        /\ \A j \in 1 .. Len(list) : list[j] \in Interfaces
    BY <1>1, SeqFacts
  <1>4. GetAdapters(list) = [j \in 1 .. Len(usable) |-> AsAdapter(usable[j])]
    BY <1>3 DEF GetAdapters
  <1>5. \A x : x \in T <=> x \in Interfaces /\ IsUsable(x)
    OBVIOUS
  <1> HIDE DEF usable, T
  <1>6. \A i \in Interfaces : AsAdapter(i) \in Entries
    BY V4Facts DEF AsAdapter, Entries, Adapters, Interfaces
  <1>7. GetAdapters(list) \in Seq(Entries) /\ Len(GetAdapters(list)) = Len(usable)
    BY <1>3, <1>4, <1>6
  <1>8. TakesUsable(at, list)
    BY <1>2, <1>3, <1>4, <1>5, <1>7 DEF Places, TakesUsable
  <1> QED BY <1>7, <1>8

-----------------------------------------------------------------------------
(* The size that is asked for is a number.                                 *)
Adds(f, list, n) ==
    f = [i \in 0 .. n |-> IF i = 0 THEN 0 ELSE f[i - 1] + 1 + Len(V4Addresses(list[i]))]

LEMMA AddsExists ==
    ASSUME NEW list \in Seq(Interfaces), NEW k \in 0 .. Len(list)
    PROVE  \E f \in [0 .. k -> Nat] : Adds(f, list, k)
  <1> DEFINE Bad == {n \in 0 .. Len(list) : ~ \E f \in [0 .. n -> Nat] : Adds(f, list, n)}
  <1> SUFFICES ASSUME Bad # {} PROVE FALSE
    OBVIOUS
  <1>1. Len(list) \in Nat
    OBVIOUS
  <1>2. PICK n \in Bad : \A m \in Bad : n <= m
    <2>1. Bad \subseteq Nat
      BY <1>1
    <2> HIDE DEF Bad
    <2> QED BY <2>1, LeastNatural
  <1>3. n \in 0 .. Len(list)
    OBVIOUS
  <1>4. CASE n = 0
    <2> DEFINE f == [i \in 0 .. 0 |-> 0]
    <2>1. f \in [0 .. n -> Nat] /\ Adds(f, list, n)
      BY <1>4 DEF Adds
    <2> QED BY <2>1
  <1>5. CASE n # 0
    <2>1. n - 1 \in 0 .. Len(list) /\ ~ (n <= n - 1) /\ n \in 1 .. Len(list)
      BY <1>1, <1>3, <1>5
    <2>2. n - 1 \notin Bad
      <3> HIDE DEF Bad
      <3> QED BY <1>2, <2>1
    <2>3. PICK f \in [0 .. n - 1 -> Nat] : Adds(f, list, n - 1)
      BY <2>1, <2>2
    <2> DEFINE size == f[n - 1] + 1 + Len(V4Addresses(list[n]))
               g == [i \in 0 .. n |-> IF i = n THEN size ELSE f[i]]
    <2>4. size \in Nat
      <3>1. f[n - 1] \in Nat
        BY <2>1
      <3>2. list[n] \in Interfaces
        BY <2>1
      <3> QED BY <3>1, <3>2, V4Facts
    <2>5. \A i \in 0 .. n : i = n \/ i \in 0 .. n - 1
      BY <2>1
    <2>6. g \in [0 .. n -> Nat]
      <3> HIDE DEF size
      <3> QED BY <2>4, <2>5
    <2>7. ASSUME NEW i \in 0 .. n
          PROVE  g[i] = IF i = 0 THEN 0 ELSE g[i - 1] + 1 + Len(V4Addresses(list[i]))
      <3>1. CASE i = n
        <4>1. g[i] = size /\ g[i - 1] = f[n - 1] /\ i # 0
          BY <2>1, <3>1
        <4> QED BY <3>1, <4>1
      <3>2. CASE i # n
        <4>1. i \in 0 .. n - 1 /\ (i # 0 => i - 1 \in 0 .. n - 1 /\ i - 1 # n /\ i - 1 \in 0 .. n)
          BY <2>1, <3>2
        <4>2. g[i] = f[i] /\ (i # 0 => g[i - 1] = f[i - 1])
          BY <3>2, <4>1
        <4>3. f[i] = IF i = 0 THEN 0 ELSE f[i - 1] + 1 + Len(V4Addresses(list[i]))
          BY <2>3, <4>1 DEF Adds
        <4> HIDE DEF g
        <4> QED BY <4>2, <4>3
      <3> QED BY <3>1, <3>2
    <2>8. Adds(g, list, n)
      <3>1. g = [i \in 0 .. n |-> g[i]]
        OBVIOUS
      <3> HIDE DEF g
      <3> QED BY <2>7, <3>1 DEF Adds
    <2> QED BY <2>6, <2>8
  <1> QED BY <1>4, <1>5

(* Whatever function adds so, what it comes to is a number.                *)
LEMMA AddsTyped ==
    ASSUME NEW list \in Seq(Interfaces), NEW f, Adds(f, list, Len(list))
    PROVE  f[Len(list)] \in Nat
  <1> DEFINE Bad == {n \in 0 .. Len(list) : f[n] \notin Nat}
  <1>1. Len(list) \in Nat
    OBVIOUS
  <1>2. Bad = {}
    <2> SUFFICES ASSUME Bad # {} PROVE FALSE
      OBVIOUS
    <2>1. PICK n \in Bad : \A m \in Bad : n <= m
      <3>1. Bad \subseteq Nat
        BY <1>1
      <3> HIDE DEF Bad
      <3> QED BY <3>1, LeastNatural
    <2>2. n \in 0 .. Len(list) /\ f[n] = IF n = 0 THEN 0 ELSE f[n - 1] + 1 + Len(V4Addresses(list[n]))
      BY DEF Adds
    <2>3. n # 0
      BY <2>2
    <2>4. n - 1 \in 0 .. Len(list) /\ ~ (n <= n - 1) /\ n \in 1 .. Len(list)
      BY <1>1, <2>2, <2>3
    <2>5. f[n - 1] \in Nat
      <3>1. n - 1 \notin Bad
        <4> HIDE DEF Bad
        <4> QED BY <2>1, <2>4
      <3> QED BY <2>4, <3>1
    <2>6. Len(V4Addresses(list[n])) \in Nat
      BY <2>4, V4Facts
    <2> QED BY <2>2, <2>3, <2>5, <2>6
  <1> QED BY <1>1, <1>2

LEMMA SizeTyped ==
    ASSUME NEW list \in Seq(Interfaces)
    PROVE  SizeOf(list) \in Nat
  <1> DEFINE f == CHOOSE f : Adds(f, list, Len(list))
  <1>1. Adds(f, list, Len(list))
    <2>1. Len(list) \in 0 .. Len(list)
      OBVIOUS
    <2> QED BY <2>1, AddsExists
  <1>2. SizeOf(list) = f[Len(list)]
    BY DEF SizeOf, Adds
  <1> QED BY <1>1, <1>2, AddsTyped

-----------------------------------------------------------------------------
LEMMA FetcherTypeStep ==
    ASSUME FetcherTypeOK, [FetcherNext]_fetchingVars
    PROVE  /\ interfaces' \in Seq(Interfaces)
           /\ outBufLen' \in Nat \cup {NotAsked} /\ (outBufLen' # NotAsked => ~updating' /\ ~exited')
           /\ exited' \in BOOLEAN /\ settled' \in 0 .. 2
  <1> USE DEF FetcherTypeOK
  <1>1. ASSUME NEW list \in InterfaceLists, Configure(list)
        PROVE  /\ interfaces' \in Seq(Interfaces) /\ settled' \in 0 .. 2
               /\ UNCHANGED <<updating, outBufLen, exited>>
    BY <1>1, InterfacesTyped DEF Configure, managerVars
  <1>2. CASE AskSize
    BY <1>2, SizeTyped DEF AskSize, managerVars
  <1>3. CASE Read
    BY <1>3 DEF Read, NotAsked
  <1>4. CASE ReadFails
    BY <1>4 DEF ReadFails, NotAsked
  <1>5. CASE Compare
    BY <1>5 DEF Compare, DetectNew, DetectChange, DetectSame, DetectRemoved, TakeEntry, fetcherVars
  <1>6. CASE Finish
    BY <1>6 DEF Finish, EndUpdate
  <1>7. CASE UNCHANGED fetchingVars
    BY <1>7 DEF fetchingVars, managerVars, fetcherVars
  <1> QED BY <1>1, <1>2, <1>3, <1>4, <1>5, <1>6, <1>7 DEF FetcherNext, Loop

(* The daemon is not between the two calls of get_adapters while it        *)
(* compares, nor after it has exited, and every other value has its type.  *)
THEOREM FetcherTypeCorrect == FetcherSpec => []FetcherTypeOK
  <1>1. FetcherInit => FetcherTypeOK
    <2>1. 0 \in 0 .. 2
      OBVIOUS
    <2> QED BY <2>1, ManagerTypeInit, InterfacesTyped DEF FetcherInit, FetcherTypeOK
  <1>2. FetcherTypeOK /\ ManagerTypeOK' /\ [FetcherNext]_fetchingVars => FetcherTypeOK'
    BY FetcherTypeStep DEF FetcherTypeOK
  <1> QED BY <1>1, <1>2, FetcherFeedsManager, ManagerTypeCorrect, PTL DEF FetcherSpec

-----------------------------------------------------------------------------
(* Once an update has read the present interfaces, and no two share a MAC  *)
(* address, the manager agrees with them and an update finds nothing.      *)
Distinct(list) == \A i, j \in DOMAIN list : list[i].mac = list[j].mac => i = j
Agrees ==
    /\ Known = Reported(fetched)
    /\ \A i \in DOMAIN fetched :
          /\ SameButLoopback(m_adapters[fetched[i].mac], fetched[i].adapter)
          /\ ~Differ(m_adapters[fetched[i].mac], fetched[i].adapter)

Steady ==
    settled > 0 /\ Distinct(GetAdapters(interfaces)) =>
        /\ fetched = GetAdapters(interfaces) /\ Agrees
        /\ updating \/ settled = 2 => events = << >>

LEMMA CurrentAgrees ==
    ASSUME ManagerTypeOK, ManagerIsCurrent, ~updating, EntriesDiffer
    PROVE  Agrees
  <1>1. Known = Reported(fetched)
    BY DEF ManagerIsCurrent
  <1>2. ASSUME NEW i \in DOMAIN fetched
        PROVE  /\ SameButLoopback(m_adapters[fetched[i].mac], fetched[i].adapter)
               /\ ~Differ(m_adapters[fetched[i].mac], fetched[i].adapter)
    <2> DEFINE mac == fetched[i].mac
               IsLast(j) == /\ fetched[j].mac = mac
                            /\ \A k \in DOMAIN fetched : fetched[k].mac = mac => k <= j
    <2>1. i \in Nat /\ mac \in Known
      BY <1>1, Lengths DEF Reported
    <2>2. IsLast(i) /\ \A j \in DOMAIN fetched : IsLast(j) => j = i
      BY <2>1 DEF EntriesDiffer
    <2>3. LastEntry(fetched, mac) = fetched[CHOOSE j \in DOMAIN fetched : IsLast(j)].adapter
      BY DEF LastEntry
    <2>4. LastEntry(fetched, mac) = fetched[i].adapter
      <3> HIDE DEF IsLast
      <3> QED BY <2>2, <2>3
    <2>5. SameButLoopback(m_adapters[mac], fetched[i].adapter)
      BY <2>1, <2>4 DEF ManagerIsCurrent, SameButLoopback
    <2>6. m_adapters[mac] \in Adapters /\ fetched[i].adapter \in Adapters
      BY <2>1, Lengths DEF ManagerTypeOK, IsAdapterMap, Known
    <2>7. \A a, b \in Adapters : SameButLoopback(a, b) => ~Differ(a, b)
      BY DEF Adapters, SameButLoopback, Differ
    <2> QED BY <2>5, <2>6, <2>7
  <1> QED BY <1>1, <1>2 DEF Agrees

LEMMA NextAgrees ==
    ManagerTypeOK' /\ ManagerIsCurrent' /\ ~updating' /\ EntriesDiffer' => Agrees'
  <1>1. ManagerTypeOK /\ ManagerIsCurrent /\ ~updating /\ EntriesDiffer => Agrees
    BY CurrentAgrees
  <1> QED BY <1>1, PTL

LEMMA SteadyStep ==
    ASSUME FetcherTypeOK, Position, ManagerIsCurrent', ManagerTypeOK', Steady,
           [FetcherNext]_fetchingVars
    PROVE  Steady'
  <1>1. ManagerTypeOK /\ settled \in 0 .. 2
    BY DEF FetcherTypeOK
  <1>2. ASSUME NEW list, Configure(list) PROVE settled' = 0
    BY <1>2 DEF Configure
  <1>3. CASE AskSize \/ ReadFails \/ UNCHANGED fetchingVars
    BY <1>3 DEF AskSize, ReadFails, fetchingVars, fetcherVars, managerVars, Steady, Agrees, Known
  <1>4. CASE Read
    BY <1>4 DEF Read, Fetch, Steady, Agrees, Known
  <1>5. CASE Compare
    <2> SUFFICES ASSUME settled > 0, Distinct(GetAdapters(interfaces)),
                        fetched = GetAdapters(interfaces), Agrees,
                        updating \/ settled = 2 => events = << >>
                 PROVE  UNCHANGED <<fetched, m_adapters, events, updating>>
      BY <1>5 DEF Compare, fetcherVars, Steady, Agrees, Known
    <2>1. CASE Compares
      <3>1. Current = fetched[Done'] /\ Done' \in DOMAIN fetched
        BY <1>1, <2>1, NextEntry, Lengths
      <3>2. Current.mac \in Known /\ ~Differ(Previous, Current.adapter)
        BY <3>1 DEF Agrees, Reported, Previous
      <3>3. DetectSame
        BY <2>1, <3>2 DEF Compares, DetectNew, DetectChange
      <3> QED BY <3>3 DEF DetectSame, TakeEntry
    <2>2. ASSUME NEW mac \in Macs, DetectRemoved(mac) PROVE FALSE
      <3>1. mac \in Known /\ \A i \in DOMAIN fetched : fetched[i].mac # mac
        BY <2>2 DEF DetectRemoved, IsFirstAbsent, Absent
      <3> QED BY <3>1 DEF Agrees, Reported
    <2> QED BY <1>5, <2>1, <2>2 DEF Compare, Compares
  <1>6. CASE Finish
    <2>1. /\ updating /\ ~updating' /\ UNCHANGED <<m_adapters, fetched, events, interfaces>>
          /\ settled' = IF fetched = GetAdapters(interfaces) /\ settled < 2 THEN settled + 1 ELSE settled
      BY <1>6 DEF Finish, EndUpdate
    <2> SUFFICES ASSUME settled' > 0, Distinct(GetAdapters(interfaces))
                 PROVE  /\ fetched = GetAdapters(interfaces) /\ Agrees'
                        /\ settled' = 2 => events = << >>
      BY <2>1 DEF Steady
    <2>2. CASE settled > 0
      BY <2>1, <2>2 DEF Steady, Agrees, Known
    <2>3. CASE settled = 0
      <3>1. fetched = GetAdapters(interfaces) /\ settled' = 1
        BY <2>1, <2>3
      <3>2. EntriesDiffer'
        BY <2>1, <3>1 DEF Distinct, EntriesDiffer
      <3> QED BY <2>1, <3>1, <3>2, NextAgrees
    <2> QED BY <1>1, <2>2, <2>3
  <1>7. settled' = 0 => Steady'
    BY DEF Steady
  <1> QED BY <1>2, <1>3, <1>4, <1>5, <1>6, <1>7 DEF FetcherNext, Loop

(* No two interfaces that are used share a MAC address: then no two        *)
(* entries of what is fetched do.                                          *)
LEMMA DistinctInterfaces ==
    ASSUME interfaces \in Seq(Interfaces), DistinctMacs
    PROVE  Distinct(GetAdapters(interfaces))
  <1> DEFINE list == GetAdapters(interfaces)
  <1>1. PICK at : TakesUsable(at, interfaces)
    BY GetAdaptersFacts
  <1>2. Len(list) \in Nat /\ DOMAIN list = 1 .. Len(list) /\ DOMAIN interfaces = 1 .. Len(interfaces)
    BY GetAdaptersFacts, SeqFacts
  <1> SUFFICES ASSUME NEW i \in 1 .. Len(list), NEW j \in 1 .. Len(list), list[i].mac = list[j].mac
               PROVE  i = j
    BY <1>2 DEF Distinct
  <1>3. /\ at[i] \in DOMAIN interfaces /\ IsUsable(interfaces[at[i]])
        /\ at[j] \in DOMAIN interfaces /\ IsUsable(interfaces[at[j]])
        /\ list[i].mac = interfaces[at[i]].mac /\ list[j].mac = interfaces[at[j]].mac
    <2> HIDE DEF list
    <2>1. ASSUME NEW k \in 1 .. Len(list)
          PROVE  /\ at[k] \in DOMAIN interfaces /\ IsUsable(interfaces[at[k]])
                 /\ list[k] = AsAdapter(interfaces[at[k]])
      BY <1>1, <1>2, <2>1 DEF TakesUsable, list
    <2>2. \A x : AsAdapter(x).mac = x.mac
      BY DEF AsAdapter
    <2> QED BY <2>1, <2>2
  <1>4. at[i] = at[j]
    BY <1>3 DEF DistinctMacs
  <1>5. /\ i < j => at[i] < at[j]
        /\ j < i => at[j] < at[i]
    BY <1>1 DEF TakesUsable
  <1>6. at[i] \in Nat /\ i \in Nat /\ j \in Nat
    BY <1>2, <1>3, SeqFacts
  <1> QED BY <1>4, <1>5, <1>6

LEMMA SteadyFollows ==
    ASSUME FetcherTypeOK, Steady
    PROVE  QuietWhenNothingChanges
  BY DistinctInterfaces DEF FetcherTypeOK, Steady, QuietWhenNothingChanges

LEMMA SteadyHolds == FetcherSpec => [](FetcherTypeOK /\ Steady)
  <1>1. ManagerSpec => [](ManagerTypeOK /\ Position)
    <2>1. ManagerTypeOK /\ Position /\ [ManagerNext]_managerVars => Position'
      BY PositionStep, ManagerSteps
    <2> QED BY <2>1, ManagerTypeCorrect, PositionInit, PTL DEF ManagerSpec
  <1>2. FetcherInit => Steady
    BY DEF FetcherInit, Steady
  <1>3. FetcherTypeOK /\ Position /\ ManagerIsCurrent' /\ ManagerTypeOK' /\ Steady
            /\ [FetcherNext]_fetchingVars => Steady'
    BY SteadyStep
  <1> QED BY <1>1, <1>2, <1>3, FetcherTypeCorrect, FetcherFeedsManager,
             ManagerKnowsInterfaces, PTL DEF FetcherSpec

(* A second update that finds the interfaces as the first did signals      *)
(* nothing, if no two share a MAC address.                                 *)
THEOREM QuietWhenSettled == FetcherSpec => []QuietWhenNothingChanges
  BY SteadyHolds, SteadyFollows, PTL

(* From the first update that read the interfaces as they are, and until   *)
(* they change, the manager knows each one that may be used, with its IPv4 *)
(* addresses, and no other, if no two share a MAC address: what            *)
(* ManagerFollows says will come about, holds from there on.               *)
KnowsInterfaces ==
    settled > 0 /\ DistinctMacs =>
        /\ \A n \in DOMAIN interfaces : IsUsable(interfaces[n]) => IsKnown(interfaces[n])
        /\ \A mac \in Known : \E n \in DOMAIN interfaces :
              interfaces[n].mac = mac /\ IsUsable(interfaces[n])

LEMMA SteadyKnows ==
    ASSUME FetcherTypeOK, Steady
    PROVE  KnowsInterfaces
  <1> DEFINE list == GetAdapters(interfaces)
  <1> SUFFICES ASSUME settled > 0, DistinctMacs
        PROVE  /\ \A n \in DOMAIN interfaces : IsUsable(interfaces[n]) => IsKnown(interfaces[n])
               /\ \A mac \in Known : \E n \in DOMAIN interfaces :
                     interfaces[n].mac = mac /\ IsUsable(interfaces[n])
    BY DEF KnowsInterfaces
  <1>1. interfaces \in Seq(Interfaces)
    BY DEF FetcherTypeOK
  <1>2. fetched = list /\ Agrees
    BY <1>1, DistinctInterfaces DEF Steady
  <1>3. PICK at : TakesUsable(at, interfaces)
    BY <1>1, GetAdaptersFacts
  <1>4. /\ Len(list) \in Nat /\ DOMAIN list = 1 .. Len(list)
        /\ DOMAIN interfaces = 1 .. Len(interfaces)
        /\ \A n \in DOMAIN interfaces : interfaces[n] \in Interfaces
    BY <1>1, GetAdaptersFacts, SeqFacts
  <1>5. /\ Known = Reported(list)
        /\ \A j \in DOMAIN list : SameButLoopback(m_adapters[list[j].mac], list[j].adapter)
    BY <1>2 DEF Agrees
  <1> HIDE DEF list
  <1>6. /\ \A j \in 1 .. Len(list) : /\ at[j] \in DOMAIN interfaces
                                     /\ list[j] = AsAdapter(interfaces[at[j]])
                                     /\ IsUsable(interfaces[at[j]])
        /\ \A n \in DOMAIN interfaces :
              IsUsable(interfaces[n]) => \E j \in 1 .. Len(list) : at[j] = n
    BY <1>3, <1>4 DEF TakesUsable, list
  <1>7. \A i : AsAdapter(i).mac = i.mac
    BY DEF AsAdapter
  <1>8. ASSUME NEW n \in DOMAIN interfaces, IsUsable(interfaces[n])
        PROVE  IsKnown(interfaces[n])
    <2>1. PICK j \in 1 .. Len(list) : at[j] = n
      BY <1>6, <1>8
    <2>2. list[j] = AsAdapter(interfaces[n]) /\ j \in DOMAIN list /\ list[j].mac = interfaces[n].mac
      BY <1>4, <1>6, <1>7, <2>1
    <2>3. interfaces[n].mac \in Known
      BY <1>5, <2>2 DEF Reported
    <2>4. SameButLoopback(m_adapters[interfaces[n].mac], list[j].adapter)
      BY <1>5, <2>2
    <2>5. \A i, a : SameButLoopback(a, AsAdapter(i).adapter) =>
             a.enabled = i.up /\ a.rest = i.rest /\ a.addresses = V4Addresses(i)
      BY DEF SameButLoopback, AsAdapter
    <2> QED BY <2>2, <2>3, <2>4, <2>5 DEF IsKnown
  <1>9. ASSUME NEW mac \in Known
        PROVE  \E n \in DOMAIN interfaces : interfaces[n].mac = mac /\ IsUsable(interfaces[n])
    <2>1. PICK j \in DOMAIN list : list[j].mac = mac
      BY <1>5 DEF Reported
    <2> QED BY <1>4, <1>6, <1>7, <2>1
  <1> QED BY <1>8, <1>9

(* The manager knows every usable interface, and no other adapter, once it *)
(* has seen the interfaces as they are: the safety part of ManagerFollows. *)
THEOREM KnowsWhatIsThere == FetcherSpec => []KnowsInterfaces
  BY SteadyHolds, SteadyKnows, PTL

-----------------------------------------------------------------------------
(* Sequences of records with a mac and an address: m_clients and           *)
(* m_adapter_init_list.                                                    *)
None(s, mac)   == \A i \in DOMAIN s : s[i].mac # mac
Single(s, mac) == \A i, j \in DOMAIN s : s[i].mac = mac /\ s[j].mac = mac => i = j
AllAt(s, mac, address) == \A i \in DOMAIN s : s[i].mac = mac => s[i].address = address

LEMMA AppendFacts ==
    ASSUME NEW S, NEW s \in Seq(S), NEW x \in S, NEW mac
    PROVE  /\ Append(s, x) \in Seq(S)
           /\ x.mac # mac => /\ None(s, mac) <=> None(Append(s, x), mac)
                             /\ Single(s, mac) => Single(Append(s, x), mac)
                             /\ \A a : AllAt(s, mac, a) => AllAt(Append(s, x), mac, a)
           /\ x.mac = mac => /\ ~None(Append(s, x), mac)
                             /\ None(s, mac) => /\ Single(Append(s, x), mac)
                                                /\ AllAt(Append(s, x), mac, x.address)
  <1> DEFINE t == Append(s, x)
  <1>1. /\ Len(s) \in Nat /\ DOMAIN s = 1 .. Len(s)
        /\ t \in Seq(S) /\ Len(t) = Len(s) + 1 /\ t[Len(s) + 1] = x
        /\ \A i \in 1 .. Len(s) : t[i] = s[i]
    BY SeqFacts
  <1>2. DOMAIN t = DOMAIN s \cup {Len(s) + 1} /\ Len(s) + 1 \notin DOMAIN s
    <2>1. DOMAIN t = 1 .. Len(s) + 1
      BY <1>1, SeqFacts
    <2> QED BY <1>1, <2>1
  <1> HIDE DEF t
  <1>3. \A i \in DOMAIN s : t[i] = s[i]
    BY <1>1
  <1>4. t[Len(s) + 1] = x /\ t \in Seq(S)
    BY <1>1
  <1>5. ASSUME x.mac # mac
        PROVE  /\ None(s, mac) <=> None(t, mac)
               /\ Single(s, mac) => Single(t, mac)
               /\ \A a : AllAt(s, mac, a) => AllAt(t, mac, a)
    BY <1>2, <1>3, <1>4, <1>5 DEF None, Single, AllAt
  <1>6. ASSUME x.mac = mac
        PROVE  /\ ~None(t, mac)
               /\ None(s, mac) => Single(t, mac) /\ AllAt(t, mac, x.address)
    BY <1>2, <1>3, <1>4, <1>6 DEF None, Single, AllAt
  <1> QED BY <1>4, <1>5, <1>6 DEF t

LEMMA RemoveAtFacts ==
    ASSUME NEW S, NEW s \in Seq(S), NEW k \in DOMAIN s
    PROVE  /\ RemoveAt(s, k) \in Seq(S) /\ Len(RemoveAt(s, k)) = Len(s) - 1
           /\ \A i \in 1 .. Len(s) - 1 : RemoveAt(s, k)[i] = s[IF i < k THEN i ELSE i + 1]
  <1> DEFINE a == SubSeq(s, 1, k - 1)
             b == SubSeq(s, k + 1, Len(s))
  <1>1. Len(s) \in Nat /\ k \in 1 .. Len(s)
    BY SeqFacts
  <1>2. a \in Seq(S) /\ Len(a) = k - 1 /\ \A i \in 1 .. k - 1 : a[i] = s[i]
    BY <1>1
  <1>3. b \in Seq(S) /\ Len(b) = Len(s) - k /\ \A i \in 1 .. Len(s) - k : b[i] = s[k + i]
    BY <1>1
  <1>4. RemoveAt(s, k) = a \o b
    BY DEF RemoveAt
  <1> HIDE DEF a, b
  <1>5. /\ a \o b \in Seq(S) /\ Len(a \o b) = Len(a) + Len(b)
        /\ \A i \in 1 .. Len(a) + Len(b) :
              (a \o b)[i] = IF i <= Len(a) THEN a[i] ELSE b[i - Len(a)]
    BY <1>2, <1>3, SMTT(60)
  <1>6. ASSUME NEW i \in 1 .. Len(s) - 1
        PROVE  (a \o b)[i] = s[IF i < k THEN i ELSE i + 1]
    <2>1. CASE i < k
      <3>1. i \in 1 .. k - 1 /\ i <= Len(a) /\ i \in 1 .. Len(a) + Len(b)
        BY <1>1, <1>2, <1>3, <2>1
      <3>2. (a \o b)[i] = a[i]
        BY <1>5, <3>1
      <3> QED BY <1>2, <2>1, <3>1, <3>2
    <2>2. CASE ~ (i < k)
      <3>1. PICK n \in Nat, la \in Nat, lb \in Nat :
               /\ n = Len(s) /\ la = Len(a) /\ lb = Len(b)
               /\ la = k - 1 /\ lb = n - k /\ k \in 1 .. n /\ i \in 1 .. n - 1
        BY <1>1, <1>2, <1>3
      <3>2. i \in Int /\ k \in Int /\ k <= i /\ 1 <= k /\ i <= n - 1
        BY <3>1, <2>2
      <3>3. i - (k - 1) \in 1 .. n - k
        BY <3>2
      <3>4. k + (i - (k - 1)) = i + 1
        BY <3>2
      <3>5. ~ (i <= la) /\ i \in 1 .. la + lb
        BY <3>1, <3>2
      <3>6. /\ i - (k - 1) \in 1 .. Len(s) - k /\ k + (i - (k - 1)) = i + 1
            /\ ~ (i <= Len(a)) /\ i \in 1 .. Len(a) + Len(b)
        BY <3>1, <3>3, <3>4, <3>5, Zenon
      <3>7. (a \o b)[i] = b[i - (k - 1)]
        BY <1>2, <1>5, <3>6
      <3> QED BY <1>3, <2>2, <3>6, <3>7
    <2> QED BY <2>1, <2>2
  <1>7. Len(a \o b) = Len(s) - 1 /\ a \o b \in Seq(S)
    BY <1>1, <1>2, <1>3, <1>5
  <1> QED BY <1>4, <1>6, <1>7, Zenon

LEMMA RemovedFacts ==
    ASSUME NEW S, NEW s \in Seq(S), NEW k \in DOMAIN s, NEW mac
    PROVE  /\ None(s, mac) => None(RemoveAt(s, k), mac)
           /\ Single(s, mac) => Single(RemoveAt(s, k), mac)
           /\ \A a : AllAt(s, mac, a) => AllAt(RemoveAt(s, k), mac, a)
           /\ s[k].mac # mac => (None(RemoveAt(s, k), mac) => None(s, mac))
           /\ s[k].mac = mac /\ Single(s, mac) => None(RemoveAt(s, k), mac)
  <1> DEFINE t == RemoveAt(s, k)
             at(i) == IF i < k THEN i ELSE i + 1
  <1>1. Len(s) \in Nat /\ DOMAIN s = 1 .. Len(s) /\ k \in 1 .. Len(s)
    BY SeqFacts
  <1>2. t \in Seq(S) /\ Len(t) = Len(s) - 1 /\ \A i \in 1 .. Len(s) - 1 : t[i] = s[at(i)]
    BY RemoveAtFacts
  <1>3. DOMAIN t = 1 .. Len(s) - 1
    BY <1>2, SeqFacts
  <1>4. \A i \in DOMAIN t : at(i) \in DOMAIN s /\ at(i) # k /\ t[i] = s[at(i)]
    BY <1>1, <1>2, <1>3
  <1>5. \A i, j \in DOMAIN t : at(i) = at(j) => i = j
    BY <1>1, <1>3
  <1>6. \A j \in DOMAIN s : j # k => \E i \in DOMAIN t : at(i) = j
    <2> SUFFICES ASSUME NEW j \in DOMAIN s, j # k
                 PROVE  \E i \in DOMAIN t : at(i) = j
      OBVIOUS
    <2>1. CASE j < k
      <3>1. j \in DOMAIN t /\ at(j) = j
        BY <1>1, <1>3, <2>1
      <3> QED BY <3>1
    <2>2. CASE j > k
      <3>1. j - 1 \in DOMAIN t /\ at(j - 1) = j
        BY <1>1, <1>3, <2>2
      <3> QED BY <3>1
    <2> QED BY <1>1, <2>1, <2>2
  <1> HIDE DEF t, at
  <1>7. /\ None(s, mac) => None(t, mac)
        /\ Single(s, mac) => Single(t, mac)
        /\ \A a : AllAt(s, mac, a) => AllAt(t, mac, a)
    BY <1>4, <1>5 DEF None, Single, AllAt
  <1>8. s[k].mac # mac => (None(t, mac) => None(s, mac))
    BY <1>4, <1>6 DEF None
  <1>9. s[k].mac = mac /\ Single(s, mac) => None(t, mac)
    BY <1>4 DEF None, Single
  <1> QED BY <1>7, <1>8, <1>9 DEF t

-----------------------------------------------------------------------------
(* From one list to the next, what is known of an adapter is kept.         *)
Kept(s, t, mac) ==
    /\ None(s, mac) <=> None(t, mac)
    /\ Single(s, mac) => Single(t, mac)
    /\ \A a : AllAt(s, mac, a) => AllAt(t, mac, a)

LEMMA KeptSame == ASSUME NEW s, NEW mac PROVE Kept(s, s, mac)
  BY DEF Kept

LEMMA EmptyIsNone ==
    ASSUME NEW mac
    PROVE  /\ ClientsOf(mac) = {} <=> None(m_clients, mac)
           /\ OpensOf(mac) = {} <=> None(m_adapter_init_list, mac)
  BY DEF ClientsOf, OpensOf, None

LEMMA RemoveClientFacts ==
    ASSUME m_clients \in Seq(Clients), NEW mac
    PROVE  /\ RemoveClient(mac) \in Seq(Clients)
           /\ \A n : n # mac => Kept(m_clients, RemoveClient(mac), n)
           /\ Single(m_clients, mac) => None(RemoveClient(mac), mac)
  <1>1. CASE ClientsOf(mac) = {}
    BY <1>1, KeptSame, EmptyIsNone DEF RemoveClient
  <1>2. CASE ClientsOf(mac) # {}
    <2>1. ClientsOf(mac) \subseteq Nat
      BY SeqFacts DEF ClientsOf
    <2>2. \E i \in ClientsOf(mac) : \A j \in ClientsOf(mac) : i <= j
      BY <1>2, <2>1, LeastNatural
    <2>3. FirstClient(mac) \in ClientsOf(mac)
      BY <2>2 DEF FirstClient
    <2>4. FirstClient(mac) \in DOMAIN m_clients /\ m_clients[FirstClient(mac)].mac = mac
      BY <2>3 DEF ClientsOf
    <2>5. RemoveClient(mac) = RemoveAt(m_clients, FirstClient(mac))
      BY <1>2 DEF RemoveClient
    <2>6. RemoveClient(mac) \in Seq(Clients)
      BY <2>4, <2>5, RemoveAtFacts
    <2>7. \A n : n # mac => Kept(m_clients, RemoveClient(mac), n)
      BY <2>4, <2>5, RemovedFacts DEF Kept
    <2>8. Single(m_clients, mac) => None(RemoveClient(mac), mac)
      BY <2>4, <2>5, RemovedFacts
    <2> QED BY <2>6, <2>7, <2>8
  <1> QED BY <1>1, <1>2

(* A future whose thread may still try has an attempt left.                *)
MayTry(opens) == \A i \in DOMAIN opens : opens[i].status = "opening" => opens[i].tries < MaxTries

LEMMA AddClientFacts ==
    ASSUME m_adapter_init_list \in Seq(Opens), MayTry(m_adapter_init_list),
           NEW mac \in Macs, NEW adapter \in Adapters
    PROVE  /\ AddClient(mac, adapter) \in Seq(Opens) /\ MayTry(AddClient(mac, adapter))
           /\ \A n : n # mac => Kept(m_adapter_init_list, AddClient(mac, adapter), n)
           /\ ~Active(adapter) => AddClient(mac, adapter) = m_adapter_init_list
           /\ Active(adapter) =>
                 /\ adapter.addresses # << >>
                 /\ ~None(AddClient(mac, adapter), mac)
                 /\ None(m_adapter_init_list, mac) =>
                       /\ Single(AddClient(mac, adapter), mac)
                       /\ AllAt(AddClient(mac, adapter), mac, Head(adapter.addresses))
  <1>1. CASE ~Active(adapter)
    BY <1>1, KeptSame DEF AddClient
  <1>2. CASE Active(adapter)
    <2> DEFINE x == [mac |-> mac, address |-> Head(adapter.addresses),
                     tries |-> 0, status |-> "opening"]
    <2>1. adapter.addresses # << >> /\ adapter.addresses \in Seq(Addresses)
      BY <1>2 DEF Active, Adapters
    <2>2. Head(adapter.addresses) \in Addresses
      BY <2>1
    <2>3. x \in Opens /\ x.mac = mac /\ x.address = Head(adapter.addresses) /\ x.tries < MaxTries
      BY <2>2, BoundsAssumption DEF Opens
    <2>4. AddClient(mac, adapter) = Append(m_adapter_init_list, x)
      BY <1>2 DEF AddClient
    <2> HIDE DEF x
    <2>5. \A n : n # mac => Kept(m_adapter_init_list, AddClient(mac, adapter), n)
      BY <2>3, <2>4, AppendFacts DEF Kept
    <2>6. /\ ~None(AddClient(mac, adapter), mac)
          /\ None(m_adapter_init_list, mac) =>
                /\ Single(AddClient(mac, adapter), mac)
                /\ AllAt(AddClient(mac, adapter), mac, Head(adapter.addresses))
      BY <2>3, <2>4, AppendFacts
    <2>7. AddClient(mac, adapter) \in Seq(Opens)
      BY <2>3, <2>4, AppendFacts
    <2>8. MayTry(AddClient(mac, adapter))
      <3>1. /\ Len(m_adapter_init_list) \in Nat
            /\ DOMAIN m_adapter_init_list = 1 .. Len(m_adapter_init_list)
            /\ Len(AddClient(mac, adapter)) = Len(m_adapter_init_list) + 1
            /\ AddClient(mac, adapter)[Len(m_adapter_init_list) + 1] = x
            /\ \A i \in 1 .. Len(m_adapter_init_list) :
                  AddClient(mac, adapter)[i] = m_adapter_init_list[i]
        BY <2>3, <2>4, SeqFacts
      <3>2. DOMAIN AddClient(mac, adapter) = 1 .. Len(m_adapter_init_list) + 1
        BY <2>7, <3>1, SeqFacts
      <3> QED BY <2>3, <3>1, <3>2 DEF MayTry
    <2> QED BY <1>2, <2>1, <2>5, <2>6, <2>7, <2>8
  <1> QED BY <1>1, <1>2

(* Collecting a future takes it from the list.                             *)
LEMMA CollectedFacts ==
    ASSUME m_adapter_init_list \in Seq(Opens), MayTry(m_adapter_init_list), AtFuture,
           m_adapter_init_list' = RemoveAt(m_adapter_init_list, cursor)
    PROVE  /\ m_adapter_init_list' \in Seq(Opens) /\ MayTry(m_adapter_init_list')
           /\ Future \in Opens /\ ~None(m_adapter_init_list, Future.mac)
           /\ \A n : AllAt(m_adapter_init_list, Future.mac, n) => Future.address = n
           /\ Single(m_adapter_init_list, Future.mac) => None(m_adapter_init_list', Future.mac)
           /\ \A n : n # Future.mac => Kept(m_adapter_init_list, m_adapter_init_list', n)
  <1>1. cursor \in DOMAIN m_adapter_init_list /\ Future = m_adapter_init_list[cursor]
    BY DEF AtFuture, Future
  <1>2. /\ DOMAIN m_adapter_init_list = 1 .. Len(m_adapter_init_list)
        /\ Len(m_adapter_init_list) \in Nat /\ Future \in Opens
    BY <1>1, SeqFacts
  <1>3. /\ m_adapter_init_list' \in Seq(Opens)
        /\ Len(m_adapter_init_list') = Len(m_adapter_init_list) - 1
        /\ \A i \in 1 .. Len(m_adapter_init_list) - 1 :
              m_adapter_init_list'[i] = m_adapter_init_list[IF i < cursor THEN i ELSE i + 1]
    BY <1>1, RemoveAtFacts
  <1>4. MayTry(m_adapter_init_list')
    <2>1. DOMAIN m_adapter_init_list' = 1 .. Len(m_adapter_init_list) - 1
      BY <1>3, SeqFacts
    <2>2. \A i \in 1 .. Len(m_adapter_init_list) - 1 :
             (IF i < cursor THEN i ELSE i + 1) \in DOMAIN m_adapter_init_list
      BY <1>2
    <2> QED BY <1>3, <2>1, <2>2 DEF MayTry
  <1>5. /\ ~None(m_adapter_init_list, Future.mac)
        /\ \A n : AllAt(m_adapter_init_list, Future.mac, n) => Future.address = n
    BY <1>1 DEF None, AllAt
  <1>6. Single(m_adapter_init_list, Future.mac) => None(m_adapter_init_list', Future.mac)
    BY <1>1, RemovedFacts
  <1>7. \A n : n # Future.mac => Kept(m_adapter_init_list, m_adapter_init_list', n)
    BY <1>1, RemovedFacts DEF Kept
  <1> QED BY <1>2, <1>3, <1>4, <1>5, <1>6, <1>7

(* An attempt of a thread changes the status of its future only.           *)
LEMMA ResolvedFacts ==
    ASSUME m_adapter_init_list \in Seq(Opens), MayTry(m_adapter_init_list),
           NEW i \in DOMAIN m_adapter_init_list, OpenAttempt(i)
    PROVE  /\ m_adapter_init_list' \in Seq(Opens) /\ MayTry(m_adapter_init_list')
           /\ \A n : Kept(m_adapter_init_list, m_adapter_init_list', n)
           /\ UNCHANGED <<m_clients, cursor, terminated, changes, raced, unserved, overlooked>>
           /\ UNCHANGED managerVars
  <1> DEFINE s == m_adapter_init_list
             t == m_adapter_init_list'
  <1>1. PICK status \in {"opening", "open", "failed", "threw"} :
           /\ Resolve(i, status)
           /\ status = "opening" => s[i].tries + 1 < MaxTries
    BY Zenon DEF OpenAttempt, OpenSucceeds, OpenFails, JoinThrows, AfterFailure
  <1>2. /\ s[i].status = "opening"
        /\ t = [s EXCEPT ![i].status = status, ![i].tries = @ + 1]
        /\ UNCHANGED <<m_clients, cursor, terminated, changes, raced, unserved, overlooked>>
        /\ UNCHANGED managerVars
    BY <1>1 DEF Resolve
  <1>3. /\ DOMAIN s = 1 .. Len(s) /\ Len(s) \in Nat /\ \A j \in DOMAIN s : s[j] \in Opens
    BY SeqFacts
  <1>4. s[i].tries \in Nat /\ s[i].tries < MaxTries /\ MaxTries \in Nat
    BY <1>2, <1>3, BoundsAssumption DEF Opens, MayTry
  <1>5. /\ DOMAIN t = DOMAIN s /\ \A j \in DOMAIN s : j # i => t[j] = s[j]
        /\ t[i] = [s[i] EXCEPT !.status = status, !.tries = @ + 1]
    BY <1>2, <1>3
  <1>6. /\ t[i] \in Opens /\ t[i].mac = s[i].mac /\ t[i].address = s[i].address
        /\ t[i].status = status /\ t[i].tries = s[i].tries + 1
    <2>1. s[i] \in Opens /\ s[i].tries + 1 \in 0 .. MaxTries
      BY <1>3, <1>4
    <2>2. ASSUME NEW r \in Opens, r.tries + 1 \in 0 .. MaxTries,
                 NEW u, u = [r EXCEPT !.status = status, !.tries = @ + 1]
          PROVE  /\ u \in Opens /\ u.mac = r.mac /\ u.address = r.address
                 /\ u.status = status /\ u.tries = r.tries + 1
      BY <2>2 DEF Opens
    <2> HIDE DEF s, t
    <2> QED BY <1>5, <2>1, <2>2
  <1>7. t \in Seq(Opens)
    <2>1. t = [j \in 1 .. Len(s) |-> t[j]]
      BY <1>2, <1>3
    <2>2. \A j \in 1 .. Len(s) : t[j] \in Opens
      BY <1>3, <1>5, <1>6
    <2> HIDE DEF s, t
    <2> QED BY <1>3, <2>1, <2>2
  <1>8. MayTry(t)
    BY <1>1, <1>5, <1>6 DEF MayTry
  <1>9. \A j \in DOMAIN s : t[j].mac = s[j].mac /\ t[j].address = s[j].address
    BY <1>5, <1>6
  <1>10. \A n : Kept(s, t, n)
    <2> HIDE DEF s, t
    <2> QED BY <1>5, <1>9 DEF Kept, None, Single, AllAt
  <1> QED BY <1>2, <1>7, <1>8, <1>10

-----------------------------------------------------------------------------
(* Types.                                                                  *)
TypesHold == TypeOK /\ MayTry(m_adapter_init_list)

LEMMA InManager == [Next]_vars => [ManagerNext]_managerVars
  <1> SUFFICES ASSUME [Next]_vars PROVE [ManagerNext]_managerVars
    OBVIOUS
  <1>1. CASE UpdateStep
    BY <1>1, Zenon DEF UpdateStep, BeginUpdate, AdapterAdded, AdapterChanged, AdapterUnchanged,
       AdapterRemoved, BeginCollect, CollectOpen, CollectFailed, CollectThrew, PassOpening,
       ManagerNext
  <1>2. CASE EndCollect
    BY <1>2 DEF EndCollect
  <1>3. CASE ThreadStep
    BY <1>3, Zenon DEF ThreadStep, OpenAttempt, OpenSucceeds, OpenFails, JoinThrows, Resolve
  <1>4. CASE UNCHANGED vars
    BY <1>4 DEF vars, managerVars
  <1> QED BY <1>1, <1>2, <1>3, <1>4 DEF Next, MainStep

LEMMA EntryFacts ==
    ASSUME ManagerTypeOK, Compares
    PROVE  Current.mac \in Macs /\ Current.adapter \in Adapters
  BY CurrentFacts

LEMMA AssignedFacts ==
    ASSUME IsAdapterMap(m_adapters), NEW mac \in Macs, NEW adapter \in Adapters,
           m_adapters' = With(mac, adapter)
    PROVE  /\ Known' = Known \cup {mac} /\ m_adapters'[mac] = adapter
           /\ \A n \in Known : n # mac => m_adapters'[n] = m_adapters[n]
  <1>1. /\ DOMAIN With(mac, adapter) = Known \cup {mac}
        /\ \A n \in Known \cup {mac} :
              With(mac, adapter)[n] = IF n = mac THEN adapter ELSE m_adapters[n]
    BY MapFacts
  <1> QED BY <1>1 DEF Known

LEMMA TypesStep ==
    ASSUME TypesHold, [Next]_vars
    PROVE  TypesHold'
  <1> USE DEF TypesHold
  <1>1. ManagerTypeOK'
    BY InManager, ManagerSteps, ManagerTypeStep DEF TypeOK
  <1>2. /\ ManagerTypeOK /\ m_clients \in Seq(Clients) /\ m_adapter_init_list \in Seq(Opens)
        /\ MayTry(m_adapter_init_list)
        /\ cursor \in Nat /\ terminated \in BOOLEAN /\ changes \in Nat /\ changes <= MaxChanges
        /\ MaxChanges \in Nat
        /\ raced \subseteq Macs /\ unserved \subseteq Macs /\ overlooked \subseteq Macs
    BY BoundsAssumption DEF TypeOK
  <1> DEFINE Rest1 == /\ cursor' \in Nat /\ terminated' \in BOOLEAN /\ changes' \in 0 .. MaxChanges
                      /\ raced' \subseteq Macs /\ unserved' \subseteq Macs
                      /\ overlooked' \subseteq Macs
             Lists == /\ m_clients' \in Seq(Clients) /\ m_adapter_init_list' \in Seq(Opens)
                      /\ MayTry(m_adapter_init_list')
  <1>3. SUFFICES Rest1 /\ Lists
    BY <1>1, <1>3 DEF TypeOK
  <1>4. ASSUME NEW list \in Fetches, BeginUpdate(list) PROVE Rest1 /\ Lists
    <2>1. changes' = changes \/ changes' = changes + 1
      BY <1>4 DEF BeginUpdate
    <2>2. changes' <= MaxChanges
      BY <1>4 DEF BeginUpdate
    <2> QED BY <1>2, <1>4, <2>1, <2>2 DEF BeginUpdate
  <1>5. CASE AdapterAdded
    <2>1. Current.mac \in Macs /\ Current.adapter \in Adapters
      BY <1>2, <1>5, EntryFacts DEF AdapterAdded, Compares
    <2>2. Lists
      BY <1>2, <1>5, <2>1, AddClientFacts DEF AdapterAdded
    <2> QED BY <1>2, <1>5, <2>2 DEF AdapterAdded
  <1>6. CASE AdapterChanged
    <2>1. Current.mac \in Macs /\ Current.adapter \in Adapters
      BY <1>2, <1>6, EntryFacts DEF AdapterChanged, Compares
    <2>2. /\ m_clients' = m_clients \/ m_clients' = RemoveClient(Current.mac)
          /\ \/ m_adapter_init_list' = m_adapter_init_list
             \/ m_adapter_init_list' = AddClient(Current.mac, Current.adapter)
      BY <1>6, Zenon DEF AdapterChanged
    <2>3. Lists
      BY <1>2, <2>1, <2>2, AddClientFacts, RemoveClientFacts
    <2>4. /\ raced' = raced \/ raced' = raced \cup {Current.mac}
          /\ overlooked' = overlooked \/ overlooked' = overlooked \cup {Current.mac}
          /\ cursor' = cursor /\ terminated' = terminated /\ changes' = changes
          /\ unserved' = unserved
      BY <1>6, Zenon DEF AdapterChanged
    <2> QED BY <1>2, <2>1, <2>3, <2>4
  <1>7. CASE AdapterUnchanged
    BY <1>2, <1>7 DEF AdapterUnchanged, handlerVars
  <1>8. ASSUME NEW mac \in Macs, AdapterRemoved(mac) PROVE Rest1 /\ Lists
    <2>1. Lists
      BY <1>2, <1>8, RemoveClientFacts DEF AdapterRemoved
    <2> QED BY <1>2, <1>8, <2>1 DEF AdapterRemoved
  <1>9. CASE BeginCollect
    BY <1>2, <1>9 DEF BeginCollect
  <1>10. CASE CollectOpen
    <2>1. /\ AtFuture /\ m_adapter_init_list' = RemoveAt(m_adapter_init_list, cursor)
          /\ m_clients' = Append(m_clients, [mac |-> Future.mac, address |-> Future.address])
          /\ UNCHANGED <<cursor, terminated, changes, raced, unserved, overlooked>>
      BY <1>10 DEF CollectOpen
    <2>2. /\ m_adapter_init_list' \in Seq(Opens) /\ MayTry(m_adapter_init_list')
          /\ Future \in Opens
      BY <1>2, <2>1, CollectedFacts
    <2>3. [mac |-> Future.mac, address |-> Future.address] \in Clients
      BY <2>2 DEF Opens, Clients
    <2>4. m_clients' \in Seq(Clients)
      BY <1>2, <2>1, <2>3, AppendFacts
    <2> QED BY <1>2, <2>1, <2>2, <2>4
  <1>11. CASE CollectFailed
    <2>1. /\ AtFuture /\ m_adapter_init_list' = RemoveAt(m_adapter_init_list, cursor)
          /\ unserved' = unserved \cup {Future.mac}
          /\ UNCHANGED <<m_clients, cursor, terminated, changes, raced, overlooked>>
      BY <1>11 DEF CollectFailed
    <2>2. /\ m_adapter_init_list' \in Seq(Opens) /\ MayTry(m_adapter_init_list')
          /\ Future \in Opens
      BY <1>2, <2>1, CollectedFacts
    <2>3. Future.mac \in Macs
      BY <2>2 DEF Opens
    <2> QED BY <1>2, <2>1, <2>2, <2>3
  <1>12. CASE CollectThrew \/ PassOpening \/ EndCollect
    <2>1. UNCHANGED <<m_clients, m_adapter_init_list, changes, raced, unserved, overlooked>>
      BY <1>12, Zenon DEF CollectThrew, PassOpening, EndCollect
    <2>2. Lists
      BY <1>2, <2>1
    <2>3. terminated' \in BOOLEAN
      BY <1>2, <1>12, Zenon DEF CollectThrew, PassOpening, EndCollect
    <2>4. cursor' \in Nat
      BY <1>2, <1>12 DEF CollectThrew, PassOpening, EndCollect
    <2> QED BY <1>2, <2>1, <2>2, <2>3, <2>4
  <1>13. CASE ThreadStep
    <2>1. PICK i \in DOMAIN m_adapter_init_list : OpenAttempt(i)
      BY <1>13 DEF ThreadStep
    <2> QED BY <1>2, <2>1, ResolvedFacts
  <1>14. CASE UNCHANGED vars
    <2>1. /\ UNCHANGED <<m_clients, m_adapter_init_list>>
          /\ UNCHANGED <<cursor, terminated, changes, raced, unserved, overlooked>>
      BY <1>14 DEF vars
    <2>2. Lists
      BY <1>2, <2>1
    <2>3. terminated' \in BOOLEAN
      BY <1>2, <2>1, Zenon
    <2>4. changes' \in 0 .. MaxChanges /\ cursor' \in Nat
      BY <1>2, <2>1
    <2>5. raced' \subseteq Macs /\ unserved' \subseteq Macs /\ overlooked' \subseteq Macs
      BY <1>2, <2>1
    <2> QED BY <2>2, <2>3, <2>4, <2>5
  <1> HIDE DEF Rest1, Lists
  <1> QED BY <1>4, <1>5, <1>6, <1>7, <1>8, <1>9, <1>10, <1>11, <1>12, <1>13, <1>14, Zenon
          DEF Next, MainStep, UpdateStep

LEMMA TypesInit == Init => TypesHold
  <1> SUFFICES ASSUME Init PROVE TypesHold
    OBVIOUS
  <1>1. ManagerTypeOK
    BY ManagerTypeInit DEF Init
  <1>2. << >> \in Seq(Clients) /\ << >> \in Seq(Opens)
    OBVIOUS
  <1>3. m_clients \in Seq(Clients) /\ m_adapter_init_list \in Seq(Opens)
    BY <1>2 DEF Init
  <1>4. MayTry(m_adapter_init_list)
    BY DEF Init, MayTry
  <1>5. /\ cursor \in Nat /\ terminated \in BOOLEAN /\ changes \in 0 .. MaxChanges
        /\ raced \subseteq Macs /\ unserved \subseteq Macs /\ overlooked \subseteq Macs
    <2>1. terminated \in BOOLEAN
      BY Zenon DEF Init
    <2> QED BY <2>1, BoundsAssumption DEF Init
  <1> QED BY <1>1, <1>3, <1>4, <1>5 DEF TypesHold, TypeOK

(* The handler's state keeps its type, and no thread tries more often than *)
(* it may.                                                                 *)
THEOREM HandlerTypeCorrect == Spec => []TypeOK
  <1>1. TypesHold /\ [Next]_vars => TypesHold'
    BY TypesStep
  <1>2. TypesHold => TypeOK
    BY DEF TypesHold
  <1> QED BY <1>1, <1>2, TypesInit, PTL DEF Spec

(* The handlers leave adapter_manager as it is on its own: whatever they   *)
(* and their threads do, its state takes the steps of ManagerSpec.         *)
THEOREM ManagerIsLeftAlone == Spec => ManagerSpec
  <1>1. Init => ManagerInit
    BY DEF Init
  <1> QED BY <1>1, InManager, PTL DEF Spec, ManagerSpec

-----------------------------------------------------------------------------
(* An adapter that did not change while its client was opened has one      *)
(* client, or one to come, or none; if it has one, it is known and that    *)
(* client is on its first address.                                         *)
Matches(mac) ==
    /\ Single(m_clients, mac) /\ Single(m_adapter_init_list, mac)
    /\ None(m_clients, mac) \/ None(m_adapter_init_list, mac)
    /\ ~None(m_clients, mac) \/ ~None(m_adapter_init_list, mac) =>
          /\ mac \in Known /\ m_adapters[mac].addresses # << >>
          /\ AllAt(m_clients, mac, Head(m_adapters[mac].addresses))
          /\ AllAt(m_adapter_init_list, mac, Head(m_adapters[mac].addresses))

AllMatch == \A mac \in Macs \ raced : Matches(mac)

LEMMA MatchesKept ==
    ASSUME NEW mac, Matches(mac),
           Kept(m_clients, m_clients', mac),
           Kept(m_adapter_init_list, m_adapter_init_list', mac),
           mac \in Known => mac \in Known' /\ m_adapters'[mac].addresses = m_adapters[mac].addresses
    PROVE  Matches(mac)'
  BY DEF Matches, Kept

(* An adapter without any matches, whatever it is.                         *)
LEMMA MatchesNone ==
    ASSUME NEW mac, None(m_clients', mac), None(m_adapter_init_list', mac)
    PROVE  Matches(mac)'
  BY DEF Matches, None, Single

(* An adapter that is new, or was replaced, has the one that was started.  *)
LEMMA MatchesStarted ==
    ASSUME m_adapter_init_list \in Seq(Opens), MayTry(m_adapter_init_list),
           NEW mac \in Macs, NEW adapter \in Adapters,
           None(m_clients', mac), None(m_adapter_init_list, mac),
           m_adapter_init_list' = AddClient(mac, adapter),
           mac \in Known', m_adapters'[mac] = adapter
    PROVE  Matches(mac)'
  <1>1. CASE ~Active(adapter)
    BY <1>1, AddClientFacts, MatchesNone
  <1>2. CASE Active(adapter)
    <2>1. /\ adapter.addresses # << >>
          /\ Single(m_adapter_init_list', mac)
          /\ AllAt(m_adapter_init_list', mac, Head(adapter.addresses))
      BY <1>2, AddClientFacts
    <2>2. /\ Single(m_clients', mac) /\ AllAt(m_clients', mac, Head(adapter.addresses))
      BY DEF None, Single, AllAt
    <2> QED BY <2>1, <2>2 DEF Matches
  <1> QED BY <1>1, <1>2

LEMMA MatchStep ==
    ASSUME TypesHold, AllMatch, [Next]_vars
    PROVE  AllMatch'
  <1>1. /\ ManagerTypeOK /\ m_clients \in Seq(Clients) /\ m_adapter_init_list \in Seq(Opens)
        /\ MayTry(m_adapter_init_list) /\ IsAdapterMap(m_adapters)
    BY DEF TypesHold, TypeOK, ManagerTypeOK
  <1> SUFFICES ASSUME NEW mac \in Macs, mac \notin raced' PROVE Matches(mac)'
    BY DEF AllMatch
  <1>2. raced \subseteq raced'
    <2>1. CASE MainStep \/ UNCHANGED vars
      BY <2>1 DEF MainStep, UpdateStep, BeginUpdate, AdapterAdded, AdapterChanged,
         AdapterUnchanged, AdapterRemoved, BeginCollect, CollectOpen, CollectFailed,
         CollectThrew, PassOpening, EndCollect, handlerVars, vars
    <2>2. CASE ThreadStep
      BY <1>1, <2>2, ResolvedFacts DEF ThreadStep
    <2> QED BY <2>1, <2>2 DEF Next
  <1>3. Matches(mac)
    BY <1>2 DEF AllMatch
  <1> DEFINE Same == m_clients' = m_clients /\ m_adapter_init_list' = m_adapter_init_list
                     /\ m_adapters' = m_adapters
  <1>4. Same => Matches(mac)'
    BY <1>3 DEF Matches, Known
  <1>5. CASE AdapterAdded
    <2>1. /\ Compares /\ Current.mac \notin Known
          /\ m_clients' = m_clients
          /\ m_adapter_init_list' = AddClient(Current.mac, Current.adapter)
          /\ m_adapters' = With(Current.mac, Current.adapter)
      BY <1>5, Zenon DEF AdapterAdded, DetectNew, Compares
    <2>2. Current.mac \in Macs /\ Current.adapter \in Adapters
      BY <1>1, <2>1, EntryFacts
    <2>3. /\ Known' = Known \cup {Current.mac} /\ m_adapters'[Current.mac] = Current.adapter
          /\ \A n \in Known : n # Current.mac => m_adapters'[n] = m_adapters[n]
      BY <1>1, <2>1, <2>2, AssignedFacts
    <2>4. CASE mac = Current.mac
      <3>1. None(m_clients, mac) /\ None(m_adapter_init_list, mac)
        BY <1>3, <2>1, <2>4 DEF Matches
      <3> QED BY <1>1, <2>1, <2>2, <2>3, <2>4, <3>1, MatchesStarted
    <2>5. CASE mac # Current.mac
      <3>1. /\ Kept(m_clients, m_clients', mac)
            /\ Kept(m_adapter_init_list, m_adapter_init_list', mac)
        BY <1>1, <2>1, <2>2, <2>5, KeptSame, AddClientFacts
      <3> QED BY <1>3, <2>3, <2>5, <3>1, MatchesKept
    <2> QED BY <2>4, <2>5
  <1>6. CASE AdapterChanged
    <2>1. Compares /\ Current.mac \in Known /\ m_adapters' = With(Current.mac, Current.adapter)
      BY <1>6, Zenon DEF AdapterChanged, DetectChange, Compares
    <2>2. Current.mac \in Macs /\ Current.adapter \in Adapters
      BY <1>1, <2>1, EntryFacts
    <2>3. /\ Known' = Known \cup {Current.mac} /\ m_adapters'[Current.mac] = Current.adapter
          /\ \A n \in Known : n # Current.mac => m_adapters'[n] = m_adapters[n]
      BY <1>1, <2>1, <2>2, AssignedFacts
    <2>4. IF Replaces(Current.mac)
          THEN /\ m_clients' = RemoveClient(Current.mac)
               /\ m_adapter_init_list' = AddClient(Current.mac, Current.adapter)
          ELSE UNCHANGED <<m_clients, m_adapter_init_list>>
      BY <1>6, Zenon DEF AdapterChanged
    <2>5. OpensOf(Current.mac) # {} /\ Moved => Current.mac \in raced'
      BY <1>6 DEF AdapterChanged
    <2>6. CASE mac # Current.mac
      <3>1. /\ Kept(m_clients, m_clients', mac)
            /\ Kept(m_adapter_init_list, m_adapter_init_list', mac)
        BY <1>1, <2>2, <2>4, <2>6, KeptSame, AddClientFacts, RemoveClientFacts
      <3> QED BY <1>3, <2>3, <2>6, <3>1, MatchesKept
    <2>7. CASE mac = Current.mac /\ Replaces(mac)
      <3>1. ~None(m_clients, mac)
        BY <2>7, EmptyIsNone DEF Replaces
      <3>2. None(m_adapter_init_list, mac) /\ Single(m_clients, mac)
        BY <1>3, <3>1 DEF Matches
      <3>3. None(m_clients', mac)
        BY <1>1, <2>4, <2>7, <3>2, RemoveClientFacts
      <3> QED BY <1>1, <2>2, <2>3, <2>4, <2>7, <3>2, <3>3, MatchesStarted
    <2>8. CASE mac = Current.mac /\ ~Replaces(mac)
      <3>1. m_clients' = m_clients /\ m_adapter_init_list' = m_adapter_init_list
        BY <2>4, <2>8
      <3>2. CASE Moved
        BY <2>5, <2>8, <3>1, <3>2, EmptyIsNone, MatchesNone DEF Replaces
      <3>3. CASE ~Moved
        BY <1>3, <2>3, <2>8, <3>1, <3>3, KeptSame, MatchesKept DEF Moved, Previous
      <3> QED BY <3>2, <3>3
    <2> QED BY <2>6, <2>7, <2>8
  <1>7. ASSUME NEW n \in Macs, AdapterRemoved(n) PROVE Matches(mac)'
    <2>1. /\ m_clients' = RemoveClient(n) /\ m_adapter_init_list' = m_adapter_init_list
          /\ OpensOf(n) # {} => n \in raced'
          /\ m_adapters' = Without(n)
      BY <1>7 DEF AdapterRemoved, DetectRemoved
    <2>2. \A k \in Known : k # n => k \in Known' /\ m_adapters'[k] = m_adapters[k]
      BY <2>1 DEF Without, Known
    <2>3. CASE mac = n
      <3>1. None(m_adapter_init_list, mac) /\ Single(m_clients, mac)
        BY <1>3, <2>1, <2>3, EmptyIsNone DEF Matches
      <3> QED BY <1>1, <2>1, <2>3, <3>1, RemoveClientFacts, MatchesNone
    <2>4. CASE mac # n
      <3>1. /\ Kept(m_clients, m_clients', mac)
            /\ Kept(m_adapter_init_list, m_adapter_init_list', mac)
        BY <1>1, <2>1, <2>4, KeptSame, RemoveClientFacts
      <3> QED BY <1>3, <2>2, <2>4, <3>1, MatchesKept
    <2> QED BY <2>3, <2>4
  <1>8. CASE CollectOpen
    <2> DEFINE x == [mac |-> Future.mac, address |-> Future.address]
    <2>1. /\ AtFuture /\ m_adapter_init_list' = RemoveAt(m_adapter_init_list, cursor)
          /\ m_clients' = Append(m_clients, x) /\ m_adapters' = m_adapters
      BY <1>8 DEF CollectOpen, managerVars
    <2>2. /\ Future \in Opens /\ ~None(m_adapter_init_list, Future.mac)
          /\ \A a : AllAt(m_adapter_init_list, Future.mac, a) => Future.address = a
          /\ Single(m_adapter_init_list, Future.mac) => None(m_adapter_init_list', Future.mac)
          /\ \A n : n # Future.mac => Kept(m_adapter_init_list, m_adapter_init_list', n)
      BY <1>1, <2>1, CollectedFacts
    <2>3. x \in Clients /\ x.mac = Future.mac /\ x.address = Future.address
      BY <2>2 DEF Opens, Clients
    <2> HIDE DEF x
    <2>4. CASE mac = Future.mac
      <3>1. /\ None(m_clients, mac) /\ None(m_adapter_init_list', mac)
            /\ mac \in Known /\ m_adapters[mac].addresses # << >>
            /\ Future.address = Head(m_adapters[mac].addresses)
        BY <1>3, <2>2, <2>4 DEF Matches
      <3>2. /\ Single(m_clients', mac)
            /\ AllAt(m_clients', mac, Head(m_adapters[mac].addresses))
        BY <1>1, <2>1, <2>3, <2>4, <3>1, AppendFacts
      <3>3. /\ Single(m_adapter_init_list', mac)
            /\ AllAt(m_adapter_init_list', mac, Head(m_adapters[mac].addresses))
        BY <3>1 DEF None, Single, AllAt
      <3> QED BY <2>1, <3>1, <3>2, <3>3 DEF Matches, Known
    <2>5. CASE mac # Future.mac
      <3>1. Kept(m_clients, m_clients', mac)
        BY <1>1, <2>1, <2>3, <2>5, AppendFacts DEF Kept
      <3> QED BY <1>3, <2>1, <2>2, <2>5, <3>1, MatchesKept DEF Known
    <2> QED BY <2>4, <2>5
  <1>9. CASE CollectFailed
    <2>1. /\ AtFuture /\ m_adapter_init_list' = RemoveAt(m_adapter_init_list, cursor)
          /\ m_clients' = m_clients /\ m_adapters' = m_adapters
      BY <1>9 DEF CollectFailed, managerVars
    <2>2. /\ ~None(m_adapter_init_list, Future.mac)
          /\ Single(m_adapter_init_list, Future.mac) => None(m_adapter_init_list', Future.mac)
          /\ \A n : n # Future.mac => Kept(m_adapter_init_list, m_adapter_init_list', n)
      BY <1>1, <2>1, CollectedFacts
    <2>3. CASE mac = Future.mac
      <3>1. None(m_clients, mac) /\ None(m_adapter_init_list', mac)
        BY <1>3, <2>2, <2>3 DEF Matches
      <3> QED BY <2>1, <3>1, MatchesNone
    <2>4. CASE mac # Future.mac
      BY <1>3, <2>1, <2>2, <2>4, KeptSame, MatchesKept DEF Known
    <2> QED BY <2>3, <2>4
  <1>10. CASE ThreadStep
    <2>1. /\ m_clients' = m_clients /\ m_adapters' = m_adapters
          /\ Kept(m_adapter_init_list, m_adapter_init_list', mac)
      BY <1>1, <1>10, ResolvedFacts DEF ThreadStep, managerVars
    <2> QED BY <1>3, <2>1, KeptSame, MatchesKept DEF Known
  <1>11. ASSUME NEW list \in Fetches, BeginUpdate(list) PROVE Same
    BY <1>11 DEF BeginUpdate, Fetch
  <1>12. CASE AdapterUnchanged \/ BeginCollect \/ CollectThrew \/ PassOpening \/ EndCollect
              \/ UNCHANGED vars
    <2>1. Same
      BY <1>12 DEF AdapterUnchanged, DetectSame, BeginCollect, EndUpdate, CollectThrew,
         PassOpening, EndCollect, handlerVars, managerVars, vars
    <2> QED BY <1>4, <2>1
  <1> HIDE DEF Same
  <1> QED BY <1>4, <1>5, <1>6, <1>7, <1>8, <1>9, <1>10, <1>11, <1>12, Zenon
          DEF Next, MainStep, UpdateStep

LEMMA MatchInit == Init => AllMatch
  BY DEF Init, AllMatch, Matches, None, Single

(* The statement of the run, in terms of cardinalities.                    *)
LEMMA AtMostOne ==
    ASSUME NEW s, NEW mac, Single(s, mac)
    PROVE  LET own == {i \in DOMAIN s : s[i].mac = mac} IN
           Cardinality(own) = IF None(s, mac) THEN 0 ELSE 1
  <1> DEFINE own == {i \in DOMAIN s : s[i].mac = mac}
  <1>1. CASE None(s, mac)
    <2>1. own = {}
      BY <1>1 DEF None
    <2> QED BY <1>1, <2>1, FS_EmptySet
  <1>2. CASE ~None(s, mac)
    <2>1. PICK i \in DOMAIN s : s[i].mac = mac
      BY <1>2 DEF None
    <2>2. own = {i}
      BY <2>1 DEF Single
    <2>3. Cardinality({i}) = 1
      BY FS_Singleton
    <2> QED BY <1>2, <2>2, <2>3
  <1> QED BY <1>1, <1>2

LEMMA MatchFollows ==
    ASSUME AllMatch
    PROVE  ClientsMatchAdapters
  <1> SUFFICES ASSUME NEW mac \in Macs \ raced
        PROVE
          /\ Cardinality(ClientsOf(mac)) + Cardinality(OpensOf(mac)) <= 1
          /\ \A address \in {m_clients[i].address : i \in ClientsOf(mac)} \cup
                            {m_adapter_init_list[i].address : i \in OpensOf(mac)} :
                /\ mac \in Known
                /\ m_adapters[mac].addresses # << >>
                /\ address = Head(m_adapters[mac].addresses)
    BY DEF ClientsMatchAdapters
  <1>1. Matches(mac)
    BY DEF AllMatch
  <1>2. /\ Cardinality(ClientsOf(mac)) = IF None(m_clients, mac) THEN 0 ELSE 1
        /\ Cardinality(OpensOf(mac)) = IF None(m_adapter_init_list, mac) THEN 0 ELSE 1
    BY <1>1, AtMostOne DEF Matches, ClientsOf, OpensOf
  <1>3. Cardinality(ClientsOf(mac)) + Cardinality(OpensOf(mac)) <= 1
    BY <1>1, <1>2 DEF Matches
  <1>4. ASSUME NEW address \in {m_clients[i].address : i \in ClientsOf(mac)} \cup
                               {m_adapter_init_list[i].address : i \in OpensOf(mac)}
        PROVE  /\ mac \in Known /\ m_adapters[mac].addresses # << >>
               /\ address = Head(m_adapters[mac].addresses)
    <2>1. CASE address \in {m_clients[i].address : i \in ClientsOf(mac)}
      <3>1. PICK i \in DOMAIN m_clients : m_clients[i].mac = mac /\ address = m_clients[i].address
        BY <2>1 DEF ClientsOf
      <3> QED BY <1>1, <3>1 DEF Matches, None, AllAt
    <2>2. CASE address \in {m_adapter_init_list[i].address : i \in OpensOf(mac)}
      <3>1. PICK i \in DOMAIN m_adapter_init_list :
               m_adapter_init_list[i].mac = mac /\ address = m_adapter_init_list[i].address
        BY <2>2 DEF OpensOf
      <3> QED BY <1>1, <3>1 DEF Matches, None, AllAt
    <2> QED BY <2>1, <2>2
  <1> QED BY <1>3, <1>4

(* An adapter that was neither removed nor moved while its client was      *)
(* being opened has at most one client, listed or to come, and that one is *)
(* on its present first address, whatever the threads do and however the   *)
(* list of adapters changes.                                               *)
THEOREM ClientsFollowAdapters == Spec => []ClientsMatchAdapters
  <1>1. TypesHold /\ AllMatch /\ [Next]_vars => TypesHold' /\ AllMatch'
    BY TypesStep, MatchStep
  <1> QED BY <1>1, TypesInit, MatchInit, MatchFollows, PTL DEF Spec

-----------------------------------------------------------------------------
(* That an adapter fit for a client has one is inductive with the types.   *)
Served(mac) == Active(m_adapters[mac]) => ~None(m_clients, mac) \/ ~None(m_adapter_init_list, mac)

AllServed == \A mac \in Known \ (raced \cup unserved \cup overlooked) : Served(mac)

LEMMA ServedKept ==
    ASSUME NEW mac, mac \in Known => Served(mac),
           None(m_clients', mac) => None(m_clients, mac),
           None(m_adapter_init_list', mac) => None(m_adapter_init_list, mac),
           mac \in Known /\ m_adapters'[mac] = m_adapters[mac]
    PROVE  Served(mac)'
  BY DEF Served, Active

LEMMA ServedStep ==
    ASSUME TypesHold, AllMatch, AllServed, [Next]_vars
    PROVE  AllServed'
  <1>1. /\ ManagerTypeOK /\ m_clients \in Seq(Clients) /\ m_adapter_init_list \in Seq(Opens)
        /\ MayTry(m_adapter_init_list) /\ IsAdapterMap(m_adapters)
    BY DEF TypesHold, TypeOK, ManagerTypeOK
  <1> DEFINE Excused == raced \cup unserved \cup overlooked
  <1> SUFFICES ASSUME NEW mac \in Known', mac \notin Excused' PROVE Served(mac)'
    BY DEF AllServed
  <1>2. mac \in Known \ Excused => Served(mac)
    BY DEF AllServed
  <1> DEFINE Same == /\ m_clients' = m_clients /\ m_adapter_init_list' = m_adapter_init_list
                     /\ m_adapters' = m_adapters /\ Excused' = Excused
  <1>3. Same => Served(mac)'
    BY <1>2 DEF Served, Known, Active
  <1>4. CASE AdapterAdded
    <2>1. /\ Compares /\ m_clients' = m_clients /\ Excused' = Excused
          /\ m_adapter_init_list' = AddClient(Current.mac, Current.adapter)
          /\ m_adapters' = With(Current.mac, Current.adapter)
      BY <1>4, Zenon DEF AdapterAdded, DetectNew, Compares
    <2>2. Current.mac \in Macs /\ Current.adapter \in Adapters
      BY <1>1, <2>1, EntryFacts
    <2>3. /\ Known' = Known \cup {Current.mac} /\ m_adapters'[Current.mac] = Current.adapter
          /\ \A n \in Known : n # Current.mac => m_adapters'[n] = m_adapters[n]
      BY <1>1, <2>1, <2>2, AssignedFacts
    <2>4. CASE mac = Current.mac
      BY <1>1, <2>1, <2>2, <2>3, <2>4, AddClientFacts DEF Served
    <2>5. CASE mac # Current.mac
      <3>1. Kept(m_adapter_init_list, m_adapter_init_list', mac)
        BY <1>1, <2>1, <2>2, <2>5, AddClientFacts
      <3> QED BY <1>2, <2>1, <2>3, <2>5, <3>1, ServedKept DEF Kept
    <2> QED BY <2>4, <2>5
  <1>5. CASE AdapterChanged
    <2>1. Compares /\ Current.mac \in Known /\ m_adapters' = With(Current.mac, Current.adapter)
      BY <1>5, Zenon DEF AdapterChanged, DetectChange, Compares
    <2>2. Current.mac \in Macs /\ Current.adapter \in Adapters
      BY <1>1, <2>1, EntryFacts
    <2>3. /\ Known' = Known \cup {Current.mac} /\ m_adapters'[Current.mac] = Current.adapter
          /\ \A n \in Known : n # Current.mac => m_adapters'[n] = m_adapters[n]
      BY <1>1, <2>1, <2>2, AssignedFacts
    <2>4. IF Replaces(Current.mac)
          THEN /\ m_clients' = RemoveClient(Current.mac)
               /\ m_adapter_init_list' = AddClient(Current.mac, Current.adapter)
          ELSE UNCHANGED <<m_clients, m_adapter_init_list>>
      BY <1>5, Zenon DEF AdapterChanged
    <2>5. /\ ~Active(Previous) /\ Active(Current.adapter)
          /\ ClientsOf(Current.mac) = {} /\ OpensOf(Current.mac) = {}
          => Current.mac \in overlooked'
      BY <1>5 DEF AdapterChanged
    <2>6. mac \notin Excused
      BY <1>5 DEF AdapterChanged
    <2>7. CASE mac # Current.mac
      <3>1. /\ Kept(m_clients, m_clients', mac)
            /\ Kept(m_adapter_init_list, m_adapter_init_list', mac)
        BY <1>1, <2>2, <2>4, <2>7, KeptSame, AddClientFacts, RemoveClientFacts
      <3> QED BY <1>2, <2>3, <2>6, <2>7, <3>1, ServedKept DEF Kept
    <2>8. CASE mac = Current.mac /\ Replaces(mac)
      BY <1>1, <2>2, <2>3, <2>4, <2>8, AddClientFacts DEF Served
    <2>9. CASE mac = Current.mac /\ ~Replaces(mac)
      <3>1. m_clients' = m_clients /\ m_adapter_init_list' = m_adapter_init_list
        BY <2>4, <2>9
      <3>2. SUFFICES ASSUME Active(Current.adapter), None(m_clients, mac),
                            None(m_adapter_init_list, mac)
                     PROVE  FALSE
        BY <2>3, <2>9, <3>1 DEF Served
      <3>3. ~Active(Previous)
        BY <1>2, <2>1, <2>6, <2>9, <3>2 DEF Served, Previous
      <3>4. Current.mac \in overlooked'
        BY <2>5, <2>9, <3>2, <3>3, EmptyIsNone
      <3> QED BY <2>9, <3>4
    <2> QED BY <2>7, <2>8, <2>9
  <1>6. ASSUME NEW n \in Macs, AdapterRemoved(n) PROVE Served(mac)'
    <2>1. /\ m_clients' = RemoveClient(n) /\ m_adapter_init_list' = m_adapter_init_list
          /\ m_adapters' = Without(n) /\ Excused \ {n} \subseteq Excused'
      BY <1>6 DEF AdapterRemoved, DetectRemoved
    <2>2. mac \in Known /\ mac # n /\ m_adapters'[mac] = m_adapters[mac]
      BY <2>1 DEF Without, Known
    <2>3. Kept(m_clients, m_clients', mac)
      BY <1>1, <2>1, <2>2, RemoveClientFacts
    <2> QED BY <1>2, <2>1, <2>2, <2>3, ServedKept DEF Kept
  <1>7. CASE CollectOpen
    <2> DEFINE x == [mac |-> Future.mac, address |-> Future.address]
    <2>1. /\ AtFuture /\ m_adapter_init_list' = RemoveAt(m_adapter_init_list, cursor)
          /\ m_clients' = Append(m_clients, x) /\ m_adapters' = m_adapters
          /\ Excused' = Excused
      BY <1>7 DEF CollectOpen, managerVars
    <2>2. /\ Future \in Opens
          /\ \A n : n # Future.mac => Kept(m_adapter_init_list, m_adapter_init_list', n)
      BY <1>1, <2>1, CollectedFacts
    <2>3. x \in Clients /\ x.mac = Future.mac
      BY <2>2 DEF Opens, Clients
    <2> HIDE DEF x
    <2>4. CASE mac = Future.mac
      BY <1>1, <2>1, <2>3, <2>4, AppendFacts DEF Served
    <2>5. CASE mac # Future.mac
      <3>1. Kept(m_clients, m_clients', mac)
        BY <1>1, <2>1, <2>3, <2>5, AppendFacts DEF Kept
      <3> QED BY <1>2, <2>1, <2>2, <2>5, <3>1, ServedKept DEF Kept, Known
    <2> QED BY <2>4, <2>5
  <1>8. CASE CollectFailed
    <2>1. /\ AtFuture /\ m_adapter_init_list' = RemoveAt(m_adapter_init_list, cursor)
          /\ m_clients' = m_clients /\ m_adapters' = m_adapters
          /\ Excused' = Excused \cup {Future.mac}
      BY <1>8 DEF CollectFailed, managerVars
    <2>2. \A n : n # Future.mac => Kept(m_adapter_init_list, m_adapter_init_list', n)
      BY <1>1, <2>1, CollectedFacts
    <2> QED BY <1>2, <2>1, <2>2, ServedKept DEF Kept, Known
  <1>9. CASE ThreadStep
    <2>1. /\ m_clients' = m_clients /\ m_adapters' = m_adapters /\ Excused' = Excused
          /\ Kept(m_adapter_init_list, m_adapter_init_list', mac)
      BY <1>1, <1>9, ResolvedFacts DEF ThreadStep, managerVars
    <2> QED BY <1>2, <2>1, ServedKept DEF Kept, Known
  <1>10. ASSUME NEW list \in Fetches, BeginUpdate(list) PROVE Same
    BY <1>10 DEF BeginUpdate, Fetch
  <1>11. CASE AdapterUnchanged \/ BeginCollect \/ CollectThrew \/ PassOpening \/ EndCollect
              \/ UNCHANGED vars
    <2>1. Same
      BY <1>11 DEF AdapterUnchanged, DetectSame, BeginCollect, EndUpdate, CollectThrew,
         PassOpening, EndCollect, handlerVars, managerVars, vars
    <2> QED BY <1>3, <2>1
  <1> HIDE DEF Same
  <1> QED BY <1>3, <1>4, <1>5, <1>6, <1>7, <1>8, <1>9, <1>10, <1>11, Zenon
          DEF Next, MainStep, UpdateStep

LEMMA ServedInit == Init => AllServed
  BY DEF Init, ManagerInit, AllServed, Known

LEMMA ServedFollows ==
    ASSUME AllServed
    PROVE  ActiveAreServed
  BY EmptyIsNone DEF AllServed, Served, ActiveAreServed

(* Every adapter fit for a client has one, or one to come, but for those   *)
(* whose client failed to open, that changed while it was opened, or that  *)
(* became fit after they were first seen.                                  *)
THEOREM ActiveGetClients == Spec => []ActiveAreServed
  <1>1. TypesHold /\ AllMatch /\ AllServed /\ [Next]_vars
            => TypesHold' /\ AllMatch' /\ AllServed'
    BY TypesStep, MatchStep, ServedStep
  <1> QED BY <1>1, TypesInit, MatchInit, ServedInit, ServedFollows, PTL DEF Spec

-----------------------------------------------------------------------------
(* The transmission handler only reads: with it, the network handler does  *)
(* what it does on its own, so all of the above holds of the composition.  *)
THEOREM TransmissionOnlyReads == TransmissionSpec => Spec
  <1>1. TransmissionInit => Init
    BY DEF TransmissionInit
  <1>2. [TransmissionNext]_transmissionVars => [Next]_vars
    <2>1. Opening => ThreadStep
      BY DEF Opening, ThreadStep, OpenAttempt
    <2> QED BY <2>1 DEF TransmissionNext, HandlerStep, Transmit, NotDue, Next, MainStep,
                        transmissionVars
  <1> QED BY <1>1, <1>2, PTL DEF TransmissionSpec, Spec

(* The first client of an adapter, and what is announced: the first client *)
(* of each listed client whose adapter is known, in the same order.        *)
LEMMA FirstClientFacts ==
    ASSUME m_clients \in Seq(Clients), NEW mac, ~None(m_clients, mac)
    PROVE  FirstClient(mac) \in DOMAIN m_clients /\ m_clients[FirstClient(mac)].mac = mac
  <1>1. ClientsOf(mac) \subseteq Nat /\ ClientsOf(mac) # {}
    BY SeqFacts, EmptyIsNone DEF ClientsOf
  <1>2. \E i \in ClientsOf(mac) : \A j \in ClientsOf(mac) : i <= j
    BY <1>1, LeastNatural
  <1>3. FirstClient(mac) \in ClientsOf(mac)
    BY <1>2 DEF FirstClient
  <1> QED BY <1>3 DEF ClientsOf

LEMMA AnnouncementFacts ==
    ASSUME m_clients \in Seq(Clients), NEW mac
    PROVE  /\ \A i \in DOMAIN Announcements : Announcements[i].mac \in Known
           /\ Single(m_clients, mac) => Single(Announcements, mac)
           /\ mac \in Known => (None(Announcements, mac) <=> None(m_clients, mac))
           /\ \A a : AllAt(m_clients, mac, a) => AllAt(Announcements, mac, a)
  <1> DEFINE known == {client \in Clients : client.mac \in Known}
             paired == Only(m_clients, known)
             n == Len(m_clients)
  <1>1. PICK at : Places(at, paired, m_clients, known, n)
    BY OnlyFacts
  <1>2. /\ paired \in Seq(Clients) /\ Len(paired) \in Nat /\ DOMAIN paired = 1 .. Len(paired)
        /\ n \in Nat /\ DOMAIN m_clients = 1 .. n
        /\ \A i \in 1 .. n : m_clients[i] \in Clients
    BY OnlyFacts, SeqFacts
  <1>3. /\ \A i \in 1 .. Len(paired) : at[i] \in 1 .. n /\ paired[i] = m_clients[at[i]]
        /\ \A i, j \in 1 .. Len(paired) : at[i] = at[j] => i = j
    <2> HIDE DEF paired, known
    <2>1. at \in [1 .. Len(paired) -> 1 .. n] /\ \A i, j \in 1 .. Len(paired) : i < j => at[i] < at[j]
      BY <1>1 DEF Places
    <2>2. ASSUME NEW i \in 1 .. Len(paired), NEW j \in 1 .. Len(paired), at[i] = at[j] PROVE i = j
      <3>1. i < j \/ j < i \/ i = j
        BY <1>2
      <3>2. ~ (at[i] < at[j]) /\ ~ (at[j] < at[i])
        BY <1>2, <2>1, <2>2
      <3> QED BY <2>1, <3>1, <3>2
    <2>3. \A i \in 1 .. Len(paired) : paired[i] = m_clients[at[i]]
      BY <1>1 DEF Places
    <2> QED BY <2>1, <2>2, <2>3
  <1>4. \A i \in 1 .. Len(paired) : paired[i].mac \in Known
    BY <1>1 DEF Places
  <1>5. \A i \in 1 .. n : m_clients[i].mac \in Known => \E j \in 1 .. Len(paired) : at[j] = i
    BY <1>1, <1>2 DEF Places
  <1>6. /\ DOMAIN Announcements = 1 .. Len(paired)
        /\ \A i \in 1 .. Len(paired) : Announcements[i] = m_clients[FirstClient(paired[i].mac)]
    BY <1>2 DEF Announcements
  <1> HIDE DEF paired, known
  <1>7. ASSUME NEW i \in 1 .. Len(paired)
        PROVE  /\ Announcements[i].mac = m_clients[at[i]].mac
               /\ FirstClient(paired[i].mac) \in 1 .. n
    <2>1. ~None(m_clients, paired[i].mac)
      BY <1>2, <1>3 DEF None
    <2> QED BY <1>2, <1>3, <1>6, <2>1, FirstClientFacts
  <1>8. \A i \in DOMAIN Announcements : Announcements[i].mac \in Known
    BY <1>3, <1>4, <1>6, <1>7
  <1>9. Single(m_clients, mac) => Single(Announcements, mac)
    BY <1>2, <1>3, <1>6, <1>7 DEF Single
  <1>10. ASSUME mac \in Known PROVE None(Announcements, mac) <=> None(m_clients, mac)
    <2>1. None(m_clients, mac) => None(Announcements, mac)
      BY <1>2, <1>3, <1>6, <1>7 DEF None
    <2>2. ASSUME NEW i \in 1 .. n, m_clients[i].mac = mac PROVE ~None(Announcements, mac)
      <3>1. PICK j \in 1 .. Len(paired) : at[j] = i
        BY <1>5, <1>10, <2>2
      <3> QED BY <1>6, <1>7, <2>2, <3>1 DEF None
    <2> QED BY <1>2, <2>1, <2>2 DEF None
  <1>11. \A a : AllAt(m_clients, mac, a) => AllAt(Announcements, mac, a)
    BY <1>2, <1>3, <1>6, <1>7 DEF AllAt
  <1> QED BY <1>8, <1>9, <1>10, <1>11

LEMMA TransmitsOnce ==
    ASSUME TypesHold, AllMatch, Transmit
    PROVE  /\ \A i \in DOMAIN sent' : sent'[i].mac \in Known
           /\ \A mac \in Known \ raced :
                 LET own == {i \in DOMAIN sent' : sent'[i].mac = mac} IN
                 /\ Cardinality(own) = IF ClientsOf(mac) # {} THEN 1 ELSE 0
                 /\ \A i \in own : sent'[i].address = Head(m_adapters[mac].addresses)
  <1>1. sent' = Announcements /\ m_clients \in Seq(Clients) /\ Known \subseteq Macs
    BY DEF Transmit, TypesHold, TypeOK, ManagerTypeOK, IsAdapterMap, Known
  <1>2. \A i \in DOMAIN Announcements : Announcements[i].mac \in Known
    BY <1>1, AnnouncementFacts
  <1>3. ASSUME NEW mac \in Known \ raced,
               NEW own, own = {i \in DOMAIN Announcements : Announcements[i].mac = mac}
        PROVE  /\ Cardinality(own) = IF ClientsOf(mac) # {} THEN 1 ELSE 0
               /\ \A i \in own : Announcements[i].address = Head(m_adapters[mac].addresses)
    <2>1. Matches(mac)
      BY <1>1 DEF AllMatch
    <2>2. Single(Announcements, mac) /\ (None(Announcements, mac) <=> None(m_clients, mac))
      BY <1>1, <2>1, AnnouncementFacts DEF Matches
    <2>3. Cardinality(own) = IF None(m_clients, mac) THEN 0 ELSE 1
      BY <1>3, <2>2, AtMostOne
    <2>4. ASSUME NEW i \in own
          PROVE  Announcements[i].address = Head(m_adapters[mac].addresses)
      <3>1. ~None(m_clients, mac)
        BY <1>3, <2>2 DEF None
      <3>2. AllAt(Announcements, mac, Head(m_adapters[mac].addresses))
        BY <1>1, <2>1, <3>1, AnnouncementFacts DEF Matches
      <3> QED BY <1>3, <3>2 DEF AllAt
    <2> QED BY <2>3, <2>4, EmptyIsNone
  <1> QED BY <1>1, <1>2, <1>3

(* A transmission announces the node once on each adapter that is served   *)
(* and was neither removed nor moved while its client was being opened,    *)
(* from its present first address, and on no adapter that is gone.         *)
THEOREM AnnouncesOnce == TransmissionSpec => AnnouncedOnce
  <1>1. TransmissionSpec => [](TypesHold /\ AllMatch)
    <2>1. TypesHold /\ AllMatch /\ [Next]_vars => TypesHold' /\ AllMatch'
      BY TypesStep, MatchStep
    <2> QED BY <2>1, TypesInit, MatchInit, TransmissionOnlyReads, PTL DEF Spec
  <1>2. ASSUME TypesHold, AllMatch, [TransmissionNext]_transmissionVars
        PROVE  [Transmit =>
                  /\ \A i \in DOMAIN sent' : sent'[i].mac \in Known
                  /\ \A mac \in Known \ raced :
                        LET own == {i \in DOMAIN sent' : sent'[i].mac = mac} IN
                        /\ Cardinality(own) = IF ClientsOf(mac) # {} THEN 1 ELSE 0
                        /\ \A i \in own : sent'[i].address = Head(m_adapters[mac].addresses)
               ]_transmissionVars
    BY <1>2, TransmitsOnce
  <1> QED BY <1>1, <1>2, PTL DEF TransmissionSpec, AnnouncedOnce

-----------------------------------------------------------------------------
LEMMA AcceptedIsComplete ==
    ASSUME NEW arguments \in Arguments, Accepts(arguments)
    PROVE  GetConfiguration(arguments) \in Configurations
  <1>1. PICK id, port, address :
            /\ id = Value(arguments.node_id)
            /\ port = Value(arguments.port)
            /\ address = Value(arguments.address)
    BY Zenon
  <1>2. id \in Int /\ port \in Int /\ address \in AddressKinds
    BY <1>1 DEF Arguments, Accepts, Given, Value
  <1>3. AsUInt16(id) > 0 /\ AsUInt16(port) > 0 /\ address # "malformed"
    BY <1>1, Zenon DEF Accepts
  <1>4. \A v \in Int : AsUInt16(v) > 0 => AsUInt16(v) \in 1 .. MaxUInt16
    <2>1. MaxUInt16 \in Nat /\ \A v \in Int : v % (MaxUInt16 + 1) \in Nat /\ v % (MaxUInt16 + 1) <= MaxUInt16
      BY SMT DEF MaxUInt16
    <2> QED BY <2>1, SMT DEF AsUInt16
  <1>5. AsUInt16(id) \in 1 .. MaxUInt16 /\ AsUInt16(port) \in 1 .. MaxUInt16
    BY <1>2, <1>3, <1>4, Zenon
  <1>6. address \in {"group", "other"}
    BY <1>2, <1>3 DEF AddressKinds
  <1> QED BY <1>1, <1>5, <1>6, Zenon DEF GetConfiguration, Configurations

(* The daemon runs only with a node id and a port that are not zero and an *)
(* address, though not always one of a group, and never changes them.      *)
THEOREM RunsConfigured == TransmissionSpec => [](configuration \in Configurations)
  <1>1. TransmissionInit => configuration \in Configurations
    BY AcceptedIsComplete, CommandLinesAssumption DEF TransmissionInit
  <1>2. configuration \in Configurations /\ [TransmissionNext]_transmissionVars
            => (configuration \in Configurations)'
    BY DEF TransmissionNext, HandlerStep, Transmit, NotDue, transmissionVars
  <1> QED BY <1>1, <1>2, PTL DEF TransmissionSpec
=============================================================================
