----------------------- MODULE TrafficSimulator_proofs -----------------------
(***************************************************************************)
(* Proofs about TrafficSimulator, for any nodes, kinds and number of       *)
(* adapters, routers and saved scenes.  What holds of entries, identifiers *)
(* participants and connections is stated of any four such functions, as   *)
(* connecting an adapter takes it from its router first.                   *)
(***************************************************************************)
EXTENDS TrafficSimulator, WellFoundedInduction, TLAPS

(* No other client was entered for the same adapter before this one.       *)
IsFirst(ids, c) == \A d \in DOMAIN ids : ids[d] = ids[c] => c <= d

(* What every client was entered for: an adapter with its address, which   *)
(* came no later than its own.                                             *)
Named(ids) ==
    /\ DOMAIN ids \subseteq DOMAIN adapters
    /\ \A c \in DOMAIN ids : /\ ids[c] \in DOMAIN adapters /\ ids[c] <= c
                             /\ SameAddress(adapters, ids[c], c)

(* es: entries, ids: identifiers, ps: participants, dr: the connections    *)
(* drawn.  A router serves nobody but clients with an entry for it, and a  *)
(* client has an entry for no router but the one to which the adapter is   *)
(* drawn it was entered for, as the first.                                 *)
Fits(es, ids, ps, dr) ==
    /\ Named(ids) /\ DOMAIN es = DOMAIN ids
    /\ DOMAIN dr \subseteq DOMAIN adapters /\ DOMAIN ps \subseteq Routers
    /\ \A a \in DOMAIN dr : dr[a] \in DOMAIN ps
    /\ \A c \in DOMAIN es : es[c] # None =>
          ids[c] \in DOMAIN dr /\ dr[ids[c]] = es[c] /\ IsFirst(ids, c)
    /\ \A r \in DOMAIN ps : \A n \in DOMAIN ps[r] :
          /\ ps[r][n] \in DOMAIN es /\ es[ps[r][n]] = r
          /\ Node(ps[r][n]) = n

(* Unless it was connected early or has a doubled address, an adapter has  *)
(* an entry for the router it is drawn to, and unless two adapters of its  *)
(* node were connected to that router, it alone is, and receives.          *)
Serves(es, ids, ps, dr, ea, do, sh) ==
    /\ \A c \in DOMAIN ids \ do : ids[c] = c
    /\ \A a \in DOMAIN dr \ (ea \cup do) : a \in DOMAIN es /\ es[a] = dr[a]
    /\ \A a, b \in DOMAIN dr :
          Node(a) = Node(b) /\ dr[a] = dr[b] /\ <<Node(a), dr[a]>> \notin sh => a = b
    /\ \A a \in DOMAIN dr \ (ea \cup do) : <<Node(a), dr[a]>> \notin sh =>
          Node(a) \in DOMAIN ps[dr[a]] /\ ps[dr[a]][Node(a)] = a

SceneTyped ==
    /\ adapters \in Seq(Kinds) /\ fetched \subseteq DOMAIN adapters /\ DOMAIN drawn \subseteq fetched
    /\ \A a \in fetched : Node(a) \in nodes
    /\ nodes \subseteq Nodes /\ unused \subseteq Nodes \cup Routers
    /\ unused \cap DOMAIN participants = {}
    /\ early \cup doubled \subseteq DOMAIN adapters /\ shared \subseteq Nodes \X Routers

(* Of the adapters present with its address, a client was entered for one  *)
(* that came no later than the others.                                     *)
FirstIsNamed ==
    \A c \in DOMAIN identifiers : \A a \in fetched :
        SameAddress(adapters, a, c) => identifiers[c] <= a

(* A client that is still to come is of an adapter drawn after all others. *)
NewComeLater ==
    \A a \in Usable(adapters, fetched) \ DOMAIN identifiers : \A c \in DOMAIN identifiers : c <= a

SceneFits == Fits(entries, identifiers, participants, drawn)
SceneServes == Serves(entries, identifiers, participants, drawn, early, doubled, shared)
Scene == SceneTyped /\ FirstIsNamed /\ NewComeLater /\ SceneFits /\ SceneServes

-----------------------------------------------------------------------------
(* Every nonempty set of naturals has a least element.                     *)
LEMMA LeastNatural ==
    ASSUME NEW T, T \subseteq Nat, T # {}
    PROVE  \E x \in T : \A y \in T : x <= y
  <1> DEFINE R == OpToRel(<, Nat)
  <1>1. PICK x \in T : \A y \in T : ~ (<<y, x>> \in R)
    <2>1. IsWellFoundedOn(R, Nat)
      BY NatLessThanWellFounded
    <2> HIDE DEF R
    <2> QED BY <2>1, WFMin, Zenon
  <1>2. ASSUME NEW y \in T PROVE x <= y
    <2>1. ~ (<<y, x>> \in R)
      BY <1>1
    <2>2. \A a, b \in Nat : a < b => <<a, b>> \in R
      BY DEF OpToRel
    <2> HIDE DEF R
    <2> QED BY <2>1, <2>2
  <1> QED BY <1>2

LEMMA MinFacts ==
    ASSUME NEW T, T \subseteq Nat, T # {}
    PROVE  Min(T) \in T /\ \A y \in T : Min(T) <= y
  BY LeastNatural DEF Min

(* The operators.                                                          *)
LEMMA WithoutFacts ==
    ASSUME NEW f, NEW xs
    PROVE  /\ DOMAIN Without(f, xs) = DOMAIN f \ xs
           /\ \A z \in DOMAIN f \ xs : Without(f, xs)[z] = f[z]
  BY DEF Without, Restrict

LEMMA AddFacts ==
    ASSUME NEW ps, NEW r \in DOMAIN ps, NEW n, NEW c,
           NEW added, added = AddParticipant(ps, r, n, c)
    PROVE  /\ DOMAIN added = DOMAIN ps
           /\ \A s \in DOMAIN ps \ {r} : added[s] = ps[s]
           /\ n \in DOMAIN ps[r] => added[r] = ps[r]
           /\ n \notin DOMAIN ps[r] => added[r] = With(ps[r], n, c)
  BY DEF AddParticipant

IsRemoved(ps, rs, n, left) ==
    /\ DOMAIN left = DOMAIN ps
    /\ \A r \in DOMAIN ps :
          DOMAIN left[r] = IF r \in rs THEN DOMAIN ps[r] \ {n} ELSE DOMAIN ps[r]
    /\ \A r \in DOMAIN ps : \A m \in DOMAIN left[r] : left[r][m] = ps[r][m]

LEMMA RemoveFacts ==
    ASSUME NEW ps, NEW rs, NEW n
    PROVE  IsRemoved(ps, rs, n, RemoveParticipant(ps, rs, n))
  <1>1. \A r \in DOMAIN ps : RemoveParticipant(ps, rs, n)[r]
            = IF r \in rs THEN Without(ps[r], {n}) ELSE ps[r]
    BY DEF RemoveParticipant
  <1>2. DOMAIN RemoveParticipant(ps, rs, n) = DOMAIN ps
    BY DEF RemoveParticipant
  <1>3. \A r \in DOMAIN ps : /\ DOMAIN Without(ps[r], {n}) = DOMAIN ps[r] \ {n}
                             /\ \A m \in DOMAIN ps[r] \ {n} : Without(ps[r], {n})[m] = ps[r][m]
    BY WithoutFacts
  <1> QED BY <1>1, <1>2, <1>3 DEF IsRemoved

(* An address has one node, and a lookup finds the first that fits.        *)
LEMMA SameAddressFacts ==
    ASSUME NEW as, NEW a, NEW b, NEW c
    PROVE  /\ SameAddress(as, a, a)
           /\ SameAddress(as, a, b) => as[a].node = as[b].node /\ SameAddress(as, b, a)
           /\ SameAddress(as, a, b) /\ SameAddress(as, b, c) => SameAddress(as, a, c)
  BY DEF SameAddress

LEMMA GetIdentifierFacts ==
    ASSUME NEW as, NEW present \in SUBSET Nat, NEW c \in present
    PROVE  /\ GetIdentifier(as, present, c) \in present
           /\ SameAddress(as, GetIdentifier(as, present, c), c)
           /\ \A a \in present : SameAddress(as, a, c) => GetIdentifier(as, present, c) <= a
  <1> DEFINE fitting == {a \in present : SameAddress(as, a, c)}
  <1>1. c \in fitting /\ fitting \subseteq Nat
    BY SameAddressFacts
  <1>2. GetIdentifier(as, present, c) = Min(fitting)
    BY DEF GetIdentifier
  <1>3. Min(fitting) \in fitting /\ \A y \in fitting : Min(fitting) <= y
    <2> HIDE DEF fitting
    <2> QED BY <1>1, MinFacts
  <1> QED BY <1>2, <1>3

LEMMA EntryFacts ==
    ASSUME NEW ids, DOMAIN ids \subseteq Nat, NEW a
    PROVE  /\ HasEntry(ids, a) <=> \E c \in DOMAIN ids : ids[c] = a
           /\ HasEntry(ids, a) => /\ EntryOf(ids, a) \in DOMAIN ids /\ ids[EntryOf(ids, a)] = a
                                  /\ IsFirst(ids, EntryOf(ids, a))
           /\ \A c \in DOMAIN ids : ids[c] = a /\ IsFirst(ids, c) => c = EntryOf(ids, a)
  <1> DEFINE named == {c \in DOMAIN ids : ids[c] = a}
  <1>1. HasEntry(ids, a) <=> \E c \in DOMAIN ids : ids[c] = a
    BY DEF HasEntry, Range
  <1>2. EntryOf(ids, a) = Min(named)
    BY DEF EntryOf
  <1>3. named # {} => Min(named) \in named /\ \A y \in named : Min(named) <= y
    <2>1. named \subseteq Nat
      OBVIOUS
    <2> HIDE DEF named
    <2> QED BY <2>1, MinFacts
  <1>4. ASSUME named # {} PROVE /\ EntryOf(ids, a) \in DOMAIN ids /\ ids[EntryOf(ids, a)] = a
                                /\ IsFirst(ids, EntryOf(ids, a))
    BY <1>2, <1>3, <1>4 DEF IsFirst
  <1>5. ASSUME NEW c \in DOMAIN ids, ids[c] = a, IsFirst(ids, c) PROVE c = EntryOf(ids, a)
    <2>1. named # {}
      BY <1>5
    <2>2. c <= EntryOf(ids, a) /\ EntryOf(ids, a) <= c
      BY <1>4, <1>5, <2>1 DEF IsFirst
    <2>3. c \in Nat /\ EntryOf(ids, a) \in Nat
      BY <1>4, <2>1
    <2> QED BY <2>2, <2>3
  <1>6. HasEntry(ids, a) => named # {}
    BY <1>1
  <1> HIDE DEF named
  <1> QED BY <1>1, <1>4, <1>5, <1>6

LEMMA NamedFacts ==
    ASSUME NEW ids, Named(ids), adapters \in Seq(Kinds)
    PROVE  /\ DOMAIN ids \subseteq Nat
           /\ \A c \in DOMAIN ids : Node(ids[c]) = Node(c) /\ ids[c] \in Nat /\ c \in Nat
  <1>1. DOMAIN adapters \subseteq Nat
    OBVIOUS
  <1> QED BY <1>1, SameAddressFacts DEF Named, Node

(* Where no adapter is added, a fact about the next entries, participants  *)
(* and connections and the present adapters is one about the next state.   *)
LEMMA NextScene ==
    ASSUME adapters' = adapters,
           Fits(entries', identifiers', participants', drawn'),
           Serves(entries', identifiers', participants', drawn', early', doubled', shared')
    PROVE  SceneFits' /\ SceneServes'
  BY DEF SceneFits, SceneServes, Fits, Serves, Named, IsFirst, SameAddress, Node

(* Any loss of participants and entries is harmless to Fits, as long as a  *)
(* client that loses its entry loses its participant.                      *)
LEMMA LossFits ==
    ASSUME NEW es, NEW ids, NEW ps, NEW dr, NEW es2, NEW ids2, NEW ps2, NEW dr2, Fits(es, ids, ps, dr),
           DOMAIN ps2 \subseteq DOMAIN ps, DOMAIN dr2 \subseteq DOMAIN dr,
           DOMAIN es2 = DOMAIN ids2, DOMAIN ids2 \subseteq DOMAIN ids,
           \A c \in DOMAIN ids2 : ids2[c] = ids[c],
           \A a \in DOMAIN dr2 : dr2[a] = dr[a] /\ dr[a] \in DOMAIN ps2,
           \A c \in DOMAIN es2 : es2[c] # None => es2[c] = es[c] /\ ids[c] \in DOMAIN dr2,
           \A r \in DOMAIN ps2 : \A n \in DOMAIN ps2[r] :
               /\ n \in DOMAIN ps[r] /\ ps2[r][n] = ps[r][n]
               /\ ps[r][n] \in DOMAIN es2 /\ es2[ps[r][n]] = es[ps[r][n]]
    PROVE  Fits(es2, ids2, ps2, dr2)
  <1>1. Named(ids2)
    BY DEF Fits, Named
  <1>2. \A c \in DOMAIN es2 : es2[c] # None =>
            ids2[c] \in DOMAIN dr2 /\ dr2[ids2[c]] = es2[c] /\ IsFirst(ids2, c)
    <2> SUFFICES ASSUME NEW c \in DOMAIN es2, es2[c] # None
                 PROVE  ids2[c] \in DOMAIN dr2 /\ dr2[ids2[c]] = es2[c] /\ IsFirst(ids2, c)
      OBVIOUS
    <2>1. c \in DOMAIN es /\ es2[c] = es[c] /\ ids2[c] = ids[c] /\ ids[c] \in DOMAIN dr2
      BY DEF Fits
    <2>2. dr[ids[c]] = es[c] /\ IsFirst(ids, c)
      BY <2>1 DEF Fits
    <2>3. IsFirst(ids2, c)
      BY <2>1, <2>2 DEF IsFirst
    <2> QED BY <2>1, <2>2, <2>3
  <1>3. \A r \in DOMAIN ps2 : \A n \in DOMAIN ps2[r] :
            ps2[r][n] \in DOMAIN es2 /\ es2[ps2[r][n]] = r /\ Node(ps2[r][n]) = n
    BY DEF Fits
  <1> QED BY <1>1, <1>2, <1>3 DEF Fits

(* What remove_link leaves.                                                *)
IsUnlinked(a, es2, ps2) ==
    \/ ~HasEntry(identifiers, a) /\ es2 = entries /\ ps2 = participants
    \/ /\ HasEntry(identifiers, a)
       /\ DOMAIN es2 = DOMAIN entries /\ es2[EntryOf(identifiers, a)] = None
       /\ \A c \in DOMAIN entries \ {EntryOf(identifiers, a)} : es2[c] = entries[c]
       /\ IsRemoved(participants, {entries[EntryOf(identifiers, a)]}, Node(a), ps2)

LEMMA UnlinkedFacts ==
    ASSUME NEW a, Scene
    PROVE  IsUnlinked(a, Unlinked(a).entries, Unlinked(a).participants)
  <1>1. CASE HasEntry(identifiers, a)
    <2> DEFINE c == EntryOf(identifiers, a)
    <2>1. /\ Unlinked(a).entries = Cut(c)
          /\ Unlinked(a).participants = RemoveParticipant(participants, {entries[c]}, Node(a))
      BY <1>1 DEF Unlinked
    <2>2. c \in DOMAIN entries
      BY <1>1, EntryFacts, NamedFacts DEF Scene, SceneTyped, SceneFits, Fits
    <2> HIDE DEF c
    <2>3. /\ DOMAIN Cut(c) = DOMAIN entries /\ Cut(c)[c] = None
          /\ \A d \in DOMAIN entries \ {c} : Cut(c)[d] = entries[d]
      BY <2>2 DEF Cut
    <2>4. IsRemoved(participants, {entries[c]}, Node(a), Unlinked(a).participants)
      BY <2>1, RemoveFacts
    <2> QED BY <1>1, <2>1, <2>3, <2>4 DEF IsUnlinked, c
  <1>2. CASE ~HasEntry(identifiers, a)
    BY <1>2 DEF Unlinked, IsUnlinked
  <1> QED BY <1>1, <1>2

LEMMA UnlinkFits ==
    ASSUME Scene, NEW a, NEW es, NEW ps, IsUnlinked(a, es, ps)
    PROVE  Fits(es, identifiers, ps, Without(drawn, {a}))
  <1> DEFINE dr == Without(drawn, {a})
             c == EntryOf(identifiers, a)
  <1>1. DOMAIN dr = DOMAIN drawn \ {a} /\ \A b \in DOMAIN drawn \ {a} : dr[b] = drawn[b]
    BY WithoutFacts
  <1>2. Fits(entries, identifiers, participants, drawn) /\ Named(identifiers)
        /\ DOMAIN entries = DOMAIN identifiers /\ DOMAIN identifiers \subseteq Nat
        /\ \A d \in DOMAIN identifiers : Node(identifiers[d]) = Node(d)
    BY NamedFacts DEF Scene, SceneTyped, SceneFits, Fits
  <1>3. HasEntry(identifiers, a) => c \in DOMAIN identifiers /\ identifiers[c] = a
    BY <1>2, EntryFacts
  <1>4. \A d \in DOMAIN identifiers : identifiers[d] = a /\ IsFirst(identifiers, d) => d = c
    BY <1>2, EntryFacts
  <1>5. \A d \in DOMAIN identifiers : identifiers[d] = a => HasEntry(identifiers, a)
    BY <1>2, EntryFacts
  <1> HIDE DEF dr, c
  <1>6. DOMAIN es = DOMAIN identifiers /\ DOMAIN ps = DOMAIN participants
    BY <1>2 DEF IsUnlinked, IsRemoved
  <1>7. ASSUME NEW d \in DOMAIN es, es[d] # None
        PROVE  es[d] = entries[d] /\ identifiers[d] \in DOMAIN dr
    <2>1. es[d] = entries[d]
      BY <1>2, <1>6, <1>7 DEF IsUnlinked, c
    <2>2. identifiers[d] \in DOMAIN drawn /\ IsFirst(identifiers, d)
      BY <1>2, <1>6, <1>7, <2>1 DEF Fits
    <2>3. identifiers[d] # a
      <3>1. SUFFICES ASSUME identifiers[d] = a PROVE FALSE
        OBVIOUS
      <3>2. d = c /\ HasEntry(identifiers, a)
        BY <1>4, <1>5, <1>6, <2>2, <3>1
      <3> QED BY <1>7, <3>2 DEF IsUnlinked, c
    <2> QED BY <1>1, <2>1, <2>2, <2>3
  <1>8. ASSUME NEW r \in DOMAIN ps, NEW n \in DOMAIN ps[r]
        PROVE  /\ n \in DOMAIN participants[r] /\ ps[r][n] = participants[r][n]
               /\ participants[r][n] \in DOMAIN es
               /\ es[participants[r][n]] = entries[participants[r][n]]
    <2>1. r \in DOMAIN participants /\ n \in DOMAIN participants[r] /\ ps[r][n] = participants[r][n]
      BY <1>6 DEF IsUnlinked, IsRemoved
    <2>2. /\ participants[r][n] \in DOMAIN entries /\ entries[participants[r][n]] = r
          /\ Node(participants[r][n]) = n
      BY <1>2, <2>1 DEF Fits
    <2>3. HasEntry(identifiers, a) => participants[r][n] # c
      <3>1. SUFFICES ASSUME HasEntry(identifiers, a), participants[r][n] = c PROVE FALSE
        OBVIOUS
      <3>2. entries[c] = r /\ Node(a) = n
        BY <1>2, <1>3, <2>2, <3>1
      <3>3. DOMAIN ps[r] = DOMAIN participants[r] \ {Node(a)}
        BY <2>1, <3>1, <3>2 DEF IsUnlinked, IsRemoved, c
      <3> QED BY <3>2, <3>3
    <2> QED BY <1>2, <1>6, <2>1, <2>2, <2>3 DEF IsUnlinked, c
  <1>9. \A b \in DOMAIN dr : dr[b] = drawn[b] /\ drawn[b] \in DOMAIN ps
    BY <1>1, <1>2, <1>6 DEF Fits
  <1>10. DOMAIN dr \subseteq DOMAIN drawn
    BY <1>1
  <1>11. Fits(es, identifiers, ps, dr)
    BY <1>2, <1>6, <1>7, <1>8, <1>9, <1>10, LossFits
  <1> QED BY <1>11 DEF dr

LEMMA UnlinkServes ==
    ASSUME Scene, NEW a, NEW es, NEW ps, IsUnlinked(a, es, ps)
    PROVE  Serves(es, identifiers, ps, Without(drawn, {a}), early, doubled, shared)
  <1> DEFINE dr == Without(drawn, {a})
             c == EntryOf(identifiers, a)
  <1>1. DOMAIN dr = DOMAIN drawn \ {a} /\ \A b \in DOMAIN drawn \ {a} : dr[b] = drawn[b]
    BY WithoutFacts
  <1>2. Fits(entries, identifiers, participants, drawn) /\ Named(identifiers)
        /\ DOMAIN entries = DOMAIN identifiers /\ DOMAIN identifiers \subseteq Nat
        /\ \A d \in DOMAIN identifiers : Node(identifiers[d]) = Node(d)
    BY NamedFacts DEF Scene, SceneTyped, SceneFits, Fits
  <1>3. HasEntry(identifiers, a) => c \in DOMAIN identifiers /\ identifiers[c] = a
    BY <1>2, EntryFacts
  <1> HIDE DEF dr, c
  <1>4. Serves(entries, identifiers, participants, drawn, early, doubled, shared)
    BY DEF Scene, SceneServes
  <1>5. \A b \in DOMAIN dr : b \in DOMAIN drawn /\ b # a /\ dr[b] = drawn[b]
    BY <1>1
  <1>6. \A d \in DOMAIN identifiers \ doubled : identifiers[d] = d
    BY <1>4 DEF Serves
  <1>7. ASSUME NEW b \in DOMAIN dr \ (early \cup doubled)
        PROVE  b \in DOMAIN es /\ es[b] = dr[b]
    <2>1. b \in DOMAIN entries /\ entries[b] = drawn[b] /\ dr[b] = drawn[b] /\ b # a
      BY <1>4, <1>5 DEF Serves
    <2>2. identifiers[b] = b
      BY <1>2, <1>6, <2>1
    <2>3. HasEntry(identifiers, a) => b # c
      BY <1>3, <2>1, <2>2
    <2> QED BY <2>1, <2>3 DEF IsUnlinked, c
  <1>8. \A b, d \in DOMAIN dr :
            Node(b) = Node(d) /\ dr[b] = dr[d] /\ <<Node(b), dr[b]>> \notin shared => b = d
    BY <1>4, <1>5 DEF Serves
  <1>9. ASSUME NEW b \in DOMAIN dr \ (early \cup doubled), <<Node(b), dr[b]>> \notin shared
        PROVE  Node(b) \in DOMAIN ps[dr[b]] /\ ps[dr[b]][Node(b)] = b
    <2>1. b \in DOMAIN drawn \ (early \cup doubled) /\ b # a /\ dr[b] = drawn[b]
      BY <1>5
    <2>2. Node(b) \in DOMAIN participants[drawn[b]] /\ participants[drawn[b]][Node(b)] = b
      BY <1>4, <1>9, <2>1 DEF Serves
    <2>3. drawn[b] \in DOMAIN participants /\ drawn[b] # None
      BY <1>2, <2>1, NoneAssumption DEF Fits
    <2>4. HasEntry(identifiers, a) => ~ (drawn[b] = entries[c] /\ Node(a) = Node(b))
      <3>1. SUFFICES ASSUME HasEntry(identifiers, a), drawn[b] = entries[c], Node(a) = Node(b)
                     PROVE  FALSE
        OBVIOUS
      <3>2. a \in DOMAIN drawn /\ drawn[a] = drawn[b]
        BY <1>2, <1>3, <2>3, <3>1 DEF Fits
      <3> QED BY <1>4, <1>9, <2>1, <3>1, <3>2 DEF Serves
    <2>5. \/ ps = participants
          \/ /\ HasEntry(identifiers, a)
             /\ IsRemoved(participants, {entries[c]}, Node(a), ps)
      BY DEF IsUnlinked, c
    <2>6. ASSUME HasEntry(identifiers, a), IsRemoved(participants, {entries[c]}, Node(a), ps)
          PROVE  Node(b) \in DOMAIN ps[drawn[b]] /\ ps[drawn[b]][Node(b)] = b
      <3>1. drawn[b] \in {entries[c]} <=> drawn[b] = entries[c]
        OBVIOUS
      <3>2. Node(b) \in DOMAIN ps[drawn[b]]
        BY <2>2, <2>3, <2>4, <2>6, <3>1 DEF IsRemoved
      <3> QED BY <2>2, <2>3, <2>6, <3>2 DEF IsRemoved
    <2> QED BY <2>1, <2>2, <2>5, <2>6
  <1>10. Serves(es, identifiers, ps, dr, early, doubled, shared)
    BY <1>6, <1>7, <1>8, <1>9 DEF Serves
  <1> QED BY <1>10 DEF dr

(* add_link, for an adapter that is drawn to no router in dr.              *)
LEMMA LinkFits ==
    ASSUME adapters \in Seq(Kinds), NEW a \in DOMAIN adapters,
           NEW es, NEW ids, NEW ps, NEW dr, NEW r \in DOMAIN ps,
           Fits(es, ids, ps, dr), a \notin DOMAIN dr, HasEntry(ids, a),
           NEW es2, es2 = [es EXCEPT ![EntryOf(ids, a)] = r],
           NEW ps2, ps2 = AddParticipant(ps, r, Node(a), EntryOf(ids, a))
    PROVE  Fits(es2, ids, ps2, With(dr, a, r))
  <1> DEFINE dr2 == With(dr, a, r)
             c == EntryOf(ids, a)
  <1>1. DOMAIN dr2 = DOMAIN dr \cup {a} /\ dr2[a] = r /\ \A b \in DOMAIN dr \ {a} : dr2[b] = dr[b]
    BY DEF With
  <1>2. Named(ids) /\ DOMAIN es = DOMAIN ids /\ DOMAIN ids \subseteq Nat
        /\ \A d \in DOMAIN ids : Node(ids[d]) = Node(d)
    BY NamedFacts DEF Fits
  <1>3. c \in DOMAIN ids /\ ids[c] = a /\ IsFirst(ids, c)
    BY <1>2, EntryFacts
  <1>4. DOMAIN es2 = DOMAIN es /\ es2[c] = r /\ \A d \in DOMAIN es \ {c} : es2[d] = es[d]
    BY <1>2, <1>3
  <1>5. /\ DOMAIN ps2 = DOMAIN ps
        /\ \A s \in DOMAIN ps \ {r} : ps2[s] = ps[s]
        /\ Node(a) \in DOMAIN ps[r] => ps2[r] = ps[r]
        /\ Node(a) \notin DOMAIN ps[r] => ps2[r] = With(ps[r], Node(a), c)
    BY AddFacts
  <1> HIDE DEF dr2, c
  <1>6. es[c] = None
    BY <1>2, <1>3 DEF Fits
  <1>7. ASSUME NEW s \in DOMAIN ps, NEW n \in DOMAIN ps[s]
        PROVE  ps[s][n] \in DOMAIN es2 /\ es2[ps[s][n]] = s /\ Node(ps[s][n]) = n
    <2>1. ps[s][n] \in DOMAIN es /\ es[ps[s][n]] = s /\ Node(ps[s][n]) = n /\ s # None
      BY NoneAssumption DEF Fits
    <2> QED BY <1>4, <1>6, <2>1
  <1>8. ASSUME NEW s \in DOMAIN ps2, NEW n \in DOMAIN ps2[s]
        PROVE  ps2[s][n] \in DOMAIN es2 /\ es2[ps2[s][n]] = s /\ Node(ps2[s][n]) = n
    <2>1. CASE s # r \/ Node(a) \in DOMAIN ps[r]
      BY <1>5, <1>7, <2>1
    <2>2. CASE s = r /\ Node(a) \notin DOMAIN ps[r]
      <3>1. /\ DOMAIN ps2[r] = DOMAIN ps[r] \cup {Node(a)} /\ ps2[r][Node(a)] = c
            /\ \A m \in DOMAIN ps[r] \ {Node(a)} : ps2[r][m] = ps[r][m]
        BY <1>5, <2>2 DEF With
      <3>2. Node(c) = Node(a)
        BY <1>2, <1>3
      <3> QED BY <1>2, <1>3, <1>4, <1>7, <2>2, <3>1, <3>2
    <2> QED BY <2>1, <2>2
  <1>9. ASSUME NEW d \in DOMAIN es2, es2[d] # None
        PROVE  ids[d] \in DOMAIN dr2 /\ dr2[ids[d]] = es2[d] /\ IsFirst(ids, d)
    <2>1. CASE d = c
      BY <1>1, <1>3, <1>4, <2>1
    <2>2. CASE d # c
      <3>1. ids[d] \in DOMAIN dr /\ dr[ids[d]] = es2[d] /\ IsFirst(ids, d)
        BY <1>4, <1>9, <2>2 DEF Fits
      <3> QED BY <1>1, <3>1
    <2> QED BY <2>1, <2>2
  <1>10. /\ DOMAIN dr2 \subseteq DOMAIN adapters /\ DOMAIN ps2 \subseteq Routers
         /\ \A b \in DOMAIN dr2 : dr2[b] \in DOMAIN ps2
    BY <1>1, <1>5 DEF Fits
  <1>11. Fits(es2, ids, ps2, dr2)
    BY <1>2, <1>4, <1>8, <1>9, <1>10 DEF Fits
  <1> QED BY <1>11 DEF dr2

(* The history shared, of dr without a, when a is connected to r.          *)
IsShared(dr, a, r, sh, sh2) ==
    /\ \A n \in Nodes, s \in Routers :
          <<n, s>> # <<Node(a), r>> => (<<n, s>> \in sh2 <=> <<n, s>> \in sh)
    /\ <<Node(a), r>> \in sh2 <=> \E b \in DOMAIN dr : Node(b) = Node(a) /\ dr[b] = r

LEMMA LinkServes ==
    ASSUME adapters \in Seq(Kinds), NEW a \in DOMAIN adapters,
           NEW es, NEW ids, NEW ps, NEW dr, NEW r \in DOMAIN ps,
           Fits(es, ids, ps, dr), a \notin DOMAIN dr,
           NEW es2, NEW ps2, NEW ea, NEW do, NEW sh, NEW sh2, NEW ea2,
           Serves(es, ids, ps, dr, ea, do, sh), IsShared(dr, a, r, sh, sh2),
           IF HasEntry(ids, a)
           THEN /\ es2 = [es EXCEPT ![EntryOf(ids, a)] = r]
                /\ ps2 = AddParticipant(ps, r, Node(a), EntryOf(ids, a))
           ELSE es2 = es /\ ps2 = ps,
           ea2 = IF a \in DOMAIN es THEN ea \ {a} ELSE ea \cup {a}
    PROVE  Serves(es2, ids, ps2, With(dr, a, r), ea2, do, sh2)
  <1> DEFINE dr2 == With(dr, a, r)
             c == EntryOf(ids, a)
  <1>1. DOMAIN dr2 = DOMAIN dr \cup {a} /\ dr2[a] = r /\ \A b \in DOMAIN dr \ {a} : dr2[b] = dr[b]
    BY DEF With
  <1>2. Named(ids) /\ DOMAIN es = DOMAIN ids /\ DOMAIN ids \subseteq Nat
        /\ \A d \in DOMAIN ids : Node(ids[d]) = Node(d) /\ ids[d] <= d
    BY NamedFacts DEF Fits, Named
  <1>3. HasEntry(ids, a) => c \in DOMAIN ids /\ ids[c] = a /\ IsFirst(ids, c)
    BY <1>2, EntryFacts
  <1>4. \A d \in DOMAIN ids \ do : ids[d] = d
    BY DEF Serves
  <1>5. DOMAIN es2 = DOMAIN es /\ \A d \in DOMAIN es : ids[d] # a => es2[d] = es[d]
    <2>1. CASE HasEntry(ids, a)
      BY <1>2, <1>3, <2>1
    <2>2. CASE ~HasEntry(ids, a)
      BY <2>2
    <2> QED BY <2>1, <2>2
  <1>6. \A s \in DOMAIN ps : \A n \in DOMAIN ps[s] : n \in DOMAIN ps2[s] /\ ps2[s][n] = ps[s][n]
    <2> SUFFICES ASSUME NEW s \in DOMAIN ps, NEW n \in DOMAIN ps[s]
                 PROVE  n \in DOMAIN ps2[s] /\ ps2[s][n] = ps[s][n]
      OBVIOUS
    <2>1. HasEntry(ids, a) =>
              /\ s # r => ps2[s] = ps[s]
              /\ Node(a) \in DOMAIN ps[r] => ps2[r] = ps[r]
              /\ Node(a) \notin DOMAIN ps[r] => ps2[r] = With(ps[r], Node(a), c)
      BY AddFacts
    <2>2. /\ DOMAIN With(ps[r], Node(a), c) = DOMAIN ps[r] \cup {Node(a)}
          /\ \A m \in DOMAIN ps[r] \ {Node(a)} : With(ps[r], Node(a), c)[m] = ps[r][m]
      BY DEF With
    <2> QED BY <2>1, <2>2
  <1>7. \A b \in DOMAIN dr : Node(b) \in Nodes /\ dr[b] \in Routers /\ dr[b] \in DOMAIN ps
    BY KindsTyped DEF Fits, Node
  <1>8. \A b \in DOMAIN dr : <<Node(b), dr[b]>> \notin sh2 =>
            <<Node(b), dr[b]>> \notin sh /\ ~ (Node(b) = Node(a) /\ dr[b] = r)
    BY <1>7 DEF IsShared
  <1>9. ASSUME a \in DOMAIN es, a \notin do PROVE HasEntry(ids, a) /\ c = a
    <2>1. ids[a] = a /\ a \in DOMAIN ids
      BY <1>2, <1>4, <1>9
    <2>2. IsFirst(ids, a)
      BY <1>2, <2>1 DEF IsFirst
    <2> QED BY <1>2, <2>1, <2>2, EntryFacts
  <1>10. ASSUME NEW b \in DOMAIN dr2 \ (ea2 \cup do)
         PROVE  b \in DOMAIN es2 /\ es2[b] = dr2[b]
    <2>1. CASE b = a
      <3>1. a \in DOMAIN es /\ a \notin do
        BY <1>10, <2>1
      <3>2. es2 = [es EXCEPT ![a] = r]
        BY <1>9, <3>1
      <3> QED BY <1>1, <2>1, <3>1, <3>2
    <2>2. CASE b # a
      <3>1. b \in DOMAIN dr \ (ea \cup do) /\ dr2[b] = dr[b]
        BY <1>1, <1>10, <2>2
      <3>2. b \in DOMAIN es /\ es[b] = dr[b]
        BY <3>1 DEF Serves
      <3>3. ids[b] = b
        BY <1>2, <1>4, <3>1, <3>2
      <3> QED BY <1>5, <2>2, <3>1, <3>2, <3>3
    <2> QED BY <2>1, <2>2
  <1>11. \A b, d \in DOMAIN dr2 :
            Node(b) = Node(d) /\ dr2[b] = dr2[d] /\ <<Node(b), dr2[b]>> \notin sh2 => b = d
    <2>1. \A b, d \in DOMAIN dr :
              Node(b) = Node(d) /\ dr[b] = dr[d] /\ <<Node(b), dr[b]>> \notin sh => b = d
      BY DEF Serves
    <2> QED BY <1>1, <1>8, <2>1
  <1>12. ASSUME NEW b \in DOMAIN dr2 \ (ea2 \cup do), <<Node(b), dr2[b]>> \notin sh2
         PROVE  Node(b) \in DOMAIN ps2[dr2[b]] /\ ps2[dr2[b]][Node(b)] = b
    <2>1. CASE b # a
      <3>1. b \in DOMAIN dr \ (ea \cup do) /\ dr2[b] = dr[b]
        BY <1>1, <1>12, <2>1
      <3>2. Node(b) \in DOMAIN ps[dr[b]] /\ ps[dr[b]][Node(b)] = b
        BY <1>8, <1>12, <3>1 DEF Serves
      <3> QED BY <1>6, <1>7, <3>1, <3>2
    <2>2. CASE b = a
      <3>1. a \in DOMAIN es /\ a \notin do /\ dr2[b] = r
        BY <1>1, <1>12, <2>2
      <3>2. Node(a) \notin DOMAIN ps[r]
        <4>1. SUFFICES ASSUME Node(a) \in DOMAIN ps[r] PROVE FALSE
          OBVIOUS
        <4> DEFINE d == ps[r][Node(a)]
        <4>2. d \in DOMAIN es /\ es[d] = r /\ Node(d) = Node(a) /\ r # None
          BY <4>1, NoneAssumption DEF Fits
        <4>3. ids[d] \in DOMAIN dr /\ dr[ids[d]] = r
          BY <4>2 DEF Fits
        <4>4. Node(ids[d]) = Node(a)
          BY <1>2, <4>2
        <4> QED BY <1>12, <2>2, <3>1, <4>3, <4>4 DEF IsShared
      <3>3. ps2[r] = With(ps[r], Node(a), a)
        BY <1>9, <3>1, <3>2, AddFacts
      <3>4. DOMAIN ps2[r] = DOMAIN ps[r] \cup {Node(a)} /\ ps2[r][Node(a)] = a
        BY <3>3 DEF With
      <3> QED BY <2>2, <3>1, <3>4
    <2> QED BY <2>1, <2>2
  <1>13. Serves(es2, ids, ps2, dr2, ea2, do, sh2)
    BY <1>4, <1>10, <1>11, <1>12 DEF Serves
  <1> QED BY <1>13 DEF dr2


-----------------------------------------------------------------------------
(* The steps.                                                              *)
LEMMA SceneInit == Init => Scene
  <1> SUFFICES ASSUME Init PROVE Scene
    OBVIOUS
  <1>1. DOMAIN Empty = {} /\ << >> \in Seq(Kinds) /\ DOMAIN << >> = {}
    BY DEF Empty
  <1>2. Usable(<< >>, {}) = {}
    BY DEF Usable
  <1>3. SceneTyped /\ FirstIsNamed /\ NewComeLater
    BY <1>1, <1>2 DEF Init, SceneTyped, FirstIsNamed, NewComeLater
  <1>4. SceneFits
    BY <1>1 DEF Init, SceneFits, Fits, Named
  <1>5. SceneServes
    BY <1>1 DEF Init, SceneServes, Serves
  <1> QED BY <1>3, <1>4, <1>5 DEF Scene

LEMMA DropNodeKeeps == ASSUME Scene, NEW n \in Nodes, DropNode(n) PROVE Scene'
  <1>1. /\ UNCHANGED <<adapters, fetched, entries, identifiers, participants, drawn, early, doubled, shared>>
        /\ nodes' = nodes \cup {n} /\ unused' = unused \ {n}
    BY DEF DropNode
  <1>2. SceneFits' /\ SceneServes'
    BY <1>1, NextScene DEF Scene, SceneFits, SceneServes
  <1>3. SceneTyped'
    BY <1>1 DEF Scene, SceneTyped, Node
  <1>4. FirstIsNamed' /\ NewComeLater'
    BY <1>1 DEF Scene, FirstIsNamed, NewComeLater
  <1> QED BY <1>2, <1>3, <1>4 DEF Scene

LEMMA AddAdapterKeeps == ASSUME Scene, NEW k \in Kinds, AddAdapter(k) PROVE Scene'
  <1> DEFINE new == Len(adapters) + 1
  <1>1. /\ adapters \in Seq(Kinds) /\ adapters' \in Seq(Kinds)
        /\ new \in DOMAIN adapters' /\ adapters'[new] = k
        /\ DOMAIN adapters \subseteq DOMAIN adapters'
        /\ \A a \in DOMAIN adapters : adapters'[a] = adapters[a] /\ a <= new /\ a \in Nat
    BY DEF Scene, SceneTyped, AddAdapter
  <1>2. /\ UNCHANGED <<nodes, unused, entries, identifiers, participants, drawn, early, doubled, shared>>
        /\ fetched' = fetched \cup {new} /\ k.node \in nodes
    BY DEF AddAdapter
  <1>3. fetched \subseteq DOMAIN adapters /\ DOMAIN drawn \subseteq fetched
        /\ DOMAIN identifiers \subseteq DOMAIN adapters
        /\ \A c \in DOMAIN identifiers : identifiers[c] \in DOMAIN adapters
    BY DEF Scene, SceneTyped, SceneFits, Fits, Named
  <1> HIDE DEF new
  <1>4. \A a, b \in DOMAIN adapters : SameAddress(adapters', a, b) <=> SameAddress(adapters, a, b)
    BY <1>1 DEF SameAddress
  <1>5. SceneTyped'
    BY <1>1, <1>2, <1>3 DEF Scene, SceneTyped, Node
  <1>6. FirstIsNamed'
    <2> SUFFICES ASSUME NEW c \in DOMAIN identifiers, NEW a \in fetched \cup {new},
                        SameAddress(adapters', a, c)
                 PROVE  identifiers[c] <= a
      BY <1>2 DEF FirstIsNamed
    <2>1. CASE a = new
      BY <1>1, <1>3, <2>1
    <2>2. CASE a \in fetched
      <3>1. SameAddress(adapters, a, c)
        BY <1>3, <1>4, <2>2
      <3> QED BY <2>2, <3>1 DEF Scene, FirstIsNamed
    <2> QED BY <2>1, <2>2
  <1>7. NewComeLater'
    <2> SUFFICES ASSUME NEW a \in Usable(adapters', fetched \cup {new}) \ DOMAIN identifiers,
                        NEW c \in DOMAIN identifiers
                 PROVE  c <= a
      BY <1>2 DEF NewComeLater
    <2>1. CASE a = new
      BY <1>1, <1>3, <2>1
    <2>2. CASE a # new
      <3>1. a \in fetched /\ adapters[a].usable
        BY <1>1, <1>3, <2>2 DEF Usable
      <3>2. a \in Usable(adapters, fetched) \ DOMAIN identifiers
        BY <3>1 DEF Usable
      <3> QED BY <3>2 DEF Scene, NewComeLater
    <2> QED BY <2>1, <2>2
  <1>8. SceneFits'
    <2>1. Fits(entries, identifiers, participants, drawn)
      BY DEF Scene, SceneFits
    <2>2. \A c \in DOMAIN identifiers : /\ identifiers[c] \in DOMAIN adapters'
                                        /\ SameAddress(adapters', identifiers[c], c)
      BY <1>1, <1>3, <1>4, <2>1 DEF Fits, Named
    <2>3. Named(identifiers)'
      BY <1>1, <1>2, <1>3, <2>1, <2>2 DEF Fits, Named
    <2>4. \A r \in DOMAIN participants : \A n \in DOMAIN participants[r] :
              adapters'[participants[r][n]].node = n
      BY <1>1, <1>3, <2>1 DEF Fits, Node
    <2>5. DOMAIN drawn \subseteq DOMAIN adapters'
      BY <1>1, <1>3
    <2> QED BY <1>2, <2>1, <2>3, <2>4, <2>5 DEF SceneFits, Fits, IsFirst, Node
  <1>9. SceneServes'
    <2>1. \A a \in DOMAIN drawn : adapters'[a].node = adapters[a].node
      BY <1>1, <1>3
    <2> QED BY <1>2, <2>1 DEF Scene, SceneServes, Serves, Node
  <1> QED BY <1>5, <1>6, <1>7, <1>8, <1>9 DEF Scene

LEMMA DropRouterKeeps == ASSUME Scene, NEW r \in Routers, DropRouter(r) PROVE Scene'
  <1>1. /\ DOMAIN participants' = DOMAIN participants \cup {r} /\ r \notin DOMAIN participants
        /\ DOMAIN participants'[r] = {}
        /\ \A s \in DOMAIN participants : participants'[s] = participants[s]
        /\ UNCHANGED <<nodes, adapters, fetched, entries, identifiers, drawn, early, doubled, shared>>
        /\ unused' = unused \ {r}
    BY DEF DropRouter, With, Empty, Scene, SceneTyped
  <1>2. Fits(entries, identifiers, participants', drawn)
    BY <1>1 DEF Scene, SceneFits, Fits
  <1>3. Serves(entries, identifiers, participants', drawn, early, doubled, shared)
    BY <1>1 DEF Scene, SceneFits, SceneServes, Fits, Serves
  <1>4. SceneFits' /\ SceneServes'
    BY <1>1, <1>2, <1>3, NextScene
  <1>5. SceneTyped'
    BY <1>1 DEF Scene, SceneTyped, Node
  <1>6. FirstIsNamed' /\ NewComeLater'
    BY <1>1 DEF Scene, FirstIsNamed, NewComeLater
  <1> QED BY <1>4, <1>5, <1>6 DEF Scene

LEMMA RemoveAdapterKeeps == ASSUME Scene, NEW a \in fetched, RemoveAdapter(a) PROVE Scene'
  <1>1. IsUnlinked(a, entries', participants')
    BY UnlinkedFacts DEF RemoveAdapter
  <1>2. /\ drawn' = Without(drawn, {a}) /\ early' = early \ {a} /\ fetched' = fetched \ {a}
        /\ UNCHANGED <<nodes, unused, adapters, identifiers, doubled, shared>>
    BY DEF RemoveAdapter
  <1>3. Fits(entries', identifiers, participants', drawn')
    BY <1>1, <1>2, UnlinkFits
  <1>4. Serves(entries', identifiers, participants', drawn', early, doubled, shared)
    BY <1>1, <1>2, UnlinkServes
  <1>5. DOMAIN drawn' = DOMAIN drawn \ {a}
    BY <1>2, WithoutFacts
  <1>6. Serves(entries', identifiers, participants', drawn', early \ {a}, doubled, shared)
    BY <1>4, <1>5 DEF Serves
  <1>7. SceneFits' /\ SceneServes'
    BY <1>2, <1>3, <1>6, NextScene
  <1>8. DOMAIN participants' = DOMAIN participants
    BY <1>1 DEF IsUnlinked, IsRemoved
  <1>9. SceneTyped'
    BY <1>2, <1>5, <1>8 DEF Scene, SceneTyped, Node
  <1>10. FirstIsNamed' /\ NewComeLater'
    BY <1>2 DEF Scene, FirstIsNamed, NewComeLater, Usable
  <1> QED BY <1>7, <1>9, <1>10 DEF Scene

LEMMA RemoveRouterKeeps == ASSUME Scene, NEW r \in Routers, RemoveRouter(r) PROVE Scene'
  <1>1. /\ DOMAIN participants' = DOMAIN participants \ {r}
        /\ \A s \in DOMAIN participants' : participants'[s] = participants[s]
        /\ DOMAIN entries' = DOMAIN entries
        /\ \A a \in DOMAIN entries : entries'[a] = IF entries[a] = r THEN None ELSE entries[a]
        /\ DOMAIN drawn' = {a \in DOMAIN drawn : drawn[a] # r}
        /\ \A a \in DOMAIN drawn' : drawn'[a] = drawn[a]
        /\ UNCHANGED <<nodes, unused, adapters, fetched, identifiers, early, doubled, shared>>
    BY DEF RemoveRouter, AfterRouter, Without, Restrict
  <1> DEFINE es == entries'
             ps == participants'
             dr == drawn'
  <1>2. Fits(es, identifiers, ps, dr)
    <2>1. Fits(entries, identifiers, participants, drawn)
      BY DEF Scene, SceneFits
    <2>2. \A c \in DOMAIN es : es[c] # None => es[c] = entries[c] /\ identifiers[c] \in DOMAIN dr
      BY <1>1, <2>1 DEF Fits
    <2>3. \A s \in DOMAIN ps : \A n \in DOMAIN ps[s] :
              /\ n \in DOMAIN participants[s] /\ ps[s][n] = participants[s][n]
              /\ participants[s][n] \in DOMAIN es
              /\ es[participants[s][n]] = entries[participants[s][n]]
      BY <1>1, <2>1 DEF Fits
    <2>4. /\ DOMAIN es = DOMAIN identifiers
          /\ \A a \in DOMAIN dr : dr[a] = drawn[a] /\ drawn[a] \in DOMAIN ps
          /\ DOMAIN ps \subseteq DOMAIN participants /\ DOMAIN dr \subseteq DOMAIN drawn
      BY <1>1, <2>1 DEF Fits
    <2> HIDE DEF es, ps, dr
    <2> QED BY <2>1, <2>2, <2>3, <2>4, LossFits
  <1>3. Serves(es, identifiers, ps, dr, early, doubled, shared)
    <2>1. \A a \in DOMAIN drawn' : a \in DOMAIN drawn /\ drawn'[a] = drawn[a] /\ drawn[a] # r
                                   /\ drawn[a] \in DOMAIN participants'
      BY <1>1 DEF Scene, SceneFits, Fits
    <2> QED BY <1>1, <2>1 DEF Scene, SceneServes, Serves
  <1>4. SceneFits' /\ SceneServes'
    BY <1>1, <1>2, <1>3, NextScene
  <1>5. SceneTyped'
    BY <1>1 DEF Scene, SceneTyped, Node
  <1>6. FirstIsNamed' /\ NewComeLater'
    BY <1>1 DEF Scene, FirstIsNamed, NewComeLater
  <1> QED BY <1>4, <1>5, <1>6 DEF Scene

LEMMA RemoveNodeKeeps == ASSUME Scene, NEW n \in Nodes, RemoveNode(n) PROVE Scene'
  <1> DEFINE served == {entries[c] : c \in AdaptersOf(n) \cap DOMAIN entries}
             es == entries'
             ids == identifiers'
             ps == participants'
             dr == drawn'
  <1>1. /\ DOMAIN ps = DOMAIN participants
        /\ \A r \in DOMAIN participants :
              DOMAIN ps[r] = IF r \in served THEN DOMAIN participants[r] \ {n} ELSE DOMAIN participants[r]
        /\ \A r \in DOMAIN participants : \A m \in DOMAIN ps[r] : ps[r][m] = participants[r][m]
    <2>1. ps = RemoveParticipant(participants, served, n)
      BY DEF RemoveNode
    <2>2. IsRemoved(participants, served, n, ps)
      BY <2>1, RemoveFacts
    <2> HIDE DEF served, ps
    <2> QED BY <2>2 DEF IsRemoved
  <1>2. /\ DOMAIN es = DOMAIN entries \ AdaptersOf(n) /\ DOMAIN ids = DOMAIN identifiers \ AdaptersOf(n)
        /\ DOMAIN dr = DOMAIN drawn \ AdaptersOf(n)
        /\ \A c \in DOMAIN es : es[c] = entries[c]
        /\ \A c \in DOMAIN ids : ids[c] = identifiers[c]
        /\ \A a \in DOMAIN dr : dr[a] = drawn[a]
    BY DEF RemoveNode, Without, Restrict
  <1>3. /\ nodes' = nodes \ {n} /\ fetched' = fetched \ AdaptersOf(n) /\ early' = early \ AdaptersOf(n)
        /\ UNCHANGED <<unused, adapters, doubled, shared>>
    BY DEF RemoveNode
  <1>4. \A a \in DOMAIN adapters : a \in AdaptersOf(n) <=> Node(a) = n
    BY DEF AdaptersOf
  <1>5. /\ Fits(entries, identifiers, participants, drawn) /\ Named(identifiers)
        /\ DOMAIN entries = DOMAIN identifiers /\ DOMAIN identifiers \subseteq DOMAIN adapters
        /\ \A c \in DOMAIN identifiers : /\ Node(identifiers[c]) = Node(c)
                                         /\ identifiers[c] \in DOMAIN adapters
    BY NamedFacts DEF Scene, SceneTyped, SceneFits, Fits, Named
  <1>6. ASSUME NEW r \in DOMAIN ps, NEW m \in DOMAIN ps[r]
        PROVE  /\ m \in DOMAIN participants[r] /\ ps[r][m] = participants[r][m]
               /\ participants[r][m] \in DOMAIN es
               /\ es[participants[r][m]] = entries[participants[r][m]]
    <2>1. r \in DOMAIN participants /\ m \in DOMAIN participants[r] /\ ps[r][m] = participants[r][m]
      BY <1>1
    <2>2. /\ participants[r][m] \in DOMAIN entries /\ entries[participants[r][m]] = r
          /\ Node(participants[r][m]) = m /\ participants[r][m] \in DOMAIN adapters
      BY <1>5, <2>1 DEF Fits
    <2>3. m # n
      <3>1. SUFFICES ASSUME m = n PROVE FALSE
        OBVIOUS
      <3>2. participants[r][m] \in AdaptersOf(n) \cap DOMAIN entries
        BY <1>4, <2>2, <3>1
      <3>3. r \in served
        BY <2>2, <3>2
      <3> QED BY <1>1, <2>1, <3>1, <3>3
    <2> QED BY <1>2, <1>4, <2>1, <2>2, <2>3
  <1> HIDE DEF served, es, ids, ps, dr
  <1>7. Fits(es, ids, ps, dr)
    <2>1. \A c \in DOMAIN es : es[c] # None => es[c] = entries[c] /\ identifiers[c] \in DOMAIN dr
      <3> SUFFICES ASSUME NEW c \in DOMAIN es, es[c] # None PROVE identifiers[c] \in DOMAIN dr
        BY <1>2
      <3>1. c \in DOMAIN identifiers /\ c \notin AdaptersOf(n) /\ identifiers[c] \in DOMAIN drawn
        BY <1>2, <1>5 DEF Fits
      <3>2. identifiers[c] \notin AdaptersOf(n)
        BY <1>4, <1>5, <3>1
      <3> QED BY <1>2, <3>1, <3>2
    <2>2. /\ DOMAIN es = DOMAIN ids /\ DOMAIN ids \subseteq DOMAIN identifiers
          /\ DOMAIN dr \subseteq DOMAIN drawn /\ DOMAIN ps \subseteq DOMAIN participants
          /\ \A a \in DOMAIN dr : dr[a] = drawn[a] /\ drawn[a] \in DOMAIN ps
      BY <1>1, <1>2, <1>5 DEF Fits
    <2> QED BY <1>2, <1>5, <1>6, <2>1, <2>2, LossFits
  <1>8. Serves(es, ids, ps, dr, early', doubled, shared)
    <2>1. \A a \in DOMAIN dr : a \in DOMAIN drawn /\ Node(a) # n /\ dr[a] = drawn[a]
                               /\ drawn[a] \in DOMAIN participants /\ a \notin AdaptersOf(n)
      BY <1>2, <1>4, <1>5 DEF Fits
    <2>2. Serves(entries, identifiers, participants, drawn, early, doubled, shared)
      BY DEF Scene, SceneServes
    <2>3. \A a \in DOMAIN dr \ (early' \cup doubled) : a \in DOMAIN es /\ es[a] = dr[a]
      BY <1>2, <1>3, <2>1, <2>2 DEF Serves
    <2>4. \A a, b \in DOMAIN dr :
              Node(a) = Node(b) /\ dr[a] = dr[b] /\ <<Node(a), dr[a]>> \notin shared => a = b
      BY <2>1, <2>2 DEF Serves
    <2>5. ASSUME NEW a \in DOMAIN dr \ (early' \cup doubled), <<Node(a), dr[a]>> \notin shared
          PROVE  Node(a) \in DOMAIN ps[dr[a]] /\ ps[dr[a]][Node(a)] = a
      <3>1. Node(a) \in DOMAIN participants[drawn[a]] /\ participants[drawn[a]][Node(a)] = a
        BY <1>3, <2>1, <2>2, <2>5 DEF Serves
      <3>2. Node(a) \in DOMAIN ps[drawn[a]]
        BY <1>1, <2>1, <3>1
      <3> QED BY <1>1, <2>1, <3>1, <3>2
    <2>6. \A c \in DOMAIN ids \ doubled : ids[c] = c
      BY <1>2, <2>2 DEF Serves
    <2> QED BY <2>3, <2>4, <2>5, <2>6 DEF Serves
  <1>9. SceneFits' /\ SceneServes'
    BY <1>3, <1>7, <1>8, NextScene DEF es, ids, ps, dr
  <1>10. \A a \in fetched' : a \in DOMAIN adapters /\ Node(a) \in nodes' /\ a \in fetched
    BY <1>3, <1>4 DEF Scene, SceneTyped
  <1>11. SceneTyped'
    BY <1>1, <1>2, <1>3, <1>10 DEF Scene, SceneTyped, Node, es, ids, ps, dr
  <1>12. FirstIsNamed'
    BY <1>2, <1>3 DEF Scene, FirstIsNamed, ids
  <1>13. NewComeLater'
    <2>1. \A a \in Usable(adapters', fetched') \ DOMAIN ids : a \in Usable(adapters, fetched) \ DOMAIN identifiers
      BY <1>2, <1>3 DEF Usable
    <2> QED BY <1>2, <2>1 DEF Scene, NewComeLater, ids
  <1> QED BY <1>9, <1>11, <1>12, <1>13 DEF Scene

LEMMA UpdateKeeps == ASSUME Scene, Update PROVE Scene'
  <1> DEFINE new == Usable(adapters, fetched) \ DOMAIN entries
             es == entries'
             ids == identifiers'
             do == doubled'
  <1>1. /\ UNCHANGED <<nodes, unused, adapters, fetched, participants, drawn, early, shared>>
        /\ DOMAIN es = DOMAIN entries \cup new /\ DOMAIN ids = DOMAIN identifiers \cup new
        /\ \A c \in DOMAIN entries \cup new : es[c] = IF c \in new THEN None ELSE entries[c]
        /\ \A c \in DOMAIN identifiers \cup new :
              ids[c] = IF c \in new THEN GetIdentifier(adapters, fetched, c) ELSE identifiers[c]
        /\ do = doubled \cup (new \cap Doubled(adapters, fetched))
    BY DEF Update
  <1>2. /\ Fits(entries, identifiers, participants, drawn) /\ DOMAIN entries = DOMAIN identifiers
        /\ DOMAIN identifiers \subseteq Nat /\ DOMAIN identifiers \subseteq DOMAIN adapters
        /\ fetched \subseteq DOMAIN adapters /\ fetched \subseteq Nat
        /\ adapters \in Seq(Kinds)
    BY NamedFacts DEF Scene, SceneTyped, SceneFits, Fits, Named
  <1>3. /\ new \subseteq fetched /\ new \cap DOMAIN identifiers = {}
        /\ \A c \in new, d \in DOMAIN identifiers : d <= c
    BY <1>2 DEF Usable, Scene, NewComeLater
  <1>4. ASSUME NEW c \in new
        PROVE  /\ ids[c] \in fetched /\ ids[c] <= c /\ SameAddress(adapters, ids[c], c)
               /\ \A a \in fetched : SameAddress(adapters, a, c) => ids[c] <= a
    <2>1. c \in fetched /\ fetched \in SUBSET Nat
      BY <1>2, <1>3
    <2>2. /\ GetIdentifier(adapters, fetched, c) \in fetched
          /\ SameAddress(adapters, GetIdentifier(adapters, fetched, c), c)
          /\ \A a \in fetched : SameAddress(adapters, a, c) => GetIdentifier(adapters, fetched, c) <= a
      BY <2>1, GetIdentifierFacts
    <2>3. ids[c] = GetIdentifier(adapters, fetched, c)
      BY <1>1
    <2>4. SameAddress(adapters, c, c)
      BY SameAddressFacts
    <2> QED BY <2>1, <2>2, <2>3, <2>4
  <1>5. ASSUME NEW c \in new, c \notin do PROVE ids[c] = c
    <2>1. c \in Usable(adapters, fetched) /\ c \notin Doubled(adapters, fetched)
      BY <1>1, <1>5
    <2>2. ~ (ids[c] < c)
      BY <1>4, <2>1 DEF Doubled
    <2>3. ids[c] \in Nat /\ c \in Nat /\ ids[c] <= c
      BY <1>2, <1>3, <1>4
    <2> QED BY <2>2, <2>3
  <1>6. \A c \in DOMAIN identifiers : ids[c] = identifiers[c] /\ es[c] = entries[c]
    BY <1>1, <1>2, <1>3
  <1> HIDE DEF new, es, ids, do
  <1>7. Named(ids)
    BY <1>1, <1>2, <1>3, <1>4, <1>6 DEF Fits, Named
  <1>8. \A c \in DOMAIN identifiers : IsFirst(identifiers, c) => IsFirst(ids, c)
    BY <1>1, <1>3, <1>6 DEF IsFirst
  <1>9. Fits(es, ids, participants, drawn)
    <2>1. \A c \in DOMAIN es : es[c] # None =>
              ids[c] \in DOMAIN drawn /\ drawn[ids[c]] = es[c] /\ IsFirst(ids, c)
      <3> SUFFICES ASSUME NEW c \in DOMAIN es, es[c] # None
                   PROVE  ids[c] \in DOMAIN drawn /\ drawn[ids[c]] = es[c] /\ IsFirst(ids, c)
        OBVIOUS
      <3>1. c \in DOMAIN entries
        BY <1>1
      <3>2. /\ identifiers[c] \in DOMAIN drawn /\ drawn[identifiers[c]] = entries[c]
            /\ IsFirst(identifiers, c)
        BY <1>2, <1>6, <3>1 DEF Fits
      <3> QED BY <1>2, <1>6, <1>8, <3>1, <3>2
    <2>2. \A r \in DOMAIN participants : \A n \in DOMAIN participants[r] :
              /\ participants[r][n] \in DOMAIN es /\ es[participants[r][n]] = r
              /\ Node(participants[r][n]) = n
      BY <1>1, <1>2, <1>6 DEF Fits
    <2> QED BY <1>1, <1>2, <1>7, <2>1, <2>2 DEF Fits
  <1>10. Serves(es, ids, participants, drawn, early, do, shared)
    <2>1. Serves(entries, identifiers, participants, drawn, early, doubled, shared)
      BY DEF Scene, SceneServes
    <2>2. \A c \in DOMAIN ids \ do : ids[c] = c
      BY <1>1, <1>5, <1>6, <2>1 DEF Serves
    <2>3. \A a \in DOMAIN drawn \ (early \cup do) : a \in DOMAIN es /\ es[a] = drawn[a]
      BY <1>1, <1>2, <1>6, <2>1 DEF Serves
    <2> QED BY <1>1, <2>1, <2>2, <2>3 DEF Serves
  <1>11. SceneFits' /\ SceneServes'
    <2>1. Fits(entries', identifiers', participants', drawn')
      BY <1>1, <1>9 DEF es, ids
    <2>2. Serves(entries', identifiers', participants', drawn', early', doubled', shared')
      BY <1>1, <1>10 DEF es, ids, do
    <2> QED BY <1>1, <2>1, <2>2, NextScene
  <1>12. SceneTyped'
    <2>1. do \subseteq DOMAIN adapters
      BY <1>1, <1>2, <1>3 DEF Scene, SceneTyped
    <2> QED BY <1>1, <2>1 DEF Scene, SceneTyped, Node, do
  <1>13. FirstIsNamed'
    BY <1>1, <1>4, <1>6 DEF Scene, FirstIsNamed, ids
  <1>14. NewComeLater'
    <2>1. Usable(adapters, fetched) \subseteq DOMAIN ids
      BY <1>1, <1>2 DEF new
    <2> QED BY <1>1, <2>1 DEF NewComeLater, ids
  <1> QED BY <1>11, <1>12, <1>13, <1>14 DEF Scene

LEMMA ConnectKeeps == ASSUME Scene, NEW a \in fetched, NEW r \in Routers, Connect(a, r) PROVE Scene'
  <1> DEFINE es == IF a \in DOMAIN drawn THEN Unlinked(a).entries ELSE entries
             ps == IF a \in DOMAIN drawn THEN Unlinked(a).participants ELSE participants
             dr == IF a \in DOMAIN drawn THEN Without(drawn, {a}) ELSE drawn
  <1>1. /\ DOMAIN dr = DOMAIN drawn \ {a} /\ \A b \in DOMAIN dr : dr[b] = drawn[b]
        /\ drawn' = With(dr, a, r)
    <2>1. CASE a \in DOMAIN drawn
      <3>1. With(Without(drawn, {a}), a, r) = With(drawn, a, r)
        BY DEF With, Without, Restrict
      <3>2. /\ DOMAIN Without(drawn, {a}) = DOMAIN drawn \ {a}
            /\ \A b \in DOMAIN drawn \ {a} : Without(drawn, {a})[b] = drawn[b]
        BY WithoutFacts
      <3> QED BY <2>1, <3>1, <3>2 DEF Connect
    <2>2. CASE a \notin DOMAIN drawn
      BY <2>2 DEF Connect
    <2> QED BY <2>1, <2>2
  <1>2. /\ Fits(es, identifiers, ps, dr) /\ Serves(es, identifiers, ps, dr, early, doubled, shared)
        /\ DOMAIN es = DOMAIN entries /\ DOMAIN ps = DOMAIN participants
    <2>1. CASE a \in DOMAIN drawn
      <3>1. IsUnlinked(a, es, ps)
        BY <2>1, UnlinkedFacts
      <3>2. dr = Without(drawn, {a})
        BY <2>1
      <3> HIDE DEF es, ps, dr
      <3>3. Fits(es, identifiers, ps, Without(drawn, {a}))
        BY <3>1, UnlinkFits
      <3>4. Serves(es, identifiers, ps, Without(drawn, {a}), early, doubled, shared)
        BY <3>1, UnlinkServes
      <3>5. DOMAIN es = DOMAIN entries /\ DOMAIN ps = DOMAIN participants
        BY <3>1 DEF IsUnlinked, IsRemoved
      <3> QED BY <3>2, <3>3, <3>4, <3>5
    <2>2. CASE a \notin DOMAIN drawn
      BY <2>2 DEF Scene, SceneFits, SceneServes
    <2> QED BY <2>1, <2>2
  <1>3. r \in DOMAIN ps
    BY <1>2 DEF Connect
  <1>4. IF HasEntry(identifiers, a)
        THEN /\ entries' = [es EXCEPT ![EntryOf(identifiers, a)] = r]
             /\ participants' = AddParticipant(ps, r, Node(a), EntryOf(identifiers, a))
        ELSE entries' = es /\ participants' = ps
    <2>1. CASE a \in DOMAIN drawn
      BY <1>3, <2>1 DEF Connect, Linked
    <2>2. CASE a \notin DOMAIN drawn
      BY <1>3, <2>2 DEF Connect, Linked
    <2> QED BY <2>1, <2>2
  <1>5. /\ UNCHANGED <<nodes, unused, adapters, fetched, identifiers, doubled>>
        /\ early' = IF a \in DOMAIN es THEN early \ {a} ELSE early \cup {a}
    BY <1>2 DEF Connect
  <1>6. IsShared(dr, a, r, shared, shared')
    <2>1. Connected(Node(a), r) \ {a} # {} <=> \E b \in DOMAIN dr : Node(b) = Node(a) /\ dr[b] = r
      BY <1>1 DEF Connected
    <2>2. shared' = IF Connected(Node(a), r) \ {a} # {}
                    THEN shared \cup {<<Node(a), r>>} ELSE shared \ {<<Node(a), r>>}
      BY DEF Connect
    <2> HIDE DEF dr
    <2> QED BY <2>1, <2>2 DEF IsShared
  <1>7. /\ a \in DOMAIN adapters /\ adapters \in Seq(Kinds) /\ a \notin DOMAIN dr
    BY <1>1 DEF Scene, SceneTyped
  <1> HIDE DEF es, ps, dr
  <1>8. Serves(entries', identifiers, participants', With(dr, a, r), early', doubled, shared')
    <2> DEFINE es2 == entries'
               ps2 == participants'
               ea2 == early'
               sh2 == shared'
    <2>1. /\ IsShared(dr, a, r, shared, sh2)
          /\ IF HasEntry(identifiers, a)
             THEN /\ es2 = [es EXCEPT ![EntryOf(identifiers, a)] = r]
                  /\ ps2 = AddParticipant(ps, r, Node(a), EntryOf(identifiers, a))
             ELSE es2 = es /\ ps2 = ps
          /\ ea2 = IF a \in DOMAIN es THEN early \ {a} ELSE early \cup {a}
      BY <1>4, <1>5, <1>6
    <2> HIDE DEF es2, ps2, ea2, sh2
    <2>2. Serves(es2, identifiers, ps2, With(dr, a, r), ea2, doubled, sh2)
      BY <1>2, <1>3, <1>7, <2>1, LinkServes
    <2> QED BY <2>2 DEF es2, ps2, ea2, sh2
  <1>9. DOMAIN With(dr, a, r) = DOMAIN dr \cup {a} /\ With(dr, a, r)[a] = r
        /\ \A b \in DOMAIN dr \ {a} : With(dr, a, r)[b] = dr[b]
    BY DEF With
  <1>10. Fits(entries', identifiers, participants', With(dr, a, r))
         /\ DOMAIN participants' = DOMAIN participants
    <2>1. CASE HasEntry(identifiers, a)
      <3> DEFINE es2 == entries'
                 ps2 == participants'
      <3>1. /\ es2 = [es EXCEPT ![EntryOf(identifiers, a)] = r]
            /\ ps2 = AddParticipant(ps, r, Node(a), EntryOf(identifiers, a))
        BY <1>4, <2>1
      <3> HIDE DEF es2, ps2
      <3>2. Fits(es2, identifiers, ps2, With(dr, a, r))
        BY <1>2, <1>3, <1>7, <2>1, <3>1, LinkFits
      <3>3. DOMAIN ps2 = DOMAIN ps
        BY <1>3, <3>1, AddFacts
      <3> QED BY <1>2, <3>2, <3>3 DEF es2, ps2
    <2>2. CASE ~HasEntry(identifiers, a)
      <3>1. entries' = es /\ participants' = ps
        BY <1>4, <2>2
      <3>2. Fits(es, identifiers, ps, With(dr, a, r))
        BY <1>2, <1>3, <1>7, <1>9 DEF Fits
      <3> QED BY <1>2, <3>1, <3>2
    <2> QED BY <2>1, <2>2
  <1>11. SceneFits' /\ SceneServes'
    BY <1>1, <1>5, <1>8, <1>10, NextScene
  <1>12. SceneTyped'
    <2>1. DOMAIN drawn' \subseteq fetched
      BY <1>1, <1>9 DEF Scene, SceneTyped
    <2>2. early' \subseteq DOMAIN adapters
      BY <1>5, <1>7 DEF Scene, SceneTyped
    <2>3. Node(a) \in Nodes
      BY <1>7, KindsTyped DEF Node
    <2>4. shared' \subseteq Nodes \X Routers
      BY <2>3 DEF Connect, Scene, SceneTyped
    <2> QED BY <1>5, <1>10, <2>1, <2>2, <2>4 DEF Scene, SceneTyped, Node
  <1>13. FirstIsNamed' /\ NewComeLater'
    BY <1>5 DEF Scene, FirstIsNamed, NewComeLater
  <1> QED BY <1>11, <1>12, <1>13 DEF Scene

(* What was saved, entered and linked: a client for every usable adapter,  *)
(* in the name of the first of its address.                                *)
LEMMA IdentifiersFacts ==
    ASSUME NEW file \in Files, NEW ids, ids = Identifiers(file)
    PROVE  LET as == file.adapters IN
           /\ DOMAIN as \subseteq Nat /\ DOMAIN ids = Usable(as, DOMAIN as)
           /\ DOMAIN ids \subseteq DOMAIN as
           /\ \A c \in DOMAIN ids :
                 /\ ids[c] \in DOMAIN as /\ ids[c] <= c /\ SameAddress(as, ids[c], c)
                 /\ c \notin Doubled(as, DOMAIN as) => ids[c] = c
                 /\ \A a \in DOMAIN as : SameAddress(as, a, c) => ids[c] <= a
  <1> DEFINE as == file.adapters
  <1>1. as \in Seq(Kinds) /\ DOMAIN as \subseteq Nat
    <2>1. as \in Seq(Kinds)
      BY FilesTyped
    <2>2. \A s \in Seq(Kinds) : DOMAIN s \subseteq Nat
      OBVIOUS
    <2> QED BY <2>1, <2>2, Zenon
  <1>2. /\ DOMAIN ids = Usable(as, DOMAIN as)
        /\ \A c \in Usable(as, DOMAIN as) : ids[c] = GetIdentifier(as, DOMAIN as, c)
    BY DEF Identifiers
  <1>3. Usable(as, DOMAIN as) \subseteq DOMAIN as
    BY DEF Usable
  <1> HIDE DEF as
  <1>4. ASSUME NEW c \in DOMAIN ids
        PROVE  /\ ids[c] \in DOMAIN as /\ ids[c] <= c /\ SameAddress(as, ids[c], c)
               /\ c \notin Doubled(as, DOMAIN as) => ids[c] = c
               /\ \A a \in DOMAIN as : SameAddress(as, a, c) => ids[c] <= a
    <2>1. c \in DOMAIN as /\ DOMAIN as \in SUBSET Nat /\ c \in Usable(as, DOMAIN as)
      BY <1>1, <1>2, <1>3
    <2>2. /\ ids[c] \in DOMAIN as /\ SameAddress(as, ids[c], c)
          /\ \A a \in DOMAIN as : SameAddress(as, a, c) => ids[c] <= a
      <3> DEFINE all == DOMAIN as
      <3> HIDE DEF all
      <3>1. all \in SUBSET Nat /\ c \in all
        BY <2>1 DEF all
      <3>2. /\ GetIdentifier(as, all, c) \in all
            /\ SameAddress(as, GetIdentifier(as, all, c), c)
            /\ \A a \in all : SameAddress(as, a, c) => GetIdentifier(as, all, c) <= a
        BY <3>1, GetIdentifierFacts
      <3>3. ids[c] = GetIdentifier(as, all, c)
        BY <1>2, <2>1 DEF all
      <3> QED BY <3>2, <3>3, Zenon DEF all
    <2>3. ids[c] <= c
      BY <2>1, <2>2, SameAddressFacts
    <2>4. c \notin Doubled(as, DOMAIN as) => ~ (ids[c] < c)
      BY <2>1, <2>2 DEF Doubled
    <2>5. c \in Nat /\ ids[c] \in Nat
      BY <1>1, <2>1, <2>2
    <2>6. c \notin Doubled(as, DOMAIN as) => ids[c] = c
      BY <2>3, <2>4, <2>5
    <2> QED BY <2>2, <2>3, <2>6, Zenon
  <1> QED BY <1>1, <1>2, <1>3, <1>4 DEF as

(* The first adapter of a node linked to a router is one.                  *)
LEMMA FirstIsLinked ==
    ASSUME NEW file \in Files, NEW order \in Orders(file), NEW linked \in SUBSET DOMAIN file.drawn,
           NEW n \in {file.adapters[a].node : a \in linked}
    PROVE  LET a == order[FirstOf(file, order, n, linked)] IN
           a \in linked /\ file.adapters[a].node = n
  <1> DEFINE size == Cardinality(DOMAIN file.drawn)
             places == {i \in DOMAIN order : file.adapters[order[i]].node = n /\ order[i] \in linked}
  <1>1. order \in [1 .. size -> DOMAIN file.drawn]
        /\ \A c \in DOMAIN file.drawn : \E i \in 1 .. size : order[i] = c
    BY DEF Orders, Bijection, Surjection, Injection
  <1> HIDE DEF size
  <1>2. PICK a \in linked : file.adapters[a].node = n
    OBVIOUS
  <1>3. places # {} /\ places \subseteq Nat
    BY <1>1, <1>2
  <1>4. Min(places) \in places
    <2> HIDE DEF places
    <2> QED BY <1>3, MinFacts
  <1>5. FirstOf(file, order, n, linked) = Min(places)
    BY DEF FirstOf
  <1> QED BY <1>4, <1>5

LEMMA LoadKeeps ==
    ASSUME NEW file \in Files, NEW ids, ids = Identifiers(file), NEW order \in Orders(file),
           Load(file, ids, order)
    PROVE  Scene'
  <1> DEFINE as == file.adapters
             es == [c \in DOMAIN ids |-> RouterOf(file, ids, c)]
             ps == [r \in file.routers |-> ParticipantsOf(file, ids, order, LinkedTo(file, ids, r))]
             do == Doubled(as, DOMAIN as)
             sh == shared'
  <1>1. /\ file.nodes \subseteq Nodes /\ file.routers \subseteq Routers
        /\ as \in Seq(Kinds) /\ \A a \in DOMAIN as : as[a].node \in file.nodes
        /\ DOMAIN file.drawn \subseteq DOMAIN as
        /\ \A a \in DOMAIN file.drawn : file.drawn[a] \in file.routers
    BY FilesTyped
  <1>2. /\ nodes' = file.nodes /\ unused' = (Nodes \cup Routers) \ (file.nodes \cup file.routers)
        /\ adapters' = as /\ fetched' = DOMAIN as /\ drawn' = file.drawn /\ identifiers' = ids
        /\ entries' = es /\ participants' = ps /\ early' = DOMAIN file.drawn \ DOMAIN ids
        /\ doubled' = do
    BY DEF Load
  <1>3. /\ DOMAIN as \subseteq Nat /\ DOMAIN ids = Usable(as, DOMAIN as) /\ DOMAIN ids \subseteq DOMAIN as
        /\ \A c \in DOMAIN ids :
              /\ ids[c] \in DOMAIN as /\ ids[c] <= c /\ SameAddress(as, ids[c], c)
              /\ c \notin do => ids[c] = c
              /\ \A a \in DOMAIN as : SameAddress(as, a, c) => ids[c] <= a
              /\ as[ids[c]].node = as[c].node
    BY IdentifiersFacts, SameAddressFacts
  <1>4. \A a : /\ HasEntry(ids, a) <=> \E c \in DOMAIN ids : ids[c] = a
               /\ HasEntry(ids, a) => /\ EntryOf(ids, a) \in DOMAIN ids /\ ids[EntryOf(ids, a)] = a
                                      /\ IsFirst(ids, EntryOf(ids, a))
               /\ \A c \in DOMAIN ids : ids[c] = a /\ IsFirst(ids, c) => c = EntryOf(ids, a)
    <2>1. DOMAIN ids \subseteq Nat
      BY <1>3
    <2> QED BY <2>1, EntryFacts
  <1>5. /\ DOMAIN es = DOMAIN ids
        /\ \A c \in DOMAIN ids :
              es[c] = IF ids[c] \in DOMAIN file.drawn /\ c = EntryOf(ids, ids[c])
                      THEN file.drawn[ids[c]] ELSE None
    BY DEF RouterOf
  <1>6. ASSUME NEW r \in file.routers
        PROVE  /\ DOMAIN ps[r] = {as[a].node : a \in LinkedTo(file, ids, r)}
               /\ \A n \in DOMAIN ps[r] :
                     ps[r][n] = EntryOf(ids, order[FirstOf(file, order, n, LinkedTo(file, ids, r))])
    BY DEF ParticipantsOf
  <1>7. \A r : LinkedTo(file, ids, r) = {a \in DOMAIN file.drawn : file.drawn[a] = r /\ HasEntry(ids, a)}
    BY DEF LinkedTo
  <1>8. ASSUME NEW r \in file.routers, NEW n \in DOMAIN ps[r]
        PROVE  \E a \in DOMAIN file.drawn :
                   /\ file.drawn[a] = r /\ as[a].node = n
                   /\ ps[r][n] \in DOMAIN ids /\ ids[ps[r][n]] = a /\ ps[r][n] = EntryOf(ids, a)
    <2> DEFINE linked == LinkedTo(file, ids, r)
               a == order[FirstOf(file, order, n, linked)]
    <2>1. linked \in SUBSET DOMAIN file.drawn /\ n \in {as[b].node : b \in linked}
      BY <1>6, <1>7
    <2>2. a \in linked /\ as[a].node = n
      <3> HIDE DEF linked
      <3> QED BY <2>1, FirstIsLinked
    <2>3. a \in DOMAIN file.drawn /\ file.drawn[a] = r /\ HasEntry(ids, a)
      BY <1>7, <2>2
    <2>4. ps[r][n] = EntryOf(ids, a)
      BY <1>6
    <2> HIDE DEF a
    <2> QED BY <1>4, <2>2, <2>3, <2>4
  <1>9. \A r, n : <<n, r>> \in sh <=>
            \E b, c \in DOMAIN file.drawn : /\ n = as[b].node /\ r = file.drawn[b] /\ c # b
                                            /\ file.drawn[c] = file.drawn[b] /\ as[c].node = as[b].node
    BY DEF Load
  <1>10. DOMAIN ps = file.routers
    OBVIOUS
  <1> HIDE DEF as, es, ps, do, sh
  <1>11. \A a, b \in DOMAIN file.drawn :
            as[a].node = as[b].node /\ file.drawn[a] = file.drawn[b] /\ <<as[a].node, file.drawn[a]>> \notin sh
                => a = b
    <2> SUFFICES ASSUME NEW a \in DOMAIN file.drawn, NEW b \in DOMAIN file.drawn, as[a].node = as[b].node,
                        file.drawn[a] = file.drawn[b], a # b
                 PROVE  <<as[a].node, file.drawn[a]>> \in sh
      OBVIOUS
    <2>1. \E d, c \in DOMAIN file.drawn :
              /\ as[a].node = as[d].node /\ file.drawn[a] = file.drawn[d] /\ c # d
              /\ file.drawn[c] = file.drawn[d] /\ as[c].node = as[d].node
      <3>1. b # a /\ file.drawn[b] = file.drawn[a] /\ as[b].node = as[a].node
        OBVIOUS
      <3> QED BY <3>1, Zenon
    <2> QED BY <1>9, <2>1, Zenon
  <1>12. SceneFits'
    <2>1. \A c \in DOMAIN es : es[c] # None =>
              ids[c] \in DOMAIN file.drawn /\ file.drawn[ids[c]] = es[c] /\ IsFirst(ids, c)
      <3> SUFFICES ASSUME NEW c \in DOMAIN ids, es[c] # None
                   PROVE  ids[c] \in DOMAIN file.drawn /\ file.drawn[ids[c]] = es[c] /\ IsFirst(ids, c)
        BY <1>5
      <3>1. ids[c] \in DOMAIN file.drawn /\ c = EntryOf(ids, ids[c]) /\ file.drawn[ids[c]] = es[c]
        BY <1>5
      <3>2. HasEntry(ids, ids[c])
        BY <1>4
      <3>3. IsFirst(ids, EntryOf(ids, ids[c]))
        BY <1>4, <3>2
      <3> QED BY <3>1, <3>3, Zenon
    <2>2. \A r \in DOMAIN ps : \A n \in DOMAIN ps[r] :
              ps[r][n] \in DOMAIN es /\ es[ps[r][n]] = r /\ as[ps[r][n]].node = n
      <3> SUFFICES ASSUME NEW r \in file.routers, NEW n \in DOMAIN ps[r]
                   PROVE  ps[r][n] \in DOMAIN es /\ es[ps[r][n]] = r /\ as[ps[r][n]].node = n
        BY <1>10
      <3> DEFINE c == ps[r][n]
      <3>1. PICK a \in DOMAIN file.drawn : /\ file.drawn[a] = r /\ as[a].node = n
                                           /\ c \in DOMAIN ids /\ ids[c] = a /\ c = EntryOf(ids, a)
        BY <1>8
      <3> HIDE DEF c
      <3>2. c \in DOMAIN es /\ es[c] = r /\ as[c].node = n
        BY <1>3, <1>5, <3>1
      <3> QED BY <3>2 DEF c
    <2>3. Named(identifiers)'
      <3>1. /\ DOMAIN ids \subseteq DOMAIN as
            /\ \A c \in DOMAIN ids : /\ ids[c] \in DOMAIN as /\ ids[c] <= c
                                     /\ SameAddress(as, ids[c], c)
        BY <1>3
      <3> QED BY <1>2, <3>1 DEF Named
    <2>4. /\ DOMAIN es = DOMAIN ids /\ DOMAIN file.drawn \subseteq DOMAIN as
          /\ DOMAIN ps \subseteq Routers /\ \A a \in DOMAIN file.drawn : file.drawn[a] \in DOMAIN ps
      BY <1>1, <1>5, <1>10
    <2>5. /\ DOMAIN entries' = DOMAIN identifiers' /\ DOMAIN drawn' \subseteq DOMAIN adapters'
          /\ DOMAIN participants' \subseteq Routers
          /\ \A a \in DOMAIN drawn' : drawn'[a] \in DOMAIN participants'
      BY <1>2, <2>4
    <2>6. \A c \in DOMAIN entries' : entries'[c] # None =>
              /\ identifiers'[c] \in DOMAIN drawn' /\ drawn'[identifiers'[c]] = entries'[c]
              /\ IsFirst(identifiers', c)
      BY <1>2, <2>1, Zenon
    <2>7. \A r \in DOMAIN participants' : \A n \in DOMAIN participants'[r] :
              /\ participants'[r][n] \in DOMAIN entries' /\ entries'[participants'[r][n]] = r
              /\ adapters'[participants'[r][n]].node = n
      <3> DEFINE Sound(e, p, drawing) ==
                     \A r \in DOMAIN p : \A n \in DOMAIN p[r] :
                         p[r][n] \in DOMAIN e /\ e[p[r][n]] = r /\ drawing[p[r][n]].node = n
      <3>1. Sound(es, ps, as)
        BY <2>2
      <3>2. participants' = ps /\ entries' = es /\ adapters' = as
        BY <1>2
      <3> HIDE DEF Sound
      <3>3. Sound(entries', participants', adapters')
        BY <3>1, <3>2
      <3> QED BY <3>3, Zenon DEF Sound
    <2>8. (\A r \in DOMAIN participants : \A n \in DOMAIN participants[r] :
              /\ participants[r][n] \in DOMAIN entries /\ entries[participants[r][n]] = r
              /\ Node(participants[r][n]) = n)'
      BY <2>7, Zenon DEF Node
    <2> QED BY <2>3, <2>5, <2>6, <2>8, Zenon DEF SceneFits, Fits
  <1>13. ASSUME NEW a \in DOMAIN file.drawn, a \in DOMAIN ids, a \notin do
         PROVE  HasEntry(ids, a) /\ EntryOf(ids, a) = a
    <2>1. ids[a] = a
      BY <1>3, <1>13
    <2>2. \A d \in DOMAIN ids : ids[d] <= d
      BY <1>3
    <2>3. IsFirst(ids, a)
      BY <2>1, <2>2 DEF IsFirst
    <2> QED BY <1>4, <1>13, <2>1, <2>3
  <1>14. SceneServes'
    <2>1. \A c \in DOMAIN ids \ do : ids[c] = c
      BY <1>3
    <2>2. ASSUME NEW a \in DOMAIN file.drawn, a \in DOMAIN ids, a \notin do
          PROVE  a \in DOMAIN es /\ es[a] = file.drawn[a]
      BY <1>5, <1>13, <2>1, <2>2
    <2>3. ASSUME NEW a \in DOMAIN file.drawn, a \in DOMAIN ids, a \notin do,
                 <<as[a].node, file.drawn[a]>> \notin sh
          PROVE  as[a].node \in DOMAIN ps[file.drawn[a]] /\ ps[file.drawn[a]][as[a].node] = a
      <3>1. file.drawn[a] \in file.routers /\ a \in LinkedTo(file, ids, file.drawn[a])
        BY <1>1, <1>7, <1>13, <2>3
      <3>2. as[a].node \in DOMAIN ps[file.drawn[a]]
        <4>1. DOMAIN ps[file.drawn[a]] = {as[b].node : b \in LinkedTo(file, ids, file.drawn[a])}
          BY <1>6, <3>1
        <4> QED BY <3>1, <4>1, Zenon
      <3>3. PICK b \in DOMAIN file.drawn :
                /\ file.drawn[b] = file.drawn[a] /\ as[b].node = as[a].node
                /\ ps[file.drawn[a]][as[a].node] = EntryOf(ids, b)
        BY <1>8, <3>1, <3>2
      <3>4. b = a
        BY <1>11, <2>3, <3>3
      <3> QED BY <1>13, <2>3, <3>2, <3>3, <3>4
    <2>4. /\ \A a \in DOMAIN file.drawn \ ((DOMAIN file.drawn \ DOMAIN ids) \cup do) :
                a \in DOMAIN es /\ es[a] = file.drawn[a]
          /\ \A a \in DOMAIN file.drawn \ ((DOMAIN file.drawn \ DOMAIN ids) \cup do) :
                <<as[a].node, file.drawn[a]>> \notin sh =>
                    /\ as[a].node \in DOMAIN ps[file.drawn[a]]
                    /\ ps[file.drawn[a]][as[a].node] = a
      BY <2>2, <2>3
    <2> QED BY <1>2, <1>11, <2>1, <2>4 DEF SceneServes, Serves, Node, sh
  <1>15. SceneTyped'
    <2>1. sh \subseteq Nodes \X Routers
      <3>1. \A a \in DOMAIN file.drawn : as[a].node \in Nodes /\ file.drawn[a] \in Routers
        BY <1>1
      <3>2. sh = {<<as[a].node, file.drawn[a]>> : a \in {b \in DOMAIN file.drawn :
                     \E c \in DOMAIN file.drawn \ {b} :
                         /\ file.drawn[c] = file.drawn[b]
                         /\ as[c].node = as[b].node}}
        BY DEF Load, sh, as
      <3> SUFFICES ASSUME NEW x \in sh PROVE x \in Nodes \X Routers
        OBVIOUS
      <3>3. PICK a \in DOMAIN file.drawn : x = <<as[a].node, file.drawn[a]>>
        BY <3>2, Zenon
      <3> QED BY <3>1, <3>3
    <2>2. do \subseteq DOMAIN as
      BY DEF do, Doubled, Usable
    <2> QED BY <1>1, <1>2, <1>10, <2>1, <2>2 DEF SceneTyped, Node, sh
  <1>16. FirstIsNamed' /\ NewComeLater'
    <2>1. FirstIsNamed'
      BY <1>2, <1>3 DEF FirstIsNamed
    <2>2. NewComeLater'
      BY <1>2, <1>3 DEF NewComeLater
    <2> QED BY <2>1, <2>2
  <1> QED BY <1>12, <1>14, <1>15, <1>16 DEF Scene

LEMMA SceneStep == Scene /\ [Next]_vars => Scene'
  <1> SUFFICES ASSUME Scene, [Next]_vars PROVE Scene'
    OBVIOUS
  <1>1. ASSUME NEW n \in Nodes, DropNode(n) \/ RemoveNode(n) PROVE Scene'
    BY <1>1, DropNodeKeeps, RemoveNodeKeeps
  <1>2. ASSUME NEW r \in Routers, DropRouter(r) \/ RemoveRouter(r) PROVE Scene'
    BY <1>2, DropRouterKeeps, RemoveRouterKeeps
  <1>3. ASSUME NEW k \in Kinds, AddAdapter(k) PROVE Scene'
    BY <1>3, AddAdapterKeeps
  <1>4. ASSUME NEW a \in fetched, RemoveAdapter(a) PROVE Scene'
    BY <1>4, RemoveAdapterKeeps
  <1>5. ASSUME NEW a \in fetched, NEW r \in Routers, Connect(a, r) PROVE Scene'
    BY <1>5, ConnectKeeps
  <1>6. ASSUME Update PROVE Scene'
    BY <1>6, UpdateKeeps
  <1>7. ASSUME NEW load \in Loads, Load(load[1], load[2], load[3]) PROVE Scene'
    <2>1. load[1] \in Files /\ load[2] = Identifiers(load[1]) /\ load[3] \in Orders(load[1])
      BY DEF Loads
    <2> QED BY <1>7, <2>1, LoadKeeps
  <1>8. CASE UNCHANGED vars
    <2>1. SceneFits' /\ SceneServes'
      BY <1>8, NextScene DEF vars, Scene, SceneFits, SceneServes
    <2> QED BY <1>8, <2>1 DEF vars, Scene, SceneTyped, FirstIsNamed, NewComeLater, Node
  <1> QED BY <1>1, <1>2, <1>3, <1>4, <1>5, <1>6, <1>7, <1>8 DEF Next

LEMMA SceneHolds == Spec => []Scene
  BY SceneInit, SceneStep, PTL DEF Spec

-----------------------------------------------------------------------------
(* The state of the simulated network keeps its type, for any nodes, kinds *)
(* of adapters, routers and saved scenes.                                  *)
THEOREM SceneTypeCorrect == Spec => []TypeOK
  <1>1. Scene => TypeOK
    <2> SUFFICES ASSUME Scene PROVE TypeOK
      OBVIOUS
    <2>1. /\ \A c \in DOMAIN entries : entries[c] \in DOMAIN participants \cup {None}
          /\ DOMAIN entries \subseteq DOMAIN adapters /\ DOMAIN entries = DOMAIN identifiers
          /\ \A a \in DOMAIN drawn : drawn[a] \in DOMAIN participants
          /\ DOMAIN participants \subseteq Routers
      BY DEF Scene, SceneFits, Fits, Named
    <2>2. Range(identifiers) \subseteq DOMAIN adapters
      BY DEF Range, Scene, SceneFits, Fits, Named
    <2>3. ASSUME NEW r \in DOMAIN participants, NEW n \in DOMAIN participants[r]
          PROVE  n \in nodes /\ Node(participants[r][n]) = n
      <3> DEFINE c == participants[r][n]
      <3>1. c \in DOMAIN entries /\ entries[c] = r /\ Node(c) = n /\ r # None
        BY NoneAssumption DEF Scene, SceneFits, Fits
      <3> HIDE DEF c
      <3>2. identifiers[c] \in fetched /\ Node(identifiers[c]) = Node(c)
        BY <3>1, NamedFacts DEF Scene, SceneTyped, SceneFits, Fits
      <3>3. n \in nodes
        BY <3>1, <3>2 DEF Scene, SceneTyped
      <3> QED BY <3>1, <3>3 DEF c
    <2>4. \A r \in DOMAIN participants :
              /\ DOMAIN participants[r] \subseteq nodes
              /\ \A n \in DOMAIN participants[r] : adapters[participants[r][n]].node = n
      BY <2>3 DEF Node
    <2> QED BY <2>1, <2>2, <2>4 DEF Scene, SceneTyped, TypeOK
  <1> QED BY <1>1, SceneHolds, PTL

(* What an entry leads to: an adapter of its address, drawn to its router. *)
LEMMA LeadsTo ==
    ASSUME Scene, NEW c \in DOMAIN entries, entries[c] \in DOMAIN participants
    PROVE  /\ identifiers[c] \in DOMAIN drawn /\ drawn[identifiers[c]] = entries[c]
           /\ SameAddress(adapters, identifiers[c], c) /\ Node(identifiers[c]) = Node(c)
           /\ IsFirst(identifiers, c)
  <1>1. entries[c] # None
    BY NoneAssumption DEF Scene, SceneFits, Fits
  <1> QED BY <1>1, NamedFacts DEF Scene, SceneTyped, SceneFits, Fits, Named

LEMMA ReceiverFacts ==
    ASSUME NEW x, NEW y \in Receivers(x)
    PROVE  \E e \in Through(x) : \E n \in DOMAIN participants[entries[e]] \ {Node(x)} :
               y = participants[entries[e]][n]
  <1>1. PICK e \in Through(x) : y \in Range(Without(participants[entries[e]], {Node(x)}))
    BY DEF Receivers
  <1> DEFINE f == participants[entries[e]]
             others == Without(f, {Node(x)})
  <1>2. DOMAIN others = DOMAIN f \ {Node(x)} /\ \A n \in DOMAIN f \ {Node(x)} : others[n] = f[n]
    BY WithoutFacts
  <1>3. y \in Range(others)
    BY <1>1
  <1> HIDE DEF f, others
  <1>4. PICK n \in DOMAIN others : y = others[n]
    BY <1>3 DEF Range
  <1>5. n \in DOMAIN f \ {Node(x)} /\ y = f[n]
    BY <1>2, <1>4
  <1> QED BY <1>5 DEF f

(* Nobody but the addresses the scene shows connected receives, however    *)
(* the scene was drawn, loaded and taken apart, whenever clients appeared, *)
(* and whichever adapters have one address or no client.                   *)
THEOREM NobodyElseReceives == Spec => []OnlyNeighboursReceive
  <1>1. Scene => OnlyNeighboursReceive
    <2> SUFFICES ASSUME Scene, NEW c \in DOMAIN entries, NEW e \in Through(c),
                        NEW n \in DOMAIN participants[entries[e]] \ {Node(c)},
                        NEW d, d = participants[entries[e]][n]
                 PROVE  \E a, b \in DOMAIN drawn :
                            /\ SameAddress(adapters, a, c) /\ SameAddress(adapters, b, d)
                            /\ b \in Neighbours(a)
      <3> QED BY ReceiverFacts DEF OnlyNeighboursReceive
    <2> DEFINE a == identifiers[e]
               b == identifiers[d]
    <2>1. e \in DOMAIN entries /\ SameAddress(adapters, e, c) /\ entries[e] \in DOMAIN participants
      BY DEF Through
    <2>2. d \in DOMAIN entries /\ entries[d] = entries[e] /\ Node(d) = n
      BY <2>1 DEF Scene, SceneFits, Fits
    <2>3. a \in DOMAIN drawn /\ drawn[a] = entries[e] /\ SameAddress(adapters, a, e)
      BY <2>1, LeadsTo
    <2>4. b \in DOMAIN drawn /\ drawn[b] = entries[d] /\ SameAddress(adapters, b, d) /\ Node(b) = Node(d)
      BY <2>1, <2>2, LeadsTo
    <2> HIDE DEF a, b
    <2>5. SameAddress(adapters, a, c) /\ Node(a) = Node(c)
      BY <2>1, <2>3, SameAddressFacts DEF Node
    <2>6. b \in Neighbours(a)
      BY <2>2, <2>3, <2>4, <2>5 DEF Neighbours
    <2> QED BY <2>3, <2>4, <2>5, <2>6
  <1> QED BY <1>1, SceneHolds, PTL

(* No datagram is received twice: of the clients of one address, only the  *)
(* first entered for the first adapter of that address has a router.       *)
THEOREM NobodyReceivesTwice == Spec => []SentOnce
  <1>1. Scene => SentOnce
    <2> SUFFICES ASSUME Scene, NEW c \in DOMAIN entries, NEW e \in Through(c), NEW f \in Through(c)
                 PROVE  e = f
      BY DEF SentOnce
    <2>1. /\ e \in DOMAIN entries /\ SameAddress(adapters, e, c) /\ entries[e] \in DOMAIN participants
          /\ f \in DOMAIN entries /\ SameAddress(adapters, f, c) /\ entries[f] \in DOMAIN participants
      BY DEF Through
    <2>2. /\ identifiers[e] \in fetched /\ SameAddress(adapters, identifiers[e], e) /\ IsFirst(identifiers, e)
          /\ identifiers[f] \in fetched /\ SameAddress(adapters, identifiers[f], f) /\ IsFirst(identifiers, f)
      BY <2>1, LeadsTo DEF Scene, SceneTyped
    <2>3. SameAddress(adapters, identifiers[e], f) /\ SameAddress(adapters, identifiers[f], e)
      BY <2>1, <2>2, SameAddressFacts
    <2>4. /\ DOMAIN identifiers = DOMAIN entries /\ e \in Nat /\ f \in Nat
          /\ identifiers[e] \in Nat /\ identifiers[f] \in Nat
      BY <2>1, NamedFacts DEF Scene, SceneTyped, SceneFits, Fits
    <2>5. identifiers[e] <= identifiers[f] /\ identifiers[f] <= identifiers[e]
      BY <2>1, <2>2, <2>3, <2>4 DEF Scene, FirstIsNamed
    <2>6. identifiers[e] = identifiers[f]
      BY <2>4, <2>5
    <2>7. e <= f /\ f <= e
      BY <2>1, <2>2, <2>4, <2>6 DEF IsFirst
    <2> QED BY <2>4, <2>7
  <1> QED BY <1>1, SceneHolds, PTL

(* Every adapter the scene shows connected receives, but for those that    *)
(* had no client when they were connected, those whose address an earlier  *)
(* one had, and the second adapters of a node on one router.               *)
THEOREM ConnectedReceive == Spec => []NeighboursReceive
  <1>1. Scene => NeighboursReceive
    <2> SUFFICES ASSUME Scene, NEW a \in DOMAIN entries, NEW b \in Neighbours(a),
                        {a, b} \cap (early \cup doubled) = {}, <<Node(b), drawn[b]>> \notin shared
                 PROVE  b \in Receivers(a)
      BY DEF NeighboursReceive
    <2>1. a \in DOMAIN drawn /\ b \in DOMAIN drawn /\ drawn[b] = drawn[a] /\ Node(b) # Node(a)
          /\ drawn[a] \in DOMAIN participants
      BY DEF Neighbours, Scene, SceneFits, Fits
    <2>2. entries[a] = drawn[a]
      BY <2>1 DEF Scene, SceneServes, Serves
    <2>3. a \in Through(a)
      BY <2>1, <2>2, SameAddressFacts DEF Through
    <2>4. Node(b) \in DOMAIN participants[drawn[b]] /\ participants[drawn[b]][Node(b)] = b
      BY <2>1 DEF Scene, SceneServes, Serves
    <2>5. b \in Range(Without(participants[entries[a]], {Node(a)}))
      <3>1. Node(b) \in DOMAIN participants[entries[a]] \ {Node(a)} /\ b = participants[entries[a]][Node(b)]
        BY <2>1, <2>2, <2>4
      <3> QED BY <3>1, WithoutFacts DEF Range
    <2> QED BY <2>3, <2>5 DEF Receivers
  <1> QED BY <1>1, SceneHolds, PTL
=============================================================================
