--------------------------- MODULE StoreOpsProofs ---------------------------
(***************************************************************************)
(* What the operations of StoreOps do to a well-formed store, for any      *)
(* keys, fields, values and width of an int.                               *)
(***************************************************************************)
EXTENDS StoreOps, SumProofs, WellFoundedInduction, TLAPS

\* expiryKeys holds exactly the keys with a deadline.
Tracked(st) == st.expiryKeys = {k \in DOMAIN st.data : st.data[k].exp # 0}

\* Stores the program can have.
Sound(st) == IsStore(st) /\ Tracked(st)

(***************************************************************************)
(* Maps.                                                                   *)
(***************************************************************************)

\* Writing a key of a Go map.
LEMMA PutFacts ==
  ASSUME NEW K, NEW V, NEW f, MapOver(f, K, V), NEW k \in K, NEW v \in V
  PROVE  /\ MapOver(Put(f, k, v), K, V)
         /\ DOMAIN Put(f, k, v) = DOMAIN f \cup {k}
         /\ Put(f, k, v)[k] = v
         /\ \A x \in DOMAIN f : x # k => Put(f, k, v)[x] = f[x]
BY DEF MapOver, Put

\* Deleting keys of a Go map.
LEMMA DropFacts ==
  ASSUME NEW K, NEW V, NEW f, MapOver(f, K, V), NEW S
  PROVE  /\ MapOver(Drop(f, S), K, V)
         /\ DOMAIN Drop(f, S) = DOMAIN f \ S
         /\ \A x \in DOMAIN f \ S : Drop(f, S)[x] = f[x]
BY DEF MapOver, Drop, Restrict

\* The map that a missing key stands for.
LEMMA EmptyMap ==
  ASSUME NEW K, NEW V
  PROVE  MapOver(<<>>, K, V) /\ DOMAIN <<>> = {}
<1>1. DOMAIN <<>> = {}
  OBVIOUS
<1>2. <<>> \in [{} -> V]
  OBVIOUS
<1>3. QED
  BY <1>1, <1>2 DEF MapOver

\* The hashes of a store are maps of maps.
Hashes(h) == DOMAIN h \subseteq Keys /\ \A k \in DOMAIN h : MapOver(h[k], Fields, Values)

\* Four maps make a store.
LEMMA MakeStore ==
  ASSUME NEW d, NEW l, NEW h, NEW e,
         MapOver(d, Keys, Entries), MapOver(l, Keys, Seq(Values)), Hashes(h),
         e = {k \in DOMAIN d : d[k].exp # 0}
  PROVE  Sound([data |-> d, lists |-> l, hashes |-> h, expiryKeys |-> e])
BY DEF Sound, IsStore, Tracked, Hashes, MapOver

\* A store is made of four maps.
LEMMA StoreParts ==
  ASSUME NEW st, Sound(st)
  PROVE  /\ MapOver(st.data, Keys, Entries)
         /\ MapOver(st.lists, Keys, Seq(Values))
         /\ Hashes(st.hashes)
         /\ st.expiryKeys = {k \in DOMAIN st.data : st.data[k].exp # 0}
BY DEF Sound, IsStore, Tracked, Hashes

\* Assigning one map of a store.
LEMMA AssignOne ==
  ASSUME NEW st, Sound(st), NEW x
  PROVE  /\ [st EXCEPT !.data = x] =
              [data |-> x, lists |-> st.lists, hashes |-> st.hashes,
               expiryKeys |-> st.expiryKeys]
         /\ [st EXCEPT !.lists = x] =
              [data |-> st.data, lists |-> x, hashes |-> st.hashes,
               expiryKeys |-> st.expiryKeys]
         /\ [st EXCEPT !.hashes = x] =
              [data |-> st.data, lists |-> st.lists, hashes |-> x,
               expiryKeys |-> st.expiryKeys]
         /\ [st EXCEPT !.expiryKeys = x] =
              [data |-> st.data, lists |-> st.lists, hashes |-> st.hashes,
               expiryKeys |-> x]
<1>1. PICK a, b, c, f : st = [data |-> a, lists |-> b, hashes |-> c, expiryKeys |-> f]
  BY DEF Sound, IsStore
<1>2. QED
  BY <1>1

\* Assigning the strings and the keys that have a deadline.
LEMMA AssignTwo ==
  ASSUME NEW st, Sound(st), NEW d, NEW e
  PROVE  [st EXCEPT !.data = d, !.expiryKeys = e] =
           [data |-> d, lists |-> st.lists, hashes |-> st.hashes, expiryKeys |-> e]
<1>1. PICK a, b, c, f : st = [data |-> a, lists |-> b, hashes |-> c, expiryKeys |-> f]
  BY DEF Sound, IsStore
<1>2. [st EXCEPT !.data = d] = [data |-> d, lists |-> b, hashes |-> c, expiryKeys |-> f]
  BY <1>1
<1>3. [[data |-> d, lists |-> b, hashes |-> c, expiryKeys |-> f] EXCEPT !.expiryKeys = e] =
        [data |-> d, lists |-> b, hashes |-> c, expiryKeys |-> e]
  OBVIOUS
<1>4. [st EXCEPT !.data = d, !.expiryKeys = e] =
        [data |-> d, lists |-> b, hashes |-> c, expiryKeys |-> e]
  BY <1>2, <1>3, Zenon
<1>5. st.lists = b /\ st.hashes = c
  BY <1>1
<1>6. QED
  BY <1>4, <1>5, Zenon

-----------------------------------------------------------------------------
(***************************************************************************)
(* Strings.                                                                *)
(***************************************************************************)

\* New, and FLUSHALL.
LEMMA EmptySound == Sound(Empty)
<1>1. Hashes(<<>>) /\ {k \in DOMAIN <<>> : (<<>>)[k].exp # 0} = {}
  BY EmptyMap DEF Hashes
<1>2. QED
  BY <1>1, EmptyMap, MakeStore DEF Empty

\* SET replaces deadline and value.
LEMMA SetSound ==
  ASSUME NEW st, Sound(st), NEW k \in Keys, NEW v \in Values, NEW exp \in Nat
  PROVE  Sound(SetOp(st, k, v, exp)) /\ DOMAIN SetOp(st, k, v, exp).data = DOMAIN st.data \cup {k}
<1> DEFINE d == Put(st.data, k, [val |-> v, exp |-> exp])
           e == IF exp = 0 THEN st.expiryKeys \ {k} ELSE st.expiryKeys \cup {k}
<1>a. /\ MapOver(st.data, Keys, Entries) /\ MapOver(st.lists, Keys, Seq(Values))
      /\ Hashes(st.hashes) /\ st.expiryKeys = {x \in DOMAIN st.data : st.data[x].exp # 0}
  BY StoreParts
<1>1. [val |-> v, exp |-> exp] \in Entries
  BY DEF Entries
<1>2. /\ MapOver(d, Keys, Entries) /\ DOMAIN d = DOMAIN st.data \cup {k}
      /\ d[k] = [val |-> v, exp |-> exp]
      /\ \A x \in DOMAIN st.data : x # k => d[x] = st.data[x]
  BY <1>1, <1>a DEF MapOver, Put
<1>3. SetOp(st, k, v, exp) = [data |-> d, lists |-> st.lists, hashes |-> st.hashes, expiryKeys |-> e]
  <2>1. SetOp(st, k, v, exp) = [st EXCEPT !.data = d, !.expiryKeys = e]
    BY DEF SetOp
  <2> HIDE DEF d, e
  <2>2. QED
    BY <2>1, AssignTwo, Zenon
<1> HIDE DEF d
<1>4. d[k].exp = exp
  BY <1>2
<1>5. e = {x \in DOMAIN d : d[x].exp # 0}
  BY <1>2, <1>4, <1>a
<1> HIDE DEF e
<1>6. QED
  BY <1>2, <1>3, <1>5, MakeStore, <1>a

\* The sampler, a lookup.
LEMMA DeleteExpiredSound ==
  ASSUME NEW st, Sound(st), NEW S
  PROVE  /\ Sound(DeleteExpired(st, S))
         /\ DOMAIN DeleteExpired(st, S).data = DOMAIN st.data \ S
         /\ DeleteExpired(st, S).expiryKeys = st.expiryKeys \ S
<1> DEFINE d == Drop(st.data, S)
           e == st.expiryKeys \ S
<1>a. /\ MapOver(st.data, Keys, Entries) /\ MapOver(st.lists, Keys, Seq(Values))
      /\ Hashes(st.hashes) /\ st.expiryKeys = {x \in DOMAIN st.data : st.data[x].exp # 0}
  BY StoreParts
<1>1. /\ MapOver(d, Keys, Entries) /\ DOMAIN d = DOMAIN st.data \ S
      /\ \A x \in DOMAIN d : d[x] = st.data[x]
  BY <1>a DEF MapOver, Drop, Restrict
<1>2. DeleteExpired(st, S) = [data |-> d, lists |-> st.lists, hashes |-> st.hashes, expiryKeys |-> e]
  <2>1. DeleteExpired(st, S) = [st EXCEPT !.data = d, !.expiryKeys = e]
    BY DEF DeleteExpired
  <2> HIDE DEF d, e
  <2>2. QED
    BY <2>1, AssignTwo, Zenon
<1> HIDE DEF d
<1>3. e = {x \in DOMAIN d : d[x].exp # 0}
  BY <1>1, <1>a
<1> HIDE DEF e
<1>4. Sound(DeleteExpired(st, S))
  BY <1>1, <1>2, <1>3, MakeStore, <1>a
<1>5. QED
  BY <1>1, <1>2, <1>4 DEF e

\* DEL removes a key whatever it holds.
LEMMA DelSound ==
  ASSUME NEW st, Sound(st), NEW S
  PROVE  Sound(DelOp(st, S)) /\ DOMAIN DelOp(st, S).data = DOMAIN st.data \ S
<1> DEFINE d == Drop(st.data, S)
           l == Drop(st.lists, S)
           h == Drop(st.hashes, S)
           e == st.expiryKeys \ (S \cap DOMAIN st.data)
<1>a. /\ MapOver(st.data, Keys, Entries) /\ MapOver(st.lists, Keys, Seq(Values))
      /\ Hashes(st.hashes) /\ st.expiryKeys = {x \in DOMAIN st.data : st.data[x].exp # 0}
  BY StoreParts
<1>1. /\ MapOver(d, Keys, Entries) /\ DOMAIN d = DOMAIN st.data \ S
      /\ \A x \in DOMAIN d : d[x] = st.data[x]
  BY <1>a DEF MapOver, Drop, Restrict
<1>2. MapOver(l, Keys, Seq(Values))
  BY <1>a DEF MapOver, Drop, Restrict
<1>3. Hashes(h)
  BY <1>a DEF Hashes, Drop, Restrict
<1>4. DelOp(st, S) = [data |-> d, lists |-> l, hashes |-> h, expiryKeys |-> e]
  BY DEF DelOp
<1> HIDE DEF d, l, h
<1>5. e = {x \in DOMAIN d : d[x].exp # 0}
  BY <1>1, <1>a
<1> HIDE DEF e
<1>6. QED
  BY <1>1, <1>2, <1>3, <1>4, <1>5, MakeStore

\* EXPIRE gives an entry a deadline.
LEMMA ExpireSound ==
  ASSUME NEW st, Sound(st), NEW k \in DOMAIN st.data, NEW exp \in Nat \ {0}
  PROVE  Sound(ExpireOp(st, k, exp)) /\ DOMAIN ExpireOp(st, k, exp).data = DOMAIN st.data
<1> DEFINE d == [st.data EXCEPT ![k].exp = exp]
           e == st.expiryKeys \cup {k}
<1>a. /\ MapOver(st.data, Keys, Entries) /\ MapOver(st.lists, Keys, Seq(Values))
      /\ Hashes(st.hashes) /\ st.expiryKeys = {x \in DOMAIN st.data : st.data[x].exp # 0}
  BY StoreParts
<1>1. ExpireOp(st, k, exp) = [data |-> d, lists |-> st.lists, hashes |-> st.hashes, expiryKeys |-> e]
  <2>1. PICK a, b, c, f : st = [data |-> a, lists |-> b, hashes |-> c, expiryKeys |-> f]
    BY DEF Sound, IsStore
  <2>2. [st EXCEPT !.data[k].exp = exp] = [st EXCEPT !.data = d]
    BY <2>1
  <2>3. [[st EXCEPT !.data = d] EXCEPT !.expiryKeys = e] =
          [st EXCEPT !.data = d, !.expiryKeys = e]
    OBVIOUS
  <2>4. ExpireOp(st, k, exp) = [st EXCEPT !.data = d, !.expiryKeys = e]
    BY <2>2, <2>3, Zenon DEF ExpireOp
  <2>5. QED
    BY <2>4, AssignTwo, Zenon
<1>2. st.data \in [DOMAIN st.data -> Entries] /\ DOMAIN st.data \subseteq Keys
  BY <1>a DEF MapOver
<1>3. /\ DOMAIN d = DOMAIN st.data
      /\ d[k] = [st.data[k] EXCEPT !.exp = exp]
      /\ \A x \in DOMAIN d : x # k => d[x] = st.data[x]
  BY <1>2
<1>4. d[k] \in Entries /\ d[k].exp = exp
  BY <1>2, <1>3 DEF Entries
<1>5. d \in [DOMAIN d -> Entries]
  <2>1. \A x \in DOMAIN d : d[x] \in Entries
    BY <1>2, <1>3, <1>4
  <2>2. d = [x \in DOMAIN d |-> d[x]]
    BY <1>2
  <2>3. QED
    BY <2>1, <2>2
<1>6. MapOver(d, Keys, Entries)
  BY <1>2, <1>3, <1>5 DEF MapOver
<1> HIDE DEF d
<1>7. e = {x \in DOMAIN d : d[x].exp # 0}
  BY <1>3, <1>4, <1>a
<1> HIDE DEF e
<1>8. QED
  BY <1>1, <1>3, <1>6, <1>7, MakeStore, <1>a

\* Two's complement addition stays in the range of an int.
LEMMA WrapInts ==
  ASSUME NEW n \in Int
  PROVE  Wrap(n) \in Ints
<1>1. Half \in Nat \ {0}
  BY StoreOpsAssumption
<1> DEFINE m == (n + Half) % (2 * Half)
<1>2. m \in 0 .. 2 * Half - 1
  BY <1>1
<1> HIDE DEF m
<1>3. m - Half \in -Half .. Half - 1
  BY <1>1, <1>2
<1>4. QED
  BY <1>3 DEF m, Wrap, Ints

\* A counter plus a delta is an int, even past the ends of the range.
LEMMA CountedInts ==
  ASSUME NEW st, NEW k, NEW delta \in Ints, NEW now, IsCounter(st, k, now)
  PROVE  Counted(st, k, delta, now) \in Ints
<1>1. Ints \subseteq Int
  BY StoreOpsAssumption DEF Ints
<1> DEFINE m == IF Live(st, k, now) THEN st.data[k].val ELSE 0
<1>2. m \in Int
  <2>1. CASE Live(st, k, now)
    BY <1>1, <2>1 DEF IsCounter
  <2>2. CASE ~Live(st, k, now)
    BY <2>2
  <2>3. QED
    BY <2>1, <2>2
<1>3. Counted(st, k, delta, now) = Wrap(m + delta)
  BY DEF Counted
<1> HIDE DEF m
<1>4. QED
  BY <1>1, <1>2, <1>3, WrapInts

\* INCRBY keeps the deadline of the entry it replaces.
LEMMA IncrBySound ==
  ASSUME NEW st, Sound(st), NEW k \in Keys, NEW delta \in Ints, NEW now \in Nat,
         IsCounter(st, k, now)
  PROVE  /\ Sound(IncrByOp(st, k, delta, now))
         /\ DOMAIN IncrByOp(st, k, delta, now).data = DOMAIN st.data \cup {k}
<1> DEFINE exp == IF k \in DOMAIN st.data THEN st.data[k].exp ELSE 0
           v == Counted(st, k, delta, now)
           d == Put(st.data, k, [val |-> v, exp |-> exp])
<1>a. /\ MapOver(st.data, Keys, Entries) /\ MapOver(st.lists, Keys, Seq(Values))
      /\ Hashes(st.hashes) /\ st.expiryKeys = {x \in DOMAIN st.data : st.data[x].exp # 0}
  BY StoreParts
<1>1. st.data \in [DOMAIN st.data -> Entries] /\ DOMAIN st.data \subseteq Keys
  BY <1>a DEF MapOver
<1>2. exp \in Nat
  BY <1>1 DEF Entries
<1>3. v \in Ints
  BY CountedInts
<1>4. IncrByOp(st, k, delta, now) =
        [data |-> d, lists |-> st.lists, hashes |-> st.hashes, expiryKeys |-> st.expiryKeys]
  BY AssignOne DEF IncrByOp
<1> HIDE DEF exp, v
<1>5. [val |-> v, exp |-> exp] \in Entries
  BY <1>2, <1>3 DEF Entries, Values
<1>6. /\ MapOver(d, Keys, Entries) /\ DOMAIN d = DOMAIN st.data \cup {k}
      /\ d[k] = [val |-> v, exp |-> exp]
      /\ \A x \in DOMAIN st.data : x # k => d[x] = st.data[x]
  BY <1>5, <1>a DEF MapOver, Put
<1> HIDE DEF d
<1>7. d[k].exp = exp
  BY <1>6
<1>8. st.expiryKeys = {x \in DOMAIN d : d[x].exp # 0}
  BY <1>6, <1>7, <1>a DEF exp
<1>9. QED
  BY <1>4, <1>6, <1>8, MakeStore, <1>a

-----------------------------------------------------------------------------
(***************************************************************************)
(* Lists and hashes leave the strings alone.                               *)
(***************************************************************************)

\* LPUSH and RPUSH.
LEMMA PushSound ==
  ASSUME NEW st, Sound(st), NEW k \in Keys, NEW vals \in Seq(Values)
  PROVE  /\ Sound(LPushOp(st, k, vals)) /\ LPushOp(st, k, vals).data = st.data
         /\ Sound(RPushOp(st, k, vals)) /\ RPushOp(st, k, vals).data = st.data
<1>a. /\ MapOver(st.data, Keys, Entries) /\ MapOver(st.lists, Keys, Seq(Values))
      /\ Hashes(st.hashes) /\ st.expiryKeys = {x \in DOMAIN st.data : st.data[x].exp # 0}
  BY StoreParts
<1>1. ListAt(st, k) \in Seq(Values)
  BY <1>a DEF ListAt, MapOver
<1>2. Reverse(vals) \in Seq(Values)
  BY DEF Reverse
<1>3. Reverse(vals) \o ListAt(st, k) \in Seq(Values) /\ ListAt(st, k) \o vals \in Seq(Values)
  BY <1>1, <1>2
<1>4. ASSUME NEW q \in Seq(Values)
      PROVE  LET r == [st EXCEPT !.lists = Put(@, k, q)]
             IN  Sound(r) /\ r.data = st.data
  <2> DEFINE l == Put(st.lists, k, q)
  <2>1. MapOver(l, Keys, Seq(Values))
    BY <1>a, PutFacts
  <2> HIDE DEF l
  <2>2. [st EXCEPT !.lists = l] =
          [data |-> st.data, lists |-> l, hashes |-> st.hashes, expiryKeys |-> st.expiryKeys]
    BY AssignOne
  <2>3. Sound([st EXCEPT !.lists = l]) /\ [st EXCEPT !.lists = l].data = st.data
    BY <2>1, <2>2, MakeStore, <1>a
  <2>4. QED
    BY <2>3 DEF l
<1>5. QED
  BY <1>3, <1>4 DEF LPushOp, RPushOp

\* Sets of positions have a greatest one.
LEMMA GreatestPosition ==
  ASSUME NEW n \in Nat, NEW T, T \subseteq 1 .. n, T # {}
  PROVE  Max(T) \in T
<1> DEFINE R == {n - x : x \in T}
<1>1. R \subseteq Nat /\ R # {}
  <2>1. \A x \in T : x \in Nat /\ x <= n
    OBVIOUS
  <2>2. \A x \in T : n - x \in Nat
    BY <2>1
  <2>3. QED
    BY <2>2
<1>2. PICK m \in R : \A y \in R : <<y, m>> \notin OpToRel(<, Nat)
  BY <1>1, NatLessThanWellFounded, WFMin
<1>3. \A y \in R : ~ (y < m)
  BY <1>1, <1>2 DEF OpToRel
<1>4. PICK x \in T : m = n - x
  BY <1>2
<1>5. \A y \in T : x >= y
  <2>1. \A y \in T : n - y \in R
    OBVIOUS
  <2>2. \A y \in T : ~ (n - y < n - x)
    BY <1>3, <1>4, <2>1
  <2>3. QED
    BY <2>2
<1>6. QED
  BY <1>5 DEF Max

\* HSET with any number of pairs.
LEMMA HSetSound ==
  ASSUME NEW st, Sound(st), NEW k \in Keys, NEW pairs \in Seq(Fields \X Values)
  PROVE  LET r == HSetOp(st, k, pairs) IN Sound(r) /\ r.data = st.data
<1> DEFINE h == HashAt(st, k)
           named == {pairs[i][1] : i \in DOMAIN pairs}
           Latest(x) == Max({i \in DOMAIN pairs : pairs[i][1] = x})
           g == [x \in DOMAIN h \cup named |-> IF x \in named THEN pairs[Latest(x)][2] ELSE h[x]]
           hs == Put(st.hashes, k, g)
<1>a. /\ MapOver(st.data, Keys, Entries) /\ MapOver(st.lists, Keys, Seq(Values))
      /\ Hashes(st.hashes) /\ st.expiryKeys = {x \in DOMAIN st.data : st.data[x].exp # 0}
  BY StoreParts
<1>1. MapOver(h, Fields, Values)
  BY <1>a, EmptyMap DEF HashAt, Hashes
<1>2. /\ DOMAIN pairs = 1 .. Len(pairs) /\ Len(pairs) \in Nat
      /\ \A i \in DOMAIN pairs : pairs[i][1] \in Fields /\ pairs[i][2] \in Values
  <2>1. DOMAIN pairs = 1 .. Len(pairs) /\ Len(pairs) \in Nat
    OBVIOUS
  <2>2. \A i \in DOMAIN pairs : pairs[i] \in Fields \X Values
    BY <2>1
  <2>3. QED
    BY <2>1, <2>2
<1>3. named \subseteq Fields
  BY <1>2
<1>4. ASSUME NEW x \in named  PROVE Latest(x) \in DOMAIN pairs
  <2> DEFINE T == {i \in DOMAIN pairs : pairs[i][1] = x}
  <2>1. T \subseteq 1 .. Len(pairs) /\ T # {}
    BY <1>2
  <2>2. Max(T) \in T
    BY <1>2, <2>1, GreatestPosition
  <2>3. QED
    BY <2>2
<1>5. \A x \in named : pairs[Latest(x)][2] \in Values
  BY <1>2, <1>4
<1>6. HSetOp(st, k, pairs) = [st EXCEPT !.hashes = hs]
  BY DEF HSetOp
<1> HIDE DEF Latest, named, h
<1>7. MapOver(g, Fields, Values)
  BY <1>1, <1>3, <1>5 DEF MapOver
<1> HIDE DEF g
<1>8. Hashes(hs)
  BY <1>7, <1>a DEF Hashes, Put
<1> HIDE DEF hs
<1>9. [st EXCEPT !.hashes = hs] =
        [data |-> st.data, lists |-> st.lists, hashes |-> hs, expiryKeys |-> st.expiryKeys]
  BY AssignOne
<1>10. QED
  BY <1>6, <1>8, <1>9, MakeStore, <1>a

\* HDEL, which drops a hash that becomes empty.
LEMMA HDelSound ==
  ASSUME NEW st, Sound(st), NEW k \in Keys, NEW F
  PROVE  Sound(HDelOp(st, k, F)) /\ HDelOp(st, k, F).data = st.data
<1> DEFINE h == Drop(HashAt(st, k), F)
           hs == IF DOMAIN h = {} THEN Drop(st.hashes, {k}) ELSE Put(st.hashes, k, h)
<1>a. /\ MapOver(st.data, Keys, Entries) /\ MapOver(st.lists, Keys, Seq(Values))
      /\ Hashes(st.hashes) /\ st.expiryKeys = {x \in DOMAIN st.data : st.data[x].exp # 0}
  BY StoreParts
<1>1. CASE k \notin DOMAIN st.hashes
  BY <1>1 DEF HDelOp
<1>2. CASE k \in DOMAIN st.hashes
  <2>1. MapOver(h, Fields, Values)
    BY <1>2, <1>a, DropFacts DEF HashAt, Hashes
  <2>2. HDelOp(st, k, F) = [st EXCEPT !.hashes = hs]
    BY <1>2 DEF HDelOp
  <2> HIDE DEF h
  <2>3. Hashes(hs)
    BY <2>1, <1>a DEF Hashes, Put, Drop, Restrict
  <2> HIDE DEF hs
  <2>4. [st EXCEPT !.hashes = hs] =
          [data |-> st.data, lists |-> st.lists, hashes |-> hs, expiryKeys |-> st.expiryKeys]
    BY AssignOne
  <2>5. QED
    BY <2>2, <2>3, <2>4, MakeStore, <1>a
<1>3. QED
  BY <1>1, <1>2

-----------------------------------------------------------------------------
(***************************************************************************)
(* Memory accounting.                                                      *)
(***************************************************************************)

\* Keys, fields and texts have a length.
Names == Keys \cup Fields \cup Texts

\* Every value has a length.
LEMMA LengthsNat ==
  /\ \A x \in Names : Length[x] \in Nat
  /\ \A v \in Values : Len1(v) \in Nat
<1>1. \A x \in Names : Length[x] \in Nat
  BY StoreOpsAssumption DEF Names
<1>2. ASSUME NEW n  PROVE Digits(n) \in Nat
  <2> DEFINE m == IF n < 0 THEN -n ELSE n
             D == {d \in 1 .. Half : 10^d <= m}
  <2>1. IsFiniteSet(1 .. Half)
    BY FS_Interval, StoreOpsAssumption
  <2>2. D \subseteq 1 .. Half
    OBVIOUS
  <2>3. Digits(n) = (IF n < 0 THEN 2 ELSE 1) + Cardinality(D)
    BY DEF Digits
  <2> HIDE DEF D
  <2>4. Cardinality(D) \in Nat
    BY <2>1, <2>2, FS_Subset, FS_CardinalityType
  <2>5. QED
    BY <2>3, <2>4
<1>3. \A v \in Values : v \notin Ints => v \in Names
  BY DEF Values, Names
<1>4. QED
  BY <1>1, <1>2, <1>3 DEF Len1

\* What the entries of a map take up, each with its key.
Sized(z) == [k \in DOMAIN z |-> Length[k] + z[k]]

\* Sizes of finitely many entries.
IsSizes(z) == /\ DOMAIN z \subseteq Names /\ IsFiniteSet(DOMAIN z)
              /\ \A k \in DOMAIN z : z[k] \in Nat

\* A map takes up a number of bytes.
LEMMA MapBytesSum ==
  ASSUME NEW z, IsSizes(z)
  PROVE  /\ MapBytes(z) = SumFunctionOnSet(Sized(z), DOMAIN z)
         /\ MapBytes(z) \in Nat
         /\ \A k \in DOMAIN z : Sized(z)[k] \in Nat /\ Sized(z)[k] = Length[k] + z[k]
<1>1. MapBytes(z) = SumFunction(Sized(z)) /\ DOMAIN Sized(z) = DOMAIN z
  BY DEF MapBytes, Sized
<1>2. \A k \in DOMAIN z : Sized(z)[k] \in Nat /\ Sized(z)[k] = Length[k] + z[k]
  BY LengthsNat DEF IsSizes, Sized
<1>3. MapBytes(z) = SumFunctionOnSet(Sized(z), DOMAIN z)
  BY <1>1 DEF SumFunction
<1>4. QED
  BY <1>2, <1>3, SumFacts DEF IsSizes

\* Nothing takes up nothing.
LEMMA MapBytesEmpty ==
  ASSUME NEW z, DOMAIN z = {}
  PROVE  MapBytes(z) = 0
<1>1. IsSizes(z)
  BY FS_EmptySet DEF IsSizes
<1>2. QED
  BY <1>1, MapBytesSum, SumFacts, FS_EmptySet

\* A map with fewer or smaller entries.
LEMMA MapBytesLess ==
  ASSUME NEW z, IsSizes(z), NEW y, DOMAIN y \subseteq DOMAIN z,
         \A k \in DOMAIN y : y[k] \in Nat /\ y[k] <= z[k]
  PROVE  IsSizes(y) /\ MapBytes(y) <= MapBytes(z)
<1> DEFINE D == DOMAIN y  E == DOMAIN z
<1>1. IsSizes(y) /\ IsFiniteSet(D) /\ IsFiniteSet(E) /\ D \in SUBSET E
  BY FS_Subset DEF IsSizes
<1>2. /\ \A k \in D : Sized(y)[k] \in Nat /\ Sized(z)[k] \in Nat /\ Sized(y)[k] <= Sized(z)[k]
      /\ \A k \in E : Sized(z)[k] \in Nat
  <2>1. \A k \in D : Length[k] \in Nat /\ z[k] \in Nat
    BY LengthsNat DEF IsSizes
  <2>2. QED
    BY <1>1, <2>1, MapBytesSum
<1>3. MapBytes(y) = SumFunctionOnSet(Sized(y), D) /\ MapBytes(z) = SumFunctionOnSet(Sized(z), E)
  BY <1>1, MapBytesSum
<1>m. MapBytes(y) \in Nat /\ MapBytes(z) \in Nat
  BY <1>1, MapBytesSum
<1> HIDE DEF D, E
<1>4. SumFunctionOnSet(Sized(y), D) <= SumFunctionOnSet(Sized(z), D)
  BY <1>1, <1>2, SumLess
<1>5. SumFunctionOnSet(Sized(z), D) <= SumFunctionOnSet(Sized(z), E)
  BY <1>1, <1>2, SumPart
<1>6. SumFunctionOnSet(Sized(z), D) \in Nat
  BY <1>1, <1>2, SumFacts
<1>7. QED
  BY <1>1, <1>3, <1>4, <1>5, <1>6, <1>m

\* Writing one entry of a map.
LEMMA MapBytesPut ==
  ASSUME NEW z, IsSizes(z), NEW y, NEW k \in Names, DOMAIN y = DOMAIN z \cup {k},
         y[k] \in Nat, \A x \in DOMAIN z : x # k => y[x] = z[x]
  PROVE  /\ IsSizes(y)
         /\ MapBytes(y) + (IF k \in DOMAIN z THEN Length[k] + z[k] ELSE 0)
              = MapBytes(z) + Length[k] + y[k]
<1> DEFINE D == DOMAIN y  E == DOMAIN z  R == DOMAIN z \ {k}
<1>1. /\ IsSizes(y) /\ IsFiniteSet(D) /\ IsFiniteSet(E) /\ IsFiniteSet(R)
      /\ D \ {k} = R /\ k \in D /\ (k \in E => E \ {k} = R) /\ (k \notin E => E = R)
      /\ R \subseteq D /\ R \subseteq E
  <2>1. IsFiniteSet(D)
    BY FS_AddElement DEF IsSizes
  <2>2. IsFiniteSet(R)
    BY FS_Subset DEF IsSizes
  <2>3. IsSizes(y)
    BY <2>1 DEF IsSizes
  <2>4. QED
    BY <2>1, <2>2, <2>3 DEF IsSizes
<1>2. /\ \A x \in D : Sized(y)[x] \in Nat /\ Sized(y)[x] = Length[x] + y[x]
      /\ \A x \in E : Sized(z)[x] \in Nat /\ Sized(z)[x] = Length[x] + z[x]
      /\ MapBytes(y) = SumFunctionOnSet(Sized(y), D) /\ MapBytes(y) \in Nat
      /\ MapBytes(z) = SumFunctionOnSet(Sized(z), E) /\ MapBytes(z) \in Nat
  BY <1>1, MapBytesSum
<1>3. \A x \in R : Sized(y)[x] = Sized(z)[x] /\ Sized(y)[x] \in Nat
  BY <1>1, <1>2
<1>n. Length[k] \in Nat /\ y[k] \in Nat /\ (k \in E => z[k] \in Nat)
  BY LengthsNat DEF IsSizes
<1> HIDE DEF D, E, R
<1>4. SumFunctionOnSet(Sized(y), R) = SumFunctionOnSet(Sized(z), R)
  BY <1>1, <1>3, SumSame
<1>5. SumFunctionOnSet(Sized(y), D) = Sized(y)[k] + SumFunctionOnSet(Sized(y), R)
  <2>1. SumFunctionOnSet(Sized(y), D) = Sized(y)[k] + SumFunctionOnSet(Sized(y), D \ {k})
    <3>1. \A x \in D : Sized(y)[x] \in Nat
      BY <1>2
    <3> DEFINE g == Sized(y)
    <3> HIDE DEF g
    <3>2. \A x \in D : SumFunctionOnSet(g, D) = g[x] + SumFunctionOnSet(g, D \ {x})
      BY <1>1, <3>1, SumFacts DEF g
    <3>3. QED
      BY <1>1, <3>2 DEF g
  <2>2. QED
    BY <1>1, <2>1
<1>6. CASE k \in E
  <2>1. SumFunctionOnSet(Sized(z), E) = Sized(z)[k] + SumFunctionOnSet(Sized(z), R)
    <3>1. \A x \in E : Sized(z)[x] \in Nat
      BY <1>2
    <3> DEFINE g == Sized(z)
    <3> HIDE DEF g
    <3>2. \A x \in E : SumFunctionOnSet(g, E) = g[x] + SumFunctionOnSet(g, E \ {x})
      BY <1>1, <3>1, SumFacts DEF g
    <3>3. QED
      BY <1>1, <1>6, <3>2 DEF g
  <2>2. SumFunctionOnSet(Sized(z), R) \in Nat
    BY <1>1, <1>2, SumFacts
  <2>3. k \in DOMAIN z
    BY <1>6 DEF E
  <2>4. QED
    BY <1>1, <1>2, <1>4, <1>5, <1>6, <1>n, <2>1, <2>2, <2>3
<1>7. CASE k \notin E
  <2>1. SumFunctionOnSet(Sized(z), R) \in Nat /\ E = R
    BY <1>1, <1>2, <1>7, SumFacts
  <2>2. k \notin DOMAIN z
    BY <1>7 DEF E
  <2>3. QED
    BY <1>1, <1>2, <1>4, <1>5, <1>n, <2>1, <2>2
<1>8. QED
  BY <1>6, <1>7

\* The lengths of the values of a list.
Lens(vals) == [i \in DOMAIN vals |-> Len1(vals[i])]

\* A list takes up a number of bytes.
LEMMA SumLenNat ==
  ASSUME NEW vals \in Seq(Values)
  PROVE  /\ IsFiniteSet(1 .. Len(vals))
         /\ \A i \in 1 .. Len(vals) :
              Lens(vals)[i] \in Nat /\ Lens(vals)[i] = Len1(vals[i])
         /\ SumLen(vals) = SumFunctionOnSet(Lens(vals), 1 .. Len(vals))
         /\ SumLen(vals) \in Nat
<1>1. DOMAIN vals = 1 .. Len(vals) /\ Len(vals) \in Nat /\ \A i \in 1 .. Len(vals) : vals[i] \in Values
  OBVIOUS
<1>2. \A i \in 1 .. Len(vals) : Lens(vals)[i] \in Nat /\ Lens(vals)[i] = Len1(vals[i])
  BY <1>1, LengthsNat DEF Lens
<1>3. SumLen(vals) = SumFunctionOnSet(Lens(vals), 1 .. Len(vals))
  <2>1. DOMAIN Lens(vals) = 1 .. Len(vals)
    BY <1>1 DEF Lens
  <2>2. SumLen(vals) = SumFunction(Lens(vals))
    BY DEF SumLen, Lens
  <2>3. QED
    BY <2>1, <2>2 DEF SumFunction
<1>4. IsFiniteSet(1 .. Len(vals))
  BY <1>1, FS_Interval
<1> DEFINE S == 1 .. Len(vals)  g == Lens(vals)
<1>5. SumFunctionOnSet(g, S) \in Nat
  <2>1. \A i \in S : g[i] \in Nat
    BY <1>2
  <2>2. IsFiniteSet(S)
    BY <1>4
  <2> HIDE DEF S, g
  <2>3. QED
    BY <2>1, <2>2, SumFacts
<1>6. QED
  BY <1>2, <1>3, <1>4, <1>5

\* RPUSH adds what it appends.
LEMMA SumLenConcat ==
  ASSUME NEW a \in Seq(Values), NEW b \in Seq(Values)
  PROVE  SumLen(a \o b) = SumLen(a) + SumLen(b)
<1> DEFINE m == Len(a)  n == Len(b)  c == a \o b
           S == 1 .. m  T == m + 1 .. m + n  N == 1 .. n
           shift == [i \in N |-> m + i]
<1>1. /\ c \in Seq(Values) /\ Len(c) = m + n /\ m \in Nat /\ n \in Nat
      /\ \A i \in S : c[i] = a[i]
      /\ \A i \in 1 .. n : c[m + i] = b[i]
  OBVIOUS
<1>2. /\ 1 .. m + n = S \cup T /\ S \cap T = {} /\ shift \in [N -> T]
      /\ \A i, j \in N : shift[i] = shift[j] => i = j
      /\ \A z \in T : \E i \in N : shift[i] = z
  <2>1. m \in Nat /\ n \in Nat
    BY <1>1
  <2> HIDE DEF m, n
  <2>2. \A z \in T : z - m \in N /\ shift[z - m] = z
    BY <2>1
  <2>3. QED
    BY <2>1, <2>2
<1>3. /\ IsFiniteSet(S) /\ IsFiniteSet(T) /\ IsFiniteSet(1 .. n)
  BY <1>1, FS_Interval
<1>4. /\ SumLen(a) = SumFunctionOnSet(Lens(a), S)
      /\ SumLen(b) = SumFunctionOnSet(Lens(b), 1 .. n)
      /\ SumLen(c) = SumFunctionOnSet(Lens(c), 1 .. m + n)
      /\ \A i \in 1 .. m + n : Lens(c)[i] \in Nat /\ Lens(c)[i] = Len1(c[i])
      /\ \A i \in S : Lens(a)[i] = Len1(a[i])
      /\ \A i \in 1 .. n : Lens(b)[i] = Len1(b[i])
  BY <1>1, SumLenNat
<1>5. /\ \A x \in S \cup T : Lens(c)[x] \in Nat
      /\ \A x \in S : Lens(c)[x] \in Nat /\ Lens(c)[x] = Lens(a)[x]
      /\ \A x \in T : Lens(c)[x] \in Nat
  <2>1. \A x \in S \cup T : Lens(c)[x] \in Nat /\ Lens(c)[x] = Len1(c[x])
    BY <1>2, <1>4, Zenon
  <2>2. \A x \in S : x \in S \cup T /\ Lens(a)[x] = Len1(a[x]) /\ c[x] = a[x]
    BY <1>1, <1>4
  <2> HIDE DEF S, T, c
  <2>3. QED
    BY <2>1, <2>2
<1>6. \A i \in N : Lens(b)[i] = Lens(c)[shift[i]]
  <2>1. \A i \in N : shift[i] = m + i /\ m + i \in 1 .. m + n
    BY <1>1
  <2>2. QED
    BY <1>1, <1>4, <2>1
<1> HIDE DEF shift, c
<1> DEFINE f == Lens(a)  g == Lens(b)  h == Lens(c)
<1> HIDE DEF f, g, h, S, T, N
<1>n. IsFiniteSet(N)
  BY <1>3 DEF N
<1>7. SumFunctionOnSet(h, S \cup T) = SumFunctionOnSet(h, S) + SumFunctionOnSet(h, T)
  BY <1>2, <1>3, <1>5, SumUnion DEF h
<1>8. SumFunctionOnSet(h, S) = SumFunctionOnSet(f, S)
  BY <1>3, <1>5, SumSame DEF f, h
<1>9. SumFunctionOnSet(g, N) = SumFunctionOnSet(h, T)
  <2>1. /\ IsFiniteSet(N) /\ IsFiniteSet(T) /\ shift \in [N -> T]
        /\ \A x, y \in N : shift[x] = shift[y] => x = y
        /\ \A z \in T : \E x \in N : shift[x] = z
        /\ \A z \in T : h[z] \in Nat
        /\ \A x \in N : g[x] = h[shift[x]]
    BY <1>2, <1>3, <1>5, <1>6, <1>n DEF g, h
  <2>2. QED
    BY <2>1, SumRenamed
<1>10. /\ SumLen(a) = SumFunctionOnSet(f, S) /\ SumLen(b) = SumFunctionOnSet(g, N)
       /\ SumLen(c) = SumFunctionOnSet(h, S \cup T)
  BY <1>2, <1>4 DEF f, g, h, N
<1>11. QED
  BY <1>7, <1>8, <1>9, <1>10 DEF c

\* LPUSH appends in the opposite order.
LEMMA SumLenReverse ==
  ASSUME NEW a \in Seq(Values)
  PROVE  Reverse(a) \in Seq(Values) /\ SumLen(Reverse(a)) = SumLen(a)
<1> DEFINE n == Len(a)  r == Reverse(a)  N == 1 .. n
           turn == [i \in N |-> n - i + 1]
<1>1. /\ r \in Seq(Values) /\ Len(r) = n /\ n \in Nat
      /\ \A i \in N : r[i] = a[turn[i]]
  BY DEF Reverse
<1>2. /\ turn \in [N -> N]
      /\ \A i, j \in N : turn[i] = turn[j] => i = j
      /\ \A z \in N : \E i \in N : turn[i] = z
  <2>1. n \in Nat
    OBVIOUS
  <2> HIDE DEF n
  <2>2. \A z \in N : n - z + 1 \in N /\ turn[n - z + 1] = z
    BY <2>1
  <2>3. QED
    BY <2>1, <2>2
<1>3. /\ SumLen(a) = SumFunctionOnSet(Lens(a), N) /\ SumLen(r) = SumFunctionOnSet(Lens(r), N)
      /\ IsFiniteSet(N)
      /\ \A i \in N : Lens(a)[i] \in Nat /\ Lens(a)[i] = Len1(a[i]) /\ Lens(r)[i] = Len1(r[i])
  BY <1>1, SumLenNat
<1>4. \A i \in N : Lens(r)[i] = Lens(a)[turn[i]]
  BY <1>1, <1>2, <1>3
<1> HIDE DEF turn, r, N
<1> DEFINE f == Lens(r)  g == Lens(a)
<1> HIDE DEF f, g
<1>5. SumFunctionOnSet(f, N) = SumFunctionOnSet(g, N)
  BY <1>2, <1>3, <1>4, SumRenamed DEF f, g
<1>6. QED
  BY <1>1, <1>3, <1>5 DEF f, g, r

(***************************************************************************)
(* What the three kinds of values take up.                                 *)
(***************************************************************************)
StringSizes(d) == [k \in DOMAIN d |-> Len1(d[k].val)]
ListSizes(l)   == [k \in DOMAIN l |-> SumLen(l[k])]
FieldSizes(h)  == [f \in DOMAIN h |-> Len1(h[f])]
HashSizes(hs)  == [k \in DOMAIN hs |-> MapBytes(FieldSizes(hs[k]))]

\* The maps of a store have finitely many keys.
Finite(st) ==
  /\ IsFiniteSet(DOMAIN st.data) /\ IsFiniteSet(DOMAIN st.lists)
  /\ IsFiniteSet(DOMAIN st.hashes)
  /\ \A k \in DOMAIN st.hashes : IsFiniteSet(DOMAIN st.hashes[k])

\* What a finite map of strings takes up.
LEMMA StringSizesOK ==
  ASSUME NEW d, MapOver(d, Keys, Entries), IsFiniteSet(DOMAIN d)
  PROVE  /\ IsSizes(StringSizes(d)) /\ DOMAIN StringSizes(d) = DOMAIN d
         /\ \A k \in DOMAIN d : StringSizes(d)[k] = Len1(d[k].val) /\ d[k].val \in Values
<1>1. \A k \in DOMAIN d : d[k].val \in Values
  BY DEF MapOver, Entries
<1>2. QED
  BY <1>1, LengthsNat DEF StringSizes, IsSizes, MapOver, Names

\* What a finite map of lists takes up.
LEMMA ListSizesOK ==
  ASSUME NEW l, MapOver(l, Keys, Seq(Values)), IsFiniteSet(DOMAIN l)
  PROVE  /\ IsSizes(ListSizes(l)) /\ DOMAIN ListSizes(l) = DOMAIN l
         /\ \A k \in DOMAIN l : ListSizes(l)[k] = SumLen(l[k]) /\ l[k] \in Seq(Values)
<1>1. \A k \in DOMAIN l : l[k] \in Seq(Values)
  BY DEF MapOver
<1>2. \A k \in DOMAIN l : SumLen(l[k]) \in Nat
  BY <1>1, SumLenNat
<1>3. QED
  BY <1>1, <1>2 DEF ListSizes, IsSizes, MapOver, Names

\* What a finite hash takes up.
LEMMA FieldSizesOK ==
  ASSUME NEW h, MapOver(h, Fields, Values), IsFiniteSet(DOMAIN h)
  PROVE  /\ IsSizes(FieldSizes(h)) /\ DOMAIN FieldSizes(h) = DOMAIN h
         /\ \A f \in DOMAIN h : FieldSizes(h)[f] = Len1(h[f]) /\ h[f] \in Values
         /\ MapBytes(FieldSizes(h)) \in Nat
<1>1. \A f \in DOMAIN h : h[f] \in Values
  BY DEF MapOver
<1>2. IsSizes(FieldSizes(h))
  BY <1>1, LengthsNat DEF FieldSizes, IsSizes, MapOver, Names
<1>3. QED
  BY <1>1, <1>2, MapBytesSum DEF FieldSizes

\* What a finite map of finite hashes takes up.
LEMMA HashSizesOK ==
  ASSUME NEW hs, Hashes(hs), IsFiniteSet(DOMAIN hs), \A k \in DOMAIN hs : IsFiniteSet(DOMAIN hs[k])
  PROVE  /\ IsSizes(HashSizes(hs)) /\ DOMAIN HashSizes(hs) = DOMAIN hs
         /\ \A k \in DOMAIN hs : HashSizes(hs)[k] = MapBytes(FieldSizes(hs[k]))
<1>1. \A k \in DOMAIN hs : MapBytes(FieldSizes(hs[k])) \in Nat
  BY FieldSizesOK DEF Hashes
<1>2. QED
  BY <1>1 DEF HashSizes, IsSizes, Hashes, Names

\* The estimate is the sum over the three maps.
LEMMA Estimate ==
  ASSUME NEW st, Sound(st), Finite(st)
  PROVE  /\ ApproxMemory(st) = MapBytes(StringSizes(st.data)) + MapBytes(ListSizes(st.lists))
                                 + MapBytes(HashSizes(st.hashes))
         /\ MapBytes(StringSizes(st.data)) \in Nat
         /\ MapBytes(ListSizes(st.lists)) \in Nat
         /\ MapBytes(HashSizes(st.hashes)) \in Nat
<1>1. /\ IsSizes(StringSizes(st.data)) /\ IsSizes(ListSizes(st.lists))
      /\ IsSizes(HashSizes(st.hashes))
  BY StoreParts, StringSizesOK, ListSizesOK, HashSizesOK DEF Finite
<1>2. ApproxMemory(st) = MapBytes(StringSizes(st.data)) + MapBytes(ListSizes(st.lists))
                           + MapBytes(HashSizes(st.hashes))
  BY Zenon DEF ApproxMemory, StringSizes, ListSizes, FieldSizes, HashSizes
<1>3. QED
  BY <1>1, <1>2, MapBytesSum

\* The store r takes up at most n bytes more than st.
Grows(st, r, n) == Finite(r) /\ ApproxMemory(r) <= ApproxMemory(st) + n

\* A store whose three maps take up at most a, b and c more.
LEMMA MakeGrows ==
  ASSUME NEW st, Sound(st), Finite(st), NEW r, Sound(r), Finite(r),
         NEW a \in Nat, NEW b \in Nat, NEW c \in Nat,
         MapBytes(StringSizes(r.data)) <= MapBytes(StringSizes(st.data)) + a,
         MapBytes(ListSizes(r.lists)) <= MapBytes(ListSizes(st.lists)) + b,
         MapBytes(HashSizes(r.hashes)) <= MapBytes(HashSizes(st.hashes)) + c
  PROVE  Grows(st, r, a + b + c)
<1> DEFINE x1 == MapBytes(StringSizes(st.data))  y1 == MapBytes(StringSizes(r.data))
           x2 == MapBytes(ListSizes(st.lists))   y2 == MapBytes(ListSizes(r.lists))
           x3 == MapBytes(HashSizes(st.hashes))  y3 == MapBytes(HashSizes(r.hashes))
<1>1. /\ ApproxMemory(st) = x1 + x2 + x3 /\ x1 \in Nat /\ x2 \in Nat /\ x3 \in Nat
      /\ ApproxMemory(r) = y1 + y2 + y3 /\ y1 \in Nat /\ y2 \in Nat /\ y3 \in Nat
  BY Estimate
<1>2. y1 <= x1 + a /\ y2 <= x2 + b /\ y3 <= x3 + c
  OBVIOUS
<1> HIDE DEF x1, x2, x3, y1, y2, y3
<1>3. ApproxMemory(r) <= ApproxMemory(st) + (a + b + c)
  BY <1>1, <1>2
<1>4. QED
  BY <1>3 DEF Grows

\* Removing entries, or changing their deadlines.
LEMMA LessStored ==
  ASSUME NEW st, Sound(st), Finite(st), NEW r, Sound(r),
         DOMAIN r.data \subseteq DOMAIN st.data,
         \A k \in DOMAIN r.data : r.data[k].val = st.data[k].val,
         DOMAIN r.lists \subseteq DOMAIN st.lists,
         \A k \in DOMAIN r.lists : r.lists[k] = st.lists[k],
         DOMAIN r.hashes \subseteq DOMAIN st.hashes,
         \A k \in DOMAIN r.hashes :
           /\ DOMAIN r.hashes[k] \subseteq DOMAIN st.hashes[k]
           /\ \A f \in DOMAIN r.hashes[k] : r.hashes[k][f] = st.hashes[k][f]
  PROVE  Grows(st, r, 0)
<1>0. /\ MapOver(st.data, Keys, Entries) /\ MapOver(st.lists, Keys, Seq(Values)) /\ Hashes(st.hashes)
      /\ MapOver(r.data, Keys, Entries) /\ MapOver(r.lists, Keys, Seq(Values)) /\ Hashes(r.hashes)
      /\ IsFiniteSet(DOMAIN st.data) /\ IsFiniteSet(DOMAIN st.lists) /\ IsFiniteSet(DOMAIN st.hashes)
      /\ \A k \in DOMAIN st.hashes : IsFiniteSet(DOMAIN st.hashes[k])
  BY StoreParts DEF Finite
<1>1. /\ IsFiniteSet(DOMAIN r.data) /\ IsFiniteSet(DOMAIN r.lists) /\ IsFiniteSet(DOMAIN r.hashes)
      /\ \A k \in DOMAIN r.hashes : IsFiniteSet(DOMAIN r.hashes[k])
  BY <1>0, FS_Subset
<1>2. MapBytes(StringSizes(r.data)) <= MapBytes(StringSizes(st.data))
  <2> DEFINE y == StringSizes(r.data)  z == StringSizes(st.data)
  <2>1. /\ IsSizes(y) /\ DOMAIN y = DOMAIN r.data /\ \A k \in DOMAIN y : y[k] = Len1(r.data[k].val)
        /\ IsSizes(z) /\ DOMAIN z = DOMAIN st.data /\ \A k \in DOMAIN z : z[k] = Len1(st.data[k].val)
    BY <1>0, <1>1, StringSizesOK
  <2>2. DOMAIN y \subseteq DOMAIN z /\ \A k \in DOMAIN y : y[k] = z[k] /\ y[k] \in Nat
    BY <2>1 DEF IsSizes
  <2> HIDE DEF y, z
  <2>3. \A k \in DOMAIN y : y[k] \in Nat /\ y[k] <= z[k]
    BY <2>2
  <2>4. MapBytes(y) <= MapBytes(z)
    BY <2>1, <2>2, <2>3, MapBytesLess
  <2>5. QED
    BY <2>4 DEF y, z
<1>3. MapBytes(ListSizes(r.lists)) <= MapBytes(ListSizes(st.lists))
  <2> DEFINE y == ListSizes(r.lists)  z == ListSizes(st.lists)
  <2>1. /\ IsSizes(y) /\ DOMAIN y = DOMAIN r.lists /\ \A k \in DOMAIN y : y[k] = SumLen(r.lists[k])
        /\ IsSizes(z) /\ DOMAIN z = DOMAIN st.lists /\ \A k \in DOMAIN z : z[k] = SumLen(st.lists[k])
    BY <1>0, <1>1, ListSizesOK
  <2>2. DOMAIN y \subseteq DOMAIN z /\ \A k \in DOMAIN y : y[k] = z[k] /\ y[k] \in Nat
    BY <2>1 DEF IsSizes
  <2> HIDE DEF y, z
  <2>3. \A k \in DOMAIN y : y[k] \in Nat /\ y[k] <= z[k]
    BY <2>2
  <2>4. MapBytes(y) <= MapBytes(z)
    BY <2>1, <2>2, <2>3, MapBytesLess
  <2>5. QED
    BY <2>4 DEF y, z
<1>4. MapBytes(HashSizes(r.hashes)) <= MapBytes(HashSizes(st.hashes))
  <2> DEFINE y == HashSizes(r.hashes)  z == HashSizes(st.hashes)
  <2>1. /\ IsSizes(y) /\ DOMAIN y = DOMAIN r.hashes
        /\ \A k \in DOMAIN y : y[k] = MapBytes(FieldSizes(r.hashes[k]))
        /\ IsSizes(z) /\ DOMAIN z = DOMAIN st.hashes
        /\ \A k \in DOMAIN z : z[k] = MapBytes(FieldSizes(st.hashes[k]))
    BY <1>0, <1>1, HashSizesOK
  <2>2. ASSUME NEW k \in DOMAIN y  PROVE y[k] \in Nat /\ y[k] <= z[k]
    <3> DEFINE g == r.hashes[k]  h == st.hashes[k]
               b == FieldSizes(g)  a == FieldSizes(h)
    <3>1. k \in DOMAIN r.hashes /\ k \in DOMAIN st.hashes
      BY <2>1
    <3>2. /\ MapOver(g, Fields, Values) /\ IsFiniteSet(DOMAIN g)
          /\ MapOver(h, Fields, Values) /\ IsFiniteSet(DOMAIN h)
          /\ DOMAIN g \subseteq DOMAIN h /\ \A f \in DOMAIN g : g[f] = h[f]
      BY <1>0, <1>1, <3>1 DEF Hashes
    <3> HIDE DEF g, h
    <3>3. /\ IsSizes(b) /\ DOMAIN b = DOMAIN g /\ \A f \in DOMAIN b : b[f] = Len1(g[f])
          /\ IsSizes(a) /\ DOMAIN a = DOMAIN h /\ \A f \in DOMAIN a : a[f] = Len1(h[f])
      BY <3>2, FieldSizesOK
    <3>4. DOMAIN b \subseteq DOMAIN a /\ \A f \in DOMAIN b : b[f] = a[f] /\ b[f] \in Nat
      BY <3>2, <3>3 DEF IsSizes
    <3> HIDE DEF a, b
    <3>5. \A f \in DOMAIN b : b[f] \in Nat /\ b[f] <= a[f]
      BY <3>4
    <3>6. MapBytes(b) <= MapBytes(a)
      BY <3>3, <3>4, <3>5, MapBytesLess
    <3>7. y[k] = MapBytes(b) /\ z[k] = MapBytes(a)
      BY <2>1, <3>1 DEF a, b, g, h
    <3> HIDE DEF y, z
    <3>8. y[k] \in Nat
      BY <2>1 DEF IsSizes
    <3>9. QED
      BY <3>6, <3>7, <3>8
  <2>3. DOMAIN y \subseteq DOMAIN z
    BY <2>1
  <2> HIDE DEF y, z
  <2>4. MapBytes(y) <= MapBytes(z)
    BY <2>1, <2>2, <2>3, MapBytesLess
  <2>5. QED
    BY <2>4 DEF y, z
<1>5. Finite(r)
  BY <1>1 DEF Finite
<1>6. /\ MapBytes(StringSizes(r.data)) <= MapBytes(StringSizes(st.data)) + 0
      /\ MapBytes(ListSizes(r.lists)) <= MapBytes(ListSizes(st.lists)) + 0
      /\ MapBytes(HashSizes(r.hashes)) <= MapBytes(HashSizes(st.hashes)) + 0
  BY <1>2, <1>3, <1>4, <1>5, Estimate
<1>7. Grows(st, r, 0 + 0 + 0)
  BY <1>5, <1>6, MakeGrows
<1>8. QED
  BY <1>7

(***************************************************************************)
(* What the operations take up.                                            *)
(***************************************************************************)

\* New, and FLUSHALL.
LEMMA EmptyBytes == Finite(Empty) /\ ApproxMemory(Empty) = 0
<1>1. /\ Empty.data = <<>> /\ Empty.lists = <<>> /\ Empty.hashes = <<>> /\ DOMAIN <<>> = {}
  BY EmptyMap DEF Empty
<1>2. Finite(Empty)
  BY <1>1, FS_EmptySet DEF Finite
<1>3. /\ DOMAIN StringSizes(<<>>) = {} /\ DOMAIN ListSizes(<<>>) = {}
      /\ DOMAIN HashSizes(<<>>) = {}
  BY <1>1 DEF StringSizes, ListSizes, HashSizes
<1>4. /\ MapBytes(StringSizes(<<>>)) = 0 /\ MapBytes(ListSizes(<<>>)) = 0
      /\ MapBytes(HashSizes(<<>>)) = 0
  BY <1>3, MapBytesEmpty
<1>5. ApproxMemory(Empty) = 0 + 0 + 0
  BY <1>1, <1>2, <1>4, EmptySound, Estimate
<1>6. QED
  BY <1>2, <1>5

\* SET and INCRBY write one string.
LEMMA StringGrows ==
  ASSUME NEW st, Sound(st), Finite(st), NEW k \in Keys, NEW e \in Entries,
         NEW r, Sound(r), r.data = Put(st.data, k, e), r.lists = st.lists, r.hashes = st.hashes
  PROVE  Grows(st, r, Length[k] + Len1(e.val))
<1> DEFINE y == StringSizes(r.data)  z == StringSizes(st.data)
<1>1. /\ MapOver(st.data, Keys, Entries) /\ MapOver(r.data, Keys, Entries)
      /\ IsFiniteSet(DOMAIN st.data)
  BY StoreParts DEF Finite
<1>2. /\ DOMAIN r.data = DOMAIN st.data \cup {k} /\ r.data[k] = e
      /\ \A x \in DOMAIN st.data : x # k => r.data[x] = st.data[x]
  BY DEF Put
<1>3. IsFiniteSet(DOMAIN r.data)
  BY <1>1, <1>2, FS_AddElement
<1>4. Finite(r)
  BY <1>3 DEF Finite
<1>5. /\ IsSizes(y) /\ DOMAIN y = DOMAIN r.data /\ \A x \in DOMAIN y : y[x] = Len1(r.data[x].val)
      /\ IsSizes(z) /\ DOMAIN z = DOMAIN st.data /\ \A x \in DOMAIN z : z[x] = Len1(st.data[x].val)
  BY <1>1, <1>3, StringSizesOK
<1>6. /\ DOMAIN y = DOMAIN z \cup {k} /\ y[k] = Len1(e.val)
      /\ \A x \in DOMAIN z : x # k => y[x] = z[x]
  BY <1>2, <1>5
<1>7. Len1(e.val) \in Nat /\ Length[k] \in Nat /\ k \in Names
  BY LengthsNat DEF Entries, Names
<1> HIDE DEF y, z
<1>8. MapBytes(y) + (IF k \in DOMAIN z THEN Length[k] + z[k] ELSE 0) = MapBytes(z) + Length[k] + y[k]
  BY <1>5, <1>6, <1>7, MapBytesPut
<1>9. (IF k \in DOMAIN z THEN Length[k] + z[k] ELSE 0) \in Nat
  BY <1>5, <1>7 DEF IsSizes
<1>10. MapBytes(y) \in Nat /\ MapBytes(z) \in Nat
  BY <1>5, MapBytesSum
<1>11. MapBytes(y) <= MapBytes(z) + (Length[k] + Len1(e.val))
  BY <1>6, <1>7, <1>8, <1>9, <1>10
<1>12. /\ MapBytes(ListSizes(r.lists)) <= MapBytes(ListSizes(st.lists)) + 0
       /\ MapBytes(HashSizes(r.hashes)) <= MapBytes(HashSizes(st.hashes)) + 0
  BY Estimate
<1>13. Grows(st, r, (Length[k] + Len1(e.val)) + 0 + 0)
  BY <1>4, <1>7, <1>11, <1>12, MakeGrows DEF y, z
<1>14. QED
  BY <1>7, <1>13

\* The check of Set covers what Set writes.
LEMMA SetGrows ==
  ASSUME NEW st, Sound(st), Finite(st), NEW k \in Keys, NEW v \in Values, NEW exp \in Nat
  PROVE  Grows(st, SetOp(st, k, v, exp), Length[k] + Len1(v))
<1> DEFINE e == [val |-> v, exp |-> exp]
           K == IF exp = 0 THEN st.expiryKeys \ {k} ELSE st.expiryKeys \cup {k}
           d == Put(st.data, k, e)
<1>1. e \in Entries /\ e.val = v
  BY DEF Entries
<1>2. SetOp(st, k, v, exp) = [st EXCEPT !.data = d, !.expiryKeys = K]
  BY DEF SetOp
<1> HIDE DEF e, K, d
<1>3. SetOp(st, k, v, exp) =
        [data |-> d, lists |-> st.lists, hashes |-> st.hashes, expiryKeys |-> K]
  BY <1>2, AssignTwo, Zenon
<1> DEFINE r == SetOp(st, k, v, exp)
<1>4. Sound(r) /\ r.data = d /\ r.lists = st.lists /\ r.hashes = st.hashes
  BY <1>3, SetSound
<1> HIDE DEF r
<1>5. Grows(st, r, Length[k] + Len1(e.val))
  BY <1>1, <1>4, StringGrows DEF d
<1>6. QED
  BY <1>1, <1>5 DEF r

\* So does that of IncrBy, which counts the digits of the new number.
LEMMA IncrByGrows ==
  ASSUME NEW st, Sound(st), Finite(st), NEW k \in Keys, NEW delta \in Ints, NEW now \in Nat,
         IsCounter(st, k, now)
  PROVE  Grows(st, IncrByOp(st, k, delta, now), Length[k] + Digits(Counted(st, k, delta, now)))
<1> DEFINE exp == IF k \in DOMAIN st.data THEN st.data[k].exp ELSE 0
           v == Counted(st, k, delta, now)
           e == [val |-> v, exp |-> exp]
           d == Put(st.data, k, e)
<1>1. exp \in Nat
  BY StoreParts DEF MapOver, Entries
<1>2. v \in Ints
  BY CountedInts
<1>3. IncrByOp(st, k, delta, now) =
        [data |-> d, lists |-> st.lists, hashes |-> st.hashes, expiryKeys |-> st.expiryKeys]
  BY AssignOne DEF IncrByOp
<1> HIDE DEF exp, v
<1>4. e \in Entries /\ e.val = v /\ Len1(e.val) = Digits(v)
  BY <1>1, <1>2 DEF Entries, Values, Len1
<1> HIDE DEF e, d
<1> DEFINE r == IncrByOp(st, k, delta, now)
<1>5. Sound(r) /\ r.data = d /\ r.lists = st.lists /\ r.hashes = st.hashes
  BY <1>3, IncrBySound
<1> HIDE DEF r
<1>6. Grows(st, r, Length[k] + Len1(e.val))
  BY <1>4, <1>5, StringGrows DEF d
<1>7. QED
  BY <1>4, <1>6 DEF r, v

\* LPUSH and RPUSH lengthen one list.
LEMMA ListGrows ==
  ASSUME NEW st, Sound(st), Finite(st), NEW k \in Keys, NEW vals \in Seq(Values),
         NEW q \in Seq(Values), SumLen(q) = SumLen(vals) + SumLen(ListAt(st, k)),
         NEW r, Sound(r), r.data = st.data, r.lists = Put(st.lists, k, q), r.hashes = st.hashes
  PROVE  Grows(st, r, Length[k] + SumLen(vals))
<1> DEFINE y == ListSizes(r.lists)  z == ListSizes(st.lists)
<1>1. /\ MapOver(st.lists, Keys, Seq(Values)) /\ MapOver(r.lists, Keys, Seq(Values))
      /\ IsFiniteSet(DOMAIN st.lists)
  BY StoreParts DEF Finite
<1>2. /\ DOMAIN r.lists = DOMAIN st.lists \cup {k} /\ r.lists[k] = q
      /\ \A x \in DOMAIN st.lists : x # k => r.lists[x] = st.lists[x]
  BY DEF Put
<1>3. IsFiniteSet(DOMAIN r.lists)
  BY <1>1, <1>2, FS_AddElement
<1>4. Finite(r)
  BY <1>3 DEF Finite
<1>5. /\ IsSizes(y) /\ DOMAIN y = DOMAIN r.lists /\ \A x \in DOMAIN y : y[x] = SumLen(r.lists[x])
      /\ IsSizes(z) /\ DOMAIN z = DOMAIN st.lists /\ \A x \in DOMAIN z : z[x] = SumLen(st.lists[x])
  BY <1>1, <1>3, ListSizesOK
<1>6. /\ DOMAIN y = DOMAIN z \cup {k} /\ y[k] = SumLen(q)
      /\ \A x \in DOMAIN z : x # k => y[x] = z[x]
  BY <1>2, <1>5
<1>7. SumLen(vals) \in Nat /\ SumLen(q) \in Nat /\ Length[k] \in Nat /\ k \in Names
  BY LengthsNat, SumLenNat DEF Names
<1>a. SumLen(ListAt(st, k)) = IF k \in DOMAIN z THEN z[k] ELSE 0
  <2>1. CASE k \in DOMAIN z
    BY <1>5, <2>1 DEF ListAt
  <2>2. CASE k \notin DOMAIN z
    <3>1. ListAt(st, k) = <<>> /\ <<>> \in Seq(Values) /\ 1 .. Len(<<>>) = {}
      BY <1>5, <2>2 DEF ListAt
    <3>2. SumLen(<<>>) = SumFunctionOnSet(Lens(<<>>), 1 .. Len(<<>>))
      BY <3>1, SumLenNat
    <3>3. SumFunctionOnSet(Lens(<<>>), {}) = 0
      BY FS_EmptySet, SumFacts
    <3>4. QED
      BY <2>2, <3>1, <3>2, <3>3
  <2>3. QED
    BY <2>1, <2>2
<1> HIDE DEF y, z
<1>8. MapBytes(y) + (IF k \in DOMAIN z THEN Length[k] + z[k] ELSE 0) = MapBytes(z) + Length[k] + y[k]
  BY <1>5, <1>6, <1>7, MapBytesPut
<1>9. k \in DOMAIN z => z[k] \in Nat
  BY <1>5 DEF IsSizes
<1>10. MapBytes(y) \in Nat /\ MapBytes(z) \in Nat
  BY <1>5, MapBytesSum
<1>11. MapBytes(y) <= MapBytes(z) + (Length[k] + SumLen(vals))
  BY <1>6, <1>7, <1>8, <1>9, <1>10, <1>a
<1>12. /\ MapBytes(StringSizes(r.data)) <= MapBytes(StringSizes(st.data)) + 0
       /\ MapBytes(HashSizes(r.hashes)) <= MapBytes(HashSizes(st.hashes)) + 0
  BY Estimate
<1>13. Grows(st, r, 0 + (Length[k] + SumLen(vals)) + 0)
  BY <1>4, <1>7, <1>11, <1>12, MakeGrows DEF y, z
<1>14. QED
  BY <1>7, <1>13

\* The checks of LPush and RPush cover what they append.
LEMMA PushGrows ==
  ASSUME NEW st, Sound(st), Finite(st), NEW k \in Keys, NEW vals \in Seq(Values)
  PROVE  /\ Grows(st, LPushOp(st, k, vals), Length[k] + SumLen(vals))
         /\ Grows(st, RPushOp(st, k, vals), Length[k] + SumLen(vals))
<1> DEFINE old == ListAt(st, k)  a == Reverse(vals) \o old  b == old \o vals
<1>1. old \in Seq(Values) /\ Reverse(vals) \in Seq(Values)
  BY StoreParts, SumLenReverse DEF ListAt, MapOver
<1>2. a \in Seq(Values) /\ b \in Seq(Values)
  BY <1>1
<1>3. /\ SumLen(a) = SumLen(vals) + SumLen(old)
      /\ SumLen(b) = SumLen(vals) + SumLen(old)
  <2>1. SumLen(vals) \in Nat /\ SumLen(old) \in Nat
    BY <1>1, SumLenNat
  <2>2. SumLen(a) = SumLen(Reverse(vals)) + SumLen(old)
    BY <1>1, SumLenConcat
  <2>3. SumLen(b) = SumLen(old) + SumLen(vals)
    BY <1>1, SumLenConcat
  <2>4. SumLen(Reverse(vals)) = SumLen(vals)
    BY SumLenReverse
  <2> HIDE DEF a, b, old
  <2>5. QED
    BY <2>1, <2>2, <2>3, <2>4
<1>4. /\ LPushOp(st, k, vals) = [st EXCEPT !.lists = Put(st.lists, k, a)]
      /\ RPushOp(st, k, vals) = [st EXCEPT !.lists = Put(st.lists, k, b)]
  BY DEF LPushOp, RPushOp
<1>5. /\ Sound(LPushOp(st, k, vals)) /\ LPushOp(st, k, vals).data = st.data
      /\ Sound(RPushOp(st, k, vals)) /\ RPushOp(st, k, vals).data = st.data
  BY PushSound
<1> HIDE DEF a, b
<1>6. /\ LPushOp(st, k, vals).lists = Put(st.lists, k, a) /\ LPushOp(st, k, vals).hashes = st.hashes
      /\ RPushOp(st, k, vals).lists = Put(st.lists, k, b) /\ RPushOp(st, k, vals).hashes = st.hashes
  BY <1>4, AssignOne
<1>7. QED
  BY <1>2, <1>3, <1>5, <1>6, ListGrows DEF old

\* The check of HSet covers a field it writes.
LEMMA HSetGrows ==
  ASSUME NEW st, Sound(st), Finite(st), NEW k \in Keys, NEW f \in Fields, NEW v \in Values
  PROVE  Grows(st, HSetOp(st, k, <<<<f, v>>>>), Length[k] + Length[f] + Len1(v))
<1> DEFINE old == HashAt(st, k)
           new == [x \in DOMAIN old \cup {f} |-> IF x = f THEN v ELSE old[x]]
           r == HSetOp(st, k, <<<<f, v>>>>)
<1>1. r = [data |-> st.data, lists |-> st.lists, hashes |-> Put(st.hashes, k, new),
           expiryKeys |-> st.expiryKeys]
  <2> DEFINE pairs == <<<<f, v>>>>
             named == {pairs[i][1] : i \in DOMAIN pairs}
             Latest(x) == Max({i \in DOMAIN pairs : pairs[i][1] = x})
             g == [x \in DOMAIN old \cup named |-> IF x \in named THEN pairs[Latest(x)][2] ELSE old[x]]
  <2>1. DOMAIN pairs = {1} /\ pairs[1][1] = f /\ pairs[1][2] = v
    OBVIOUS
  <2>2. named = {f}
    BY <2>1
  <2>3. Latest(f) = 1
    <3>1. {i \in DOMAIN pairs : pairs[i][1] = f} = {1}
      BY <2>1
    <3>2. Max({1}) = 1
      BY DEF Max
    <3>3. QED
      BY <3>1, <3>2
  <2>4. HSetOp(st, k, pairs) = [st EXCEPT !.hashes = Put(st.hashes, k, g)]
    BY DEF HSetOp
  <2>5. g = new
    <3> HIDE DEF named, Latest, pairs
    <3>1. QED
      BY <2>1, <2>2, <2>3
  <2> HIDE DEF g, new
  <2>6. QED
    BY <2>4, <2>5, AssignOne
<1>2. Sound(r)
  <2>1. <<<<f, v>>>> \in Seq(Fields \X Values)
    OBVIOUS
  <2>2. QED
    BY <2>1, HSetSound
<1>3. r.data = st.data /\ r.lists = st.lists /\ r.hashes = Put(st.hashes, k, new)
  BY <1>1
<1>4. /\ Hashes(st.hashes) /\ IsFiniteSet(DOMAIN st.hashes)
      /\ \A x \in DOMAIN st.hashes : IsFiniteSet(DOMAIN st.hashes[x])
  BY StoreParts DEF Finite
<1>5. MapOver(old, Fields, Values) /\ IsFiniteSet(DOMAIN old)
  BY <1>4, EmptyMap, FS_EmptySet DEF HashAt, Hashes
<1>6. MapOver(new, Fields, Values) /\ DOMAIN new = DOMAIN old \cup {f} /\ IsFiniteSet(DOMAIN new)
  <2>1. MapOver(new, Fields, Values) /\ DOMAIN new = DOMAIN old \cup {f}
    BY <1>5 DEF MapOver
  <2>2. QED
    BY <1>5, <2>1, FS_AddElement
<1>7. new[f] = v /\ \A x \in DOMAIN old : x # f => new[x] = old[x]
  OBVIOUS
<1>8. /\ MapBytes(FieldSizes(new)) <= MapBytes(FieldSizes(old)) + (Length[f] + Len1(v))
      /\ MapBytes(FieldSizes(new)) \in Nat /\ MapBytes(FieldSizes(old)) \in Nat
  <2> DEFINE y == FieldSizes(new)  z == FieldSizes(old)
  <2>1. /\ IsSizes(y) /\ DOMAIN y = DOMAIN new /\ \A x \in DOMAIN y : y[x] = Len1(new[x])
        /\ IsSizes(z) /\ DOMAIN z = DOMAIN old /\ \A x \in DOMAIN z : z[x] = Len1(old[x])
    BY <1>5, <1>6, FieldSizesOK
  <2>2. /\ DOMAIN y = DOMAIN z \cup {f} /\ y[f] = Len1(v)
        /\ \A x \in DOMAIN z : x # f => y[x] = z[x]
    BY <1>6, <1>7, <2>1
  <2>3. Len1(v) \in Nat /\ Length[f] \in Nat /\ f \in Names
    BY LengthsNat DEF Names
  <2> HIDE DEF y, z
  <2>4. MapBytes(y) + (IF f \in DOMAIN z THEN Length[f] + z[f] ELSE 0) = MapBytes(z) + Length[f] + y[f]
    BY <2>1, <2>2, <2>3, MapBytesPut
  <2>5. f \in DOMAIN z => z[f] \in Nat
    BY <2>1 DEF IsSizes
  <2>6. MapBytes(y) \in Nat /\ MapBytes(z) \in Nat
    BY <2>1, MapBytesSum
  <2>7. MapBytes(y) <= MapBytes(z) + (Length[f] + Len1(v))
    BY <2>2, <2>3, <2>4, <2>5, <2>6
  <2>8. QED
    BY <2>6, <2>7 DEF y, z
<1> HIDE DEF r, new
<1>9. /\ DOMAIN r.hashes = DOMAIN st.hashes \cup {k} /\ r.hashes[k] = new
      /\ \A x \in DOMAIN st.hashes : x # k => r.hashes[x] = st.hashes[x]
  BY <1>3 DEF Put
<1>10. /\ IsFiniteSet(DOMAIN r.hashes) /\ Hashes(r.hashes)
       /\ \A x \in DOMAIN r.hashes : IsFiniteSet(DOMAIN r.hashes[x])
  <2>1. IsFiniteSet(DOMAIN r.hashes)
    BY <1>4, <1>9, FS_AddElement
  <2>2. QED
    BY <1>2, <1>4, <1>6, <1>9, <2>1, StoreParts
<1>11. Finite(r)
  BY <1>3, <1>10 DEF Finite
<1> DEFINE y == HashSizes(r.hashes)  z == HashSizes(st.hashes)
<1>12. /\ IsSizes(y) /\ DOMAIN y = DOMAIN r.hashes
       /\ \A x \in DOMAIN y : y[x] = MapBytes(FieldSizes(r.hashes[x]))
       /\ IsSizes(z) /\ DOMAIN z = DOMAIN st.hashes
       /\ \A x \in DOMAIN z : z[x] = MapBytes(FieldSizes(st.hashes[x]))
  BY <1>4, <1>10, HashSizesOK
<1>13. /\ DOMAIN y = DOMAIN z \cup {k} /\ y[k] = MapBytes(FieldSizes(new))
       /\ \A x \in DOMAIN z : x # k => y[x] = z[x]
  BY <1>9, <1>12
<1>14. /\ Len1(v) \in Nat /\ Length[f] \in Nat /\ Length[k] \in Nat /\ k \in Names
  BY LengthsNat DEF Names
<1>15. IF k \in DOMAIN z THEN z[k] = MapBytes(FieldSizes(old))
                         ELSE MapBytes(FieldSizes(old)) = 0
  <2>1. CASE k \in DOMAIN z
    BY <1>12, <2>1 DEF HashAt
  <2>2. CASE k \notin DOMAIN z
    <3>1. DOMAIN old = {}
      BY <1>12, <2>2, EmptyMap DEF HashAt
    <3>2. DOMAIN FieldSizes(old) = {}
      BY <3>1 DEF FieldSizes
    <3> HIDE DEF old, z
    <3>3. QED
      BY <2>2, <3>2, MapBytesEmpty
  <2>3. QED
    BY <2>1, <2>2
<1> HIDE DEF y, z
<1>16. MapBytes(y) + (IF k \in DOMAIN z THEN Length[k] + z[k] ELSE 0) = MapBytes(z) + Length[k] + y[k]
  BY <1>8, <1>12, <1>13, <1>14, MapBytesPut
<1>17. MapBytes(y) \in Nat /\ MapBytes(z) \in Nat
  BY <1>12, MapBytesSum
<1>18. MapBytes(y) <= MapBytes(z) + (Length[k] + Length[f] + Len1(v))
  <2> DEFINE a == MapBytes(FieldSizes(new))  b == MapBytes(FieldSizes(old))  n == Len1(v)
             lk == Length[k]  lf == Length[f]  my == MapBytes(y)  mz == MapBytes(z)
  <2>1. /\ a \in Nat /\ b \in Nat /\ n \in Nat /\ lk \in Nat /\ lf \in Nat /\ my \in Nat /\ mz \in Nat
        /\ a <= b + (lf + n)
    BY <1>8, <1>14, <1>17
  <2>2. \/ my + (lk + b) = mz + lk + a
        \/ my + 0 = mz + lk + a /\ b = 0
    BY <1>13, <1>15, <1>16
  <2> HIDE DEF a, b, n, lk, lf, my, mz
  <2>3. my <= mz + (lk + lf + n)
    BY <2>1, <2>2
  <2>4. QED
    BY <2>3 DEF n, lk, lf, my, mz
<1>19. /\ MapBytes(StringSizes(r.data)) <= MapBytes(StringSizes(st.data)) + 0
       /\ MapBytes(ListSizes(r.lists)) <= MapBytes(ListSizes(st.lists)) + 0
  BY <1>3, Estimate
<1>20. Grows(st, r, 0 + 0 + (Length[k] + Length[f] + Len1(v)))
  BY <1>2, <1>11, <1>14, <1>18, <1>19, MakeGrows DEF y, z
<1>21. QED
  BY <1>14, <1>20 DEF r

\* What is removed takes up nothing, and a deadline is not counted.
LEMMA ShrinkGrows ==
  ASSUME NEW st, Sound(st), Finite(st)
  PROVE  /\ \A K : Grows(st, DeleteExpired(st, K), 0)
         /\ \A K : Grows(st, DelOp(st, K), 0)
         /\ \A k \in DOMAIN st.data, exp \in Nat \ {0} : Grows(st, ExpireOp(st, k, exp), 0)
         /\ \A k \in Keys : \A F : Grows(st, HDelOp(st, k, F), 0)
<1>a. /\ MapOver(st.data, Keys, Entries) /\ MapOver(st.lists, Keys, Seq(Values))
      /\ Hashes(st.hashes)
  BY StoreParts
<1>1. ASSUME NEW K  PROVE Grows(st, DeleteExpired(st, K), 0)
  <2> DEFINE r == DeleteExpired(st, K)  d == Drop(st.data, K)  e == st.expiryKeys \ K
  <2>1. r = [st EXCEPT !.data = d, !.expiryKeys = e]
    BY DEF DeleteExpired
  <2>2. Sound(r)
    BY DeleteExpiredSound
  <2>3. DOMAIN d \subseteq DOMAIN st.data /\ \A x \in DOMAIN d : d[x] = st.data[x]
    BY DEF Drop, Restrict
  <2> HIDE DEF d, e
  <2>4. r = [data |-> d, lists |-> st.lists, hashes |-> st.hashes, expiryKeys |-> e]
    BY <2>1, AssignTwo, Zenon
  <2> HIDE DEF r
  <2>5. r.data = d /\ r.lists = st.lists /\ r.hashes = st.hashes
    BY <2>4
  <2>6. Grows(st, r, 0)
    BY <2>2, <2>3, <2>5, LessStored
  <2>7. QED
    BY <2>6 DEF r
<1>2. ASSUME NEW K  PROVE Grows(st, DelOp(st, K), 0)
  <2> DEFINE r == DelOp(st, K)
  <2>1. r.data = Drop(st.data, K) /\ r.lists = Drop(st.lists, K) /\ r.hashes = Drop(st.hashes, K)
    BY DEF DelOp
  <2>2. Sound(r)
    BY DelSound
  <2> HIDE DEF r
  <2>3. /\ DOMAIN r.data \subseteq DOMAIN st.data /\ \A x \in DOMAIN r.data : r.data[x] = st.data[x]
        /\ DOMAIN r.lists \subseteq DOMAIN st.lists /\ \A x \in DOMAIN r.lists : r.lists[x] = st.lists[x]
        /\ DOMAIN r.hashes \subseteq DOMAIN st.hashes
        /\ \A x \in DOMAIN r.hashes : r.hashes[x] = st.hashes[x]
    BY <2>1 DEF Drop, Restrict
  <2>4. Grows(st, r, 0)
    BY <2>2, <2>3, LessStored
  <2>5. QED
    BY <2>4 DEF r
<1>3. ASSUME NEW k \in DOMAIN st.data, NEW exp \in Nat \ {0}  PROVE Grows(st, ExpireOp(st, k, exp), 0)
  <2> DEFINE r == ExpireOp(st, k, exp)  d == [st.data EXCEPT ![k].exp = exp]
             e == st.expiryKeys \cup {k}
  <2>1. PICK a, b, c, f : st = [data |-> a, lists |-> b, hashes |-> c, expiryKeys |-> f]
    BY StoreParts DEF Sound, IsStore
  <2>2. r.data = d /\ r.lists = st.lists /\ r.hashes = st.hashes
    BY <2>1 DEF ExpireOp
  <2>3. Sound(r)
    BY ExpireSound
  <2>4. /\ DOMAIN d = DOMAIN st.data
        /\ \A x \in DOMAIN d : d[x].val = st.data[x].val
    <3>1. /\ DOMAIN d = DOMAIN st.data /\ d[k] = [st.data[k] EXCEPT !.exp = exp]
          /\ \A x \in DOMAIN d : x # k => d[x] = st.data[x]
      BY <1>a DEF MapOver
    <3>2. st.data[k] \in Entries
      BY <1>a DEF MapOver
    <3>3. d[k].val = st.data[k].val
      BY <3>1, <3>2 DEF Entries
    <3>4. QED
      BY <3>1, <3>3
  <2> HIDE DEF r, d
  <2>5. Grows(st, r, 0)
    BY <2>2, <2>3, <2>4, LessStored
  <2>6. QED
    BY <2>5 DEF r
<1>4. ASSUME NEW k \in Keys, NEW F  PROVE Grows(st, HDelOp(st, k, F), 0)
  <2> DEFINE r == HDelOp(st, k, F)  h == Drop(HashAt(st, k), F)
             hs == IF k \notin DOMAIN st.hashes THEN st.hashes
                   ELSE IF DOMAIN h = {} THEN Drop(st.hashes, {k}) ELSE Put(st.hashes, k, h)
  <2>1. Sound(r) /\ r.data = st.data
    BY HDelSound
  <2>2. r.lists = st.lists /\ r.hashes = hs
    <3>1. CASE k \notin DOMAIN st.hashes
      BY <3>1 DEF HDelOp
    <3>2. CASE k \in DOMAIN st.hashes
      <4>1. r = [st EXCEPT !.hashes = hs]
        BY <3>2 DEF HDelOp
      <4> HIDE DEF hs, r
      <4>2. QED
        BY <4>1, AssignOne
    <3>3. QED
      BY <3>1, <3>2
  <2>3. /\ DOMAIN hs \subseteq DOMAIN st.hashes
        /\ \A x \in DOMAIN hs :
             hs[x] = st.hashes[x] \/ (x = k /\ k \in DOMAIN st.hashes /\ hs[x] = h)
    BY DEF Put, Drop, Restrict
  <2>4. k \in DOMAIN st.hashes =>
          /\ DOMAIN h \subseteq DOMAIN st.hashes[k]
          /\ \A f \in DOMAIN h : h[f] = st.hashes[k][f]
    BY DEF Drop, Restrict, HashAt
  <2> HIDE DEF r, h, hs
  <2>5. Grows(st, r, 0)
    BY <2>1, <2>2, <2>3, <2>4, LessStored
  <2>6. QED
    BY <2>5 DEF r
<1>5. QED
  BY <1>1, <1>2, <1>3, <1>4
=============================================================================
