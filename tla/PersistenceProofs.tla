-------------------------- MODULE PersistenceProofs --------------------------
(***************************************************************************)
(* Rewrites and restarts, for any workload, chunk size and number of       *)
(* crashes.  Whatever the TTLs and the memory ceiling, what was deleted    *)
(* stays deleted.  Without a ceiling, the lists and hashes are back as     *)
(* they were, and so are the strings without a TTL and those whose         *)
(* deadline lies ahead, unless EXPIRE or INCRBY meet TTLs.  Without TTLs   *)
(* and without a ceiling the whole store is back exactly as it was.        *)
(***************************************************************************)
EXTENDS Persistence, StoreOpsProofs, SequenceTheorems

(***************************************************************************)
(* Joining sequences.  FlattenSeq is a recursive function: that it exists  *)
(* and what it returns are shown by least counterexamples.                 *)
(***************************************************************************)

\* The parts up to each position, one after the other, exist.
Joins(q, m, S) ==
  {h \in [1 .. m -> Seq(S)] :
     \A i \in 1 .. m : h[i] = IF i = 1 THEN q[i] ELSE h[i - 1] \o q[i]}

\* They can be built one by one.
LEMMA JoinsExist ==
  ASSUME NEW S, NEW q \in Seq(Seq(S)), NEW n \in 1 .. Len(q)
  PROVE  Joins(q, n, S) # {}
<1> DEFINE T == {m \in 1 .. Len(q) : Joins(q, m, S) = {}}
<1>1. SUFFICES ASSUME T # {} PROVE FALSE
  OBVIOUS
<1>2. Len(q) \in Nat /\ \A i \in 1 .. Len(q) : q[i] \in Seq(S)
  BY LenProperties, ElementOfSeq
<1>3. PICK m \in T : \A x \in T : m <= x
  <2>1. T \subseteq Nat
    BY <1>2
  <2> HIDE DEF T
  <2>2. QED
    BY <1>1, <2>1, LeastNumber
<1>4. CASE m = 1
  <2> DEFINE h == [i \in 1 .. 1 |-> q[1]]
  <2>1. h \in Joins(q, 1, S)
    BY <1>2, <1>3, <1>4 DEF Joins
  <2>2. QED
    BY <1>3, <1>4, <2>1
<1>5. CASE m # 1
  <2>1. m - 1 \in 1 .. Len(q) /\ ~ (m <= m - 1) /\ m \in Nat
    BY <1>2, <1>3, <1>5
  <2>2. PICK g : g \in Joins(q, m - 1, S)
    BY <1>3, <2>1
  <2> DEFINE last == g[m - 1] \o q[m]
             h == [i \in 1 .. m |-> IF i = m THEN last ELSE g[i]]
  <2>3. /\ g \in [1 .. m - 1 -> Seq(S)]
        /\ \A i \in 1 .. m - 1 : g[i] = IF i = 1 THEN q[i] ELSE g[i - 1] \o q[i]
    BY <2>2 DEF Joins
  <2>4. last \in Seq(S)
    <3>1. g[m - 1] \in Seq(S) /\ q[m] \in Seq(S)
      BY <1>2, <1>3, <2>1, <2>3
    <3>2. QED
      BY <3>1, ConcatProperties
  <2> HIDE DEF last
  <2>5. \A i \in 1 .. m : i # m => i \in 1 .. m - 1
    BY <2>1
  <2>6. h \in [1 .. m -> Seq(S)]
    BY <2>3, <2>4, <2>5
  <2>7. ASSUME NEW i \in 1 .. m
        PROVE  h[i] = IF i = 1 THEN q[i] ELSE h[i - 1] \o q[i]
    <3>1. CASE i = m
      <4>1. m - 1 \in 1 .. m /\ m - 1 # m /\ m # 1
        BY <1>5, <2>1
      <4>2. m \in 1 .. m
        BY <2>1
      <4>3. h[m] = last /\ h[m - 1] = g[m - 1]
        BY <4>1, <4>2
      <4>4. QED
        BY <3>1, <4>1, <4>3 DEF last
    <3>2. CASE i # m
      <4>1. h[i] = g[i]
        BY <3>2
      <4>2. i # 1 => i - 1 \in 1 .. m /\ i - 1 # m
        BY <2>1
      <4>3. i # 1 => h[i - 1] = g[i - 1]
        BY <4>2
      <4>4. QED
        BY <2>3, <2>5, <3>2, <4>1, <4>3
    <3>3. QED
      BY <3>1, <3>2
  <2> HIDE DEF h
  <2>8. h \in Joins(q, m, S)
    BY <2>6, <2>7 DEF Joins
  <2>9. QED
    BY <1>3, <2>8
<1>6. QED
  BY <1>4, <1>5

\* FlattenSeq returns the last of them.
LEMMA FlattenJoins ==
  ASSUME NEW S, NEW q \in Seq(Seq(S)), Len(q) # 0
  PROVE  \E g \in Joins(q, Len(q), S) : FlattenSeq(q) = g[Len(q)]
<1> DEFINE Step(f) == [i \in 1 .. Len(q) |-> IF i = 1 THEN q[i] ELSE f[i - 1] \o q[i]]
           f == CHOOSE f : f = Step(f)
<1>1. Len(q) \in 1 .. Len(q)
  BY LenProperties
<1>2. PICK h : h \in Joins(q, Len(q), S)
  BY <1>1, JoinsExist
<1>3. h = Step(h)
  BY <1>2 DEF Joins
<1>4. f = Step(f)
  BY <1>3, Zenon
<1>5. FlattenSeq(q) = f[Len(q)]
  <2>1. FlattenSeq(q) = IF Len(q) = 0 THEN q ELSE f[Len(q)]
    BY Zenon DEF FlattenSeq
  <2>2. QED
    BY <2>1
<1> HIDE DEF f
<1> DEFINE T == {m \in 1 .. Len(q) : f[m] \notin Seq(S)}
<1>6. \A i \in 1 .. Len(q) : f[i] = IF i = 1 THEN q[i] ELSE f[i - 1] \o q[i]
  BY <1>4
<1>7. ASSUME T # {} PROVE FALSE
  <2>1. PICK m \in T : \A x \in T : m <= x
    <3>1. T \subseteq Nat
      OBVIOUS
    <3> HIDE DEF T
    <3>2. QED
      BY <1>7, <3>1, LeastNumber
  <2>2. q[m] \in Seq(S) /\ m \in 1 .. Len(q) /\ Len(q) \in Nat
    BY ElementOfSeq, LenProperties
  <2>3. CASE m = 1
    BY <1>6, <2>1, <2>2, <2>3
  <2>4. CASE m # 1
    <3>1. m - 1 \in 1 .. Len(q) /\ ~ (m <= m - 1)
      BY <2>2, <2>4
    <3>2. f[m - 1] \in Seq(S)
      BY <2>1, <3>1
    <3>3. f[m] = f[m - 1] \o q[m]
      BY <1>6, <2>2, <2>4
    <3>4. f[m] \in Seq(S)
      BY <2>2, <3>2, <3>3, ConcatProperties
    <3>5. QED
      BY <2>1, <3>4
  <2>5. QED
    BY <2>3, <2>4
<1>8. f \in [1 .. Len(q) -> Seq(S)]
  <2>1. DOMAIN f = 1 .. Len(q) /\ f = [i \in 1 .. Len(q) |-> f[i]]
    BY <1>4
  <2>2. QED
    BY <1>7, <2>1
<1>9. f \in Joins(q, Len(q), S)
  BY <1>6, <1>8 DEF Joins
<1>10. QED
  BY <1>5, <1>9

\* So it keeps the elements in their set.
LEMMA FlattenIn ==
  ASSUME NEW S, NEW q \in Seq(Seq(S))
  PROVE  FlattenSeq(q) \in Seq(S)
<1>1. CASE Len(q) = 0
  <2>1. FlattenSeq(q) = q /\ q = <<>>
    BY <1>1, EmptySeq DEF FlattenSeq
  <2>2. QED
    BY <2>1
<1>2. CASE Len(q) # 0
  <2>1. PICK g \in Joins(q, Len(q), S) : FlattenSeq(q) = g[Len(q)]
    BY <1>2, FlattenJoins
  <2>2. Len(q) \in 1 .. Len(q)
    BY <1>2, LenProperties
  <2>3. QED
    BY <2>1, <2>2 DEF Joins
<1>3. QED
  BY <1>1, <1>2

-----------------------------------------------------------------------------
(***************************************************************************)
(* Commands.                                                               *)
(***************************************************************************)

\* Commands that can bring a string into being, and those that remove it.
Makes(c, k) == c.op \in {"SET", "INCRBY"} /\ c.key = k
Clears(c, k) == c.op = "FLUSHALL" \/ (c.op = "DEL" /\ k \in c.keys)

\* What a command carries.
LEMMA CommandParts ==
  ASSUME NEW c \in Commands
  PROVE  /\ c.op \in {"SET", "EXPIRE", "INCRBY", "LPUSH", "RPUSH", "HSET", "HDEL", "DEL",
                      "FLUSHALL"}
         /\ c.op = "SET" => c.key \in Keys /\ c.val \in Values /\ c.ttl \in Nat
         /\ c.op = "EXPIRE" => c.key \in Keys /\ c.ttl \in Nat
         /\ c.op = "INCRBY" => c.key \in Keys /\ c.delta \in Ints
         /\ c.op \in {"LPUSH", "RPUSH"} => c.key \in Keys /\ c.vals \in Seq(Values) \ {<<>>}
         /\ c.op = "HSET" => c.key \in Keys /\ c.pairs \in Seq(Fields \X Values) \ {<<>>}
         /\ c.op = "HDEL" => c.key \in Keys /\ c.fields \subseteq Fields
         /\ c.op = "DEL" => c.keys \subseteq Keys
BY DEF Commands

\* What a command does to the store.
LEMMA EffectOf ==
  ASSUME NEW c
  PROVE  /\ c.op = "SET" =>
              Effect(c) = SetOp(s, c.key, c.val, IF c.ttl > 0 THEN Deadline(c.ttl) ELSE 0)
         /\ c.op = "DEL" => Effect(c) = DelOp(s, c.keys)
         /\ c.op = "EXPIRE" => Effect(c) = ExpireOp(s, c.key, Deadline(c.ttl))
         /\ c.op = "INCRBY" => Effect(c) = IncrByOp(s, c.key, c.delta, now)
         /\ c.op = "LPUSH" => Effect(c) = LPushOp(s, c.key, c.vals)
         /\ c.op = "RPUSH" => Effect(c) = RPushOp(s, c.key, c.vals)
         /\ c.op = "HSET" => Effect(c) = HSetOp(s, c.key, c.pairs)
         /\ c.op = "HDEL" => Effect(c) = HDelOp(s, c.key, c.fields)
         /\ c.op = "FLUSHALL" => Effect(c) = Empty
BY DEF Effect

\* When a command reports success.
LEMMA SuccessOf ==
  ASSUME NEW c, Succeeds(c)
  PROVE  /\ c.op = "EXPIRE" => c.key \in DOMAIN s.data
         /\ c.op = "INCRBY" => IsCounter(s, c.key, now)
BY Zenon DEF Succeeds

\* DEL and FLUSHALL do.
LEMMA ClearsSucceeds ==
  ASSUME NEW c, NEW k, Clears(c, k)
  PROVE  Succeeds(c)
BY Zenon DEF Succeeds, Clears

\* A TTL makes a deadline, never the zero time.
LEMMA DeadlineIsTime ==
  ASSUME NEW ttl \in Nat, now \in Nat \ {0}
  PROVE  Deadline(ttl) \in Nat \ {0}
<1>1. TicksPerMs \in Nat
  BY PersistenceAssumption
<1> DEFINE ticks == ttl * TicksPerMs
<1>2. ticks \in Nat
  BY <1>1
<1> HIDE DEF ticks
<1>3. now + ticks \in Nat \ {0}
  BY <1>2
<1>4. QED
  BY <1>3 DEF Deadline, ticks

\* A command that succeeds leaves a store as the program can have it; the strings
\* there are were there before or are the command's own.
LEMMA EffectSound ==
  ASSUME NEW c \in Commands, Succeeds(c), Sound(s), now \in Nat \ {0}
  PROVE  /\ Sound(Effect(c))
         /\ \A k \in DOMAIN Effect(c).data :
              ~ Clears(c, k) /\ (k \in DOMAIN s.data \/ Makes(c, k))
<1>1. /\ c.op \in {"SET", "EXPIRE", "INCRBY", "LPUSH", "RPUSH", "HSET", "HDEL", "DEL", "FLUSHALL"}
      /\ c.op = "EXPIRE" => c.key \in DOMAIN s.data
      /\ c.op = "INCRBY" => IsCounter(s, c.key, now)
  BY CommandParts, SuccessOf
<1>2. CASE c.op = "SET"
  <2> DEFINE exp == IF c.ttl > 0 THEN Deadline(c.ttl) ELSE 0
  <2>1. c.key \in Keys /\ c.val \in Values /\ exp \in Nat
    BY <1>2, CommandParts, DeadlineIsTime
  <2>2. Effect(c) = SetOp(s, c.key, c.val, exp)
    BY <1>2, EffectOf
  <2> HIDE DEF exp
  <2>3. Sound(Effect(c)) /\ DOMAIN Effect(c).data = DOMAIN s.data \cup {c.key}
    BY <2>1, <2>2, SetSound
  <2>4. QED
    BY <1>2, <2>3 DEF Clears, Makes
<1>3. CASE c.op = "EXPIRE"
  <2>1. Deadline(c.ttl) \in Nat \ {0}
    BY <1>3, CommandParts, DeadlineIsTime
  <2>2. Effect(c) = ExpireOp(s, c.key, Deadline(c.ttl))
    BY <1>3, EffectOf
  <2>3. Sound(Effect(c)) /\ DOMAIN Effect(c).data = DOMAIN s.data
    BY <1>1, <1>3, <2>1, <2>2, ExpireSound
  <2>4. QED
    BY <1>3, <2>3 DEF Clears
<1>4. CASE c.op = "INCRBY"
  <2>1. c.key \in Keys /\ c.delta \in Ints
    BY <1>4, CommandParts
  <2>2. Effect(c) = IncrByOp(s, c.key, c.delta, now)
    BY <1>4, EffectOf
  <2>3. Sound(Effect(c)) /\ DOMAIN Effect(c).data = DOMAIN s.data \cup {c.key}
    BY <1>1, <1>4, <2>1, <2>2, IncrBySound
  <2>4. QED
    BY <1>4, <2>3 DEF Clears, Makes
<1>5. CASE c.op \in {"LPUSH", "RPUSH"}
  <2>1. c.key \in Keys /\ c.vals \in Seq(Values)
    BY <1>5, CommandParts
  <2>2. Effect(c) = LPushOp(s, c.key, c.vals) \/ Effect(c) = RPushOp(s, c.key, c.vals)
    BY <1>5, EffectOf
  <2>3. Sound(Effect(c)) /\ Effect(c).data = s.data
    BY <2>1, <2>2, PushSound
  <2>4. QED
    BY <1>5, <2>3 DEF Clears
<1>6. CASE c.op = "HSET"
  <2>1. c.key \in Keys /\ c.pairs \in Seq(Fields \X Values)
    BY <1>6, CommandParts
  <2>2. Effect(c) = HSetOp(s, c.key, c.pairs)
    BY <1>6, EffectOf
  <2>3. Sound(Effect(c)) /\ Effect(c).data = s.data
    BY <2>1, <2>2, HSetSound
  <2>4. QED
    BY <1>6, <2>3 DEF Clears
<1>7. CASE c.op = "HDEL"
  <2>1. c.key \in Keys
    BY <1>7, CommandParts
  <2>2. Effect(c) = HDelOp(s, c.key, c.fields)
    BY <1>7, EffectOf
  <2>3. Sound(Effect(c)) /\ Effect(c).data = s.data
    BY <2>1, <2>2, HDelSound
  <2>4. QED
    BY <1>7, <2>3 DEF Clears
<1>8. CASE c.op = "DEL"
  <2>1. Effect(c) = DelOp(s, c.keys)
    BY <1>8, EffectOf
  <2>2. Sound(Effect(c)) /\ DOMAIN Effect(c).data = DOMAIN s.data \ c.keys
    BY <2>1, DelSound
  <2>3. QED
    BY <1>8, <2>2 DEF Clears
<1>9. CASE c.op = "FLUSHALL"
  <2>1. Effect(c) = Empty /\ DOMAIN Empty.data = {}
    BY <1>9, EffectOf DEF Empty
  <2>2. QED
    BY <2>1, EmptySound
<1>10. QED
  BY <1>1, <1>2, <1>3, <1>4, <1>5, <1>6, <1>7, <1>8, <1>9

-----------------------------------------------------------------------------
(***************************************************************************)
(* Logs.                                                                   *)
(***************************************************************************)

\* In q a command clears k; and after every command that makes k another clears it.
ClearedIn(q, k) == \E j \in DOMAIN q : Clears(q[j], k)
Settled(q, k) ==
  \A i \in DOMAIN q : Makes(q[i], k) => \E j \in DOMAIN q : i < j /\ Clears(q[j], k)

\* A command that does not make k keeps a log settled; one that clears it settles it.
LEMMA SettledAppend ==
  ASSUME NEW q \in Seq(Commands), NEW c \in Commands, NEW k,
         ~ Makes(c, k), Settled(q, k) \/ Clears(c, k)
  PROVE  /\ Settled(Append(q, c), k)
         /\ ClearedIn(q, k) \/ Clears(c, k) => ClearedIn(Append(q, c), k)
<1> DEFINE r == Append(q, c)
<1>1. /\ Len(q) \in Nat /\ DOMAIN q = 1 .. Len(q) /\ DOMAIN r = 1 .. Len(q) + 1
      /\ \A i \in DOMAIN q : r[i] = q[i]
      /\ r[Len(q) + 1] = c
  BY AppendProperties, LenProperties
<1> HIDE DEF r
<1>2. Len(q) + 1 \in DOMAIN r /\ \A i \in DOMAIN q : i \in DOMAIN r /\ i < Len(q) + 1
  BY <1>1
<1>3. \A i \in DOMAIN r : i = Len(q) + 1 \/ i \in DOMAIN q
  BY <1>1
<1>4. Settled(r, k)
  <2> SUFFICES ASSUME NEW i \in DOMAIN r, Makes(r[i], k)
               PROVE  \E j \in DOMAIN r : i < j /\ Clears(r[j], k)
    BY DEF Settled
  <2>1. i \in DOMAIN q /\ Makes(q[i], k)
    BY <1>1, <1>3
  <2>2. CASE Clears(c, k)
    BY <1>1, <1>2, <2>1, <2>2
  <2>3. CASE Settled(q, k)
    <3>1. PICK j \in DOMAIN q : i < j /\ Clears(q[j], k)
      BY <2>1, <2>3 DEF Settled
    <3>2. QED
      BY <1>1, <1>2, <3>1
  <2>4. QED
    BY <2>2, <2>3
<1>5. ClearedIn(q, k) \/ Clears(c, k) => ClearedIn(r, k)
  BY <1>1, <1>2 DEF ClearedIn
<1>6. QED
  BY <1>4, <1>5 DEF r

\* A rewrite: what the snapshot holds of k is cleared by the commands mirrored since.
LEMMA SettledConcat ==
  ASSUME NEW p \in Seq(Commands), NEW q \in Seq(Commands), NEW k,
         Settled(q, k), ClearedIn(q, k) \/ \A i \in DOMAIN p : ~ Makes(p[i], k)
  PROVE  Settled(p \o q, k)
<1> DEFINE r == p \o q
           n == Len(p)
<1>1. /\ n \in Nat /\ Len(q) \in Nat /\ DOMAIN p = 1 .. n /\ DOMAIN q = 1 .. Len(q)
      /\ DOMAIN r = 1 .. n + Len(q)
      /\ \A i \in 1 .. n + Len(q) : r[i] = IF i <= n THEN p[i] ELSE q[i - n]
  BY ConcatProperties, LenProperties
<1> HIDE DEF r, n
<1>2. \A j \in DOMAIN q : n + j \in DOMAIN r /\ r[n + j] = q[j] /\ n < n + j
  <2> TAKE j \in DOMAIN q
  <2>1. n + j \in 1 .. n + Len(q) /\ ~ (n + j <= n) /\ (n + j) - n = j
    BY <1>1
  <2>2. QED
    BY <1>1, <2>1
<1>3. SUFFICES ASSUME NEW i \in DOMAIN r, Makes(r[i], k)
               PROVE  \E j \in DOMAIN r : i < j /\ Clears(r[j], k)
  BY DEF Settled, r
<1>4. CASE i <= n
  <2>1. i \in DOMAIN p /\ Makes(p[i], k)
    BY <1>1, <1>3, <1>4
  <2>2. PICK j \in DOMAIN q : Clears(q[j], k)
    BY <2>1 DEF ClearedIn
  <2>3. i < n + j
    BY <1>1, <1>4, <2>2
  <2>4. QED
    BY <1>2, <2>2, <2>3
<1>5. CASE ~ (i <= n)
  <2>1. i - n \in DOMAIN q /\ Makes(q[i - n], k) /\ i \in Nat
    BY <1>1, <1>3, <1>5
  <2>2. PICK j \in DOMAIN q : i - n < j /\ Clears(q[j], k)
    BY <2>1 DEF Settled
  <2>3. i < n + j
    BY <1>1, <2>1, <2>2
  <2>4. QED
    BY <1>2, <2>2, <2>3
<1>6. QED
  BY <1>4, <1>5

-----------------------------------------------------------------------------
(***************************************************************************)
(* What a rewrite makes of its snapshot.                                   *)
(***************************************************************************)

\* Commands that make no string the snapshot does not hold, and set no TTL without
\* a deadline.
Rebuilds ==
  {c \in Commands :
     /\ \A k : Makes(c, k) => k \in DOMAIN snap.data
     /\ c.op # "EXPIRE"
     /\ c.op = "SET" => c.ttl = 0 \/ snap.data[c.key].exp # 0}

\* Those of one kind.
Writes(op) == {c \in Rebuilds : c.op = op}

\* A function on a range of positions is a sequence.
LEMMA PartsAreSeq ==
  ASSUME NEW S, NEW n \in Nat, NEW f, DOMAIN f = 1 .. n, f = [i \in 1 .. n |-> f[i]],
         \A i \in 1 .. n : f[i] \in S
  PROVE  f \in Seq(S)
OBVIOUS

\* The keys of a map in any order: each of them once.
LEMMA OrderOfKeys ==
  ASSUME NEW S, IsFiniteSet(S), NEW T, T \subseteq S, NEW q \in Orders(T)
  PROVE  /\ q \in Seq(T)
         /\ \A i, j \in 1 .. Len(q) : q[i] = q[j] => i = j
         /\ \A x \in T : \E i \in 1 .. Len(q) : q[i] = x
<1>1. IsFiniteSet(T)
  BY FS_Subset
<1> DEFINE n == Cardinality(T)
<1>2. n \in Nat
  BY <1>1, FS_CardinalityType
<1>3. q \in [1 .. n -> T] /\ IsInjective(q)
  BY DEF Orders
<1> HIDE DEF n
<1>4. q \in Seq(T) /\ Len(q) = n
  BY <1>2, <1>3
<1>5. \A i, j \in 1 .. n : q[i] = q[j] => i = j
  BY <1>3 DEF IsInjective
<1>6. q \in Injection(1 .. n, T)
  BY <1>3 DEF Injection
<1>7. Cardinality(1 .. n) = Cardinality(T)
  BY <1>2, FS_Interval DEF n
<1>8. q \in Surjection(1 .. n, T)
  BY <1>1, <1>6, <1>7, FS_Injection
<1>9. \A x \in T : \E i \in 1 .. n : q[i] = x
  BY <1>8 DEF Surjection
<1>10. QED
  BY <1>4, <1>5, <1>9

\* There are no more chunks than have a first element.
LEMMA ChunkStarts ==
  ASSUME NEW n \in Nat, NEW size \in Nat \ {0}, NEW i \in 1 .. (n + size - 1) \div size
  PROVE  /\ (i - 1) * size \in Nat /\ i * size \in Nat
         /\ i * size = (i - 1) * size + size
         /\ (i - 1) * size + 1 <= n
         /\ i = (n + size - 1) \div size => n <= i * size
<1> DEFINE d == n + size - 1
           m == d \div size
<1>1. d \in Nat /\ n = d - size + 1
  OBVIOUS
<1> HIDE DEF d
<1>2. m \in Nat /\ m * size <= d
  BY <1>1
<1> HIDE DEF m
<1>3. i \in Nat \ {0} /\ i <= m
  BY <1>2 DEF m, d
<1>4. m - i \in Nat /\ i - 1 \in Nat
  BY <1>2, <1>3
<1>5. (m - i) * size \in Nat /\ (i - 1) * size \in Nat /\ i * size \in Nat
  BY <1>3, <1>4
<1>6. /\ (m - i) * size = m * size - i * size /\ (i - 1) * size = i * size - size
      /\ m * size \in Int
  BY <1>2, <1>3
<1>7. QED
  BY <1>1, <1>2, <1>5, <1>6

\* Where a chunk ends.
LEMMA LeastOfTwo ==
  ASSUME NEW a \in Nat, NEW b \in Nat
  PROVE  Min({a, b}) = IF a <= b THEN a ELSE b
<1> DEFINE m == IF a <= b THEN a ELSE b
<1>1. m \in {a, b} /\ \A y \in {a, b} : m <= y
  OBVIOUS
<1>2. \A x \in {a, b} : (\A y \in {a, b} : x <= y) => x = m
  OBVIOUS
<1>3. QED
  BY <1>1, <1>2 DEF Min

\* Chunks cut a sequence at increasing positions, from its start to its end.
Cuts(e, q) ==
  LET n == Len(Chunks(q))
  IN  /\ n \in Nat /\ DOMAIN Chunks(q) = 1 .. n
      /\ e[0] = 0 /\ e[n] = Len(q)
      /\ \A i \in 0 .. n : e[i] \in 0 .. Len(q)
      /\ \A i \in 1 .. n : e[i - 1] < e[i] /\ Chunks(q)[i] = SubSeq(q, e[i - 1] + 1, e[i])

LEMMA ChunksCut ==
  ASSUME NEW S, NEW q \in Seq(S)
  PROVE  \E e : Cuts(e, q)
<1> DEFINE len == Len(q)
           n == (len + ChunkSize - 1) \div ChunkSize
           End(i) == Min({i * ChunkSize, len})
           Part(i) == SubSeq(q, (i - 1) * ChunkSize + 1, End(i))
           e == [i \in 0 .. n |-> End(i)]
           c == [i \in 1 .. n |-> Part(i)]
<1>1. ChunkSize \in Nat \ {0} /\ len \in Nat
  BY PersistenceAssumption, LenProperties
<1>2. n \in Nat
  <2> DEFINE m == len + ChunkSize - 1
  <2>1. m \in Nat
    BY <1>1
  <2> HIDE DEF m
  <2>2. m \div ChunkSize \in Nat
    BY <1>1, <2>1
  <2>3. QED
    BY <2>2 DEF m
<1>3. Chunks(q) = c
  BY DEF Chunks
<1>4. \A i \in 1 .. n :
        /\ (i - 1) * ChunkSize \in Nat /\ i * ChunkSize \in Nat
        /\ i * ChunkSize = (i - 1) * ChunkSize + ChunkSize
        /\ (i - 1) * ChunkSize + 1 <= len
        /\ i = n => len <= i * ChunkSize
  BY <1>1, ChunkStarts
<1>5. n = 0 => len = 0
  <2> DEFINE m == len + ChunkSize - 1
  <2>1. len # 0 => m \in Nat /\ ChunkSize <= m
    BY <1>1
  <2> HIDE DEF m
  <2>2. m \in Nat /\ ChunkSize <= m => m \div ChunkSize # 0
    BY <1>1
  <2>3. QED
    BY <2>1, <2>2 DEF m
<1>6. End(0) = 0
  <2>1. 0 * ChunkSize = 0
    BY <1>1
  <2>2. QED
    BY <1>1, <2>1, LeastOfTwo
<1> HIDE DEF len, n
<1>7. ASSUME NEW i \in 1 .. n
      PROVE  /\ End(i) \in 0 .. len /\ End(i - 1) = (i - 1) * ChunkSize /\ End(i - 1) < End(i)
             /\ i = n => End(i) = len
  <2> DEFINE a == (i - 1) * ChunkSize
             b == i * ChunkSize
  <2>1. /\ a \in Nat /\ b \in Nat /\ b = a + ChunkSize /\ a + 1 <= len
        /\ i = n => len <= b
    BY <1>4
  <2> HIDE DEF a, b
  <2>2. Min({a, len}) = a
    BY <1>1, <2>1, LeastOfTwo
  <2>3. Min({b, len}) = IF b <= len THEN b ELSE len
    BY <1>1, <2>1, LeastOfTwo
  <2>4. a < Min({b, len}) /\ Min({b, len}) \in 0 .. len /\ (i = n => Min({b, len}) = len)
    BY <1>1, <2>1, <2>3
  <2>5. QED
    BY <2>2, <2>4 DEF a, b
<1> HIDE DEF End
<1>8. /\ \A i \in 0 .. n : e[i] = End(i)
      /\ \A i \in 1 .. n : i \in 0 .. n /\ i - 1 \in 0 .. n
  BY <1>2
<1>9. /\ e[0] = 0 /\ e[n] = len
      /\ \A i \in 0 .. n : e[i] \in 0 .. len
  <2>1. e[0] = 0
    BY <1>2, <1>6, <1>8
  <2>2. CASE n = 0
    BY <1>1, <1>5, <2>1, <2>2
  <2>3. CASE n # 0
    <3>1. n \in 1 .. n /\ n \in 0 .. n
      BY <1>2, <2>3
    <3>2. e[n] = len
      BY <1>7, <1>8, <3>1
    <3>3. \A i \in 0 .. n : i = 0 \/ i \in 1 .. n
      BY <1>2
    <3>4. QED
      BY <1>1, <1>7, <1>8, <2>1, <3>2, <3>3
  <2>4. QED
    BY <2>2, <2>3
<1>10. ASSUME NEW i \in 1 .. n
       PROVE  e[i - 1] < e[i] /\ c[i] = SubSeq(q, e[i - 1] + 1, e[i])
  <2>1. e[i - 1] = (i - 1) * ChunkSize /\ e[i] = End(i) /\ e[i - 1] < e[i]
    BY <1>7, <1>8
  <2>2. QED
    BY <2>1
<1>11. Len(c) = n /\ DOMAIN c = 1 .. n
  BY <1>2
<1> HIDE DEF e, c
<1>12. Cuts(e, q)
  BY <1>2, <1>3, <1>9, <1>10, <1>11 DEF Cuts, len
<1>13. QED
  BY <1>12

\* Parts of a sequence.
LEMMA PartIn ==
  ASSUME NEW S, NEW q \in Seq(S), NEW m \in 0 .. Len(q), NEW n \in 0 .. Len(q)
  PROVE  /\ SubSeq(q, m + 1, n) \in Seq(S)
         /\ m < n => Len(SubSeq(q, m + 1, n)) = n - m
         /\ \A i \in 1 .. n - m : SubSeq(q, m + 1, n)[i] = q[m + i]
<1>1. Len(q) \in Nat
  BY LenProperties
<1>2. \A i \in m + 1 .. n : q[i] \in S
  <2> TAKE i \in m + 1 .. n
  <2>1. i \in 1 .. Len(q)
    BY <1>1
  <2>2. QED
    BY <2>1, ElementOfSeq
<1> DEFINE a == m + 1
<1>3. /\ SubSeq(q, a, n) \in Seq(S)
      /\ Len(SubSeq(q, a, n)) = IF a <= n THEN n - a + 1 ELSE 0
      /\ \A i \in 1 .. n - a + 1 : SubSeq(q, a, n)[i] = q[a + i - 1]
  <2>1. a \in Int /\ n \in Int
    BY <1>1
  <2> HIDE DEF a
  <2>2. QED
    BY <1>2, <2>1, SubSeqProperties DEF a
<1>4. n - a + 1 = n - m /\ \A i \in 1 .. n - m : a + i - 1 = m + i
  BY <1>1
<1>5. QED
  BY <1>1, <1>3, <1>4

\* No chunk is empty.
LEMMA ChunksIn ==
  ASSUME NEW S, NEW q \in Seq(S)
  PROVE  Chunks(q) \in Seq(Seq(S) \ {<<>>})
<1>1. PICK e : Cuts(e, q)
  BY ChunksCut
<1> DEFINE n == Len(Chunks(q))
<1>2. ASSUME NEW i \in 1 .. n
      PROVE  Chunks(q)[i] \in Seq(S) \ {<<>>}
  <2>1. /\ e[i - 1] \in 0 .. Len(q) /\ e[i] \in 0 .. Len(q) /\ e[i - 1] < e[i]
        /\ Chunks(q)[i] = SubSeq(q, e[i - 1] + 1, e[i])
    BY <1>1 DEF Cuts
  <2>2. Chunks(q)[i] \in Seq(S) /\ Len(Chunks(q)[i]) # 0
    BY <2>1, PartIn, LenProperties
  <2>3. QED
    BY <2>2, EmptySeq
<1>3. n \in Nat /\ Chunks(q) = [i \in 1 .. n |-> Chunks(q)[i]]
  BY <1>1 DEF Cuts, Chunks
<1>4. QED
  BY <1>2, <1>3, PartsAreSeq

\* Commands of one kind among others.
LEMMA WritesRebuild ==
  ASSUME NEW op, NEW q \in Seq(Writes(op))
  PROVE  q \in Seq(Rebuilds)
<1>1. Writes(op) \subseteq Rebuilds
  BY DEF Writes
<1>2. QED
  BY <1>1, LenProperties, ElementOfSeq, PartsAreSeq

\* A string.
LEMMA SetRebuild ==
  ASSUME Sound(snap), now \in Nat, NEW k \in DOMAIN snap.data,
         snap.data[k].exp = 0 \/ snap.data[k].exp > now
  PROVE  SetCommand(k) \in Seq(Writes("SET"))
<1> DEFINE e == snap.data[k]
           left == IF e.exp = 0 THEN 0 ELSE (e.exp - now) \div TicksPerMs
           c == [op |-> "SET", key |-> k, val |-> e.val, ttl |-> left]
<1>1. k \in DOMAIN snap.data /\ k \in Keys /\ e \in Entries /\ (e.exp = 0 \/ e.exp > now)
  BY StoreParts DEF MapOver
<1>2. e.val \in Values /\ e.exp \in Nat
  BY <1>1 DEF Entries
<1> HIDE DEF e
<1>3. left \in Nat
  <2>1. TicksPerMs \in Nat \ {0}
    BY PersistenceAssumption
  <2> DEFINE d == e.exp - now
  <2>2. e.exp # 0 => d \in Nat
    BY <1>1, <1>2
  <2> HIDE DEF d
  <2>3. d \in Nat => d \div TicksPerMs \in Nat
    BY <2>1
  <2>4. QED
    BY <2>2, <2>3 DEF d
<1>4. left = 0 \/ e.exp # 0
  OBVIOUS
<1> HIDE DEF left
<1>5. c \in Commands
  BY <1>1, <1>2, <1>3 DEF Commands
<1>6. c \in Writes("SET")
  BY <1>1, <1>4, <1>5 DEF Writes, Rebuilds, Makes, e
<1> HIDE DEF c
<1>7. <<c>> \in Seq(Writes("SET"))
  BY <1>6
<1>8. SetCommand(k) = <<c>>
  BY DEF SetCommand, c, left, e
<1>9. QED
  BY <1>7, <1>8

\* The strings that a rewrite writes.
Kept == {k \in DOMAIN snap.data : snap.data[k].exp = 0 \/ snap.data[k].exp > now}

\* Strings.
LEMMA StringsRebuild ==
  ASSUME Sound(snap), now \in Nat, NEW q \in Seq(Kept)
  PROVE  ForEach(q, SetCommand) \in Seq(Writes("SET"))
<1> DEFINE f == [i \in DOMAIN q |-> SetCommand(q[i])]
<1>1. f \in Seq(Seq(Writes("SET")))
  <2>1. DOMAIN q = 1 .. Len(q) /\ Len(q) \in Nat /\ \A i \in DOMAIN q : q[i] \in Kept
    BY LenProperties, ElementOfSeq
  <2>2. \A i \in 1 .. Len(q) : f[i] \in Seq(Writes("SET"))
    BY <2>1, SetRebuild DEF Kept
  <2>3. DOMAIN f = 1 .. Len(q) /\ f = [i \in 1 .. Len(q) |-> f[i]]
    BY <2>1
  <2> HIDE DEF f
  <2>4. QED
    BY <2>1, <2>2, <2>3, PartsAreSeq
<1> HIDE DEF f
<1>2. FlattenSeq(f) \in Seq(Writes("SET"))
  BY <1>1, FlattenIn
<1>3. QED
  BY <1>2, Zenon DEF ForEach, f

\* The commands of each element of a sequence, one after the other.
LEMMA JoinedIn ==
  ASSUME NEW S, NEW n \in Nat, NEW f, DOMAIN f = 1 .. n, f = [i \in 1 .. n |-> f[i]],
         \A i \in 1 .. n : f[i] \in Seq(S)
  PROVE  FlattenSeq(f) \in Seq(S)
<1>1. f \in Seq(Seq(S))
  BY PartsAreSeq
<1>2. QED
  BY <1>1, FlattenIn

\* A list.
LEMMA ListRebuild ==
  ASSUME Sound(snap), NEW k \in DOMAIN snap.lists
  PROVE  PushCommands(k) \in Seq(Writes("RPUSH"))
<1> DEFINE q == Chunks(snap.lists[k])
           f == [i \in DOMAIN q |-> <<[op |-> "RPUSH", key |-> k, vals |-> q[i]]>>]
<1>1. k \in Keys /\ snap.lists[k] \in Seq(Values)
  BY StoreParts DEF MapOver
<1>2. q \in Seq(Seq(Values) \ {<<>>})
  BY <1>1, ChunksIn
<1> HIDE DEF q
<1>3. DOMAIN q = 1 .. Len(q) /\ Len(q) \in Nat /\ \A i \in DOMAIN q : q[i] \in Seq(Values) \ {<<>>}
  BY <1>2, LenProperties, ElementOfSeq
<1>4. ASSUME NEW part \in Seq(Values) \ {<<>>}
      PROVE  <<[op |-> "RPUSH", key |-> k, vals |-> part]>> \in Seq(Writes("RPUSH"))
  <2> DEFINE c == [op |-> "RPUSH", key |-> k, vals |-> part]
  <2>1. c \in Commands
    BY <1>1 DEF Commands
  <2>2. c \in Writes("RPUSH")
    BY <2>1 DEF Writes, Rebuilds, Makes
  <2> HIDE DEF c
  <2>3. <<c>> \in Seq(Writes("RPUSH"))
    BY <2>2
  <2>4. QED
    BY <2>3 DEF c
<1>5. \A i \in 1 .. Len(q) : f[i] \in Seq(Writes("RPUSH"))
  BY <1>3, <1>4
<1>6. DOMAIN f = 1 .. Len(q) /\ f = [i \in 1 .. Len(q) |-> f[i]]
  BY <1>3
<1>7. PushCommands(k) = FlattenSeq(f)
  BY Zenon DEF PushCommands, ForEach, q
<1> HIDE DEF f
<1>8. QED
  BY <1>3, <1>5, <1>6, <1>7, JoinedIn

\* A hash.
LEMMA HashRebuild ==
  ASSUME Sound(snap), NEW k \in DOMAIN snap.hashes,
         NEW fields \in Seq(DOMAIN snap.hashes[k])
  PROVE  HSetCommands(k, fields) \in Seq(Writes("HSET"))
<1> DEFINE pairs == [i \in DOMAIN fields |-> <<fields[i], snap.hashes[k][fields[i]]>>]
           q == Chunks(pairs)
           f == [i \in DOMAIN q |-> <<[op |-> "HSET", key |-> k, pairs |-> q[i]]>>]
<1>1. k \in Keys /\ MapOver(snap.hashes[k], Fields, Values)
  BY StoreParts DEF Hashes
<1>2. pairs \in Seq(Fields \X Values)
  <2>1. /\ DOMAIN fields = 1 .. Len(fields) /\ Len(fields) \in Nat
        /\ \A i \in DOMAIN fields : fields[i] \in DOMAIN snap.hashes[k]
    BY LenProperties, ElementOfSeq
  <2>2. \A x \in DOMAIN snap.hashes[k] : <<x, snap.hashes[k][x]>> \in Fields \X Values
    BY <1>1 DEF MapOver
  <2>3. \A i \in 1 .. Len(fields) : pairs[i] \in Fields \X Values
    BY <2>1, <2>2
  <2>4. DOMAIN pairs = 1 .. Len(fields) /\ pairs = [i \in 1 .. Len(fields) |-> pairs[i]]
    BY <2>1
  <2> HIDE DEF pairs
  <2>5. QED
    BY <2>1, <2>3, <2>4, PartsAreSeq
<1> HIDE DEF pairs
<1>3. q \in Seq(Seq(Fields \X Values) \ {<<>>})
  BY <1>2, ChunksIn
<1> HIDE DEF q
<1>4. /\ DOMAIN q = 1 .. Len(q) /\ Len(q) \in Nat
      /\ \A i \in DOMAIN q : q[i] \in Seq(Fields \X Values) \ {<<>>}
  BY <1>3, LenProperties, ElementOfSeq
<1>5. ASSUME NEW part \in Seq(Fields \X Values) \ {<<>>}
      PROVE  <<[op |-> "HSET", key |-> k, pairs |-> part]>> \in Seq(Writes("HSET"))
  <2> DEFINE c == [op |-> "HSET", key |-> k, pairs |-> part]
  <2>1. c \in Commands
    BY <1>1 DEF Commands
  <2>2. c \in Writes("HSET")
    BY <2>1 DEF Writes, Rebuilds, Makes
  <2> HIDE DEF c
  <2>3. <<c>> \in Seq(Writes("HSET"))
    BY <2>2
  <2>4. QED
    BY <2>3 DEF c
<1>6. \A i \in 1 .. Len(q) : f[i] \in Seq(Writes("HSET"))
  BY <1>4, <1>5
<1>7. DOMAIN f = 1 .. Len(q) /\ f = [i \in 1 .. Len(q) |-> f[i]]
  BY <1>4
<1>8. HSetCommands(k, fields) = FlattenSeq(f)
  BY Zenon DEF HSetCommands, ForEach, q, pairs
<1> HIDE DEF f
<1>9. FlattenSeq(f) \in Seq(Writes("HSET"))
  BY <1>4, <1>6, <1>7, JoinedIn
<1>10. QED
  BY <1>8, <1>9

\* Lists and hashes, in any order.
LEMMA ListsRebuild ==
  ASSUME Sound(snap), NEW lists \in Orders(DOMAIN snap.lists)
  PROVE  ForEach(lists, PushCommands) \in Seq(Writes("RPUSH"))
<1> DEFINE f == [i \in DOMAIN lists |-> PushCommands(lists[i])]
<1>1. lists \in Seq(DOMAIN snap.lists)
  BY StoreParts, OrderOfKeys, PersistenceAssumption DEF MapOver
<1>2. /\ DOMAIN lists = 1 .. Len(lists) /\ Len(lists) \in Nat
      /\ \A i \in DOMAIN lists : lists[i] \in DOMAIN snap.lists
  BY <1>1, LenProperties, ElementOfSeq
<1>3. \A i \in 1 .. Len(lists) : f[i] \in Seq(Writes("RPUSH"))
  BY <1>2, ListRebuild
<1>4. DOMAIN f = 1 .. Len(lists) /\ f = [i \in 1 .. Len(lists) |-> f[i]]
  BY <1>2
<1>5. ForEach(lists, PushCommands) = FlattenSeq(f)
  BY Zenon DEF ForEach
<1> HIDE DEF f
<1>6. QED
  BY <1>2, <1>3, <1>4, <1>5, JoinedIn

WrittenHashes(hashes, order) == ForEach(hashes, LAMBDA k : HSetCommands(k, order[k]))

LEMMA HashesRebuild ==
  ASSUME Sound(snap), NEW hashes \in Orders(DOMAIN snap.hashes), NEW order,
         \A k \in DOMAIN snap.hashes : order[k] \in Orders(DOMAIN snap.hashes[k])
  PROVE  WrittenHashes(hashes, order) \in Seq(Writes("HSET"))
<1> DEFINE f == [i \in DOMAIN hashes |-> HSetCommands(hashes[i], order[hashes[i]])]
<1>1. /\ DOMAIN snap.hashes \subseteq Keys
      /\ \A k \in DOMAIN snap.hashes : DOMAIN snap.hashes[k] \subseteq Fields
  BY StoreParts DEF Hashes, MapOver
<1>2. hashes \in Seq(DOMAIN snap.hashes)
  BY <1>1, OrderOfKeys, PersistenceAssumption
<1>3. /\ DOMAIN hashes = 1 .. Len(hashes) /\ Len(hashes) \in Nat
      /\ \A i \in DOMAIN hashes : hashes[i] \in DOMAIN snap.hashes
  BY <1>2, LenProperties, ElementOfSeq
<1>4. \A k \in DOMAIN snap.hashes : order[k] \in Seq(DOMAIN snap.hashes[k])
  BY <1>1, OrderOfKeys, PersistenceAssumption
<1>5. \A i \in 1 .. Len(hashes) : f[i] \in Seq(Writes("HSET"))
  BY <1>3, <1>4, HashRebuild
<1>6. DOMAIN f = 1 .. Len(hashes) /\ f = [i \in 1 .. Len(hashes) |-> f[i]]
  BY <1>3
<1>7. WrittenHashes(hashes, order) = FlattenSeq(f)
  BY Zenon DEF ForEach, WrittenHashes
<1> HIDE DEF f
<1>8. QED
  BY <1>3, <1>5, <1>6, <1>7, JoinedIn

\* The fields of each hash in some order.
FieldOrders ==
  LET fields == [k \in DOMAIN snap.hashes |-> Orders(DOMAIN snap.hashes[k])]
  IN  {f \in [DOMAIN snap.hashes -> UNION Range(fields)] : \A k \in DOMAIN f : f[k] \in fields[k]}

\* A rewritten file has three parts.
LEMMA SnapshotParts ==
  ASSUME NEW base \in SnapshotLogs
  PROVE  \E strings \in Orders(Kept), lists \in Orders(DOMAIN snap.lists),
            hashes \in Orders(DOMAIN snap.hashes), order \in FieldOrders :
           /\ \A k \in DOMAIN snap.hashes : order[k] \in Orders(DOMAIN snap.hashes[k])
           /\ base = (ForEach(strings, SetCommand) \o ForEach(lists, PushCommands))
                       \o WrittenHashes(hashes, order)
<1>1. SnapshotLogs = {SnapshotLog(strings, lists, hashes, order) :
                        strings \in Orders(Kept), lists \in Orders(DOMAIN snap.lists),
                        hashes \in Orders(DOMAIN snap.hashes), order \in FieldOrders}
  BY DEF SnapshotLogs, Kept, FieldOrders
<1>2. \A order \in FieldOrders :
        \A k \in DOMAIN snap.hashes : order[k] \in Orders(DOMAIN snap.hashes[k])
  BY DEF FieldOrders
<1>3. PICK strings \in Orders(Kept), lists \in Orders(DOMAIN snap.lists),
           hashes \in Orders(DOMAIN snap.hashes), order \in FieldOrders :
        base = SnapshotLog(strings, lists, hashes, order)
  BY <1>1
<1>4. base = (ForEach(strings, SetCommand) \o ForEach(lists, PushCommands))
               \o WrittenHashes(hashes, order)
  BY <1>3, Zenon DEF SnapshotLog, WrittenHashes
<1>5. QED
  BY <1>2, <1>3, <1>4

\* It consists of commands that rebuild the snapshot.
LEMMA SnapshotRebuilds ==
  ASSUME Sound(snap), now \in Nat, NEW base \in SnapshotLogs
  PROVE  base \in Seq(Rebuilds)
<1>1. PICK strings \in Orders(Kept), lists \in Orders(DOMAIN snap.lists),
           hashes \in Orders(DOMAIN snap.hashes), order \in FieldOrders :
        /\ \A k \in DOMAIN snap.hashes : order[k] \in Orders(DOMAIN snap.hashes[k])
        /\ base = (ForEach(strings, SetCommand) \o ForEach(lists, PushCommands))
                    \o WrittenHashes(hashes, order)
  BY SnapshotParts
<1>2. ForEach(strings, SetCommand) \in Seq(Writes("SET"))
  <2>1. Kept \subseteq Keys
    BY StoreParts DEF Kept, MapOver
  <2>2. strings \in Seq(Kept)
    BY <2>1, OrderOfKeys, PersistenceAssumption
  <2>3. QED
    BY <2>2, StringsRebuild
<1>3. ForEach(lists, PushCommands) \in Seq(Writes("RPUSH"))
  BY ListsRebuild
<1>4. WrittenHashes(hashes, order) \in Seq(Writes("HSET"))
  BY <1>1, HashesRebuild
<1>5. /\ ForEach(strings, SetCommand) \in Seq(Rebuilds)
      /\ ForEach(lists, PushCommands) \in Seq(Rebuilds)
      /\ WrittenHashes(hashes, order) \in Seq(Rebuilds)
  BY <1>2, <1>3, <1>4, WritesRebuild
<1>6. QED
  BY <1>1, <1>5, ConcatProperties, Zenon

-----------------------------------------------------------------------------
(***************************************************************************)
(* The inductive invariant.                                                *)
(*                                                                         *)
(* The file, and the commands mirrored for a rewrite, clear a deleted key  *)
(* after the last command that makes it; a rewrite that would bring the    *)
(* key back from its snapshot has mirrored such a command.  During a       *)
(* replay the key is back only while that command is still to come.        *)
(***************************************************************************)
Typed ==
  /\ work \in Workloads
  /\ Sound(s) /\ now \in Nat \ {0}
  /\ log \in Seq(Commands) /\ buf \in Seq(Commands)
  /\ snap # NoSnap => Sound(snap)
  /\ pos \in Nat

FileSettled == \A k \in deleted : Settled(log, k)

RewriteSettled ==
  snap # NoSnap =>
    \A k \in deleted : Settled(buf, k) /\ (k \in DOMAIN snap.data => ClearedIn(buf, k))

ReplaySettles ==
  \A k \in deleted \cap DOMAIN s.data :
    pos # 0 /\ \E j \in DOMAIN log : pos <= j /\ Clears(log[j], k)

PersistInv == Typed /\ FileSettled /\ RewriteSettled /\ ReplaySettles

\* What the ghost says after a command.
LEMMA DeletedBy ==
  ASSUME NEW c \in Commands, Execute(c), NEW k \in deleted'
  PROVE  ~ Makes(c, k) /\ (k \in deleted \/ Clears(c, k))
<1> DEFINE d == CASE c.op = "DEL" -> deleted \cup c.keys
                  [] c.op = "FLUSHALL" -> Keys
                  [] c.op \in {"SET", "INCRBY"} -> deleted \ {c.key}
                  [] OTHER -> deleted
<1>1. deleted' = d
  BY DEF Execute
<1>2. CASE c.op = "DEL"
  <2>1. d = deleted \cup c.keys
    BY <1>2, Zenon
  <2>2. QED
    BY <1>1, <1>2, <2>1 DEF Makes, Clears
<1>3. CASE c.op = "FLUSHALL"
  BY <1>3 DEF Makes, Clears
<1>4. CASE c.op \in {"SET", "INCRBY"}
  <2>1. d = deleted \ {c.key}
    BY <1>4, Zenon
  <2>2. QED
    BY <1>1, <1>4, <2>1 DEF Makes
<1>5. CASE c.op \notin {"DEL", "FLUSHALL", "SET", "INCRBY"}
  <2>1. d = deleted
    BY <1>5, Zenon
  <2>2. QED
    BY <1>1, <1>5, <2>1 DEF Makes
<1>6. QED
  BY <1>2, <1>3, <1>4, <1>5

\* It holds when the process starts.
LEMMA PersistInit == Init => PersistInv
<1> SUFFICES ASSUME Init PROVE PersistInv
  OBVIOUS
<1>1. Sound(s) /\ now \in Nat \ {0}
  BY EmptySound DEF Init
<1>2. work \in Workloads /\ log = <<>> /\ buf = <<>> /\ snap = NoSnap /\ pos = 0 /\ deleted = {}
  BY DEF Init
<1>3. log \in Seq(Commands) /\ buf \in Seq(Commands)
  BY <1>2
<1>4. Typed
  BY <1>1, <1>2, <1>3 DEF Typed
<1>5. QED
  BY <1>2, <1>4 DEF PersistInv, FileSettled, RewriteSettled, ReplaySettles

\* Commands.
LEMMA ExecuteKeeps ==
  ASSUME PersistInv, work' = work, NEW c \in work.commands, Execute(c)
  PROVE  PersistInv'
<1>1. /\ work \in Workloads /\ Sound(s) /\ now \in Nat \ {0}
      /\ log \in Seq(Commands) /\ buf \in Seq(Commands)
      /\ snap # NoSnap => Sound(snap)
  BY DEF PersistInv, Typed
<1>2. c \in Commands
  BY <1>1, PersistenceAssumption
<1>3. /\ pos = 0 /\ Succeeds(c) /\ s' = Effect(c) /\ log' = Append(log, c)
      /\ buf' = IF snap # NoSnap THEN Append(buf, c) ELSE buf
      /\ now' = now /\ snap' = snap /\ pos' = pos
  BY DEF Execute, Serving
<1>4. /\ Sound(s')
      /\ \A k \in DOMAIN s'.data : ~ Clears(c, k) /\ (k \in DOMAIN s.data \/ Makes(c, k))
  BY <1>1, <1>2, <1>3, EffectSound
<1>5. \A k \in deleted' : ~ Makes(c, k) /\ (k \in deleted \/ Clears(c, k))
  BY <1>2, DeletedBy
<1>6. Typed'
  <2>1. log' \in Seq(Commands) /\ buf' \in Seq(Commands)
    BY <1>1, <1>2, <1>3, AppendProperties
  <2>2. QED
    BY <1>1, <1>3, <1>4, <2>1 DEF Typed, NoSnap
<1>7. FileSettled'
  <2> SUFFICES ASSUME NEW k \in deleted' PROVE Settled(log', k)
    BY DEF FileSettled
  <2>1. ~ Makes(c, k) /\ (Settled(log, k) \/ Clears(c, k))
    BY <1>5 DEF PersistInv, FileSettled
  <2>2. QED
    BY <1>1, <1>2, <1>3, <2>1, SettledAppend
<1>8. RewriteSettled'
  <2> SUFFICES ASSUME snap' # NoSnap, NEW k \in deleted'
               PROVE  Settled(buf', k) /\ (k \in DOMAIN snap'.data => ClearedIn(buf', k))
    BY DEF RewriteSettled, NoSnap
  <2>1. snap # NoSnap /\ buf' = Append(buf, c)
    BY <1>3
  <2>2. ~ Makes(c, k) /\ (Settled(buf, k) \/ Clears(c, k))
    BY <1>5, <2>1 DEF PersistInv, RewriteSettled
  <2>3. k \in DOMAIN snap.data => ClearedIn(buf, k) \/ Clears(c, k)
    BY <1>5, <2>1 DEF PersistInv, RewriteSettled
  <2>4. /\ Settled(Append(buf, c), k)
        /\ ClearedIn(buf, k) \/ Clears(c, k) => ClearedIn(Append(buf, c), k)
    BY <1>1, <1>2, <2>2, SettledAppend
  <2>5. QED
    BY <1>3, <2>1, <2>3, <2>4
<1>9. ReplaySettles'
  <2>1. \A k \in deleted : k \notin DOMAIN s.data
    BY <1>3 DEF PersistInv, ReplaySettles
  <2>2. \A k \in deleted' : k \notin DOMAIN s'.data
    BY <1>4, <1>5, <2>1
  <2>3. QED
    BY <2>2 DEF ReplaySettles
<1>10. QED
  BY <1>6, <1>7, <1>8, <1>9 DEF PersistInv

\* Expiry and time.
LEMMA SweepKeeps ==
  ASSUME PersistInv, work' = work, (\E k \in Keys : Sweep(k)) \/ Tick
  PROVE  PersistInv'
<1>1. /\ work \in Workloads /\ Sound(s) /\ now \in Nat \ {0}
      /\ log \in Seq(Commands) /\ buf \in Seq(Commands)
      /\ snap # NoSnap => Sound(snap)
  BY DEF PersistInv, Typed
<1>2. UNCHANGED <<log, snap, buf, pos, deleted>>
  BY DEF Sweep, Tick
<1>3. Sound(s') /\ DOMAIN s'.data \subseteq DOMAIN s.data
  <2>1. CASE \E k \in Keys : Sweep(k)
    <3>1. PICK k \in Keys : s' = DeleteExpired(s, {k})
      BY <2>1 DEF Sweep
    <3>2. QED
      BY <1>1, <3>1, DeleteExpiredSound
  <2>2. CASE Tick
    BY <1>1, <2>2 DEF Tick
  <2>3. QED
    BY <2>1, <2>2
<1>4. now' \in Nat \ {0}
  <2>1. now' = now \/ now' = now + 1
    BY Zenon DEF Sweep, Tick
  <2>2. QED
    BY <1>1, <2>1
<1>5. Typed'
  BY <1>1, <1>2, <1>3, <1>4 DEF PersistInv, Typed, NoSnap
<1>6. FileSettled' /\ RewriteSettled'
  BY <1>2 DEF PersistInv, FileSettled, RewriteSettled, NoSnap
<1>7. ReplaySettles'
  BY <1>2, <1>3 DEF PersistInv, ReplaySettles
<1>8. QED
  BY <1>5, <1>6, <1>7 DEF PersistInv

\* A rewrite begins: no deleted key is in the store.
LEMMA BeginKeeps ==
  ASSUME PersistInv, work' = work, RewriteBegin
  PROVE  PersistInv'
<1>1. /\ work \in Workloads /\ Sound(s) /\ now \in Nat \ {0} /\ log \in Seq(Commands)
      /\ pos \in Nat
  BY DEF PersistInv, Typed
<1>2. /\ pos = 0 /\ snap' = s /\ buf' = <<>>
      /\ UNCHANGED <<s, now, log, pos, deleted>>
  BY DEF RewriteBegin, Serving
<1>3. Typed'
  <2>1. buf' \in Seq(Commands) /\ Sound(s') /\ Sound(snap')
    BY <1>1, <1>2
  <2>2. QED
    BY <1>1, <1>2, <2>1 DEF Typed
<1>4. FileSettled' /\ ReplaySettles'
  BY <1>2 DEF PersistInv, FileSettled, ReplaySettles
<1>5. RewriteSettled'
  <2>1. \A k : Settled(<<>>, k)
    BY DEF Settled
  <2>2. \A k \in deleted : k \notin DOMAIN s.data
    BY <1>2 DEF PersistInv, ReplaySettles
  <2>3. QED
    BY <1>2, <2>1, <2>2 DEF RewriteSettled
<1>6. QED
  BY <1>3, <1>4, <1>5 DEF PersistInv

\* A rewrite ends: the snapshot's commands, then the mirrored ones.
LEMMA EndKeeps ==
  ASSUME PersistInv, work' = work, RewriteEnd
  PROVE  PersistInv'
<1>1. /\ work \in Workloads /\ Sound(s) /\ now \in Nat \ {0}
      /\ log \in Seq(Commands) /\ buf \in Seq(Commands)
      /\ snap # NoSnap => Sound(snap)
      /\ pos \in Nat
  BY DEF PersistInv, Typed
<1>2. /\ pos = 0 /\ snap # NoSnap /\ snap' = NoSnap /\ buf' = <<>>
      /\ UNCHANGED <<s, now, pos, deleted>>
  BY DEF RewriteEnd, Serving
<1>3. PICK base \in SnapshotLogs : log' = base \o buf
  BY DEF RewriteEnd
<1>4. base \in Seq(Rebuilds)
  BY <1>1, <1>2, SnapshotRebuilds
<1>5. base \in Seq(Commands) /\ \A i \in DOMAIN base : base[i] \in Rebuilds
  <2>1. Rebuilds \subseteq Commands
    BY DEF Rebuilds
  <2>2. QED
    BY <1>4, <2>1, ElementOfSeq
<1>6. Typed'
  <2>1. log' \in Seq(Commands) /\ buf' \in Seq(Commands)
    BY <1>1, <1>2, <1>3, <1>5, ConcatProperties
  <2>2. QED
    BY <1>1, <1>2, <2>1 DEF Typed, NoSnap
<1>7. FileSettled'
  <2> SUFFICES ASSUME NEW k \in deleted PROVE Settled(base \o buf, k)
    BY <1>2, <1>3 DEF FileSettled
  <2>1. Settled(buf, k) /\ (k \in DOMAIN snap.data => ClearedIn(buf, k))
    BY <1>2 DEF PersistInv, RewriteSettled
  <2>2. k \notin DOMAIN snap.data => \A i \in DOMAIN base : ~ Makes(base[i], k)
    BY <1>5 DEF Rebuilds
  <2>3. QED
    BY <1>1, <1>5, <2>1, <2>2, SettledConcat
<1>8. RewriteSettled'
  BY <1>2 DEF RewriteSettled, NoSnap
<1>9. ReplaySettles'
  <2>1. \A k \in deleted : k \notin DOMAIN s.data
    BY <1>2 DEF PersistInv, ReplaySettles
  <2>2. QED
    BY <1>2, <2>1 DEF ReplaySettles
<1>10. QED
  BY <1>6, <1>7, <1>8, <1>9 DEF PersistInv

\* The process dies: the store is empty, the file is what it was.
LEMMA CrashKeeps ==
  ASSUME PersistInv, work' = work, Crash
  PROVE  PersistInv'
<1>1. work \in Workloads /\ now \in Nat \ {0} /\ log \in Seq(Commands)
  BY DEF PersistInv, Typed
<1>2. /\ s' = Empty /\ pos' = 1 /\ snap' = NoSnap /\ buf' = <<>>
      /\ UNCHANGED <<now, log, deleted>>
  BY Zenon DEF Crash
<1>3. Sound(s') /\ DOMAIN s'.data = {}
  BY <1>2, EmptySound DEF Empty
<1>4. Typed'
  <2>1. buf' \in Seq(Commands)
    BY <1>2
  <2>2. QED
    BY <1>1, <1>2, <1>3, <2>1 DEF Typed, NoSnap
<1>5. FileSettled' /\ RewriteSettled' /\ ReplaySettles'
  BY <1>2, <1>3 DEF PersistInv, FileSettled, RewriteSettled, ReplaySettles, NoSnap
<1>6. QED
  BY <1>4, <1>5 DEF PersistInv

\* A command is replayed: one that clears a key succeeds, and one that makes a
\* deleted key is followed by one that clears it.
LEMMA ReplayKeeps ==
  ASSUME PersistInv, work' = work, ReplayCommand
  PROVE  PersistInv'
<1>1. /\ work \in Workloads /\ Sound(s) /\ now \in Nat \ {0}
      /\ log \in Seq(Commands) /\ buf \in Seq(Commands)
      /\ snap # NoSnap => Sound(snap)
      /\ pos \in Nat
  BY DEF PersistInv, Typed
<1> DEFINE c == log[pos]
<1>2. /\ pos \in DOMAIN log /\ pos' = pos + 1
      /\ s' = IF Succeeds(c) THEN Effect(c) ELSE s
      /\ UNCHANGED <<now, log, snap, buf, deleted>>
  BY DEF ReplayCommand
<1>3. c \in Commands /\ DOMAIN log = 1 .. Len(log) /\ Len(log) \in Nat
  BY <1>1, <1>2, ElementOfSeq, LenProperties
<1>4. /\ Sound(s')
      /\ \A k \in DOMAIN s'.data : ~ Clears(c, k) /\ (k \in DOMAIN s.data \/ Makes(c, k))
  <2>1. CASE Succeeds(c)
    BY <1>1, <1>2, <1>3, <2>1, EffectSound
  <2>2. CASE ~ Succeeds(c)
    BY <1>1, <1>2, <2>2, ClearsSucceeds
  <2>3. QED
    BY <2>1, <2>2
<1>5. Typed'
  BY <1>1, <1>2, <1>4 DEF Typed, NoSnap
<1>6. FileSettled' /\ RewriteSettled'
  BY <1>2 DEF PersistInv, FileSettled, RewriteSettled, NoSnap
<1>7. ReplaySettles'
  <2> SUFFICES ASSUME NEW k \in deleted, k \in DOMAIN s'.data
               PROVE  pos' # 0 /\ \E j \in DOMAIN log : pos' <= j /\ Clears(log[j], k)
    BY <1>2 DEF ReplaySettles
  <2>1. \E j \in DOMAIN log : pos < j /\ Clears(log[j], k)
    <3>1. CASE k \in DOMAIN s.data
      <4>1. PICK j \in DOMAIN log : pos <= j /\ Clears(log[j], k)
        BY <3>1 DEF PersistInv, ReplaySettles
      <4>2. j # pos
        BY <1>4, <4>1
      <4>3. QED
        BY <1>1, <1>3, <4>1, <4>2
    <3>2. CASE Makes(c, k)
      BY <1>2, <3>2 DEF PersistInv, FileSettled, Settled
    <3>3. QED
      BY <1>4, <3>1, <3>2
  <2>2. QED
    BY <1>1, <1>2, <1>3, <2>1
<1>8. QED
  BY <1>5, <1>6, <1>7 DEF PersistInv

\* The server accepts connections: no command is left to come.
LEMMA ServeKeeps ==
  ASSUME PersistInv, work' = work, Serve
  PROVE  PersistInv'
<1>1. pos = Len(log) + 1 /\ pos' = 0 /\ UNCHANGED <<s, now, log, snap, buf, deleted>>
  BY DEF Serve, Replayed
<1>2. log \in Seq(Commands)
  BY DEF PersistInv, Typed
<1>3. DOMAIN log = 1 .. Len(log) /\ Len(log) \in Nat
  BY <1>2, LenProperties
<1>4. \A k \in deleted : k \notin DOMAIN s.data
  BY <1>1, <1>3 DEF PersistInv, ReplaySettles
<1>5. Typed' /\ FileSettled' /\ RewriteSettled'
  BY <1>1 DEF PersistInv, Typed, FileSettled, RewriteSettled, NoSnap
<1>6. ReplaySettles'
  BY <1>1, <1>4 DEF ReplaySettles
<1>7. QED
  BY <1>5, <1>6 DEF PersistInv

\* Every state satisfies the invariant.
THEOREM PersistInductive == Spec => []PersistInv
<1>1. ASSUME PersistInv, [Next]_vars
      PROVE  PersistInv'
  <2>1. CASE Next
    <3>1. work' = work
      BY <2>1 DEF Next
    <3>2. CASE \E c \in work.commands : Execute(c)
      BY <1>1, <3>1, <3>2, ExecuteKeeps
    <3>3. CASE (\E k \in Keys : Sweep(k)) \/ Tick
      BY <1>1, <3>1, <3>3, SweepKeeps
    <3>4. CASE RewriteBegin
      BY <1>1, <3>1, <3>4, BeginKeeps
    <3>5. CASE RewriteEnd
      BY <1>1, <3>1, <3>5, EndKeeps
    <3>6. CASE Crash
      BY <1>1, <3>1, <3>6, CrashKeeps
    <3>7. CASE ReplayCommand
      BY <1>1, <3>1, <3>7, ReplayKeeps
    <3>8. CASE Serve
      BY <1>1, <3>1, <3>8, ServeKeeps
    <3>9. QED
      BY <2>1, <3>2, <3>3, <3>4, <3>5, <3>6, <3>7, <3>8 DEF Next
  <2>2. CASE UNCHANGED vars
    BY <1>1, <2>2 DEF vars, PersistInv, Typed, FileSettled, RewriteSettled, ReplaySettles, NoSnap
  <2>3. QED
    BY <1>1, <2>1, <2>2
<1>2. QED
  BY <1>1, PersistInit, PTL DEF Spec

\* DEL and FLUSHALL are for good: after a restart no deleted string is back, whatever
\* was logged, mirrored and rewritten before (store/aof.go Rewrite, Replay).
THEOREM DeletedNeverReturns == Spec => []DeletedStaysDeleted
<1>1. ASSUME PersistInv
      PROVE  DeletedStaysDeleted
  <2>1. DOMAIN log = 1 .. Len(log) /\ Len(log) \in Nat
    BY <1>1, LenProperties DEF PersistInv, Typed
  <2>2. QED
    BY <1>1, <2>1 DEF PersistInv, ReplaySettles, DeletedStaysDeleted, Replayed
<1>2. QED
  BY <1>1, PersistInductive, PTL

-----------------------------------------------------------------------------
(***************************************************************************)
(* Replaying without TTLs and without a ceiling, where a command makes the *)
(* same of a store at any time: which logs lead from one store to another. *)
(***************************************************************************)

\* Commands that set no TTL.
Plain == {c \in Commands : c.op # "EXPIRE" /\ (c.op = "SET" => c.ttl = 0)}

\* What such a command makes of a store, whatever the time is.
After(st, c) ==
  CASE c.op = "SET" -> SetOp(st, c.key, c.val, 0)
    [] c.op = "DEL" -> DelOp(st, c.keys)
    [] c.op = "INCRBY" ->
         IF IsCounter(st, c.key, 1) THEN IncrByOp(st, c.key, c.delta, 1) ELSE st
    [] c.op = "LPUSH" -> LPushOp(st, c.key, c.vals)
    [] c.op = "RPUSH" -> RPushOp(st, c.key, c.vals)
    [] c.op = "HSET" -> HSetOp(st, c.key, c.pairs)
    [] c.op = "HDEL" -> HDelOp(st, c.key, c.fields)
    [] c.op = "FLUSHALL" -> Empty

\* h holds the store after each of the commands q, from st on; they lead to u.
Replays(h, st, q) ==
  /\ h = [i \in 0 .. Len(q) |-> h[i]]
  /\ h[0] = st
  /\ \A i \in 1 .. Len(q) : h[i] = After(h[i - 1], q[i])
Leads(st, q, u) == \E h : Replays(h, st, q) /\ h[Len(q)] = u

\* No command leads nowhere else.
LEMMA LeadsNothing ==
  ASSUME NEW st
  PROVE  Leads(st, <<>>, st)
<1> DEFINE h == [i \in 0 .. 0 |-> st]
<1>1. Replays(h, st, <<>>) /\ h[0] = st
  BY DEF Replays
<1> HIDE DEF h
<1>2. QED
  BY <1>1 DEF Leads

\* One more command is replayed.
LEMMA ReplaysAppend ==
  ASSUME NEW S, NEW st, NEW q \in Seq(S), NEW c \in S, NEW h, Replays(h, st, q)
  PROVE  LET g == [i \in 0 .. Len(q) + 1 |-> IF i = Len(q) + 1 THEN After(h[Len(q)], c) ELSE h[i]]
         IN  /\ Replays(g, st, Append(q, c))
             /\ g[Len(q) + 1] = After(h[Len(q)], c)
             /\ Len(Append(q, c)) = Len(q) + 1
<1> DEFINE n == Len(q)
           r == Append(q, c)
           last == After(h[n], c)
           g == [i \in 0 .. n + 1 |-> IF i = n + 1 THEN last ELSE h[i]]
<1>1. /\ n \in Nat /\ Len(r) = n + 1
      /\ \A i \in 1 .. n : r[i] = q[i]
      /\ r[n + 1] = c
  BY AppendProperties, LenProperties
<1>2. h[0] = st /\ \A i \in 1 .. n : h[i] = After(h[i - 1], q[i])
  BY DEF Replays
<1> HIDE DEF n, r, last
<1>3. g[n + 1] = last /\ \A i \in 0 .. n : g[i] = h[i]
  BY <1>1
<1>4. ASSUME NEW i \in 1 .. n + 1
      PROVE  g[i] = After(g[i - 1], r[i])
  <2>1. CASE i = n + 1
    <3>1. g[i - 1] = h[n]
      BY <1>1, <1>3, <2>1
    <3>2. g[i] = last /\ r[i] = c
      BY <1>1, <1>3, <2>1
    <3>3. QED
      BY <3>1, <3>2 DEF last
  <2>2. CASE i # n + 1
    <3>1. i \in 1 .. n /\ i \in 0 .. n /\ i - 1 \in 0 .. n
      BY <1>1, <2>2
    <3>2. QED
      BY <1>1, <1>2, <1>3, <3>1
  <2>3. QED
    BY <2>1, <2>2
<1>5. g[0] = st
  BY <1>1, <1>2, <1>3
<1>6. g = [i \in 0 .. n + 1 |-> g[i]]
  OBVIOUS
<1> HIDE DEF g
<1>7. Replays(g, st, r)
  BY <1>1, <1>4, <1>5, <1>6 DEF Replays
<1>8. QED
  BY <1>1, <1>3, <1>7 DEF g, last, n, r

LEMMA LeadsAppend ==
  ASSUME NEW S, NEW st, NEW u, NEW q \in Seq(S), NEW c \in S, Leads(st, q, u)
  PROVE  Leads(st, Append(q, c), After(u, c))
<1>1. PICK h : Replays(h, st, q) /\ h[Len(q)] = u
  BY DEF Leads
<1> DEFINE g == [i \in 0 .. Len(q) + 1 |-> IF i = Len(q) + 1 THEN After(h[Len(q)], c) ELSE h[i]]
<1>2. /\ Replays(g, st, Append(q, c))
      /\ g[Len(q) + 1] = After(h[Len(q)], c)
      /\ Len(Append(q, c)) = Len(q) + 1
  BY <1>1, ReplaysAppend
<1> HIDE DEF g
<1>3. QED
  BY <1>1, <1>2 DEF Leads

\* One command.
LEMMA LeadsOne ==
  ASSUME NEW st, NEW c
  PROVE  Leads(st, <<c>>, After(st, c))
<1>1. <<>> \in Seq({c}) /\ <<c>> = Append(<<>>, c)
  OBVIOUS
<1>2. QED
  BY <1>1, LeadsNothing, LeadsAppend

\* One log after another.
LEMMA LeadsConcat ==
  ASSUME NEW S, NEW st, NEW u, NEW v, NEW p \in Seq(S), NEW q \in Seq(S),
         Leads(st, p, u), Leads(u, q, v)
  PROVE  Leads(st, p \o q, v)
<1>1. PICK h : Replays(h, st, p) /\ h[Len(p)] = u
  BY DEF Leads
<1>2. PICK g : Replays(g, u, q) /\ g[Len(q)] = v
  BY DEF Leads
<1> DEFINE n == Len(p)
           m == Len(q)
           r == p \o q
           k == [i \in 0 .. n + m |-> IF i <= n THEN h[i] ELSE g[i - n]]
<1>3. /\ n \in Nat /\ m \in Nat /\ Len(r) = n + m
      /\ \A i \in 1 .. n + m : r[i] = IF i <= n THEN p[i] ELSE q[i - n]
  BY ConcatProperties, LenProperties
<1>4. /\ h[0] = st /\ h[n] = u /\ \A i \in 1 .. n : h[i] = After(h[i - 1], p[i])
      /\ g[0] = u /\ g[m] = v /\ \A i \in 1 .. m : g[i] = After(g[i - 1], q[i])
  BY <1>1, <1>2 DEF Replays
<1> HIDE DEF n, m, r
<1>5. /\ \A i \in 0 .. n : k[i] = h[i]
      /\ \A i \in 0 .. m : n + i \in 0 .. n + m /\ (n + i) - n = i /\ (i # 0 => ~ (n + i <= n))
  BY <1>3
<1>6. \A i \in 0 .. m : k[n + i] = g[i]
  <2> TAKE i \in 0 .. m
  <2>1. CASE i = 0
    BY <1>3, <1>4, <1>5, <2>1
  <2>2. CASE i # 0
    BY <1>5, <2>2
  <2>3. QED
    BY <2>1, <2>2
<1>7. k = [i \in 0 .. n + m |-> k[i]]
  OBVIOUS
<1> HIDE DEF k
<1>8. ASSUME NEW i \in 1 .. n + m
      PROVE  k[i] = After(k[i - 1], r[i])
  <2>1. CASE i <= n
    <3>1. i \in 1 .. n /\ i \in 0 .. n /\ i - 1 \in 0 .. n
      BY <1>3, <2>1
    <3>2. QED
      BY <1>3, <1>4, <1>5, <2>1, <3>1
  <2>2. CASE ~ (i <= n)
    <3> DEFINE j == i - n
    <3>1. j \in 1 .. m /\ j \in 0 .. m /\ j - 1 \in 0 .. m /\ i = n + j /\ i - 1 = n + (j - 1)
      BY <1>3, <2>2
    <3>2. r[i] = q[j]
      BY <1>3, <2>2
    <3> HIDE DEF j
    <3>3. k[i] = g[j] /\ k[i - 1] = g[j - 1]
      BY <1>6, <3>1
    <3>4. QED
      BY <1>4, <3>1, <3>2, <3>3
  <2>3. QED
    BY <2>1, <2>2
<1>9. k[0] = st /\ k[n + m] = v
  BY <1>3, <1>4, <1>5, <1>6
<1>10. Replays(k, st, r) /\ k[Len(r)] = v
  BY <1>3, <1>7, <1>8, <1>9 DEF Replays
<1>11. QED
  BY <1>10 DEF Leads, r

\* Logs of logs.
LEMMA LeadsEach ==
  ASSUME NEW S, NEW q \in Seq(Seq(S)), NEW st,
         \A i \in 1 .. Len(q) : Leads(st[i - 1], q[i], st[i])
  PROVE  Leads(st[0], FlattenSeq(q), st[Len(q)])
<1>1. Len(q) \in Nat /\ \A i \in 1 .. Len(q) : q[i] \in Seq(S)
  BY ElementOfSeq, LenProperties
<1>2. CASE Len(q) = 0
  <2>1. FlattenSeq(q) = <<>>
    BY <1>2, EmptySeq DEF FlattenSeq
  <2>2. QED
    BY <1>2, <2>1, LeadsNothing
<1>3. CASE Len(q) # 0
  <2>1. PICK g \in Joins(q, Len(q), S) : FlattenSeq(q) = g[Len(q)]
    BY <1>3, FlattenJoins
  <2>2. /\ g \in [1 .. Len(q) -> Seq(S)]
        /\ \A i \in 1 .. Len(q) : g[i] = IF i = 1 THEN q[i] ELSE g[i - 1] \o q[i]
    BY <2>1 DEF Joins
  <2> DEFINE T == {m \in 1 .. Len(q) : ~ Leads(st[0], g[m], st[m])}
  <2>3. ASSUME T # {} PROVE FALSE
    <3>1. PICK m \in T : \A x \in T : m <= x
      <4>1. T \subseteq Nat
        OBVIOUS
      <4> HIDE DEF T
      <4>2. QED
        BY <2>3, <4>1, LeastNumber
    <3>2. m \in 1 .. Len(q) /\ ~ Leads(st[0], g[m], st[m])
      OBVIOUS
    <3>3. Leads(st[m - 1], q[m], st[m])
      BY <3>2
    <3>4. CASE m = 1
      <4> HIDE DEF T
      <4>1. 1 \in 1 .. Len(q)
        BY <3>2, <3>4
      <4>2. g[1] = q[1]
        BY <2>2, <4>1
      <4>3. Leads(st[0], g[m], st[m])
        BY <3>3, <3>4, <4>2
      <4>4. QED
        BY <3>2, <4>3
    <3>5. CASE m # 1
      <4>1. m - 1 \in 1 .. Len(q) /\ ~ (m <= m - 1)
        BY <1>1, <3>2, <3>5
      <4>2. Leads(st[0], g[m - 1], st[m - 1])
        BY <3>1, <4>1
      <4>3. g[m] = g[m - 1] \o q[m] /\ g[m - 1] \in Seq(S) /\ q[m] \in Seq(S)
        BY <1>1, <2>2, <3>2, <3>5, <4>1
      <4>4. QED
        BY <3>2, <3>3, <4>2, <4>3, LeadsConcat
    <3>6. QED
      BY <3>4, <3>5
  <2>4. Len(q) \in 1 .. Len(q)
    BY <1>1, <1>3
  <2>5. QED
    BY <2>1, <2>3, <2>4
<1>4. QED
  BY <1>2, <1>3

-----------------------------------------------------------------------------
(***************************************************************************)
(* Stores without deadlines.                                               *)
(***************************************************************************)

\* No hash is empty.
NoneEmpty(h) ==
  /\ h = [k \in DOMAIN h |-> h[k]]
  /\ \A k \in DOMAIN h : DOMAIN h[k] # {}

\* Stores without deadlines; their lists and hashes are not empty.
Lasting(st) ==
  /\ Sound(st)
  /\ \A k \in DOMAIN st.data : st.data[k].exp = 0
  /\ \A k \in DOMAIN st.lists : st.lists[k] # <<>>
  /\ NoneEmpty(st.hashes)

\* Nothing in them expires, so no command depends on the time.
LEMMA LastingLives ==
  ASSUME NEW st, Lasting(st), NEW k, NEW t
  PROVE  /\ Live(st, k, t) <=> k \in DOMAIN st.data
         /\ k \in DOMAIN st.data => ~ Expired(st.data[k], t)
BY DEF Lasting, Live, Expired

\* What a command does to the four maps.
LEMMA AfterParts ==
  ASSUME NEW st, Sound(st), NEW c
  PROVE  /\ c.op = "SET" =>
              /\ After(st, c).data = Put(st.data, c.key, [val |-> c.val, exp |-> 0])
              /\ After(st, c).lists = st.lists /\ After(st, c).hashes = st.hashes
         /\ c.op = "DEL" =>
              /\ After(st, c).data = Drop(st.data, c.keys)
              /\ After(st, c).lists = Drop(st.lists, c.keys)
              /\ After(st, c).hashes = Drop(st.hashes, c.keys)
         /\ c.op = "INCRBY" /\ IsCounter(st, c.key, 1) =>
              /\ After(st, c).data =
                   Put(st.data, c.key,
                       [val |-> Counted(st, c.key, c.delta, 1),
                        exp |-> IF c.key \in DOMAIN st.data THEN st.data[c.key].exp ELSE 0])
              /\ After(st, c).lists = st.lists /\ After(st, c).hashes = st.hashes
         /\ c.op = "LPUSH" =>
              /\ After(st, c).lists = Put(st.lists, c.key, Reverse(c.vals) \o ListAt(st, c.key))
              /\ After(st, c).data = st.data /\ After(st, c).hashes = st.hashes
         /\ c.op = "RPUSH" =>
              /\ After(st, c).lists = Put(st.lists, c.key, ListAt(st, c.key) \o c.vals)
              /\ After(st, c).data = st.data /\ After(st, c).hashes = st.hashes
<1>1. CASE c.op = "SET"
  <2> DEFINE d == Put(st.data, c.key, [val |-> c.val, exp |-> 0])
             e == IF 0 = 0 THEN st.expiryKeys \ {c.key} ELSE st.expiryKeys \cup {c.key}
  <2>1. After(st, c) = SetOp(st, c.key, c.val, 0)
    BY <1>1 DEF After
  <2>2. SetOp(st, c.key, c.val, 0) = [st EXCEPT !.data = d, !.expiryKeys = e]
    BY Zenon DEF SetOp
  <2> HIDE DEF d, e
  <2>3. After(st, c) = [data |-> d, lists |-> st.lists, hashes |-> st.hashes, expiryKeys |-> e]
    BY <2>1, <2>2, AssignTwo, Zenon
  <2>4. QED
    BY <1>1, <2>3 DEF d
<1>2. CASE c.op = "DEL"
  <2>1. After(st, c) = DelOp(st, c.keys)
    BY <1>2 DEF After
  <2>2. QED
    BY <1>2, <2>1 DEF DelOp
<1>3. CASE c.op = "INCRBY" /\ IsCounter(st, c.key, 1)
  <2>1. After(st, c) = IncrByOp(st, c.key, c.delta, 1)
    BY <1>3 DEF After
  <2>2. QED
    BY <1>3, <2>1, AssignOne DEF IncrByOp
<1>4. CASE c.op = "LPUSH"
  <2>1. After(st, c) = LPushOp(st, c.key, c.vals)
    BY <1>4 DEF After
  <2>2. QED
    BY <1>4, <2>1, AssignOne DEF LPushOp
<1>5. CASE c.op = "RPUSH"
  <2>1. After(st, c) = RPushOp(st, c.key, c.vals)
    BY <1>5 DEF After
  <2>2. QED
    BY <1>5, <2>1, AssignOne DEF RPushOp
<1>6. QED
  BY <1>1, <1>2, <1>3, <1>4, <1>5

\* HSET, HDEL.
LEMMA AfterHash ==
  ASSUME NEW st, Sound(st), NEW c \in Plain, c.op \in {"HSET", "HDEL"},
         NoneEmpty(st.hashes)
  PROVE  /\ After(st, c).data = st.data /\ After(st, c).lists = st.lists
         /\ NoneEmpty(After(st, c).hashes)
<1>1. CASE c.op = "HSET"
  <2> DEFINE k == c.key
             pairs == c.pairs
             h == HashAt(st, k)
             named == {pairs[i][1] : i \in DOMAIN pairs}
             Latest(x) == Max({i \in DOMAIN pairs : pairs[i][1] = x})
             g == [x \in DOMAIN h \cup named |-> IF x \in named THEN pairs[Latest(x)][2] ELSE h[x]]
             hs == Put(st.hashes, k, g)
  <2>1. After(st, c) = HSetOp(st, k, pairs)
    BY <1>1 DEF After
  <2>2. HSetOp(st, k, pairs) = [st EXCEPT !.hashes = hs]
    BY DEF HSetOp
  <2>3. DOMAIN g # {}
    <3>1. pairs \in Seq(Fields \X Values) \ {<<>>}
      BY <1>1, CommandParts DEF Plain
    <3>2. pairs[1][1] \in named
      BY <3>1
    <3>3. QED
      BY <3>2
  <2> HIDE DEF g
  <2>4. /\ DOMAIN hs = DOMAIN st.hashes \cup {k} /\ hs[k] = g
        /\ \A x \in DOMAIN hs : x # k => hs[x] = st.hashes[x]
        /\ hs = [x \in DOMAIN hs |-> hs[x]]
    BY DEF Put
  <2>5. NoneEmpty(hs)
    BY <2>3, <2>4 DEF NoneEmpty
  <2> HIDE DEF hs
  <2>6. After(st, c) =
          [data |-> st.data, lists |-> st.lists, hashes |-> hs, expiryKeys |-> st.expiryKeys]
    BY <2>1, <2>2, AssignOne
  <2>7. QED
    BY <2>5, <2>6
<1>2. CASE c.op = "HDEL"
  <2> DEFINE k == c.key
             h == Drop(HashAt(st, k), c.fields)
             hs == IF DOMAIN h = {} THEN Drop(st.hashes, {k}) ELSE Put(st.hashes, k, h)
  <2>1. After(st, c) = HDelOp(st, k, c.fields)
    BY <1>2 DEF After
  <2>2. CASE k \notin DOMAIN st.hashes
    BY <2>1, <2>2 DEF HDelOp
  <2>3. CASE k \in DOMAIN st.hashes
    <3>1. HDelOp(st, k, c.fields) = [st EXCEPT !.hashes = hs]
      BY <2>3 DEF HDelOp
    <3> HIDE DEF h
    <3>2. NoneEmpty(hs)
      BY DEF Put, Drop, Restrict, NoneEmpty
    <3> HIDE DEF hs
    <3>3. After(st, c) =
            [data |-> st.data, lists |-> st.lists, hashes |-> hs, expiryKeys |-> st.expiryKeys]
      BY <2>1, <3>1, AssignOne
    <3>4. QED
      BY <3>2, <3>3
  <2>4. QED
    BY <2>2, <2>3
<1>3. QED
  BY <1>1, <1>2

\* The empty store is one.
LEMMA EmptyLasting == Lasting(Empty)
<1>1. DOMAIN Empty.data = {} /\ DOMAIN Empty.lists = {} /\ Empty.hashes = <<>>
  BY DEF Empty
<1>2. NoneEmpty(<<>>)
  BY DEF NoneEmpty
<1>3. QED
  BY <1>1, <1>2, EmptySound DEF Lasting

\* Such commands leave such stores.
LEMMA AfterLasting ==
  ASSUME NEW st, Lasting(st), NEW c \in Plain
  PROVE  Lasting(After(st, c))
<1>1. /\ Sound(st) /\ c \in Commands
      /\ \A k \in DOMAIN st.data : st.data[k].exp = 0
      /\ \A k \in DOMAIN st.lists : st.lists[k] # <<>>
      /\ NoneEmpty(st.hashes)
  BY DEF Lasting, Plain
<1>2. c.op \in {"SET", "INCRBY", "LPUSH", "RPUSH", "HSET", "HDEL", "DEL", "FLUSHALL"}
  BY CommandParts DEF Plain
<1>3. CASE c.op = "SET"
  <2>1. c.key \in Keys /\ c.val \in Values
    BY <1>1, <1>3, CommandParts
  <2>2. Sound(After(st, c))
    BY <1>1, <1>3, <2>1, SetSound DEF After
  <2>3. /\ After(st, c).data = Put(st.data, c.key, [val |-> c.val, exp |-> 0])
        /\ After(st, c).lists = st.lists /\ After(st, c).hashes = st.hashes
    BY <1>1, <1>3, AfterParts
  <2>4. \A k \in DOMAIN After(st, c).data : After(st, c).data[k].exp = 0
    BY <1>1, <2>3 DEF Put
  <2>5. QED
    BY <1>1, <2>2, <2>3, <2>4 DEF Lasting
<1>4. CASE c.op = "INCRBY"
  <2>1. CASE IsCounter(st, c.key, 1)
    <3>1. c.key \in Keys /\ c.delta \in Ints
      BY <1>1, <1>4, CommandParts
    <3>2. Sound(After(st, c))
      BY <1>1, <1>4, <2>1, <3>1, IncrBySound DEF After
    <3> DEFINE e == [val |-> Counted(st, c.key, c.delta, 1),
                     exp |-> IF c.key \in DOMAIN st.data THEN st.data[c.key].exp ELSE 0]
    <3>3. /\ After(st, c).data = Put(st.data, c.key, e)
          /\ After(st, c).lists = st.lists /\ After(st, c).hashes = st.hashes
      BY <1>1, <1>4, <2>1, AfterParts
    <3>4. e.exp = 0
      BY <1>1
    <3> HIDE DEF e
    <3>5. \A k \in DOMAIN After(st, c).data : After(st, c).data[k].exp = 0
      BY <1>1, <3>3, <3>4 DEF Put
    <3>6. QED
      BY <1>1, <3>2, <3>3, <3>5 DEF Lasting
  <2>2. CASE ~ IsCounter(st, c.key, 1)
    <3>1. After(st, c) = st
      BY <1>4, <2>2 DEF After
    <3>2. QED
      BY <3>1
  <2>3. QED
    BY <2>1, <2>2
<1>5. CASE c.op \in {"LPUSH", "RPUSH"}
  <2>1. c.key \in Keys /\ c.vals \in Seq(Values) /\ c.vals # <<>>
    BY <1>1, <1>5, CommandParts
  <2>2. Sound(After(st, c))
    BY <1>1, <1>5, <2>1, PushSound DEF After
  <2>3. ListAt(st, c.key) \in Seq(Values)
    BY <1>1, StoreParts DEF ListAt, MapOver
  <2>4. PICK q \in Seq(Values) :
          /\ q # <<>> /\ After(st, c).lists = Put(st.lists, c.key, q)
          /\ After(st, c).data = st.data /\ After(st, c).hashes = st.hashes
    <3> DEFINE v == c.vals
               r == Reverse(v)
               l == ListAt(st, c.key)
    <3>1. /\ r \in Seq(Values) /\ Len(r) = Len(v)
          /\ v \in Seq(Values) /\ Len(v) # 0 /\ Len(v) \in Nat /\ Len(l) \in Nat
      BY <2>1, <2>3 DEF Reverse
    <3>2. CASE c.op = "LPUSH"
      <4>1. /\ After(st, c).lists = Put(st.lists, c.key, r \o l)
            /\ After(st, c).data = st.data /\ After(st, c).hashes = st.hashes
        BY <1>1, <3>2, AfterParts
      <4> HIDE DEF r, l, v
      <4>2. r \o l \in Seq(Values) /\ Len(r \o l) # 0
        BY <2>3, <3>1, ConcatProperties DEF l
      <4>3. QED
        BY <4>1, <4>2, EmptySeq
    <3>3. CASE c.op = "RPUSH"
      <4>1. /\ After(st, c).lists = Put(st.lists, c.key, l \o v)
            /\ After(st, c).data = st.data /\ After(st, c).hashes = st.hashes
        BY <1>1, <3>3, AfterParts
      <4> HIDE DEF r, l, v
      <4>2. l \o v \in Seq(Values) /\ Len(l \o v) # 0
        BY <2>3, <3>1, ConcatProperties DEF l
      <4>3. QED
        BY <4>1, <4>2, EmptySeq
    <3>4. QED
      BY <1>5, <3>2, <3>3
  <2>5. \A k \in DOMAIN After(st, c).lists : After(st, c).lists[k] # <<>>
    BY <1>1, <2>4 DEF Put
  <2>6. QED
    BY <1>1, <2>2, <2>4, <2>5 DEF Lasting
<1>6. CASE c.op = "HSET"
  <2>1. c.key \in Keys /\ c.pairs \in Seq(Fields \X Values)
    BY <1>1, <1>6, CommandParts
  <2>2. Sound(After(st, c))
    BY <1>1, <1>6, <2>1, HSetSound DEF After
  <2>3. QED
    BY <1>1, <1>6, <2>2, AfterHash DEF Lasting
<1>7. CASE c.op = "HDEL"
  <2>1. c.key \in Keys
    BY <1>1, <1>7, CommandParts
  <2>2. Sound(After(st, c))
    BY <1>1, <1>7, <2>1, HDelSound DEF After
  <2>3. QED
    BY <1>1, <1>7, <2>2, AfterHash DEF Lasting
<1>8. CASE c.op = "DEL"
  <2>1. After(st, c) = DelOp(st, c.keys)
    BY <1>8 DEF After
  <2>2. Sound(After(st, c))
    BY <1>1, <2>1, DelSound
  <2>3. /\ After(st, c).data = Drop(st.data, c.keys)
        /\ After(st, c).lists = Drop(st.lists, c.keys)
        /\ After(st, c).hashes = Drop(st.hashes, c.keys)
    BY <2>1 DEF DelOp
  <2>4. /\ \A k \in DOMAIN After(st, c).data : After(st, c).data[k].exp = 0
        /\ \A k \in DOMAIN After(st, c).lists : After(st, c).lists[k] # <<>>
        /\ NoneEmpty(After(st, c).hashes)
    BY <1>1, <2>3 DEF Drop, Restrict, NoneEmpty
  <2>5. QED
    BY <2>2, <2>4 DEF Lasting
<1>9. CASE c.op = "FLUSHALL"
  <2>1. After(st, c) = Empty
    BY <1>9 DEF After
  <2>2. QED
    BY <2>1, EmptyLasting
<1>10. QED
  BY <1>2, <1>3, <1>4, <1>5, <1>6, <1>7, <1>8, <1>9

\* Executing or replaying a command comes to that.
LEMMA EffectIsAfter ==
  ASSUME NEW c \in Plain, Lasting(s), MaxMemory = 0
  PROVE  (IF Succeeds(c) THEN Effect(c) ELSE s) = After(s, c)
<1>1. c.op \in {"SET", "INCRBY", "LPUSH", "RPUSH", "HSET", "HDEL", "DEL", "FLUSHALL"}
  BY CommandParts DEF Plain
<1>2. \A x : Fits(s, x, MaxMemory)
  BY DEF Fits
<1>3. CASE c.op = "INCRBY"
  <2>1. Succeeds(c) <=> IsCounter(s, c.key, now)
    BY <1>2, <1>3, Zenon DEF Succeeds
  <2>2. IsCounter(s, c.key, now) <=> IsCounter(s, c.key, 1)
    BY LastingLives DEF IsCounter
  <2>3. IncrByOp(s, c.key, c.delta, now) = IncrByOp(s, c.key, c.delta, 1)
    BY LastingLives DEF IncrByOp, Counted
  <2>4. Effect(c) = IncrByOp(s, c.key, c.delta, now)
    BY <1>3, EffectOf
  <2>5. After(s, c) = IF IsCounter(s, c.key, 1) THEN IncrByOp(s, c.key, c.delta, 1) ELSE s
    BY <1>3 DEF After
  <2>6. QED
    BY <2>1, <2>2, <2>3, <2>4, <2>5
<1>4. CASE c.op = "SET"
  <2>1. Succeeds(c)
    BY <1>2, <1>4, Zenon DEF Succeeds
  <2>2. ~ (c.ttl > 0)
    BY <1>4 DEF Plain
  <2>3. QED
    BY <1>4, <2>1, <2>2, EffectOf DEF After
<1>5. CASE c.op \in {"LPUSH", "RPUSH", "HSET"}
  <2>1. Succeeds(c)
    BY <1>2, <1>5, Zenon DEF Succeeds
  <2>2. QED
    BY <1>5, <2>1, EffectOf DEF After
<1>6. CASE c.op \in {"HDEL", "DEL", "FLUSHALL"}
  <2>1. Succeeds(c)
    BY <1>6, Zenon DEF Succeeds
  <2>2. QED
    BY <1>6, <2>1, EffectOf DEF After
<1>7. QED
  BY <1>1, <1>3, <1>4, <1>5, <1>6

-----------------------------------------------------------------------------
(***************************************************************************)
(* What a rewritten file leads to, part by part.                           *)
(***************************************************************************)

\* The elements of a sequence up to a position.
Upto(q, i) == {q[j] : j \in 1 .. i}

\* Put puts.
LEMMA PutThere ==
  ASSUME NEW f, NEW k, NEW v
  PROVE  k \in DOMAIN Put(f, k, v) /\ Put(f, k, v)[k] = v
BY DEF Put

\* A part grows by one key.
LEMMA PartGrows ==
  ASSUME NEW f, NEW K, NEW k
  PROVE  /\ Put(Restrict(f, K), k, f[k]) = Restrict(f, K \cup {k})
         /\ DOMAIN Restrict(f, K) = K
<1>1. \A x \in K \cup {k} : Put(Restrict(f, K), k, f[k])[x] = f[x]
  BY DEF Put, Restrict
<1>2. QED
  BY <1>1 DEF Put, Restrict

\* A part under no key is empty.
LEMMA PartEmpty ==
  ASSUME NEW f
  PROVE  Restrict(f, {}) = <<>>
BY DEF Restrict

\* Positions grow by one.
LEMMA UptoFacts ==
  ASSUME NEW q, NEW n \in Nat
  PROVE  /\ Upto(q, 0) = {}
         /\ \A i \in 1 .. n : Upto(q, i) = Upto(q, i - 1) \cup {q[i]}
<1>1. Upto(q, 0) = {}
  BY DEF Upto
<1>2. ASSUME NEW i \in 1 .. n
      PROVE  Upto(q, i) = Upto(q, i - 1) \cup {q[i]}
  <2>1. \A j : j \in 1 .. i <=> j \in 1 .. i - 1 \/ j = i
    OBVIOUS
  <2>2. QED
    BY <2>1 DEF Upto
<1>3. QED
  BY <1>1, <1>2

\* Stores made of parts of the snapshot.
Partial(d, l, h) == [data |-> d, lists |-> l, hashes |-> h, expiryKeys |-> {}]

LEMMA SetPartial ==
  ASSUME NEW d, NEW l, NEW h, NEW k, NEW v
  PROVE  SetOp(Partial(d, l, h), k, v, 0) = Partial(Put(d, k, [val |-> v, exp |-> 0]), l, h)
<1> DEFINE st == Partial(d, l, h)
           x == Put(d, k, [val |-> v, exp |-> 0])
           e == IF 0 = 0 THEN st.expiryKeys \ {k} ELSE st.expiryKeys \cup {k}
<1>1. st.data = d /\ e = {}
  BY DEF Partial
<1>2. SetOp(st, k, v, 0) = [st EXCEPT !.data = x, !.expiryKeys = e]
  BY <1>1, Zenon DEF SetOp
<1> HIDE DEF x, e
<1>3. [st EXCEPT !.data = x] = [data |-> x, lists |-> l, hashes |-> h, expiryKeys |-> {}]
  BY DEF Partial
<1>4. [[data |-> x, lists |-> l, hashes |-> h, expiryKeys |-> {}] EXCEPT !.expiryKeys = e] =
        Partial(x, l, h)
  BY <1>1 DEF Partial
<1>5. [st EXCEPT !.data = x, !.expiryKeys = e] = Partial(x, l, h)
  BY <1>3, <1>4, Zenon
<1>6. QED
  BY <1>2, <1>5, Zenon DEF x

\* Logs of one command each.
LEMMA LeadsSingly ==
  ASSUME NEW n \in Nat, NEW f, DOMAIN f = 1 .. n, f = [i \in 1 .. n |-> f[i]],
         NEW c, NEW st, \A i \in 1 .. n : f[i] = <<c[i]>> /\ After(st[i - 1], c[i]) = st[i]
  PROVE  Leads(st[0], FlattenSeq(f), st[n])
<1> DEFINE S == {c[i] : i \in 1 .. n}
<1>1. \A i \in 1 .. n : f[i] \in Seq(S)
  <2> TAKE i \in 1 .. n
  <2>1. c[i] \in S
    OBVIOUS
  <2> HIDE DEF S
  <2>2. <<c[i]>> \in Seq(S)
    BY <2>1
  <2>3. QED
    BY <2>2
<1>2. f \in Seq(Seq(S)) /\ Len(f) = n
  <2> HIDE DEF S
  <2>1. f \in Seq(Seq(S))
    BY <1>1, PartsAreSeq
  <2>2. QED
    BY <2>1, LenProperties
<1>3. \A i \in 1 .. Len(f) : Leads(st[i - 1], f[i], st[i])
  BY <1>2, LeadsOne
<1> HIDE DEF S
<1>4. Leads(st[0], FlattenSeq(f), st[Len(f)])
  BY <1>2, <1>3, LeadsEach
<1>5. QED
  BY <1>2, <1>4

\* The strings, in any order.
LEMMA StringsLead ==
  ASSUME Lasting(snap), NEW q \in Orders(DOMAIN snap.data)
  PROVE  Leads(Empty, ForEach(q, SetCommand), Partial(snap.data, <<>>, <<>>))
<1> DEFINE n == Len(q)
           f == [i \in DOMAIN q |-> SetCommand(q[i])]
           st == [i \in 0 .. n |-> Partial(Restrict(snap.data, Upto(q, i)), <<>>, <<>>)]
           cs == [i \in 1 .. n |->
                    [op |-> "SET", key |-> q[i], val |-> snap.data[q[i]].val, ttl |-> 0]]
<1>1. /\ Sound(snap) /\ \A k \in DOMAIN snap.data : snap.data[k].exp = 0
      /\ snap.data \in [DOMAIN snap.data -> Entries] /\ DOMAIN snap.data \subseteq Keys
  BY StoreParts DEF Lasting, MapOver
<1>2. /\ q \in Seq(DOMAIN snap.data)
      /\ \A x \in DOMAIN snap.data : \E i \in 1 .. n : q[i] = x
  BY <1>1, OrderOfKeys, PersistenceAssumption
<1>3. n \in Nat /\ DOMAIN q = 1 .. n /\ \A i \in 1 .. n : q[i] \in DOMAIN snap.data
  BY <1>2, LenProperties, ElementOfSeq
<1> HIDE DEF n
<1>4. ASSUME NEW i \in 1 .. n
      PROVE  f[i] = <<cs[i]>> /\ After(st[i - 1], cs[i]) = st[i]
  <2> DEFINE k == q[i]
             e == snap.data[k]
             c == [op |-> "SET", key |-> k, val |-> e.val, ttl |-> 0]
  <2>1. cs[i] = c
    OBVIOUS
  <2>2. k \in DOMAIN snap.data /\ e.exp = 0 /\ e \in Entries
    BY <1>1, <1>3
  <2>3. f[i] = <<c>>
    BY <1>3, <2>2 DEF SetCommand
  <2>4. e = [val |-> e.val, exp |-> 0]
    BY <2>2 DEF Entries
  <2>5. /\ st[i - 1] = Partial(Restrict(snap.data, Upto(q, i - 1)), <<>>, <<>>)
        /\ st[i] = Partial(Restrict(snap.data, Upto(q, i - 1) \cup {k}), <<>>, <<>>)
    <3>1. i \in 0 .. n /\ i - 1 \in 0 .. n /\ Upto(q, i) = Upto(q, i - 1) \cup {k}
      BY <1>3, UptoFacts
    <3>2. QED
      BY <3>1
  <2>6. After(st[i - 1], c) = SetOp(st[i - 1], k, e.val, 0)
    BY DEF After
  <2> HIDE DEF st, f, c, cs
  <2>7. SetOp(st[i - 1], k, e.val, 0) =
          Partial(Put(Restrict(snap.data, Upto(q, i - 1)), k, [val |-> e.val, exp |-> 0]), <<>>, <<>>)
    BY <2>5, SetPartial
  <2>8. Put(Restrict(snap.data, Upto(q, i - 1)), k, [val |-> e.val, exp |-> 0]) =
          Restrict(snap.data, Upto(q, i - 1) \cup {k})
    <3>1. Put(Restrict(snap.data, Upto(q, i - 1)), k, snap.data[k]) =
            Restrict(snap.data, Upto(q, i - 1) \cup {k})
      BY PartGrows
    <3>2. QED
      BY <2>4, <3>1
  <2>9. After(st[i - 1], c) = st[i]
    BY <2>5, <2>6, <2>7, <2>8
  <2>10. QED
    BY <2>1, <2>3, <2>9
<1>5. DOMAIN f = 1 .. n /\ f = [i \in 1 .. n |-> f[i]]
  BY <1>3
<1>6. st[0] = Empty
  <2>1. st[0] = Partial(<<>>, <<>>, <<>>)
    <3>1. 0 \in 0 .. n /\ Upto(q, 0) = {}
      BY <1>3, UptoFacts
    <3>2. Restrict(snap.data, Upto(q, 0)) = <<>>
      BY <3>1, PartEmpty
    <3>3. QED
      BY <3>1, <3>2
  <2>2. QED
    BY <2>1 DEF Partial, Empty
<1>7. st[n] = Partial(snap.data, <<>>, <<>>)
  <2>1. Upto(q, n) = DOMAIN snap.data
    BY <1>2, <1>3 DEF Upto
  <2>2. Restrict(snap.data, DOMAIN snap.data) = snap.data
    BY <1>1 DEF Restrict
  <2>3. QED
    BY <1>3, <2>1, <2>2
<1> HIDE DEF f, st, cs
<1>8. Leads(st[0], FlattenSeq(f), st[n])
  BY <1>3, <1>4, <1>5, LeadsSingly
<1>9. ForEach(q, SetCommand) = FlattenSeq(f)
  BY Zenon DEF ForEach, f
<1>10. QED
  BY <1>6, <1>7, <1>8, <1>9

\* RPUSH on such a store.
LEMMA PushPartial ==
  ASSUME NEW d, NEW l, NEW h, NEW k, NEW v
  PROVE  RPushOp(Partial(d, l, h), k, v) =
           Partial(d, Put(l, k, (IF k \in DOMAIN l THEN l[k] ELSE <<>>) \o v), h)
BY DEF RPushOp, Partial, ListAt

\* A list, chunk by chunk.
LEMMA ListLeads ==
  ASSUME Sound(snap), NEW k \in DOMAIN snap.lists, snap.lists[k] # <<>>,
         NEW K, k \notin K, NEW d, NEW h
  PROVE  Leads(Partial(d, Restrict(snap.lists, K), h), PushCommands(k),
               Partial(d, Restrict(snap.lists, K \cup {k}), h))
<1> DEFINE L == snap.lists[k]
           n == Len(Chunks(L))
           p == Restrict(snap.lists, K)
<1>1. L \in Seq(Values) /\ L # <<>> /\ Len(L) \in Nat /\ Len(L) # 0
  <2>1. L \in Seq(Values) /\ L # <<>>
    BY StoreParts DEF MapOver
  <2>2. QED
    BY <2>1, LenProperties, EmptySeq
<1>2. PICK e : Cuts(e, L)
  BY <1>1, ChunksCut
<1>3. /\ n \in Nat /\ DOMAIN Chunks(L) = 1 .. n /\ e[0] = 0 /\ e[n] = Len(L)
      /\ \A i \in 0 .. n : e[i] \in 0 .. Len(L)
      /\ \A i \in 1 .. n : e[i - 1] < e[i] /\ Chunks(L)[i] = SubSeq(L, e[i - 1] + 1, e[i])
  BY <1>2 DEF Cuts
<1> DEFINE l(i) == IF i = 0 THEN p ELSE Put(p, k, SubSeq(L, 1, e[i]))
           st == [i \in 0 .. n |-> Partial(d, l(i), h)]
           cs == [i \in 1 .. n |-> [op |-> "RPUSH", key |-> k, vals |-> Chunks(L)[i]]]
           f == [i \in DOMAIN Chunks(L) |-> <<[op |-> "RPUSH", key |-> k, vals |-> Chunks(L)[i]]>>]
<1> HIDE DEF n, p, L
<1>4. ASSUME NEW i \in 1 .. n
      PROVE  f[i] = <<cs[i]>> /\ After(st[i - 1], cs[i]) = st[i]
  <2> DEFINE had == SubSeq(L, 1, e[i - 1])
             part == Chunks(L)[i]
             has == SubSeq(L, 1, e[i])
  <2>1. f[i] = <<cs[i]>>
    BY <1>3
  <2>2. i \in 0 .. n /\ i - 1 \in 0 .. n /\ i # 0
    BY <1>3
  <2>3. st[i - 1] = Partial(d, l(i - 1), h) /\ st[i] = Partial(d, l(i), h)
    BY <2>2
  <2>4. cs[i] = [op |-> "RPUSH", key |-> k, vals |-> part]
    OBVIOUS
  <2> HIDE DEF st, cs, f
  <2>5. After(st[i - 1], cs[i]) = RPushOp(st[i - 1], k, part)
    BY <2>4 DEF After
  <2>6. had \o part = has
    <3>1. e[i - 1] \in 0 .. Len(L) /\ e[i] \in 0 .. Len(L) /\ e[i - 1] < e[i]
      BY <1>3, <2>2
    <3>2. e[i - 1] \in 1 - 1 .. Len(L) /\ e[i] \in e[i - 1] .. Len(L) /\ 1 \in 1 .. Len(L) + 1
      BY <1>1, <3>1
    <3>3. SubSeq(L, 1, e[i - 1]) \o SubSeq(L, e[i - 1] + 1, e[i]) = SubSeq(L, 1, e[i])
      BY <1>1, <3>2, ConcatAdjacentSubSeq
    <3>4. QED
      BY <1>3, <3>3
  <2>7. (IF k \in DOMAIN l(i - 1) THEN l(i - 1)[k] ELSE <<>>) = had
    <3>1. CASE i = 1
      <4>1. had = <<>>
        BY <1>3, <3>1, SubSeqEmpty
      <4>2. k \notin DOMAIN p
        BY PartGrows DEF p
      <4>3. l(i - 1) = p
        BY <3>1
      <4>4. QED
        BY <4>1, <4>2, <4>3
    <3>2. CASE i # 1
      <4>1. l(i - 1) = Put(p, k, had)
        BY <2>2, <3>2
      <4> HIDE DEF l, had
      <4>2. QED
        BY <4>1, PutThere
    <3>3. QED
      BY <3>1, <3>2
  <2>8. Put(l(i - 1), k, has) = l(i)
    <3>1. l(i) = Put(p, k, has)
      BY <2>2
    <3>2. l(i - 1) = p \/ l(i - 1) = Put(p, k, had)
      OBVIOUS
    <3> HIDE DEF l, has, had
    <3>3. Put(Put(p, k, had), k, has) = Put(p, k, has)
      BY DEF Put
    <3>4. QED
      BY <3>1, <3>2, <3>3
  <2> HIDE DEF l, has, had, part
  <2>9. RPushOp(st[i - 1], k, part) = st[i]
    <3>1. RPushOp(Partial(d, l(i - 1), h), k, part) =
            Partial(d,
                    Put(l(i - 1), k,
                        (IF k \in DOMAIN l(i - 1) THEN l(i - 1)[k] ELSE <<>>) \o part), h)
      BY PushPartial
    <3>2. QED
      BY <2>3, <2>6, <2>7, <2>8, <3>1
  <2>10. QED
    BY <2>1, <2>5, <2>9
<1>5. DOMAIN f = 1 .. n /\ f = [i \in 1 .. n |-> f[i]]
  BY <1>3
<1>6. st[0] = Partial(d, p, h)
  BY <1>3
<1>7. st[n] = Partial(d, Restrict(snap.lists, K \cup {k}), h)
  <2>1. n # 0 /\ n \in 0 .. n
    BY <1>1, <1>3
  <2>2. SubSeq(L, 1, e[n]) = L
    BY <1>1, <1>3, SubSeqFull
  <2>3. l(n) = Put(p, k, L)
    BY <2>1, <2>2
  <2>4. Put(p, k, L) = Restrict(snap.lists, K \cup {k})
    BY PartGrows DEF p, L
  <2>5. QED
    BY <2>1, <2>3, <2>4
<1> HIDE DEF f, st, cs
<1>8. Leads(st[0], FlattenSeq(f), st[n])
  BY <1>3, <1>4, <1>5, LeadsSingly
<1>9. PushCommands(k) = FlattenSeq(f)
  BY Zenon DEF PushCommands, ForEach, f, L
<1>10. QED
  BY <1>6, <1>7, <1>8, <1>9 DEF p

\* The hash that HSET leaves.
Overlaid(g, pairs) ==
  LET named == {pairs[i][1] : i \in DOMAIN pairs}
      Latest(f) == Max({i \in DOMAIN pairs : pairs[i][1] = f})
  IN  [f \in DOMAIN g \cup named |-> IF f \in named THEN pairs[Latest(f)][2] ELSE g[f]]

LEMMA HSetPartial ==
  ASSUME NEW d, NEW l, NEW h, NEW k, NEW pairs
  PROVE  HSetOp(Partial(d, l, h), k, pairs) =
           Partial(d, l, Put(h, k, Overlaid(IF k \in DOMAIN h THEN h[k] ELSE <<>>, pairs)))
<1> DEFINE st == Partial(d, l, h)
           x == Put(h, k, Overlaid(IF k \in DOMAIN h THEN h[k] ELSE <<>>, pairs))
<1>1. HSetOp(st, k, pairs) = [st EXCEPT !.hashes = x]
  BY DEF HSetOp, HashAt, Overlaid, Partial
<1> HIDE DEF x
<1>2. [st EXCEPT !.hashes = x] = Partial(d, l, x)
  BY DEF Partial
<1>3. QED
  BY <1>1, <1>2 DEF x

\* Fields with their values, in some order.
LEMMA PairsOf ==
  ASSUME NEW V, NEW H, H \in [DOMAIN H -> V], NEW q \in Seq(DOMAIN H), NEW pairs,
         pairs = [i \in DOMAIN q |-> <<q[i], H[q[i]]>>]
  PROVE  pairs \in Seq((DOMAIN H) \X V) /\ Len(pairs) = Len(q)
<1>1. /\ Len(q) \in Nat /\ DOMAIN q = 1 .. Len(q)
      /\ \A i \in 1 .. Len(q) : q[i] \in DOMAIN H
  BY LenProperties, ElementOfSeq
<1>2. /\ DOMAIN pairs = 1 .. Len(q) /\ pairs = [i \in 1 .. Len(q) |-> pairs[i]]
      /\ \A i \in 1 .. Len(q) : pairs[i] = <<q[i], H[q[i]]>>
  BY <1>1
<1>3. ASSUME NEW i \in 1 .. Len(q)
      PROVE  pairs[i] \in (DOMAIN H) \X V
  <2>1. q[i] \in DOMAIN H /\ H[q[i]] \in V
    BY <1>1
  <2>2. QED
    BY <1>2, <2>1
<1>4. pairs \in Seq((DOMAIN H) \X V)
  BY <1>1, <1>2, <1>3, PartsAreSeq
<1>5. Len(pairs) \in Nat /\ DOMAIN pairs = 1 .. Len(pairs)
  BY <1>4, LenProperties
<1>6. QED
  BY <1>1, <1>2, <1>4, <1>5

\* A chunk of the fields of a hash adds these fields.
LEMMA ChunkOverlaid ==
  ASSUME NEW H, NEW q \in Seq(DOMAIN H), NEW pairs,
         pairs = [i \in DOMAIN q |-> <<q[i], H[q[i]]>>],
         NEW m \in 0 .. Len(q), NEW n \in 0 .. Len(q), m < n
  PROVE  Overlaid(Restrict(H, Upto(q, m)), SubSeq(pairs, m + 1, n)) = Restrict(H, Upto(q, n))
<1> DEFINE part == SubSeq(pairs, m + 1, n)
           had == Restrict(H, Upto(q, m))
           named == {part[i][1] : i \in DOMAIN part}
           At(f) == {i \in DOMAIN part : part[i][1] = f}
<1>1. /\ Len(q) \in Nat /\ DOMAIN q = 1 .. Len(q) /\ DOMAIN pairs = 1 .. Len(q)
      /\ \A i \in 1 .. Len(q) : pairs[i] = <<q[i], H[q[i]]>>
  BY LenProperties
<1> DEFINE S == {pairs[i] : i \in 1 .. Len(q)}
<1>2. pairs \in Seq(S) /\ Len(pairs) = Len(q)
  <2>1. \A i \in 1 .. Len(q) : pairs[i] \in S
    OBVIOUS
  <2>2. pairs = [i \in 1 .. Len(q) |-> pairs[i]]
    BY <1>1
  <2> HIDE DEF S
  <2>3. pairs \in Seq(S)
    BY <1>1, <2>1, <2>2, PartsAreSeq
  <2>4. QED
    BY <1>1, <2>3, LenProperties
<1> HIDE DEF S
<1>3. /\ part \in Seq(S) /\ Len(part) = n - m
      /\ \A i \in 1 .. n - m : part[i] = pairs[m + i]
  <2>1. m \in 0 .. Len(pairs) /\ n \in 0 .. Len(pairs)
    BY <1>2
  <2>2. QED
    BY <1>2, <2>1, PartIn
<1>4. DOMAIN part = 1 .. n - m
  BY <1>3, LenProperties
<1> HIDE DEF part
<1>5. \A i \in 1 .. n - m : m + i \in 1 .. Len(q) /\ part[i] = <<q[m + i], H[q[m + i]]>>
  <2> TAKE i \in 1 .. n - m
  <2>1. m + i \in 1 .. Len(q)
    BY <1>1
  <2>2. QED
    BY <1>1, <1>3, <2>1
<1>6. Upto(q, n) = Upto(q, m) \cup named
  <2>1. ASSUME NEW j \in 1 .. n PROVE q[j] \in Upto(q, m) \cup named
    <3>1. CASE j <= m
      BY <3>1 DEF Upto
    <3>2. CASE ~ (j <= m)
      <4>1. j - m \in 1 .. n - m /\ m + (j - m) = j
        BY <1>1, <3>2
      <4>2. part[j - m][1] = q[j]
        BY <1>5, <4>1
      <4>3. QED
        BY <1>4, <4>1, <4>2
    <3>3. QED
      BY <3>1, <3>2
  <2>2. ASSUME NEW i \in 1 .. n - m PROVE part[i][1] \in Upto(q, n)
    <3>1. m + i \in 1 .. n
      BY <1>1
    <3>2. QED
      BY <1>5, <3>1 DEF Upto
  <2>3. \A j \in 1 .. m : j \in 1 .. n
    BY <1>1
  <2>4. Upto(q, m) \subseteq Upto(q, n)
    BY <2>3 DEF Upto
  <2>5. Upto(q, n) \subseteq Upto(q, m) \cup named
    BY <2>1 DEF Upto
  <2>6. named \subseteq Upto(q, n)
    BY <1>4, <2>2
  <2>7. QED
    BY <2>4, <2>5, <2>6
<1>7. ASSUME NEW f \in named PROVE part[Max(At(f))][2] = H[f]
  <2>1. At(f) \subseteq 1 .. n - m /\ At(f) # {} /\ n - m \in Nat
    BY <1>1, <1>4
  <2>2. Max(At(f)) \in At(f)
    <3> HIDE DEF At
    <3>1. QED
      BY <2>1, GreatestPosition
  <2>3. QED
    BY <1>4, <1>5, <2>2
<1>8. DOMAIN had = Upto(q, m) /\ \A f \in Upto(q, m) : had[f] = H[f]
  BY DEF Restrict
<1> DEFINE g == [f \in DOMAIN had \cup named |-> IF f \in named THEN part[Max(At(f))][2] ELSE had[f]]
<1>9. Overlaid(had, part) = g
  BY Zenon DEF Overlaid
<1> HIDE DEF had, At, named
<1>10. DOMAIN g = Upto(q, n) /\ \A f \in Upto(q, n) : g[f] = H[f]
  BY <1>6, <1>7, <1>8
<1>11. g = Restrict(H, Upto(q, n))
  BY <1>10 DEF Restrict
<1>12. QED
  BY <1>9, <1>11 DEF had, part

\* A hash, chunk by chunk.
LEMMA HashLeads ==
  ASSUME Sound(snap), NEW k \in DOMAIN snap.hashes, DOMAIN snap.hashes[k] # {},
         NEW K, k \notin K, NEW d, NEW l,
         NEW fields \in Orders(DOMAIN snap.hashes[k])
  PROVE  Leads(Partial(d, l, Restrict(snap.hashes, K)), HSetCommands(k, fields),
               Partial(d, l, Restrict(snap.hashes, K \cup {k})))
<1> DEFINE H == snap.hashes[k]
           p == Restrict(snap.hashes, K)
           pairs == [i \in DOMAIN fields |-> <<fields[i], H[fields[i]]>>]
           n == Len(Chunks(pairs))
<1>1. /\ H \in [DOMAIN H -> Values] /\ DOMAIN H \subseteq Fields /\ DOMAIN H # {}
      /\ fields \in Seq(DOMAIN H)
      /\ \A x \in DOMAIN H : \E i \in 1 .. Len(fields) : fields[i] = x
  <2>1. H \in [DOMAIN H -> Values] /\ DOMAIN H \subseteq Fields /\ DOMAIN H # {}
    BY StoreParts DEF MapOver, Hashes
  <2>2. QED
    BY <2>1, OrderOfKeys, PersistenceAssumption
<1>2. /\ Len(fields) \in Nat /\ DOMAIN fields = 1 .. Len(fields)
      /\ \A i \in 1 .. Len(fields) : fields[i] \in DOMAIN H
  BY <1>1, LenProperties, ElementOfSeq
<1>3. pairs \in Seq((DOMAIN H) \X Values) /\ Len(pairs) = Len(fields)
  BY <1>1, PairsOf
<1>4. PICK e : Cuts(e, pairs)
  BY <1>3, ChunksCut
<1>5. /\ n \in Nat /\ DOMAIN Chunks(pairs) = 1 .. n /\ e[0] = 0 /\ e[n] = Len(fields)
      /\ \A i \in 0 .. n : e[i] \in 0 .. Len(fields)
      /\ \A i \in 1 .. n : e[i - 1] < e[i] /\ Chunks(pairs)[i] = SubSeq(pairs, e[i - 1] + 1, e[i])
  BY <1>3, <1>4 DEF Cuts
<1>6. pairs = [i \in DOMAIN fields |-> <<fields[i], H[fields[i]]>>]
  OBVIOUS
<1> DEFINE h(i) == IF i = 0 THEN p ELSE Put(p, k, Restrict(H, Upto(fields, e[i])))
           st == [i \in 0 .. n |-> Partial(d, l, h(i))]
           cs == [i \in 1 .. n |-> [op |-> "HSET", key |-> k, pairs |-> Chunks(pairs)[i]]]
           f == [i \in DOMAIN Chunks(pairs) |->
                   <<[op |-> "HSET", key |-> k, pairs |-> Chunks(pairs)[i]]>>]
<1> HIDE DEF n, p, H, pairs
<1>7. ASSUME NEW i \in 1 .. n
      PROVE  f[i] = <<cs[i]>> /\ After(st[i - 1], cs[i]) = st[i]
  <2> DEFINE had == Restrict(H, Upto(fields, e[i - 1]))
             part == Chunks(pairs)[i]
             has == Restrict(H, Upto(fields, e[i]))
  <2>1. f[i] = <<cs[i]>>
    BY <1>5
  <2>2. i \in 0 .. n /\ i - 1 \in 0 .. n /\ i # 0
    BY <1>5
  <2>3. st[i - 1] = Partial(d, l, h(i - 1)) /\ st[i] = Partial(d, l, h(i))
    BY <2>2
  <2>4. cs[i] = [op |-> "HSET", key |-> k, pairs |-> part]
    OBVIOUS
  <2> HIDE DEF st, cs, f
  <2>5. After(st[i - 1], cs[i]) = HSetOp(st[i - 1], k, part)
    BY <2>4 DEF After
  <2>6. Overlaid(had, part) = has
    <3>1. e[i - 1] \in 0 .. Len(fields) /\ e[i] \in 0 .. Len(fields) /\ e[i - 1] < e[i]
      BY <1>5, <2>2
    <3>2. Overlaid(had, SubSeq(pairs, e[i - 1] + 1, e[i])) = has
      BY <1>1, <1>6, <3>1, ChunkOverlaid
    <3>3. QED
      BY <1>5, <3>2
  <2>7. (IF k \in DOMAIN h(i - 1) THEN h(i - 1)[k] ELSE <<>>) = had
    <3>1. CASE i = 1
      <4>1. Upto(fields, e[i - 1]) = {}
        BY <1>5, <3>1 DEF Upto
      <4>2. had = <<>>
        BY <4>1, PartEmpty
      <4>3. k \notin DOMAIN p
        BY PartGrows DEF p
      <4>4. h(i - 1) = p
        BY <3>1
      <4>5. QED
        BY <4>2, <4>3, <4>4
    <3>2. CASE i # 1
      <4>1. h(i - 1) = Put(p, k, had)
        BY <2>2, <3>2
      <4> HIDE DEF h, had
      <4>2. QED
        BY <4>1, PutThere
    <3>3. QED
      BY <3>1, <3>2
  <2>8. Put(h(i - 1), k, has) = h(i)
    <3>1. h(i) = Put(p, k, has)
      BY <2>2
    <3>2. h(i - 1) = p \/ h(i - 1) = Put(p, k, had)
      OBVIOUS
    <3> HIDE DEF h, has, had
    <3>3. Put(Put(p, k, had), k, has) = Put(p, k, has)
      BY DEF Put
    <3>4. QED
      BY <3>1, <3>2, <3>3
  <2> HIDE DEF h, has, had, part
  <2>9. HSetOp(st[i - 1], k, part) = st[i]
    <3>1. HSetOp(Partial(d, l, h(i - 1)), k, part) =
            Partial(d, l,
                    Put(h(i - 1), k,
                        Overlaid(IF k \in DOMAIN h(i - 1) THEN h(i - 1)[k] ELSE <<>>, part)))
      BY HSetPartial
    <3>2. QED
      BY <2>3, <2>6, <2>7, <2>8, <3>1
  <2>10. QED
    BY <2>1, <2>5, <2>9
<1>8. DOMAIN f = 1 .. n /\ f = [i \in 1 .. n |-> f[i]]
  BY <1>5
<1>9. st[0] = Partial(d, l, p)
  BY <1>5
<1>10. st[n] = Partial(d, l, Restrict(snap.hashes, K \cup {k}))
  <2>1. Len(fields) # 0
    BY <1>1, <1>2
  <2>2. n # 0 /\ n \in 0 .. n
    BY <1>5, <2>1
  <2>3. Upto(fields, e[n]) = DOMAIN H
    BY <1>1, <1>2, <1>5 DEF Upto
  <2>4. Restrict(H, DOMAIN H) = H
    BY <1>1 DEF Restrict
  <2>5. h(n) = Put(p, k, H)
    BY <2>2, <2>3, <2>4
  <2>6. Put(p, k, H) = Restrict(snap.hashes, K \cup {k})
    BY PartGrows DEF p, H
  <2>7. QED
    BY <2>2, <2>5, <2>6
<1> HIDE DEF f, st, cs
<1>11. Leads(st[0], FlattenSeq(f), st[n])
  BY <1>5, <1>7, <1>8, LeadsSingly
<1>12. HSetCommands(k, fields) = FlattenSeq(f)
  BY Zenon DEF HSetCommands, ForEach, f, H, pairs
<1>13. QED
  BY <1>9, <1>10, <1>11, <1>12 DEF p

\* A log for each key of a map, in some order, adds one key after the other.
LEMMA LeadsThrough ==
  ASSUME NEW S, NEW T, IsFiniteSet(T), NEW q \in Orders(T),
         NEW f, f = [i \in DOMAIN q |-> f[i]], NEW st,
         \A i \in 1 .. Len(q) :
           /\ f[i] \in Seq(S)
           /\ q[i] \in T /\ q[i] \notin Upto(q, i - 1)
             => Leads(st[Upto(q, i - 1)], f[i], st[Upto(q, i - 1) \cup {q[i]}])
  PROVE  Leads(st[{}], FlattenSeq(f), st[T])
<1> DEFINE n == Len(q)
           u == [i \in 0 .. n |-> st[Upto(q, i)]]
<1>1. /\ q \in Seq(T)
      /\ \A i, j \in 1 .. n : q[i] = q[j] => i = j
      /\ \A x \in T : \E i \in 1 .. n : q[i] = x
  BY OrderOfKeys
<1>2. n \in Nat /\ DOMAIN q = 1 .. n /\ \A i \in 1 .. n : q[i] \in T
  BY <1>1, LenProperties, ElementOfSeq
<1> HIDE DEF n
<1>3. f \in Seq(Seq(S)) /\ Len(f) = n
  <2>1. f = [i \in 1 .. n |-> f[i]] /\ DOMAIN f = 1 .. n
    BY <1>2
  <2>2. f \in Seq(Seq(S))
    BY <1>2, <2>1, PartsAreSeq DEF n
  <2>3. Len(f) \in Nat /\ DOMAIN f = 1 .. Len(f)
    BY <2>2, LenProperties
  <2>4. QED
    BY <1>2, <2>1, <2>2, <2>3
<1>4. ASSUME NEW i \in 1 .. n
      PROVE  Leads(u[i - 1], f[i], u[i])
  <2>1. i - 1 \in 0 .. n /\ i \in 0 .. n
    BY <1>2
  <2>2. Upto(q, i) = Upto(q, i - 1) \cup {q[i]}
    BY <1>2, UptoFacts
  <2>3. q[i] \notin Upto(q, i - 1)
    <3>1. \A j \in 1 .. i - 1 : j \in 1 .. n /\ j # i
      BY <1>2
    <3>2. QED
      BY <1>1, <3>1 DEF Upto
  <2>4. u[i - 1] = st[Upto(q, i - 1)] /\ u[i] = st[Upto(q, i - 1) \cup {q[i]}]
    BY <2>1, <2>2
  <2>5. QED
    BY <1>2, <2>3, <2>4 DEF n
<1>5. u[0] = st[{}] /\ u[n] = st[T]
  <2>1. Upto(q, 0) = {}
    BY <1>2, UptoFacts
  <2>2. Upto(q, n) = T
    BY <1>1, <1>2 DEF Upto
  <2>3. QED
    BY <1>2, <2>1, <2>2
<1> HIDE DEF u
<1>6. Leads(u[0], FlattenSeq(f), u[Len(f)])
  BY <1>3, <1>4, LeadsEach
<1>7. QED
  BY <1>3, <1>5, <1>6

\* The whole of a map.
LEMMA WholeMap ==
  ASSUME NEW f, f = [k \in DOMAIN f |-> f[k]]
  PROVE  Restrict(f, DOMAIN f) = f
BY DEF Restrict

\* The lists, in any order.
LEMMA ListsLead ==
  ASSUME Sound(snap), \A k \in DOMAIN snap.lists : snap.lists[k] # <<>>,
         NEW q \in Orders(DOMAIN snap.lists), NEW d, NEW h
  PROVE  Leads(Partial(d, <<>>, h), ForEach(q, PushCommands),
               Partial(d, snap.lists, h))
<1> DEFINE T == DOMAIN snap.lists
           f == [i \in DOMAIN q |-> PushCommands(q[i])]
           st == [K \in SUBSET T |-> Partial(d, Restrict(snap.lists, K), h)]
<1>1. Sound(snap) /\ T \subseteq Keys /\ snap.lists \in [T -> Seq(Values)]
  BY StoreParts DEF MapOver
<1>2. IsFiniteSet(T)
  BY <1>1, FS_Subset, PersistenceAssumption
<1>3. /\ Len(q) \in Nat /\ DOMAIN q = 1 .. Len(q)
      /\ \A i \in 1 .. Len(q) : q[i] \in T
  BY <1>1, OrderOfKeys, PersistenceAssumption, LenProperties, ElementOfSeq
<1>4. ASSUME NEW i \in 1 .. Len(q)
      PROVE  /\ f[i] \in Seq(Writes("RPUSH"))
             /\ q[i] \in T /\ q[i] \notin Upto(q, i - 1)
                  => Leads(st[Upto(q, i - 1)], f[i], st[Upto(q, i - 1) \cup {q[i]}])
  <2>1. f[i] = PushCommands(q[i])
    BY <1>3
  <2>2. f[i] \in Seq(Writes("RPUSH"))
    BY <1>1, <1>3, <2>1, ListRebuild
  <2> DEFINE K == Upto(q, i - 1)
  <2>3. K \subseteq T /\ K \cup {q[i]} \subseteq T
    <3>1. \A j \in 1 .. i - 1 : j \in 1 .. Len(q)
      BY <1>3
    <3>2. QED
      BY <1>3, <3>1 DEF Upto
  <2> HIDE DEF K
  <2>4. /\ st[K] = Partial(d, Restrict(snap.lists, K), h)
        /\ st[K \cup {q[i]}] = Partial(d, Restrict(snap.lists, K \cup {q[i]}), h)
    BY <2>3
  <2> HIDE DEF st, f
  <2>5. q[i] \notin K => Leads(st[K], f[i], st[K \cup {q[i]}])
    BY <1>3, <2>1, <2>4, ListLeads
  <2>6. QED
    BY <2>2, <2>5 DEF K
<1>5. f = [i \in DOMAIN q |-> f[i]]
  OBVIOUS
<1>6. /\ st[{}] = Partial(d, <<>>, h)
      /\ st[T] = Partial(d, snap.lists, h)
  <2>1. Restrict(snap.lists, {}) = <<>> /\ Restrict(snap.lists, T) = snap.lists
    BY <1>1, PartEmpty, WholeMap
  <2>2. {} \in SUBSET T /\ T \in SUBSET T
    OBVIOUS
  <2>3. QED
    BY <2>1, <2>2
<1> HIDE DEF f, st, T
<1>7. Leads(st[{}], FlattenSeq(f), st[T])
  BY <1>2, <1>4, <1>5, LeadsThrough DEF T
<1>8. ForEach(q, PushCommands) = FlattenSeq(f)
  BY Zenon DEF ForEach, f
<1>9. QED
  BY <1>6, <1>7, <1>8

\* The hashes, in any order, their fields in any order.
LEMMA HashesLead ==
  ASSUME Sound(snap), NoneEmpty(snap.hashes), NEW q \in Orders(DOMAIN snap.hashes), NEW d, NEW l, NEW order,
         \A k \in DOMAIN snap.hashes : order[k] \in Orders(DOMAIN snap.hashes[k])
  PROVE  Leads(Partial(d, l, <<>>), WrittenHashes(q, order), Partial(d, l, snap.hashes))
<1> DEFINE T == DOMAIN snap.hashes
           f == [i \in DOMAIN q |-> HSetCommands(q[i], order[q[i]])]
           st == [K \in SUBSET T |-> Partial(d, l, Restrict(snap.hashes, K))]
<1>1. /\ Sound(snap) /\ T \subseteq Keys
      /\ \A k \in T : DOMAIN snap.hashes[k] \subseteq Fields /\ DOMAIN snap.hashes[k] # {}
  BY StoreParts DEF Hashes, MapOver, NoneEmpty
<1>2. IsFiniteSet(T)
  BY <1>1, FS_Subset, PersistenceAssumption
<1>3. /\ Len(q) \in Nat /\ DOMAIN q = 1 .. Len(q)
      /\ \A i \in 1 .. Len(q) : q[i] \in T
  BY <1>1, OrderOfKeys, PersistenceAssumption, LenProperties, ElementOfSeq
<1>4. \A k \in T : order[k] \in Seq(DOMAIN snap.hashes[k])
  BY <1>1, OrderOfKeys, PersistenceAssumption
<1>5. ASSUME NEW i \in 1 .. Len(q)
      PROVE  /\ f[i] \in Seq(Writes("HSET"))
             /\ q[i] \in T /\ q[i] \notin Upto(q, i - 1)
                  => Leads(st[Upto(q, i - 1)], f[i], st[Upto(q, i - 1) \cup {q[i]}])
  <2>1. f[i] = HSetCommands(q[i], order[q[i]])
    BY <1>3
  <2>2. f[i] \in Seq(Writes("HSET"))
    BY <1>1, <1>3, <1>4, <2>1, HashRebuild
  <2> DEFINE K == Upto(q, i - 1)
  <2>3. K \subseteq T /\ K \cup {q[i]} \subseteq T
    <3>1. \A j \in 1 .. i - 1 : j \in 1 .. Len(q)
      BY <1>3
    <3>2. QED
      BY <1>3, <3>1 DEF Upto
  <2> HIDE DEF K
  <2>4. /\ st[K] = Partial(d, l, Restrict(snap.hashes, K))
        /\ st[K \cup {q[i]}] = Partial(d, l, Restrict(snap.hashes, K \cup {q[i]}))
    BY <2>3
  <2> HIDE DEF st, f
  <2>5. q[i] \notin K => Leads(st[K], f[i], st[K \cup {q[i]}])
    BY <1>1, <1>3, <2>1, <2>4, HashLeads
  <2>6. QED
    BY <2>2, <2>5 DEF K
<1>6. f = [i \in DOMAIN q |-> f[i]]
  OBVIOUS
<1>7. /\ st[{}] = Partial(d, l, <<>>)
      /\ st[T] = Partial(d, l, snap.hashes)
  <2>1. snap.hashes = [k \in T |-> snap.hashes[k]]
    BY DEF NoneEmpty
  <2>2. Restrict(snap.hashes, {}) = <<>> /\ Restrict(snap.hashes, T) = snap.hashes
    BY <2>1, PartEmpty, WholeMap
  <2>3. {} \in SUBSET T /\ T \in SUBSET T
    OBVIOUS
  <2>4. QED
    BY <2>2, <2>3
<1> HIDE DEF f, st, T
<1>8. Leads(st[{}], FlattenSeq(f), st[T])
  BY <1>2, <1>5, <1>6, LeadsThrough DEF T
<1>9. WrittenHashes(q, order) = FlattenSeq(f)
  BY Zenon DEF WrittenHashes, ForEach, f
<1>10. QED
  BY <1>7, <1>8, <1>9

\* Replaying a rewritten snapshot gives the snapshot.
LEMMA SnapshotLeads ==
  ASSUME Lasting(snap), now \in Nat, NEW base \in SnapshotLogs
  PROVE  base \in Seq(Plain) /\ Leads(Empty, base, snap)
<1>1. PICK strings \in Orders(Kept), lists \in Orders(DOMAIN snap.lists),
           hashes \in Orders(DOMAIN snap.hashes), order \in FieldOrders :
        /\ \A k \in DOMAIN snap.hashes : order[k] \in Orders(DOMAIN snap.hashes[k])
        /\ base = (ForEach(strings, SetCommand) \o ForEach(lists, PushCommands))
                    \o WrittenHashes(hashes, order)
  BY SnapshotParts
<1> DEFINE p == ForEach(strings, SetCommand)
           q == ForEach(lists, PushCommands)
           r == WrittenHashes(hashes, order)
<1>2. Sound(snap) /\ Kept = DOMAIN snap.data
  BY DEF Lasting, Kept
<1>3. p \in Seq(Rebuilds) /\ q \in Seq(Rebuilds) /\ r \in Seq(Rebuilds)
  <2>1. strings \in Seq(Kept)
    BY <1>2, StoreParts, OrderOfKeys, PersistenceAssumption DEF MapOver
  <2>2. p \in Seq(Writes("SET"))
    BY <1>2, <2>1, StringsRebuild
  <2>3. q \in Seq(Writes("RPUSH")) /\ r \in Seq(Writes("HSET"))
    BY <1>1, <1>2, ListsRebuild, HashesRebuild
  <2> HIDE DEF p, q, r
  <2>4. QED
    BY <2>2, <2>3, WritesRebuild
<1>4. /\ Leads(Empty, p, Partial(snap.data, <<>>, <<>>))
      /\ Leads(Partial(snap.data, <<>>, <<>>), q, Partial(snap.data, snap.lists, <<>>))
      /\ Leads(Partial(snap.data, snap.lists, <<>>), r,
               Partial(snap.data, snap.lists, snap.hashes))
  <2>1. (\A k \in DOMAIN snap.lists : snap.lists[k] # <<>>) /\ NoneEmpty(snap.hashes)
    BY DEF Lasting
  <2>2. QED
    BY <1>1, <1>2, <2>1, StringsLead, ListsLead, HashesLead
<1> HIDE DEF p, q, r
<1>5. p \o q \in Seq(Rebuilds) /\ Leads(Empty, p \o q, Partial(snap.data, snap.lists, <<>>))
  BY <1>3, <1>4, ConcatProperties, LeadsConcat
<1>6. /\ (p \o q) \o r \in Seq(Rebuilds)
      /\ Leads(Empty, (p \o q) \o r, Partial(snap.data, snap.lists, snap.hashes))
  <2> DEFINE o == p \o q
  <2>1. o \in Seq(Rebuilds) /\ Leads(Empty, o, Partial(snap.data, snap.lists, <<>>))
    BY <1>5
  <2> HIDE DEF o
  <2>2. /\ o \o r \in Seq(Rebuilds)
        /\ Leads(Empty, o \o r, Partial(snap.data, snap.lists, snap.hashes))
    BY <1>3, <1>4, <2>1, ConcatProperties, LeadsConcat
  <2>3. QED
    BY <2>2 DEF o
<1>7. Rebuilds \subseteq Plain
  <2> SUFFICES ASSUME NEW c \in Rebuilds PROVE c \in Plain
    OBVIOUS
  <2>1. c \in Commands /\ c.op # "EXPIRE"
    BY DEF Rebuilds
  <2>2. c.op = "SET" => c.ttl = 0
    <3> SUFFICES ASSUME c.op = "SET" PROVE c.ttl = 0
      OBVIOUS
    <3>1. c.key \in DOMAIN snap.data /\ (c.ttl = 0 \/ snap.data[c.key].exp # 0)
      BY DEF Rebuilds, Makes
    <3>2. QED
      BY <3>1 DEF Lasting
  <2>3. QED
    BY <2>1, <2>2 DEF Plain
<1>8. Partial(snap.data, snap.lists, snap.hashes) = snap
  <2>1. snap = [data |-> snap.data, lists |-> snap.lists, hashes |-> snap.hashes,
                expiryKeys |-> snap.expiryKeys]
    BY <1>2 DEF Sound, IsStore
  <2>2. snap.expiryKeys = {}
    BY <1>2, StoreParts DEF Lasting
  <2>3. QED
    BY <2>1, <2>2 DEF Partial
<1>9. base = (p \o q) \o r
  BY <1>1 DEF p, q, r
<1>10. QED
  BY <1>6, <1>7, <1>8, <1>9

-----------------------------------------------------------------------------
(***************************************************************************)
(* Without TTLs and without a ceiling the file always leads to the store   *)
(* that clients see, and a rewrite's mirrored commands lead there from its *)
(* snapshot.  A replay walks the stores that the file goes through.        *)
(***************************************************************************)
Unbounded == NoTTLs /\ MaxMemory = 0

PlainState ==
  /\ Lasting(s) /\ log \in Seq(Plain) /\ buf \in Seq(Plain)
  /\ snap # NoSnap => pos = 0 /\ Lasting(snap) /\ Leads(snap, buf, s)

FileLeads == pos = 0 => Leads(Empty, log, s)

ReplayLeads ==
  pos # 0 => /\ pos \in 1 .. Len(log) + 1
             /\ \E h : Replays(h, Empty, log) /\ h[pos - 1] = s /\ h[Len(log)] = before

RestartInv == Unbounded => PlainState /\ FileLeads /\ ReplayLeads

\* Clients send commands that set no TTL.
LEMMA UnboundedPlain ==
  ASSUME work \in Workloads, Unbounded, NEW c \in work.commands
  PROVE  c \in Plain
<1>1. c \in Commands
  BY PersistenceAssumption
<1>2. "ttl" \in DOMAIN c => c.op = "SET" /\ c.ttl = 0
  BY DEF Unbounded, NoTTLs
<1>3. c.op \in {"SET", "EXPIRE"} => "ttl" \in DOMAIN c
  BY <1>1 DEF Commands
<1>4. QED
  BY <1>1, <1>2, <1>3 DEF Plain

\* Whether commands set TTLs does not change.
LEMMA UnboundedStays ==
  ASSUME work' = work
  PROVE  Unbounded' <=> Unbounded
BY DEF Unbounded, NoTTLs

\* It holds when the process starts.
LEMMA RestartInit == Init => RestartInv
<1> SUFFICES ASSUME Init PROVE PlainState /\ FileLeads /\ ReplayLeads
  BY DEF RestartInv
<1>1. s = Empty /\ log = <<>> /\ buf = <<>> /\ snap = NoSnap /\ pos = 0
  BY DEF Init
<1>2. log \in Seq(Plain) /\ buf \in Seq(Plain)
  BY <1>1
<1>3. PlainState
  BY <1>1, <1>2, EmptyLasting DEF PlainState
<1>4. FileLeads /\ ReplayLeads
  BY <1>1, LeadsNothing DEF FileLeads, ReplayLeads
<1>5. QED
  BY <1>3, <1>4

\* Commands.
LEMMA ExecuteLeads ==
  ASSUME Typed, PlainState, FileLeads, Unbounded, NEW c \in work.commands, Execute(c)
  PROVE  PlainState' /\ FileLeads' /\ ReplayLeads'
<1>1. /\ pos = 0 /\ Succeeds(c) /\ s' = Effect(c) /\ log' = Append(log, c)
      /\ buf' = IF snap # NoSnap THEN Append(buf, c) ELSE buf
      /\ snap' = snap /\ pos' = pos
  BY DEF Execute, Serving
<1>2. c \in Plain /\ Lasting(s) /\ log \in Seq(Plain) /\ buf \in Seq(Plain)
  BY UnboundedPlain DEF PlainState, Typed
<1>3. s' = After(s, c)
  BY <1>1, <1>2, EffectIsAfter DEF Unbounded
<1>4. Lasting(s')
  BY <1>2, <1>3, AfterLasting
<1>5. log' \in Seq(Plain) /\ buf' \in Seq(Plain)
  BY <1>1, <1>2, AppendProperties
<1>6. Leads(Empty, log', s')
  BY <1>1, <1>2, <1>3, LeadsAppend DEF FileLeads
<1>7. snap # NoSnap => Lasting(snap) /\ Leads(snap, buf', s')
  BY <1>1, <1>2, <1>3, LeadsAppend DEF PlainState
<1>8. PlainState'
  BY <1>1, <1>4, <1>5, <1>7 DEF PlainState, NoSnap
<1>9. QED
  BY <1>1, <1>6, <1>8 DEF FileLeads, ReplayLeads

\* Nothing expires, and time does not matter.
LEMMA SweepLeads ==
  ASSUME PlainState, FileLeads, ReplayLeads, (\E k \in Keys : Sweep(k)) \/ Tick
  PROVE  PlainState' /\ FileLeads' /\ ReplayLeads'
<1>1. ~ \E k \in Keys : Sweep(k)
  BY LastingLives DEF Sweep, PlainState
<1>2. UNCHANGED <<s, log, snap, buf, pos, before>>
  BY <1>1 DEF Tick
<1>3. QED
  BY <1>2 DEF PlainState, FileLeads, ReplayLeads, NoSnap

\* A rewrite begins with the store itself.
LEMMA BeginLeads ==
  ASSUME PlainState, FileLeads, RewriteBegin
  PROVE  PlainState' /\ FileLeads' /\ ReplayLeads'
<1>1. pos = 0 /\ snap' = s /\ buf' = <<>> /\ UNCHANGED <<s, log, pos>>
  BY DEF RewriteBegin, Serving
<1>2. buf' \in Seq(Plain)
  BY <1>1
<1>3. PlainState'
  BY <1>1, <1>2, LeadsNothing DEF PlainState
<1>4. QED
  BY <1>1, <1>3 DEF FileLeads, ReplayLeads

\* It ends: the snapshot, then what was mirrored.
LEMMA EndLeads ==
  ASSUME Typed, PlainState, RewriteEnd
  PROVE  PlainState' /\ FileLeads' /\ ReplayLeads'
<1>1. /\ pos = 0 /\ snap # NoSnap /\ snap' = NoSnap /\ buf' = <<>>
      /\ UNCHANGED <<s, pos>>
  BY DEF RewriteEnd, Serving
<1>2. PICK base \in SnapshotLogs : log' = base \o buf
  BY DEF RewriteEnd
<1>3. Lasting(snap) /\ Leads(snap, buf, s) /\ buf \in Seq(Plain) /\ now \in Nat
  BY <1>1 DEF PlainState, Typed
<1>4. base \in Seq(Plain) /\ Leads(Empty, base, snap)
  BY <1>3, SnapshotLeads
<1>5. log' \in Seq(Plain) /\ Leads(Empty, log', s)
  BY <1>2, <1>3, <1>4, ConcatProperties, LeadsConcat
<1>6. buf' \in Seq(Plain)
  BY <1>1
<1>7. PlainState'
  BY <1>1, <1>5, <1>6 DEF PlainState
<1>8. QED
  BY <1>1, <1>5, <1>7 DEF FileLeads, ReplayLeads

\* The process dies: the file leads to the store there was.
LEMMA CrashLeads ==
  ASSUME Typed, PlainState, FileLeads, Crash
  PROVE  PlainState' /\ FileLeads' /\ ReplayLeads'
<1> DEFINE d == RestrictValues(s.data, TimeLeft)
           e == {k \in s.expiryKeys : TimeLeft(s.data[k])}
<1>1. /\ pos = 0 /\ s' = Empty /\ pos' = 1 /\ snap' = NoSnap /\ buf' = <<>>
      /\ log' = log
  BY Zenon DEF Crash, Serving
<1>2. before' = [s EXCEPT !.data = d, !.expiryKeys = e]
  BY Zenon DEF Crash
<1>3. Lasting(s) /\ Sound(s) /\ log \in Seq(Plain) /\ Leads(Empty, log, s)
  BY <1>1 DEF PlainState, Lasting, FileLeads
<1>4. d = s.data
  <2>1. d = Restrict(s.data, {k \in DOMAIN s.data : TimeLeft(s.data[k])})
    BY Zenon DEF RestrictValues
  <2>2. {k \in DOMAIN s.data : TimeLeft(s.data[k])} = DOMAIN s.data
    BY <1>3 DEF Lasting, TimeLeft
  <2>3. s.data = [k \in DOMAIN s.data |-> s.data[k]]
    BY <1>3, StoreParts DEF MapOver
  <2> HIDE DEF d
  <2>4. QED
    BY <2>1, <2>2, <2>3, WholeMap
<1>5. e = s.expiryKeys
  BY <1>3, StoreParts DEF Lasting, TimeLeft
<1>6. before' = s
  <2> HIDE DEF d, e
  <2>1. before' = [data |-> d, lists |-> s.lists, hashes |-> s.hashes, expiryKeys |-> e]
    BY <1>2, <1>3, AssignTwo
  <2>2. QED
    BY <1>3, <1>4, <1>5, <2>1 DEF Sound, IsStore
<1>7. PICK h : Replays(h, Empty, log) /\ h[Len(log)] = s
  BY <1>3 DEF Leads
<1>8. h[1 - 1] = Empty /\ 1 \in 1 .. Len(log) + 1
  <2>1. h[0] = Empty /\ Len(log) \in Nat
    BY <1>3, <1>7, LenProperties DEF Replays
  <2>2. QED
    BY <2>1
<1>9. ReplayLeads'
  BY <1>1, <1>6, <1>7, <1>8 DEF ReplayLeads
<1>10. buf' \in Seq(Plain)
  BY <1>1
<1>11. QED
  BY <1>1, <1>3, <1>9, <1>10, EmptyLasting DEF PlainState, FileLeads

\* A command is replayed: the next store on the way.
LEMMA ReplayOneLeads ==
  ASSUME PlainState, ReplayLeads, Unbounded, ReplayCommand
  PROVE  PlainState' /\ FileLeads' /\ ReplayLeads'
<1> DEFINE c == log[pos]
<1>1. /\ pos \in DOMAIN log /\ pos' = pos + 1
      /\ s' = IF Succeeds(c) THEN Effect(c) ELSE s
      /\ UNCHANGED <<log, snap, buf, before>>
  BY DEF ReplayCommand
<1>2. Lasting(s) /\ log \in Seq(Plain) /\ buf \in Seq(Plain)
  BY DEF PlainState
<1>3. DOMAIN log = 1 .. Len(log) /\ Len(log) \in Nat /\ c \in Plain /\ pos \in 1 .. Len(log)
  BY <1>1, <1>2, LenProperties, ElementOfSeq
<1> HIDE DEF c
<1>4. s' = After(s, c)
  BY <1>1, <1>2, <1>3, EffectIsAfter DEF Unbounded
<1>5. Lasting(s')
  BY <1>2, <1>3, <1>4, AfterLasting
<1>6. pos # 0 /\ pos' # 0 /\ pos' \in 1 .. Len(log) + 1 /\ pos' - 1 = pos
  BY <1>1, <1>3
<1>7. PICK h : Replays(h, Empty, log) /\ h[pos - 1] = s /\ h[Len(log)] = before
  BY <1>6 DEF ReplayLeads
<1>8. h[pos] = After(s, c)
  BY <1>3, <1>7 DEF Replays, c
<1>9. ReplayLeads'
  BY <1>1, <1>4, <1>6, <1>7, <1>8 DEF ReplayLeads
<1>10. PlainState'
  BY <1>1, <1>2, <1>5, <1>6 DEF PlainState, NoSnap
<1>11. QED
  BY <1>6, <1>9, <1>10 DEF FileLeads

\* The server accepts connections at the end of the way.
LEMMA ServeLeads ==
  ASSUME PlainState, ReplayLeads, Serve
  PROVE  PlainState' /\ FileLeads' /\ ReplayLeads'
<1>1. pos = Len(log) + 1 /\ pos' = 0 /\ UNCHANGED <<s, log, snap, buf>>
  BY DEF Serve, Replayed
<1>2. Len(log) \in Nat
  BY LenProperties DEF PlainState
<1>3. pos # 0 /\ pos - 1 = Len(log)
  BY <1>1, <1>2
<1>4. Leads(Empty, log, s)
  BY <1>3 DEF ReplayLeads, Leads
<1>5. QED
  BY <1>1, <1>3, <1>4 DEF PlainState, FileLeads, ReplayLeads, NoSnap

\* At all times, when no command sets a TTL and there is no ceiling.
LEMMA RestartInductive == Spec => []RestartInv
<1>1. ASSUME PersistInv, RestartInv, [Next]_vars
      PROVE  RestartInv'
  <2>1. CASE Next
    <3>1. work' = work
      BY <2>1 DEF Next
    <3>2. SUFFICES ASSUME Unbounded PROVE PlainState' /\ FileLeads' /\ ReplayLeads'
      BY <3>1, UnboundedStays DEF RestartInv
    <3>3. Typed /\ PlainState /\ FileLeads /\ ReplayLeads
      BY <1>1, <3>2 DEF RestartInv, PersistInv
    <3>4. CASE \E c \in work.commands : Execute(c)
      BY <3>2, <3>3, <3>4, ExecuteLeads
    <3>5. CASE (\E k \in Keys : Sweep(k)) \/ Tick
      BY <3>3, <3>5, SweepLeads
    <3>6. CASE RewriteBegin
      BY <3>3, <3>6, BeginLeads
    <3>7. CASE RewriteEnd
      BY <3>3, <3>7, EndLeads
    <3>8. CASE Crash
      BY <3>3, <3>8, CrashLeads
    <3>9. CASE ReplayCommand
      BY <3>2, <3>3, <3>9, ReplayOneLeads
    <3>10. CASE Serve
      BY <3>3, <3>10, ServeLeads
    <3>11. QED
      BY <2>1, <3>4, <3>5, <3>6, <3>7, <3>8, <3>9, <3>10 DEF Next
  <2>2. CASE UNCHANGED vars
    <3>1. UNCHANGED <<work, s, log, snap, buf, pos, before>>
      BY <2>2 DEF vars
    <3>2. Unbounded' <=> Unbounded
      BY <3>1, UnboundedStays
    <3>3. QED
      BY <1>1, <3>1, <3>2 DEF RestartInv, PlainState, FileLeads, ReplayLeads, NoSnap
  <2>3. QED
    BY <1>1, <2>1, <2>2
<1>2. QED
  BY <1>1, RestartInit, PersistInductive, PTL DEF Spec

\* After a restart a client sees what it saw before the process died, to the last list
\* element, when no command set a TTL and no ceiling refuses one: the file leads to the
\* store at all times, whatever was logged, mirrored and rewritten (store/aof.go
\* Rewrite, writeSnapshot, Replay).
THEOREM RestartIsExact == Spec => []RestartRebuilds
<1>1. ASSUME RestartInv
      PROVE  RestartRebuilds
  <2> SUFFICES ASSUME pos = Len(log) + 1, Unbounded PROVE s = before
    BY DEF RestartRebuilds, Replayed, Unbounded
  <2>1. Len(log) \in Nat /\ ReplayLeads
    BY <1>1, LenProperties DEF RestartInv, PlainState
  <2>2. pos # 0 /\ pos - 1 = Len(log)
    BY <2>1
  <2>3. QED
    BY <2>1, <2>2 DEF ReplayLeads
<1>2. QED
  BY <1>1, RestartInductive, PTL

-----------------------------------------------------------------------------
(***************************************************************************)
(* Lists and hashes have no deadlines and do not look at strings.  Without *)
(* the strings, and with the commands on strings reduced to ones that do   *)
(* nothing, a replay is one without deadlines, whatever TTLs, EXPIREs and  *)
(* counters there are.                                                     *)
(***************************************************************************)

\* The lists and hashes of a store.
Bare(st) == Partial(<<>>, st.lists, st.hashes)

\* What a command means to them.
Neutral(c) == IF c.op \in {"SET", "EXPIRE", "INCRBY"} THEN [op |-> "DEL", keys |-> {}] ELSE c

Apart(q) == [i \in DOMAIN q |-> Neutral(q[i])]

\* It sets no TTL.
LEMMA NeutralPlain ==
  ASSUME NEW c \in Commands
  PROVE  Neutral(c) \in Plain
<1>1. [op |-> "DEL", keys |-> {}] \in Commands
  BY DEF Commands
<1>2. QED
  BY <1>1 DEF Neutral, Plain

\* Logs are reduced command by command.
LEMMA ApartSeq ==
  ASSUME NEW q \in Seq(Commands)
  PROVE  /\ Apart(q) \in Seq(Plain) /\ Len(Apart(q)) = Len(q)
         /\ \A i \in 1 .. Len(q) : Apart(q)[i] = Neutral(q[i])
<1>1. DOMAIN q = 1 .. Len(q) /\ Len(q) \in Nat /\ \A i \in 1 .. Len(q) : q[i] \in Commands
  BY LenProperties, ElementOfSeq
<1>2. /\ DOMAIN Apart(q) = 1 .. Len(q) /\ Apart(q) = [i \in 1 .. Len(q) |-> Apart(q)[i]]
      /\ \A i \in 1 .. Len(q) : Apart(q)[i] = Neutral(q[i])
  BY <1>1 DEF Apart
<1>3. \A i \in 1 .. Len(q) : Apart(q)[i] \in Plain
  BY <1>1, <1>2, NeutralPlain
<1>4. Apart(q) \in Seq(Plain)
  BY <1>1, <1>2, <1>3, PartsAreSeq
<1>5. Len(Apart(q)) = Len(q)
  <2>1. Len(Apart(q)) \in Nat /\ DOMAIN Apart(q) = 1 .. Len(Apart(q))
    BY <1>4, LenProperties
  <2>2. QED
    BY <1>1, <1>2, <2>1
<1>6. QED
  BY <1>2, <1>4, <1>5

\* One more command.
LEMMA ApartAppend ==
  ASSUME NEW q \in Seq(Commands), NEW c \in Commands
  PROVE  Apart(Append(q, c)) = Append(Apart(q), Neutral(c))
<1>1. /\ Append(q, c) \in Seq(Commands) /\ Len(Append(q, c)) = Len(q) + 1 /\ Len(q) \in Nat
      /\ \A i \in 1 .. Len(q) : Append(q, c)[i] = q[i]
      /\ Append(q, c)[Len(q) + 1] = c
  BY AppendProperties, LenProperties
<1>2. /\ Apart(q) \in Seq(Plain) /\ Len(Apart(q)) = Len(q) /\ Neutral(c) \in Plain
      /\ \A i \in 1 .. Len(q) : Apart(q)[i] = Neutral(q[i])
  BY ApartSeq, NeutralPlain
<1>3. /\ Apart(Append(q, c)) \in Seq(Plain) /\ Len(Apart(Append(q, c))) = Len(q) + 1
      /\ \A i \in 1 .. Len(q) + 1 : Apart(Append(q, c))[i] = Neutral(Append(q, c)[i])
  BY <1>1, ApartSeq
<1>4. /\ Append(Apart(q), Neutral(c)) \in Seq(Plain)
      /\ Len(Append(Apart(q), Neutral(c))) = Len(q) + 1
      /\ \A i \in 1 .. Len(q) : Append(Apart(q), Neutral(c))[i] = Neutral(q[i])
      /\ Append(Apart(q), Neutral(c))[Len(q) + 1] = Neutral(c)
  BY <1>2, AppendProperties
<1> DEFINE x == Apart(Append(q, c))  y == Append(Apart(q), Neutral(c))
<1>5. \A i \in 1 .. Len(q) + 1 : x[i] = y[i]
  <2>1. \A i \in 1 .. Len(q) + 1 : i \in 1 .. Len(q) \/ i = Len(q) + 1
    BY <1>1
  <2> SUFFICES ASSUME NEW i \in 1 .. Len(q) + 1 PROVE x[i] = y[i]
    OBVIOUS
  <2>2. CASE i \in 1 .. Len(q)
    BY <1>1, <1>3, <1>4, <2>2
  <2>3. CASE i = Len(q) + 1
    BY <1>1, <1>3, <1>4, <2>3
  <2>4. QED
    BY <2>1, <2>2, <2>3
<1> HIDE DEF x, y
<1>6. x \in Seq(Plain) /\ y \in Seq(Plain) /\ Len(x) = Len(q) + 1 /\ Len(y) = Len(q) + 1
  BY <1>3, <1>4 DEF x, y
<1>7. x = y
  BY <1>5, <1>6, SeqEqual
<1>8. QED
  BY <1>7 DEF x, y

\* One log after another.
LEMMA ApartConcat ==
  ASSUME NEW p \in Seq(Commands), NEW q \in Seq(Commands)
  PROVE  Apart(p \o q) = Apart(p) \o Apart(q)
<1> DEFINE m == Len(p)  n == Len(q)
<1>1. /\ p \o q \in Seq(Commands) /\ Len(p \o q) = m + n /\ m \in Nat /\ n \in Nat
      /\ \A i \in 1 .. m : (p \o q)[i] = p[i]
      /\ \A i \in m + 1 .. m + n : (p \o q)[i] = q[i - m]
  BY ConcatProperties, LenProperties
<1>2. /\ Apart(p) \in Seq(Plain) /\ Len(Apart(p)) = m /\ Apart(q) \in Seq(Plain) /\ Len(Apart(q)) = n
      /\ \A i \in 1 .. m : Apart(p)[i] = Neutral(p[i])
      /\ \A i \in 1 .. n : Apart(q)[i] = Neutral(q[i])
  BY ApartSeq
<1> DEFINE x == Apart(p \o q)  a == Apart(p)  b == Apart(q)
<1>3. /\ x \in Seq(Plain) /\ Len(x) = m + n
      /\ \A i \in 1 .. m + n : x[i] = Neutral((p \o q)[i])
  BY <1>1, ApartSeq
<1> HIDE DEF x, a, b, m, n
<1>4. /\ a \o b \in Seq(Plain) /\ Len(a \o b) = m + n
      /\ \A i \in 1 .. m : (a \o b)[i] = a[i]
      /\ \A i \in m + 1 .. m + n : (a \o b)[i] = b[i - m]
  <2>1. a \in Seq(Plain) /\ Len(a) = m /\ b \in Seq(Plain) /\ Len(b) = n
    BY <1>2 DEF a, b
  <2>2. m \in Nat /\ n \in Nat
    BY <1>1
  <2>3. /\ a \o b \in Seq(Plain) /\ Len(a \o b) = m + n
        /\ \A i \in 1 .. m + n : (a \o b)[i] = IF i <= m THEN a[i] ELSE b[i - m]
    <3>1. /\ a \o b \in Seq(Plain) /\ Len(a \o b) = Len(a) + Len(b)
          /\ \A i \in 1 .. Len(a) + Len(b) :
               (a \o b)[i] = IF i <= Len(a) THEN a[i] ELSE b[i - Len(a)]
      BY <2>1, ConcatProperties, Zenon
    <3>2. QED
      BY <2>1, <3>1
  <2> DEFINE y == a \o b
  <2>4. /\ y \in Seq(Plain) /\ Len(y) = m + n
        /\ \A i \in 1 .. m + n : y[i] = IF i <= m THEN a[i] ELSE b[i - m]
    BY <2>3
  <2> HIDE DEF y
  <2>5. /\ \A i \in 1 .. m : y[i] = a[i]
        /\ \A i \in m + 1 .. m + n : y[i] = b[i - m]
    BY <2>2, <2>4
  <2>6. QED
    BY <2>3, <2>5 DEF y
<1> DEFINE y == a \o b
<1>a. /\ \A i \in 1 .. m : a[i] = Neutral(p[i])
      /\ \A i \in 1 .. n : b[i] = Neutral(q[i])
  BY <1>2 DEF a, b
<1>b. /\ y \in Seq(Plain) /\ Len(y) = m + n
      /\ \A i \in 1 .. m : y[i] = a[i]
      /\ \A i \in m + 1 .. m + n : y[i] = b[i - m]
  BY <1>4
<1> HIDE DEF y
<1>5. \A i \in 1 .. m + n : x[i] = y[i]
  <2> SUFFICES ASSUME NEW i \in 1 .. m + n PROVE x[i] = y[i]
    OBVIOUS
  <2>1. CASE i \in 1 .. m
    BY <1>1, <1>3, <1>a, <1>b, <2>1
  <2>2. CASE i \in m + 1 .. m + n
    <3>1. i - m \in 1 .. n
      BY <1>1, <2>2
    <3>2. QED
      BY <1>1, <1>3, <1>a, <1>b, <2>2, <3>1
  <2>3. QED
    BY <1>1, <2>1, <2>2
<1>6. x = y
  BY <1>3, <1>b, <1>5, SeqEqual
<1>7. QED
  BY <1>6 DEF x, y, a, b

\* Commands on lists and hashes mean what they say.
LEMMA ApartSame ==
  ASSUME NEW op \in {"RPUSH", "HSET"}, NEW q \in Seq(Writes(op))
  PROVE  Apart(q) = q
<1>1. q = [i \in DOMAIN q |-> q[i]] /\ \A i \in DOMAIN q : q[i] \in Writes(op)
  BY LenProperties, ElementOfSeq
<1>2. \A i \in DOMAIN q : Neutral(q[i]) = q[i]
  BY <1>1 DEF Neutral, Writes
<1>3. QED
  BY <1>1, <1>2 DEF Apart

\* Commands on strings leave nothing.
LEMMA ApartIdle ==
  ASSUME NEW q \in Seq(Writes("SET"))
  PROVE  Leads(Empty, Apart(q), Empty)
<1>1. DOMAIN q = 1 .. Len(q) /\ Len(q) \in Nat /\ \A i \in 1 .. Len(q) : q[i] \in Writes("SET")
  BY LenProperties, ElementOfSeq
<1>2. q \in Seq(Commands)
  <2>1. \A i \in 1 .. Len(q) : q[i] \in Commands
    BY <1>1 DEF Writes, Rebuilds
  <2>2. q = [i \in 1 .. Len(q) |-> q[i]]
    BY LenProperties
  <2>3. QED
    BY <1>1, <2>1, <2>2, PartsAreSeq
<1>3. \A i \in 1 .. Len(q) : Apart(q)[i] = [op |-> "DEL", keys |-> {}]
  BY <1>1, <1>2, ApartSeq DEF Neutral, Writes
<1>4. After(Empty, [op |-> "DEL", keys |-> {}]) = Empty
  <2>1. DelOp(Empty, {}) = Empty
    BY EmptyMap, PartEmpty DEF DelOp, Empty, Drop
  <2>2. After(Empty, [op |-> "DEL", keys |-> {}]) = DelOp(Empty, {})
    BY DEF After
  <2>3. QED
    BY <2>1, <2>2
<1> DEFINE h == [i \in 0 .. Len(q) |-> Empty]
<1>5. Len(Apart(q)) = Len(q)
  BY <1>2, ApartSeq
<1>6. Replays(h, Empty, Apart(q))
  <2>1. h = [i \in 0 .. Len(q) |-> h[i]] /\ h[0] = Empty
    BY <1>1
  <2>2. \A i \in 1 .. Len(q) : h[i] = Empty /\ h[i - 1] = Empty
    BY <1>1
  <2> HIDE DEF h
  <2>3. QED
    BY <1>3, <1>4, <1>5, <2>1, <2>2 DEF Replays
<1>7. h[Len(q)] = Empty
  BY <1>1
<1> HIDE DEF h
<1>8. QED
  BY <1>5, <1>6, <1>7 DEF Leads

\* The empty store has no lists and no hashes.
LEMMA BareEmpty == Bare(Empty) = Empty
BY DEF Bare, Partial, Empty

\* Operations on strings leave lists and hashes alone.
LEMMA SetParts ==
  ASSUME NEW st, Sound(st), NEW k, NEW v, NEW x
  PROVE  SetOp(st, k, v, x).lists = st.lists /\ SetOp(st, k, v, x).hashes = st.hashes
<1> DEFINE d == Put(st.data, k, [val |-> v, exp |-> x])
           e == IF x = 0 THEN st.expiryKeys \ {k} ELSE st.expiryKeys \cup {k}
<1>1. SetOp(st, k, v, x) = [st EXCEPT !.data = d, !.expiryKeys = e]
  BY DEF SetOp
<1> HIDE DEF d, e
<1>2. SetOp(st, k, v, x) = [data |-> d, lists |-> st.lists, hashes |-> st.hashes,
                            expiryKeys |-> e]
  BY <1>1, AssignTwo, Zenon
<1>3. QED
  BY <1>2 DEF d

LEMMA ExpireParts ==
  ASSUME NEW st, Sound(st), NEW k, NEW x
  PROVE  ExpireOp(st, k, x).lists = st.lists /\ ExpireOp(st, k, x).hashes = st.hashes
<1> DEFINE d == [st.data EXCEPT ![k].exp = x]
           e == st.expiryKeys \cup {k}
<1>1. ExpireOp(st, k, x) = [st EXCEPT !.data = d, !.expiryKeys = e]
  BY Zenon DEF ExpireOp
<1> HIDE DEF d, e
<1>2. ExpireOp(st, k, x) = [data |-> d, lists |-> st.lists, hashes |-> st.hashes,
                            expiryKeys |-> e]
  BY <1>1, AssignTwo, Zenon
<1>3. QED
  BY <1>2

LEMMA IncrByParts ==
  ASSUME NEW st, Sound(st), NEW k, NEW delta, NEW t
  PROVE  IncrByOp(st, k, delta, t).lists = st.lists /\ IncrByOp(st, k, delta, t).hashes = st.hashes
<1> DEFINE exp == IF k \in DOMAIN st.data THEN st.data[k].exp ELSE 0
           d == Put(st.data, k, [val |-> Counted(st, k, delta, t), exp |-> exp])
<1>1. IncrByOp(st, k, delta, t) = [st EXCEPT !.data = d]
  BY Zenon DEF IncrByOp
<1> HIDE DEF d
<1>2. QED
  BY <1>1, AssignOne

\* Executing or replaying a command comes to its reduced form for them.
LEMMA BareEffect ==
  ASSUME NEW c \in Commands, Sound(s), Lasting(Bare(s)), MaxMemory = 0
  PROVE  Bare(IF Succeeds(c) THEN Effect(c) ELSE s) = After(Bare(s), Neutral(c))
<1>1. c.op \in {"SET", "EXPIRE", "INCRBY", "LPUSH", "RPUSH", "HSET", "HDEL", "DEL", "FLUSHALL"}
  BY CommandParts
<1>2. \A x : Fits(s, x, MaxMemory)
  BY DEF Fits
<1>3. PICK a, b, d, f : s = [data |-> a, lists |-> b, hashes |-> d, expiryKeys |-> f]
  BY DEF Sound, IsStore
<1>4. Bare(s) = [data |-> <<>>, lists |-> s.lists, hashes |-> s.hashes, expiryKeys |-> {}]
  BY DEF Bare, Partial
<1>5. CASE c.op \in {"SET", "EXPIRE", "INCRBY"}
  <2>1. After(Bare(s), Neutral(c)) = DelOp(Bare(s), {})
    BY <1>5 DEF After, Neutral
  <2>2. DelOp(Bare(s), {}) = Bare(s)
    <3>1. Drop(s.lists, {}) = s.lists /\ Drop(s.hashes, {}) = s.hashes /\ Drop(<<>>, {}) = <<>>
      <4>1. /\ s.lists = [k \in DOMAIN s.lists |-> s.lists[k]]
            /\ s.hashes = [k \in DOMAIN s.hashes |-> s.hashes[k]]
        BY <1>4, StoreParts DEF MapOver, Lasting, NoneEmpty
      <4>2. QED
        BY <4>1, EmptyMap, PartEmpty, WholeMap DEF Drop
    <3>2. QED
      <4>1. {} \ ({} \cap DOMAIN <<>>) = {}
        OBVIOUS
      <4>2. /\ Bare(s).data = <<>> /\ Bare(s).lists = s.lists /\ Bare(s).hashes = s.hashes
            /\ Bare(s).expiryKeys = {}
        BY <1>4
      <4>3. DelOp(Bare(s), {}) = [data |-> <<>>, lists |-> s.lists, hashes |-> s.hashes,
                                  expiryKeys |-> {} \ ({} \cap DOMAIN <<>>)]
        BY <3>1, <4>2, Zenon DEF DelOp
      <4>4. QED
        BY <1>4, <4>1, <4>3, Zenon
  <2>3. Effect(c).lists = s.lists /\ Effect(c).hashes = s.hashes
    <3>1. CASE c.op = "SET"
      <4>1. PICK x : Effect(c) = SetOp(s, c.key, c.val, x)
        BY <3>1, EffectOf
      <4>2. QED
        <5>1. SetOp(s, c.key, c.val, x).lists = s.lists /\ SetOp(s, c.key, c.val, x).hashes = s.hashes
          <6>1. \A st : Sound(st) => \A k, v, y : SetOp(st, k, v, y).lists = st.lists
                                                /\ SetOp(st, k, v, y).hashes = st.hashes
            BY SetParts
          <6>2. QED
            BY <6>1
        <5>2. QED
          BY <4>1, <5>1
    <3>2. CASE c.op = "EXPIRE"
      <4>1. PICK x : Effect(c) = ExpireOp(s, c.key, x)
        BY <3>2, EffectOf
      <4>2. QED
        BY <4>1, ExpireParts
    <3>3. CASE c.op = "INCRBY"
      <4>1. PICK x : Effect(c) = IncrByOp(s, c.key, c.delta, x)
        BY <3>3, EffectOf
      <4>2. QED
        BY <4>1, IncrByParts
    <3>4. QED
      BY <1>5, <3>1, <3>2, <3>3
  <2>4. Bare(IF Succeeds(c) THEN Effect(c) ELSE s) = Bare(s)
    BY <2>3 DEF Bare
  <2>5. QED
    BY <2>1, <2>2, <2>4
<1>6. CASE c.op \in {"LPUSH", "RPUSH", "HSET"}
  <2>1. Succeeds(c)
    BY <1>2, <1>6, Zenon DEF Succeeds
  <2>2. Neutral(c) = c
    BY <1>6 DEF Neutral
  <2>3. /\ \A k : ListAt(Bare(s), k) = ListAt(s, k)
        /\ \A k : HashAt(Bare(s), k) = HashAt(s, k)
    BY <1>4 DEF ListAt, HashAt
  <2>4. CASE c.op = "LPUSH"
    <3>1. /\ Effect(c) = LPushOp(s, c.key, c.vals) /\ After(Bare(s), c) = LPushOp(Bare(s), c.key, c.vals)
      BY <2>4, EffectOf DEF After
    <3> DEFINE ls == Put(s.lists, c.key, Reverse(c.vals) \o ListAt(s, c.key))
    <3>2. Bare(s).lists = s.lists
      BY <1>4
    <3>3. /\ Effect(c) = [s EXCEPT !.lists = ls]
          /\ After(Bare(s), c) = [Bare(s) EXCEPT !.lists = ls]
      BY <2>3, <3>1, <3>2, Zenon DEF LPushOp
    <3> HIDE DEF ls
    <3>4. QED
      BY <1>3, <1>4, <2>1, <2>2, <3>3 DEF Bare, Partial
  <2>5. CASE c.op = "RPUSH"
    <3>1. /\ Effect(c) = RPushOp(s, c.key, c.vals) /\ After(Bare(s), c) = RPushOp(Bare(s), c.key, c.vals)
      BY <2>5, EffectOf DEF After
    <3> DEFINE ls == Put(s.lists, c.key, ListAt(s, c.key) \o c.vals)
    <3>2. Bare(s).lists = s.lists
      BY <1>4
    <3>3. /\ Effect(c) = [s EXCEPT !.lists = ls]
          /\ After(Bare(s), c) = [Bare(s) EXCEPT !.lists = ls]
      BY <2>3, <3>1, <3>2, Zenon DEF RPushOp
    <3> HIDE DEF ls
    <3>4. QED
      BY <1>3, <1>4, <2>1, <2>2, <3>3 DEF Bare, Partial
  <2>6. CASE c.op = "HSET"
    <3>1. /\ Effect(c) = HSetOp(s, c.key, c.pairs) /\ After(Bare(s), c) = HSetOp(Bare(s), c.key, c.pairs)
      BY <2>6, EffectOf DEF After
    <3>2. \A st : HSetOp(st, c.key, c.pairs) =
                    [st EXCEPT !.hashes = Put(st.hashes, c.key, Overlaid(HashAt(st, c.key), c.pairs))]
      BY Zenon DEF HSetOp, Overlaid
    <3> DEFINE hs == Put(s.hashes, c.key, Overlaid(HashAt(s, c.key), c.pairs))
    <3>3. /\ Effect(c) = [s EXCEPT !.hashes = hs]
          /\ After(Bare(s), c) = [Bare(s) EXCEPT !.hashes = hs]
      <4>1. Bare(s).hashes = s.hashes
        BY <1>4
      <4>2. QED
        BY <2>3, <3>1, <3>2, <4>1
    <3> HIDE DEF hs
    <3>4. QED
      BY <1>3, <1>4, <2>1, <2>2, <3>3 DEF Bare, Partial
  <2>7. QED
    BY <1>6, <2>4, <2>5, <2>6
<1>7. CASE c.op = "HDEL"
  <2>1. Succeeds(c) /\ Neutral(c) = c
    BY <1>7, Zenon DEF Succeeds, Neutral
  <2>2. Effect(c) = HDelOp(s, c.key, c.fields) /\ After(Bare(s), c) = HDelOp(Bare(s), c.key, c.fields)
    BY <1>7, EffectOf DEF After
  <2>3. Bare(s).hashes = s.hashes /\ HashAt(Bare(s), c.key) = HashAt(s, c.key)
    BY <1>4 DEF HashAt
  <2> DEFINE h == Drop(HashAt(s, c.key), c.fields)
             hs == IF DOMAIN h = {} THEN Drop(s.hashes, {c.key}) ELSE Put(s.hashes, c.key, h)
  <2>4. /\ Effect(c) = IF c.key \notin DOMAIN s.hashes THEN s ELSE [s EXCEPT !.hashes = hs]
        /\ After(Bare(s), c) =
             IF c.key \notin DOMAIN s.hashes THEN Bare(s) ELSE [Bare(s) EXCEPT !.hashes = hs]
    BY <2>2, <2>3 DEF HDelOp
  <2> HIDE DEF hs
  <2>5. QED
    BY <1>3, <1>4, <2>1, <2>4 DEF Bare, Partial
<1>8. CASE c.op = "DEL"
  <2>1. Succeeds(c) /\ Neutral(c) = c
    BY <1>8, Zenon DEF Succeeds, Neutral
  <2>2. Effect(c) = DelOp(s, c.keys) /\ After(Bare(s), c) = DelOp(Bare(s), c.keys)
    BY <1>8, EffectOf DEF After
  <2>3. Drop(<<>>, c.keys) = <<>>
    <3>1. DOMAIN <<>> \ c.keys = {}
      BY EmptyMap
    <3>2. QED
      BY <3>1, PartEmpty DEF Drop
  <2>4. DelOp(Bare(s), c.keys) = Bare(DelOp(s, c.keys))
    BY <1>4, <2>3 DEF DelOp, Bare, Partial
  <2>5. QED
    BY <2>1, <2>2, <2>4
<1>9. CASE c.op = "FLUSHALL"
  <2>1. Succeeds(c) /\ Neutral(c) = c
    BY <1>9, Zenon DEF Succeeds, Neutral
  <2>2. Effect(c) = Empty /\ After(Bare(s), c) = Empty
    BY <1>9, EffectOf DEF After
  <2>3. QED
    BY <2>1, <2>2, BareEmpty
<1>10. QED
  BY <1>1, <1>5, <1>6, <1>7, <1>8, <1>9

\* What a rewrite writes, reduced, leads to the lists and hashes of its snapshot.
LEMMA SnapshotBare ==
  ASSUME Sound(snap), Lasting(Bare(snap)), now \in Nat, NEW base \in SnapshotLogs
  PROVE  base \in Seq(Commands) /\ Leads(Empty, Apart(base), Bare(snap))
<1>1. PICK strings \in Orders(Kept), lists \in Orders(DOMAIN snap.lists),
           hashes \in Orders(DOMAIN snap.hashes), order \in FieldOrders :
        /\ \A k \in DOMAIN snap.hashes : order[k] \in Orders(DOMAIN snap.hashes[k])
        /\ base = (ForEach(strings, SetCommand) \o ForEach(lists, PushCommands))
                    \o WrittenHashes(hashes, order)
  BY SnapshotParts
<1> DEFINE p == ForEach(strings, SetCommand)
           q == ForEach(lists, PushCommands)
           r == WrittenHashes(hashes, order)
<1>2. p \in Seq(Writes("SET")) /\ q \in Seq(Writes("RPUSH")) /\ r \in Seq(Writes("HSET"))
  <2>1. DOMAIN snap.data \subseteq Keys /\ Kept \subseteq DOMAIN snap.data
    BY StoreParts DEF MapOver, Kept
  <2>2. strings \in Seq(Kept)
    BY <2>1, OrderOfKeys, PersistenceAssumption
  <2>3. p \in Seq(Writes("SET"))
    BY <2>2, StringsRebuild
  <2>4. q \in Seq(Writes("RPUSH")) /\ r \in Seq(Writes("HSET"))
    BY <1>1, ListsRebuild, HashesRebuild
  <2>5. QED
    BY <2>3, <2>4
<1>3. /\ Leads(Partial(<<>>, <<>>, <<>>), q, Partial(<<>>, snap.lists, <<>>))
      /\ Leads(Partial(<<>>, snap.lists, <<>>), r, Partial(<<>>, snap.lists, snap.hashes))
  <2>1. (\A k \in DOMAIN snap.lists : snap.lists[k] # <<>>) /\ NoneEmpty(snap.hashes)
    BY DEF Lasting, Bare, Partial
  <2>2. QED
    BY <1>1, <2>1, ListsLead, HashesLead
<1>4. base = (p \o q) \o r
  BY <1>1 DEF p, q, r
<1> HIDE DEF p, q, r
<1>5. /\ Leads(Empty, Apart(p), Empty) /\ Apart(q) = q /\ Apart(r) = r
      /\ Partial(<<>>, <<>>, <<>>) = Empty
  BY <1>2, ApartIdle, ApartSame DEF Partial, Empty
<1>6. p \in Seq(Commands) /\ q \in Seq(Commands) /\ r \in Seq(Commands)
  <2>1. p \in Seq(Rebuilds) /\ q \in Seq(Rebuilds) /\ r \in Seq(Rebuilds)
    BY <1>2, WritesRebuild
  <2>2. \A x \in Seq(Rebuilds) : x \in Seq(Commands)
    BY DEF Rebuilds
  <2>3. QED
    BY <2>1, <2>2
<1>7. Apart(p) \in Seq(Plain) /\ Apart(q) \in Seq(Plain) /\ Apart(r) \in Seq(Plain)
  BY <1>6, ApartSeq
<1> DEFINE o == p \o q
           l == Partial(<<>>, snap.lists, <<>>)
           b == Partial(<<>>, snap.lists, snap.hashes)
           x == Apart(p)
           y == Apart(q)
           z == Apart(r)
<1>8. o \in Seq(Commands) /\ Apart(o) = x \o y
  BY <1>6, ApartConcat, ConcatProperties
<1>9. x \in Seq(Plain) /\ y \in Seq(Plain) /\ z \in Seq(Plain)
  BY <1>7
<1>10. Leads(Empty, x, Empty) /\ Leads(Empty, y, l) /\ Leads(l, z, b)
  BY <1>3, <1>5
<1>11. base = o \o r /\ Apart(q) = y /\ Apart(r) = z
  BY <1>4
<1>12. Bare(snap) = b
  BY DEF Bare
<1> HIDE DEF o, l, b, x, y, z
<1>13. x \o y \in Seq(Plain) /\ Leads(Empty, x \o y, l)
  BY <1>9, <1>10, LeadsConcat, ConcatProperties
<1> DEFINE xy == x \o y
<1>14. xy \in Seq(Plain) /\ Leads(Empty, xy, l) /\ Apart(o) = xy
  BY <1>8, <1>13
<1> HIDE DEF xy
<1>15. Leads(Empty, xy \o z, b)
  BY <1>9, <1>10, <1>14, LeadsConcat
<1>16. o \o r \in Seq(Commands) /\ Apart(o \o r) = xy \o z
  BY <1>6, <1>8, <1>11, <1>14, ApartConcat, ConcatProperties
<1>17. QED
  BY <1>11, <1>12, <1>15, <1>16

-----------------------------------------------------------------------------
(***************************************************************************)
(* So the file leads to the lists and hashes that clients see, whatever    *)
(* happens to the strings.                                                 *)
(***************************************************************************)
BareState ==
  /\ Lasting(Bare(s))
  /\ snap # NoSnap =>
       pos = 0 /\ Lasting(Bare(snap)) /\ Leads(Bare(snap), Apart(buf), Bare(s))

BareFile == pos = 0 => Leads(Empty, Apart(log), Bare(s))

BareReplay ==
  pos # 0 =>
    /\ pos \in 1 .. Len(log) + 1
    /\ \E h : Replays(h, Empty, Apart(log)) /\ h[pos - 1] = Bare(s) /\ h[Len(log)] = Bare(before)

BareInv == MaxMemory = 0 => BareState /\ BareFile /\ BareReplay

\* It holds when the process starts.
LEMMA BareInit == Init => BareInv
<1> SUFFICES ASSUME Init PROVE BareState /\ BareFile /\ BareReplay
  BY DEF BareInv
<1>1. s = Empty /\ log = <<>> /\ snap = NoSnap /\ pos = 0
  BY DEF Init
<1>2. Apart(log) = <<>>
  <2>1. DOMAIN log = {} /\ log = [i \in DOMAIN log |-> log[i]]
    BY <1>1
  <2>2. QED
    BY <1>1, <2>1 DEF Apart
<1>3. Lasting(Bare(s))
  BY <1>1, EmptyLasting, BareEmpty
<1>4. QED
  BY <1>1, <1>2, <1>3, BareEmpty, LeadsNothing DEF BareState, BareFile, BareReplay

\* Commands.
LEMMA ExecuteBare ==
  ASSUME Typed, BareState, BareFile, MaxMemory = 0, NEW c \in work.commands, Execute(c)
  PROVE  BareState' /\ BareFile' /\ BareReplay'
<1>1. /\ pos = 0 /\ Succeeds(c) /\ s' = Effect(c) /\ log' = Append(log, c)
      /\ buf' = IF snap # NoSnap THEN Append(buf, c) ELSE buf
      /\ snap' = snap /\ pos' = pos
  BY DEF Execute, Serving
<1>2. c \in Commands /\ log \in Seq(Commands) /\ buf \in Seq(Commands) /\ Sound(s)
  BY PersistenceAssumption DEF Typed
<1>3. Lasting(Bare(s)) /\ Neutral(c) \in Plain
  BY <1>2, NeutralPlain DEF BareState
<1>4. Bare(s') = After(Bare(s), Neutral(c))
  BY <1>1, <1>2, <1>3, BareEffect
<1>5. Lasting(Bare(s'))
  BY <1>3, <1>4, AfterLasting
<1>6. /\ Apart(log) \in Seq(Plain) /\ Apart(buf) \in Seq(Plain)
      /\ Apart(Append(log, c)) = Append(Apart(log), Neutral(c))
      /\ Apart(Append(buf, c)) = Append(Apart(buf), Neutral(c))
  BY <1>2, ApartSeq, ApartAppend
<1>7. Leads(Empty, Apart(log'), Bare(s'))
  BY <1>1, <1>3, <1>4, <1>6, LeadsAppend DEF BareFile
<1>8. snap # NoSnap => Lasting(Bare(snap)) /\ Leads(Bare(snap), Apart(buf'), Bare(s'))
  BY <1>1, <1>3, <1>4, <1>6, LeadsAppend DEF BareState
<1>9. BareState'
  BY <1>1, <1>5, <1>8 DEF BareState, NoSnap, Bare
<1>10. QED
  BY <1>1, <1>7, <1>9 DEF BareFile, BareReplay, Bare

\* Strings expire, and time does not matter.
LEMMA SweepBare ==
  ASSUME Typed, BareState, BareFile, BareReplay, (\E k \in Keys : Sweep(k)) \/ Tick
  PROVE  BareState' /\ BareFile' /\ BareReplay'
<1>1. UNCHANGED <<log, snap, buf, pos, before>>
  BY DEF Sweep, Tick
<1>2. s'.lists = s.lists /\ s'.hashes = s.hashes
  <2>1. CASE \E k \in Keys : Sweep(k)
    <3>1. PICK k \in Keys : s' = DeleteExpired(s, {k})
      BY <2>1 DEF Sweep
    <3> DEFINE d == Drop(s.data, {k})
               e == s.expiryKeys \ {k}
    <3>2. s' = [s EXCEPT !.data = d, !.expiryKeys = e]
      BY <3>1 DEF DeleteExpired
    <3> HIDE DEF d, e
    <3>3. Sound(s)
      BY DEF Typed
    <3>4. [s EXCEPT !.data = d, !.expiryKeys = e] =
            [data |-> d, lists |-> s.lists, hashes |-> s.hashes, expiryKeys |-> e]
      BY <3>3, AssignTwo, Zenon
    <3>5. QED
      BY <3>2, <3>4
  <2>2. CASE Tick
    BY <2>2 DEF Tick
  <2>3. QED
    BY <2>1, <2>2
<1>3. Bare(s') = Bare(s)
  BY <1>2 DEF Bare
<1> DEFINE x == Bare(s')
<1>4. x = Bare(s) /\ Bare(snap)' = Bare(snap) /\ Bare(before)' = Bare(before) /\ Bare(s)' = x
  BY <1>1, <1>3 DEF Bare
<1> HIDE DEF x
<1>5. QED
  BY <1>1, <1>4 DEF BareState, BareFile, BareReplay, NoSnap

\* A rewrite begins with the lists and hashes themselves.
LEMMA BeginBare ==
  ASSUME BareState, BareFile, RewriteBegin
  PROVE  BareState' /\ BareFile' /\ BareReplay'
<1>1. pos = 0 /\ snap' = s /\ buf' = <<>> /\ UNCHANGED <<s, log, pos>>
  BY DEF RewriteBegin, Serving
<1>2. Apart(buf') = <<>>
  <2>1. DOMAIN buf' = {} /\ buf' = [i \in DOMAIN buf' |-> buf'[i]]
    BY <1>1
  <2>2. QED
    BY <1>1, <2>1 DEF Apart
<1>3. Leads(Bare(s), Apart(buf'), Bare(s))
  BY <1>2, LeadsNothing
<1>4. Bare(s)' = Bare(s) /\ Bare(snap)' = Bare(s) /\ Apart(buf)' = Apart(buf')
      /\ Apart(log)' = Apart(log)
  BY <1>1 DEF Bare, Apart
<1>5. QED
  BY <1>1, <1>3, <1>4 DEF BareState, BareFile, BareReplay

\* It ends: the snapshot, then what was mirrored.
LEMMA EndBare ==
  ASSUME Typed, BareState, RewriteEnd
  PROVE  BareState' /\ BareFile' /\ BareReplay'
<1>1. /\ pos = 0 /\ snap # NoSnap /\ snap' = NoSnap /\ UNCHANGED <<s, pos>>
  BY DEF RewriteEnd, Serving
<1>2. PICK base \in SnapshotLogs : log' = base \o buf
  BY DEF RewriteEnd
<1>3. /\ Sound(snap) /\ Lasting(Bare(snap)) /\ Leads(Bare(snap), Apart(buf), Bare(s))
      /\ buf \in Seq(Commands) /\ now \in Nat
  BY <1>1 DEF BareState, Typed
<1>4. base \in Seq(Commands) /\ Leads(Empty, Apart(base), Bare(snap))
  BY <1>3, SnapshotBare
<1>5. /\ Apart(base) \in Seq(Plain) /\ Apart(buf) \in Seq(Plain)
      /\ Apart(log') = Apart(base) \o Apart(buf)
  BY <1>2, <1>3, <1>4, ApartSeq, ApartConcat
<1>6. Leads(Empty, Apart(log'), Bare(s))
  BY <1>3, <1>4, <1>5, LeadsConcat
<1>7. Bare(s)' = Bare(s) /\ Apart(log)' = Apart(log')
  BY <1>1 DEF Bare, Apart
<1>8. QED
  BY <1>1, <1>6, <1>7 DEF BareState, BareFile, BareReplay

\* The process dies: the file leads to the lists and hashes there were.
LEMMA CrashBare ==
  ASSUME Typed, BareFile, Crash
  PROVE  BareState' /\ BareFile' /\ BareReplay'
<1> DEFINE d == RestrictValues(s.data, TimeLeft)
           e == {k \in s.expiryKeys : TimeLeft(s.data[k])}
<1>1. /\ pos = 0 /\ s' = Empty /\ pos' = 1 /\ snap' = NoSnap /\ log' = log
  BY Zenon DEF Crash, Serving
<1>2. before' = [s EXCEPT !.data = d, !.expiryKeys = e]
  BY Zenon DEF Crash
<1> HIDE DEF d, e
<1>3. Sound(s) /\ log \in Seq(Commands) /\ Leads(Empty, Apart(log), Bare(s))
  BY <1>1 DEF Typed, BareFile
<1>4. before' = [data |-> d, lists |-> s.lists, hashes |-> s.hashes, expiryKeys |-> e]
  BY <1>2, <1>3, AssignTwo
<1>5. Bare(before') = Bare(s)
  BY <1>4 DEF Bare
<1>6. Apart(log) \in Seq(Plain) /\ Len(Apart(log)) = Len(log) /\ Len(log) \in Nat
  BY <1>3, ApartSeq, LenProperties
<1>7. PICK h : Replays(h, Empty, Apart(log)) /\ h[Len(log)] = Bare(s)
  BY <1>3, <1>6 DEF Leads
<1>8. h[1 - 1] = Empty /\ 1 \in 1 .. Len(log) + 1
  BY <1>6, <1>7 DEF Replays
<1>9. /\ Bare(s)' = Empty /\ Bare(before)' = Bare(s) /\ Apart(log)' = Apart(log)
      /\ Lasting(Empty)
  <2>1. Bare(s)' = Bare(s') /\ Bare(before)' = Bare(before')
    BY DEF Bare
  <2>2. QED
    BY <1>1, <1>5, <2>1, BareEmpty, EmptyLasting DEF Apart
<1>10. QED
  BY <1>1, <1>7, <1>8, <1>9 DEF BareState, BareFile, BareReplay

\* A command is replayed: the next lists and hashes on the way.
LEMMA ReplayOneBare ==
  ASSUME Typed, BareState, BareReplay, MaxMemory = 0, ReplayCommand
  PROVE  BareState' /\ BareFile' /\ BareReplay'
<1> DEFINE c == log[pos]
<1>1. /\ pos \in DOMAIN log /\ pos' = pos + 1
      /\ s' = IF Succeeds(c) THEN Effect(c) ELSE s
      /\ UNCHANGED <<log, snap, buf, before>>
  BY DEF ReplayCommand
<1>2. log \in Seq(Commands) /\ Sound(s) /\ Lasting(Bare(s))
  BY DEF Typed, BareState
<1>3. DOMAIN log = 1 .. Len(log) /\ Len(log) \in Nat /\ c \in Commands /\ pos \in 1 .. Len(log)
  BY <1>1, <1>2, LenProperties, ElementOfSeq
<1>4. Len(Apart(log)) = Len(log) /\ Apart(log)[pos] = Neutral(c)
  BY <1>2, <1>3, ApartSeq
<1> HIDE DEF c
<1>5. Neutral(c) \in Plain /\ Bare(s') = After(Bare(s), Neutral(c))
  BY <1>1, <1>2, <1>3, NeutralPlain, BareEffect
<1>6. Lasting(Bare(s'))
  BY <1>2, <1>5, AfterLasting
<1>7. pos # 0 /\ pos' # 0 /\ pos' \in 1 .. Len(log) + 1 /\ pos' - 1 = pos
  BY <1>1, <1>3
<1>8. PICK h : Replays(h, Empty, Apart(log)) /\ h[pos - 1] = Bare(s) /\ h[Len(log)] = Bare(before)
  BY <1>7 DEF BareReplay
<1>9. h[pos] = After(Bare(s), Neutral(c))
  BY <1>3, <1>4, <1>8 DEF Replays
<1>10. Bare(s)' = Bare(s') /\ Bare(before)' = Bare(before) /\ Apart(log)' = Apart(log)
  BY <1>1 DEF Bare, Apart
<1>11. BareReplay'
  BY <1>1, <1>5, <1>7, <1>8, <1>9, <1>10 DEF BareReplay
<1>12. snap' = NoSnap
  BY <1>1, <1>7 DEF BareState, NoSnap
<1>13. BareState'
  BY <1>6, <1>10, <1>12 DEF BareState
<1>14. QED
  BY <1>7, <1>11, <1>13 DEF BareFile

\* The server accepts connections at the end of the way.
LEMMA ServeBare ==
  ASSUME Typed, BareState, BareReplay, Serve
  PROVE  BareState' /\ BareFile' /\ BareReplay'
<1>1. pos = Len(log) + 1 /\ pos' = 0 /\ UNCHANGED <<s, log, snap, buf>>
  BY DEF Serve, Replayed
<1>2. Len(log) \in Nat /\ Len(Apart(log)) = Len(log)
  BY LenProperties, ApartSeq DEF Typed
<1>3. pos # 0 /\ pos - 1 = Len(log)
  BY <1>1, <1>2
<1>4. Leads(Empty, Apart(log), Bare(s))
  BY <1>2, <1>3 DEF BareReplay, Leads
<1>5. Bare(s)' = Bare(s) /\ Apart(log)' = Apart(log)
  BY <1>1 DEF Bare, Apart
<1>6. snap' = NoSnap
  BY <1>1, <1>3 DEF BareState, NoSnap
<1>7. QED
  BY <1>1, <1>4, <1>5, <1>6 DEF BareState, BareFile, BareReplay

\* At all times, when there is no ceiling.
LEMMA BareInductive == Spec => []BareInv
<1>1. ASSUME PersistInv, BareInv, [Next]_vars
      PROVE  BareInv'
  <2> SUFFICES ASSUME MaxMemory = 0 PROVE BareState' /\ BareFile' /\ BareReplay'
    BY DEF BareInv
  <2>1. Typed /\ BareState /\ BareFile /\ BareReplay
    BY <1>1 DEF BareInv, PersistInv
  <2>2. CASE \E c \in work.commands : Execute(c)
    BY <2>1, <2>2, ExecuteBare
  <2>3. CASE (\E k \in Keys : Sweep(k)) \/ Tick
    BY <2>1, <2>3, SweepBare
  <2>4. CASE RewriteBegin
    BY <2>1, <2>4, BeginBare
  <2>5. CASE RewriteEnd
    BY <2>1, <2>5, EndBare
  <2>6. CASE Crash
    BY <2>1, <2>6, CrashBare
  <2>7. CASE ReplayCommand
    BY <2>1, <2>7, ReplayOneBare
  <2>8. CASE Serve
    BY <2>1, <2>8, ServeBare
  <2>9. CASE UNCHANGED vars
    <3>1. UNCHANGED <<s, log, snap, buf, pos, before>>
      BY <2>9 DEF vars
    <3>2. /\ Bare(s)' = Bare(s) /\ Bare(snap)' = Bare(snap) /\ Bare(before)' = Bare(before)
          /\ Apart(log)' = Apart(log) /\ Apart(buf)' = Apart(buf)
      BY <3>1 DEF Bare, Apart
    <3>3. QED
      BY <2>1, <3>1, <3>2 DEF BareState, BareFile, BareReplay, NoSnap
  <2>10. QED
    BY <1>1, <2>2, <2>3, <2>4, <2>5, <2>6, <2>7, <2>8, <2>9 DEF Next
<1>2. QED
  BY <1>1, BareInit, PersistInductive, PTL DEF Spec

\* After a replay lists and hashes are those that were there before.
LEMMA BareBack ==
  ASSUME BareInv, MaxMemory = 0, Replayed, Len(log) \in Nat
  PROVE  s.lists = before.lists /\ s.hashes = before.hashes
<1>1. pos # 0 /\ pos - 1 = Len(log) /\ BareReplay
  BY DEF Replayed, BareInv
<1>2. Bare(s) = Bare(before)
  BY <1>1 DEF BareReplay
<1>3. /\ Bare(s).lists = s.lists /\ Bare(s).hashes = s.hashes
      /\ Bare(before).lists = before.lists /\ Bare(before).hashes = before.hashes
  BY DEF Bare, Partial
<1>4. QED
  BY <1>2, <1>3

-----------------------------------------------------------------------------
(***************************************************************************)
(* Strings, when clients write them whole: with SET, and neither extend a  *)
(* deadline nor count.  The last command in the file that touches a string *)
(* says what is in the store, but for the fraction of a millisecond that a *)
(* rewrite cuts off, and but for strings whose time is about to run out.   *)
(***************************************************************************)
Whole == {c \in Commands : c.op \notin {"EXPIRE", "INCRBY"}}

WritesWhole == work.commands \subseteq Whole

Touches(c, k) == Makes(c, k) \/ Clears(c, k)

\* The time of e runs out within a millisecond, or has.
AboutDue(e) == e.exp # 0 /\ e.exp < now + TicksPerMs

\* x is as good as e: it has a deadline if e has, not earlier by a millisecond.
Renews(x, e) ==
  /\ x.val = e.val /\ (x.exp = 0 <=> e.exp = 0)
  /\ x.exp = 0 \/ x.exp + TicksPerMs > e.exp

\* What a SET stores.
Entry(c) == [val |-> c.val, exp |-> IF c.ttl > 0 THEN Deadline(c.ttl) ELSE 0]

\* From m to n, commands leave k alone; or the last that does not renews e.
Quiet(q, m, n, k) == \A j \in m .. n : ~ Touches(q[j], k)
LastSays(q, m, n, k, e) ==
  \E i \in m .. n : Makes(q[i], k) /\ Renews(Entry(q[i]), e) /\ Quiet(q, i + 1, n, k)

\* How many commands of the file the store reflects.
Reached == IF pos = 0 THEN Len(log) ELSE pos - 1

WholeState ==
  /\ log \in Seq(Whole) /\ buf \in Seq(Whole) /\ pos \in 0 .. Len(log) + 1
  /\ MapOver(before.data, Keys, Entries)

StringsLogged ==
  \A k \in DOMAIN s.data : AboutDue(s.data[k]) \/ LastSays(log, 1, Reached, k, s.data[k])

StringsMirrored ==
  snap # NoSnap =>
    /\ pos = 0
    /\ \A k \in DOMAIN s.data :
         \/ AboutDue(s.data[k])
         \/ LastSays(buf, 1, Len(buf), k, s.data[k])
         \/ k \in DOMAIN snap.data /\ snap.data[k] = s.data[k] /\ Quiet(buf, 1, Len(buf), k)

StringsReplayed ==
  pos # 0 =>
    \A k \in DOMAIN before.data :
      \/ AboutDue(before.data[k])
      \/ LastSays(log, pos, Len(log), k, before.data[k])
      \/ /\ k \in DOMAIN s.data /\ Renews(s.data[k], before.data[k])
         /\ Quiet(log, pos, Len(log), k)

StringParts == WholeState /\ StringsLogged /\ StringsMirrored /\ StringsReplayed

StringInv == MaxMemory = 0 /\ WritesWhole => StringParts

\* Such a command is never refused; it makes, clears or leaves alone.
LEMMA WholeEffect ==
  ASSUME NEW c \in Whole, Sound(s), now \in Nat \ {0}, MaxMemory = 0, NEW k
  PROVE  /\ Succeeds(c)
         /\ Makes(c, k) => k \in DOMAIN Effect(c).data /\ Effect(c).data[k] = Entry(c)
         /\ ~ Touches(c, k) /\ k \in DOMAIN Effect(c).data =>
              k \in DOMAIN s.data /\ Effect(c).data[k] = s.data[k]
         /\ ~ Touches(c, k) /\ k \in DOMAIN s.data => k \in DOMAIN Effect(c).data
<1>1. c \in Commands /\ c.op \in {"SET", "LPUSH", "RPUSH", "HSET", "HDEL", "DEL", "FLUSHALL"}
  BY CommandParts DEF Whole
<1>2. \A x : Fits(s, x, MaxMemory)
  BY DEF Fits
<1>3. Succeeds(c)
  <2>1. CASE c.op \in {"SET", "LPUSH", "RPUSH", "HSET"}
    BY <1>2, <2>1, Zenon DEF Succeeds
  <2>2. CASE c.op \in {"HDEL", "DEL", "FLUSHALL"}
    BY <2>2, Zenon DEF Succeeds
  <2>3. QED
    BY <1>1, <2>1, <2>2
<1>4. CASE c.op = "SET"
  <2> DEFINE x == IF c.ttl > 0 THEN Deadline(c.ttl) ELSE 0
             e == [val |-> c.val, exp |-> x]
             d == Put(s.data, c.key, e)
             K == IF x = 0 THEN s.expiryKeys \ {c.key} ELSE s.expiryKeys \cup {c.key}
  <2>1. Effect(c) = SetOp(s, c.key, c.val, x)
    BY <1>4, EffectOf
  <2>2. SetOp(s, c.key, c.val, x) = [s EXCEPT !.data = d, !.expiryKeys = K]
    BY DEF SetOp
  <2>3. Entry(c) = e
    BY DEF Entry
  <2> HIDE DEF x, e, K
  <2>4. /\ DOMAIN d = DOMAIN s.data \cup {c.key} /\ d[c.key] = e
        /\ \A y \in DOMAIN s.data : y # c.key => d[y] = s.data[y]
    BY DEF Put
  <2> HIDE DEF d
  <2>5. Effect(c) = [data |-> d, lists |-> s.lists, hashes |-> s.hashes, expiryKeys |-> K]
    BY <2>1, <2>2, AssignTwo, Zenon
  <2>6. Effect(c).data = d
    BY <2>5
  <2>7. Makes(c, k) <=> k = c.key
    BY <1>4 DEF Makes
  <2>8. QED
    BY <1>3, <2>3, <2>4, <2>6, <2>7 DEF Touches
<1>5. CASE c.op \in {"LPUSH", "RPUSH", "HSET", "HDEL"}
  <2>1. Effect(c).data = s.data
    <3>1. CASE c.op \in {"LPUSH", "RPUSH"}
      <4>1. c.key \in Keys /\ c.vals \in Seq(Values)
        BY <1>1, <3>1, CommandParts
      <4>2. Effect(c) = LPushOp(s, c.key, c.vals) \/ Effect(c) = RPushOp(s, c.key, c.vals)
        BY <3>1, EffectOf
      <4>3. QED
        BY <4>1, <4>2, PushSound
    <3>2. CASE c.op = "HSET"
      <4>1. c.key \in Keys /\ c.pairs \in Seq(Fields \X Values)
        BY <1>1, <3>2, CommandParts
      <4>2. Effect(c) = HSetOp(s, c.key, c.pairs)
        BY <3>2, EffectOf
      <4>3. QED
        BY <4>1, <4>2, HSetSound
    <3>3. CASE c.op = "HDEL"
      <4>1. c.key \in Keys
        BY <1>1, <3>3, CommandParts
      <4>2. Effect(c) = HDelOp(s, c.key, c.fields)
        BY <3>3, EffectOf
      <4>3. QED
        BY <4>1, <4>2, HDelSound
    <3>4. QED
      BY <1>5, <3>1, <3>2, <3>3
  <2>2. QED
    BY <1>3, <1>5, <2>1 DEF Makes
<1>6. CASE c.op = "DEL"
  <2>1. Effect(c) = DelOp(s, c.keys)
    BY <1>6, EffectOf
  <2>2. Effect(c).data = Drop(s.data, c.keys)
    BY <2>1 DEF DelOp
  <2> DEFINE d == Drop(s.data, c.keys)
  <2>3. DOMAIN d = DOMAIN s.data \ c.keys /\ \A y \in DOMAIN s.data \ c.keys : d[y] = s.data[y]
    BY DEF Drop, Restrict
  <2> HIDE DEF d
  <2>4. k \in c.keys <=> Clears(c, k)
    BY <1>6 DEF Clears
  <2>5. Effect(c).data = d
    BY <2>2 DEF d
  <2>6. ~ Makes(c, k)
    BY <1>6 DEF Makes
  <2>7. QED
    BY <1>3, <2>3, <2>4, <2>5, <2>6 DEF Touches
<1>7. CASE c.op = "FLUSHALL"
  <2>1. ~ Makes(c, k) /\ Touches(c, k)
    BY <1>7 DEF Makes, Touches, Clears
  <2>2. QED
    BY <1>3, <2>1
<1>8. QED
  BY <1>1, <1>4, <1>5, <1>6, <1>7

\* A SET stores what it says, and says what it stores.
LEMMA EntryRenews ==
  ASSUME NEW c \in Whole, now \in Nat \ {0}, NEW k, Makes(c, k)
  PROVE  /\ c.op = "SET" /\ c.ttl \in Nat
         /\ Entry(c) \in Entries /\ Renews(Entry(c), Entry(c))
<1>1. c \in Commands /\ c.op = "SET"
  BY DEF Whole, Makes
<1>2. c.val \in Values /\ c.ttl \in Nat
  BY <1>1, CommandParts
<1> DEFINE x == IF c.ttl > 0 THEN Deadline(c.ttl) ELSE 0
<1>3. x \in Nat
  BY <1>2, DeadlineIsTime
<1>4. Entry(c) = [val |-> c.val, exp |-> x]
  BY DEF Entry
<1> HIDE DEF x
<1>5. TicksPerMs \in Nat \ {0}
  BY PersistenceAssumption
<1>6. QED
  BY <1>1, <1>2, <1>3, <1>4, <1>5 DEF Entries, Renews

\* No later deadline is 0.
LEMMA LaterIsPositive ==
  ASSUME NEW m \in Nat \ {0}, NEW n \in Nat, m <= n, NEW d \in Nat
  PROVE  n + d # 0
OBVIOUS

\* Time only helps.
LEMMA LaterRenews ==
  ASSUME now \in Nat \ {0}, now' \in Nat, now <= now', NEW c \in Whole, NEW k, Makes(c, k),
         NEW e \in Entries, Renews(Entry(c), e)
  PROVE  Renews(Entry(c)', e)
<1>1. c.op = "SET" /\ c.ttl \in Nat
  BY EntryRenews
<1> DEFINE ticks == c.ttl * TicksPerMs
<1>2. TicksPerMs \in Nat \ {0} /\ ticks \in Nat
  BY <1>1, PersistenceAssumption
<1>3. /\ Entry(c) = [val |-> c.val, exp |-> IF c.ttl > 0 THEN now + ticks ELSE 0]
      /\ Entry(c)' = [val |-> c.val, exp |-> IF c.ttl > 0 THEN now' + ticks ELSE 0]
  BY DEF Entry, Deadline
<1> HIDE DEF ticks
<1>4. CASE c.ttl > 0
  <2>1. Entry(c) = [val |-> c.val, exp |-> now + ticks] /\ now + ticks # 0
    BY <1>2, <1>3, <1>4
  <2>2. Entry(c)' = [val |-> c.val, exp |-> now' + ticks]
    BY <1>3, <1>4
  <2>3. c.val = e.val /\ e.exp # 0 /\ now + ticks + TicksPerMs > e.exp /\ e.exp \in Nat
    <3>1. Entry(c).val = c.val /\ Entry(c).exp = now + ticks /\ Entry(c).exp # 0
      BY <2>1
    <3>2. e.exp \in Nat
      BY DEF Entries
    <3>3. c.val = e.val /\ e.exp # 0 /\ Entry(c).exp + TicksPerMs > e.exp
      BY <3>1 DEF Renews
    <3>4. QED
      BY <3>1, <3>2, <3>3
  <2>4. now' + ticks + TicksPerMs > e.exp
    BY <1>2, <2>3
  <2>5. now' + ticks # 0
    BY <1>2, LaterIsPositive
  <2>6. QED
    BY <2>2, <2>3, <2>4, <2>5 DEF Renews
<1>5. CASE ~ (c.ttl > 0)
  <2>1. Entry(c) = Entry(c)'
    BY <1>3, <1>5
  <2>2. QED
    BY <2>1
<1>6. QED
  BY <1>4, <1>5

LEMMA LaterDue ==
  ASSUME now \in Nat, now' \in Nat, now <= now', NEW e \in Entries, AboutDue(e)
  PROVE  AboutDue(e)'
BY PersistenceAssumption DEF AboutDue, Entries

\* So what a file says of an entry, it goes on saying.
LEMMA LaterSays ==
  ASSUME now \in Nat \ {0}, now' \in Nat, now <= now', NEW q \in Seq(Whole), NEW m \in Nat \ {0},
         NEW n \in Nat, n <= Len(q), NEW k, NEW e \in Entries, LastSays(q, m, n, k, e)
  PROVE  LastSays(q, m, n, k, e)'
<1>1. PICK i \in m .. n : Makes(q[i], k) /\ Renews(Entry(q[i]), e) /\ Quiet(q, i + 1, n, k)
  BY DEF LastSays
<1>2. Len(q) \in Nat /\ i \in 1 .. Len(q)
  BY LenProperties
<1>3. q[i] \in Whole
  BY <1>2, ElementOfSeq
<1> DEFINE c == q[i]
<1>4. c \in Whole /\ Makes(c, k) /\ Renews(Entry(c), e)
  BY <1>1, <1>3
<1> HIDE DEF c
<1>5. Renews(Entry(c)', e)
  BY <1>4, LaterRenews
<1>6. QED
  BY <1>1, <1>5 DEF LastSays, c, Quiet, Makes, Clears, Touches, Renews, Entry

\* One more command.
LEMMA SaysAppend ==
  ASSUME NEW q \in Seq(Whole), NEW c \in Whole, NEW k, NEW e
  PROVE  LET n == Len(q)  r == Append(q, c)
         IN  /\ Makes(c, k) /\ Renews(Entry(c), e) => LastSays(r, 1, n + 1, k, e)
             /\ ~ Touches(c, k) /\ LastSays(q, 1, n, k, e) => LastSays(r, 1, n + 1, k, e)
             /\ ~ Touches(c, k) /\ Quiet(q, 1, n, k) => Quiet(r, 1, n + 1, k)
<1> DEFINE n == Len(q)  r == Append(q, c)
<1>1. /\ n \in Nat /\ r[n + 1] = c
      /\ \A i \in 1 .. n : r[i] = q[i]
  BY AppendProperties, LenProperties
<1> HIDE DEF n, r
<1>2. \A i : i \in 1 .. n + 1 => i \in 1 .. n \/ i = n + 1
  BY <1>1
<1>3. ASSUME Makes(c, k), Renews(Entry(c), e)
      PROVE  LastSays(r, 1, n + 1, k, e)
  <2>1. n + 1 \in 1 .. n + 1 /\ Quiet(r, n + 1 + 1, n + 1, k)
    BY <1>1 DEF Quiet
  <2>2. QED
    BY <1>1, <1>3, <2>1 DEF LastSays
<1>4. ASSUME ~ Touches(c, k), NEW m \in Nat \ {0}, Quiet(q, m, n, k)
      PROVE  Quiet(r, m, n + 1, k)
  <2> SUFFICES ASSUME NEW j \in m .. n + 1 PROVE ~ Touches(r[j], k)
    BY DEF Quiet
  <2>1. j \in 1 .. n + 1 /\ (j # n + 1 => j \in m .. n)
    BY <1>1, <1>4
  <2>2. QED
    BY <1>1, <1>2, <1>4, <2>1 DEF Quiet
<1>5. ASSUME ~ Touches(c, k), LastSays(q, 1, n, k, e)
      PROVE  LastSays(r, 1, n + 1, k, e)
  <2>1. PICK i \in 1 .. n : Makes(q[i], k) /\ Renews(Entry(q[i]), e) /\ Quiet(q, i + 1, n, k)
    BY <1>5 DEF LastSays
  <2>2. i + 1 \in Nat \ {0} /\ i \in 1 .. n + 1 /\ r[i] = q[i]
    BY <1>1
  <2>3. Quiet(r, i + 1, n + 1, k)
    BY <1>4, <1>5, <2>1, <2>2
  <2>4. QED
    BY <2>1, <2>2, <2>3 DEF LastSays
<1>6. QED
  BY <1>3, <1>4, <1>5 DEF n, r

\* A rewrite: what was mirrored comes after what the snapshot holds.
LEMMA SaysConcat ==
  ASSUME NEW p \in Seq(Whole), NEW q \in Seq(Whole), NEW k, NEW e
  PROVE  LET l == Len(p)  n == Len(q)  r == p \o q
         IN  /\ LastSays(q, 1, n, k, e) => LastSays(r, 1, l + n, k, e)
             /\ LastSays(p, 1, l, k, e) /\ Quiet(q, 1, n, k) => LastSays(r, 1, l + n, k, e)
             /\ Quiet(p, 1, l, k) /\ Quiet(q, 1, n, k) => Quiet(r, 1, l + n, k)
<1> DEFINE l == Len(p)  n == Len(q)  r == p \o q
<1>1. /\ l \in Nat /\ n \in Nat
      /\ \A i \in 1 .. l + n : r[i] = IF i <= l THEN p[i] ELSE q[i - l]
  BY ConcatProperties, LenProperties
<1> HIDE DEF l, n, r
<1>2. ASSUME LastSays(q, 1, n, k, e)
      PROVE  LastSays(r, 1, l + n, k, e)
  <2>1. PICK i \in 1 .. n : Makes(q[i], k) /\ Renews(Entry(q[i]), e) /\ Quiet(q, i + 1, n, k)
    BY <1>2 DEF LastSays
  <2>2. l + i \in 1 .. l + n /\ r[l + i] = q[i]
    <3>1. l + i \in 1 .. l + n /\ ~ (l + i <= l) /\ (l + i) - l = i
      BY <1>1
    <3>2. QED
      BY <1>1, <3>1
  <2>3. Quiet(r, l + i + 1, l + n, k)
    <3> SUFFICES ASSUME NEW j \in l + i + 1 .. l + n PROVE ~ Touches(r[j], k)
      BY DEF Quiet
    <3>1. j \in 1 .. l + n /\ ~ (j <= l) /\ j - l \in i + 1 .. n
      BY <1>1
    <3>2. QED
      BY <1>1, <2>1, <3>1 DEF Quiet
  <2>4. QED
    BY <2>1, <2>2, <2>3 DEF LastSays
<1>3. ASSUME NEW m \in Nat \ {0}, Quiet(p, m, l, k), Quiet(q, 1, n, k)
      PROVE  Quiet(r, m, l + n, k)
  <2> SUFFICES ASSUME NEW j \in m .. l + n PROVE ~ Touches(r[j], k)
    BY DEF Quiet
  <2>1. CASE j <= l
    <3>1. j \in 1 .. l + n /\ j \in m .. l
      BY <1>1, <1>3, <2>1
    <3>2. QED
      BY <1>1, <1>3, <2>1, <3>1 DEF Quiet
  <2>2. CASE ~ (j <= l)
    <3>1. j \in 1 .. l + n /\ j - l \in 1 .. n
      BY <1>1, <1>3, <2>2
    <3>2. QED
      BY <1>1, <1>3, <2>2, <3>1 DEF Quiet
  <2>3. QED
    BY <2>1, <2>2
<1>4. ASSUME LastSays(p, 1, l, k, e), Quiet(q, 1, n, k)
      PROVE  LastSays(r, 1, l + n, k, e)
  <2>1. PICK i \in 1 .. l : Makes(p[i], k) /\ Renews(Entry(p[i]), e) /\ Quiet(p, i + 1, l, k)
    BY <1>4 DEF LastSays
  <2>2. i + 1 \in Nat \ {0} /\ i \in 1 .. l + n /\ i <= l
    BY <1>1
  <2>3. r[i] = p[i]
    BY <1>1, <2>2
  <2>4. Quiet(r, i + 1, l + n, k)
    BY <1>3, <1>4, <2>1, <2>2
  <2>5. QED
    BY <2>1, <2>2, <2>3, <2>4 DEF LastSays
<1>5. QED
  BY <1>2, <1>3, <1>4 DEF l, n, r

\* Joining parts of one element each.
LEMMA FlattenSingles ==
  ASSUME NEW S, NEW f \in Seq(Seq(S)), NEW c \in [1 .. Len(f) -> S],
         \A i \in 1 .. Len(f) : f[i] = <<c[i]>>
  PROVE  /\ FlattenSeq(f) \in Seq(S) /\ Len(FlattenSeq(f)) = Len(f)
         /\ \A i \in 1 .. Len(f) : FlattenSeq(f)[i] = c[i]
<1> DEFINE n == Len(f)
<1>1. n \in Nat /\ \A i \in 1 .. n : f[i] = <<c[i]>> /\ c[i] \in S
  BY LenProperties
<1>2. f \in Seq(Seq(S))
  OBVIOUS
<1>3. Len(f) = n
  OBVIOUS
<1> HIDE DEF n
<1>4. CASE n = 0
  <2>1. f = <<>> /\ FlattenSeq(f) = f
    BY <1>2, <1>3, <1>4, EmptySeq DEF FlattenSeq
  <2>2. FlattenSeq(f) \in Seq(S)
    BY <1>2, FlattenIn
  <2>3. Len(<<>>) = 0 /\ FlattenSeq(f) = <<>>
    BY <2>1
  <2>4. 1 .. n = {} /\ Len(f) = 0
    BY <1>3, <1>4
  <2>5. QED
    BY <1>4, <2>2, <2>3, <2>4
<1>5. CASE n # 0
  <2>1. PICK g \in Joins(f, n, S) : FlattenSeq(f) = g[n]
    BY <1>2, <1>3, <1>5, FlattenJoins
  <2>2. /\ \A i \in 1 .. n : g[i] \in Seq(S)
        /\ \A i \in 1 .. n : g[i] = IF i = 1 THEN f[i] ELSE g[i - 1] \o f[i]
    BY <2>1 DEF Joins
  <2> DEFINE Good(i) == Len(g[i]) = i /\ \A j \in 1 .. i : g[i][j] = c[j]
             T == {i \in 1 .. n : ~ Good(i)}
  <2>3. ASSUME T # {} PROVE FALSE
    <3>1. PICK m \in T : \A x \in T : m <= x
      <4>1. T \subseteq Nat
        OBVIOUS
      <4> HIDE DEF T
      <4>2. QED
        BY <2>3, <4>1, LeastNumber
    <3>2. m \in 1 .. n /\ m \in Nat
      BY <3>1
    <3>3. CASE m = 1
      <4>1. g[1] = <<c[1]>>
        BY <1>1, <2>2, <3>2, <3>3
      <4>2. Good(1)
        BY <4>1
      <4>3. QED
        BY <3>1, <3>3, <4>2
    <3>4. CASE m # 1
      <4>1. m - 1 \in 1 .. n /\ ~ (m <= m - 1)
        BY <1>1, <3>2, <3>4
      <4>2. Good(m - 1)
        BY <3>1, <4>1
      <4> DEFINE a == g[m - 1]
      <4>3. g[m] = a \o <<c[m]>> /\ a \in Seq(S) /\ c[m] \in S
        BY <1>1, <2>2, <3>2, <3>4, <4>1
      <4>4. Len(a) = m - 1 /\ \A j \in 1 .. m - 1 : a[j] = c[j]
        BY <4>2
      <4> HIDE DEF a
      <4>5. a \o <<c[m]>> = Append(a, c[m])
        BY <4>3, AppendIsConcat
      <4>6. /\ Len(g[m]) = m /\ g[m][m] = c[m]
            /\ \A j \in 1 .. m - 1 : g[m][j] = a[j]
        <5>1. /\ Len(Append(a, c[m])) = Len(a) + 1 /\ Append(a, c[m])[Len(a) + 1] = c[m]
              /\ \A j \in 1 .. Len(a) : Append(a, c[m])[j] = a[j]
          BY <4>3, AppendProperties
        <5>2. m - 1 + 1 = m
          BY <3>2
        <5>3. QED
          BY <4>3, <4>4, <4>5, <5>1, <5>2
      <4>7. \A j \in 1 .. m : j = m \/ j \in 1 .. m - 1
        BY <3>2
      <4>8. Good(m)
        BY <4>4, <4>6, <4>7
      <4>9. QED
        BY <3>1, <4>8
    <3>5. QED
      BY <3>3, <3>4
  <2>4. n \in 1 .. n
    BY <1>1, <1>5
  <2>5. Good(n) /\ g[n] \in Seq(S)
    BY <2>2, <2>3, <2>4
  <2>6. QED
    BY <1>3, <2>1, <2>5
<1>6. QED
  BY <1>4, <1>5

\* A string is written with the time it has left, down to the millisecond; in its last
\* millisecond that is none.
LEMMA SetSays ==
  ASSUME Sound(snap), now \in Nat \ {0}, NEW k \in Kept
  PROVE  \E c \in Writes("SET") :
           /\ SetCommand(k) = <<c>> /\ c.key = k
           /\ AboutDue(snap.data[k]) \/ Renews(Entry(c), snap.data[k])
<1> DEFINE e == snap.data[k]
           d == e.exp - now
           left == IF e.exp = 0 THEN 0 ELSE d \div TicksPerMs
           c == [op |-> "SET", key |-> k, val |-> e.val, ttl |-> left]
<1>1. e \in Entries /\ (e.exp = 0 \/ e.exp > now) /\ now \in Nat \ {0}
  BY StoreParts DEF MapOver, Kept
<1>2. SetCommand(k) = <<c>> /\ c.key = k
  BY DEF SetCommand
<1>3. c \in Writes("SET")
  <2>1. k \in DOMAIN snap.data /\ (snap.data[k].exp = 0 \/ snap.data[k].exp > now)
    BY DEF Kept
  <2> HIDE DEF c
  <2>2. <<c>> \in Seq(Writes("SET"))
    BY <1>2, <2>1, SetRebuild
  <2>3. Len(<<c>>) = 1 /\ <<c>>[1] = c
    OBVIOUS
  <2>4. 1 \in 1 .. Len(<<c>>)
    BY <2>3
  <2>5. QED
    BY <2>2, <2>3, <2>4, ElementOfSeq
<1>4. e.exp # 0 => left \in Nat /\ now + left * TicksPerMs + TicksPerMs > e.exp
  <2> SUFFICES ASSUME e.exp # 0
               PROVE  left \in Nat /\ now + left * TicksPerMs + TicksPerMs > e.exp
    OBVIOUS
  <2>1. d \in Nat /\ now + d = e.exp /\ TicksPerMs \in Nat \ {0}
    BY <1>1, PersistenceAssumption DEF Entries
  <2>2. left = d \div TicksPerMs
    OBVIOUS
  <2> HIDE DEF e, d, left
  <2>3. left \in Nat /\ left * TicksPerMs + TicksPerMs > d
    BY <2>1, <2>2
  <2> DEFINE ticks == left * TicksPerMs
  <2>4. ticks \in Nat
    BY <2>1, <2>3
  <2>5. ticks + TicksPerMs > d
    BY <2>3
  <2> HIDE DEF ticks
  <2>6. now + ticks + TicksPerMs > now + d
    BY <1>1, <2>1, <2>4, <2>5
  <2>7. QED
    BY <2>1, <2>3, <2>6 DEF ticks
<1>5. c.val = e.val /\ c.ttl = left /\ (e.exp = 0 => left = 0)
  OBVIOUS
<1> HIDE DEF c, left, d, e
<1>6. AboutDue(e) \/ Renews(Entry(c), e)
  <2>1. CASE c.ttl > 0
    <3>1. Entry(c) = [val |-> c.val, exp |-> now + left * TicksPerMs]
      BY <1>5, <2>1 DEF Entry, Deadline
    <3>2. e.exp # 0 /\ left \in Nat
      BY <1>4, <1>5, <2>1
    <3> DEFINE ticks == left * TicksPerMs
    <3>3. ticks \in Nat
      BY <3>2, PersistenceAssumption
    <3>4. now + ticks + TicksPerMs > e.exp /\ Entry(c) = [val |-> c.val, exp |-> now + ticks]
      BY <1>4, <3>1, <3>2
    <3> HIDE DEF ticks
    <3>5. now + ticks # 0
      BY <1>1, <3>3
    <3>6. QED
      BY <1>5, <3>2, <3>4, <3>5 DEF Renews
  <2>2. CASE ~ (c.ttl > 0) /\ e.exp = 0
    <3>1. Entry(c) = [val |-> c.val, exp |-> 0]
      BY <2>2 DEF Entry
    <3>2. QED
      BY <1>5, <2>2, <3>1 DEF Renews
  <2>3. CASE ~ (c.ttl > 0) /\ e.exp # 0
    <3>1. left = 0
      BY <1>4, <1>5, <2>3
    <3>2. now + TicksPerMs > e.exp
      BY <1>1, <1>4, <2>3, <3>1, PersistenceAssumption
    <3>3. QED
      BY <1>1, <2>3, <3>2, PersistenceAssumption DEF AboutDue, Entries
  <2>4. QED
    BY <2>1, <2>2, <2>3
<1>7. QED
  BY <1>2, <1>3, <1>6 DEF e

\* Commands on lists and hashes leave strings alone.
LEMMA OthersQuiet ==
  ASSUME NEW op \in {"RPUSH", "HSET"}, NEW q \in Seq(Writes(op)), NEW k
  PROVE  Quiet(q, 1, Len(q), k)
<1>1. \A i \in 1 .. Len(q) : q[i] \in Writes(op)
  BY ElementOfSeq
<1>2. QED
  BY <1>1 DEF Quiet, Touches, Makes, Clears, Writes

\* Rewritten files hold no other commands.
LEMMA WritesWholly ==
  ASSUME NEW op \in {"SET", "RPUSH", "HSET"}, NEW q \in Seq(Writes(op))
  PROVE  q \in Seq(Whole)
<1>1. DOMAIN q = 1 .. Len(q) /\ Len(q) \in Nat /\ q = [i \in 1 .. Len(q) |-> q[i]]
  BY LenProperties
<1>2. \A i \in 1 .. Len(q) : q[i] \in Whole
  BY ElementOfSeq DEF Writes, Rebuilds, Whole
<1>3. QED
  BY <1>1, <1>2, PartsAreSeq

\* What a rewrite writes says of each string that is not about due what its snapshot
\* says.
LEMMA SnapshotSays ==
  ASSUME Sound(snap), now \in Nat \ {0}, NEW base \in SnapshotLogs
  PROVE  /\ base \in Seq(Whole)
         /\ \A k \in Kept :
              AboutDue(snap.data[k]) \/ LastSays(base, 1, Len(base), k, snap.data[k])
<1>1. PICK strings \in Orders(Kept), lists \in Orders(DOMAIN snap.lists),
           hashes \in Orders(DOMAIN snap.hashes), order \in FieldOrders :
        /\ \A k \in DOMAIN snap.hashes : order[k] \in Orders(DOMAIN snap.hashes[k])
        /\ base = (ForEach(strings, SetCommand) \o ForEach(lists, PushCommands))
                    \o WrittenHashes(hashes, order)
  BY SnapshotParts
<1> DEFINE p == ForEach(strings, SetCommand)
           q == ForEach(lists, PushCommands)
           r == WrittenHashes(hashes, order)
           n == Len(strings)
           f == [i \in DOMAIN strings |-> SetCommand(strings[i])]
           Of(k) == CHOOSE c \in Writes("SET") :
                      /\ SetCommand(k) = <<c>> /\ c.key = k
                      /\ AboutDue(snap.data[k]) \/ Renews(Entry(c), snap.data[k])
           cs == [i \in 1 .. n |-> Of(strings[i])]
<1>2. q \in Seq(Writes("RPUSH")) /\ r \in Seq(Writes("HSET"))
  BY <1>1, ListsRebuild, HashesRebuild
<1>3. /\ strings \in Seq(Kept) /\ n \in Nat /\ DOMAIN strings = 1 .. n
      /\ \A i \in 1 .. n : strings[i] \in Kept
      /\ \A i, j \in 1 .. n : strings[i] = strings[j] => i = j
      /\ \A x \in Kept : \E i \in 1 .. n : strings[i] = x
  <2>1. DOMAIN snap.data \subseteq Keys /\ Kept \subseteq DOMAIN snap.data
    BY StoreParts DEF MapOver, Kept
  <2>2. Kept \subseteq Keys /\ IsFiniteSet(Keys)
    BY <2>1, PersistenceAssumption
  <2>3. /\ strings \in Seq(Kept)
        /\ \A i, j \in 1 .. n : strings[i] = strings[j] => i = j
        /\ \A x \in Kept : \E i \in 1 .. n : strings[i] = x
    BY <2>2, OrderOfKeys
  <2>4. QED
    BY <2>3, LenProperties, ElementOfSeq
<1>4. \A k \in Kept : /\ Of(k) \in Writes("SET") /\ SetCommand(k) = <<Of(k)>> /\ Of(k).key = k
                      /\ AboutDue(snap.data[k]) \/ Renews(Entry(Of(k)), snap.data[k])
  <2> TAKE k \in Kept
  <2>1. \E c \in Writes("SET") :
          /\ SetCommand(k) = <<c>> /\ c.key = k
          /\ AboutDue(snap.data[k]) \/ Renews(Entry(c), snap.data[k])
    BY SetSays
  <2>2. QED
    BY <2>1, Zenon
<1> HIDE DEF Of
<1>5. DOMAIN f = 1 .. n /\ f = [i \in 1 .. n |-> f[i]]
  BY <1>3
<1>6. \A i \in 1 .. n : f[i] = <<cs[i]>> /\ cs[i] \in Writes("SET") /\ cs[i] = Of(strings[i])
  BY <1>3, <1>4
<1>a. cs = [i \in 1 .. n |-> cs[i]]
  OBVIOUS
<1>7. p = FlattenSeq(f)
  BY Zenon DEF ForEach
<1> HIDE DEF f, cs
<1>8. p \in Seq(Writes("SET")) /\ Len(p) = n /\ \A i \in 1 .. n : p[i] = Of(strings[i])
  <2>1. /\ FlattenSeq(f) \in Seq(Writes("SET")) /\ Len(FlattenSeq(f)) = n
        /\ \A i \in 1 .. n : FlattenSeq(f)[i] = cs[i]
    <3> DEFINE S == Writes("SET")
    <3> HIDE DEF n, S, p, q, r
    <3>1. \A x \in S : <<x>> \in Seq(S)
      OBVIOUS
    <3>2. \A i \in 1 .. n : f[i] \in Seq(S)
      BY <1>6, <3>1 DEF S
    <3>3. f \in Seq(Seq(S)) /\ n \in Nat
      BY <1>3, <1>5, <3>2, PartsAreSeq
    <3>4. Len(f) = n
      BY <1>5, <3>3, LenProperties
    <3>5. cs \in [1 .. Len(f) -> S] /\ \A i \in 1 .. Len(f) : f[i] = <<cs[i]>>
      BY <1>6, <1>a, <3>4 DEF S
    <3>6. /\ FlattenSeq(f) \in Seq(S) /\ Len(FlattenSeq(f)) = Len(f)
          /\ \A i \in 1 .. Len(f) : FlattenSeq(f)[i] = cs[i]
      BY <3>3, <3>5, FlattenSingles
    <3>7. QED
      BY <3>4, <3>6 DEF S
  <2>2. QED
    BY <1>6, <1>7, <2>1
<1>9. base = (p \o q) \o r
  BY <1>1
<1> HIDE DEF p, q, r, n
<1>10. p \in Seq(Whole) /\ q \in Seq(Whole) /\ r \in Seq(Whole)
  BY <1>2, <1>8, WritesWholly
<1> DEFINE o == p \o q
<1>11. o \in Seq(Whole) /\ base = o \o r /\ Len(o) = Len(p) + Len(q)
  BY <1>9, <1>10, ConcatProperties
<1>12. base \in Seq(Whole) /\ Len(base) = Len(o) + Len(r)
  <2> HIDE DEF o
  <2>1. QED
    BY <1>10, <1>11, ConcatProperties
<1>13. ASSUME NEW k \in Kept, ~ AboutDue(snap.data[k])
       PROVE  LastSays(base, 1, Len(base), k, snap.data[k])
  <2> DEFINE e == snap.data[k]
  <2>1. PICK i \in 1 .. n : strings[i] = k
    BY <1>3
  <2>2. Makes(p[i], k) /\ Renews(Entry(p[i]), e)
    <3>1. p[i] \in Writes("SET") /\ p[i].key = k /\ Renews(Entry(p[i]), e)
      BY <1>4, <1>8, <1>13, <2>1
    <3>2. QED
      BY <3>1 DEF Writes, Makes
  <2> HIDE DEF e
  <2>3. Quiet(p, i + 1, n, k)
    <3> SUFFICES ASSUME NEW j \in i + 1 .. n PROVE ~ Touches(p[j], k)
      BY DEF Quiet
    <3>1. j \in 1 .. n /\ j # i
      BY <1>3
    <3>2. strings[j] # k /\ strings[j] \in Kept
      BY <1>3, <2>1, <3>1
    <3>3. p[j] \in Writes("SET") /\ p[j].key # k
      BY <1>4, <1>8, <3>1, <3>2
    <3>4. QED
      BY <3>3 DEF Touches, Makes, Clears, Writes
  <2>4. LastSays(p, 1, Len(p), k, e)
    BY <1>8, <2>2, <2>3 DEF LastSays
  <2>5. Quiet(q, 1, Len(q), k) /\ Quiet(r, 1, Len(r), k)
    BY <1>2, OthersQuiet
  <2>6. LastSays(o, 1, Len(o), k, e)
    BY <1>10, <1>11, <2>4, <2>5, SaysConcat
  <2> HIDE DEF o
  <2>7. LastSays(o \o r, 1, Len(o) + Len(r), k, e)
    BY <1>10, <1>11, <2>5, <2>6, SaysConcat
  <2>8. QED
    BY <1>11, <1>12, <2>7 DEF e
<1>14. QED
  BY <1>12, <1>13

\* While no time passes.
LEMMA SameTime ==
  ASSUME now' = now
  PROVE  /\ \A e : AboutDue(e)' <=> AboutDue(e)
         /\ \A q, m, n, k, e : LastSays(q, m, n, k, e)' <=> LastSays(q, m, n, k, e)
<1>1. \A e : AboutDue(e)' <=> AboutDue(e)
  BY DEF AboutDue
<1>2. \A c : Entry(c)' = Entry(c)
  BY DEF Entry, Deadline
<1>3. \A q, m, n, k, e : LastSays(q, m, n, k, e)' <=> LastSays(q, m, n, k, e)
  BY <1>2 DEF LastSays
<1>4. QED
  BY <1>1, <1>3

\* A command of the file, the next to be replayed.
LEMMA SaysOn ==
  ASSUME NEW q \in Seq(Whole), NEW n \in 1 .. Len(q), NEW k, NEW e
  PROVE  /\ Makes(q[n], k) /\ Renews(Entry(q[n]), e) => LastSays(q, 1, n, k, e)
         /\ ~ Touches(q[n], k) /\ LastSays(q, 1, n - 1, k, e) => LastSays(q, 1, n, k, e)
<1>1. Len(q) \in Nat /\ n \in Nat \ {0}
  BY LenProperties
<1>2. ASSUME Makes(q[n], k), Renews(Entry(q[n]), e)
      PROVE  LastSays(q, 1, n, k, e)
  <2>1. n \in 1 .. n /\ Quiet(q, n + 1, n, k)
    BY <1>1 DEF Quiet
  <2>2. QED
    BY <1>2, <2>1 DEF LastSays
<1>3. ASSUME ~ Touches(q[n], k), LastSays(q, 1, n - 1, k, e)
      PROVE  LastSays(q, 1, n, k, e)
  <2>1. PICK i \in 1 .. n - 1 :
          Makes(q[i], k) /\ Renews(Entry(q[i]), e) /\ Quiet(q, i + 1, n - 1, k)
    BY <1>3 DEF LastSays
  <2>2. i \in 1 .. n /\ \A j \in i + 1 .. n : j = n \/ j \in i + 1 .. n - 1
    BY <1>1
  <2>3. Quiet(q, i + 1, n, k)
    BY <1>3, <2>1, <2>2 DEF Quiet
  <2>4. QED
    BY <2>1, <2>2, <2>3 DEF LastSays
<1>4. QED
  BY <1>2, <1>3

\* What a command leaves of strings: its own, and those that were there.
LEMMA WholeLeaves ==
  ASSUME NEW c \in Whole, Sound(s), now \in Nat \ {0}, MaxMemory = 0,
         NEW k \in DOMAIN Effect(c).data
  PROVE  \/ Makes(c, k) /\ Renews(Entry(c), Effect(c).data[k])
         \/ ~ Touches(c, k) /\ k \in DOMAIN s.data /\ Effect(c).data[k] = s.data[k]
<1>1. Succeeds(c) /\ c \in Commands
  BY WholeEffect DEF Whole
<1>2. ~ Clears(c, k)
  BY <1>1, EffectSound
<1>3. CASE Makes(c, k)
  <2>1. Effect(c).data[k] = Entry(c)
    BY <1>3, WholeEffect
  <2>2. Renews(Entry(c), Entry(c))
    BY <1>3, EntryRenews
  <2>3. QED
    BY <1>3, <2>1, <2>2
<1>4. CASE ~ Makes(c, k)
  <2>1. ~ Touches(c, k)
    BY <1>2, <1>4 DEF Touches
  <2>2. QED
    BY <2>1, WholeEffect
<1>5. QED
  BY <1>3, <1>4

\* When the process starts.
LEMMA StringInit == Init => StringParts
<1> SUFFICES ASSUME Init PROVE StringParts
  OBVIOUS
<1>1. /\ s = Empty /\ log = <<>> /\ buf = <<>> /\ snap = NoSnap /\ pos = 0 /\ before = Empty
  BY DEF Init
<1>2. DOMAIN s.data = {} /\ MapOver(before.data, Keys, Entries)
  <2>1. Empty.data = <<>>
    BY DEF Empty
  <2>2. QED
    BY <1>1, <2>1, EmptyMap
<1>3. log \in Seq(Whole) /\ buf \in Seq(Whole) /\ Len(log) = 0
  BY <1>1
<1>4. WholeState
  BY <1>1, <1>2, <1>3 DEF WholeState
<1>5. QED
  BY <1>1, <1>2, <1>4 DEF StringParts, StringsLogged, StringsMirrored, StringsReplayed

\* Commands.
LEMMA ExecuteStrings ==
  ASSUME Typed, StringParts, MaxMemory = 0, WritesWhole, NEW c \in work.commands, Execute(c)
  PROVE  StringParts'
<1>1. /\ pos = 0 /\ s' = Effect(c) /\ log' = Append(log, c)
      /\ buf' = IF snap # NoSnap THEN Append(buf, c) ELSE buf
      /\ UNCHANGED <<now, snap, pos, before>>
  BY DEF Execute, Serving
<1>2. /\ c \in Whole /\ log \in Seq(Whole) /\ buf \in Seq(Whole) /\ Sound(s) /\ now \in Nat \ {0}
      /\ MapOver(before.data, Keys, Entries)
  BY DEF Typed, WritesWhole, StringParts, WholeState
<1>3. /\ \A e : AboutDue(e)' <=> AboutDue(e)
      /\ \A q, m, n, k, e : LastSays(q, m, n, k, e)' <=> LastSays(q, m, n, k, e)
  BY <1>1, SameTime
<1>4. /\ Len(log) \in Nat /\ Len(log') = Len(log) + 1 /\ log' \in Seq(Whole)
      /\ Len(Append(buf, c)) = Len(buf) + 1 /\ buf' \in Seq(Whole)
  BY <1>1, <1>2, AppendProperties, LenProperties
<1>5. WholeState'
  BY <1>1, <1>2, <1>4 DEF WholeState
<1>6. \A k \in DOMAIN s'.data :
        \/ Makes(c, k) /\ Renews(Entry(c), s'.data[k])
        \/ ~ Touches(c, k) /\ k \in DOMAIN s.data /\ s'.data[k] = s.data[k]
  BY <1>1, <1>2, WholeLeaves
<1>7. StringsLogged'
  <2> SUFFICES ASSUME NEW k \in DOMAIN s'.data
               PROVE  AboutDue(s'.data[k]) \/ LastSays(log', 1, Len(log'), k, s'.data[k])
    BY <1>1, <1>3 DEF StringsLogged, Reached
  <2> DEFINE e == s'.data[k]
  <2> HIDE DEF e
  <2>1. CASE Makes(c, k) /\ Renews(Entry(c), e)
    BY <1>1, <1>2, <1>4, <2>1, SaysAppend DEF e
  <2>2. CASE ~ Touches(c, k) /\ k \in DOMAIN s.data /\ e = s.data[k]
    <3>1. AboutDue(e) \/ LastSays(log, 1, Len(log), k, e)
      BY <1>1, <2>2 DEF StringParts, StringsLogged, Reached
    <3>2. QED
      BY <1>1, <1>2, <1>4, <2>2, <3>1, SaysAppend DEF e
  <2>3. QED
    BY <1>6, <2>1, <2>2 DEF e
<1>8. StringsMirrored'
  <2> SUFFICES ASSUME snap # NoSnap, NEW k \in DOMAIN s'.data
               PROVE  \/ AboutDue(s'.data[k])
                      \/ LastSays(buf', 1, Len(buf'), k, s'.data[k])
                      \/ /\ k \in DOMAIN snap.data /\ snap.data[k] = s'.data[k]
                         /\ Quiet(buf', 1, Len(buf'), k)
    BY <1>1, <1>3 DEF StringsMirrored, NoSnap
  <2> DEFINE e == s'.data[k]
  <2> HIDE DEF e
  <2>1. buf' = Append(buf, c) /\ Len(buf') = Len(buf) + 1
    BY <1>1, <1>4
  <2>2. CASE Makes(c, k) /\ Renews(Entry(c), e)
    BY <1>2, <2>1, <2>2, SaysAppend DEF e
  <2>3. CASE ~ Touches(c, k) /\ k \in DOMAIN s.data /\ e = s.data[k]
    <3>1. \/ AboutDue(e) \/ LastSays(buf, 1, Len(buf), k, e)
          \/ k \in DOMAIN snap.data /\ snap.data[k] = e /\ Quiet(buf, 1, Len(buf), k)
      BY <2>3 DEF StringParts, StringsMirrored
    <3>2. QED
      BY <1>2, <2>1, <2>3, <3>1, SaysAppend DEF e
  <2>4. QED
    BY <1>6, <2>2, <2>3 DEF e
<1>9. StringsReplayed'
  BY <1>1 DEF StringsReplayed
<1>10. QED
  BY <1>5, <1>7, <1>8, <1>9 DEF StringParts

\* A string that expires had little time left, also if it was replayed.
LEMMA SweepStrings ==
  ASSUME Typed, StringParts, NEW x \in Keys, Sweep(x)
  PROVE  StringParts'
<1>1. /\ x \in DOMAIN s.data /\ Expired(s.data[x], now) /\ s' = DeleteExpired(s, {x})
      /\ UNCHANGED <<now, log, snap, buf, pos, before>>
  BY DEF Sweep
<1>2. Sound(s) /\ now \in Nat \ {0} /\ MapOver(before.data, Keys, Entries)
  BY DEF Typed, StringParts, WholeState
<1>3. /\ \A e : AboutDue(e)' <=> AboutDue(e)
      /\ \A q, m, n, k, e : LastSays(q, m, n, k, e)' <=> LastSays(q, m, n, k, e)
  BY <1>1, SameTime
<1>4. /\ DOMAIN s'.data = DOMAIN s.data \ {x}
      /\ \A k \in DOMAIN s.data \ {x} : s'.data[k] = s.data[k]
  <2> DEFINE d == Drop(s.data, {x})
             e == s.expiryKeys \ {x}
  <2>1. s' = [s EXCEPT !.data = d, !.expiryKeys = e]
    BY <1>1 DEF DeleteExpired
  <2>2. DOMAIN d = DOMAIN s.data \ {x} /\ \A k \in DOMAIN s.data \ {x} : d[k] = s.data[k]
    BY DEF Drop, Restrict
  <2> HIDE DEF d, e
  <2>3. s' = [data |-> d, lists |-> s.lists, hashes |-> s.hashes, expiryKeys |-> e]
    BY <1>2, <2>1, AssignTwo, Zenon
  <2>4. s'.data = d
    BY <2>3
  <2>5. QED
    BY <2>2, <2>4
<1>5. WholeState'
  BY <1>1 DEF StringParts, WholeState
<1>6. StringsLogged'
  BY <1>1, <1>3, <1>4 DEF StringParts, StringsLogged, Reached
<1>7. StringsMirrored'
  BY <1>1, <1>3, <1>4 DEF StringParts, StringsMirrored, NoSnap
<1>8. StringsReplayed'
  <2> SUFFICES ASSUME pos # 0, NEW k \in DOMAIN before.data
               PROVE  \/ AboutDue(before.data[k])
                      \/ LastSays(log, pos, Len(log), k, before.data[k])
                      \/ /\ k \in DOMAIN s'.data /\ Renews(s'.data[k], before.data[k])
                         /\ Quiet(log, pos, Len(log), k)
    BY <1>1, <1>3 DEF StringsReplayed
  <2> DEFINE e == before.data[k]
  <2>1. e \in Entries
    BY <1>2 DEF MapOver
  <2> HIDE DEF e
  <2>2. \/ AboutDue(e) \/ LastSays(log, pos, Len(log), k, e)
        \/ k \in DOMAIN s.data /\ Renews(s.data[k], e) /\ Quiet(log, pos, Len(log), k)
    BY DEF StringParts, StringsReplayed, e
  <2>3. CASE k = x /\ Renews(s.data[k], e)
    <3>1. s.data[x] \in Entries
      BY <1>1, <1>2, StoreParts DEF MapOver
    <3>2. AboutDue(e)
      BY <1>1, <1>2, <2>1, <2>3, <3>1, PersistenceAssumption
         DEF Entries, Expired, Renews, AboutDue
    <3>3. QED
      BY <3>2 DEF e
  <2>4. CASE k # x
    BY <1>4, <2>2, <2>4 DEF e
  <2>5. QED
    BY <2>2, <2>3, <2>4 DEF e
<1>9. QED
  BY <1>5, <1>6, <1>7, <1>8 DEF StringParts

\* Time passes.
LEMMA TickStrings ==
  ASSUME Typed, StringParts, Tick
  PROVE  StringParts'
<1>1. now' = now + 1 /\ UNCHANGED <<s, log, snap, buf, pos, before>>
  BY DEF Tick
<1>2. /\ Sound(s) /\ now \in Nat \ {0} /\ now' \in Nat /\ now <= now'
      /\ MapOver(before.data, Keys, Entries) /\ MapOver(s.data, Keys, Entries)
      /\ log \in Seq(Whole) /\ buf \in Seq(Whole) /\ pos \in 0 .. Len(log) + 1
  BY <1>1, StoreParts DEF Typed, StringParts, WholeState
<1>3. Len(log) \in Nat /\ Len(buf) \in Nat
  BY <1>2, LenProperties
<1>4. \A e \in Entries : AboutDue(e) => AboutDue(e)'
  BY <1>2, LaterDue
<1>5. ASSUME NEW q \in Seq(Whole), NEW m \in Nat \ {0}, NEW n \in Nat, n <= Len(q), NEW k,
             NEW e \in Entries, LastSays(q, m, n, k, e)
      PROVE  LastSays(q, m, n, k, e)'
  BY <1>2, <1>5, LaterSays
<1>6. WholeState'
  BY <1>1, <1>2 DEF WholeState
<1>7. StringsLogged'
  <2>1. Reached \in Nat /\ Reached <= Len(log) /\ Reached' = Reached
    BY <1>1, <1>2, <1>3 DEF Reached
  <2> SUFFICES ASSUME NEW k \in DOMAIN s.data
               PROVE  AboutDue(s.data[k])' \/ LastSays(log, 1, Reached, k, s.data[k])'
    BY <1>1, <2>1 DEF StringsLogged
  <2>2. s.data[k] \in Entries
    BY <1>2 DEF MapOver
  <2>3. AboutDue(s.data[k]) \/ LastSays(log, 1, Reached, k, s.data[k])
    BY DEF StringParts, StringsLogged
  <2>4. LastSays(log, 1, Reached, k, s.data[k]) => LastSays(log, 1, Reached, k, s.data[k])'
    BY <1>1, <1>2, <1>5, <2>1, <2>2
  <2>5. QED
    BY <1>1, <1>4, <2>2, <2>3, <2>4
<1>8. StringsMirrored'
  <2> SUFFICES ASSUME snap # NoSnap, NEW k \in DOMAIN s.data
               PROVE  \/ AboutDue(s.data[k])'
                      \/ LastSays(buf, 1, Len(buf), k, s.data[k])'
                      \/ /\ k \in DOMAIN snap.data /\ snap.data[k] = s.data[k]
                         /\ Quiet(buf, 1, Len(buf), k)
    BY <1>1 DEF StringsMirrored, NoSnap, StringParts
  <2>1. s.data[k] \in Entries
    BY <1>2 DEF MapOver
  <2>2. \/ AboutDue(s.data[k]) \/ LastSays(buf, 1, Len(buf), k, s.data[k])
        \/ /\ k \in DOMAIN snap.data /\ snap.data[k] = s.data[k]
           /\ Quiet(buf, 1, Len(buf), k)
    BY DEF StringParts, StringsMirrored
  <2>3. QED
    BY <1>1, <1>2, <1>3, <1>4, <1>5, <2>1, <2>2
<1>9. StringsReplayed'
  <2> SUFFICES ASSUME pos # 0, NEW k \in DOMAIN before.data
               PROVE  \/ AboutDue(before.data[k])'
                      \/ LastSays(log, pos, Len(log), k, before.data[k])'
                      \/ /\ k \in DOMAIN s.data /\ Renews(s.data[k], before.data[k])
                         /\ Quiet(log, pos, Len(log), k)
    BY <1>1 DEF StringsReplayed
  <2>1. before.data[k] \in Entries /\ pos \in Nat \ {0}
    BY <1>2, <1>3 DEF MapOver
  <2>2. \/ AboutDue(before.data[k]) \/ LastSays(log, pos, Len(log), k, before.data[k])
        \/ /\ k \in DOMAIN s.data /\ Renews(s.data[k], before.data[k])
           /\ Quiet(log, pos, Len(log), k)
    BY DEF StringParts, StringsReplayed
  <2>3. QED
    BY <1>1, <1>2, <1>3, <1>4, <1>5, <2>1, <2>2
<1>10. QED
  BY <1>6, <1>7, <1>8, <1>9 DEF StringParts

\* A rewrite begins: nothing is mirrored, the snapshot is the store.
LEMMA BeginStrings ==
  ASSUME Typed, StringParts, RewriteBegin
  PROVE  StringParts'
<1>1. pos = 0 /\ snap' = s /\ buf' = <<>> /\ UNCHANGED <<s, now, log, pos, before>>
  BY DEF RewriteBegin, Serving
<1>2. /\ \A e : AboutDue(e)' <=> AboutDue(e)
      /\ \A q, m, n, k, e : LastSays(q, m, n, k, e)' <=> LastSays(q, m, n, k, e)
  BY <1>1, SameTime
<1>3. buf' \in Seq(Whole) /\ \A k : Quiet(buf', 1, Len(buf'), k)
  BY <1>1 DEF Quiet
<1>4. WholeState' /\ StringsLogged' /\ StringsReplayed'
  BY <1>1, <1>2, <1>3 DEF StringParts, WholeState, StringsLogged, Reached, StringsReplayed
<1>5. StringsMirrored'
  BY <1>1, <1>2, <1>3 DEF StringsMirrored
<1>6. QED
  BY <1>4, <1>5 DEF StringParts

\* It ends: what was not mirrored is in the snapshot, and written unless about due.
LEMMA EndStrings ==
  ASSUME Typed, StringParts, RewriteEnd
  PROVE  StringParts'
<1>1. /\ pos = 0 /\ snap # NoSnap /\ snap' = NoSnap /\ buf' = <<>>
      /\ UNCHANGED <<s, now, pos, before>>
  BY DEF RewriteEnd, Serving
<1>2. PICK base \in SnapshotLogs : log' = base \o buf
  BY DEF RewriteEnd
<1>3. /\ Sound(s) /\ Sound(snap) /\ now \in Nat \ {0} /\ buf \in Seq(Whole)
      /\ MapOver(before.data, Keys, Entries)
  BY <1>1 DEF Typed, StringParts, WholeState
<1>4. /\ \A e : AboutDue(e)' <=> AboutDue(e)
      /\ \A q, m, n, k, e : LastSays(q, m, n, k, e)' <=> LastSays(q, m, n, k, e)
  BY <1>1, SameTime
<1>5. /\ base \in Seq(Whole)
      /\ \A k \in Kept :
           AboutDue(snap.data[k]) \/ LastSays(base, 1, Len(base), k, snap.data[k])
  BY <1>3, SnapshotSays
<1>6. log' \in Seq(Whole) /\ Len(log') = Len(base) + Len(buf) /\ Len(log') \in Nat
  BY <1>2, <1>3, <1>5, ConcatProperties, LenProperties
<1>7. buf' \in Seq(Whole)
  BY <1>1
<1>8. WholeState'
  BY <1>1, <1>3, <1>6, <1>7 DEF WholeState
<1>9. StringsLogged'
  <2> SUFFICES ASSUME NEW k \in DOMAIN s.data
               PROVE  AboutDue(s.data[k]) \/ LastSays(log', 1, Len(log'), k, s.data[k])
    BY <1>1, <1>4 DEF StringsLogged, Reached
  <2> DEFINE e == s.data[k]
  <2>1. e \in Entries
    BY <1>3, StoreParts DEF MapOver
  <2>2. \/ AboutDue(e) \/ LastSays(buf, 1, Len(buf), k, e)
        \/ k \in DOMAIN snap.data /\ snap.data[k] = e /\ Quiet(buf, 1, Len(buf), k)
    BY <1>1 DEF StringParts, StringsMirrored
  <2> HIDE DEF e
  <2>3. CASE LastSays(buf, 1, Len(buf), k, e)
    BY <1>2, <1>3, <1>5, <1>6, <2>3, SaysConcat DEF e
  <2>4. CASE /\ k \in DOMAIN snap.data /\ snap.data[k] = e /\ Quiet(buf, 1, Len(buf), k)
             /\ ~ AboutDue(e)
    <3>1. k \in Kept
      <4>1. e.exp = 0 \/ e.exp > now
        BY <1>3, <2>1, <2>4, PersistenceAssumption DEF AboutDue, Entries
      <4>2. QED
        BY <2>4, <4>1 DEF Kept
    <3>2. LastSays(base, 1, Len(base), k, e)
      BY <1>5, <2>4, <3>1
    <3>3. QED
      BY <1>2, <1>3, <1>5, <1>6, <2>4, <3>2, SaysConcat DEF e
  <2>5. QED
    BY <2>2, <2>3, <2>4 DEF e
<1>10. StringsMirrored' /\ StringsReplayed'
  BY <1>1 DEF StringsMirrored, StringsReplayed
<1>11. QED
  BY <1>8, <1>9, <1>10 DEF StringParts

\* The process dies: the file has all that a client could see.
LEMMA CrashStrings ==
  ASSUME Typed, StringParts, Crash
  PROVE  StringParts'
<1> DEFINE d == RestrictValues(s.data, TimeLeft)
           x == {k \in s.expiryKeys : TimeLeft(s.data[k])}
           K == {k \in DOMAIN s.data : TimeLeft(s.data[k])}
<1>1. /\ pos = 0 /\ s' = Empty /\ pos' = 1 /\ snap' = NoSnap /\ buf' = <<>>
      /\ log' = log /\ now' = now
  BY Zenon DEF Crash, Serving
<1>2. before' = [s EXCEPT !.data = d, !.expiryKeys = x]
  BY Zenon DEF Crash
<1>3. Sound(s) /\ log \in Seq(Whole) /\ MapOver(s.data, Keys, Entries)
  BY StoreParts DEF Typed, StringParts, WholeState
<1>4. /\ \A e : AboutDue(e)' <=> AboutDue(e)
      /\ \A q, m, n, k, e : LastSays(q, m, n, k, e)' <=> LastSays(q, m, n, k, e)
  BY <1>1, SameTime
<1>5. MapOver(d, Keys, Entries) /\ \A k \in DOMAIN d : k \in DOMAIN s.data /\ d[k] = s.data[k]
  <2>1. d = Restrict(s.data, K)
    BY Zenon DEF RestrictValues
  <2>2. K \subseteq DOMAIN s.data
    OBVIOUS
  <2> HIDE DEF d, K
  <2>3. QED
    BY <1>3, <2>1, <2>2 DEF Restrict, MapOver
<1> HIDE DEF d, x
<1>6. before'.data = d
  <2>1. before' = [data |-> d, lists |-> s.lists, hashes |-> s.hashes, expiryKeys |-> x]
    BY <1>2, <1>3, AssignTwo, Zenon
  <2>2. QED
    BY <2>1
<1>7. Len(log) \in Nat /\ 1 \in 0 .. Len(log) + 1 /\ buf' \in Seq(Whole)
  BY <1>1, <1>3, LenProperties
<1>8. WholeState'
  BY <1>1, <1>3, <1>5, <1>6, <1>7 DEF WholeState
<1>9. StringsLogged'
  <2>1. DOMAIN s'.data = {}
    BY <1>1, EmptyMap DEF Empty
  <2>2. QED
    BY <2>1 DEF StringsLogged
<1>10. StringsReplayed'
  <2> SUFFICES ASSUME NEW k \in DOMAIN d
               PROVE  AboutDue(d[k]) \/ LastSays(log, 1, Len(log), k, d[k])
    BY <1>1, <1>4, <1>6 DEF StringsReplayed
  <2>1. QED
    BY <1>1, <1>5 DEF StringParts, StringsLogged, Reached
<1>11. StringsMirrored'
  BY <1>1 DEF StringsMirrored
<1>12. QED
  BY <1>8, <1>9, <1>10, <1>11 DEF StringParts

\* A command is replayed: if it is the last on a string, the string is back.
LEMMA ReplayStrings ==
  ASSUME Typed, StringParts, MaxMemory = 0, ReplayCommand
  PROVE  StringParts'
<1> DEFINE c == log[pos]
<1>1. /\ pos \in DOMAIN log /\ pos' = pos + 1
      /\ s' = IF Succeeds(c) THEN Effect(c) ELSE s
      /\ UNCHANGED <<now, log, snap, buf, before>>
  BY DEF ReplayCommand
<1>2. /\ Sound(s) /\ now \in Nat \ {0} /\ log \in Seq(Whole) /\ buf \in Seq(Whole)
      /\ MapOver(before.data, Keys, Entries)
  BY DEF Typed, StringParts, WholeState
<1>3. /\ DOMAIN log = 1 .. Len(log) /\ Len(log) \in Nat /\ pos \in 1 .. Len(log)
      /\ c \in Whole /\ pos # 0 /\ pos' # 0 /\ pos' - 1 = pos /\ pos' \in 0 .. Len(log) + 1
  BY <1>1, <1>2, LenProperties, ElementOfSeq
<1>4. /\ \A e : AboutDue(e)' <=> AboutDue(e)
      /\ \A q, m, n, k, e : LastSays(q, m, n, k, e)' <=> LastSays(q, m, n, k, e)
  BY <1>1, SameTime
<1>5. s' = Effect(c)
  BY <1>1, <1>2, <1>3, WholeEffect
<1>6. snap' = NoSnap
  BY <1>1, <1>3 DEF StringParts, StringsMirrored, NoSnap
<1>7. WholeState'
  BY <1>1, <1>2, <1>3 DEF WholeState
<1>8. StringsLogged'
  <2> SUFFICES ASSUME NEW k \in DOMAIN s'.data
               PROVE  AboutDue(s'.data[k]) \/ LastSays(log, 1, pos, k, s'.data[k])
    BY <1>1, <1>3, <1>4 DEF StringsLogged, Reached
  <2> DEFINE e == s'.data[k]
  <2>1. \/ Makes(c, k) /\ Renews(Entry(c), e)
        \/ ~ Touches(c, k) /\ k \in DOMAIN s.data /\ e = s.data[k]
    BY <1>2, <1>3, <1>5, WholeLeaves
  <2> HIDE DEF e
  <2>2. CASE Makes(c, k) /\ Renews(Entry(c), e)
    BY <1>2, <1>3, <2>2, SaysOn DEF e
  <2>3. CASE ~ Touches(c, k) /\ k \in DOMAIN s.data /\ e = s.data[k]
    <3>1. AboutDue(e) \/ LastSays(log, 1, pos - 1, k, e)
      BY <1>3, <2>3 DEF StringParts, StringsLogged, Reached
    <3>2. QED
      BY <1>2, <1>3, <2>3, <3>1, SaysOn DEF e
  <2>4. QED
    BY <2>1, <2>2, <2>3
<1>9. StringsReplayed'
  <2> SUFFICES ASSUME NEW k \in DOMAIN before.data
               PROVE  \/ AboutDue(before.data[k])
                      \/ LastSays(log, pos + 1, Len(log), k, before.data[k])
                      \/ /\ k \in DOMAIN s'.data /\ Renews(s'.data[k], before.data[k])
                         /\ Quiet(log, pos + 1, Len(log), k)
    BY <1>1, <1>3, <1>4 DEF StringsReplayed
  <2> DEFINE e == before.data[k]
  <2>1. \/ AboutDue(e) \/ LastSays(log, pos, Len(log), k, e)
        \/ k \in DOMAIN s.data /\ Renews(s.data[k], e) /\ Quiet(log, pos, Len(log), k)
    BY <1>3 DEF StringParts, StringsReplayed
  <2> HIDE DEF e
  <2>2. CASE LastSays(log, pos, Len(log), k, e)
    <3>1. PICK i \in pos .. Len(log) :
            Makes(log[i], k) /\ Renews(Entry(log[i]), e) /\ Quiet(log, i + 1, Len(log), k)
      BY <2>2 DEF LastSays
    <3>2. CASE i = pos
      <4>1. k \in DOMAIN s'.data /\ s'.data[k] = Entry(c)
        BY <1>2, <1>3, <1>5, <3>1, <3>2, WholeEffect
      <4>2. QED
        BY <3>1, <3>2, <4>1 DEF e
    <3>3. CASE i # pos
      <4>1. i \in pos + 1 .. Len(log)
        BY <1>3, <3>3
      <4>2. QED
        BY <3>1, <4>1 DEF LastSays, e
    <3>4. QED
      BY <3>2, <3>3
  <2>3. CASE k \in DOMAIN s.data /\ Renews(s.data[k], e) /\ Quiet(log, pos, Len(log), k)
    <3>1. ~ Touches(c, k) /\ Quiet(log, pos + 1, Len(log), k)
      BY <1>3, <2>3 DEF Quiet
    <3>2. k \in DOMAIN s'.data /\ s'.data[k] = s.data[k]
      BY <1>2, <1>3, <1>5, <2>3, <3>1, WholeEffect
    <3>3. QED
      BY <2>3, <3>1, <3>2 DEF e
  <2>4. QED
    BY <2>1, <2>2, <2>3 DEF e
<1>10. StringsMirrored'
  BY <1>6 DEF StringsMirrored
<1>11. QED
  BY <1>7, <1>8, <1>9, <1>10 DEF StringParts

\* The server accepts connections.
LEMMA ServeStrings ==
  ASSUME Typed, StringParts, Serve
  PROVE  StringParts'
<1>1. pos = Len(log) + 1 /\ pos' = 0 /\ UNCHANGED <<s, now, log, snap, buf, before>>
  BY DEF Serve, Replayed
<1>2. /\ \A e : AboutDue(e)' <=> AboutDue(e)
      /\ \A q, m, n, k, e : LastSays(q, m, n, k, e)' <=> LastSays(q, m, n, k, e)
  BY <1>1, SameTime
<1>3. Len(log) \in Nat /\ pos # 0 /\ pos - 1 = Len(log)
  BY <1>1, LenProperties DEF Typed
<1>4. WholeState'
  BY <1>1, <1>3 DEF StringParts, WholeState
<1>5. StringsLogged'
  BY <1>1, <1>2, <1>3 DEF StringParts, StringsLogged, Reached
<1>6. snap' = NoSnap
  BY <1>1, <1>3 DEF StringParts, StringsMirrored, NoSnap
<1>7. QED
  BY <1>1, <1>4, <1>5, <1>6 DEF StringParts, StringsMirrored, StringsReplayed

\* At all times, when there is no ceiling and strings are written whole.
LEMMA StringInductive == Spec => []StringInv
<1>1. ASSUME PersistInv, StringInv, [Next]_vars
      PROVE  StringInv'
  <2>1. CASE Next
    <3>1. work' = work
      BY <2>1 DEF Next
    <3>2. SUFFICES ASSUME MaxMemory = 0, WritesWhole PROVE StringParts'
      BY <3>1 DEF StringInv, WritesWhole
    <3>3. Typed /\ StringParts
      BY <1>1, <3>2 DEF StringInv, PersistInv
    <3>4. CASE \E c \in work.commands : Execute(c)
      BY <3>2, <3>3, <3>4, ExecuteStrings
    <3>5. CASE \E k \in Keys : Sweep(k)
      BY <3>3, <3>5, SweepStrings
    <3>6. CASE Tick
      BY <3>3, <3>6, TickStrings
    <3>7. CASE RewriteBegin
      BY <3>3, <3>7, BeginStrings
    <3>8. CASE RewriteEnd
      BY <3>3, <3>8, EndStrings
    <3>9. CASE Crash
      BY <3>3, <3>9, CrashStrings
    <3>10. CASE ReplayCommand
      BY <3>2, <3>3, <3>10, ReplayStrings
    <3>11. CASE Serve
      BY <3>3, <3>11, ServeStrings
    <3>12. QED
      BY <2>1, <3>4, <3>5, <3>6, <3>7, <3>8, <3>9, <3>10, <3>11 DEF Next
  <2>2. CASE UNCHANGED vars
    <3>1. UNCHANGED <<work, s, now, log, snap, buf, pos, before>>
      BY <2>2 DEF vars
    <3>2. /\ \A e : AboutDue(e)' <=> AboutDue(e)
          /\ \A q, m, n, k, e : LastSays(q, m, n, k, e)' <=> LastSays(q, m, n, k, e)
      BY <3>1, SameTime
    <3>3. StringParts' <=> StringParts
      BY <3>1, <3>2 DEF StringParts, WholeState, StringsLogged, StringsMirrored,
                        StringsReplayed, Reached, NoSnap
    <3>4. QED
      BY <1>1, <3>1, <3>3 DEF StringInv, WritesWhole
  <2>3. QED
    BY <1>1, <2>1, <2>2
<1>2. Init => StringInv
  BY StringInit DEF StringInv
<1>3. QED
  BY <1>1, <1>2, PersistInductive, PTL DEF Spec

\* After a restart every string that had time to live is back with its value, due no
\* more than a millisecond earlier than before and without a deadline only if it had
\* none or was about due, and lists and hashes are back to the last element; when there
\* is no ceiling, and either no command sets a TTL, or strings are written by SET alone
\* (store/aof.go writeSnapshot, Replay; a rewrite cuts the remaining time to
\* milliseconds, writes its snapshot before what was mirrored, and the sampler runs
\* while the file is replayed).
THEOREM LiveSurvivesRestart ==
  Spec => [](MaxMemory = 0 /\ (NoTTLs \/ WritesWhole) => RestartKeepsLive)
<1>1. ASSUME PersistInv, RestartInv, RestartRebuilds, BareInv, StringInv
      PROVE  MaxMemory = 0 /\ (NoTTLs \/ WritesWhole) => RestartKeepsLive
  <2> SUFFICES ASSUME MaxMemory = 0, NoTTLs \/ WritesWhole, Replayed
               PROVE  /\ s.lists = before.lists /\ s.hashes = before.hashes
                      /\ \A k \in DOMAIN before.data :
                           \/ k \in DOMAIN s.data /\ Renews(s.data[k], before.data[k])
                           \/ AboutDue(before.data[k])
    BY DEF RestartKeepsLive, Renews, AboutDue
  <2>1. log \in Seq(Commands) /\ Len(log) \in Nat
    BY <1>1, LenProperties DEF PersistInv, Typed
  <2>2. s.lists = before.lists /\ s.hashes = before.hashes
    BY <1>1, <2>1, BareBack
  <2>3. CASE NoTTLs
    <3>1. s = before /\ Lasting(s)
      BY <1>1, <2>3 DEF RestartRebuilds, RestartInv, Unbounded, PlainState
    <3>2. \A k \in DOMAIN before.data : k \in DOMAIN s.data /\ Renews(s.data[k], before.data[k])
      BY <3>1 DEF Lasting, Renews
    <3>3. QED
      BY <2>2, <3>2
  <2>4. CASE WritesWhole
    <3>1. pos # 0 /\ pos = Len(log) + 1 /\ StringsReplayed
      BY <1>1, <2>1, <2>4 DEF Replayed, StringInv, StringParts
    <3>2. ASSUME NEW k \in DOMAIN before.data
          PROVE  \/ k \in DOMAIN s.data /\ Renews(s.data[k], before.data[k])
                 \/ AboutDue(before.data[k])
      <4>1. pos .. Len(log) = {}
        BY <2>1, <3>1
      <4>2. ~ LastSays(log, pos, Len(log), k, before.data[k])
        BY <4>1 DEF LastSays
      <4>3. QED
        BY <3>1, <4>2 DEF StringsReplayed
    <3>3. QED
      BY <2>2, <3>2
  <2>5. QED
    BY <2>3, <2>4
<1>2. QED
  BY <1>1, PersistInductive, RestartInductive, BareInductive, StringInductive, RestartIsExact, PTL
=============================================================================
