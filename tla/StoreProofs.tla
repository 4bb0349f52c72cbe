---------------------------- MODULE StoreProofs ----------------------------
(***************************************************************************)
(* Theorems about Store, for any clients, keys, values, deadlines, memory  *)
(* ceiling and sample size.                                                *)
(***************************************************************************)
EXTENDS Store, StoreOpsProofs

\* The deadline of an entry that a lookup is going to delete has passed, and the
\* clock does not go back.
HeldDue ==
  /\ held = [c \in Clients |-> held[c]]
  /\ \A c \in Clients : pc[c] = "delete" => Expired(held[c], now)

\* The inductive invariant.
StoreInv == TypeOK /\ Sound(s) /\ now # 0 /\ HeldDue

-----------------------------------------------------------------------------
(***************************************************************************)
(* The invariant.                                                          *)
(***************************************************************************)

\* What a client's local variables may be after it has returned, or taken an entry.
LEMMA LocalsOK ==
  ASSUME StoreInv, NEW c \in Clients, now' = now,
         \/ Return(c)
         \/ /\ \E p \in {"set", "read"} : pc' = [pc EXCEPT ![c] = p]
            /\ \E k \in Keys, v \in Values, exp \in Nat : Hold(c, k, v, exp)
         \/ /\ pc' = [pc EXCEPT ![c] = "delete"] /\ held' = held
            /\ pc[c] # "idle" /\ Expired(held[c], now)
         \/ pc' = pc /\ held' = held
  PROVE  /\ pc' \in [Clients -> {"idle", "set", "read", "delete"}]
         /\ \A d \in Clients :
              pc'[d] # "idle" => held'[d] \in [key : Keys, val : Values, exp : Nat]
         /\ HeldDue'
<1> USE DEF StoreInv, TypeOK, HeldDue
<1>1. CASE Return(c)
  BY <1>1 DEF Return
<1>2. CASE /\ \E p \in {"set", "read"} : pc' = [pc EXCEPT ![c] = p]
           /\ \E k \in Keys, v \in Values, exp \in Nat : Hold(c, k, v, exp)
  BY <1>2 DEF Hold
<1>3. CASE /\ pc' = [pc EXCEPT ![c] = "delete"] /\ held' = held
           /\ pc[c] # "idle" /\ Expired(held[c], now)
  BY <1>3
<1>4. CASE pc' = pc /\ held' = held
  BY <1>4
<1>5. QED
  BY <1>1, <1>2, <1>3, <1>4

\* Set, and the lookups.
LEMMA LookupStep ==
  ASSUME StoreInv, NEW c \in Clients,
         \/ SetEnd(c) \/ LookupCheck(c) \/ LookupDelete(c)
         \/ \E k \in Keys :
              \/ LookupRead(c, k)
              \/ \E v \in Texts \cup Counters, ttl \in TTLs : SetBegin(c, k, v, ttl)
  PROVE  StoreInv'
<1>1. /\ s.data \in [DOMAIN s.data -> Entries] /\ DOMAIN s.data \subseteq Keys
      /\ now \in Nat /\ Sound(s)
  BY StoreParts DEF StoreInv, TypeOK, MapOver
<1>2. now' = now /\ round' = round
  BY DEF SetEnd, LookupCheck, LookupDelete, LookupRead, SetBegin
<1>3. pc[c] # "idle" => held[c].key \in Keys /\ held[c].val \in Values /\ held[c].exp \in Nat
  BY DEF StoreInv, TypeOK
<1>4. Sound(s')
  <2>1. CASE SetEnd(c)
    BY <1>1, <1>3, <2>1, SetSound DEF SetEnd
  <2>2. CASE LookupDelete(c)
    BY <1>1, <2>2, DeleteExpiredSound DEF LookupDelete
  <2>3. CASE s' = s
    BY <1>1, <2>3
  <2>4. QED
    BY <2>1, <2>2, <2>3 DEF LookupCheck, LookupRead, SetBegin
<1>5. \/ Return(c)
      \/ /\ \E p \in {"set", "read"} : pc' = [pc EXCEPT ![c] = p]
         /\ \E k \in Keys, v \in Values, exp \in Nat : Hold(c, k, v, exp)
      \/ /\ pc' = [pc EXCEPT ![c] = "delete"] /\ held' = held
         /\ pc[c] # "idle" /\ Expired(held[c], now)
  <2>1. CASE SetEnd(c) \/ LookupDelete(c) \/ LookupCheck(c)
    BY <2>1 DEF SetEnd, LookupDelete, LookupCheck
  <2>2. CASE \E k \in Keys : LookupRead(c, k)
    <3>1. PICK k \in Keys : LookupRead(c, k)
      BY <2>2
    <3>2. s.data[k].val \in Values /\ s.data[k].exp \in Nat
      BY <1>1, <3>1 DEF LookupRead, Entries
    <3>3. QED
      BY <3>1, <3>2 DEF LookupRead
  <2>3. CASE \E k \in Keys, v \in Texts \cup Counters, ttl \in TTLs : SetBegin(c, k, v, ttl)
    <3>1. PICK k \in Keys, v \in Texts \cup Counters, ttl \in TTLs : SetBegin(c, k, v, ttl)
      BY <2>3
    <3>2. v \in Values /\ (IF ttl > 0 THEN now + ttl ELSE 0) \in Nat
      BY <1>1, StoreAssumption DEF Values
    <3>3. QED
      BY <3>1, <3>2 DEF SetBegin
  <2>4. QED
    BY <2>1, <2>2, <2>3
<1>6. QED
  BY <1>2, <1>4, <1>5, LocalsOK DEF StoreInv, TypeOK, Sound

\* The operations that are one critical section.
LEMMA AtomicStep ==
  ASSUME StoreInv, NEW c \in Clients,
         \/ FlushAll(c)
         \/ \E K \in SUBSET Keys : Del(c, K)
         \/ \E k \in Keys :
              \/ \E ttl \in TTLs : Expire(c, k, ttl)
              \/ \E delta \in Deltas : IncrBy(c, k, delta)
              \/ \E v \in Texts : LPush(c, k, <<v>>) \/ RPush(c, k, <<v>>)
              \/ \E f \in Fields, v \in Texts : HSet(c, k, f, v)
              \/ \E F \in SUBSET Fields : HDel(c, k, F)
  PROVE  /\ StoreInv'
         /\ \/ FlushAll(c) \/ \E K \in SUBSET Keys : Del(c, K)
            \/ DOMAIN s.data \subseteq DOMAIN s'.data
<1>1. Sound(s) /\ now \in Nat \ {0} /\ Texts \subseteq Values
  BY DEF StoreInv, TypeOK, Values
<1>2. UNCHANGED <<now, pc, held, round>>
  BY DEF FlushAll, Del, Expire, IncrBy, LPush, RPush, HSet, HDel, Atomic
<1>3. /\ Sound(s')
      /\ \/ FlushAll(c) \/ \E K \in SUBSET Keys : Del(c, K)
         \/ DOMAIN s.data \subseteq DOMAIN s'.data
  <2>1. CASE FlushAll(c)
    BY <2>1, EmptySound DEF FlushAll, Atomic
  <2>2. CASE \E K \in SUBSET Keys : Del(c, K)
    BY <1>1, <2>2, DelSound DEF Del, Atomic
  <2>3. CASE \E k \in Keys, ttl \in TTLs : Expire(c, k, ttl)
    <3>1. PICK k \in Keys, ttl \in TTLs : Expire(c, k, ttl)
      BY <2>3
    <3>2. now + ttl \in Nat \ {0} /\ k \in DOMAIN s.data /\ s' = ExpireOp(s, k, now + ttl)
      BY <1>1, <3>1, StoreAssumption DEF Expire, Atomic
    <3>3. QED
      BY <1>1, <3>2, ExpireSound
  <2>4. CASE \E k \in Keys, delta \in Deltas : IncrBy(c, k, delta)
    BY <1>1, <2>4, IncrBySound, StoreAssumption DEF IncrBy, Atomic
  <2>5. CASE \E k \in Keys, v \in Texts : LPush(c, k, <<v>>) \/ RPush(c, k, <<v>>)
    <3>1. PICK k \in Keys, v \in Texts : LPush(c, k, <<v>>) \/ RPush(c, k, <<v>>)
      BY <2>5
    <3>2. <<v>> \in Seq(Values)
      BY <1>1
    <3>3. s' = LPushOp(s, k, <<v>>) \/ s' = RPushOp(s, k, <<v>>)
      BY <3>1 DEF LPush, RPush, Atomic
    <3>4. /\ Sound(LPushOp(s, k, <<v>>)) /\ LPushOp(s, k, <<v>>).data = s.data
          /\ Sound(RPushOp(s, k, <<v>>)) /\ RPushOp(s, k, <<v>>).data = s.data
      BY <1>1, <3>2, PushSound
    <3>5. QED
      BY <3>3, <3>4
  <2>6. CASE \E k \in Keys, f \in Fields, v \in Texts : HSet(c, k, f, v)
    <3>1. PICK k \in Keys, f \in Fields, v \in Texts : HSet(c, k, f, v)
      BY <2>6
    <3>2. <<<<f, v>>>> \in Seq(Fields \X Values) /\ s' = HSetOp(s, k, <<<<f, v>>>>)
      BY <1>1, <3>1 DEF HSet, Atomic
    <3>3. Sound(s') /\ s'.data = s.data
      BY <1>1, <3>2, HSetSound
    <3>4. QED
      BY <3>3
  <2>7. CASE \E k \in Keys, F \in SUBSET Fields : HDel(c, k, F)
    <3>1. PICK k \in Keys, F \in SUBSET Fields : HDel(c, k, F)
      BY <2>7
    <3>2. Sound(s') /\ s'.data = s.data
      BY <1>1, <3>1, HDelSound DEF HDel, Atomic
    <3>3. QED
      BY <3>2
  <2>8. QED
    BY <2>1, <2>2, <2>3, <2>4, <2>5, <2>6, <2>7
<1>4. StoreInv'
  BY <1>2, <1>3 DEF StoreInv, TypeOK, HeldDue, Sound
<1>5. QED
  BY <1>3, <1>4

\* The sampler never draws a key that is not there, and removes what is due.
LEMMA SampleStep ==
  ASSUME StoreInv, SampleRound
  PROVE  /\ StoreInv'
         /\ \A k \in DOMAIN s.data : k \notin DOMAIN s'.data => Expired(s.data[k], now)
<1> DEFINE due(sampled) == {k \in sampled \cap DOMAIN s.data : Expired(s.data[k], now)}
<1>1. PICK sampled \in SUBSET s.expiryKeys :
        /\ s' = [DeleteExpired(s, due(sampled))
                   EXCEPT !.expiryKeys = @ \ (sampled \ DOMAIN s.data)]
        /\ round' = IF \/ sampled = {}
                       \/ 4 * Cardinality(due(sampled)) < Cardinality(sampled)
                       \/ round = MaxRounds
                      THEN 0 ELSE round + 1
  BY DEF SampleRound
<1> DEFINE D == due(sampled)
           r == DeleteExpired(s, D)
<1>2. Sound(s)
  BY DEF StoreInv
<1>3. sampled \ DOMAIN s.data = {}
  BY <1>2, StoreParts
<1>4. Sound(r) /\ DOMAIN r.data = DOMAIN s.data \ D
  BY <1>2, DeleteExpiredSound
<1>5. \A k \in D : Expired(s.data[k], now)
  OBVIOUS
<1>6. s' = [r EXCEPT !.expiryKeys = @ \ {}]
  BY <1>1, <1>3
<1> HIDE DEF r, D
<1>7. s' = r
  <2>1. s' = [r EXCEPT !.expiryKeys = r.expiryKeys]
    BY <1>6
  <2>2. r = [data |-> r.data, lists |-> r.lists, hashes |-> r.hashes,
             expiryKeys |-> r.expiryKeys]
    BY <1>4 DEF Sound, IsStore
  <2>3. [r EXCEPT !.expiryKeys = r.expiryKeys] =
          [data |-> r.data, lists |-> r.lists, hashes |-> r.hashes,
           expiryKeys |-> r.expiryKeys]
    BY <1>4, AssignOne
  <2>4. QED
    BY <2>1, <2>2, <2>3
<1>8. UNCHANGED <<now, pc, held>> /\ round > 0
  BY DEF SampleRound
<1>9. round' \in 0 .. MaxRounds
  <2>1. round' = 0 \/ (round # MaxRounds /\ round' = round + 1)
    BY <1>1
  <2>2. QED
    BY <1>8, <2>1, StoreAssumption DEF StoreInv, TypeOK
<1>10. StoreInv'
  BY <1>4, <1>7, <1>8, <1>9 DEF StoreInv, TypeOK, HeldDue, Sound
<1>11. QED
  BY <1>4, <1>5, <1>7, <1>10

\* Every step keeps the invariant.
LEMMA StoreStep ==
  ASSUME StoreInv, [Next]_vars
  PROVE  StoreInv'
<1>1. CASE \E c \in Clients : Client(c)
  <2>1. PICK c \in Clients : Client(c)
    BY <1>1
  <2>2. QED
    BY <2>1, LookupStep, AtomicStep DEF Client
<1>2. CASE SampleTick
  BY <1>2, StoreAssumption DEF SampleTick, StoreInv, TypeOK, HeldDue
<1>3. CASE SampleRound
  BY <1>3, SampleStep
<1>4. CASE Tick
  <2>1. now \in Nat /\ now' = now + 1 /\ UNCHANGED <<s, pc, held, round>>
    BY <1>4 DEF Tick, StoreInv, TypeOK
  <2>2. \A c \in Clients : pc[c] = "delete" => held[c].exp \in Nat
    BY DEF StoreInv, TypeOK
  <2>3. HeldDue'
    BY <2>1, <2>2 DEF StoreInv, HeldDue, Expired
  <2>4. QED
    BY <2>1, <2>3 DEF StoreInv, TypeOK
<1>5. CASE UNCHANGED vars
  BY <1>5 DEF vars, StoreInv, TypeOK, HeldDue
<1>6. QED
  BY <1>1, <1>2, <1>3, <1>4, <1>5 DEF Next

\* The invariant holds at the start.
LEMMA StoreInitially ==
  ASSUME Init
  PROVE  StoreInv
<1>1. Sound(s) /\ now = 1 /\ round = 0
  BY EmptySound DEF Init
<1>2. /\ pc \in [Clients -> {"idle", "set", "read", "delete"}]
      /\ \A c \in Clients : pc[c] = "idle"
      /\ held = [c \in Clients |-> held[c]]
  BY DEF Init
<1>3. round \in 0 .. MaxRounds
  BY <1>1, StoreAssumption
<1>4. QED
  BY <1>1, <1>2, <1>3 DEF StoreInv, TypeOK, HeldDue, Sound

\* The invariant holds in every reachable state.
THEOREM StoreInductive == Spec => []StoreInv
<1>1. Init => StoreInv
  BY StoreInitially
<1>2. StoreInv /\ [Next]_vars => StoreInv'
  BY StoreStep
<1>3. QED
  BY <1>1, <1>2, PTL DEF Spec

-----------------------------------------------------------------------------
(***************************************************************************)
(* The theorems.                                                           *)
(***************************************************************************)

\* The four maps are maps of what they should hold, over every operation, counters
\* that overflow included.
THEOREM StoreTypeCorrect == Spec => []TypeOK
<1>1. StoreInv => TypeOK
  BY DEF StoreInv
<1>2. QED
  BY <1>1, StoreInductive, PTL

\* The set that the sampler draws from is exactly the keys with a deadline.
THEOREM ExpiryStaysTracked == Spec => []ExpiryTracked
<1>1. StoreInv => ExpiryTracked
  BY DEF StoreInv, Sound, Tracked, ExpiryTracked
<1>2. QED
  BY <1>1, StoreInductive, PTL

\* One step removes no string that nobody asked to remove and that is not due, but
\* for a lookup that goes by an older, expired entry of the key.
LEMMA RemovedWasDue ==
  ASSUME StoreInv, [Next]_vars, NEW k \in Keys, Removed(k)
  PROVE  \/ Expired(s.data[k], now)
         \/ \E c \in Clients :
              LookupDelete(c) /\ held[c].key = k /\ Expired(held[c], now)
<1>1. /\ k \in DOMAIN s.data /\ k \notin DOMAIN s'.data /\ Sound(s)
      /\ ~\E c \in Clients : FlushAll(c) \/ \E K \in SUBSET Keys : k \in K /\ Del(c, K)
  BY DEF Removed, StoreInv
<1>2. CASE \E c \in Clients : LookupDelete(c)
  <2>1. PICK c \in Clients : LookupDelete(c)
    BY <1>2
  <2>2. DOMAIN s'.data = DOMAIN s.data \ {held[c].key}
    BY <1>1, <2>1, DeleteExpiredSound DEF LookupDelete
  <2>3. Expired(held[c], now)
    BY <2>1 DEF LookupDelete, StoreInv, HeldDue
  <2>4. QED
    BY <1>1, <2>1, <2>2, <2>3
<1>3. CASE \E c \in Clients : SetEnd(c)
  <2>1. PICK c \in Clients : SetEnd(c)
    BY <1>3
  <2>2. /\ held[c].key \in Keys /\ held[c].val \in Values /\ held[c].exp \in Nat
    BY <2>1 DEF SetEnd, StoreInv, TypeOK
  <2>3. DOMAIN s.data \subseteq DOMAIN s'.data
    BY <1>1, <2>1, <2>2, SetSound DEF SetEnd
  <2>4. QED
    BY <1>1, <2>3
<1>4. CASE SampleRound
  BY <1>1, <1>4, SampleStep
<1>5. ASSUME NEW c \in Clients, Client(c), ~LookupDelete(c), ~SetEnd(c)
      PROVE  FALSE
  <2>1. CASE s' = s
    BY <1>1, <2>1
  <2>2. CASE \E K \in SUBSET Keys : Del(c, K)
    <3>1. PICK K \in SUBSET Keys : Del(c, K)
      BY <2>2
    <3>2. DOMAIN s'.data = DOMAIN s.data \ K
      BY <1>1, <3>1, DelSound DEF Del, Atomic
    <3>3. QED
      BY <1>1, <3>1, <3>2
  <2>3. QED
    BY <1>1, <1>5, <2>1, <2>2, AtomicStep DEF Client, LookupCheck, LookupRead, SetBegin
<1>6. CASE SampleTick \/ Tick \/ UNCHANGED vars
  BY <1>1, <1>6 DEF SampleTick, Tick, vars
<1>7. QED
  BY <1>2, <1>3, <1>4, <1>5, <1>6 DEF Next

\* Expiry removes only what is due, as above, in every behaviour.
THEOREM OnlyDueIsRemoved == Spec => OnlyDueRemoved
<1>1. StoreInv /\ [Next]_vars =>
        [\A k \in Keys :
           Removed(k) =>
             \/ Expired(s.data[k], now)
             \/ \E c \in Clients :
                  LookupDelete(c) /\ held[c].key = k /\ Expired(held[c], now)]_vars
  BY RemovedWasDue
<1>2. QED
  BY <1>1, StoreInductive, PTL DEF Spec, OnlyDueRemoved

-----------------------------------------------------------------------------
(***************************************************************************)
(* The memory ceiling.                                                     *)
(***************************************************************************)

\* The inductive invariant: an estimate is a sum over finitely many keys.
MemoryInv == StoreInv /\ Finite(s) /\ MemoryBounded

\* A step takes up no more than what it has checked before.
LEMMA StepGrows ==
  ASSUME StoreInv, Finite(s), [Next]_vars
  PROVE  \/ s' = Empty
         \/ Grows(s, s', 0)
         \/ \E n \in Nat : Grows(s, s', n) /\ Fits(s, n, MaxMemory)
<1>1. /\ Sound(s) /\ now \in Nat \ {0} /\ Texts \subseteq Values
      /\ \A k \in Keys \cup Fields : Length[k] \in Nat
  BY LengthsNat DEF StoreInv, TypeOK, Values, Names
<1>2. ASSUME s' = s  PROVE Grows(s, s', 0)
  <2>1. ApproxMemory(s) \in Nat
    BY <1>1, Estimate
  <2>2. QED
    BY <1>2, <2>1 DEF Grows
<1>3. ASSUME NEW c \in Clients, SetEnd(c)
      PROVE  Grows(s, s', 0) \/ \E n \in Nat : Grows(s, s', n) /\ Fits(s, n, MaxMemory)
  <2> DEFINE h == held[c]
  <2>1. h.key \in Keys /\ h.val \in Values /\ h.exp \in Nat
    BY <1>3 DEF SetEnd, StoreInv, TypeOK
  <2>2. Length[h.key] + Len1(h.val) \in Nat
    BY <1>1, <2>1, LengthsNat
  <2>3. \/ s' = SetOp(s, h.key, h.val, h.exp) /\ Fits(s, Length[h.key] + Len1(h.val), MaxMemory)
        \/ s' = s
    BY <1>3 DEF SetEnd
  <2> HIDE DEF h
  <2>4. Grows(s, SetOp(s, h.key, h.val, h.exp), Length[h.key] + Len1(h.val))
    BY <1>1, <2>1, SetGrows
  <2>5. QED
    BY <1>2, <2>2, <2>3, <2>4
<1>4. ASSUME NEW c \in Clients, NEW k \in Keys, NEW delta \in Deltas, IncrBy(c, k, delta)
      PROVE  \E n \in Nat : Grows(s, s', n) /\ Fits(s, n, MaxMemory)
  <2> DEFINE v == Counted(s, k, delta, now)
  <2>1. /\ IsCounter(s, k, now) /\ Fits(s, Length[k] + Digits(v), MaxMemory)
        /\ s' = IncrByOp(s, k, delta, now)
    BY <1>4 DEF IncrBy, Atomic
  <2>2. delta \in Ints
    BY StoreAssumption
  <2>3. v \in Ints
    BY <2>1, <2>2, CountedInts
  <2>4. Grows(s, IncrByOp(s, k, delta, now), Length[k] + Digits(v))
    BY <1>1, <2>1, <2>2, IncrByGrows
  <2> HIDE DEF v
  <2>5. Length[k] + Digits(v) \in Nat
    BY <1>1, <2>3, LengthsNat DEF Values, Len1
  <2>6. QED
    BY <2>1, <2>4, <2>5
<1>5. ASSUME NEW c \in Clients, NEW k \in Keys, NEW v \in Texts,
             LPush(c, k, <<v>>) \/ RPush(c, k, <<v>>)
      PROVE  \E n \in Nat : Grows(s, s', n) /\ Fits(s, n, MaxMemory)
  <2> DEFINE vals == <<v>>
  <2>1. vals \in Seq(Values)
    BY <1>1
  <2>2. /\ Fits(s, Length[k] + SumLen(vals), MaxMemory)
        /\ s' = LPushOp(s, k, vals) \/ s' = RPushOp(s, k, vals)
    BY <1>5 DEF LPush, RPush, Atomic
  <2> HIDE DEF vals
  <2>3. Length[k] + SumLen(vals) \in Nat
    BY <1>1, <2>1, SumLenNat
  <2>4. QED
    BY <1>1, <2>1, <2>2, <2>3, PushGrows
<1>6. ASSUME NEW c \in Clients, NEW k \in Keys, NEW f \in Fields, NEW v \in Texts, HSet(c, k, f, v)
      PROVE  \E n \in Nat : Grows(s, s', n) /\ Fits(s, n, MaxMemory)
  <2>1. /\ Fits(s, Length[k] + Length[f] + Len1(v), MaxMemory)
        /\ s' = HSetOp(s, k, <<<<f, v>>>>)
    BY <1>6 DEF HSet, Atomic
  <2>2. Length[k] + Length[f] + Len1(v) \in Nat /\ v \in Values
    BY <1>1, LengthsNat
  <2>3. QED
    BY <1>1, <2>1, <2>2, HSetGrows
<1>7. ASSUME NEW c \in Clients,
             \/ LookupDelete(c)
             \/ \E K \in SUBSET Keys : Del(c, K)
             \/ \E k \in Keys, ttl \in TTLs : Expire(c, k, ttl)
             \/ \E k \in Keys, F \in SUBSET Fields : HDel(c, k, F)
      PROVE  Grows(s, s', 0)
  <2>1. CASE LookupDelete(c)
    BY <1>1, <2>1, ShrinkGrows DEF LookupDelete
  <2>2. CASE \E K \in SUBSET Keys : Del(c, K)
    BY <1>1, <2>2, ShrinkGrows DEF Del, Atomic
  <2>3. CASE \E k \in Keys, ttl \in TTLs : Expire(c, k, ttl)
    <3>1. PICK k \in Keys, ttl \in TTLs : Expire(c, k, ttl)
      BY <2>3
    <3>2. now + ttl \in Nat \ {0} /\ k \in DOMAIN s.data /\ s' = ExpireOp(s, k, now + ttl)
      BY <1>1, <3>1, StoreAssumption DEF Expire, Atomic
    <3>3. QED
      BY <1>1, <3>2, ShrinkGrows
  <2>4. CASE \E k \in Keys, F \in SUBSET Fields : HDel(c, k, F)
    BY <1>1, <2>4, ShrinkGrows DEF HDel, Atomic
  <2>5. QED
    BY <1>7, <2>1, <2>2, <2>3, <2>4
<1>8. ASSUME SampleRound  PROVE Grows(s, s', 0)
  <2>1. PICK K : s' = [DeleteExpired(s, K) EXCEPT !.expiryKeys = s'.expiryKeys]
    <3>1. PICK sampled \in SUBSET s.expiryKeys :
            LET due == {k \in sampled \cap DOMAIN s.data : Expired(s.data[k], now)}
                drifted == sampled \ DOMAIN s.data
            IN  s' = [DeleteExpired(s, due) EXCEPT !.expiryKeys = @ \ drifted]
      BY <1>8 DEF SampleRound
    <3> DEFINE due == {k \in sampled \cap DOMAIN s.data : Expired(s.data[k], now)}
               drifted == sampled \ DOMAIN s.data
               r == DeleteExpired(s, due)
    <3>2. s' = [r EXCEPT !.expiryKeys = r.expiryKeys \ drifted]
      BY <3>1
    <3>3. Sound(r)
      BY <1>1, DeleteExpiredSound
    <3> HIDE DEF r
    <3>4. s' = [data |-> r.data, lists |-> r.lists, hashes |-> r.hashes,
                expiryKeys |-> r.expiryKeys \ drifted]
      BY <3>2, <3>3, AssignOne
    <3>5. s'.expiryKeys = r.expiryKeys \ drifted
      BY <3>4
    <3>6. s' = [r EXCEPT !.expiryKeys = s'.expiryKeys]
      BY <3>2, <3>5
    <3>7. QED
      BY <3>6 DEF r
  <2> DEFINE r == DeleteExpired(s, K)
  <2>2. Sound(r) /\ Grows(s, r, 0)
    BY <1>1, DeleteExpiredSound, ShrinkGrows
  <2>3. s' = [r EXCEPT !.expiryKeys = s'.expiryKeys]
    BY <2>1
  <2> HIDE DEF r
  <2>4. s'.data = r.data /\ s'.lists = r.lists /\ s'.hashes = r.hashes
    <3> DEFINE e == s'.expiryKeys
    <3>1. s' = [data |-> r.data, lists |-> r.lists, hashes |-> r.hashes, expiryKeys |-> e]
      BY <2>2, <2>3, AssignOne
    <3>2. QED
      BY <3>1
  <2>5. Finite(s') /\ ApproxMemory(s') = ApproxMemory(r)
    BY <2>2, <2>4 DEF Grows, Finite, ApproxMemory
  <2>6. QED
    BY <2>2, <2>5 DEF Grows
<1>9. CASE \E c \in Clients : Client(c)
  <2>1. PICK c \in Clients : Client(c)
    BY <1>9
  <2>2. CASE FlushAll(c)
    BY <2>2 DEF FlushAll, Atomic
  <2>3. CASE \/ LookupCheck(c)
             \/ \E k \in Keys : LookupRead(c, k)
             \/ \E k \in Keys, v \in Texts \cup Counters, ttl \in TTLs : SetBegin(c, k, v, ttl)
    <3>1. s' = s
      BY <2>3 DEF LookupCheck, LookupRead, SetBegin
    <3>2. QED
      BY <1>2, <3>1
  <2>4. QED
    BY <1>3, <1>4, <1>5, <1>6, <1>7, <2>1, <2>2, <2>3 DEF Client
<1>10. CASE SampleTick \/ Tick \/ UNCHANGED vars
  BY <1>2, <1>10 DEF SampleTick, Tick, vars
<1>11. QED
  BY <1>8, <1>9, <1>10 DEF Next

\* The estimate never passes the ceiling, whatever the writes replace and however
\* many digits a counter gains: each check in front of a write covers at least what
\* the write adds, and nothing else adds to the estimate.
THEOREM MemoryStaysBounded == Spec => []MemoryBounded
<1>1. Init => MemoryInv
  <2> SUFFICES ASSUME Init PROVE Finite(s) /\ MemoryBounded
    BY StoreInitially DEF MemoryInv
  <2>1. s = Empty /\ MaxMemory \in Nat
    BY StoreAssumption DEF Init
  <2>2. QED
    BY <2>1, EmptyBytes DEF MemoryBounded
<1>2. MemoryInv /\ [Next]_vars => MemoryInv'
  <2> SUFFICES ASSUME MemoryInv, [Next]_vars PROVE MemoryInv'
    OBVIOUS
  <2>1. StoreInv' /\ Sound(s) /\ Sound(s') /\ Finite(s) /\ MaxMemory \in Nat
    BY StoreStep, StoreAssumption DEF MemoryInv, StoreInv
  <2>2. ApproxMemory(s) \in Nat
    BY <2>1, Estimate
  <2>3. CASE s' = Empty
    BY <2>1, <2>3, EmptyBytes DEF MemoryInv, MemoryBounded
  <2>4. ASSUME NEW n \in Nat, Grows(s, s', n), n = 0 \/ Fits(s, n, MaxMemory)
        PROVE  MemoryInv'
    <3>1. Finite(s') /\ ApproxMemory(s') <= ApproxMemory(s) + n
      BY <2>4 DEF Grows
    <3>2. ApproxMemory(s') \in Nat
      BY <2>1, <3>1, Estimate
    <3>3. MaxMemory > 0 => ApproxMemory(s) + n <= MaxMemory
      BY <2>1, <2>2, <2>4 DEF MemoryInv, MemoryBounded, Fits
    <3>4. MaxMemory > 0 => ApproxMemory(s') <= MaxMemory
      BY <2>1, <2>2, <3>1, <3>2, <3>3
    <3>5. QED
      BY <2>1, <3>1, <3>4 DEF MemoryInv, MemoryBounded
  <2>5. QED
    <3>1. StoreInv /\ 0 \in Nat
      BY DEF MemoryInv
    <3>2. QED
      BY <2>1, <2>3, <2>4, <3>1, StepGrows
<1>3. MemoryInv => MemoryBounded
  BY DEF MemoryInv
<1>4. QED
  BY <1>1, <1>2, <1>3, PTL DEF Spec
=============================================================================
