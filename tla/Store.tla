------------------------------- MODULE Store -------------------------------
(***************************************************************************)
(* The store under concurrent connections, its lazy and its active expiry  *)
(* (store/store.go).  Every operation but three is one critical section of *)
(* s.mu, hence one action.  Set computes the deadline before it takes the  *)
(* lock; Get, TTL and Exists read the entry under the read lock, look at   *)
(* the clock without any lock, and take the write lock to delete.          *)
(***************************************************************************)
EXTENDS StoreOps

CONSTANTS
  Clients,
  Counters,       \* the integers clients SET
  Deltas,         \* what they pass to INCRBY
  TTLs,           \* what they pass to SET and EXPIRE; SET takes 0 for "no TTL"
  MaxMemory,      \* maxMemoryBytes, 0 for no limit
  SampleSize,     \* sampleSize
  MaxRounds,      \* maxRoundsPerTick
  MaxTime         \* bound: when the clock of the model stops

ASSUME StoreAssumption ==
  /\ Counters \subseteq Ints /\ Deltas \subseteq Ints
  /\ TTLs \subseteq Nat
  /\ MaxMemory \in Nat /\ MaxTime \in Nat
  /\ SampleSize \in Nat \ {0} /\ MaxRounds \in Nat \ {0}

VARIABLES
  s,        \* the four maps
  now,      \* the clock
  pc,       \* what a client is in the middle of
  held,     \* key and entry a client holds in local variables
  round     \* round of sampleExpire, 0 between two ticks

vars == <<s, now, pc, held, round>>

Nothing == <<>>

TypeOK ==
  /\ IsStore(s)
  /\ now \in Nat
  /\ pc \in [Clients -> {"idle", "set", "read", "delete"}]
  /\ \A c \in Clients :
       pc[c] # "idle" => held[c] \in [key : Keys, val : Values, exp : Nat]
  /\ round \in 0 .. MaxRounds

Init ==
  /\ s = Empty /\ now = 1 /\ round = 0
  /\ pc = [c \in Clients |-> "idle"]
  /\ held = [c \in Clients |-> Nothing]

Hold(c, k, v, exp) == held' = [held EXCEPT ![c] = [key |-> k, val |-> v, exp |-> exp]]

Return(c) ==
  /\ pc' = [pc EXCEPT ![c] = "idle"]
  /\ held' = [held EXCEPT ![c] = Nothing]

\* An operation that is one critical section of s.mu.
Atomic(c, result) ==
  /\ pc[c] = "idle"
  /\ s' = result
  /\ UNCHANGED <<now, pc, held, round>>

-----------------------------------------------------------------------------
(***************************************************************************)
(* Set, and the lookups with lazy expiry.                                  *)
(***************************************************************************)

\* The deadline is computed, the lock not yet taken.
SetBegin(c, k, v, ttl) ==
  /\ pc[c] = "idle"
  /\ pc' = [pc EXCEPT ![c] = "set"]
  /\ Hold(c, k, v, IF ttl > 0 THEN now + ttl ELSE 0)
  /\ UNCHANGED <<s, now, round>>

SetEnd(c) ==
  LET h == held[c] IN
  /\ pc[c] = "set"
  /\ s' = IF Fits(s, Length[h.key] + Len1(h.val), MaxMemory)
            THEN SetOp(s, h.key, h.val, h.exp)
            ELSE s
  /\ Return(c)
  /\ UNCHANGED <<now, round>>

\* Get, TTL or Exists copies the entry under the read lock.
LookupRead(c, k) ==
  /\ pc[c] = "idle" /\ k \in DOMAIN s.data
  /\ pc' = [pc EXCEPT ![c] = "read"]
  /\ Hold(c, k, s.data[k].val, s.data[k].exp)
  /\ UNCHANGED <<s, now, round>>

\* Mutant: every entry with a TTL counts as expired.
LookupCheckHasty(c) ==
  /\ pc[c] = "read"
  /\ IF held[c].exp # 0
       THEN pc' = [pc EXCEPT ![c] = "delete"] /\ UNCHANGED held
       ELSE Return(c)
  /\ UNCHANGED <<s, now, round>>

\* Nobody holds a lock while the clock is read.
LookupCheck(c) ==
  /\ pc[c] = "read"
  /\ IF Expired(held[c], now)
       THEN pc' = [pc EXCEPT ![c] = "delete"] /\ UNCHANGED held
       ELSE Return(c)
  /\ UNCHANGED <<s, now, round>>

\* deleteExpiredLocked, whatever the key holds by now.
LookupDelete(c) ==
  /\ pc[c] = "delete"
  /\ s' = DeleteExpired(s, {held[c].key})
  /\ Return(c)
  /\ UNCHANGED <<now, round>>

-----------------------------------------------------------------------------
(***************************************************************************)
(* The operations that are one critical section.                           *)
(***************************************************************************)
Del(c, K) == Atomic(c, DelOp(s, K))

FlushAll(c) == Atomic(c, Empty)

Expire(c, k, seconds) ==
  k \in DOMAIN s.data /\ Atomic(c, ExpireOp(s, k, now + seconds))

IncrBy(c, k, delta) ==
  /\ IsCounter(s, k, now)
  /\ Fits(s, Length[k] + Digits(Counted(s, k, delta, now)), MaxMemory)
  /\ Atomic(c, IncrByOp(s, k, delta, now))

LPush(c, k, vals) ==
  Fits(s, Length[k] + SumLen(vals), MaxMemory) /\ Atomic(c, LPushOp(s, k, vals))

RPush(c, k, vals) ==
  Fits(s, Length[k] + SumLen(vals), MaxMemory) /\ Atomic(c, RPushOp(s, k, vals))

HSet(c, k, f, v) ==
  /\ Fits(s, Length[k] + Length[f] + Len1(v), MaxMemory)
  /\ Atomic(c, HSetOp(s, k, <<<<f, v>>>>))

HDel(c, k, F) == Atomic(c, HDelOp(s, k, F))

-----------------------------------------------------------------------------
(***************************************************************************)
(* Active expiry.                                                          *)
(***************************************************************************)
SampleTick ==
  /\ round = 0 /\ round' = 1
  /\ UNCHANGED <<s, now, pc, held>>

\* Mutant: no cap on the rounds of a tick.
SampleRoundUncapped ==
  /\ round > 0
  /\ \E sampled \in SUBSET s.expiryKeys :
       LET due == {k \in sampled \cap DOMAIN s.data : Expired(s.data[k], now)}
       IN  /\ Cardinality(sampled) = Min({SampleSize, Cardinality(s.expiryKeys)})
           /\ s' = DeleteExpired(s, due)
           /\ round' = IF sampled = {} \/ 4 * Cardinality(due) < Cardinality(sampled)
                         THEN 0 ELSE round + 1
  /\ UNCHANGED <<now, pc, held>>

\* One round of sampleExpire under the write lock; map iteration picks the keys.
SampleRound ==
  /\ round > 0
  /\ \E sampled \in SUBSET s.expiryKeys :
       LET due == {k \in sampled \cap DOMAIN s.data : Expired(s.data[k], now)}
           drifted == sampled \ DOMAIN s.data
       IN  /\ Cardinality(sampled) = Min({SampleSize, Cardinality(s.expiryKeys)})
           /\ s' = [DeleteExpired(s, due) EXCEPT !.expiryKeys = @ \ drifted]
           /\ round' = IF \/ sampled = {}
                          \/ 4 * Cardinality(due) < Cardinality(sampled)
                          \/ round = MaxRounds
                         THEN 0 ELSE round + 1
  /\ UNCHANGED <<now, pc, held>>

Tick ==
  /\ now < MaxTime /\ now' = now + 1
  /\ UNCHANGED <<s, pc, held, round>>

-----------------------------------------------------------------------------
Client(c) ==
  \/ SetEnd(c) \/ LookupCheck(c) \/ LookupDelete(c) \/ FlushAll(c)
  \/ \E k \in Keys :
       \/ \E v \in Texts \cup Counters, ttl \in TTLs : SetBegin(c, k, v, ttl)
       \/ LookupRead(c, k)
       \/ \E ttl \in TTLs : Expire(c, k, ttl)
       \/ \E delta \in Deltas : IncrBy(c, k, delta)
       \/ \E v \in Texts : LPush(c, k, <<v>>) \/ RPush(c, k, <<v>>)
       \/ \E f \in Fields, v \in Texts : HSet(c, k, f, v)
       \/ \E F \in SUBSET Fields \ {{}} : HDel(c, k, F)
  \/ \E K \in SUBSET Keys \ {{}} : Del(c, K)

Next == (\E c \in Clients : Client(c)) \/ SampleTick \/ SampleRound \/ Tick

Spec == Init /\ [][Next]_vars

\* The goroutine of StartExpiry runs, and takes s.mu when it is free.
FairSpec == Spec /\ WF_vars(SampleTick) /\ WF_vars(SampleRound)

-----------------------------------------------------------------------------
\* The set the sampler draws from is exactly the keys with a TTL, over every
\* operation that writes, rewrites or removes an entry: an untracked key would
\* never be reclaimed, and the "drifted" branch of sampleExpire is never taken.
ExpiryTracked == s.expiryKeys = {k \in DOMAIN s.data : s.data[k].exp # 0}

\* The check before each write keeps the estimate under the ceiling, although it
\* never looks at what the write replaces and a counter may gain digits.
MemoryBounded == MaxMemory > 0 => ApproxMemory(s) <= MaxMemory

\* An entry that nobody asked to remove goes away only when it is due.
Removed(k) ==
  /\ k \in DOMAIN s.data /\ k \notin DOMAIN s'.data
  /\ ~\E c \in Clients : FlushAll(c) \/ \E K \in SUBSET Keys : k \in K /\ Del(c, K)

\* The sampler and the lazy expiry remove only entries whose deadline has passed,
\* but for a lookup that goes by an older, expired entry of the key.
OnlyDueRemoved ==
  [][ \A k \in Keys :
        Removed(k) =>
          \/ Expired(s.data[k], now)
          \/ \E c \in Clients :
               LookupDelete(c) /\ held[c].key = k /\ Expired(held[c], now) ]_vars

\* An expired key does not stay: the sampler gets to it even if nobody reads it, as
\* long as the keys with a TTL fit in a sample (StartExpiry, sampleExpire).
Due(k) == k \in DOMAIN s.data /\ Expired(s.data[k], now)

EventuallyReclaimed ==
  \A k \in Keys : Due(k) ~> ~Due(k) \/ Cardinality(s.expiryKeys) > SampleSize

-----------------------------------------------------------------------------
(***************************************************************************)
(* A statement of the source that does not hold.                           *)
(***************************************************************************)

\* store.go:109 "removes an expired string key": since the entry was seen to be
\* expired, an EXPIRE may have put off its deadline, or a SET replaced it.
LazyDeletesOnlyExpired ==
  [][ \A c \in Clients :
        LookupDelete(c) /\ held[c].key \in DOMAIN s.data
          => Expired(s.data[held[c].key], now) ]_vars

=============================================================================
