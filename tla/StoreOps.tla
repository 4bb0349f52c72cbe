------------------------------ MODULE StoreOps ------------------------------
(***************************************************************************)
(* The operations of store/store.go on the content of the store, without   *)
(* the lock, the clock or the callers.                                     *)
(*                                                                         *)
(* A store is a record of four maps.  Strings are abstract values of known *)
(* length, except that a string may spell an integer: then it is that      *)
(* integer of w bits, where 2^(w-1) is Half.  Times are natural numbers    *)
(* and 0 is Go's zero time, "no expiry".                                   *)
(***************************************************************************)
EXTENDS Integers, Sequences, FiniteSets, SequencesExt, Functions

CONSTANTS
  Keys, Fields,
  Texts,    \* strings strconv.Atoi rejects
  Length,   \* len of a key, a field or a text
  Half      \* 2^(w-1), for an int of w bits

Ints == -Half .. Half - 1

Values == Texts \cup Ints

ASSUME StoreOpsAssumption ==
  /\ Half \in Nat \ {0}
  /\ Texts \cap Ints = {}
  /\ Length \in [Keys \cup Fields \cup Texts -> Nat]

\* Go maps are functions on a part of K.
MapOver(f, K, V) == DOMAIN f \subseteq K /\ f \in [DOMAIN f -> V]
Put(f, k, v) == [x \in DOMAIN f \cup {k} |-> IF x = k THEN v ELSE f[x]]
Drop(f, K) == Restrict(f, DOMAIN f \ K)

Entries == [val : Values, exp : Nat]

IsStore(s) ==
  /\ s = [data |-> s.data, lists |-> s.lists, hashes |-> s.hashes,
          expiryKeys |-> s.expiryKeys]
  /\ MapOver(s.data, Keys, Entries)
  /\ MapOver(s.lists, Keys, Seq(Values))
  /\ DOMAIN s.hashes \subseteq Keys
  /\ \A k \in DOMAIN s.hashes : MapOver(s.hashes[k], Fields, Values)
  /\ s.expiryKeys \subseteq Keys

Empty == [data |-> <<>>, lists |-> <<>>, hashes |-> <<>>, expiryKeys |-> {}]

Expired(entry, now) == entry.exp # 0 /\ now > entry.exp

Live(s, k, now) == k \in DOMAIN s.data /\ ~Expired(s.data[k], now)

-----------------------------------------------------------------------------
(***************************************************************************)
(* Memory accounting.                                                      *)
(***************************************************************************)

\* len(strconv.Itoa(n))
Digits(n) ==
  LET m == IF n < 0 THEN -n ELSE n
  IN  (IF n < 0 THEN 2 ELSE 1) + Cardinality({d \in 1 .. Half : 10^d <= m})

Len1(v) == IF v \in Ints THEN Digits(v) ELSE Length[v]

SumLen(vals) == SumFunction([i \in DOMAIN vals |-> Len1(vals[i])])

\* The keys of a map, and its values of the given sizes.
MapBytes(sizes) == SumFunction([k \in DOMAIN sizes |-> Length[k] + sizes[k]])

ApproxMemory(s) ==
  LET HashBytes(h) == MapBytes([f \in DOMAIN h |-> Len1(h[f])])
  IN  MapBytes([k \in DOMAIN s.data |-> Len1(s.data[k].val)])
        + MapBytes([k \in DOMAIN s.lists |-> SumLen(s.lists[k])])
        + MapBytes([k \in DOMAIN s.hashes |-> HashBytes(s.hashes[k])])

\* Mutant: what the write adds is not counted.
FitsBefore(s, additional, max) == max = 0 \/ ApproxMemory(s) < max

\* checkMemoryLocked; a max of 0 is no limit.
Fits(s, additional, max) == max = 0 \/ ApproxMemory(s) + additional <= max

-----------------------------------------------------------------------------
(***************************************************************************)
(* Strings.                                                                *)
(***************************************************************************)
\* Mutant: a SET without TTL leaves the key in expiryKeys.
SetOpTracks(s, k, v, exp) ==
  [s EXCEPT !.data = Put(@, k, [val |-> v, exp |-> exp]),
            !.expiryKeys = IF exp = 0 THEN @ ELSE @ \cup {k}]

SetOp(s, k, v, exp) ==
  [s EXCEPT !.data = Put(@, k, [val |-> v, exp |-> exp]),
            !.expiryKeys = IF exp = 0 THEN @ \ {k} ELSE @ \cup {k}]

DeleteExpired(s, K) ==
  [s EXCEPT !.data = Drop(@, K), !.expiryKeys = @ \ K]

DelOp(s, K) ==
  [data |-> Drop(s.data, K), lists |-> Drop(s.lists, K),
   hashes |-> Drop(s.hashes, K), expiryKeys |-> s.expiryKeys \ (K \cap DOMAIN s.data)]

\* Mutant: EXPIRE does not tell the sampler about the key.
ExpireOpUntracked(s, k, exp) == [s EXCEPT !.data[k].exp = exp]

ExpireOp(s, k, exp) ==
  [s EXCEPT !.data[k].exp = exp, !.expiryKeys = @ \cup {k}]

\* Two's complement addition.
Wrap(n) == ((n + Half) % (2 * Half)) - Half

\* An absent or expired counter starts at 0.
IsCounter(s, k, now) == Live(s, k, now) => s.data[k].val \in Ints

Counted(s, k, delta, now) ==
  Wrap((IF Live(s, k, now) THEN s.data[k].val ELSE 0) + delta)

\* The new entry takes over the deadline of the old one, expired or not.
IncrByOp(s, k, delta, now) ==
  LET exp == IF k \in DOMAIN s.data THEN s.data[k].exp ELSE 0
  IN  [s EXCEPT !.data = Put(@, k, [val |-> Counted(s, k, delta, now), exp |-> exp])]

-----------------------------------------------------------------------------
(***************************************************************************)
(* Lists and hashes.                                                       *)
(***************************************************************************)
ListAt(s, k) == IF k \in DOMAIN s.lists THEN s.lists[k] ELSE <<>>

HashAt(s, k) == IF k \in DOMAIN s.hashes THEN s.hashes[k] ELSE <<>>

LPushOp(s, k, vals) == [s EXCEPT !.lists = Put(@, k, Reverse(vals) \o ListAt(s, k))]

RPushOp(s, k, vals) == [s EXCEPT !.lists = Put(@, k, ListAt(s, k) \o vals)]

\* pairs is a sequence of <<field, value>>; a later pair overrides an earlier one.
HSetOp(s, k, pairs) ==
  LET h == HashAt(s, k)
      named == {pairs[i][1] : i \in DOMAIN pairs}
      Latest(f) == Max({i \in DOMAIN pairs : pairs[i][1] = f})
  IN  [s EXCEPT !.hashes = Put(@, k,
         [f \in DOMAIN h \cup named |-> IF f \in named THEN pairs[Latest(f)][2] ELSE h[f]])]

HDelOp(s, k, F) ==
  LET h == Drop(HashAt(s, k), F)
  IN  IF k \notin DOMAIN s.hashes THEN s
      ELSE [s EXCEPT !.hashes = IF DOMAIN h = {} THEN Drop(@, {k}) ELSE Put(@, k, h)]
=============================================================================
