-------------------------- MODULE ScanCursorProofs --------------------------
(***************************************************************************)
(* SCAN returns every matching key that is there during the whole          *)
(* iteration unless an entry behind the cursor was removed, for any keys,  *)
(* pattern, page sizes and width of an int.                                *)
(***************************************************************************)
EXTENDS ScanCursor, FiniteSetTheorems, WellFoundedInduction, SequenceTheorems, TLAPS

(***************************************************************************)
(* Ranks: how many entries have a name up to a given one.                  *)
(***************************************************************************)

Entries == Keys \X Types
Rank(S, k) == Cardinality({e \in S : e[1] <= k})

\* The entries of the store are finitely many.
LEMMA FiniteEntries ==
  ASSUME NEW S, S \subseteq Entries
  PROVE  /\ IsFiniteSet(S) /\ Cardinality(S) \in Nat
         /\ \A e \in S : e[1] \in Nat
<1>1. IsFiniteSet(Entries)
  BY ScanAssumption, FS_Product DEF Entries
<1>2. IsFiniteSet(S)
  BY <1>1, FS_Subset
<1>3. QED
  BY <1>2, FS_CardinalityType, ScanAssumption DEF Entries

\* Names are numbers, and so are the places before them.
LEMMA NamesAreNumbers ==
  /\ \A k \in Matching : k - 1 \in Int
  /\ \A e \in Entries : e[1] \in Int
<1>1. \A k \in Keys : k \in Nat
  BY ScanAssumption
<1>2. \A k \in Matching : k \in Keys
  BY ScanAssumption
<1>3. \A e \in Entries : e[1] \in Keys
  BY DEF Entries
<1>4. \A k \in Nat : k \in Int /\ k - 1 \in Int
  OBVIOUS
<1>5. QED
  BY <1>1, <1>2, <1>3, <1>4

\* A rank is a number of entries, and grows with the name and the set.
LEMMA RankGrows ==
  ASSUME NEW S, NEW R, S \subseteq R, R \subseteq Entries,
         NEW j \in Int, NEW k \in Int, j <= k
  PROVE  /\ Rank(S, j) \in Nat /\ Rank(R, k) \in Nat
         /\ Rank(S, j) <= Rank(R, k)
         /\ Rank(R, k) <= Cardinality(R)
<1> DEFINE Low  == {e \in S : e[1] <= j}
           High == {e \in R : e[1] <= k}
<1>1. /\ IsFiniteSet(R) /\ \A e \in R : e[1] \in Nat
  BY FiniteEntries
<1>2. High \subseteq R /\ Low \subseteq High
  BY <1>1
<1>3. IsFiniteSet(High) /\ Cardinality(High) <= Cardinality(R)
  BY <1>1, <1>2, FS_Subset
<1>4. IsFiniteSet(Low) /\ Cardinality(Low) <= Cardinality(High)
  BY <1>2, <1>3, FS_Subset
<1>5. Cardinality(Low) \in Nat /\ Cardinality(High) \in Nat
  BY <1>3, <1>4, FS_CardinalityType
<1>6. QED
  BY <1>3, <1>4, <1>5 DEF Rank

\* A name that is in use counts.
LEMMA RankOfName ==
  ASSUME NEW S, S \subseteq Entries, NEW e \in S, NEW j \in Int, j < e[1]
  PROVE  Rank(S, j) < Rank(S, e[1])
<1> DEFINE Low  == {f \in S : f[1] <= j}
           High == {f \in S : f[1] <= e[1]}
<1>1. IsFiniteSet(S) /\ \A f \in S : f[1] \in Nat
  BY FiniteEntries
<1>2. Low \subseteq High /\ High \subseteq S /\ e \in High /\ e \notin Low
  BY <1>1
<1>3. IsFiniteSet(High)
  BY <1>1, <1>2, FS_Subset
<1>4. IsFiniteSet(Low) /\ Cardinality(Low) <= Cardinality(High)
      /\ Cardinality(Low) # Cardinality(High)
  BY <1>2, <1>3, FS_Subset
<1>5. Cardinality(Low) \in Nat /\ Cardinality(High) \in Nat
  BY <1>3, <1>4, FS_CardinalityType
<1>6. QED
  BY <1>4, <1>5 DEF Rank

\* A name that is not in use does not.
LEMMA RankOfGap ==
  ASSUME NEW S, S \subseteq Entries, NEW k \in Int, k \notin Names(S)
  PROVE  Rank(S, k) = Rank(S, k - 1)
<1>1. \A e \in S : e[1] \in Nat /\ e[1] # k
  BY FiniteEntries DEF Names
<1>2. {e \in S : e[1] <= k} = {e \in S : e[1] <= k - 1}
  BY <1>1
<1>3. QED
  BY <1>2 DEF Rank

\* No name is below zero.
LEMMA RankOfNothing ==
  ASSUME NEW S, S \subseteq Entries
  PROVE  Rank(S, -1) = 0
<1>1. \A e \in S : e[1] \in Nat
  BY FiniteEntries
<1>2. {e \in S : e[1] <= -1} = {}
  BY <1>1
<1>3. QED
  BY <1>2, FS_EmptySet DEF Rank

\* Sets of numbers have a least one.
LEMMA LeastNumber ==
  ASSUME NEW T, T \subseteq Nat, T # {}
  PROVE  \E m \in T : \A x \in T : m <= x
<1>1. PICK m \in T : \A x \in T : <<x, m>> \notin OpToRel(<, Nat)
  BY NatLessThanWellFounded, WFMin
<1>2. \A x \in T : ~ (x < m)
  BY <1>1 DEF OpToRel
<1>3. QED
  BY <1>2

\* Some entry has the last name.
LEMMA LastName ==
  ASSUME NEW S, S \subseteq Entries, S # {}
  PROVE  \E e \in S : Rank(S, e[1]) = Cardinality(S)
<1> DEFINE Rest(e) == Cardinality(S) - Rank(S, e[1])
           T == {Rest(e) : e \in S}
<1>1. Cardinality(S) \in Nat /\ \A e \in S : e[1] \in Nat
  BY FiniteEntries
<1>2. \A e \in S : Rank(S, e[1]) \in Nat /\ Rank(S, e[1]) <= Cardinality(S)
  BY <1>1, RankGrows
<1>3. T \subseteq Nat /\ T # {}
  BY <1>1, <1>2
<1>4. PICK m \in T : \A x \in T : m <= x
  BY <1>3, LeastNumber
<1>5. PICK e \in S : m = Rest(e)
  BY <1>4
<1>6. \A f \in S : Rank(S, f[1]) <= Rank(S, e[1])
  <2>1. \A f \in S : Rest(e) <= Rest(f)
    BY <1>4, <1>5
  <2>2. QED
    BY <1>1, <1>2, <2>1
<1>7. \A f \in S : f[1] <= e[1]
  BY <1>1, <1>2, <1>6, RankOfName
<1>8. {f \in S : f[1] <= e[1]} = S
  BY <1>7
<1>9. QED
  BY <1>8 DEF Rank

-----------------------------------------------------------------------------
(***************************************************************************)
(* The listing, as a function of the entries.                              *)
(***************************************************************************)

\* The name at a position: it covers the positions after the rank of the name
\* before it, up to its own.
At(S, i, k) == k \in Names(S) /\ Rank(S, k - 1) < i /\ i <= Rank(S, k)

\* Every position has a name.
LEMMA PositionHasName ==
  ASSUME NEW S, S \subseteq Entries, NEW i \in 1 .. Cardinality(S)
  PROVE  \E k \in Names(S) : At(S, i, k)
<1> DEFINE T == {k \in Nat : i <= Rank(S, k)}
<1>1. Cardinality(S) \in Nat /\ \A e \in S : e[1] \in Nat
  BY FiniteEntries
<1>2. S # {}
  BY <1>1, FS_EmptySet
<1>3. PICK e \in S : Rank(S, e[1]) = Cardinality(S)
  BY <1>2, LastName
<1>4. e[1] \in T
  BY <1>1, <1>3
<1>5. PICK k \in T : \A x \in T : k <= x
  BY <1>4, LeastNumber
<1>6. Rank(S, k) \in Nat /\ Rank(S, k - 1) \in Nat
  BY <1>5, RankGrows
<1>7. Rank(S, k - 1) < i
  <2>1. CASE k = 0
    <3>1. k - 1 = -1
      BY <2>1
    <3>2. QED
      BY <3>1, RankOfNothing
  <2>2. CASE k # 0
    <3>1. k - 1 \in Nat /\ ~ (k <= k - 1)
      BY <2>2, <1>5
    <3>2. QED
      BY <3>1, <1>5, <1>6
  <2>3. QED
    BY <2>1, <2>2
<1>8. k \in Names(S)
  BY <1>5, <1>6, <1>7, RankOfGap
<1>9. QED
  BY <1>5, <1>7, <1>8 DEF At

\* No position has two.
LEMMA PositionHasOneName ==
  ASSUME NEW S, S \subseteq Entries, NEW i \in Int, NEW j, NEW k, At(S, i, j), At(S, i, k)
  PROVE  j = k
<1>1. j \in Nat /\ k \in Nat
  BY FiniteEntries DEF At, Names
<1>2. \A a, b \in Nat : a < b => Rank(S, a) <= Rank(S, b - 1)
  BY RankGrows
<1>3. /\ Rank(S, j) \in Nat /\ Rank(S, k) \in Nat
      /\ Rank(S, j - 1) \in Nat /\ Rank(S, k - 1) \in Nat
  BY <1>1, RankGrows
<1>4. ~ (j < k) /\ ~ (k < j)
  BY <1>1, <1>2, <1>3 DEF At
<1>5. QED
  BY <1>1, <1>4

-----------------------------------------------------------------------------
(***************************************************************************)
(* What SCAN reads and computes.                                           *)
(***************************************************************************)

\* The rank among the entries of the store.
LEMMA UpToIsRank == \A k : UpTo(k) = Rank(present, k)
BY DEF UpTo, Rank

\* A position of the listing holds the name that covers it.
LEMMA ListingAt ==
  ASSUME present \subseteq Entries, NEW i \in 1 .. Cardinality(present)
  PROVE  At(present, i, Listing[i])
<1>1. PICK k \in Names(present) : At(present, i, k)
  BY PositionHasName
<1>2. Listing[i] = CHOOSE j \in Names(present) : UpTo(j - 1) < i /\ i <= UpTo(j)
  BY DEF Listing
<1>3. QED
  BY <1>1, <1>2 DEF At, UpTo, Rank

\* A name is listed right after the entries of smaller names.
LEMMA NameIsListed ==
  ASSUME present \subseteq Entries, NEW k \in Names(present)
  PROVE  /\ UpTo(k - 1) + 1 \in 1 .. Cardinality(present)
         /\ Listing[UpTo(k - 1) + 1] = k
<1> DEFINE i == UpTo(k - 1) + 1
<1>1. PICK e \in present : k = e[1]
  BY DEF Names
<1>2. k \in Nat /\ Cardinality(present) \in Nat
  BY <1>1, FiniteEntries
<1>3. /\ UpTo(k - 1) \in Nat /\ UpTo(k) \in Nat
      /\ UpTo(k) <= Cardinality(present)
  BY <1>2, RankGrows, UpToIsRank
<1>4. UpTo(k - 1) < UpTo(k)
  BY <1>1, <1>2, RankOfName, UpToIsRank
<1>5. i \in 1 .. Cardinality(present) /\ At(present, i, k)
  BY <1>2, <1>3, <1>4, UpToIsRank DEF At
<1>6. At(present, i, Listing[i])
  BY <1>5, ListingAt
<1>7. QED
  BY <1>5, <1>6, PositionHasOneName

\* The smaller of two numbers.
LEMMA MinOfTwo ==
  ASSUME NEW a \in Int, NEW b \in Int
  PROVE  Min({a, b}) = IF a <= b THEN a ELSE b
BY DEF Min

\* The names on a stretch of the listing.
LEMMA Stretch ==
  ASSUME present \subseteq Entries, NEW m \in Nat, NEW n \in Nat,
         n <= Cardinality(present)
  PROVE  Range(SubSeq(Listing, m + 1, n)) = {Listing[i] : i \in m + 1 .. n}
<1> DEFINE Page == SubSeq(Listing, m + 1, n)
           All  == {Listing[i] : i \in m + 1 .. n}
<1>1. /\ Page \in Seq(All)
      /\ Len(Page) = IF m + 1 <= n THEN n - (m + 1) + 1 ELSE 0
      /\ \A i \in 1 .. n - (m + 1) + 1 : Page[i] = Listing[(m + 1) + i - 1]
  <2> HIDE DEF All
  <2>1. \A i \in m + 1 .. n : Listing[i] \in All
    BY DEF All
  <2>2. m + 1 \in Int /\ n \in Int
    OBVIOUS
  <2>3. QED
    BY <2>1, <2>2, SubSeqProperties
<1>2. DOMAIN Page = 1 .. (n - m)
  <2>1. DOMAIN Page = 1 .. Len(Page)
    <3> HIDE DEF Page, All
    <3>1. QED
      BY <1>1
  <2>2. Len(Page) = IF m + 1 <= n THEN n - m ELSE 0
    BY <1>1
  <2>3. QED
    BY <2>1, <2>2
<1>3. \A i \in 1 .. (n - m) : Page[i] = Listing[m + i]
  BY <1>1
<1> HIDE DEF Page
<1>4. ASSUME NEW i \in m + 1 .. n
      PROVE  Listing[i] \in Range(Page)
  <2>1. i - m \in DOMAIN Page /\ Page[i - m] = Listing[i]
    BY <1>2, <1>3
  <2>2. QED
    BY <2>1 DEF Range
<1>5. ASSUME NEW x \in Range(Page)
      PROVE  x \in All
  <2>1. PICK i \in DOMAIN Page : x = Page[i]
    BY DEF Range
  <2>2. m + i \in m + 1 .. n /\ x = Listing[m + i]
    BY <1>2, <1>3, <2>1
  <2>3. QED
    BY <2>2
<1>6. QED
  BY <1>4, <1>5 DEF Page

\* cursor + count is an int, and on the first page it is not negative.
LEMMA SumFacts ==
  ASSUME cursor \in Nat, NEW count \in Counts
  PROVE  /\ Sum(count) \in Int
         /\ cursor = 0 => Sum(count) > 0
<1>1. PageSize(count) \in 1 .. Half - 1
  BY ScanAssumption DEF PageSize
<1>2. Sum(count) \in Int
  BY <1>1, ScanAssumption DEF Sum
<1>3. CASE cursor = 0
  <2>1. (PageSize(count) + Half) % (2 * Half) = PageSize(count) + Half
    BY <1>1, ScanAssumption
  <2>2. cursor + PageSize(count) + Half = PageSize(count) + Half
    BY <1>1, <1>3, ScanAssumption
  <2>3. Sum(count) = PageSize(count)
    BY <1>1, <2>1, <2>2, ScanAssumption DEF Sum
  <2>4. QED
    BY <1>1, <1>2, <2>3
<1>4. QED
  BY <1>2, <1>3

-----------------------------------------------------------------------------
(***************************************************************************)
(* The invariant.                                                          *)
(***************************************************************************)

\* What lies behind the cursor has been returned, said of the matching keys
\* that stay, by the position where each begins.
Covered ==
  status = "scanning" /\ ~shifted =>
    \A k \in stayed \cap Matching : UpTo(k - 1) < cursor => k \in seen

ScanInv == TypeOK /\ Covered /\ StayersReturnedUnlessShifted

\* Before the first iteration there is nothing to have returned.
LEMMA ScanInit == Init => ScanInv
<1> SUFFICES ASSUME Init PROVE ScanInv
  OBVIOUS
<1>1. TypeOK
  BY DEF Init, TypeOK
<1>2. QED
  BY <1>1 DEF Init, ScanInv, Covered, StayersReturnedUnlessShifted

\* Nothing is behind the cursor 0.
LEMMA BeginSound == ScanInv /\ Begin => ScanInv'
<1> SUFFICES ASSUME ScanInv, Begin PROVE ScanInv'
  OBVIOUS
<1>1. TypeOK'
  BY DEF ScanInv, Begin, TypeOK, Names
<1>2. Covered'
  <2> SUFFICES ASSUME NEW k \in (stayed \cap Matching)', UpTo(k - 1)' < 0
               PROVE  FALSE
    BY DEF Begin, Covered
  <2>1. k \in Int /\ k - 1 \in Int /\ present' \subseteq Entries
    <3>1. k \in Nat
      BY ScanAssumption
    <3>2. present' \subseteq Entries
      BY <1>1 DEF TypeOK, Entries
    <3>3. QED
      BY <3>1, <3>2
  <2>2. Rank(present', k - 1) \in Nat
    BY <2>1, RankGrows
  <2>3. UpTo(k - 1)' = Rank(present', k - 1)
    BY DEF UpTo, Rank
  <2>4. QED
    BY <2>2, <2>3
<1>3. StayersReturnedUnlessShifted'
  BY DEF Begin, StayersReturnedUnlessShifted
<1>4. QED
  BY <1>1, <1>2, <1>3 DEF ScanInv

\* Every name is behind a cursor past the end.
LEMMA ScanPastEndSound == ScanInv /\ ScanPastEnd => ScanInv'
<1> SUFFICES ASSUME ScanInv, ScanPastEnd PROVE ScanInv'
  OBVIOUS
<1> USE DEF ScanPastEnd, Answer
<1>1. TypeOK'
  BY DEF ScanInv, TypeOK
<1>2. Covered'
  BY DEF Covered
<1>3. StayersReturnedUnlessShifted'
  <2> SUFFICES ASSUME ~shifted, NEW k \in stayed \cap Matching
               PROVE  k \in seen
    BY DEF StayersReturnedUnlessShifted
  <2>1. present \subseteq Entries /\ k \in Names(present) /\ cursor \in Nat
    BY DEF ScanInv, TypeOK, Entries
  <2>2. UpTo(k - 1) + 1 \in 1 .. Cardinality(present)
    BY <2>1, NameIsListed
  <2>3. Cardinality(present) \in Nat /\ UpTo(k - 1) \in Int
    <3>1. k - 1 \in Int
      BY <2>1, FiniteEntries DEF Names
    <3>2. QED
      BY <2>1, <3>1, FiniteEntries, RankGrows, UpToIsRank
  <2>4. UpTo(k - 1) < cursor
    BY <2>1, <2>2, <2>3
  <2>5. QED
    BY <2>4 DEF ScanInv, Covered
<1>4. QED
  BY <1>1, <1>2, <1>3 DEF ScanInv

\* A page is what lies between the old cursor and the new one.
LEMMA ScanPageSound ==
  ASSUME ScanInv, NEW count \in Counts, ScanPage(count)
  PROVE  ScanInv'
<1> DEFINE n    == Cardinality(present)
           end  == Min({Sum(count), n})
           page == Range(SubSeq(Listing, cursor + 1, end))
           next == IF end >= n THEN 0 ELSE end
<1>1. /\ status = "scanning" /\ cursor < n /\ cursor <= end
      /\ cursor' = next /\ seen' = seen \cup (page \cap Matching)
      /\ status' = IF next = 0 THEN "done" ELSE "scanning"
      /\ present' = present /\ stayed' = stayed /\ shifted' = shifted
  BY DEF ScanPage, Answer
<1>2. /\ present \subseteq Entries /\ n \in Nat /\ cursor \in Nat
  BY FiniteEntries DEF ScanInv, TypeOK, Entries
<1>3. end \in Nat /\ end <= n /\ end > 0
  <2>1. Sum(count) \in Int /\ (cursor = 0 => Sum(count) > 0)
    BY <1>2, SumFacts
  <2>2. end = IF Sum(count) <= n THEN Sum(count) ELSE n
    BY <1>2, <2>1, MinOfTwo
  <2> HIDE DEF end
  <2>3. QED
    BY <1>1, <1>2, <2>1, <2>2
<1>4. page = {Listing[i] : i \in cursor + 1 .. end}
  <2> HIDE DEF end
  <2>1. QED
    BY <1>2, <1>3, Stretch
<1> HIDE DEF end, page
<1>5. ASSUME ~shifted, NEW k \in stayed \cap Matching, UpTo(k - 1) < end
      PROVE  k \in seen'
  <2>1. k \in Names(present) /\ k - 1 \in Int
    BY <1>2, FiniteEntries DEF ScanInv, TypeOK, Names
  <2>2. UpTo(k - 1) \in Nat
    BY <1>2, <2>1, RankGrows, UpToIsRank
  <2>3. CASE UpTo(k - 1) < cursor
    BY <1>1, <1>5, <2>3 DEF ScanInv, Covered
  <2>4. CASE UpTo(k - 1) >= cursor
    <3>1. UpTo(k - 1) + 1 \in cursor + 1 .. end
      BY <1>2, <1>3, <1>5, <2>2, <2>4
    <3>2. Listing[UpTo(k - 1) + 1] = k
      BY <1>2, <2>1, NameIsListed
    <3>3. k \in page
      BY <1>4, <3>1, <3>2
    <3>4. QED
      BY <1>1, <3>3
  <2>5. QED
    BY <1>2, <2>2, <2>3, <2>4
<1>6. TypeOK'
  <2>1. cursor' \in Nat /\ status' \in {"done", "scanning"}
    BY <1>1, <1>3
  <2>2. QED
    BY <1>1, <2>1 DEF ScanInv, TypeOK
<1>7. Covered'
  <2> SUFFICES ASSUME status' = "scanning", ~shifted', NEW k \in (stayed \cap Matching)',
                      UpTo(k - 1)' < cursor'
               PROVE  k \in seen'
    BY DEF Covered
  <2>1. UpTo(k - 1)' = UpTo(k - 1) /\ cursor' = end
    BY <1>1 DEF UpTo
  <2>2. QED
    BY <1>1, <1>5, <2>1
<1>8. StayersReturnedUnlessShifted'
  <2> SUFFICES ASSUME status' = "done", ~shifted', NEW k \in (stayed \cap Matching)'
               PROVE  k \in seen'
    BY DEF StayersReturnedUnlessShifted
  <2>1. end = n
    BY <1>1, <1>2, <1>3
  <2>2. k \in Names(present) /\ k - 1 \in Int
    BY <1>1, <1>2, FiniteEntries DEF ScanInv, TypeOK, Names
  <2>3. UpTo(k - 1) \in Nat
    BY <1>2, <2>2, RankGrows, UpToIsRank
  <2>4. UpTo(k - 1) < end
    BY <1>2, <2>1, <2>2, <2>3, NameIsListed
  <2>5. QED
    BY <1>1, <1>5, <2>4
<1>9. QED
  BY <1>6, <1>7, <1>8 DEF ScanInv

\* An iteration that fails returns nothing and promises nothing.
LEMMA ScanPanicsSound ==
  ASSUME ScanInv, NEW count \in Counts, ScanPanics(count)
  PROVE  ScanInv'
BY DEF ScanInv, TypeOK, Covered, StayersReturnedUnlessShifted, ScanPanics

\* A new entry moves names away from the start, never behind the cursor.
LEMMA AddEntrySound ==
  ASSUME ScanInv, NEW e \in Entries, AddEntry(e)
  PROVE  ScanInv'
<1>1. TypeOK'
  BY DEF ScanInv, TypeOK, AddEntry, Names, Entries
<1>2. Covered'
  <2> SUFFICES ASSUME status = "scanning", ~shifted, NEW k \in stayed \cap Matching,
                      UpTo(k - 1)' < cursor
               PROVE  k \in seen
    BY DEF AddEntry, Covered
  <2>1. present \subseteq Entries /\ cursor \in Nat
    BY DEF ScanInv, TypeOK, Entries
  <2>2. present \subseteq present' /\ present' \subseteq Entries
    BY <2>1 DEF AddEntry
  <2>3. k - 1 \in Int
    BY NamesAreNumbers
  <2>4. UpTo(k - 1)' = Rank(present', k - 1) /\ UpTo(k - 1) = Rank(present, k - 1)
    BY DEF UpTo, Rank
  <2>5. /\ UpTo(k - 1) \in Nat /\ UpTo(k - 1)' \in Nat
        /\ UpTo(k - 1) <= UpTo(k - 1)'
    BY <2>2, <2>3, <2>4, RankGrows
  <2>6. UpTo(k - 1) < cursor
    BY <2>1, <2>5
  <2>7. QED
    BY <2>6 DEF ScanInv, Covered
<1>3. StayersReturnedUnlessShifted'
  BY DEF ScanInv, AddEntry, StayersReturnedUnlessShifted
<1>4. QED
  BY <1>1, <1>2, <1>3 DEF ScanInv

\* An entry that goes away in front of the cursor moves no name across it.
LEMMA RemoveEntrySound ==
  ASSUME ScanInv, NEW e \in Entries, RemoveEntry(e)
  PROVE  ScanInv'
<1>1. TypeOK'
  BY DEF ScanInv, TypeOK, RemoveEntry
<1>2. Covered'
  <2> SUFFICES ASSUME status = "scanning", ~shifted, ~ (UpTo(e[1]) <= cursor),
                      NEW k \in stayed \cap Matching, UpTo(k - 1)' < cursor
               PROVE  k \in seen
    <3>1. /\ ~shifted' => ~shifted /\ ~ (UpTo(e[1]) <= cursor)
          /\ stayed' \subseteq stayed /\ cursor' = cursor /\ seen' = seen
          /\ status' = status
      BY DEF RemoveEntry
    <3>2. QED
      BY <3>1 DEF Covered
  <2> DEFINE low == {f \in present : f[1] <= k - 1}
  <2>1. present \subseteq Entries /\ cursor \in Nat /\ e \in present
    BY DEF ScanInv, TypeOK, Entries, RemoveEntry
  <2>2. k - 1 \in Int /\ e[1] \in Int
    BY NamesAreNumbers
  <2>3. /\ UpTo(k - 1) = Cardinality(low)
        /\ UpTo(k - 1)' = Cardinality(low \ {e})
    <3>1. {f \in present' : f[1] <= k - 1} = low \ {e}
      BY DEF RemoveEntry
    <3>2. QED
      BY <3>1 DEF UpTo
  <2>4. IsFiniteSet(low)
    <3>1. IsFiniteSet(present) /\ low \subseteq present
      BY <2>1, FiniteEntries
    <3>2. QED
      BY <3>1, FS_Subset
  <2>5. /\ Cardinality(low) \in Nat
        /\ Cardinality(low \ {e}) =
             IF e \in low THEN Cardinality(low) - 1 ELSE Cardinality(low)
    BY <2>4, FS_RemoveElement, FS_CardinalityType
  <2>6. UpTo(k - 1) \in Nat /\ UpTo(e[1]) \in Nat
    BY <2>1, <2>2, RankGrows, UpToIsRank
  <2>7. ~ (e[1] <= k - 1)
    <3>1. SUFFICES ASSUME e[1] <= k - 1 PROVE FALSE
      OBVIOUS
    <3>2. UpTo(e[1]) <= UpTo(k - 1)
      BY <2>1, <2>2, <3>1, RankGrows, UpToIsRank
    <3>3. UpTo(k - 1) <= cursor
      BY <2>1, <2>3, <2>5, <3>1
    <3>4. QED
      BY <2>1, <2>6, <3>2, <3>3
  <2>8. UpTo(k - 1) < cursor
    BY <2>3, <2>5, <2>7
  <2>9. QED
    BY <2>8 DEF ScanInv, Covered
<1>3. StayersReturnedUnlessShifted'
  BY DEF ScanInv, RemoveEntry, StayersReturnedUnlessShifted
<1>4. QED
  BY <1>1, <1>2, <1>3 DEF ScanInv

\* A step of nobody.
LEMMA StutterSound == ScanInv /\ UNCHANGED vars => ScanInv'
BY DEF ScanInv, vars, TypeOK, Covered, StayersReturnedUnlessShifted, UpTo

-----------------------------------------------------------------------------
\* Everything below follows from this: each step of the client and of the other
\* connections keeps the invariant.
THEOREM ScanInductive == Spec => []ScanInv
<1>1. ScanInv /\ [Next]_vars => ScanInv'
  <2> SUFFICES ASSUME ScanInv, [Next]_vars PROVE ScanInv'
    OBVIOUS
  <2>1. CASE Begin
    BY <2>1, BeginSound
  <2>2. CASE ScanPastEnd
    BY <2>2, ScanPastEndSound
  <2>3. CASE \E count \in Counts : ScanPage(count)
    BY <2>3, ScanPageSound
  <2>4. CASE \E count \in Counts : ScanPanics(count)
    BY <2>4, ScanPanicsSound
  <2>5. CASE \E e \in Entries : AddEntry(e)
    BY <2>5, AddEntrySound
  <2>6. CASE \E e \in Entries : RemoveEntry(e)
    BY <2>6, RemoveEntrySound
  <2>7. CASE UNCHANGED vars
    BY <2>7, StutterSound
  <2>8. QED
    BY <2>1, <2>2, <2>3, <2>4, <2>5, <2>6, <2>7 DEF Next, Scan, Entries
<1>2. QED
  BY ScanInit, <1>1, PTL DEF Spec

\* The types of the variables, for SCAN in store.go: in particular the cursor of a
\* reply never goes below zero, however large COUNT is.
THEOREM ScanTypeCorrect == Spec => []TypeOK
<1>1. ScanInv => TypeOK
  BY DEF ScanInv
<1>2. QED
  BY <1>1, ScanInductive, PTL

\* The promise of store.go:243: an iteration that ended has returned each matching
\* key that was there all along, unless an entry behind its cursor was removed.
THEOREM ScanReturnsStayers == Spec => []StayersReturnedUnlessShifted
<1>1. ScanInv => StayersReturnedUnlessShifted
  BY DEF ScanInv
<1>2. QED
  BY <1>1, ScanInductive, PTL

\* During the iteration: what Scan's listing has in front of the offset that the
\* client holds is what the client has seen.
THEOREM ScanSeesBehindCursor == Spec => []BehindCursorSeen
<1>1. ScanInv => BehindCursorSeen
  <2> DEFINE n   == Cardinality(present)
             end == Min({cursor, n})
  <2> SUFFICES ASSUME ScanInv, status = "scanning", ~shifted,
                      NEW k \in Range(SubSeq(Listing, 1, end)) \cap stayed \cap Matching
               PROVE  k \in seen
    BY DEF BehindCursorSeen
  <2>1. present \subseteq Entries /\ cursor \in Nat /\ n \in Nat
    BY FiniteEntries DEF ScanInv, TypeOK, Entries
  <2>2. end = IF cursor <= n THEN cursor ELSE n
    BY <2>1, MinOfTwo
  <2> HIDE DEF end
  <2>3. end \in Nat /\ end <= n /\ end <= cursor
    BY <2>1, <2>2
  <2>4. Range(SubSeq(Listing, 1, end)) = {Listing[i] : i \in 1 .. end}
    <3>1. 0 + 1 = 1
      OBVIOUS
    <3>2. Range(SubSeq(Listing, 0 + 1, end)) = {Listing[i] : i \in 0 + 1 .. end}
      BY <2>1, <2>3, Stretch
    <3>3. QED
      BY <3>1, <3>2
  <2>5. PICK i \in 1 .. end : k = Listing[i]
    BY <2>4
  <2>6. At(present, i, k)
    BY <2>1, <2>3, <2>5, ListingAt
  <2>7. k - 1 \in Int
    BY NamesAreNumbers
  <2>8. UpTo(k - 1) \in Nat
    BY <2>1, <2>7, RankGrows, UpToIsRank
  <2>9. UpTo(k - 1) < cursor
    BY <2>1, <2>3, <2>6, <2>8, UpToIsRank DEF At
  <2>10. QED
    BY <2>9 DEF ScanInv, Covered
<1>2. QED
  BY <1>1, ScanInductive, PTL
=============================================================================
