--------------------------- MODULE RecorderProofs ---------------------------
(***************************************************************************)
(* Theorems about Recorder, for any number of goroutines, windows, slots   *)
(* and entries, and any commands, keys, latencies and bucket bounds: the   *)
(* ring of hot-key windows, the slow log, the leaderboard read from the    *)
(* ring and the percentiles read from the histograms.                      *)
(***************************************************************************)
EXTENDS Recorder, SumProofs, SequenceTheorems

\* The types the argument needs.
RingTypes ==
  /\ now \in Windows
  /\ job \in [Procs -> [call : Calls, window : Windows]]
  /\ slots \in [Slots -> [Keys -> Nat]] /\ slotTime \in [Slots -> Nat]
  /\ accesses \in [Windows -> [Keys -> Nat]] /\ late \in BOOLEAN

\* Nobody counts in a window that has not begun.
NotAhead ==
  /\ \A p \in Procs : job[p].window <= now
  /\ \A s \in Slots : slotTime[s] <= now

\* A slot holds what was counted in one of its windows.
SlotHolds(s) ==
  slotTime[s] # 0 =>
    /\ slotTime[s] \in Windows /\ SlotOf(slotTime[s]) = s
    /\ slots[s] = accesses[slotTime[s]]

\* A slot has moved on from every window it was counted in.
MovesOn ==
  \A w \in Windows : accesses[w] # NoHits => slotTime[SlotOf(w)] >= w

RingInv ==
  /\ RingTypes /\ NotAhead
  /\ ~late => MovesOn /\ \A s \in Slots : SlotHolds(s)

\* Each window has a slot.
LEMMA SlotOfWindow ==
  ASSUME NEW w \in Nat
  PROVE  SlotOf(w) \in Slots
BY RecorderAssumption DEF SlotOf, Slots

\* Two windows that share a slot are a whole ring apart.
LEMMA RingApart ==
  ASSUME NEW v \in Nat, NEW w \in Nat, SlotOf(v) = SlotOf(w), v < w
  PROVE  w - v >= SlotCount
<1> DEFINE n == SlotCount
<1>1. n \in Nat /\ n > 0
  BY RecorderAssumption
<1>2. PICK a \in Nat : v = n * a + (v % n)
  <2>1. v \div n \in Nat /\ v = n * (v \div n) + (v % n)
    BY <1>1
  <2> QED
    BY <2>1
<1>3. PICK b \in Nat : w = n * b + (w % n)
  <2>1. w \div n \in Nat /\ w = n * (w \div n) + (w % n)
    BY <1>1
  <2> QED
    BY <2>1
<1>4. PICK r \in Nat : v = n * a + r /\ w = n * b + r
  <2>1. v % n \in Nat /\ v % n = w % n
    BY <1>1 DEF SlotOf
  <2> QED
    BY <1>2, <1>3, <2>1
<1> HIDE DEF n
<1>5. w - v = n * (b - a)
  BY <1>1, <1>4
<1>6. b - a >= 1
  BY <1>1, <1>4, <1>5
<1>7. n * (b - a) >= n
  BY <1>1, <1>6
<1> QED
  BY <1>5, <1>7 DEF n

\* The ring is empty to begin with.
LEMMA RingInit == Init => RingInv
<1> SUFFICES ASSUME Init PROVE RingInv
  OBVIOUS
<1>1. Start \in Windows /\ Start > 0
  BY RecorderAssumption DEF Windows
<1>2. NoJob \in [call : Calls, window : Windows] /\ NoJob.window = Start
  <2>1. (CHOOSE c \in Calls : TRUE) \in Calls
    BY RecorderAssumption
  <2> QED
    BY <1>1, <2>1 DEF NoJob
<1>3. NoHits \in [Keys -> Nat]
  BY DEF NoHits
<1>4. RingTypes
  BY <1>1, <1>2, <1>3 DEF Init, RingTypes
<1>5. NotAhead
  BY <1>1, <1>2, RecorderAssumption DEF Init, NotAhead, Windows
<1>6. MovesOn /\ \A s \in Slots : SlotHolds(s)
  BY DEF Init, MovesOn, SlotHolds
<1> QED
  BY <1>4, <1>5, <1>6 DEF RingInv

\* An access that is not held up for a whole ring finds the slot at its own window,
\* or at an older one and nothing counted in its own.
LEMMA AccessFinds ==
  ASSUME RingInv, NEW p \in Procs, Access(p), ~late'
  PROVE  LET w == job[p].window IN
         /\ slotTime[SlotOf(w)] <= w
         /\ slotTime[SlotOf(w)] # w => accesses[w] = NoHits
         /\ Kept(SlotOf(w), w) = accesses[w]
<1> DEFINE w == job[p].window  t == slotTime[SlotOf(w)]
<1>1. /\ ~late /\ now - w < SlotCount
      /\ w \in Windows /\ w \in Nat /\ now \in Nat /\ w <= now
  <2>1. w \in Windows /\ w \in Nat /\ now \in Nat /\ w <= now
    BY RecorderAssumption DEF RingInv, RingTypes, NotAhead, Windows
  <2>2. ~late /\ ~(now - w >= SlotCount)
    BY Zenon DEF Access
  <2> QED
    BY <2>1, <2>2, RecorderAssumption
<1>2. SlotOf(w) \in Slots
  BY <1>1, SlotOfWindow
<1>3. t \in Nat /\ t <= now /\ SlotHolds(SlotOf(w))
  BY <1>1, <1>2 DEF RingInv, RingTypes, NotAhead
<1> HIDE DEF w, t
<1>4. t <= w
  <2>1. SUFFICES ASSUME t > w PROVE FALSE
    BY <1>1, <1>3
  <2>2. SlotOf(t) = SlotOf(w)
    BY <1>1, <1>3, <2>1 DEF SlotHolds, t
  <2>3. t - w >= SlotCount
    BY <1>1, <1>3, <2>1, <2>2, RingApart
  <2> QED
    BY <1>1, <1>3, <2>3, RecorderAssumption
<1>5. t # w => accesses[w] = NoHits
  BY <1>1, <1>3, <1>4 DEF RingInv, MovesOn, t
<1>6. w # 0
  BY <1>1, RecorderAssumption DEF Windows
<1>7. Kept(SlotOf(w), w) = accesses[w]
  BY <1>3, <1>5, <1>6 DEF Kept, SlotHolds, t
<1> QED
  BY <1>4, <1>5, <1>7 DEF w, t

\* An access keeps every slot in line with the accesses of its window.
LEMMA AccessStep ==
  ASSUME RingInv, NEW p \in Procs, Access(p)
  PROVE  RingInv'
<1> DEFINE w == job[p].window  slot == SlotOf(w)  key == job[p].call.key
<1>1. /\ w \in Windows /\ w \in Nat /\ w # 0 /\ now \in Nat /\ w <= now
      /\ now' = now /\ job' = job
  BY RecorderAssumption DEF Access, RingInv, RingTypes, NotAhead, Windows
<1>2. slot \in Slots
  BY <1>1, SlotOfWindow
<1>3. /\ slots' = [slots EXCEPT ![slot] = [Kept(slot, w) EXCEPT ![key] = @ + 1]]
      /\ slotTime' = [slotTime EXCEPT ![slot] = w]
      /\ accesses' = [accesses EXCEPT ![w] = [accesses[w] EXCEPT ![key] = @ + 1]]
      /\ late' = (late \/ now - w >= SlotCount)
  BY DEF Access
<1> HIDE DEF w, slot, key
<1>4. RingTypes'
  <2>1. Kept(slot, w) \in [Keys -> Nat] /\ accesses[w] \in [Keys -> Nat]
    BY <1>1, <1>2 DEF Kept, NoHits, RingInv, RingTypes
  <2>2. ASSUME NEW f \in [Keys -> Nat]
        PROVE  [f EXCEPT ![key] = @ + 1] \in [Keys -> Nat]
    <3>1. CASE key \in Keys
      BY <3>1
    <3>2. CASE key \notin Keys
      BY <3>2
    <3> QED
      BY <3>1, <3>2
  <2>3. slots' \in [Slots -> [Keys -> Nat]] /\ slotTime' \in [Slots -> Nat]
    BY <1>1, <1>3, <2>1, <2>2 DEF RingInv, RingTypes
  <2>4. accesses' \in [Windows -> [Keys -> Nat]]
    BY <1>3, <2>1, <2>2 DEF RingInv, RingTypes
  <2>5. late' \in BOOLEAN
    BY <1>3
  <2> QED
    BY <1>1, <2>3, <2>4, <2>5 DEF RingInv, RingTypes
<1>5. NotAhead'
  BY <1>1, <1>2, <1>3 DEF RingInv, RingTypes, NotAhead
<1>6. ASSUME ~late'  PROVE MovesOn' /\ \A s \in Slots : SlotHolds(s)'
  <2>1. /\ ~late /\ slotTime[slot] <= w
        /\ Kept(slot, w) = accesses[w]
    BY <1>3, <1>6, AccessFinds DEF w, slot
  <2>2. /\ slotTime'[slot] = w
        /\ \A s \in Slots \ {slot} : slotTime'[s] = slotTime[s] /\ slots'[s] = slots[s]
        /\ slots'[slot] = accesses'[w]
        /\ \A v \in Windows \ {w} : accesses'[v] = accesses[v]
    BY <1>1, <1>2, <1>3, <2>1 DEF RingInv, RingTypes
  <2>3. ASSUME NEW s \in Slots  PROVE SlotHolds(s)'
    <3>1. CASE s = slot
      BY <1>1, <2>2, <3>1 DEF SlotHolds, SlotOf, slot
    <3>2. CASE s # slot
      BY <2>1, <2>2, <3>2 DEF RingInv, SlotHolds, slot
    <3> QED
      BY <3>1, <3>2
  <2>4. ASSUME NEW v \in Windows, accesses'[v] # NoHits
        PROVE  slotTime'[SlotOf(v)] >= v
    <3>1. v \in Nat /\ SlotOf(v) \in Slots
      BY SlotOfWindow, RecorderAssumption DEF Windows
    <3>2. CASE v = w
      BY <1>1, <2>2, <3>2 DEF slot
    <3>3. CASE v # w
      <4>1. slotTime[SlotOf(v)] >= v
        BY <2>1, <2>2, <2>4, <3>3 DEF RingInv, MovesOn
      <4> QED
        BY <1>1, <2>1, <2>2, <3>1, <4>1 DEF RingInv, RingTypes
    <3> QED
      BY <3>2, <3>3
  <2> QED
    BY <2>3, <2>4 DEF MovesOn, SlotOf
<1> QED
  BY <1>4, <1>5, <1>6 DEF RingInv

\* Every step keeps the ring in line.
LEMMA RingNext ==
  ASSUME RingInv, [Next]_vars
  PROVE  RingInv'
<1>1. ASSUME UNCHANGED ring, now' \in Windows, now' >= now,
             job' \in [Procs -> [call : Calls, window : Windows]],
             \A p \in Procs : job'[p].window <= now'
      PROVE  RingInv'
  <2>1. RingTypes' /\ NotAhead'
    BY <1>1, RecorderAssumption DEF ring, RingInv, RingTypes, NotAhead, Windows
  <2>2. \A s \in Slots : SlotHolds(s) => SlotHolds(s)'
    BY <1>1 DEF ring, SlotHolds
  <2>3. MovesOn => MovesOn'
    BY <1>1 DEF ring, MovesOn
  <2> QED
    BY <1>1, <2>1, <2>2, <2>3 DEF ring, RingInv
<1>2. /\ now \in Windows /\ now \in Nat /\ Start <= now /\ Start \in Windows
      /\ job \in [Procs -> [call : Calls, window : Windows]]
      /\ \A p \in Procs : job[p].window <= now
  BY RecorderAssumption DEF RingInv, RingTypes, NotAhead, Windows
<1>3. CASE UNCHANGED <<now, job, ring>>
  BY <1>1, <1>2, <1>3
<1>4. ASSUME NEW p \in Procs, RecordLatency(p)  PROVE RingInv'
  <2>1. PICK call \in Calls : job' = [job EXCEPT ![p].call = call]
    BY <1>4 DEF RecordLatency
  <2>2. /\ job' \in [Procs -> [call : Calls, window : Windows]]
        /\ \A q \in Procs : job'[q].window = job[q].window
    BY <1>2, <2>1
  <2> QED
    BY <1>1, <1>2, <1>4, <2>2 DEF RecordLatency
<1>5. ASSUME NEW p \in Procs, ReadClock(p)  PROVE RingInv'
  <2>1. /\ job' \in [Procs -> [call : Calls, window : Windows]]
        /\ \A q \in Procs : job'[q].window \in {job[q].window, now}
    BY <1>2, <1>5 DEF ReadClock
  <2> QED
    BY <1>1, <1>2, <1>5, <2>1 DEF ReadClock
<1>6. ASSUME NEW p \in Procs, LogIfSlow(p)  PROVE RingInv'
  <2>1. NoJob \in [call : Calls, window : Windows] /\ NoJob.window = Start
    <3>1. (CHOOSE c \in Calls : TRUE) \in Calls
      BY RecorderAssumption
    <3> QED
      BY <1>2, <3>1 DEF NoJob
  <2>2. job' = [job EXCEPT ![p] = NoJob] /\ now' = now /\ UNCHANGED ring
    BY <1>6 DEF LogIfSlow
  <2>3. /\ job' \in [Procs -> [call : Calls, window : Windows]]
        /\ \A q \in Procs : job'[q].window \in {job[q].window, Start}
    BY <1>2, <2>1, <2>2
  <2> QED
    BY <1>1, <1>2, <2>2, <2>3
<1>7. CASE Tick
  <2>1. now' \in Windows /\ now' = now + 1 /\ job' = job /\ UNCHANGED ring
    BY <1>2, <1>7, RecorderAssumption DEF Tick, Windows
  <2> QED
    BY <1>1, <1>2, <2>1, RecorderAssumption DEF Windows
<1>8. CASE SlowlogReset \/ TopReadsClock \/ TopReturns \/ UNCHANGED vars
  BY <1>3, <1>8 DEF SlowlogReset, TopReadsClock, TopReturns, vars
<1> QED
  BY <1>4, <1>5, <1>6, <1>7, <1>8, AccessStep DEF Next

\* The ring is in line in every state.
LEMMA RingInvariant == Spec => []RingInv
<1>1. RingInv /\ [Next]_vars => RingInv'
  BY RingNext
<1> QED
  BY RingInit, <1>1, PTL DEF Spec

\* Each slot counts all the accesses of its window and no others, as long as no
\* goroutine is held up for a whole ring between reading the clock and taking the
\* lock (hotkeyTracker.access).
THEOREM SlotsStayExact == Spec => []SlotsExact
<1>1. RingInv => SlotsExact
  BY DEF RingInv, SlotHolds, SlotsExact
<1> QED
  BY <1>1, RingInvariant, PTL

-----------------------------------------------------------------------------
(***************************************************************************)
(* The slow log.                                                           *)
(***************************************************************************)

Entries == [id : Nat, us : Latencies]

\* The i-th entry from the end, and what it must be.
Back(i) == slow[Len(slow) - i + 1]
Expected(i) == [id |-> nextID - i + 1, us |-> logged[Len(logged) - i + 1]]

\* The log is the end of the history, and the ids count on through resets.
LogInv ==
  /\ slow \in Seq(Entries) /\ logged \in Seq(Latencies)
  /\ nextID \in Nat /\ nextID >= Len(logged)
  /\ Len(slow) = IF Len(logged) <= MaxLen THEN Len(logged) ELSE MaxLen
  /\ \A i \in 1 .. Len(slow) : Back(i) = Expected(i)

\* The smaller of two numbers.
LEMMA MinOfTwo ==
  ASSUME NEW a \in Int, NEW b \in Int
  PROVE  Min({a, b}) = IF a <= b THEN a ELSE b
BY DEF Min

\* Newest keeps the end of a sequence.
LEMMA NewestFacts ==
  ASSUME NEW S, NEW s \in Seq(S), NEW n \in Nat
  PROVE  LET m == IF n <= Len(s) THEN n ELSE Len(s) IN
         /\ Newest(s, n) \in Seq(S) /\ Len(Newest(s, n)) = m
         /\ \A i \in 1 .. m : Newest(s, n)[m - i + 1] = s[Len(s) - i + 1]
<1> DEFINE m == IF n <= Len(s) THEN n ELSE Len(s)
           from == Len(s) - m + 1
<1>1. Len(s) \in Nat /\ m \in Nat /\ m <= Len(s)
  BY LenProperties
<1>2. Min({n, Len(s)}) = m
  BY <1>1, MinOfTwo
<1> HIDE DEF m
<1>3. Newest(s, n) = SubSeq(s, from, Len(s))
  BY <1>2 DEF Newest
<1>4. \A i \in from .. Len(s) : s[i] \in S
  BY <1>1, ElementOfSeq
<1>5. /\ SubSeq(s, from, Len(s)) \in Seq(S)
      /\ Len(SubSeq(s, from, Len(s))) = IF from <= Len(s) THEN Len(s) - from + 1 ELSE 0
      /\ \A i \in 1 .. Len(s) - from + 1 : SubSeq(s, from, Len(s))[i] = s[from + i - 1]
  <2>1. from \in Int /\ Len(s) \in Int
    BY <1>1
  <2> HIDE DEF from
  <2> QED
    BY <1>4, <2>1, SubSeqProperties
<1>6. Len(s) - from + 1 = m
  BY <1>1
<1>7. Len(Newest(s, n)) = m
  BY <1>1, <1>3, <1>5, <1>6
<1>8. ASSUME NEW i \in 1 .. m
      PROVE  Newest(s, n)[m - i + 1] = s[Len(s) - i + 1]
  <2>1. m - i + 1 \in 1 .. Len(s) - from + 1 /\ from + (m - i + 1) - 1 = Len(s) - i + 1
    BY <1>1, <1>6
  <2> HIDE DEF from
  <2> QED
    BY <1>3, <1>5, <2>1
<1> QED
  BY <1>3, <1>5, <1>7, <1>8 DEF m

\* One more entry.
LEMMA LogStep ==
  ASSUME RingInv, LogInv, NEW p \in Procs, LogIfSlow(p)
  PROVE  LogInv'
<1> DEFINE us == job[p].call.us
           e  == [id |-> nextID + 1, us |-> us]
           longer == Append(slow, e)
<1>1. us \in Latencies
  BY DEF RingInv, RingTypes, Latencies
<1>2. CASE ~IsSlow(us)
  BY <1>2 DEF LogIfSlow, log, LogInv, Back, Expected
<1>3. CASE IsSlow(us)
  <2>1. /\ nextID' = nextID + 1 /\ slow' = Newest(longer, MaxLen)
        /\ logged' = Append(logged, us)
    BY <1>3 DEF LogIfSlow
  <2>2. /\ slow \in Seq(Entries) /\ logged \in Seq(Latencies) /\ e \in Entries
        /\ nextID \in Nat /\ Len(slow) \in Nat /\ Len(logged) \in Nat
        /\ MaxLen \in Nat /\ nextID >= Len(logged)
        /\ Len(slow) = IF Len(logged) <= MaxLen THEN Len(logged) ELSE MaxLen
    BY <1>1, LenProperties, RecorderAssumption DEF LogInv, Entries
  <2> HIDE DEF e, us
  <2>3. /\ longer \in Seq(Entries) /\ Len(longer) = Len(slow) + 1
        /\ longer[Len(slow) + 1] = e
        /\ \A i \in 1 .. Len(slow) : longer[i] = slow[i]
    BY <2>2, AppendProperties
  <2>4. /\ logged' \in Seq(Latencies) /\ Len(logged') = Len(logged) + 1
        /\ logged'[Len(logged) + 1] = us
        /\ \A i \in 1 .. Len(logged) : logged'[i] = logged[i]
    BY <1>1, <2>1, <2>2, AppendProperties DEF us
  <2> HIDE DEF longer
  <2> DEFINE m == IF MaxLen <= Len(longer) THEN MaxLen ELSE Len(longer)
  <2>5. /\ slow' \in Seq(Entries) /\ Len(slow') = m
        /\ \A i \in 1 .. m : slow'[m - i + 1] = longer[Len(longer) - i + 1]
    BY <2>1, <2>2, <2>3, NewestFacts
  <2>6. m \in Nat /\ m <= Len(slow) + 1
        /\ m = IF Len(logged) + 1 <= MaxLen THEN Len(logged) + 1 ELSE MaxLen
    BY <2>2, <2>3
  <2> HIDE DEF m
  <2>7. ASSUME NEW i \in 1 .. m  PROVE Back(i)' = Expected(i)'
    <3>1. Back(i)' = longer[Len(slow) + 1 - i + 1]
      BY <2>3, <2>5 DEF Back
    <3>2. Expected(i)' = [id |-> (nextID + 1) - i + 1, us |-> logged'[(Len(logged) + 1) - i + 1]]
      <4>1. nextID' = nextID + 1 /\ Len(logged') = Len(logged) + 1
        BY <2>1, <2>4
      <4>2. Expected(i)' = [id |-> nextID' - i + 1, us |-> logged'[Len(logged') - i + 1]]
        BY DEF Expected
      <4> QED
        BY <4>1, <4>2, Zenon
    <3>3. CASE i = 1
      <4>1. Back(i)' = e
        BY <2>2, <2>3, <3>1, <3>3
      <4>2. Expected(i)' = [id |-> nextID + 1, us |-> us]
        BY <2>2, <2>4, <3>2, <3>3
      <4> QED
        BY <4>1, <4>2 DEF e
    <3>4. CASE i # 1
      <4>1. i - 1 \in 1 .. Len(slow) /\ i - 1 <= Len(logged)
        BY <2>2, <2>6, <3>4
      <4>2. Back(i)' = slow[Len(slow) - (i - 1) + 1]
        <5>1. /\ Len(slow) + 1 - i + 1 \in 1 .. Len(slow)
              /\ Len(slow) + 1 - i + 1 = Len(slow) - (i - 1) + 1
          BY <2>2, <4>1
        <5> QED
          BY <2>3, <3>1, <5>1
      <4>3. Expected(i)' = Expected(i - 1)
        <5>1. /\ (Len(logged) + 1) - i + 1 \in 1 .. Len(logged)
              /\ (Len(logged) + 1) - i + 1 = Len(logged) - (i - 1) + 1
              /\ (nextID + 1) - i + 1 = nextID - (i - 1) + 1
          BY <2>2, <4>1
        <5> QED
          BY <2>4, <3>2, <5>1 DEF Expected
      <4> QED
        BY <4>1, <4>2, <4>3 DEF LogInv, Back
    <3> QED
      BY <3>3, <3>4
  <2>8. nextID' \in Nat /\ nextID' >= Len(logged')
    BY <2>1, <2>2, <2>4
  <2> QED
    BY <2>4, <2>5, <2>6, <2>7, <2>8 DEF LogInv
<1> QED
  BY <1>2, <1>3

\* Every step keeps the log in line.
LEMMA LogNext ==
  ASSUME RingInv, LogInv, [Next]_vars
  PROVE  LogInv'
<1>1. CASE UNCHANGED log
  BY <1>1 DEF log, LogInv, Back, Expected
<1>2. CASE SlowlogReset
  <2>1. slow' = <<>> /\ logged' = <<>> /\ nextID' = nextID
    BY <1>2 DEF SlowlogReset
  <2> QED
    BY <2>1, RecorderAssumption DEF LogInv
<1>3. ASSUME NEW p \in Procs, RecordLatency(p) \/ ReadClock(p) \/ Access(p)
      PROVE  UNCHANGED log
  BY <1>3 DEF RecordLatency, ReadClock, Access
<1>4. TopReadsClock \/ TopReturns \/ Tick \/ UNCHANGED vars => UNCHANGED log
  BY DEF TopReadsClock, TopReturns, Tick, vars
<1> QED
  BY <1>1, <1>2, <1>3, <1>4, LogStep DEF Next

\* SLOWLOG GET answers with the newest slow commands, newest first and with
\* consecutive ids, however many connections log, whatever is cut off at MaxLen and
\* whenever the log is reset (slowlog.maybeRecord, get, reset).
THEOREM SlowlogStaysLatest == Spec => []SlowlogLatest
<1>1. Init => LogInv
  BY RecorderAssumption DEF Init, LogInv
<1>2. RingInv /\ LogInv /\ [Next]_vars => LogInv'
  BY LogNext
<1>3. LogInv => SlowlogLatest
  <2> SUFFICES ASSUME LogInv, NEW n \in 0 .. MaxLen + 1
               PROVE  LET got == SlowlogGet(n)
                          expected == Min({Len(logged), MaxLen} \cup ({n} \ {0}))
                      IN  /\ Len(got) = expected
                          /\ \A i \in 1 .. expected : got[i] = Expected(i)
    BY DEF SlowlogLatest, Expected
  <2> DEFINE got == SlowlogGet(n)
             expected == Min({Len(logged), MaxLen} \cup ({n} \ {0}))
             count == IF n <= 0 \/ n > Len(slow) THEN Len(slow) ELSE n
  <2>1. /\ Len(slow) \in Nat /\ Len(logged) \in Nat /\ MaxLen \in Nat /\ n \in Nat
        /\ Len(slow) = IF Len(logged) <= MaxLen THEN Len(logged) ELSE MaxLen
    BY LenProperties, RecorderAssumption DEF LogInv
  <2>2. expected = count
    <3>1. CASE n = 0
      <4>1. {Len(logged), MaxLen} \cup ({n} \ {0}) = {Len(logged), MaxLen}
        BY <3>1
      <4> QED
        BY <2>1, <3>1, <4>1, MinOfTwo
    <3>2. CASE n # 0
      <4>1. {Len(logged), MaxLen} \cup ({n} \ {0}) = {Len(logged), MaxLen, n}
        BY <3>2
      <4>2. Min({Len(logged), MaxLen, n}) = count
        BY <2>1, <3>2 DEF Min
      <4> QED
        BY <4>1, <4>2
    <3> QED
      BY <3>1, <3>2
  <2>3. count \in Nat /\ count <= Len(slow)
    BY <2>1
  <2>4. got = [i \in 1 .. count |-> Back(i)]
    BY DEF SlowlogGet, Back
  <2> HIDE DEF expected, count, got
  <2>5. Len(got) = count
    BY <2>3, <2>4
  <2>6. ASSUME NEW i \in 1 .. count  PROVE got[i] = Expected(i)
    BY <2>1, <2>3, <2>4 DEF LogInv
  <2> QED
    BY <2>2, <2>5, <2>6 DEF expected, got
<1> QED
  BY <1>1, <1>2, <1>3, RingInvariant, PTL DEF Spec

-----------------------------------------------------------------------------
(***************************************************************************)
(* Types.                                                                  *)
(***************************************************************************)

Histograms == [calls : Nat, totalUs : Nat, buckets : [Buckets -> Nat]]

\* What RingInv and LogInv leave out: the histograms, the readers, and the slots
\* when an access was late.
RestTypes ==
  /\ pc \in [Procs -> {"idle", "clock", "access", "slow"}]
  /\ hist \in [Commands -> Histograms]
  /\ \A s \in Slots :
       \/ slotTime[s] = 0 /\ slots[s] = NoHits
       \/ slotTime[s] \in Windows /\ SlotOf(slotTime[s]) = s
  /\ asked \in Windows \cup {Never}

\* A histogram stays one.
LEMMA RecordedType ==
  ASSUME NEW h \in Histograms, NEW us \in Nat
  PROVE  Recorded(h, us) \in Histograms
<1>1. h.calls + 1 \in Nat /\ h.totalUs + us \in Nat
  BY DEF Histograms
<1>2. ASSUME NEW f \in [Buckets -> Nat], NEW b
      PROVE  [f EXCEPT ![b] = @ + 1] \in [Buckets -> Nat]
  <2>1. CASE b \in Buckets
    BY <2>1
  <2>2. CASE b \notin Buckets
    BY <2>2
  <2> QED
    BY <2>1, <2>2
<1>3. [h.buckets EXCEPT ![BucketOf(us)] = @ + 1] \in [Buckets -> Nat]
  <2>1. h.buckets \in [Buckets -> Nat]
    BY DEF Histograms
  <2> QED
    BY <1>2, <2>1
<1> QED
  BY <1>1, <1>3 DEF Recorded, Histograms

\* The entries of the log, whatever is dropped, have ids that were given out.
LEMMA LoggedIds ==
  ASSUME LogInv
  PROVE  \A i \in 1 .. Len(slow) : slow[i].id \in 1 .. nextID
<1> TAKE i \in 1 .. Len(slow)
<1> DEFINE j == Len(slow) - i + 1
<1>1. /\ Len(slow) \in Nat /\ Len(logged) \in Nat /\ nextID \in Nat
      /\ Len(slow) <= Len(logged) /\ Len(logged) <= nextID
  BY LenProperties, RecorderAssumption DEF LogInv
<1>2. j \in 1 .. Len(slow) /\ Len(slow) - j + 1 = i
  BY <1>1
<1> HIDE DEF j
<1>3. slow[i] = Expected(j)
  BY <1>2 DEF LogInv, Back
<1>4. slow[i].id = nextID - j + 1
  BY <1>3 DEF Expected
<1> QED
  BY <1>1, <1>2, <1>4

\* Every step keeps the types.
LEMMA RestNext ==
  ASSUME RingInv, RestTypes, [Next]_vars
  PROVE  RestTypes'
<1>1. now \in Windows
  BY DEF RingInv, RingTypes
<1>2. CASE UNCHANGED <<pc, hist, slots, slotTime, asked>>
  BY <1>2 DEF RestTypes
<1>3. ASSUME NEW p \in Procs, RecordLatency(p)  PROVE RestTypes'
  <2>1. PICK call \in Calls :
          /\ hist' = [hist EXCEPT ![call.cmd] = Recorded(@, call.us)]
          /\ pc' = [pc EXCEPT ![p] = IF call.key = NoKey THEN "slow" ELSE "clock"]
    BY <1>3 DEF RecordLatency
  <2>2. UNCHANGED <<slots, slotTime, asked>>
    BY <1>3 DEF RecordLatency, ring
  <2>3. call.cmd \in Commands /\ call.us \in Nat
    BY RecorderAssumption DEF Commands
  <2>4. Recorded(hist[call.cmd], call.us) \in Histograms
    BY <2>3, RecordedType DEF RestTypes
  <2>5. hist' \in [Commands -> Histograms]
    BY <2>1, <2>4 DEF RestTypes
  <2>6. pc' \in [Procs -> {"idle", "clock", "access", "slow"}]
    BY <2>1 DEF RestTypes
  <2> QED
    BY <2>2, <2>5, <2>6 DEF RestTypes
<1>4. ASSUME NEW p \in Procs, ReadClock(p) \/ LogIfSlow(p)  PROVE RestTypes'
  <2>1. UNCHANGED <<hist, slots, slotTime, asked>>
    BY <1>4 DEF ReadClock, LogIfSlow, ring
  <2>2. pc' \in [Procs -> {"idle", "clock", "access", "slow"}]
    BY <1>4 DEF ReadClock, LogIfSlow, RestTypes
  <2> QED
    BY <2>1, <2>2 DEF RestTypes
<1>5. ASSUME NEW p \in Procs, Access(p)  PROVE RestTypes'
  <2> DEFINE w == job[p].window
  <2>1. w \in Windows /\ w \in Nat
    BY RecorderAssumption DEF RingInv, RingTypes, Windows
  <2>2. SlotOf(w) \in Slots
    BY <2>1, SlotOfWindow
  <2>3. UNCHANGED <<hist, asked>>
    BY <1>5 DEF Access
  <2>4. pc' \in [Procs -> {"idle", "clock", "access", "slow"}]
    BY <1>5 DEF Access, RestTypes
  <2>5. /\ slotTime'[SlotOf(w)] = w
        /\ \A s \in Slots \ {SlotOf(w)} : slotTime'[s] = slotTime[s] /\ slots'[s] = slots[s]
    BY <1>5, <2>2 DEF Access, RingInv, RingTypes
  <2> HIDE DEF w
  <2>6. \A s \in Slots :
          \/ slotTime'[s] = 0 /\ slots'[s] = NoHits
          \/ slotTime'[s] \in Windows /\ SlotOf(slotTime'[s]) = s
    BY <2>1, <2>5 DEF RestTypes
  <2> QED
    BY <2>3, <2>4, <2>6 DEF RestTypes
<1>6. CASE TopReadsClock \/ TopReturns
  BY <1>1, <1>6 DEF TopReadsClock, TopReturns, RestTypes, ring
<1>7. SlowlogReset \/ Tick \/ UNCHANGED vars => UNCHANGED <<pc, hist, slots, slotTime, asked>>
  BY DEF SlowlogReset, Tick, vars, ring
<1> QED
  BY <1>2, <1>3, <1>4, <1>5, <1>6, <1>7 DEF Next

\* Nothing has been recorded.
LEMMA RestInit == Init => RestTypes
<1> SUFFICES ASSUME Init PROVE RestTypes
  OBVIOUS
<1>1. hist \in [Commands -> Histograms]
  <2>1. [i \in Buckets |-> 0] \in [Buckets -> Nat]
    OBVIOUS
  <2> QED
    BY <2>1 DEF Init, Histograms
<1> QED
  BY <1>1 DEF Init, RestTypes

\* The types of the variables: among them, that every slot of the ring stands for a
\* window that belongs there and every id in the slow log has been given out.
THEOREM RecorderTypeCorrect == Spec => []TypeOK
<1>1. Init => LogInv
  BY RecorderAssumption DEF Init, LogInv
<1>2. RingInv /\ LogInv /\ [Next]_vars => LogInv'
  BY LogNext
<1>3. RingInv /\ RestTypes /\ [Next]_vars => RestTypes'
  BY RestNext
<1>4. RingInv /\ LogInv /\ RestTypes => TypeOK
  <2> SUFFICES ASSUME RingInv, LogInv, RestTypes PROVE TypeOK
    OBVIOUS
  <2>1. ASSUME NEW i \in 1 .. Len(slow)
        PROVE  slow[i] \in [id : 1 .. nextID, us : Latencies]
    <3>1. slow[i] \in Entries
      BY ElementOfSeq DEF LogInv
    <3>2. slow[i].id \in 1 .. nextID
      BY LoggedIds
    <3> QED
      BY <3>1, <3>2 DEF Entries
  <2> QED
    BY <2>1 DEF TypeOK, RingInv, RingTypes, RestTypes, Histograms, SlotOf
<1> QED
  BY <1>1, <1>2, <1>3, <1>4, RestInit, RingInvariant, PTL DEF Spec

-----------------------------------------------------------------------------
(***************************************************************************)
(* The leaderboard.  The slots a reader finds current stand for different  *)
(* windows, all younger than its view of the ring; as long as nobody was   *)
(* late, every window of the ring in which anything was counted is one of  *)
(* them.                                                                   *)
(***************************************************************************)

\* No slot counts more than was counted in its window, not even after a late access;
\* and a reader's clock is not ahead.
LeaderInv ==
  /\ \A s \in Slots : slotTime[s] # 0 =>
       \A k \in Keys : slots[s][k] <= accesses[slotTime[s]][k]
  /\ asked # Never => asked <= now

\* A function takes finitely many elements to finitely many.
LEMMA FiniteImage ==
  ASSUME NEW S, IsFiniteSet(S), NEW f, DOMAIN f = S, f = [x \in S |-> f[x]]
  PROVE  IsFiniteSet({f[x] : x \in S})
<1> DEFINE T == {f[x] : x \in S}
<1>1. f \in Surjection(S, T)
  BY DEF Surjection
<1> HIDE DEF T
<1>2. IsFiniteSet(T)
  BY <1>1, FS_Surjection
<1>3. QED
  BY <1>2 DEF T

\* The keys are finitely many, like the calls; so are the latencies.
LEMMA FiniteData == IsFiniteSet(Keys) /\ IsFiniteSet(Latencies)
<1> DEFINE keys == [c \in Calls |-> c.key]  us == [c \in Calls |-> c.us]
           all == {keys[c] : c \in Calls}
<1>1. Keys \in SUBSET all /\ Latencies = {us[c] : c \in Calls}
  BY DEF Keys, Latencies
<1>2. IsFiniteSet(Calls) /\ DOMAIN keys = Calls /\ DOMAIN us = Calls
  BY RecorderAssumption
<1>3. keys = [c \in Calls |-> keys[c]] /\ us = [c \in Calls |-> us[c]]
  OBVIOUS
<1> HIDE DEF keys, us
<1>4. IsFiniteSet(all) /\ IsFiniteSet({us[c] : c \in Calls})
  BY <1>2, <1>3, FiniteImage
<1> HIDE DEF all
<1>5. QED
  BY <1>1, <1>4, FS_Subset

\* A counted access is one more in the slot and in the window.
LEMMA LeaderAccess ==
  ASSUME RingInv, RestTypes, LeaderInv, NEW p \in Procs, Access(p)
  PROVE  LeaderInv'
<1> DEFINE w == job[p].window  slot == SlotOf(w)  key == job[p].call.key
<1>1. /\ w \in Windows /\ w \in Nat /\ w # 0 /\ now' = now /\ asked' = asked
      /\ slot \in Slots
  <2>1. w \in Windows /\ w \in Nat /\ w # 0
    BY RecorderAssumption DEF RingInv, RingTypes, Windows
  <2>2. slot \in Slots
    BY <2>1, SlotOfWindow
  <2>3. now' = now /\ asked' = asked
    BY DEF Access
  <2>4. QED
    BY <2>1, <2>2, <2>3
<1>2. /\ slots' = [slots EXCEPT ![slot] = [Kept(slot, w) EXCEPT ![key] = @ + 1]]
      /\ slotTime' = [slotTime EXCEPT ![slot] = w]
      /\ accesses' = [accesses EXCEPT ![w] = [accesses[w] EXCEPT ![key] = @ + 1]]
  BY DEF Access
<1>3. /\ Kept(slot, w) \in [Keys -> Nat] /\ accesses[w] \in [Keys -> Nat]
      /\ \A k \in Keys : Kept(slot, w)[k] <= accesses[w][k]
  BY <1>1 DEF Kept, NoHits, RingInv, RingTypes, LeaderInv
<1> DEFINE kept == Kept(slot, w)
<1>4. slots \in [Slots -> [Keys -> Nat]] /\ accesses \in [Windows -> [Keys -> Nat]]
      /\ slotTime \in [Slots -> Nat]
  BY DEF RingInv, RingTypes
<1>5. \A s \in Slots : slotTime[s] # 0 => slotTime[s] \in Windows
  BY DEF RestTypes
<1> HIDE DEF w, slot, key, kept
<1>6. ASSUME NEW k \in Keys
      PROVE  /\ slots'[slot][k] <= accesses'[w][k]
             /\ accesses[w][k] <= accesses'[w][k]
  <2>1. /\ slots'[slot] = [kept EXCEPT ![key] = @ + 1]
        /\ accesses'[w] = [accesses[w] EXCEPT ![key] = @ + 1]
    BY <1>1, <1>2, <1>4 DEF kept
  <2>2. /\ slots'[slot][k] = IF k = key THEN kept[k] + 1 ELSE kept[k]
        /\ accesses'[w][k] = IF k = key THEN accesses[w][k] + 1 ELSE accesses[w][k]
    BY <1>3, <2>1 DEF kept
  <2>3. kept[k] \in Nat /\ accesses[w][k] \in Nat /\ kept[k] <= accesses[w][k]
    BY <1>3 DEF kept
  <2>4. QED
    BY <2>2, <2>3
<1>7. ASSUME NEW s \in Slots, slotTime'[s] # 0, NEW k \in Keys
      PROVE  slots'[s][k] <= accesses'[slotTime'[s]][k]
  <2>1. CASE s = slot
    BY <1>1, <1>2, <1>4, <1>6, <2>1
  <2>2. CASE s # slot
    <3> DEFINE v == slotTime[s]
    <3>1. /\ slots'[s] = slots[s] /\ slotTime'[s] = v
          /\ v \in Windows /\ slots[s][k] <= accesses[v][k]
      BY <1>1, <1>2, <1>4, <1>5, <1>7, <2>2 DEF LeaderInv
    <3> HIDE DEF v
    <3>2. accesses[v][k] <= accesses'[v][k]
      <4>1. accesses[v][k] \in Nat
        BY <1>4, <3>1
      <4>2. CASE v = w
        BY <1>6, <4>2
      <4>3. CASE v # w
        BY <1>2, <1>4, <3>1, <4>1, <4>3
      <4>4. QED
        BY <4>2, <4>3
    <3>3. slots[s][k] \in Nat /\ accesses[v][k] \in Nat /\ accesses'[v][k] \in Nat
      <4>1. accesses'[v] \in [Keys -> Nat]
        <5>1. [accesses[w] EXCEPT ![key] = @ + 1] \in [Keys -> Nat]
          <6>1. CASE key \in Keys
            BY <1>3, <6>1
          <6>2. CASE key \notin Keys
            BY <1>3, <6>2
          <6>3. QED
            BY <6>1, <6>2
        <5>2. QED
          BY <1>2, <1>4, <3>1, <5>1
      <4>2. QED
        BY <1>4, <3>1, <4>1
    <3>4. QED
      BY <3>1, <3>2, <3>3
  <2>3. QED
    BY <2>1, <2>2
<1>8. asked' # Never => asked' <= now'
  BY <1>1 DEF LeaderInv
<1>9. QED
  BY <1>7, <1>8 DEF LeaderInv

\* So does everything else.
LEMMA LeaderNext ==
  ASSUME RingInv, RestTypes, LeaderInv, [Next]_vars
  PROVE  LeaderInv'
<1>1. now \in Nat /\ (asked # Never => asked \in Nat)
  BY RecorderAssumption DEF RingInv, RingTypes, RestTypes, Windows
<1>2. ASSUME UNCHANGED <<slots, slotTime, accesses>>, asked' # Never => asked' <= now'
      PROVE  LeaderInv'
  BY <1>2 DEF LeaderInv
<1>3. CASE UNCHANGED <<now, asked, ring>>
  BY <1>2, <1>3 DEF LeaderInv, ring
<1>4. CASE Tick
  BY <1>1, <1>2, <1>4 DEF Tick, LeaderInv, ring
<1>5. CASE TopReadsClock \/ TopReturns
  BY <1>1, <1>2, <1>5 DEF TopReadsClock, TopReturns, ring
<1>6. ASSUME NEW p \in Procs, RecordLatency(p) \/ ReadClock(p) \/ LogIfSlow(p)
      PROVE  LeaderInv'
  BY <1>3, <1>6 DEF RecordLatency, ReadClock, LogIfSlow
<1>7. SlowlogReset \/ UNCHANGED vars => UNCHANGED <<now, asked, ring>>
  BY DEF SlowlogReset, vars, ring
<1>8. QED
  BY <1>3, <1>4, <1>5, <1>6, <1>7, LeaderAccess DEF Next

\* What a reader sees in the ring: each current slot stands for a window of its own,
\* which is less than a ring older than the reader's clock.
LEMMA CurrentWindows ==
  ASSUME RingInv, RestTypes, asked # Never
  PROVE  /\ \A s \in CurrentSlots :
              /\ s \in Slots /\ slotTime[s] # 0 /\ slotTime[s] \in Windows
              /\ SlotOf(slotTime[s]) = s /\ slotTime[s] > asked - SlotCount
         /\ IsFiniteSet(CurrentSlots) /\ IsFiniteSet(Windows)
<1>1. /\ asked \in Windows /\ asked \in Nat /\ asked >= Start
      /\ Start \in Nat /\ SlotCount \in Nat /\ Start >= SlotCount /\ MaxTime \in Nat
  BY RecorderAssumption DEF RestTypes, Windows
<1>2. ASSUME NEW s \in CurrentSlots
      PROVE  /\ s \in Slots /\ slotTime[s] # 0 /\ slotTime[s] \in Windows
             /\ SlotOf(slotTime[s]) = s /\ slotTime[s] > asked - SlotCount
  <2>1. s \in Slots /\ asked - slotTime[s] < SlotCount
    BY DEF CurrentSlots
  <2>2. slotTime[s] \in Nat
    BY <2>1 DEF RingInv, RingTypes
  <2>3. slotTime[s] # 0
    BY <1>1, <2>1
  <2>4. QED
    BY <1>1, <2>1, <2>2, <2>3 DEF RestTypes
<1>3. IsFiniteSet(CurrentSlots)
  <2>1. IsFiniteSet(0 .. SlotCount - 1)
    BY <1>1, FS_Interval
  <2>2. CurrentSlots \in SUBSET (0 .. SlotCount - 1)
    BY DEF CurrentSlots, Slots
  <2>3. QED
    BY <2>1, <2>2, FS_Subset
<1>4. IsFiniteSet(Windows)
  BY <1>1, FS_Interval DEF Windows
<1>5. QED
  BY <1>2, <1>3, <1>4

\* So the total of a key is a sum over these windows.
CurrentTimes == {slotTime[s] : s \in CurrentSlots}
Counted(k) == [w \in CurrentTimes |-> slots[SlotOf(w)][k]]

LEMMA TotalIsSum ==
  ASSUME RingInv, RestTypes, asked # Never, NEW k \in Keys
  PROVE  /\ Total(k) = SumFunctionOnSet(Counted(k), CurrentTimes)
         /\ Total(k) \in Nat
         /\ CurrentTimes \in SUBSET {w \in Windows : w > asked - SlotCount}
         /\ \A w \in CurrentTimes :
              /\ Counted(k)[w] \in Nat /\ SlotOf(w) \in Slots
              /\ slotTime[SlotOf(w)] = w /\ w # 0
              /\ Counted(k)[w] = slots[SlotOf(w)][k]
<1> DEFINE b == [s \in CurrentSlots |-> slotTime[s]]
           f == [s \in CurrentSlots |-> slots[s][k]]
           g == Counted(k)
<1>1. /\ \A s \in CurrentSlots :
           /\ s \in Slots /\ slotTime[s] # 0 /\ slotTime[s] \in Windows
           /\ SlotOf(slotTime[s]) = s /\ slotTime[s] > asked - SlotCount
      /\ IsFiniteSet(CurrentSlots) /\ IsFiniteSet(Windows)
  BY CurrentWindows
<1>2. slots \in [Slots -> [Keys -> Nat]]
  BY DEF RingInv, RingTypes
<1>3. ASSUME NEW w \in CurrentTimes
      PROVE  /\ g[w] \in Nat /\ SlotOf(w) \in Slots
             /\ slotTime[SlotOf(w)] = w /\ w # 0 /\ g[w] = slots[SlotOf(w)][k]
  BY <1>1, <1>2 DEF CurrentTimes, Counted
<1>4. CurrentTimes \in SUBSET {w \in Windows : w > asked - SlotCount}
  BY <1>1 DEF CurrentTimes
<1>5. IsFiniteSet(CurrentTimes)
  <2>1. CurrentTimes \in SUBSET Windows
    BY <1>4
  <2>2. QED
    BY <1>1, <2>1, FS_Subset
<1>6. Total(k) = SumFunctionOnSet(f, CurrentSlots)
  BY DEF Total, SumFunction
<1>7. /\ b \in [CurrentSlots -> CurrentTimes]
      /\ \A x, y \in CurrentSlots : b[x] = b[y] => x = y
      /\ \A z \in CurrentTimes : \E x \in CurrentSlots : b[x] = z
      /\ \A z \in CurrentTimes : g[z] \in Nat
      /\ \A x \in CurrentSlots : f[x] = g[b[x]]
  <2>1. \A x \in CurrentSlots : b[x] = slotTime[x] /\ b[x] \in CurrentTimes
    BY DEF CurrentTimes
  <2>2. \A x, y \in CurrentSlots : b[x] = b[y] => x = y
    BY <1>1, <2>1
  <2>3. \A z \in CurrentTimes : \E x \in CurrentSlots : b[x] = z
    BY DEF CurrentTimes
  <2>4. \A x \in CurrentSlots : f[x] = g[b[x]]
    <3> TAKE x \in CurrentSlots
    <3>1. g[b[x]] = slots[SlotOf(b[x])][k] /\ SlotOf(b[x]) = x
      BY <1>1, <1>3, <2>1
    <3>2. QED
      BY <3>1
  <2>5. b \in [CurrentSlots -> CurrentTimes]
    BY <2>1
  <2>6. QED
    BY <1>3, <2>2, <2>3, <2>4, <2>5
<1> HIDE DEF b, f, g
<1>8. SumFunctionOnSet(f, CurrentSlots) = SumFunctionOnSet(g, CurrentTimes)
  BY <1>1, <1>5, <1>7, SumRenamed
<1>9. SumFunctionOnSet(g, CurrentTimes) \in Nat
  BY <1>5, <1>7, SumFacts
<1>10. QED
  BY <1>3, <1>4, <1>6, <1>8, <1>9 DEF g

\* Since is a sum over windows.
Hits(k) == [w \in Windows |-> accesses[w][k]]
After(window) == {w \in Windows : w > window}

LEMMA SinceFacts ==
  ASSUME RingInv, RestTypes, asked # Never, NEW k \in Keys, NEW window
  PROVE  /\ Since(window, k) = SumFunctionOnSet(Hits(k), After(window))
         /\ Since(window, k) \in Nat
         /\ IsFiniteSet(After(window)) /\ After(window) \in SUBSET Windows
         /\ \A w \in Windows : Hits(k)[w] = accesses[w][k] /\ Hits(k)[w] \in Nat
<1>1. Since(window, k) = SumFunctionOnSet(Hits(k), After(window))
  BY DEF Since, Hits, After
<1>2. \A w \in Windows : Hits(k)[w] = accesses[w][k] /\ Hits(k)[w] \in Nat
  BY DEF Hits, RingInv, RingTypes
<1>3. IsFiniteSet(Windows) /\ After(window) \in SUBSET Windows
  BY CurrentWindows DEF After
<1>4. IsFiniteSet(After(window))
  BY <1>3, FS_Subset
<1>5. \A w \in After(window) : Hits(k)[w] \in Nat
  BY <1>2, <1>3
<1>6. SumFunctionOnSet(Hits(k), After(window)) \in Nat
  BY <1>4, <1>5, SumFacts
<1>7. QED
  BY <1>1, <1>2, <1>3, <1>4, <1>6

\* The leaderboard counts nothing that is older than the reader's view of the ring.
LEMMA TotalAtMost ==
  ASSUME RingInv, RestTypes, LeaderInv, asked # Never, NEW k \in Keys
  PROVE  Total(k) <= Since(asked - SlotCount, k)
<1> DEFINE window == asked - SlotCount
           A == After(window)
           g == Counted(k)
           hits == Hits(k)
<1>1. /\ Total(k) = SumFunctionOnSet(g, CurrentTimes) /\ Total(k) \in Nat
      /\ CurrentTimes \in SUBSET A
      /\ \A w \in CurrentTimes :
           /\ g[w] \in Nat /\ SlotOf(w) \in Slots
           /\ slotTime[SlotOf(w)] = w /\ w # 0 /\ g[w] = slots[SlotOf(w)][k]
  BY TotalIsSum DEF After
<1>2. /\ Since(window, k) = SumFunctionOnSet(hits, A) /\ Since(window, k) \in Nat
      /\ IsFiniteSet(A) /\ A \in SUBSET Windows
      /\ \A w \in Windows : hits[w] = accesses[w][k] /\ hits[w] \in Nat
  BY SinceFacts
<1> HIDE DEF window, A, g, hits
<1>3. IsFiniteSet(CurrentTimes) /\ \A w \in A : hits[w] \in Nat
  BY <1>1, <1>2, FS_Subset
<1>4. \A w \in CurrentTimes : g[w] \in Nat /\ hits[w] \in Nat /\ g[w] <= hits[w]
  <2> TAKE w \in CurrentTimes
  <2> DEFINE s == SlotOf(w)
  <2>1. s \in Slots /\ slotTime[s] = w /\ w # 0 /\ g[w] = slots[s][k] /\ g[w] \in Nat
    BY <1>1
  <2> HIDE DEF s
  <2>2. slots[s][k] <= accesses[w][k]
    BY <2>1 DEF LeaderInv
  <2>3. w \in Windows
    BY <1>1, <1>2
  <2>4. QED
    BY <1>2, <2>1, <2>2, <2>3
<1>5. SumFunctionOnSet(g, CurrentTimes) <= SumFunctionOnSet(hits, CurrentTimes)
  BY <1>3, <1>4, SumLess
<1>6. SumFunctionOnSet(hits, CurrentTimes) <= SumFunctionOnSet(hits, A)
  BY <1>1, <1>2, <1>3, SumPart
<1>7. SumFunctionOnSet(hits, CurrentTimes) \in Nat
  BY <1>3, <1>4, SumFacts
<1>8. Total(k) <= Since(window, k)
  BY <1>1, <1>2, <1>5, <1>6, <1>7
<1>9. QED
  BY <1>8 DEF window

\* It counts everything that is younger than a ring when it looks, unless an access
\* was late.
LEMMA TotalAtLeast ==
  ASSUME RingInv, RestTypes, LeaderInv, asked # Never, ~late, NEW k \in Keys
  PROVE  Since(now - SlotCount, k) <= Total(k)
<1> DEFINE window == now - SlotCount
           B == After(window)
           P == B \cap CurrentTimes
           g == Counted(k)
           hits == Hits(k)
<1>1. /\ Total(k) = SumFunctionOnSet(g, CurrentTimes) /\ Total(k) \in Nat
      /\ CurrentTimes \in SUBSET Windows
      /\ \A w \in CurrentTimes :
           /\ g[w] \in Nat /\ SlotOf(w) \in Slots
           /\ slotTime[SlotOf(w)] = w /\ w # 0 /\ g[w] = slots[SlotOf(w)][k]
  BY TotalIsSum
<1>2. /\ Since(window, k) = SumFunctionOnSet(hits, B)
      /\ IsFiniteSet(B) /\ B \in SUBSET Windows
      /\ \A w \in Windows : hits[w] = accesses[w][k] /\ hits[w] \in Nat
  BY SinceFacts
<1>3. IsFiniteSet(CurrentTimes)
  BY <1>1, CurrentWindows, FS_Subset
<1>4. ASSUME NEW w \in B \ CurrentTimes
      PROVE  hits[w] = 0
  <2> DEFINE s == SlotOf(w)  v == slotTime[s]
  <2>1. /\ w \in Windows /\ w \in Nat /\ w > now - SlotCount /\ now \in Nat
        /\ asked \in Nat /\ asked <= now /\ SlotCount \in Nat
    BY RecorderAssumption DEF After, Windows, RingInv, RingTypes, RestTypes, LeaderInv
  <2>2. s \in Slots
    BY <2>1, SlotOfWindow
  <2>3. v \in Nat /\ v <= now /\ SlotHolds(s)
    BY <2>2 DEF RingInv, RingTypes, NotAhead
  <2>4. SUFFICES ASSUME hits[w] # 0 PROVE FALSE
    OBVIOUS
  <2>5. accesses[w] # NoHits
    BY <1>2, <2>1, <2>4 DEF NoHits
  <2>6. v >= w /\ w # 0
    BY <2>1, <2>5, RecorderAssumption DEF RingInv, MovesOn, Windows
  <2> HIDE DEF s, v
  <2>7. v = w
    <3>1. SUFFICES ASSUME v > w PROVE FALSE
      BY <2>1, <2>3, <2>6
    <3>2. SlotOf(v) = SlotOf(w)
      BY <2>1, <2>3, <2>6, <3>1 DEF SlotHolds, s, v
    <3>3. v - w >= SlotCount
      BY <2>1, <2>3, <3>1, <3>2, RingApart
    <3>4. QED
      BY <2>1, <2>3, <3>3
  <2>8. s \in CurrentSlots
    <3>1. asked - v < SlotCount
      BY <2>1, <2>7
    <3>2. QED
      BY <2>2, <3>1 DEF CurrentSlots, v
  <2>9. w \in CurrentTimes
    BY <2>7, <2>8 DEF CurrentTimes, v
  <2>10. QED
    BY <2>9
<1> HIDE DEF window, B, g, hits
<1>5. /\ P \in SUBSET B /\ \A w \in B \ P : hits[w] = 0
      /\ \A w \in P : hits[w] \in Nat
  BY <1>2, <1>4
<1>6. P \in SUBSET CurrentTimes
  OBVIOUS
<1>7. \A w \in CurrentTimes : hits[w] \in Nat /\ hits[w] = g[w]
  <2> TAKE w \in CurrentTimes
  <2> DEFINE s == SlotOf(w)
  <2>1. s \in Slots /\ slotTime[s] = w /\ w # 0 /\ g[w] = slots[s][k] /\ w \in Windows
    BY <1>1
  <2> HIDE DEF s
  <2>2. slots[s] = accesses[w]
    BY <2>1 DEF RingInv, SlotHolds
  <2>3. QED
    BY <1>2, <2>1, <2>2
<1> HIDE DEF P
<1>8. SumFunctionOnSet(hits, B) = SumFunctionOnSet(hits, P)
  BY <1>2, <1>5, SumWithin
<1>9. SumFunctionOnSet(hits, P) <= SumFunctionOnSet(hits, CurrentTimes)
  BY <1>3, <1>6, <1>7, SumPart
<1>10. SumFunctionOnSet(hits, CurrentTimes) = SumFunctionOnSet(g, CurrentTimes)
  BY <1>3, <1>7, SumSame
<1>11. Since(window, k) <= Total(k)
  BY <1>1, <1>2, <1>8, <1>9, <1>10
<1>12. QED
  BY <1>11 DEF window

\* Who is on a leaderboard: as many as asked for, or everybody who was counted; and
\* nobody who is left out has more.
LEMMA LeadersAre ==
  ASSUME RingInv, RestTypes, asked # Never, NEW top \in Leaders
  PROVE  /\ top \in SUBSET Keys
         /\ \A other \in Keys \ top :
              /\ Cardinality(top) < TopN => Total(other) = 0
              /\ \A k \in top : Total(other) <= Total(k)
<1> DEFINE hit == {k \in Keys : Total(k) > 0}
           n == Cardinality(hit)
<1>1. /\ top \in kSubset(Min({TopN, n}), hit)
      /\ \A k \in top, other \in hit \ top : Total(k) >= Total(other)
  BY DEF Leaders
<1>2. top \in SUBSET hit /\ Cardinality(top) = Min({TopN, n})
  BY <1>1 DEF kSubset
<1>3. IsFiniteSet(hit) /\ n \in Nat
  <2>1. hit \in SUBSET Keys
    OBVIOUS
  <2> HIDE DEF hit
  <2>2. QED
    BY <2>1, FiniteData, FS_Subset, FS_CardinalityType
<1>4. \A k \in Keys : Total(k) \in Nat /\ (k \notin hit => Total(k) = 0)
  BY TotalIsSum
<1>5. top \in SUBSET Keys /\ hit \in SUBSET Keys
  BY <1>2
<1> HIDE DEF hit
<1>6. ASSUME Cardinality(top) < TopN  PROVE top = hit
  <2>1. TopN \in Int /\ n \in Int
    BY <1>3, RecorderAssumption
  <2>2. Cardinality(top) = IF TopN <= n THEN TopN ELSE n
    BY <1>2, <2>1, MinOfTwo
  <2>3. Cardinality(hit) = Cardinality(top)
    BY <1>6, <2>1, <2>2
  <2>4. QED
    BY <1>2, <1>3, <2>3, FS_Subset
<1>7. ASSUME NEW other \in Keys \ top
      PROVE  /\ Cardinality(top) < TopN => Total(other) = 0
             /\ \A k \in top : Total(other) <= Total(k)
  <2>1. CASE other \in hit
    <3>1. \A k \in top : Total(k) >= Total(other) /\ Total(k) \in Nat /\ Total(other) \in Nat
      BY <1>1, <1>4, <1>5, <1>7, <2>1
    <3>2. QED
      BY <1>6, <1>7, <2>1, <3>1
  <2>2. CASE other \notin hit
    <3>1. Total(other) = 0 /\ \A k \in top : Total(k) \in Nat
      BY <1>4, <1>5, <1>7, <2>2
    <3>2. QED
      BY <3>1
  <2>3. QED
    BY <2>1, <2>2
<1>8. QED
  BY <1>5, <1>7

\* A dashboard's hottest keys are those of the last SlotCount windows: nothing counted
\* since is missing, nothing older is in, and no key left out is hotter than one shown,
\* although the clock is read before the lock is taken (hotkeyTracker.top).
THEOREM LeaderboardStaysRight == Spec => []LeaderboardRight
<1>1. Init => LeaderInv
  BY DEF Init, LeaderInv
<1>2. RingInv /\ RestTypes /\ [Next]_vars => RestTypes'
  BY RestNext
<1>3. RingInv /\ RestTypes /\ LeaderInv /\ [Next]_vars => LeaderInv'
  BY LeaderNext
<1>4. RingInv /\ RestTypes /\ LeaderInv => LeaderboardRight
  <2> DEFINE AtLeast(k) == IF late THEN 0 ELSE Since(now - SlotCount, k)
             AtMost(k) == Since(asked - SlotCount, k)
  <2> SUFFICES ASSUME RingInv, RestTypes, LeaderInv, asked # Never, NEW top \in Leaders
               PROVE  /\ \A k \in top : Total(k) \in AtLeast(k) .. AtMost(k)
                      /\ \A other \in Keys \ top :
                           /\ Cardinality(top) < TopN => AtLeast(other) = 0
                           /\ \A k \in top : AtLeast(other) <= AtMost(k)
    BY DEF LeaderboardRight
  <2>1. ASSUME NEW k \in Keys
        PROVE  /\ Total(k) \in Nat /\ AtLeast(k) \in Nat /\ AtMost(k) \in Nat
               /\ AtLeast(k) <= Total(k) /\ Total(k) <= AtMost(k)
    <3>1. Total(k) \in Nat /\ AtMost(k) \in Nat /\ Total(k) <= AtMost(k)
      BY TotalIsSum, SinceFacts, TotalAtMost
    <3>2. CASE late
      BY <3>1, <3>2
    <3>3. CASE ~late
      <4>1. Since(now - SlotCount, k) \in Nat /\ Since(now - SlotCount, k) <= Total(k)
        BY <3>3, SinceFacts, TotalAtLeast
      <4>2. QED
        BY <3>1, <3>3, <4>1
    <3>4. QED
      BY <3>2, <3>3
  <2> HIDE DEF AtLeast, AtMost
  <2>2. /\ top \in SUBSET Keys
        /\ \A other \in Keys \ top :
             /\ Cardinality(top) < TopN => Total(other) = 0
             /\ \A k \in top : Total(other) <= Total(k)
    BY LeadersAre
  <2>3. \A k \in top : Total(k) \in AtLeast(k) .. AtMost(k)
    BY <2>1, <2>2
  <2>4. ASSUME NEW other \in Keys \ top
        PROVE  /\ Cardinality(top) < TopN => AtLeast(other) = 0
               /\ \A k \in top : AtLeast(other) <= AtMost(k)
    <3>1. /\ Cardinality(top) < TopN => Total(other) = 0
          /\ \A k \in top : Total(other) <= Total(k)
      BY <2>2
    <3>2. \A k \in top : k \in Keys
      BY <2>2
    <3>3. QED
      BY <2>1, <3>1, <3>2
  <2>5. QED
    BY <2>3, <2>4
<1>5. QED
  BY <1>1, <1>2, <1>3, <1>4, RestInit, RingInvariant, PTL DEF Spec

-----------------------------------------------------------------------------
(***************************************************************************)
(* Percentiles.  A histogram is its samples, counted by bucket; buckets    *)
(* are ascending ranges of latencies.  So the bucket in which the count    *)
(* first covers a percentage is that of the latency that first covers it.  *)
(***************************************************************************)

InBucket(b) == {us \in Latencies : BucketOf(us) = b}
UpTo(b) == {us \in Latencies : BucketOf(us) <= b}

\* A histogram has counted every sample, in its bucket.
Counts(h, f) ==
  /\ h.calls = SumFunctionOnSet(f, Latencies)
  /\ \A b \in Buckets : h.buckets[b] = SumFunctionOnSet(f, InBucket(b))

HistInv ==
  /\ samples \in [Commands -> [Latencies -> Nat]]
  /\ \A cmd \in Commands : Counts(hist[cmd], samples[cmd])

\* The least of a set of numbers.
LEMMA LeastIs ==
  ASSUME NEW T, T \subseteq Nat, T # {}
  PROVE  Min(T) \in T /\ \A x \in T : Min(T) <= x
BY LeastNumber DEF Min

\* How many finite bounds there are.
LEMMA BoundFacts ==
  /\ Len(Bounds) \in Nat /\ Len(Bounds) # 0
  /\ \A i \in 1 .. Len(Bounds) : Bounds[i] \in Nat
  /\ \A i, j \in 1 .. Len(Bounds) : i < j => Bounds[i] < Bounds[j]
<1>1. Bounds \in Seq(Nat) /\ Bounds # <<>>
  BY RecorderAssumption
<1>2. Len(Bounds) \in Nat /\ Len(Bounds) # 0 /\ \A i \in 1 .. Len(Bounds) : Bounds[i] \in Nat
  BY <1>1, LenProperties, ElementOfSeq, EmptySeq
<1>3. QED
  BY <1>2, RecorderAssumption

\* A latency is below the bound of its bucket and of those above, and not below the
\* bounds of the others.
LEMMA BucketIs ==
  ASSUME NEW us \in Nat
  PROVE  /\ BucketOf(us) \in Buckets
         /\ \A i \in 1 .. Len(Bounds) : us < Bounds[i] <=> BucketOf(us) <= i
<1> DEFINE above == {i \in 1 .. Len(Bounds) : us < Bounds[i]}
<1>1. /\ Len(Bounds) \in Nat
      /\ \A i \in 1 .. Len(Bounds) : Bounds[i] \in Nat
      /\ \A i, j \in 1 .. Len(Bounds) : i < j => Bounds[i] < Bounds[j]
  BY BoundFacts
<1>2. CASE above = {}
  <2>1. BucketOf(us) = Len(Bounds) + 1
    BY <1>2 DEF BucketOf
  <2>2. QED
    BY <1>1, <1>2, <2>1 DEF Buckets
<1>3. CASE above # {}
  <2>1. BucketOf(us) = Min(above)
    BY <1>3 DEF BucketOf
  <2>2. Min(above) \in above /\ \A i \in above : Min(above) <= i
    <3>1. above \subseteq Nat
      OBVIOUS
    <3> HIDE DEF above
    <3>2. QED
      BY <1>3, <3>1, LeastIs
  <2> DEFINE m == Min(above)
  <2>3. m \in 1 .. Len(Bounds) /\ us < Bounds[m] /\ \A i \in above : m <= i
    BY <2>2
  <2> HIDE DEF m
  <2>4. ASSUME NEW i \in 1 .. Len(Bounds)
        PROVE  us < Bounds[i] <=> m <= i
    <3>1. ASSUME m <= i  PROVE us < Bounds[i]
      <4>1. CASE m = i
        BY <2>3, <4>1
      <4>2. CASE m # i
        <5>1. Bounds[m] < Bounds[i] /\ Bounds[m] \in Nat /\ Bounds[i] \in Nat
          BY <1>1, <2>3, <3>1, <4>2
        <5>2. QED
          BY <2>3, <5>1
      <4>3. QED
        BY <4>1, <4>2
    <3>2. us < Bounds[i] => m <= i
      BY <2>3
    <3>3. QED
      BY <3>1, <3>2
  <2>5. m \in Buckets
    BY <1>1, <2>3 DEF Buckets
  <2>6. QED
    BY <2>1, <2>4, <2>5 DEF m
<1>4. QED
  BY <1>2, <1>3

\* Greater latencies are in the same bucket or a higher one.
LEMMA BucketsAscend ==
  ASSUME NEW us \in Nat, NEW v \in Nat, us <= v
  PROVE  BucketOf(us) <= BucketOf(v)
<1>1. /\ Len(Bounds) \in Nat /\ \A i \in 1 .. Len(Bounds) : Bounds[i] \in Nat
  BY BoundFacts
<1> DEFINE a == BucketOf(us)  b == BucketOf(v)
<1>2. /\ a \in 1 .. Len(Bounds) + 1 /\ b \in 1 .. Len(Bounds) + 1
      /\ \A i \in 1 .. Len(Bounds) : us < Bounds[i] <=> a <= i
      /\ \A i \in 1 .. Len(Bounds) : v < Bounds[i] <=> b <= i
  BY BucketIs DEF Buckets
<1> HIDE DEF a, b
<1>3. SUFFICES ASSUME b < a PROVE FALSE
  BY <1>1, <1>2 DEF a, b
<1>4. b \in 1 .. Len(Bounds)
  BY <1>1, <1>2, <1>3
<1>5. v < Bounds[b] /\ ~ (us < Bounds[b]) /\ Bounds[b] \in Nat
  BY <1>1, <1>2, <1>3, <1>4
<1>6. QED
  BY <1>5

\* One more latency: its bucket counts one more, the others do not.
LEMMA RecordedCounts ==
  ASSUME NEW h \in Histograms, NEW f \in [Latencies -> Nat], Counts(h, f),
         NEW us \in Latencies, NEW g,
         g[us] = f[us] + 1, \A l \in Latencies \ {us} : g[l] = f[l]
  PROVE  Counts(Recorded(h, us), g)
<1>1. IsFiniteSet(Latencies) /\ us \in Nat /\ \A l \in Latencies : l \in Nat
  BY FiniteData, RecorderAssumption DEF Latencies
<1>6. /\ \A l \in Latencies : f[l] \in Nat
      /\ g[us] = f[us] + 1 /\ \A l \in Latencies \ {us} : g[l] = f[l]
  OBVIOUS
<1>2. SumFunctionOnSet(g, Latencies) = SumFunctionOnSet(f, Latencies) + 1
  <2> DEFINE T == Latencies
  <2>1. /\ IsFiniteSet(T) /\ us \in T /\ \A l \in T : f[l] \in Nat
        /\ g[us] = f[us] + 1 /\ \A l \in T \ {us} : g[l] = f[l]
    BY <1>1, <1>6
  <2> HIDE DEF T
  <2>2. SumFunctionOnSet(g, T) = SumFunctionOnSet(f, T) + 1
    BY <2>1, SumCounts
  <2>3. QED
    BY <2>2 DEF T
<1>3. ASSUME NEW b \in Buckets
      PROVE  Recorded(h, us).buckets[b] = SumFunctionOnSet(g, InBucket(b))
  <2> DEFINE T == InBucket(b)
  <2>1. T \in SUBSET Latencies /\ (us \in T <=> BucketOf(us) = b)
    BY DEF InBucket
  <2> HIDE DEF T
  <2>2. IsFiniteSet(T)
    BY <1>1, <2>1, FS_Subset
  <2>3. /\ us \in T => SumFunctionOnSet(g, T) = SumFunctionOnSet(f, T) + 1
        /\ us \notin T => SumFunctionOnSet(g, T) = SumFunctionOnSet(f, T)
    <3>1. CASE us \in T
      <4>1. /\ \A l \in T : f[l] \in Nat
            /\ g[us] = f[us] + 1 /\ \A l \in T \ {us} : g[l] = f[l]
        BY <1>6, <2>1
      <4>2. SumFunctionOnSet(g, T) = SumFunctionOnSet(f, T) + 1
        BY <2>2, <3>1, <4>1, SumCounts
      <4>3. QED
        BY <3>1, <4>2
    <3>2. CASE us \notin T
      <4>1. \A l \in T : f[l] \in Nat /\ f[l] = g[l]
        BY <1>6, <2>1, <3>2
      <4>2. SumFunctionOnSet(f, T) = SumFunctionOnSet(g, T)
        BY <2>2, <4>1, SumSame
      <4>3. QED
        BY <3>2, <4>2
    <3>3. QED
      BY <3>1, <3>2
  <2>4. h.buckets \in [Buckets -> Nat]
    BY DEF Histograms
  <2>5. Recorded(h, us).buckets = [h.buckets EXCEPT ![BucketOf(us)] = @ + 1]
    BY DEF Recorded
  <2>6. /\ us \in T => Recorded(h, us).buckets[b] = h.buckets[b] + 1
        /\ us \notin T => Recorded(h, us).buckets[b] = h.buckets[b]
    BY <2>1, <2>4, <2>5
  <2>7. h.buckets[b] = SumFunctionOnSet(f, T)
    BY DEF Counts, T
  <2>8. QED
    BY <2>3, <2>6, <2>7 DEF T
<1>4. Recorded(h, us).calls = h.calls + 1
  BY DEF Recorded
<1>5. QED
  BY <1>2, <1>3, <1>4 DEF Counts

\* Every step keeps the histograms in line with the samples.
LEMMA HistNext ==
  ASSUME RestTypes, HistInv, [Next]_vars
  PROVE  HistInv'
<1>1. CASE UNCHANGED <<hist, samples>>
  BY <1>1 DEF HistInv, Counts
<1>2. ASSUME NEW p \in Procs, RecordLatency(p)  PROVE HistInv'
  <2>1. PICK call \in Calls :
          /\ hist' = [hist EXCEPT ![call.cmd] = Recorded(@, call.us)]
          /\ samples' = [samples EXCEPT ![call.cmd] = [samples[call.cmd] EXCEPT ![call.us] = @ + 1]]
    BY <1>2 DEF RecordLatency
  <2> DEFINE cmd == call.cmd  us == call.us  g == [samples[cmd] EXCEPT ![us] = @ + 1]
  <2>2. cmd \in Commands /\ us \in Latencies
    BY DEF Commands, Latencies
  <2>3. /\ hist[cmd] \in Histograms /\ samples[cmd] \in [Latencies -> Nat]
        /\ Counts(hist[cmd], samples[cmd])
    BY <2>2 DEF RestTypes, HistInv
  <2>4. g \in [Latencies -> Nat]
    BY <2>2, <2>3
  <2>5. hist' = [hist EXCEPT ![cmd] = Recorded(@, us)] /\ samples' = [samples EXCEPT ![cmd] = g]
    BY <2>1
  <2>6. g[us] = samples[cmd][us] + 1 /\ \A l \in Latencies \ {us} : g[l] = samples[cmd][l]
    BY <2>2, <2>3
  <2> HIDE DEF cmd, us, g
  <2>7. Counts(Recorded(hist[cmd], us), g)
    BY <2>2, <2>3, <2>6, RecordedCounts
  <2>8. \A c \in Commands :
          /\ hist'[c] = IF c = cmd THEN Recorded(hist[cmd], us) ELSE hist[c]
          /\ samples'[c] = IF c = cmd THEN g ELSE samples[c]
    BY <2>2, <2>5 DEF RestTypes, HistInv
  <2>9. samples' \in [Commands -> [Latencies -> Nat]]
    BY <2>2, <2>4, <2>5 DEF HistInv
  <2>10. ASSUME NEW c \in Commands  PROVE Counts(hist[c], samples[c])'
    <3>1. CASE c = cmd
      <4>1. hist'[c] = Recorded(hist[cmd], us) /\ samples'[c] = g
        BY <2>8, <3>1
      <4>2. QED
        BY <2>7, <4>1 DEF Counts
    <3>2. CASE c # cmd
      <4>1. hist'[c] = hist[c] /\ samples'[c] = samples[c]
        BY <2>8, <3>2
      <4>2. Counts(hist[c], samples[c])
        BY DEF HistInv
      <4>3. QED
        BY <4>1, <4>2 DEF Counts
    <3>3. QED
      BY <3>1, <3>2
  <2>11. QED
    BY <2>9, <2>10 DEF HistInv
<1>3. ASSUME NEW p \in Procs, ReadClock(p) \/ Access(p) \/ LogIfSlow(p)  PROVE HistInv'
  BY <1>1, <1>3 DEF ReadClock, Access, LogIfSlow
<1>4. SlowlogReset \/ TopReadsClock \/ TopReturns \/ Tick \/ UNCHANGED vars =>
        UNCHANGED <<hist, samples>>
  BY DEF SlowlogReset, TopReadsClock, TopReturns, Tick, vars
<1>5. QED
  BY <1>1, <1>2, <1>3, <1>4 DEF Next

\* Nothing has been sampled.
LEMMA HistInit == Init => HistInv
<1> SUFFICES ASSUME Init PROVE HistInv
  OBVIOUS
<1> samples \in [Commands -> [Latencies -> Nat]]
  BY DEF Init
<1> SUFFICES ASSUME NEW cmd \in Commands PROVE Counts(hist[cmd], samples[cmd])
  BY DEF HistInv
<1> DEFINE f == samples[cmd]
<1>1. \A us \in Latencies : f[us] = 0
  BY DEF Init
<1>2. hist[cmd].calls = 0 /\ \A b \in Buckets : hist[cmd].buckets[b] = 0
  BY DEF Init
<1> HIDE DEF f
<1>3. SumFunctionOnSet(f, Latencies) = 0
  BY <1>1, FiniteData, SumZeros
<1>4. ASSUME NEW b \in Buckets  PROVE SumFunctionOnSet(f, InBucket(b)) = 0
  <2>1. InBucket(b) \in SUBSET Latencies /\ \A us \in InBucket(b) : f[us] = 0
    BY <1>1 DEF InBucket
  <2>2. IsFiniteSet(InBucket(b))
    BY <2>1, FiniteData, FS_Subset
  <2>3. QED
    BY <2>1, <2>2, SumZeros
<1>5. QED
  BY <1>2, <1>3, <1>4 DEF Counts, f

\* The buckets up to one hold the samples up to it.
LEMMA CumulativeIs ==
  ASSUME NEW h \in Histograms, NEW f \in [Latencies -> Nat], Counts(h, f)
  PROVE  \A i \in Buckets : Cumulative(h, i) = SumFunctionOnSet(f, UpTo(i))
<1> DEFINE N == Len(Bounds) + 1
           C == {i \in 0 .. N : Cumulative(h, i) # SumFunctionOnSet(f, UpTo(i))}
<1>1. /\ IsFiniteSet(Latencies) /\ N \in Nat /\ Buckets = 1 .. N
      /\ \A l \in Latencies : l \in Nat /\ BucketOf(l) \in 1 .. N /\ f[l] \in Nat
  <2>1. IsFiniteSet(Latencies) /\ N \in Nat /\ Buckets = 1 .. N
    BY FiniteData, BoundFacts DEF Buckets
  <2>2. \A l \in Latencies : l \in Nat
    BY RecorderAssumption DEF Latencies
  <2>3. QED
    BY <2>1, <2>2, BucketIs
<1>2. h.buckets \in [1 .. N -> Nat]
  BY <1>1 DEF Histograms
<1>3. SUFFICES ASSUME C # {} PROVE FALSE
  BY <1>1
<1>4. PICK m \in C : \A x \in C : m <= x
  <2>1. C \subseteq Nat
    BY <1>1
  <2> HIDE DEF C
  <2>2. QED
    BY <1>3, <2>1, LeastNumber
<1> HIDE DEF N
<1>5. m \in 0 .. N /\ m \in Nat
  BY <1>1
<1> DEFINE g == h.buckets
<1>6. CASE m = 0
  <2>1. UpTo(0) = {} /\ 1 .. 0 = {}
    BY <1>1 DEF UpTo
  <2>2. SumFunctionOnSet(f, {}) = 0 /\ SumFunctionOnSet(g, {}) = 0
    BY SumZeros, FS_EmptySet
  <2>3. Cumulative(h, m) = SumFunctionOnSet(f, UpTo(m))
    BY <1>6, <2>1, <2>2 DEF Cumulative
  <2>4. QED
    BY <2>3
<1>7. CASE m # 0
  <2> DEFINE k == m - 1  S == 1 .. m  low == UpTo(k)  mine == InBucket(m)
  <2>1. k \in 0 .. N /\ ~ (m <= k) /\ m \in 1 .. N
    BY <1>1, <1>5, <1>7
  <2>2. Cumulative(h, k) = SumFunctionOnSet(f, low)
    BY <1>4, <2>1
  <2>3. IsFiniteSet(S) /\ m \in S /\ S \ {m} = 1 .. k /\ \A i \in S : g[i] \in Nat
    <3>1. IsFiniteSet(S)
      BY <1>5, FS_Interval
    <3>2. m \in S /\ S \ {m} = 1 .. k
      BY <1>5, <2>1
    <3>3. \A i \in S : i \in 1 .. N
      BY <1>1, <2>1
    <3> HIDE DEF S
    <3>4. QED
      BY <1>2, <3>1, <3>2, <3>3
  <2>4. /\ low \cup mine = UpTo(m) /\ low \cap mine = {}
        /\ low \in SUBSET Latencies /\ mine \in SUBSET Latencies
    <3>1. \A l \in Latencies : BucketOf(l) <= m <=> BucketOf(l) <= k \/ BucketOf(l) = m
      BY <1>1, <1>5
    <3>2. \A l \in Latencies : ~ (BucketOf(l) <= k /\ BucketOf(l) = m)
      BY <1>5
    <3> HIDE DEF k
    <3>3. QED
      BY <3>1, <3>2 DEF UpTo, InBucket
  <2>5. g[m] = SumFunctionOnSet(f, mine)
    BY <1>1, <2>1 DEF Counts
  <2>6. Cumulative(h, m) = SumFunctionOnSet(g, S) /\ Cumulative(h, k) = SumFunctionOnSet(g, 1 .. k)
    BY DEF Cumulative
  <2> HIDE DEF g, S, low, mine, k
  <2>7. SumFunctionOnSet(g, S) = g[m] + SumFunctionOnSet(g, S \ {m})
    BY <2>3, SumFacts
  <2>8. IsFiniteSet(low) /\ IsFiniteSet(mine) /\ \A l \in low \cup mine : f[l] \in Nat
    BY <1>1, <2>4, FS_Subset
  <2>9. SumFunctionOnSet(f, low \cup mine) = SumFunctionOnSet(f, low) + SumFunctionOnSet(f, mine)
    BY <2>4, <2>8, SumUnion
  <2>10. SumFunctionOnSet(f, low) \in Nat /\ SumFunctionOnSet(f, mine) \in Nat
    BY <2>8, SumFacts
  <2>11. SumFunctionOnSet(g, S \ {m}) = Cumulative(h, k)
    BY <2>3, <2>6
  <2>12. Cumulative(h, m) = SumFunctionOnSet(f, mine) + SumFunctionOnSet(f, low)
    BY <2>2, <2>5, <2>6, <2>7, <2>11
  <2>13. SumFunctionOnSet(f, UpTo(m)) = SumFunctionOnSet(f, low) + SumFunctionOnSet(f, mine)
    BY <2>4, <2>9
  <2>14. Cumulative(h, m) = SumFunctionOnSet(f, UpTo(m))
    BY <2>10, <2>12, <2>13
  <2>15. QED
    BY <2>14
<1>8. QED
  BY <1>6, <1>7

\* A count covers a percentage when it reaches the target.
LEMMA TargetCovers ==
  ASSUME NEW count \in Nat, NEW n \in Nat, NEW percent \in 1 .. 100
  PROVE  count >= Target(percent, n) <=> 100 * count >= percent * n
<1> DEFINE q == percent * n
<1>1. q \in Nat
  OBVIOUS
<1> HIDE DEF q
<1>2. count >= (q + 99) \div 100 <=> 100 * count >= q
  BY <1>1
<1>3. QED
  BY <1>2 DEF Target, q

\* The samples of at most some latency.
Below(us) == {l \in Latencies : l <= us}

\* All of the samples cover every percentage.
LEMMA AllCover ==
  ASSUME NEW n \in Nat, NEW percent \in 1 .. 100
  PROVE  100 * n >= percent * n
<1>1. (100 - percent) * n \in Nat
  OBVIOUS
<1>2. (100 - percent) * n = 100 * n - percent * n
  OBVIOUS
<1>3. percent * n \in Nat
  OBVIOUS
<1>4. QED
  BY <1>1, <1>2, <1>3

\* There is a latency of each rank.
LEMMA RankedIs ==
  ASSUME NEW f \in [Latencies -> Nat], NEW percent \in 1 .. 100, NEW n,
         n = SumFunctionOnSet(f, Latencies)
  PROVE  LET covers == {us \in Latencies : 100 * SumFunctionOnSet(f, Below(us)) >= percent * n}
         IN  Min(covers) \in covers /\ \A us \in covers : Min(covers) <= us
<1> DEFINE covers == {us \in Latencies :
                        100 * SumFunctionOnSet(f, Below(us)) >= percent * n}
<1>1. /\ IsFiniteSet(Latencies) /\ Latencies \subseteq Nat /\ Latencies # {}
      /\ \A us \in Latencies : f[us] \in Nat
  BY FiniteData, RecorderAssumption DEF Latencies
<1>2. PICK m \in Latencies : \A us \in Latencies : us <= m
  BY <1>1, GreatestNumber
<1>3. Below(m) = Latencies
  BY <1>2 DEF Below
<1>4. n \in Nat
  BY <1>1, SumFacts
<1>5. m \in covers
  <2>1. 100 * n >= percent * n
    BY <1>4, AllCover
  <2>2. SumFunctionOnSet(f, Below(m)) = n
    BY <1>3
  <2>3. QED
    BY <2>1, <2>2
<1>6. covers \subseteq Nat
  BY <1>1
<1> HIDE DEF covers
<1>7. Min(covers) \in covers /\ \A us \in covers : Min(covers) <= us
  BY <1>5, <1>6, LeastIs
<1>8. QED
  BY <1>7 DEF covers

\* The first bucket whose count reaches the target is that of the latency whose rank
\* covers the percentage.
LEMMA SameBucket ==
  ASSUME NEW h \in Histograms, NEW f \in [Latencies -> Nat], Counts(h, f),
         h.calls > 0, NEW percent \in 1 .. 100,
         NEW u \in Latencies,
         100 * SumFunctionOnSet(f, Below(u)) >= percent * h.calls,
         \A us \in Latencies :
           100 * SumFunctionOnSet(f, Below(us)) >= percent * h.calls => u <= us
  PROVE  Min({i \in Buckets : Cumulative(h, i) >= Target(percent, h.calls)}) = BucketOf(u)
<1> DEFINE covers == {i \in Buckets : Cumulative(h, i) >= Target(percent, h.calls)}
           need == percent * h.calls
           b == BucketOf(u)
<1>1. /\ IsFiniteSet(Latencies) /\ Latencies \subseteq Nat /\ Buckets \subseteq Nat
      /\ \A l \in Latencies : f[l] \in Nat
  BY FiniteData, RecorderAssumption DEF Latencies, Buckets
<1>2. h.calls \in Nat /\ need \in Nat /\ need > 0
  <2>1. h.calls \in Nat
    BY DEF Histograms
  <2>2. QED
    BY <2>1
<1>3. /\ \A us : Below(us) \in SUBSET Latencies /\ IsFiniteSet(Below(us))
      /\ \A i : UpTo(i) \in SUBSET Latencies /\ IsFiniteSet(UpTo(i))
  BY <1>1, FS_Subset DEF Below, UpTo
<1>4. \A T \in SUBSET Latencies : SumFunctionOnSet(f, T) \in Nat
  <2> TAKE T \in SUBSET Latencies
  <2>1. IsFiniteSet(T) /\ \A l \in T : f[l] \in Nat
    BY <1>1, FS_Subset
  <2>2. QED
    BY <2>1, SumFacts
<1>5. \A i \in Buckets : i \in covers <=> 100 * SumFunctionOnSet(f, UpTo(i)) >= need
  <2> TAKE i \in Buckets
  <2> DEFINE count == SumFunctionOnSet(f, UpTo(i))
  <2>1. Cumulative(h, i) = count
    BY CumulativeIs
  <2>2. count \in Nat
    BY <1>3, <1>4
  <2> HIDE DEF count
  <2>3. count >= Target(percent, h.calls) <=> 100 * count >= percent * h.calls
    BY <1>2, <2>2, TargetCovers
  <2>4. QED
    BY <2>1, <2>3 DEF count
<1>6. b \in Buckets /\ u \in Nat
  BY <1>1, BucketIs
<1> HIDE DEF covers, need, b
<1>7. ASSUME NEW S \in SUBSET Latencies, NEW T \in SUBSET S
      PROVE  SumFunctionOnSet(f, T) <= SumFunctionOnSet(f, S)
  <2>1. IsFiniteSet(S) /\ \A l \in S : f[l] \in Nat
    BY <1>1, FS_Subset
  <2>2. QED
    BY <2>1, SumPart
<1>8. b \in covers
  <2>1. Below(u) \in SUBSET UpTo(b)
    <3>1. ASSUME NEW l \in Latencies, l <= u PROVE BucketOf(l) <= b
      BY <1>1, <1>6, <3>1, BucketsAscend DEF b
    <3>2. QED
      BY <3>1 DEF Below, UpTo
  <2> DEFINE x == SumFunctionOnSet(f, Below(u))  y == SumFunctionOnSet(f, UpTo(b))
  <2>2. x <= y /\ x \in Nat /\ y \in Nat /\ 100 * x >= need
    BY <1>3, <1>4, <1>7, <2>1 DEF need
  <2> HIDE DEF x, y
  <2>3. 100 * y >= need
    BY <1>2, <2>2
  <2>4. QED
    BY <1>5, <1>6, <2>3 DEF y
<1>9. ASSUME NEW i \in covers, ~ (b <= i)  PROVE FALSE
  <2>1. /\ i \in Buckets /\ i \in Nat /\ b \in Nat
        /\ 100 * SumFunctionOnSet(f, UpTo(i)) >= need
    <3>1. i \in Buckets
      BY DEF covers
    <3>2. QED
      BY <1>1, <1>5, <1>6, <3>1
  <2>2. UpTo(i) # {}
    <3>1. SumFunctionOnSet(f, {}) = 0
      BY SumZeros, FS_EmptySet
    <3>2. SUFFICES ASSUME UpTo(i) = {} PROVE FALSE
      OBVIOUS
    <3>3. QED
      BY <1>2, <2>1, <3>1, <3>2
  <2>3. PICK m \in UpTo(i) : \A l \in UpTo(i) : l <= m
    <3>1. UpTo(i) \subseteq Nat /\ IsFiniteSet(UpTo(i))
      BY <1>1, <1>3
    <3>2. QED
      BY <2>2, <3>1, GreatestNumber
  <2>4. m \in Latencies /\ m \in Nat /\ BucketOf(m) <= i /\ UpTo(i) \in SUBSET Below(m)
    BY <1>1, <2>3 DEF UpTo, Below
  <2> DEFINE x == SumFunctionOnSet(f, UpTo(i))  y == SumFunctionOnSet(f, Below(m))
  <2>5. x <= y /\ x \in Nat /\ y \in Nat /\ 100 * x >= need
    BY <1>3, <1>4, <1>7, <2>1, <2>4
  <2> HIDE DEF x, y
  <2>6. 100 * y >= need
    BY <1>2, <2>5
  <2>7. u <= m
    BY <2>4, <2>6 DEF y, need
  <2>8. b <= BucketOf(m)
    BY <1>6, <2>4, <2>7, BucketsAscend DEF b
  <2>9. BucketOf(m) \in Nat
    BY <1>1, <2>4, BucketIs
  <2>10. QED
    BY <1>9, <2>1, <2>4, <2>8, <2>9
<1>10. Min(covers) = b
  <2>1. covers \subseteq Nat /\ covers # {}
    BY <1>1, <1>8 DEF covers
  <2>2. Min(covers) \in covers /\ \A x \in covers : Min(covers) <= x
    BY <2>1, LeastIs
  <2>3. Min(covers) <= b /\ b <= Min(covers) /\ Min(covers) \in Nat /\ b \in Nat
    BY <1>8, <1>9, <2>1, <2>2
  <2>4. QED
    BY <2>3
<1>11. QED
  BY <1>10 DEF covers, b

\* What is reported for a bucket is the least bound above its latencies, or the last
\* bound if there is none.
LEMMA EdgeIs ==
  ASSUME NEW us \in Nat
  PROVE  Edge(BucketOf(us)) =
           LET above == {Bounds[i] : i \in 1 .. Len(Bounds)} \ (0 .. us)
           IN  IF above = {} THEN Bounds[Len(Bounds)] ELSE Min(above)
<1> DEFINE N == Len(Bounds)
           b == BucketOf(us)
           above == {Bounds[i] : i \in 1 .. N} \ (0 .. us)
<1>1. /\ N \in Nat /\ N # 0 /\ \A i \in 1 .. N : Bounds[i] \in Nat
      /\ \A i, j \in 1 .. N : i < j => Bounds[i] < Bounds[j]
  BY BoundFacts
<1>2. b \in 1 .. N + 1 /\ \A i \in 1 .. N : us < Bounds[i] <=> b <= i
  BY BucketIs DEF Buckets
<1>3. Edge(b) = IF b > N THEN Bounds[N] ELSE Bounds[b]
  BY DEF Edge
<1> HIDE DEF N, b
<1>4. \A x : x \in above <=> \E i \in 1 .. N : x = Bounds[i] /\ b <= i
  <2>1. \A i \in 1 .. N : Bounds[i] \notin 0 .. us <=> b <= i
    <3> TAKE i \in 1 .. N
    <3>1. Bounds[i] \in Nat /\ (us < Bounds[i] <=> b <= i)
      BY <1>1, <1>2
    <3>2. QED
      BY <3>1
  <2>2. QED
    BY <2>1
<1> HIDE DEF above
<1>5. CASE b > N
  <2>1. above = {}
    BY <1>1, <1>2, <1>4, <1>5
  <2>2. QED
    BY <1>3, <1>5, <2>1 DEF above, N, b
<1>6. CASE ~ (b > N)
  <2>1. b \in 1 .. N
    BY <1>1, <1>2, <1>6
  <2>2. Bounds[b] \in above /\ Bounds[b] \in Nat
    BY <1>1, <1>4, <2>1
  <2>3. \A x \in above : x \in Nat /\ Bounds[b] <= x
    <3> TAKE x \in above
    <3>1. PICK i \in 1 .. N : x = Bounds[i] /\ b <= i
      BY <1>4
    <3>2. CASE i = b
      BY <2>2, <3>1, <3>2
    <3>3. CASE i # b
      <4>1. Bounds[b] < Bounds[i] /\ Bounds[i] \in Nat
        BY <1>1, <2>1, <3>1, <3>3
      <4>2. QED
        BY <2>2, <3>1, <4>1
    <3>4. QED
      BY <3>2, <3>3
  <2>4. Min(above) = Bounds[b]
    <3>1. above \subseteq Nat /\ above # {}
      BY <2>2, <2>3
    <3>2. Min(above) \in above /\ \A x \in above : Min(above) <= x
      BY <3>1, LeastIs
    <3>3. Min(above) <= Bounds[b] /\ Bounds[b] <= Min(above) /\ Min(above) \in Nat
      BY <2>2, <2>3, <3>2
    <3>4. QED
      BY <2>2, <3>3
  <2>5. above # {}
    BY <2>2
  <2>6. QED
    BY <1>3, <1>6, <2>4, <2>5 DEF above, N, b
<1>7. QED
  BY <1>5, <1>6

\* A percentile is the bound of the bucket of the latency that has this rank among all
\* the latencies reported, for any buckets and latencies: a latency equal to a bound
\* belongs to the next bucket, and those beyond all bounds are reported by the last
\* (histogram.record, percentile).
THEOREM PercentilesStayRanked == Spec => []PercentilesRank
<1>1. RestTypes /\ HistInv => PercentilesRank
  <2> SUFFICES ASSUME RestTypes, HistInv, NEW cmd \in Commands, NEW percent \in Percents,
                      hist[cmd].calls > 0
               PROVE  Percentile(hist[cmd], percent) =
                        LET us == Ranked(cmd, percent)
                            above == {Bounds[i] : i \in 1 .. Len(Bounds)} \ (0 .. us)
                        IN  IF above = {} THEN Bounds[Len(Bounds)] ELSE Min(above)
    BY DEF PercentilesRank
  <2> DEFINE h == hist[cmd]  f == samples[cmd]  n == h.calls
             u == Ranked(cmd, percent)
             covers == {us \in Latencies :
                          100 * SumFunctionOnSet(f, Below(us)) >= percent * n}
  <2>1. h \in Histograms /\ f \in [Latencies -> Nat] /\ Counts(h, f)
    BY DEF RestTypes, HistInv
  <2>2. percent \in 1 .. 100
    BY RecorderAssumption
  <2>3. n = SumFunctionOnSet(f, Latencies) /\ SumFunction(f) = n /\ n > 0 /\ n # 0
    <3>1. n = SumFunctionOnSet(f, Latencies)
      BY <2>1 DEF Counts
    <3>2. SumFunction(f) = SumFunctionOnSet(f, Latencies)
      <4>1. DOMAIN f = Latencies
        BY <2>1
      <4>2. QED
        BY <4>1 DEF SumFunction
    <3>3. n > 0
      OBVIOUS
    <3>4. QED
      BY <3>1, <3>2, <3>3
  <2>4. u = Min(covers)
    BY <2>3 DEF Ranked, Below
  <2>5. Percentile(h, percent) =
          Edge(Min({i \in Buckets : Cumulative(h, i) >= Target(percent, h.calls)}))
    BY <2>3 DEF Percentile
  <2> HIDE DEF h, f, u
  <2>6. Min(covers) \in covers /\ \A us \in covers : Min(covers) <= us
    BY <2>1, <2>2, <2>3, RankedIs
  <2>7. /\ u \in Latencies /\ 100 * SumFunctionOnSet(f, Below(u)) >= percent * n
        /\ \A us \in Latencies :
             100 * SumFunctionOnSet(f, Below(us)) >= percent * n => u <= us
    BY <2>4, <2>6
  <2>8. Min({i \in Buckets : Cumulative(h, i) >= Target(percent, h.calls)}) = BucketOf(u)
    BY <2>1, <2>2, <2>3, <2>7, SameBucket
  <2>9. u \in Nat
    BY <2>7, RecorderAssumption DEF Latencies
  <2>10. Percentile(h, percent) =
           LET above == {Bounds[i] : i \in 1 .. Len(Bounds)} \ (0 .. u)
           IN  IF above = {} THEN Bounds[Len(Bounds)] ELSE Min(above)
    BY <2>5, <2>8, <2>9, EdgeIs
  <2>11. QED
    BY <2>10 DEF h, u
<1>2. RingInv /\ RestTypes /\ [Next]_vars => RestTypes'
  BY RestNext
<1>3. RestTypes /\ HistInv /\ [Next]_vars => HistInv'
  BY HistNext
<1>4. QED
  BY <1>1, <1>2, <1>3, RestInit, HistInit, RingInvariant, PTL DEF Spec
=============================================================================
