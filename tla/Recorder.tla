------------------------------ MODULE Recorder ------------------------------
(***************************************************************************)
(* What the recorder keeps of the commands it is told of (events/events.go *)
(* up to the broadcast, which is in EventStream): a latency histogram per  *)
(* command, a ring of hot-key windows and the slow log.  Connections       *)
(* report concurrently; each structure has a lock of its own, and one hold *)
(* of it is one action.  The clock is read outside the locks.              *)
(***************************************************************************)
EXTENDS Integers, Sequences, FiniteSets, FiniteSetsExt, Functions

CONSTANTS
  Procs,       \* goroutines in Record
  Calls,       \* what they report: [cmd, key, us], key = NoKey where none is counted
  NoKey,       \* no argument, or a command without a data key
  Bounds,      \* finite upper bounds of the latency buckets, ascending
  Percents,    \* the percentiles asked for, in percent
  SlotCount,   \* hotkeyBucketCount: windows in the ring
  TopN,        \* how many hot keys the dashboard asks for
  Threshold,   \* slow from here on; negative: never
  MaxLen,      \* entries the slow log retains
  Start,       \* the window in which the process starts
  MaxTime,     \* bound: the last window
  MaxRecords   \* bound: commands reported

Commands == {c.cmd : c \in Calls}
Keys == {c.key : c \in Calls} \ {NoKey}
Latencies == {c.us : c \in Calls}
Buckets == 1 .. Len(Bounds) + 1
Slots == 0 .. SlotCount - 1
Windows == Start .. MaxTime
Never == -1

ASSUME RecorderAssumption ==
  /\ Calls # {} /\ IsFiniteSet(Calls) /\ \A c \in Calls : c.us \in Nat
  /\ Bounds \in Seq(Nat) /\ Bounds # <<>>
  /\ \A i, j \in 1 .. Len(Bounds) : i < j => Bounds[i] < Bounds[j]
  /\ Percents \subseteq 1 .. 100
  /\ SlotCount \in Nat \ {0} /\ TopN \in Nat \ {0} /\ MaxLen \in Nat
  /\ Threshold \in Int
  /\ Start \in Nat /\ Start >= SlotCount
  /\ MaxTime \in Nat /\ MaxTime >= Start /\ MaxRecords \in Nat

VARIABLES
  now,        \* the current window, time.Now().Unix() / 5
  pc, job,    \* where each goroutine is in Record, the call, the window it has read
  hist,       \* latency histograms
  slots, slotTime,  \* the ring, and the window each slot was last reset for
  slow, nextID,     \* the slow log
  asked,      \* the window a reader in top has read, or Never
  samples,    \* ghost: every latency reported, per command
  accesses,   \* ghost: every access counted, per window and key
  logged,     \* ghost: every slow command since the last reset, oldest first
  late        \* ghost: an access took the lock a whole ring after it read the clock

ring == <<slots, slotTime, accesses, late>>
log == <<slow, nextID, logged>>
vars == <<now, pc, job, hist, samples, ring, log, asked>>

NoHits == [k \in Keys |-> 0]
\* The locals of a goroutine that is not in Record.
NoJob == [call |-> CHOOSE c \in Calls : TRUE, window |-> Start]

TypeOK ==
  /\ now \in Windows
  /\ pc \in [Procs -> {"idle", "clock", "access", "slow"}]
  /\ job \in [Procs -> [call : Calls, window : Windows]]
  /\ hist \in [Commands -> [calls : Nat, totalUs : Nat, buckets : [Buckets -> Nat]]]
  /\ slots \in [Slots -> [Keys -> Nat]]
  /\ \A s \in Slots :
       \/ slotTime[s] = 0 /\ slots[s] = NoHits
       \/ slotTime[s] \in Windows /\ slotTime[s] % SlotCount = s
  /\ \A i \in 1 .. Len(slow) : slow[i] \in [id : 1 .. nextID, us : Latencies]
  /\ asked \in Windows \cup {Never}

Init ==
  /\ now = Start
  /\ pc = [p \in Procs |-> "idle"]
  /\ job = [p \in Procs |-> NoJob]
  /\ hist = [c \in Commands |->
               [calls |-> 0, totalUs |-> 0, buckets |-> [i \in Buckets |-> 0]]]
  /\ slots = [s \in Slots |-> NoHits] /\ slotTime = [s \in Slots |-> 0]
  /\ slow = <<>> /\ nextID = 0 /\ logged = <<>>
  /\ asked = Never
  /\ samples = [c \in Commands |-> [us \in Latencies |-> 0]]
  /\ accesses = [w \in Windows |-> NoHits] /\ late = FALSE

-----------------------------------------------------------------------------
\* Histogram

BucketOf(us) ==
  LET above == {i \in 1 .. Len(Bounds) : us < Bounds[i]}
  IN  IF above = {} THEN Len(Bounds) + 1 ELSE Min(above)

Recorded(h, us) ==
  [calls |-> h.calls + 1, totalUs |-> h.totalUs + us,
   buckets |-> [h.buckets EXCEPT ![BucketOf(us)] = @ + 1]]

\* The code computes math.Ceil(p * calls) in floating point, which is this for
\* its three percentiles.
Target(percent, calls) == (percent * calls + 99) \div 100

Cumulative(h, i) == SumFunctionOnSet(h.buckets, 1 .. i)

\* The overflow bucket has no finite bound and is reported by its lower edge.
Edge(i) == IF i > Len(Bounds) THEN Bounds[Len(Bounds)] ELSE Bounds[i]

\* Mutant: the rank is rounded down.
PercentileFloor(h, percent) ==
  IF h.calls = 0 THEN 0
  ELSE Edge(Min({i \in Buckets :
                   Cumulative(h, i) >= (percent * h.calls) \div 100}))

Percentile(h, percent) ==
  IF h.calls = 0 THEN 0
  ELSE Edge(Min({i \in Buckets :
                   Cumulative(h, i) >= Target(percent, h.calls)}))

-----------------------------------------------------------------------------
\* Record

RecordLatency(p) ==
  /\ pc[p] = "idle"
  /\ SumFunction([c \in Commands |-> hist[c].calls]) < MaxRecords
  /\ \E call \in Calls :
       /\ job' = [job EXCEPT ![p].call = call]
       /\ hist' = [hist EXCEPT ![call.cmd] = Recorded(@, call.us)]
       /\ samples' = [samples EXCEPT ![call.cmd][call.us] = @ + 1]
       /\ pc' = [pc EXCEPT ![p] = IF call.key = NoKey THEN "slow" ELSE "clock"]
  /\ UNCHANGED <<now, ring, log, asked>>

ReadClock(p) ==
  /\ pc[p] = "clock" /\ pc' = [pc EXCEPT ![p] = "access"]
  /\ job' = [job EXCEPT ![p].window = now]
  /\ UNCHANGED <<now, hist, samples, ring, log, asked>>

\* Mutant: the slot of the next window.
SlotOfNext(window) == (window + 1) % SlotCount

SlotOf(window) == window % SlotCount

\* Mutant: a slot is reused without its old counts being thrown away.
KeptAlways(slot, window) == slots[slot]

Kept(slot, window) == IF slotTime[slot] = window THEN slots[slot] ELSE NoHits

Access(p) ==
  LET window == job[p].window
      slot == SlotOf(window)
      key == job[p].call.key
  IN  /\ pc[p] = "access" /\ pc' = [pc EXCEPT ![p] = "slow"]
      /\ slots' = [slots EXCEPT ![slot] = [Kept(slot, window) EXCEPT ![key] = @ + 1]]
      /\ slotTime' = [slotTime EXCEPT ![slot] = window]
      /\ accesses' = [accesses EXCEPT ![window][key] = @ + 1]
      /\ late' = (late \/ now - window >= SlotCount)
      /\ UNCHANGED <<now, job, hist, samples, log, asked>>

IsSlow(us) == Threshold >= 0 /\ us >= Threshold

\* Mutant: a full log keeps its oldest entries.
Oldest(entries, n) == SubSeq(entries, 1, Min({n, Len(entries)}))

Newest(entries, n) ==
  SubSeq(entries, Len(entries) - Min({n, Len(entries)}) + 1, Len(entries))

LogIfSlow(p) ==
  LET us == job[p].call.us
  IN  /\ pc[p] = "slow" /\ pc' = [pc EXCEPT ![p] = "idle"]
      /\ job' = [job EXCEPT ![p] = NoJob]
      /\ IF IsSlow(us)
           THEN /\ nextID' = nextID + 1
                /\ slow' = Newest(Append(slow, [id |-> nextID + 1, us |-> us]), MaxLen)
                /\ logged' = Append(logged, us)
           ELSE UNCHANGED log
      /\ UNCHANGED <<now, hist, samples, ring, asked>>

-----------------------------------------------------------------------------
\* Readers: INFO, SLOWLOG, the dashboard

SlowlogGet(n) ==
  LET count == IF n <= 0 \/ n > Len(slow) THEN Len(slow) ELSE n
  IN  [i \in 1 .. count |-> slow[Len(slow) - i + 1]]

SlowlogReset ==
  /\ slow # <<>>
  /\ slow' = <<>> /\ logged' = <<>>
  /\ UNCHANGED <<now, pc, job, hist, samples, ring, nextID, asked>>

TopReadsClock ==
  /\ asked = Never /\ asked' = now
  /\ UNCHANGED <<now, pc, job, hist, samples, ring, log>>

\* Mutant: the comparison includes the window that has just left the ring.
CurrentSlotsWide == {s \in Slots : asked - slotTime[s] <= SlotCount}

CurrentSlots == {s \in Slots : asked - slotTime[s] < SlotCount}

Total(k) == SumFunction([s \in CurrentSlots |-> slots[s][k]])

\* What top may return: a map knows only the keys it holds, and which of equally
\* hot keys makes the cut depends on map iteration and an unstable sort.
Leaders ==
  LET hit == {k \in Keys : Total(k) > 0}
  IN  {top \in kSubset(Min({TopN, Cardinality(hit)}), hit) :
         \A k \in top, other \in hit \ top : Total(k) >= Total(other)}

TopReturns ==
  /\ asked # Never /\ asked' = Never
  /\ UNCHANGED <<now, pc, job, hist, samples, ring, log>>

Tick ==
  /\ now < MaxTime /\ now' = now + 1
  /\ UNCHANGED <<pc, job, hist, samples, ring, log, asked>>

Next ==
  \/ \E p \in Procs :
       RecordLatency(p) \/ ReadClock(p) \/ Access(p) \/ LogIfSlow(p)
  \/ SlowlogReset \/ TopReadsClock \/ TopReturns \/ Tick

Spec == Init /\ [][Next]_vars

-----------------------------------------------------------------------------
\* Properties

\* The r-th smallest latency of a command, r the least rank that covers the
\* percentage, taken from all of its samples.
Ranked(cmd, percent) ==
  LET AtMost(us) == SumFunctionOnSet(samples[cmd], {l \in Latencies : l <= us})
      n == SumFunction(samples[cmd])
  IN  Min({us \in Latencies : 100 * AtMost(us) >= percent * n})

\* A percentile is the bound of the bucket that holds the latency of that rank,
\* or the last bound if it is beyond all of them; a latency equal to a bound
\* belongs to the next bucket (histogram.record, percentile).
PercentilesRank ==
  \A cmd \in Commands, percent \in Percents :
    hist[cmd].calls > 0 =>
      Percentile(hist[cmd], percent) =
        LET us == Ranked(cmd, percent)
            above == {Bounds[i] : i \in 1 .. Len(Bounds)} \ (0 .. us)
        IN  IF above = {} THEN Bounds[Len(Bounds)] ELSE Min(above)

\* Each slot of the ring counts every access of the window it stands for, and
\* no other, however many goroutines are between reading the clock and taking
\* the lock while windows pass (hotkeyTracker.access).  Only a goroutine held
\* up there for a whole ring can spoil it.
SlotsExact ==
  late \/ \A s \in Slots :
            slotTime[s] # 0 => slots[s] = accesses[slotTime[s]]

Since(window, k) ==
  SumFunctionOnSet([w \in Windows |-> accesses[w][k]],
                   {w \in Windows : w > window})

\* The leaderboard counts everything counted in the last SlotCount windows and
\* nothing older than the reader's view of them, although the reader reads the
\* clock before it takes the lock; a key that is left out is not hotter than
\* one that is in (hotkeyTracker.top).
LeaderboardRight ==
  LET AtLeast(k) == IF late THEN 0 ELSE Since(now - SlotCount, k)
      AtMost(k) == Since(asked - SlotCount, k)
  IN  asked # Never =>
        \A top \in Leaders :
          /\ \A k \in top : Total(k) \in AtLeast(k) .. AtMost(k)
          /\ \A other \in Keys \ top :
               /\ Cardinality(top) < TopN => AtLeast(other) = 0
               /\ \A k \in top : AtLeast(other) <= AtMost(k)

\* SLOWLOG GET n returns the newest slow commands since the last reset, newest
\* first, at most MaxLen, with consecutive ids that a reset does not restart
\* (slowlog.maybeRecord, get, reset).
SlowlogLatest ==
  \A n \in 0 .. MaxLen + 1 :
    LET got == SlowlogGet(n)
        expected == Min({Len(logged), MaxLen} \cup ({n} \ {0}))
    IN  /\ Len(got) = expected
        /\ \A i \in 1 .. expected :
             got[i] = [id |-> nextID - i + 1, us |-> logged[Len(logged) - i + 1]]
=============================================================================
