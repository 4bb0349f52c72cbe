----------------------------- MODULE ScanCursor -----------------------------
(***************************************************************************)
(* One client iterating with SCAN while other connections add and remove   *)
(* keys (store/store.go Scan, commands/handler.go scan).  The cursor is an *)
(* offset into the sorted key names, and they are listed anew every call.  *)
(***************************************************************************)
EXTENDS Integers, FiniteSets, Sequences, SequencesExt

CONSTANTS
  Keys,      \* key names as natural numbers, in their sort order
  Types,     \* string, list, hash: the same name may be in use in each of them
  Matching,  \* the keys the MATCH pattern accepts
  Counts,    \* what clients pass as COUNT
  Half       \* 2^(w-1), for an int of w bits

ASSUME ScanAssumption ==
  /\ Keys \subseteq Nat /\ Matching \subseteq Keys
  /\ IsFiniteSet(Keys) /\ IsFiniteSet(Types)
  /\ Half \in Nat /\ 10 < Half   \* the default page size is an int
  /\ Counts \subseteq -Half .. Half - 1

VARIABLES
  present,  \* the entries of the three maps that have not expired
  cursor,   \* what the client sends next
  status,   \* "ready", "scanning", "done", or "failed" (an error reply)
  seen,     \* keys returned so far
  stayed,   \* ghost: keys that were there during the whole scan
  shifted   \* ghost: during this scan an entry behind the cursor was removed

vars == <<present, cursor, status, seen, stayed, shifted>>

Names(entries) == {e[1] : e \in entries}

TypeOK ==
  /\ present \subseteq Keys \X Types
  /\ cursor \in Nat
  /\ status \in {"ready", "scanning", "done", "failed"}
  /\ seen \subseteq Matching /\ stayed \subseteq Names(present)
  /\ shifted \in BOOLEAN

Init ==
  /\ present \in SUBSET (Keys \X Types)
  /\ cursor = 0 /\ status = "ready" /\ seen = {} /\ stayed = {}
  /\ shifted = FALSE

\* The sorted names, one that is in use in two maps twice.
UpTo(k) == Cardinality({e \in present : e[1] <= k})
Listing ==
  [i \in 1 .. Cardinality(present) |->
     CHOOSE k \in Names(present) : UpTo(k - 1) < i /\ i <= UpTo(k)]

PageSize(count) == IF count <= 0 THEN 10 ELSE count

\* cursor + count, in two's complement.
Sum(count) ==
  ((cursor + PageSize(count) + Half) % (2 * Half)) - Half

Begin ==
  /\ status # "scanning" /\ status' = "scanning"
  /\ cursor' = 0 /\ seen' = {} /\ stayed' = Names(present)
  /\ shifted' = FALSE
  /\ UNCHANGED present

\* Mutant: the MATCH pattern is not applied.
AnswerUnfiltered(next, keys) ==
  /\ cursor' = next /\ seen' = seen \cup keys
  /\ status' = IF next = 0 THEN "done" ELSE "scanning"
  /\ UNCHANGED <<present, stayed, shifted>>

Answer(next, keys) ==
  /\ cursor' = next /\ seen' = seen \cup (keys \cap Matching)
  /\ status' = IF next = 0 THEN "done" ELSE "scanning"
  /\ UNCHANGED <<present, stayed, shifted>>

\* Mutant: past the end the client gets its cursor back.
ScanPastEndStays ==
  status = "scanning" /\ cursor >= Cardinality(present) /\ Answer(cursor, {})

\* A cursor past the end, also one that was valid when it was handed out, ends
\* the iteration with an empty page.
ScanPastEnd ==
  status = "scanning" /\ cursor >= Cardinality(present) /\ Answer(0, {})

\* Mutant: the next page starts one key too late.
ScanPageSkips(count) ==
  LET n   == Cardinality(present)
      end == Min({Sum(count), n})
  IN  /\ status = "scanning" /\ cursor < n /\ cursor <= end
      /\ Answer(IF end + 1 >= n THEN 0 ELSE end + 1,
                Range(SubSeq(Listing, cursor + 1, end)))

\* Mutant: a page starts at the key after the cursor.
ScanPageLate(count) ==
  LET n   == Cardinality(present)
      end == Min({Sum(count), n})
  IN  /\ status = "scanning" /\ cursor < n /\ cursor <= end
      /\ Answer(IF end >= n THEN 0 ELSE end, Range(SubSeq(Listing, cursor + 2, end)))

ScanPage(count) ==
  LET n   == Cardinality(present)
      end == Min({Sum(count), n})
  IN  /\ status = "scanning" /\ cursor < n /\ cursor <= end
      /\ Answer(IF end >= n THEN 0 ELSE end, Range(SubSeq(Listing, cursor + 1, end)))

\* The sum has overflowed, the slice expression panics, and the connection
\* answers "ERR internal error".
ScanPanics(count) ==
  /\ status = "scanning" /\ cursor < Cardinality(present) /\ Sum(count) < cursor
  /\ status' = "failed"
  /\ UNCHANGED <<present, cursor, seen, stayed, shifted>>

Scan == ScanPastEnd \/ \E count \in Counts : ScanPage(count) \/ ScanPanics(count)

AddEntry(e) ==
  /\ e \notin present /\ present' = present \cup {e}
  /\ UNCHANGED <<cursor, status, seen, stayed, shifted>>

RemoveEntry(e) ==
  /\ e \in present /\ present' = present \ {e}
  /\ stayed' = stayed \cap Names(present')
  /\ shifted' = (shifted \/ UpTo(e[1]) <= cursor)
  /\ UNCHANGED <<cursor, status, seen>>

Next ==
  \/ Begin \/ Scan
  \/ \E e \in Keys \X Types : AddEntry(e) \/ RemoveEntry(e)

Spec == Init /\ [][Next]_vars

\* The client keeps calling until it gets the cursor 0.
FairSpec == Spec /\ WF_vars(Scan)

-----------------------------------------------------------------------------
\* store.go:243 "it only promises that keys present for the whole scan are
\* returned at least once".  The code keeps that promise but for one case, a key
\* behind the cursor that goes away meanwhile: however keys come and go in front of
\* the cursor, keys are added behind it, and whatever COUNT is, no key that stays
\* is missed.
StayersReturnedUnlessShifted ==
  status = "done" => shifted \/ stayed \cap Matching \subseteq seen

\* Why: what lies behind the cursor has been returned.  An insertion shifts keys
\* to the right, past the cursor, and never one to the left of it.
BehindCursorSeen ==
  status = "scanning" /\ ~shifted =>
    LET behind == SubSeq(Listing, 1, Min({cursor, Cardinality(present)}))
    IN  Range(behind) \cap stayed \cap Matching \subseteq seen

\* Every iteration ends, however keys come and go, since the cursor only grows; and
\* it ends with the cursor 0, unless a COUNT takes the end of the page out of range.
ScanEnds ==
  status = "scanning" ~>
    \/ status = "done"
    \/ status = "failed" /\ \E count \in Counts : cursor + PageSize(count) >= Half
=============================================================================
