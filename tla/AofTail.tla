------------------------------ MODULE AofTail ------------------------------
(***************************************************************************)
(* The bytes of the append-only file: how an entry is framed               *)
(* (store/aof.go writeLocked), how resp.Parse reads it back and what       *)
(* Replay does with it, when a power loss or a failing write has cut the   *)
(* last entry at any byte and later entries are appended behind the cut.   *)
(* AOF has the concurrency and the faults of the same file at the level of *)
(* whole entries; here an append, a sync and a rewrite are one step each.  *)
(***************************************************************************)
EXTENDS Integers, Sequences, SequencesExt, FiniteSets, FiniteSetsExt

CONSTANTS
  Keys, Values,  \* arguments of SET, sequences of characters without blanks
  MaxWrites,     \* bound: commands logged
  MaxCuts        \* bound: power losses and failed writes

Digits == <<"0", "1", "2", "3", "4", "5", "6", "7", "8", "9">>
CRLF == <<"CR", "LF">>
Set == <<"S">>  \* the name of SET, in one character

ASSUME TailAssumption ==
  MaxWrites \in Nat /\ MaxCuts \in Nat /\ \A s \in Keys \cup Values : s \in Seq(STRING)

VARIABLES
  file,    \* the bytes in it
  synced,  \* how many of them survive a power loss
  status,  \* "up", "sticky" (the writer keeps failing) or "down"
  memory,  \* the commands the store has executed
  whole,   \* ghost: the entries that are in the file undivided, and their ends
  clean,   \* ghost: the bytes up to where something follows a divided entry
  writes, cuts

vars == <<file, synced, status, memory, whole, clean, writes, cuts>>

Commands == {<<Set, k, v>> : k \in Keys, v \in Values}
LogEnd == IF whole = <<>> THEN 0 ELSE Last(whole).end
Torn == Len(file) > LogEnd

-----------------------------------------------------------------------------
\* Framing

\* Numbers below 100 are enough for the lengths that occur.
Number(n) ==
  IF n < 10 THEN <<Digits[n + 1]>> ELSE <<Digits[(n \div 10) + 1], Digits[(n % 10) + 1]>>

\* Mutant: the length includes the line end.
BulkLong(s) == <<"$">> \o Number(Len(s) + 2) \o CRLF \o s \o CRLF

Bulk(s) == <<"$">> \o Number(Len(s)) \o CRLF \o s \o CRLF

Encode(cmd) ==
  <<"*">> \o Number(Len(cmd)) \o CRLF \o FlattenSeq([i \in 1 .. Len(cmd) |-> Bulk(cmd[i])])

IsNumber(s) == s # <<>> /\ \A i \in 1 .. Len(s) : s[i] \in Range(Digits)
Atoi(s) == FoldLeft(LAMBDA n, c : 10 * n + CHOOSE d \in 0 .. 9 : Digits[d + 1] = c, 0, s)

\* What Parse returns: a value and where the next begins, or an error.
Failed(kind) == [kind |-> kind, str |-> <<>>, array |-> <<>>, next |-> 0]
Value(kind, str, array, next) ==
  [kind |-> kind, str |-> str, array |-> array, next |-> next]
IsError(v) == v.kind \in {"EOF", "malformed"}

RECURSIVE Parse(_, _), ParseArray(_, _, _, _)

\* resp.Parse at byte p of b.  An array keeps only the strings of its elements,
\* which for a nested array is empty.  A line that is no header is an inline
\* command, of one word where there are no blanks.
Parse(b, p) ==
  LET ends == {i \in p .. Len(b) : b[i] = "LF"}
      e == Min(ends)
      line == SubSeq(b, p, e - 2)
      body == Tail(line)
      n == Atoi(body)
  IN  IF ends = {} THEN Failed("EOF")
      ELSE IF e <= p + 1 \/ b[e - 1] # "CR" THEN Failed("malformed")
      ELSE IF line[1] \notin {"$", "*"} THEN Value("*", <<>>, <<line>>, e + 1)
      ELSE IF ~IsNumber(body) THEN Failed("malformed")
      ELSE IF line[1] = "*" THEN ParseArray(b, e + 1, n, <<>>)
      ELSE IF Len(b) < e + n + 2 THEN Failed("EOF")
      ELSE IF SubSeq(b, e + n + 1, e + n + 2) # CRLF THEN Failed("malformed")
      ELSE Value("$", SubSeq(b, e + 1, e + n), <<>>, e + n + 3)

ParseArray(b, p, n, sofar) ==
  IF n = 0 THEN Value("*", <<>>, sofar, p)
  ELSE LET v == Parse(b, p)
       IN  IF IsError(v) THEN v
           ELSE ParseArray(b, v.next, n - 1, Append(sofar, v.str))

\* replayCommand, which refuses other commands and further arguments.
Executable(cmd) == Len(cmd) = 3 /\ cmd[1] = Set

\* The commands Replay executes: it stops at the first error of Parse.
RECURSIVE ReplayFrom(_, _)
ReplayFrom(b, p) ==
  LET v == Parse(b, p)
  IN  IF IsError(v) THEN <<>>
      ELSE (IF v.kind = "*" /\ Executable(v.array) THEN <<v.array>> ELSE <<>>)
           \o ReplayFrom(b, v.next)
Replayed(b) == ReplayFrom(b, 1)

-----------------------------------------------------------------------------

Init ==
  /\ file = <<>> /\ synced = 0 /\ status = "up" /\ memory = <<>>
  /\ whole = <<>> /\ clean = 0 /\ writes = 0 /\ cuts = 0

\* Append to the file, whole or in part.
Extend(bytes) ==
  /\ file' = file \o bytes
  /\ clean' = IF clean = Len(file) /\ ~Torn THEN Len(file') ELSE clean

Write(cmd) ==
  /\ status = "up" /\ writes < MaxWrites /\ writes' = writes + 1
  /\ memory' = Append(memory, cmd)
  /\ Extend(Encode(cmd))
  /\ whole' = Append(whole, [cmd |-> cmd, end |-> Len(file')])
  /\ UNCHANGED <<synced, status, cuts>>

\* The store has the command, the file a part of its entry, and the bufio.Writer
\* keeps the error.
WriteFails(cmd) ==
  /\ status = "up" /\ writes < MaxWrites /\ writes' = writes + 1
  /\ cuts < MaxCuts /\ cuts' = cuts + 1 /\ status' = "sticky"
  /\ memory' = Append(memory, cmd)
  /\ \E n \in 0 .. Len(Encode(cmd)) - 1 : Extend(SubSeq(Encode(cmd), 1, n))
  /\ UNCHANGED <<synced, whole>>

\* A writer that keeps its error keeps Sync from the file, too.
Sync ==
  /\ status = "up" /\ synced' = Len(file) /\ synced # Len(file)
  /\ UNCHANGED <<file, status, memory, whole, clean, writes, cuts>>

Keep(n) ==
  /\ file' = SubSeq(file, 1, n) /\ synced' = n
  /\ whole' = SelectSeq(whole, LAMBDA w : w.end <= n)
  /\ clean' = Min({clean, n})

PowerLoss ==
  /\ status # "down" /\ status' = "down"
  /\ cuts < MaxCuts /\ cuts' = cuts + 1
  /\ \E n \in synced .. Len(file) : Keep(n)
  /\ UNCHANGED <<memory, writes>>

Kill ==
  /\ status = "sticky" /\ status' = "down"
  /\ UNCHANGED <<file, synced, memory, whole, clean, writes, cuts>>

\* The file is left as it is, with the divided entry, and appended to.
Restart ==
  /\ status = "down" /\ status' = "up"
  /\ memory' = Replayed(file)
  /\ UNCHANGED <<file, synced, whole, clean, writes, cuts>>

\* Mutant: the temporary file is not truncated, but appended to the old one.
RewrittenAppends(cmds) == file \o FlattenSeq([i \in 1 .. Len(cmds) |-> Encode(cmds[i])])

Rewritten(cmds) == FlattenSeq([i \in 1 .. Len(cmds) |-> Encode(cmds[i])])

\* The commands of memory stand for the compact ones of a snapshot.
Rewrite ==
  /\ status # "down" /\ status' = "up"
  /\ file' = Rewritten(memory) /\ synced' = Len(file')
  /\ whole' = [i \in 1 .. Len(memory) |->
                 [cmd |-> memory[i], end |-> Len(Rewritten(SubSeq(memory, 1, i)))]]
  /\ clean' = Len(file')
  /\ UNCHANGED <<memory, writes, cuts>>

Next ==
  \/ \E cmd \in Commands : Write(cmd) \/ WriteFails(cmd)
  \/ Sync \/ PowerLoss \/ Kill \/ Restart \/ Rewrite

Spec == Init /\ [][Next]_vars

-----------------------------------------------------------------------------
\* Properties

Logged == [i \in 1 .. Len(whole) |-> whole[i].cmd]

\* Whatever its last entry was cut to, the file replays to exactly the whole
\* entries in it; and once others have been appended behind a divided entry, those
\* before it are still replayed (writeLocked, Parse, Replay).
RebuiltUpToDamage ==
  LET before == SelectSeq(whole, LAMBDA w : w.end <= clean)
  IN  /\ IsPrefix(SubSeq(Logged, 1, Len(before)), Replayed(file))
      /\ clean = Len(file) => Replayed(file) = Logged

\* A rewrite leaves a file that replays to what memory holds, also if the old one
\* was damaged or memory was rebuilt from a damaged one.
RewriteRepairs == [][Rewrite => Replayed(file') = memory']_vars

\* aof.go:465 "Malformed or unsupported entries are logged and skipped rather than
\* aborting the replay": what was logged behind a damaged entry is replayed.  Does
\* not hold; Replay stops there, or reads the damaged entry and the next as one.
DamageSkipped == \A i \in 1 .. Len(whole) : Logged[i] \in Range(Replayed(file))
=============================================================================
