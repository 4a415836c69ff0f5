----------------------------- MODULE AuditLogProofs -----------------------------
(***************************************************************************)
(* Proofs about AuditLog: what is kept and what a loss leaves behind, for   *)
(* any number of processes; the chain and the changes of configuration for  *)
(* one process at a time, as AuditLog remembers the last hash on its own.   *)
(***************************************************************************)
EXTENDS AuditLog, SequenceTheorems, WellFoundedInduction, TLAPS

USE AuditAssumption

Busy == {"open", "append", "sync", "replace"}

Proc == [at: {"down", "idle", "open", "append", "sync", "replace"},
         prev: 0..MaxEntries, seq: Nat, last: Configs \union {NoConfig},
         config: Configs \union {NoConfig}, entry: Entries \union {Torn},
         then: BOOLEAN, moved: BOOLEAN]

-----------------------------------------------------------------------------
(* The inductive invariant, for any number of processes                     *)

\* A process that is writing has an entry of its own configuration, with a
\* hash that was computed.
EntriesAtHand ==
    \A p \in Writers :
        /\ proc[p].at # "down" => proc[p].config \in Configs
        /\ proc[p].at \in Busy =>
              /\ proc[p].entry \in Entries
              /\ proc[p].entry.hash \in 1..computed
              /\ proc[p].entry.config = proc[p].config

\* Where the file is: as long as it was not rotated, the log is all there is,
\* and the head follows the first entry.
FilesInOrder ==
    /\ ~exists => log = <<>>
    /\ \A p \in Writers :
          /\ proc[p].moved => proc[p].at = "append"
          /\ proc[p].at = "append" /\ ~proc[p].moved => exists
    /\ rotations = 0 =>
          /\ old = <<>>
          /\ ~exists => head = NoHead
          /\ \A p \in Writers :
                /\ ~proc[p].moved
                /\ proc[p].at \in {"sync", "replace"} => exists

\* Every line of a file is an entry.
Whole(lines) == \A i \in 1..Len(lines) : IsEntry(lines[i])

Holds(lines, hash) == \E i \in 1..Len(lines) : IsEntry(lines[i]) /\ lines[i].hash = hash

\* Only a short write leaves a line that is no entry.
NothingTorn == "short" \notin met => Whole(old) /\ Whole(log)

\* Either some line is no entry, or all that was written is there.
NothingLost ==
    Whole(old) /\ Whole(log) =>
    /\ \A h \in kept : Holds(old, h) \/ Holds(log, h)
    /\ \A p \in Writers : proc[p].at \in {"sync", "replace"} =>
          Holds(old, proc[p].entry.hash) \/ Holds(log, proc[p].entry.hash)

\* What holds in every reachable state, however many processes write the log.
IInv == TypeOK /\ EntriesAtHand /\ FilesInOrder /\ NothingTorn /\ NothingLost

-----------------------------------------------------------------------------
(* The inductive invariant, for one process                                 *)

OneWriter == \A p, q \in Writers : p = q

Sound == met = {} \/ (met = {"kill"} /\ rotations = 0)

\* The last line of the chain, as a process or the head remembers it.
TipIs(hash, seq) ==
    IF Everything = <<>> THEN hash = Genesis /\ seq = 0
    ELSE Last(Everything).hash = hash /\ Last(Everything).seq = seq

\* What the process is about to write follows from the last line.
MemoryInOrder ==
    Sound => \A p \in Writers :
        /\ proc[p].at = "idle" => TipIs(proc[p].prev, proc[p].seq)
        /\ proc[p].at \in {"open", "append"} =>
              TipIs(proc[p].entry.prev, proc[p].entry.seq - 1)
        /\ proc[p].at = "sync" => TipIs(proc[p].entry.hash, proc[p].entry.seq)
        /\ proc[p].at = "replace" => TipIs(proc[p].prev, proc[p].seq)

\* Where a new process finds the last line: in the log, or in the head.
Recoverable ==
    /\ \A p \in Writers : proc[p].moved => ~exists
    /\ met = {} =>
          /\ exists /\ (\A p \in Writers : proc[p].at # "append") => log # <<>>
          /\ (\A p \in Writers : proc[p].at \notin {"sync", "replace"}) => TipIs(head.hash, head.seq)

ChainInv == MemoryInOrder /\ Recoverable /\ ChainSurvives

\* A config.changed came after the last scan.start, of a log that was not rotated.
Recorded ==
    \E k \in EntriesIn(log) : k > LastOf(StartsIn(log)) /\ log[k].event = "config.changed"

\* That scan.start had this configuration, or there is a change on record, or
\* none was ever.
Follows(config) ==
    LET i == LastOf(StartsIn(log)) IN i = 0 \/ log[i].config = config \/ Recorded

\* What the process remembers of the last configuration agrees with the log, and
\* a scan.start is only on its way if nothing is left to record.
ChangesInOrder ==
    rotations = 0 /\ "short" \notin met =>
    \A p \in Writers : proc[p].at # "down" =>
          /\ proc[p].last = NoConfig => StartsIn(log) = {}
          /\ proc[p].last # NoConfig => Follows(proc[p].last)
          /\ proc[p].at \in {"open", "append"} =>
                /\ proc[p].entry.event = "scan.start" => proc[p].last = proc[p].config
                /\ proc[p].then => proc[p].entry.event = "config.changed"
          /\ proc[p].at \in {"sync", "replace"} /\ proc[p].then => Recorded

ConfigInv == ChangesInOrder /\ ConfigChangesAreLogged
-----------------------------------------------------------------------------
(* Lines and files                                                          *)

\* An entry is told from a line that is none by its fields.
LEMMA EntryIsEntry == \A line \in Line : IsEntry(line) <=> line \in Entries
<1>1. \A line \in Entries : "hash" \in DOMAIN line
  BY DEF Entries
<1>2. "hash" \notin DOMAIN Torn /\ "hash" \notin DOMAIN Garbled
  BY DEF Torn, Garbled
<1> QED BY <1>1, <1>2 DEF Line, IsEntry

\* A file stays whole only as long as entries are added to whole files, and
\* then they are appended.
LEMMA AddLineProperties ==
    ASSUME NEW lines \in Seq(Line), NEW line \in Line
    PROVE  /\ AddLine(lines, line) \in Seq(Line)
           /\ Whole(AddLine(lines, line)) <=> Whole(lines) /\ IsEntry(line)
           /\ Whole(lines) => AddLine(lines, line) = Append(lines, line)
<1>1. CASE lines # <<>> /\ Last(lines) = Torn
  <2> DEFINE n == Len(lines)
             new == IF line = Torn THEN Torn ELSE Garbled
  <2>1. n \in 1..Len(lines) /\ lines[n] = Torn
    <3>1. n \in Nat /\ n # 0
      BY <1>1, EmptySeq, LenProperties
    <3> QED BY <1>1, <3>1 DEF Last
  <2>2. ~Whole(lines)
    BY <2>1 DEF Whole, IsEntry
  <2>3. AddLine(lines, line) = [lines EXCEPT ![n] = new]
    BY <1>1 DEF AddLine
  <2>4. new \in Line /\ ~IsEntry(new)
    BY DEF Line, IsEntry
  <2> HIDE DEF new
  <2>5. /\ [lines EXCEPT ![n] = new] \in Seq(Line)
        /\ Len([lines EXCEPT ![n] = new]) = Len(lines)
        /\ [lines EXCEPT ![n] = new][n] = new
    BY <2>1, <2>4, ExceptSeq
  <2>6. ~Whole([lines EXCEPT ![n] = new])
    BY <2>1, <2>4, <2>5 DEF Whole
  <2> QED BY <2>2, <2>3, <2>5, <2>6
<1>2. CASE ~(lines # <<>> /\ Last(lines) = Torn)
  <2>1. AddLine(lines, line) = Append(lines, line)
    BY <1>2 DEF AddLine
  <2>2. /\ Append(lines, line) \in Seq(Line)
        /\ Len(Append(lines, line)) = Len(lines) + 1
        /\ \A i \in 1..Len(lines) : Append(lines, line)[i] = lines[i]
        /\ Append(lines, line)[Len(lines) + 1] = line
    BY AppendProperties
  <2>3. Len(lines) \in Nat
    BY LenProperties
  <2>4. Whole(Append(lines, line)) <=> Whole(lines) /\ IsEntry(line)
    BY <2>2, <2>3 DEF Whole
  <2> QED BY <2>1, <2>2, <2>4
<1> QED BY <1>1, <1>2

\* What a file holds after a line was added.
LEMMA AddLineHolds ==
    ASSUME NEW lines \in Seq(Line), NEW line \in Line, Whole(AddLine(lines, line))
    PROVE  /\ \A h : Holds(lines, h) => Holds(AddLine(lines, line), h)
           /\ Holds(AddLine(lines, line), line.hash)
<1>1. Whole(lines) /\ IsEntry(line) /\ AddLine(lines, line) = Append(lines, line)
  BY AddLineProperties
<1>2. /\ Len(Append(lines, line)) = Len(lines) + 1
      /\ \A i \in 1..Len(lines) : Append(lines, line)[i] = lines[i]
      /\ Append(lines, line)[Len(lines) + 1] = line
  BY AppendProperties
<1>3. Len(lines) \in Nat
  BY LenProperties
<1> QED BY <1>1, <1>2, <1>3 DEF Holds

\* What two files hold, one after the other.
LEMMA ConcatHolds ==
    ASSUME NEW s \in Seq(Line), NEW t \in Seq(Line)
    PROVE  /\ Whole(s \o t) <=> Whole(s) /\ Whole(t)
           /\ \A h : Holds(s \o t, h) <=> Holds(s, h) \/ Holds(t, h)
<1>1. /\ Len(s \o t) = Len(s) + Len(t)
      /\ \A i \in 1..Len(s) + Len(t) :
            (s \o t)[i] = IF i <= Len(s) THEN s[i] ELSE t[i - Len(s)]
  BY ConcatProperties
<1>2. Len(s) \in Nat /\ Len(t) \in Nat
  BY LenProperties
<1>3. \A i \in 1..Len(s) : i \in 1..Len(s \o t) /\ (s \o t)[i] = s[i]
  BY <1>1, <1>2
<1>4. \A i \in 1..Len(t) : Len(s) + i \in 1..Len(s \o t) /\ (s \o t)[Len(s) + i] = t[i]
  BY <1>1, <1>2
<1>5. \A i \in 1..Len(s \o t) :
         \/ i \in 1..Len(s) /\ (s \o t)[i] = s[i]
         \/ i - Len(s) \in 1..Len(t) /\ (s \o t)[i] = t[i - Len(s)]
  BY <1>1, <1>2
<1>6. Whole(s \o t) <=> Whole(s) /\ Whole(t)
  BY <1>3, <1>4, <1>5 DEF Whole
<1>7. \A h : Holds(s \o t, h) <=> Holds(s, h) \/ Holds(t, h)
  BY <1>3, <1>4, <1>5 DEF Holds
<1> QED BY <1>6, <1>7

\* Max is the greatest of a set of naturals that is bounded.
LEMMA MaxOfBounded ==
    ASSUME NEW S \in SUBSET Nat, S # {}, NEW n \in Nat, \A x \in S : x <= n
    PROVE  Max(S) \in S /\ \A x \in S : x <= Max(S)
<1> DEFINE D == {n - x : x \in S}
           Less == OpToRel(<, Nat)
<1>1. D \subseteq Nat /\ D # {}
  <2>1. PICK x \in S : TRUE
    OBVIOUS
  <2>2. n - x \in D
    OBVIOUS
  <2>3. \A y \in S : n - y \in Nat
    OBVIOUS
  <2> QED BY <2>2, <2>3
<1>2. IsWellFoundedOn(Less, Nat)
  BY NatLessThanWellFounded
<1>3. PICK d \in D : \A e \in D : ~(<<e, d>> \in Less)
  <2> HIDE DEF D, Less
  <2> QED BY <1>1, <1>2, WFMin
<1>4. \A e \in D : ~(e < d)
  <2>1. \A e \in D : e < d => <<e, d>> \in Less
    BY <1>1 DEF OpToRel
  <2> QED BY <1>3, <2>1
<1>5. PICK m \in S : d = n - m
  OBVIOUS
<1>6. \A x \in S : m >= x
  <2> TAKE x \in S
  <2>1. n - x \in D
    OBVIOUS
  <2>2. ~(n - x < n - m)
    BY <1>4, <1>5, <2>1
  <2>3. n \in Nat /\ m \in Nat /\ x \in Nat
    OBVIOUS
  <2> HIDE DEF D, Less
  <2> QED BY <2>2, <2>3
<1>7. Max(S) \in S /\ \A x \in S : Max(S) >= x
  BY <1>5, <1>6 DEF Max
<1>8. Max(S) \in Nat
  BY <1>7
<1> HIDE DEF D, Less
<1> QED BY <1>7, <1>8

\* The last of some places: one behind which there is none, 0 if there are none.
LEMMA LastOfProperties ==
    ASSUME NEW n \in Nat, NEW S \in SUBSET (1..n)
    PROVE  /\ LastOf(S) = 0 <=> S = {}
           /\ S # {} => LastOf(S) \in S
           /\ \A i \in S : i <= LastOf(S)
           /\ \A m \in S : (\A i \in S : i <= m) => LastOf(S) = m
<1> DEFINE T == {0} \union S
<1>1. T \in SUBSET Nat /\ T # {} /\ \A i \in T : i <= n
  OBVIOUS
<1>2. \A i \in S : i \in Nat /\ i >= 1 /\ i \in T
  OBVIOUS
<1>3. \A i \in T : i = 0 \/ i \in S
  OBVIOUS
<1>4. LastOf(S) = Max(T)
  BY DEF LastOf
<1> HIDE DEF T
<1>5. LastOf(S) \in T /\ \A i \in T : i <= LastOf(S)
  BY <1>1, <1>4, MaxOfBounded
<1>6. LastOf(S) \in Nat /\ \A i \in S : i <= LastOf(S)
  BY <1>1, <1>2, <1>5
<1>7. LastOf(S) = 0 \/ LastOf(S) \in S
  BY <1>3, <1>5
<1>8. ASSUME NEW m \in S, \A i \in S : i <= m PROVE LastOf(S) = m
  BY <1>2, <1>6, <1>7, <1>8
<1>9. S # {} => LastOf(S) # 0
  <2> SUFFICES ASSUME NEW i \in S PROVE LastOf(S) # 0
    OBVIOUS
  <2> QED BY <1>2, <1>6
<1>10. LastOf(S) # 0 => S # {}
  BY <1>7
<1> QED BY <1>6, <1>7, <1>8, <1>9, <1>10

-----------------------------------------------------------------------------
(* The invariant is inductive                                               *)

\* What a write to the file that was opened does to the two files.
LEMMA Appended ==
    ASSUME TypeOK, NEW p \in Writers, NEW line \in Line, AppendLine(p, line)
    PROVE  /\ old' \in Seq(Line) /\ log' \in Seq(Line)
           /\ Whole(old') /\ Whole(log') <=> Whole(old) /\ Whole(log) /\ IsEntry(line)
           /\ Whole(old') /\ Whole(log') =>
                 /\ \A h : Holds(old, h) \/ Holds(log, h) => Holds(old', h) \/ Holds(log', h)
                 /\ Holds(old', line.hash) \/ Holds(log', line.hash)
<1>1. old \in Seq(Line) /\ log \in Seq(Line)
  BY DEF TypeOK
<1>2. CASE proc[p].moved
  <2>1. old' = AddLine(old, line) /\ log' = log
    BY <1>2 DEF AppendLine
  <2> QED BY <1>1, <2>1, AddLineProperties, AddLineHolds
<1>3. CASE ~proc[p].moved
  <2>1. log' = AddLine(log, line) /\ old' = old
    BY <1>3 DEF AppendLine
  <2> QED BY <1>1, <2>1, AddLineProperties, AddLineHolds
<1> QED BY <1>2, <1>3

\* Every step keeps the inductive invariant.
LEMMA Step == IInv /\ [Next]_vars => IInv'
<1> SUFFICES ASSUME IInv, [Next]_vars PROVE IInv'
  OBVIOUS
<1>0. /\ TypeOK /\ EntriesAtHand /\ FilesInOrder /\ NothingTorn /\ NothingLost
  BY DEF IInv
<1> USE <1>0 DEF history, Busy
<1>1. ASSUME NEW p \in Writers, Boot(p) PROVE IInv'
  <2>1. proc \in [Writers -> Proc] /\ proc[p] \in Proc
    BY DEF TypeOK, Proc
  <2>2. Remembered.prev \in 0..MaxEntries /\ Remembered.seq \in Nat
        /\ Remembered.last \in Configs \union {NoConfig}
    <3>1. CASE exists
      <4>1. Len(log) \in Nat /\ \A i \in 1..Len(log) : log[i] \in Line
        BY LenProperties, ElementOfSeq DEF TypeOK
      <4> DEFINE i == LastOf(EntriesIn(log))
                 j == LastOf(StartsIn(log))
      <4>2. /\ i # 0 => i \in EntriesIn(log)
            /\ j # 0 => j \in StartsIn(log)
        BY <4>1, LastOfProperties DEF EntriesIn, StartsIn
      <4>3. /\ i # 0 => log[i] \in Entries
            /\ j # 0 => log[j] \in Entries
        BY <4>1, <4>2, EntryIsEntry DEF EntriesIn, StartsIn
      <4> HIDE DEF i, j
      <4>4. /\ Remembered.prev = IF i = 0 THEN Genesis ELSE log[i].hash
            /\ Remembered.seq = IF i = 0 THEN 0 ELSE log[i].seq
            /\ Remembered.last = IF j = 0 THEN NoConfig ELSE log[j].config
        BY <3>1 DEF Remembered, LastConfig, ConfigAt, i, j
      <4> QED BY <4>3, <4>4 DEF Entries, Genesis
    <3>2. CASE ~exists
      BY <3>2 DEF Remembered, TypeOK
    <3> QED BY <3>1, <3>2
  <2>3. proc'[p] \in Proc
    <3>1. Down \in Proc
      BY DEF Down, Proc, Genesis
    <3>2. PICK c \in Configs :
             proc' = [proc EXCEPT ![p] =
                         [Down EXCEPT !.at = "idle", !.config = c,
                                      !.prev = Remembered.prev, !.seq = Remembered.seq,
                                      !.last = Remembered.last]]
      BY <1>1 DEF Boot
    <3> QED BY <2>2, <2>1, <3>1, <3>2 DEF Proc
  <2>4. \A q \in Writers \ {p} : proc'[q] = proc[q]
    BY <1>1, <2>2 DEF Boot, Down, TypeOK
  <2>5. proc'[p].at = "idle" /\ proc'[p].config \in Configs /\ proc'[p].moved = FALSE
    BY <1>1, <2>1, <2>2 DEF Boot, Down, Proc, TypeOK
  <2>6. proc' \in [Writers -> Proc]
    BY <1>1, <2>3, <2>4, <2>2 DEF Boot, Down, TypeOK, Proc
  <2>7. \A q \in Writers : proc'[q].at = "down" => proc'[q] = Down
    BY <2>4, <2>5 DEF TypeOK
  <2>8. /\ computed' \in 0..MaxEntries /\ rotations' \in 0..MaxRotations
        /\ kept' \subseteq 1..computed' /\ met' \subseteq Failures
    BY <1>1 DEF Boot, TypeOK, EntriesAtHand
  <2>9. head' \in [seq: Nat, hash: 0..MaxEntries, last: Configs \union {NoConfig}]
    BY <1>1 DEF Boot, TypeOK, Proc
  <2>10. log' \in Seq(Line) /\ old' \in Seq(Line) /\ exists' \in BOOLEAN
    BY <1>1 DEF Boot, TypeOK
  <2>11. TypeOK'
    BY <2>6, <2>7, <2>8, <2>9, <2>10 DEF TypeOK, Proc
  <2>12. EntriesAtHand'
    BY <1>1, <2>4, <2>5 DEF Boot, EntriesAtHand, TypeOK
  <2>13. FilesInOrder'
    BY <1>1, <2>4, <2>5 DEF Boot, FilesInOrder, TypeOK
  <2>14. NothingTorn'
    BY <1>1 DEF Boot, NothingTorn
  <2>15. NothingLost'
    BY <1>1, <2>4, <2>5 DEF Boot, NothingLost, TypeOK, EntriesAtHand
  <2> QED BY <2>11, <2>12, <2>13, <2>14, <2>15 DEF IInv
<1>2. ASSUME NEW p \in Writers, Stop(p) PROVE IInv'
  <2>1. proc \in [Writers -> Proc] /\ proc[p] \in Proc
    BY DEF TypeOK, Proc
  <2>2. proc'[p] \in Proc
    BY <1>2, <2>1 DEF Stop, Proc, Down, Genesis
  <2>3. \A q \in Writers \ {p} : proc'[q] = proc[q]
    BY <1>2 DEF Stop, Down, TypeOK
  <2>4. proc'[p] = Down
    BY <1>2, <2>1 DEF Stop, Down, Proc, TypeOK
  <2>5. proc' \in [Writers -> Proc]
    BY <1>2, <2>2, <2>3 DEF Stop, Down, TypeOK, Proc
  <2>6. \A q \in Writers : proc'[q].at = "down" => proc'[q] = Down
    BY <2>3, <2>4 DEF TypeOK
  <2>7. /\ computed' \in 0..MaxEntries /\ rotations' \in 0..MaxRotations
        /\ kept' \subseteq 1..computed' /\ met' \subseteq Failures
    BY <1>2 DEF Stop, Down, TypeOK, EntriesAtHand
  <2>8. head' \in [seq: Nat, hash: 0..MaxEntries, last: Configs \union {NoConfig}]
    BY <1>2 DEF Stop, Down, TypeOK, Proc
  <2>9. log' \in Seq(Line) /\ old' \in Seq(Line) /\ exists' \in BOOLEAN
    BY <1>2 DEF Stop, Down, TypeOK
  <2>10. TypeOK'
    BY <2>5, <2>6, <2>7, <2>8, <2>9 DEF TypeOK, Proc
  <2>11. EntriesAtHand'
    BY <1>2, <2>3, <2>4 DEF Stop, Down, EntriesAtHand, TypeOK
  <2>12. FilesInOrder'
    BY <1>2, <2>3, <2>4 DEF Stop, Down, FilesInOrder, TypeOK
  <2>13. NothingTorn'
    BY <1>2 DEF Stop, NothingTorn, Down
  <2>14. NothingLost'
    BY <1>2, <2>3, <2>4 DEF Stop, Down, NothingLost, TypeOK, EntriesAtHand
  <2> QED BY <2>10, <2>11, <2>12, <2>13, <2>14 DEF IInv
<1>3. ASSUME NEW p \in Writers, Crash(p) PROVE IInv'
  <2>1. proc \in [Writers -> Proc] /\ proc[p] \in Proc
    BY DEF TypeOK, Proc
  <2>2. proc'[p] \in Proc
    BY <1>3, <2>1 DEF Crash, Proc, Down, Genesis
  <2>3. \A q \in Writers \ {p} : proc'[q] = proc[q]
    BY <1>3 DEF Crash, Meet, Down, TypeOK
  <2>4. proc'[p] = Down
    BY <1>3, <2>1 DEF Crash, Meet, Down, Proc, TypeOK
  <2>5. proc' \in [Writers -> Proc]
    BY <1>3, <2>2, <2>3 DEF Crash, Meet, Down, TypeOK, Proc
  <2>6. \A q \in Writers : proc'[q].at = "down" => proc'[q] = Down
    BY <2>3, <2>4 DEF TypeOK
  <2>7. /\ computed' \in 0..MaxEntries /\ rotations' \in 0..MaxRotations
        /\ kept' \subseteq 1..computed' /\ met' \subseteq Failures
    BY <1>3 DEF Crash, Meet, Down, TypeOK, EntriesAtHand
  <2>8. head' \in [seq: Nat, hash: 0..MaxEntries, last: Configs \union {NoConfig}]
    BY <1>3 DEF Crash, Meet, Down, TypeOK, Proc
  <2>9. log' \in Seq(Line) /\ old' \in Seq(Line) /\ exists' \in BOOLEAN
    BY <1>3 DEF Crash, Meet, Down, TypeOK
  <2>10. TypeOK'
    BY <2>5, <2>6, <2>7, <2>8, <2>9 DEF TypeOK, Proc
  <2>11. EntriesAtHand'
    BY <1>3, <2>3, <2>4 DEF Crash, Meet, Down, EntriesAtHand, TypeOK
  <2>12. FilesInOrder'
    BY <1>3, <2>3, <2>4 DEF Crash, Meet, Down, FilesInOrder, TypeOK
  <2>13. NothingTorn'
    BY <1>3 DEF Crash, NothingTorn, Meet, Down
  <2>14. NothingLost'
    BY <1>3, <2>3, <2>4 DEF Crash, Meet, Down, NothingLost, TypeOK, EntriesAtHand
  <2> QED BY <2>10, <2>11, <2>12, <2>13, <2>14 DEF IInv
<1>4. ASSUME NEW p \in Writers, ScanStarted(p) PROVE IInv'
  <2>1. proc \in [Writers -> Proc] /\ proc[p] \in Proc
    BY DEF TypeOK, Proc
  <2>2. PICK event \in Events, then \in BOOLEAN : Compute(p, event, then)
    BY <1>4 DEF ScanStarted, Events
  <2>3. /\ computed' = computed + 1 /\ computed' \in 1..MaxEntries
        /\ proc[p].at = "idle" /\ proc[p].config \in Configs
    BY <1>4, <2>2 DEF Compute, TypeOK, EntriesAtHand, ScanStarted
  <2>4. [hash |-> computed', seq |-> proc[p].seq + 1, prev |-> proc[p].prev,
         event |-> event, config |-> proc[p].config] \in Entries
    BY <2>3, <2>1 DEF Entries, Proc
  <2>5. proc' = [proc EXCEPT
                 ![p].at = "open",
                 ![p].entry = [hash |-> computed', seq |-> proc[p].seq + 1,
                               prev |-> proc[p].prev, event |-> event,
                               config |-> proc[p].config],
                 ![p].then = then,
                 ![p].last = IF event = "scan.start" THEN proc[p].config ELSE @]
    BY <2>3, <2>2 DEF Compute
  <2>6. proc'[p] \in Proc
    BY <1>4, <2>1, <2>5, <2>4, <2>3, <2>2 DEF Proc
  <2>7. \A q \in Writers \ {p} : proc'[q] = proc[q]
    BY <1>4, <2>5, <2>4, <2>3, <2>2 DEF TypeOK
  <2>8. proc'[p].at = "open" /\ proc'[p].entry \in Entries /\ proc'[p].entry.hash = computed'
       /\ proc'[p].config = proc[p].config /\ proc'[p].moved = proc[p].moved
       /\ proc'[p].entry.config = proc[p].config
    BY <1>4, <2>1, <2>5, <2>4, <2>3, <2>2 DEF Proc, TypeOK
  <2>9. proc' \in [Writers -> Proc]
    BY <1>4, <2>6, <2>7, <2>5, <2>4, <2>3, <2>2 DEF TypeOK, Proc
  <2>10. \A q \in Writers : proc'[q].at = "down" => proc'[q] = Down
    BY <2>7, <2>8 DEF TypeOK
  <2>11. /\ UNCHANGED <<log, exists, old, head, rotations, kept, met>>
         /\ proc[p].at = "idle"
    BY <1>4, <2>2 DEF ScanStarted, Compute
  <2>12. TypeOK'
    BY <2>3, <2>9, <2>10, <2>11 DEF TypeOK, Proc
  <2>13. EntriesAtHand'
    BY <2>3, <2>7, <2>8, <2>11 DEF EntriesAtHand, TypeOK
  <2>14. FilesInOrder'
    <3>1. ~proc'[p].moved /\ proc'[p].at = "open"
      BY <2>8, <2>11 DEF FilesInOrder
    <3> QED BY <2>7, <2>11, <3>1 DEF FilesInOrder
  <2>15. NothingTorn'
    BY <2>11 DEF NothingTorn
  <2>16. NothingLost'
    BY <2>7, <2>8, <2>11 DEF NothingLost
  <2> QED BY <2>12, <2>13, <2>14, <2>15, <2>16 DEF IInv
<1>5. ASSUME NEW p \in Writers, OtherEvent(p) PROVE IInv'
  <2>1. proc \in [Writers -> Proc] /\ proc[p] \in Proc
    BY DEF TypeOK, Proc
  <2>2. PICK event \in Events, then \in BOOLEAN : Compute(p, event, then)
    BY <1>5 DEF OtherEvent, Events
  <2>3. /\ computed' = computed + 1 /\ computed' \in 1..MaxEntries
        /\ proc[p].at = "idle" /\ proc[p].config \in Configs
    BY <1>5, <2>2 DEF Compute, TypeOK, EntriesAtHand, OtherEvent
  <2>4. [hash |-> computed', seq |-> proc[p].seq + 1, prev |-> proc[p].prev,
         event |-> event, config |-> proc[p].config] \in Entries
    BY <2>3, <2>1 DEF Entries, Proc
  <2>5. proc' = [proc EXCEPT
                 ![p].at = "open",
                 ![p].entry = [hash |-> computed', seq |-> proc[p].seq + 1,
                               prev |-> proc[p].prev, event |-> event,
                               config |-> proc[p].config],
                 ![p].then = then,
                 ![p].last = IF event = "scan.start" THEN proc[p].config ELSE @]
    BY <2>3, <2>2 DEF Compute
  <2>6. proc'[p] \in Proc
    BY <1>5, <2>1, <2>5, <2>4, <2>3, <2>2 DEF Proc
  <2>7. \A q \in Writers \ {p} : proc'[q] = proc[q]
    BY <1>5, <2>5, <2>4, <2>3, <2>2 DEF TypeOK
  <2>8. proc'[p].at = "open" /\ proc'[p].entry \in Entries /\ proc'[p].entry.hash = computed'
       /\ proc'[p].config = proc[p].config /\ proc'[p].moved = proc[p].moved
       /\ proc'[p].entry.config = proc[p].config
    BY <1>5, <2>1, <2>5, <2>4, <2>3, <2>2 DEF Proc, TypeOK
  <2>9. proc' \in [Writers -> Proc]
    BY <1>5, <2>6, <2>7, <2>5, <2>4, <2>3, <2>2 DEF TypeOK, Proc
  <2>10. \A q \in Writers : proc'[q].at = "down" => proc'[q] = Down
    BY <2>7, <2>8 DEF TypeOK
  <2>11. /\ UNCHANGED <<log, exists, old, head, rotations, kept, met>>
         /\ proc[p].at = "idle"
    BY <1>5, <2>2 DEF OtherEvent, Compute
  <2>12. TypeOK'
    BY <2>3, <2>9, <2>10, <2>11 DEF TypeOK, Proc
  <2>13. EntriesAtHand'
    BY <2>3, <2>7, <2>8, <2>11 DEF EntriesAtHand, TypeOK
  <2>14. FilesInOrder'
    <3>1. ~proc'[p].moved /\ proc'[p].at = "open"
      BY <2>8, <2>11 DEF FilesInOrder
    <3> QED BY <2>7, <2>11, <3>1 DEF FilesInOrder
  <2>15. NothingTorn'
    BY <2>11 DEF NothingTorn
  <2>16. NothingLost'
    BY <2>7, <2>8, <2>11 DEF NothingLost
  <2> QED BY <2>12, <2>13, <2>14, <2>15, <2>16 DEF IInv
<1>6. ASSUME NEW p \in Writers, Open(p) PROVE IInv'
  <2>1. proc \in [Writers -> Proc] /\ proc[p] \in Proc
    BY DEF TypeOK, Proc
  <2>2. proc'[p] \in Proc
    BY <1>6, <2>1 DEF Open, Proc
  <2>3. \A q \in Writers \ {p} : proc'[q] = proc[q]
    BY <1>6 DEF Open, TypeOK
  <2>4. proc'[p].at = "append" /\ proc'[p].moved = FALSE /\ proc'[p].config = proc[p].config
       /\ proc'[p].entry = proc[p].entry
    BY <1>6, <2>1 DEF Open, Proc, TypeOK
  <2>5. proc' \in [Writers -> Proc]
    BY <1>6, <2>2, <2>3 DEF Open, TypeOK, Proc
  <2>6. \A q \in Writers : proc'[q].at = "down" => proc'[q] = Down
    BY <2>3, <2>4 DEF TypeOK
  <2>7. /\ computed' \in 0..MaxEntries /\ rotations' \in 0..MaxRotations
        /\ kept' \subseteq 1..computed' /\ met' \subseteq Failures
    BY <1>6 DEF Open, TypeOK, EntriesAtHand
  <2>8. head' \in [seq: Nat, hash: 0..MaxEntries, last: Configs \union {NoConfig}]
    BY <1>6 DEF Open, TypeOK, Proc
  <2>9. log' \in Seq(Line) /\ old' \in Seq(Line) /\ exists' \in BOOLEAN
    BY <1>6 DEF Open, TypeOK
  <2>10. TypeOK'
    BY <2>5, <2>6, <2>7, <2>8, <2>9 DEF TypeOK, Proc
  <2>11. EntriesAtHand'
    BY <1>6, <2>3, <2>4 DEF Open, EntriesAtHand, TypeOK
  <2>12. FilesInOrder'
    BY <1>6, <2>3, <2>4 DEF Open, FilesInOrder, TypeOK
  <2>13. NothingTorn'
    BY <1>6 DEF Open, NothingTorn
  <2>14. NothingLost'
    BY <1>6, <2>3, <2>4 DEF Open, NothingLost, TypeOK, EntriesAtHand
  <2> QED BY <2>10, <2>11, <2>12, <2>13, <2>14 DEF IInv
<1>7. ASSUME NEW p \in Writers, Write(p) PROVE IInv'
  <2>1. proc[p].entry \in Line
    BY <1>7 DEF Write, EntriesAtHand, Busy, Line
  <2>2. /\ old' \in Seq(Line) /\ log' \in Seq(Line)
        /\ Whole(old') /\ Whole(log') <=> Whole(old) /\ Whole(log) /\ IsEntry(proc[p].entry)
        /\ Whole(old') /\ Whole(log') =>
              /\ \A h : Holds(old, h) \/ Holds(log, h) => Holds(old', h) \/ Holds(log', h)
              /\ Holds(old', proc[p].entry.hash) \/ Holds(log', proc[p].entry.hash)
    BY <1>7, <2>1, Appended DEF Write
  <2>3. proc \in [Writers -> Proc] /\ proc[p] \in Proc
    BY DEF TypeOK, Proc
  <2>4. proc'[p] \in Proc
    BY <1>7, <2>3 DEF Write, AppendLine, Proc
  <2>5. \A q \in Writers \ {p} : proc'[q] = proc[q]
    BY <1>7 DEF Write, AppendLine, TypeOK
  <2>6. proc'[p].at = "sync" /\ proc'[p].moved = FALSE /\ proc'[p].config = proc[p].config
       /\ proc'[p].entry = proc[p].entry
    BY <1>7, <2>3 DEF Write, AppendLine, Proc, TypeOK
  <2>7. proc' \in [Writers -> Proc]
    BY <1>7, <2>4, <2>5 DEF Write, AppendLine, TypeOK, Proc
  <2>8. \A q \in Writers : proc'[q].at = "down" => proc'[q] = Down
    BY <2>5, <2>6 DEF TypeOK
  <2>9. /\ computed' \in 0..MaxEntries /\ rotations' \in 0..MaxRotations
        /\ kept' \subseteq 1..computed' /\ met' \subseteq Failures
    BY <1>7 DEF Write, AppendLine, TypeOK, EntriesAtHand
  <2>10. head' \in [seq: Nat, hash: 0..MaxEntries, last: Configs \union {NoConfig}]
    BY <1>7 DEF Write, AppendLine, TypeOK, Proc
  <2>11. log' \in Seq(Line) /\ old' \in Seq(Line) /\ exists' \in BOOLEAN
    BY <1>7, <2>2 DEF Write, AppendLine, TypeOK
  <2>12. TypeOK'
    BY <2>7, <2>8, <2>9, <2>10, <2>11 DEF TypeOK, Proc
  <2>13. EntriesAtHand'
    BY <1>7, <2>1, <2>2, <2>5, <2>6 DEF Write, AppendLine, EntriesAtHand, TypeOK
  <2>14. FilesInOrder'
    BY <1>7, <2>5, <2>6 DEF Write, AppendLine, FilesInOrder, TypeOK
  <2>15. NothingTorn'
    BY <1>7, <2>1, <2>2, EntryIsEntry DEF Write, NothingTorn, EntriesAtHand
  <2>16. NothingLost'
    BY <1>7, <2>1, <2>2, <2>5, <2>6 DEF Write, AppendLine, NothingLost, TypeOK,
       EntriesAtHand
  <2> QED BY <2>12, <2>13, <2>14, <2>15, <2>16 DEF IInv
<1>8. ASSUME NEW p \in Writers, WriteShort(p) PROVE IInv'
  <2>1. Torn \in Line
    BY <1>8 DEF WriteShort, Line
  <2>2. /\ old' \in Seq(Line) /\ log' \in Seq(Line)
        /\ Whole(old') /\ Whole(log') <=> Whole(old) /\ Whole(log) /\ IsEntry(Torn)
        /\ Whole(old') /\ Whole(log') =>
              /\ \A h : Holds(old, h) \/ Holds(log, h) => Holds(old', h) \/ Holds(log', h)
              /\ Holds(old', Torn.hash) \/ Holds(log', Torn.hash)
    BY <1>8, <2>1, Appended DEF WriteShort
  <2>3. proc \in [Writers -> Proc] /\ proc[p] \in Proc
    BY DEF TypeOK, Proc
  <2>4. proc'[p] \in Proc
    BY <1>8, <2>3 DEF WriteShort, AppendLine, Meet, Proc
  <2>5. \A q \in Writers \ {p} : proc'[q] = proc[q]
    BY <1>8 DEF WriteShort, AppendLine, Meet, TypeOK
  <2>6. proc'[p].at = "sync" /\ proc'[p].moved = FALSE /\ proc'[p].config = proc[p].config
       /\ proc'[p].entry = proc[p].entry
    BY <1>8, <2>3 DEF WriteShort, AppendLine, Meet, Proc, TypeOK
  <2>7. proc' \in [Writers -> Proc]
    BY <1>8, <2>4, <2>5 DEF WriteShort, AppendLine, Meet, TypeOK, Proc
  <2>8. \A q \in Writers : proc'[q].at = "down" => proc'[q] = Down
    BY <2>5, <2>6 DEF TypeOK
  <2>9. /\ computed' \in 0..MaxEntries /\ rotations' \in 0..MaxRotations
        /\ kept' \subseteq 1..computed' /\ met' \subseteq Failures
    BY <1>8 DEF WriteShort, AppendLine, Meet, TypeOK, EntriesAtHand
  <2>10. head' \in [seq: Nat, hash: 0..MaxEntries, last: Configs \union {NoConfig}]
    BY <1>8 DEF WriteShort, AppendLine, Meet, TypeOK, Proc
  <2>11. log' \in Seq(Line) /\ old' \in Seq(Line) /\ exists' \in BOOLEAN
    BY <1>8, <2>2 DEF WriteShort, AppendLine, Meet, TypeOK
  <2>12. TypeOK'
    BY <2>7, <2>8, <2>9, <2>10, <2>11 DEF TypeOK, Proc
  <2>13. EntriesAtHand'
    BY <1>8, <2>1, <2>2, <2>5, <2>6 DEF WriteShort, AppendLine, Meet, EntriesAtHand,
       TypeOK
  <2>14. FilesInOrder'
    BY <1>8, <2>5, <2>6 DEF WriteShort, AppendLine, Meet, FilesInOrder, TypeOK
  <2>15. NothingTorn'
    BY <1>8, <2>1, <2>2 DEF WriteShort, NothingTorn, AppendLine, Meet
  <2>16. NothingLost'
    BY <2>2 DEF NothingLost, IsEntry
  <2> QED BY <2>12, <2>13, <2>14, <2>15, <2>16 DEF IInv
<1>9. ASSUME NEW p \in Writers, Sync(p) PROVE IInv'
  <2>1. proc \in [Writers -> Proc] /\ proc[p] \in Proc
    BY DEF TypeOK, Proc
  <2>2. proc[p].entry.hash \in 0..MaxEntries /\ proc[p].entry.seq \in Nat
    BY <1>9 DEF Sync, EntriesAtHand, Entries
  <2>3. proc'[p] \in Proc
    BY <1>9, <2>1, <2>2 DEF Sync, Proc
  <2>4. \A q \in Writers \ {p} : proc'[q] = proc[q]
    BY <1>9, <2>2 DEF Sync, TypeOK
  <2>5. proc'[p].at = "replace" /\ proc'[p].moved = proc[p].moved /\ proc'[p].config = proc[p].config
       /\ proc'[p].entry = proc[p].entry
    BY <1>9, <2>1, <2>2 DEF Sync, Proc, TypeOK
  <2>6. proc' \in [Writers -> Proc]
    BY <1>9, <2>3, <2>4, <2>2 DEF Sync, TypeOK, Proc
  <2>7. \A q \in Writers : proc'[q].at = "down" => proc'[q] = Down
    BY <2>4, <2>5 DEF TypeOK
  <2>8. /\ computed' \in 0..MaxEntries /\ rotations' \in 0..MaxRotations
        /\ kept' \subseteq 1..computed' /\ met' \subseteq Failures
    BY <1>9 DEF Sync, TypeOK, EntriesAtHand
  <2>9. head' \in [seq: Nat, hash: 0..MaxEntries, last: Configs \union {NoConfig}]
    BY <1>9 DEF Sync, TypeOK, Proc
  <2>10. log' \in Seq(Line) /\ old' \in Seq(Line) /\ exists' \in BOOLEAN
    BY <1>9 DEF Sync, TypeOK
  <2>11. TypeOK'
    BY <2>6, <2>7, <2>8, <2>9, <2>10 DEF TypeOK, Proc
  <2>12. EntriesAtHand'
    BY <1>9, <2>4, <2>5 DEF Sync, EntriesAtHand, TypeOK
  <2>13. FilesInOrder'
    BY <1>9, <2>4, <2>5 DEF Sync, FilesInOrder, TypeOK
  <2>14. NothingTorn'
    BY <1>9 DEF Sync, NothingTorn
  <2>15. NothingLost'
    BY <1>9, <2>4, <2>5 DEF Sync, NothingLost, TypeOK, EntriesAtHand
  <2> QED BY <2>11, <2>12, <2>13, <2>14, <2>15 DEF IInv
<1>10. ASSUME NEW p \in Writers, ReplaceHead(p) PROVE IInv'
  <2>1. proc \in [Writers -> Proc] /\ proc[p] \in Proc
    BY DEF TypeOK, Proc
  <2>2. proc'[p] \in Proc
    BY <1>10, <2>1 DEF ReplaceHead, Proc
  <2>3. \A q \in Writers \ {p} : proc'[q] = proc[q]
    BY <1>10 DEF ReplaceHead, TypeOK
  <2>4. proc'[p].at = "idle" /\ proc'[p].config = proc[p].config /\ proc'[p].moved = proc[p].moved
    BY <1>10, <2>1 DEF ReplaceHead, Proc, TypeOK
  <2>5. proc' \in [Writers -> Proc]
    BY <1>10, <2>2, <2>3 DEF ReplaceHead, TypeOK, Proc
  <2>6. \A q \in Writers : proc'[q].at = "down" => proc'[q] = Down
    BY <2>3, <2>4 DEF TypeOK
  <2>7. /\ computed' \in 0..MaxEntries /\ rotations' \in 0..MaxRotations
        /\ kept' \subseteq 1..computed' /\ met' \subseteq Failures
    BY <1>10 DEF ReplaceHead, TypeOK, EntriesAtHand
  <2>8. head' \in [seq: Nat, hash: 0..MaxEntries, last: Configs \union {NoConfig}]
    BY <1>10 DEF ReplaceHead, TypeOK, Proc
  <2>9. log' \in Seq(Line) /\ old' \in Seq(Line) /\ exists' \in BOOLEAN
    BY <1>10 DEF ReplaceHead, TypeOK
  <2>10. TypeOK'
    BY <2>5, <2>6, <2>7, <2>8, <2>9 DEF TypeOK, Proc
  <2>11. EntriesAtHand'
    BY <1>10, <2>3, <2>4 DEF ReplaceHead, EntriesAtHand, TypeOK
  <2>12. FilesInOrder'
    BY <1>10, <2>3, <2>4 DEF ReplaceHead, FilesInOrder, TypeOK
  <2>13. NothingTorn'
    BY <1>10 DEF ReplaceHead, NothingTorn
  <2>14. NothingLost'
    <3>1. proc[p].at = "replace" /\ kept' = kept \union {proc[p].entry.hash}
      BY <1>10 DEF ReplaceHead
    <3>2. UNCHANGED <<old, log>>
      BY <1>10 DEF ReplaceHead
    <3> QED BY <2>3, <2>4, <3>1, <3>2 DEF NothingLost
  <2> QED BY <2>10, <2>11, <2>12, <2>13, <2>14 DEF IInv
<1>11. ASSUME NEW p \in Writers, Fail(p) PROVE IInv'
  <2>1. proc \in [Writers -> Proc] /\ proc[p] \in Proc
    BY DEF TypeOK, Proc
  <2>2. proc'[p] \in Proc
    BY <1>11, <2>1 DEF Fail, Meet, Proc
  <2>3. \A q \in Writers \ {p} : proc'[q] = proc[q]
    BY <1>11 DEF Fail, Meet, TypeOK
  <2>4. proc'[p].at = "idle" /\ proc'[p].config = proc[p].config /\ proc'[p].moved = FALSE
    BY <1>11, <2>1 DEF Fail, Meet, Proc, TypeOK
  <2>5. proc' \in [Writers -> Proc]
    BY <1>11, <2>2, <2>3 DEF Fail, Meet, TypeOK, Proc
  <2>6. \A q \in Writers : proc'[q].at = "down" => proc'[q] = Down
    BY <2>3, <2>4 DEF TypeOK
  <2>7. /\ computed' \in 0..MaxEntries /\ rotations' \in 0..MaxRotations
        /\ kept' \subseteq 1..computed' /\ met' \subseteq Failures
    BY <1>11 DEF Fail, Meet, TypeOK, EntriesAtHand
  <2>8. head' \in [seq: Nat, hash: 0..MaxEntries, last: Configs \union {NoConfig}]
    BY <1>11 DEF Fail, Meet, TypeOK, Proc
  <2>9. log' \in Seq(Line) /\ old' \in Seq(Line) /\ exists' \in BOOLEAN
    BY <1>11 DEF Fail, Meet, TypeOK
  <2>10. TypeOK'
    BY <2>5, <2>6, <2>7, <2>8, <2>9 DEF TypeOK, Proc
  <2>11. EntriesAtHand'
    BY <1>11, <2>3, <2>4 DEF Fail, Meet, EntriesAtHand, TypeOK
  <2>12. FilesInOrder'
    BY <1>11, <2>3, <2>4 DEF Fail, Meet, FilesInOrder, TypeOK
  <2>13. NothingTorn'
    BY <1>11 DEF Fail, NothingTorn, Meet
  <2>14. NothingLost'
    BY <1>11, <2>3, <2>4 DEF Fail, Meet, NothingLost, TypeOK, EntriesAtHand
  <2> QED BY <2>10, <2>11, <2>12, <2>13, <2>14 DEF IInv
<1>12. CASE Rotate
  <2>1. \A q \in Writers :
           /\ proc'[q] \in Proc
           /\ proc'[q].at = proc[q].at /\ proc'[q].entry = proc[q].entry
           /\ proc'[q].config = proc[q].config
           /\ proc'[q].moved = (proc[q].at = "append")
           /\ proc[q].at # "append" => proc'[q] = proc[q]
    <3> SUFFICES ASSUME NEW q \in Writers
                 PROVE  /\ proc'[q] \in Proc
                        /\ proc'[q].at = proc[q].at /\ proc'[q].entry = proc[q].entry
                        /\ proc'[q].config = proc[q].config
                        /\ proc'[q].moved = (proc[q].at = "append")
                        /\ proc[q].at # "append" => proc'[q] = proc[q]
      OBVIOUS
    <3>1. proc[q] \in Proc
      BY DEF TypeOK, Proc
    <3>2. proc'[q] = IF proc[q].at = "append" THEN [proc[q] EXCEPT !.moved = TRUE] ELSE proc[q]
      BY <1>12 DEF Rotate
    <3>3. CASE proc[q].at = "append"
      BY <3>1, <3>2, <3>3 DEF Proc
    <3>4. CASE proc[q].at # "append"
      <4>1. ~proc[q].moved /\ proc[q].moved \in BOOLEAN
        BY <3>1, <3>4 DEF FilesInOrder, Proc
      <4> QED BY <3>1, <3>2, <3>4, <4>1
    <3> QED BY <3>3, <3>4
  <2>2. proc' \in [Writers -> Proc]
    BY <1>12, <2>1 DEF Rotate
  <2>3. \A q \in Writers : proc'[q].at = "down" => proc'[q] = Down
    BY <2>1 DEF TypeOK
  <2>4. /\ computed' \in 0..MaxEntries /\ rotations' \in 0..MaxRotations
        /\ kept' \subseteq 1..computed' /\ met' \subseteq Failures
    BY <1>12 DEF Rotate, TypeOK, EntriesAtHand
  <2>5. head' \in [seq: Nat, hash: 0..MaxEntries, last: Configs \union {NoConfig}]
    BY <1>12 DEF Rotate, TypeOK, Proc
  <2>6. log' \in Seq(Line) /\ old' \in Seq(Line) /\ exists' \in BOOLEAN
    BY <1>12, ConcatProperties, EmptySeq DEF Rotate, TypeOK
  <2>7. TypeOK'
    BY <2>2, <2>3, <2>4, <2>5, <2>6 DEF TypeOK, Proc
  <2>8. EntriesAtHand'
    BY <1>12, ConcatHolds, ConcatEmptySeq, <2>1 DEF Rotate, EntriesAtHand, TypeOK
  <2>9. FilesInOrder'
    BY <1>12, ConcatHolds, ConcatEmptySeq, <2>1 DEF Rotate, FilesInOrder, TypeOK
  <2>10. NothingTorn'
    <3>1. Whole(old') <=> Whole(old) /\ Whole(log)
      BY <1>12, ConcatHolds DEF Rotate, TypeOK
    <3>2. Whole(log')
      BY <1>12 DEF Rotate, Whole
    <3> QED BY <1>12, <3>1, <3>2 DEF Rotate, NothingTorn
  <2>11. NothingLost'
    BY <1>12, ConcatHolds, ConcatEmptySeq, <2>1 DEF Rotate, NothingLost, TypeOK,
       EntriesAtHand
  <2> QED BY <2>7, <2>8, <2>9, <2>10, <2>11 DEF IInv
<1>13. CASE UNCHANGED vars
  <2>1. TypeOK'
    BY <1>13 DEF vars, TypeOK, Proc, Down, EntriesAtHand
  <2>2. EntriesAtHand'
    BY <1>13 DEF vars, EntriesAtHand, TypeOK, Proc
  <2>3. FilesInOrder'
    BY <1>13 DEF vars, FilesInOrder, TypeOK, Proc, EntriesAtHand
  <2>4. NothingTorn'
    BY <1>13 DEF vars, NothingTorn
  <2>5. NothingLost'
    BY <1>13 DEF vars, NothingLost, TypeOK, Proc
  <2> QED BY <2>1, <2>2, <2>3, <2>4, <2>5 DEF IInv
<1> QED
    BY <1>1, <1>2, <1>3, <1>4, <1>5, <1>6, <1>7, <1>8, <1>9, <1>10, <1>11, <1>12, <1>13
       DEF Next

\* Every first state satisfies the inductive invariant.
LEMMA Initial == Init => IInv
<1> SUFFICES ASSUME Init PROVE IInv
  OBVIOUS
<1>1. TypeOK
  <2>1. proc \in [Writers -> Proc] /\ \A p \in Writers : proc[p] = Down
    BY DEF Init, Down, Proc, Genesis
  <2>2. head \in [seq: Nat, hash: 0..MaxEntries, last: Configs \union {NoConfig}]
    BY DEF Init, NoHead, Genesis
  <2>3. /\ log \in Seq(Line) /\ old \in Seq(Line) /\ exists \in BOOLEAN
    BY EmptySeq DEF Init
  <2>4. /\ computed \in 0..MaxEntries /\ rotations \in 0..MaxRotations
        /\ kept \subseteq 1..computed /\ met \subseteq Failures
    BY DEF Init
  <2> QED BY <2>1, <2>2, <2>3, <2>4 DEF TypeOK, Proc
<1>2. EntriesAtHand /\ FilesInOrder
  BY DEF Init, EntriesAtHand, FilesInOrder, Busy, Down
<1>3. NothingTorn /\ NothingLost
  BY DEF Init, NothingTorn, NothingLost, Whole, Down
<1> QED BY <1>1, <1>2, <1>3 DEF IInv

\* The inductive invariant holds in every reachable state, for any number of
\* processes.
THEOREM Invariance == Spec => []IInv
<1> QED BY Initial, Step, PTL DEF Spec

-----------------------------------------------------------------------------
(* What is kept                                                             *)

\* The shape of the state, for any number of processes, any configurations and
\* any failures.
THEOREM TypeCorrect == Spec => []TypeOK
<1>1. IInv => TypeOK
  BY DEF IInv
<1> QED BY <1>1, Invariance, PTL

\* What the files hold is what KeptIsLogged looks at.
LEMMA KeptIfWhole == IInv /\ Whole(Everything) => KeptIsLogged
<1> SUFFICES ASSUME IInv, Whole(Everything) PROVE KeptIsLogged
  OBVIOUS
<1>1. old \in Seq(Line) /\ log \in Seq(Line)
  BY DEF IInv, TypeOK
<1>2. Whole(old) /\ Whole(log)
  BY <1>1, ConcatHolds DEF Everything
<1>3. \A h \in kept : Holds(Everything, h)
  BY <1>1, <1>2, ConcatHolds DEF IInv, NothingLost, Everything
<1> QED BY <1>3 DEF KeptIsLogged, Holds, EntriesIn

\* KeptSurvives for any number of processes that write one log: what a write()
\* returned is in the files, unless a write was cut short.
THEOREM Kept == Spec => []KeptSurvives
<1>1. IInv => KeptSurvives
  <2> SUFFICES ASSUME IInv, "short" \notin met PROVE KeptIsLogged
    BY DEF KeptSurvives
  <2>1. Whole(old) /\ Whole(log) /\ old \in Seq(Line) /\ log \in Seq(Line)
    BY DEF IInv, NothingTorn, TypeOK
  <2> QED BY <2>1, ConcatHolds, KeptIfWhole DEF Everything
<1> QED BY <1>1, Invariance, PTL

\* LossIsNoticed for any number of processes: as long as every line follows from
\* the one before, nothing that a write() returned is missing.
THEOREM LossNoticed == Spec => []LossIsNoticed
<1>1. IInv => LossIsNoticed
  <2> SUFFICES ASSUME IInv, ChainIntact PROVE KeptIsLogged
    BY DEF LossIsNoticed
  <2>1. Whole(Everything)
    BY DEF ChainIntact, Verified, Whole
  <2> QED BY <2>1, KeptIfWhole
<1> QED BY <1>1, Invariance, PTL

-----------------------------------------------------------------------------
(* The chain, for one process                                               *)

\* A sound log holds entries only.
LEMMA SoundIsWhole == IInv /\ ChainInv /\ Sound => Whole(Everything) /\ Whole(log)
<1> SUFFICES ASSUME IInv, ChainInv, Sound PROVE Whole(Everything) /\ Whole(log)
  OBVIOUS
<1>1. Whole(Everything)
  BY DEF ChainInv, ChainSurvives, Sound, ChainIntact, Verified, Whole
<1>2. Whole(log)
  BY <1>1, ConcatHolds DEF IInv, TypeOK, Everything
<1> QED BY <1>1, <1>2

\* A new process finds the last line of a sound log: in the file, or in the head
\* if the file is gone.
LEMMA FindsTheTip ==
    ASSUME IInv, ChainInv, Sound, OneWriter, NEW p \in Writers, proc[p].at = "down"
    PROVE  TipIs(Remembered.prev, Remembered.seq)
<1>1. old \in Seq(Line) /\ log \in Seq(Line) /\ Len(log) \in Nat
  BY LenProperties DEF IInv, TypeOK
<1>2. \A q \in Writers : proc[q].at = "down"
  BY DEF OneWriter
<1>3. CASE exists
  <2> DEFINE i == LastOf(EntriesIn(log))
  <2>1. EntriesIn(log) = 1..Len(log)
    BY SoundIsWhole DEF EntriesIn, Whole
  <2>2. CASE log = <<>>
    <3>1. met # {}
      BY <1>2, <1>3, <2>2 DEF ChainInv, Recoverable
    <3>2. Everything = <<>>
      BY <2>2, <3>1, ConcatEmptySeq, EmptySeq DEF IInv, FilesInOrder, Sound, Everything
    <3>3. Len(log) = 0 /\ EntriesIn(log) = {}
      BY <2>1, <2>2
    <3>4. i = 0
      BY <1>1, <3>3, LastOfProperties
    <3> QED BY <1>3, <3>2, <3>4 DEF Remembered, TipIs
  <2>3. CASE log # <<>>
    <3>1. Len(log) >= 1
      BY <1>1, <2>3, EmptySeq
    <3>2. i = Len(log)
      <4>1. Len(log) \in 1..Len(log) /\ \A k \in 1..Len(log) : k <= Len(log)
        BY <1>1, <3>1
      <4>2. 1..Len(log) \in SUBSET (1..Len(log))
        OBVIOUS
      <4> QED BY <1>1, <2>1, <4>1, <4>2, LastOfProperties
    <3>3. Everything # <<>> /\ Last(Everything) = log[Len(log)]
      BY <1>1, <3>1, ConcatProperties DEF Everything, Last
    <3> QED BY <1>3, <3>1, <3>2, <3>3 DEF Remembered, TipIs
  <2> QED BY <2>2, <2>3
<1>4. CASE ~exists
  <2>1. CASE met = {}
    BY <1>2, <1>4, <2>1 DEF ChainInv, Recoverable, Remembered
  <2>2. CASE met # {}
    <3>1. old = <<>> /\ log = <<>> /\ head = NoHead
      BY <1>4, <2>2 DEF Sound, IInv, FilesInOrder
    <3>2. Everything = <<>>
      BY <3>1 DEF Everything
    <3> QED BY <1>4, <3>1, <3>2 DEF Remembered, NoHead, TipIs
  <2> QED BY <2>1, <2>2
<1> QED BY <1>3, <1>4

\* A write to a sound log adds its entry at the end of all that was logged.
LEMMA Grows ==
    ASSUME IInv, ChainInv, Sound, NEW p \in Writers, NEW e \in Entries,
           proc[p].at = "append", AppendLine(p, e)
    PROVE  Everything' = Append(Everything, e)
<1>1. old \in Seq(Line) /\ log \in Seq(Line) /\ e \in Line /\ <<e>> \in Seq(Line)
  BY DEF IInv, TypeOK, Line
<1>2. Whole(old) /\ Whole(log)
  BY <1>1, SoundIsWhole, ConcatHolds DEF Everything
<1>3. CASE proc[p].moved
  <2>1. log = <<>>
    BY <1>3 DEF ChainInv, Recoverable, IInv, FilesInOrder
  <2>2. old' = Append(old, e) /\ log' = <<>>
    BY <1>1, <1>2, <1>3, <2>1, AddLineProperties DEF AppendLine
  <2>3. Append(old, e) \in Seq(Line)
    BY <1>1, AppendProperties
  <2> QED BY <1>1, <2>1, <2>2, <2>3, ConcatEmptySeq DEF Everything
<1>4. CASE ~proc[p].moved
  <2>1. log' = Append(log, e) /\ old' = old
    BY <1>1, <1>2, <1>4, AddLineProperties DEF AppendLine
  <2>2. old \o (log \o <<e>>) = (old \o log) \o <<e>>
    BY <1>1, ConcatAssociative
  <2>3. Append(log, e) = log \o <<e>>
    BY <1>1, AppendIsConcat
  <2>4. old \o log \in Seq(Line)
    BY <1>1, ConcatProperties
  <2>5. Append(old \o log, e) = (old \o log) \o <<e>>
    BY <1>1, <2>4, AppendIsConcat
  <2> QED BY <2>1, <2>2, <2>3, <2>5 DEF Everything
<1> QED BY <1>3, <1>4

\* An entry that follows from the last line keeps the chain.
LEMMA ChainGrows ==
    ASSUME NEW s \in Seq(Line), NEW e \in Entries, Verified(s),
           s # <<>> => s[1].prev = Genesis /\ s[1].seq = 1,
           IF s = <<>> THEN e.prev = Genesis /\ e.seq - 1 = 0
           ELSE Last(s).hash = e.prev /\ Last(s).seq = e.seq - 1
    PROVE  /\ Verified(Append(s, e))
           /\ Append(s, e) # <<>>
           /\ Append(s, e)[1].prev = Genesis /\ Append(s, e)[1].seq = 1
           /\ Last(Append(s, e)) = e
<1> DEFINE t == Append(s, e)
           n == Len(s)
<1>1. e \in Line /\ n \in Nat /\ e.seq \in Nat
  BY LenProperties DEF Line, Entries
<1>2. /\ t # <<>> /\ Len(t) = n + 1
      /\ \A i \in 1..n : t[i] = s[i]
      /\ t[n + 1] = e
  BY <1>1, AppendProperties
<1>3. s = <<>> <=> n = 0
  BY <1>1, EmptySeq
<1> HIDE DEF t, n
<1>4. Last(t) = e
  BY <1>1, <1>2 DEF Last
<1>5. IF n = 0 THEN e.prev = Genesis /\ e.seq = 1
      ELSE s[n].hash = e.prev /\ s[n].seq + 1 = e.seq
  <2>1. CASE n = 0
    BY <1>1, <1>3, <2>1
  <2>2. CASE n # 0
    <3>1. s[n] \in Line /\ IsEntry(s[n])
      BY <1>1, <2>2, ElementOfSeq DEF Verified, n
    <3>2. s[n].seq \in Nat
      BY <3>1, EntryIsEntry DEF Entries
    <3>3. s[n].hash = e.prev /\ s[n].seq = e.seq - 1
      BY <1>3, <2>2 DEF Last, n
    <3> QED BY <1>1, <2>2, <3>2, <3>3
  <2> QED BY <2>1, <2>2
<1>6. t[1].prev = Genesis /\ t[1].seq = 1
  BY <1>1, <1>2, <1>3, <1>5
<1>7. IsEntry(e)
  BY <1>1, EntryIsEntry
<1>8. Verified(t)
  <2> SUFFICES ASSUME NEW i \in 1..(n + 1)
               PROVE  /\ IsEntry(t[i])
                      /\ i > 1 => t[i].prev = t[i - 1].hash /\ t[i].seq = t[i - 1].seq + 1
    BY <1>2 DEF Verified
  <2>1. CASE i = n + 1
    BY <1>1, <1>2, <1>5, <1>7, <2>1
  <2>2. CASE i # n + 1
    <3>1. i \in 1..n /\ (i > 1 => i - 1 \in 1..n)
      BY <1>1, <2>2
    <3> QED BY <1>2, <3>1 DEF Verified, n
  <2> QED BY <2>1, <2>2
<1> QED BY <1>2, <1>4, <1>6, <1>8 DEF t


\* What a step that logs nothing leaves of the chain.
LEMMA ChainKept ==
    ASSUME ChainInv, Everything' = Everything, Sound' => Sound
    PROVE  ChainSurvives'
BY DEF ChainInv, ChainSurvives, Sound, ChainIntact, Verified

\* A failure cannot be undone, nor can a rotation.
LEMMA SoundBefore == IInv /\ [Next]_vars /\ Sound' => Sound
<1> SUFFICES ASSUME IInv, [Next]_vars PROVE Sound' => Sound
  OBVIOUS
<1>1. met' = met \/ \E kind \in Failures : met' = met \union {kind}
  BY DEF Next, Boot, Stop, Crash, ScanStarted, OtherEvent, Compute, Open, Write, WriteShort,
     Sync, ReplaceHead, Fail, Rotate, Meet, vars, history
<1>2. rotations' = rotations \/ rotations' = rotations + 1
  BY DEF Next, Boot, Stop, Crash, ScanStarted, OtherEvent, Compute, Open, Write, WriteShort,
     Sync, ReplaceHead, Fail, Rotate, Meet, vars, history
<1>3. rotations \in Nat
  BY DEF IInv, TypeOK
<1> QED BY <1>1, <1>2, <1>3 DEF Sound

\* With one process, every step keeps the invariant of the chain.
LEMMA ChainStep ==
    ASSUME OneWriter, IInv, ChainInv, [Next]_vars
    PROVE  ChainInv'
<1>0. /\ TypeOK /\ EntriesAtHand /\ FilesInOrder
      /\ MemoryInOrder /\ Recoverable
      /\ Sound' => Sound
  BY SoundBefore DEF IInv, ChainInv
<1> USE <1>0 DEF history, Busy
<1>1. ASSUME NEW p \in Writers, Boot(p) PROVE ChainInv'
  <2>1. /\ proc[p].at = "down"
        /\ proc'[p].at = "idle" /\ proc'[p].moved = FALSE
        /\ proc'[p].prev = Remembered.prev /\ proc'[p].seq = Remembered.seq
    BY <1>1 DEF Boot, TypeOK, Down
  <2>2. /\ UNCHANGED <<log, exists, old, head, rotations, met>>
        /\ Everything' = Everything
    BY <1>1 DEF Boot, Everything
  <2>3. \A q \in Writers : q = p
    BY DEF OneWriter
  <2>4. MemoryInOrder'
    BY <2>1, <2>2, <2>3, FindsTheTip DEF MemoryInOrder, TipIs
  <2>5. Recoverable'
    BY <2>1, <2>2, <2>3 DEF Recoverable, TipIs
  <2> QED BY <2>2, <2>4, <2>5, ChainKept DEF ChainInv
<1>2. ASSUME NEW p \in Writers, Stop(p) \/ Crash(p) \/ Fail(p) PROVE ChainInv'
  <2>1. /\ proc'[p].at \in {"down", "idle"} /\ proc'[p].moved = FALSE
        /\ proc'[p].at = "idle" => "raise" \in met'
        /\ met' = met => proc[p].at \in {"idle", "append", "sync", "replace", "open"}
    BY <1>2 DEF Stop, Crash, Fail, Meet, TypeOK, Down
  <2>2. /\ UNCHANGED <<log, exists, old, head, rotations>>
        /\ Everything' = Everything
        /\ met' = met \/ met' # {}
        /\ met' = {} => proc[p].at = "idle"
    BY <1>2 DEF Stop, Crash, Fail, Meet, Everything
  <2>3. \A q \in Writers : q = p
    BY DEF OneWriter
  <2>4. MemoryInOrder'
    BY <2>1, <2>3 DEF MemoryInOrder, Sound
  <2>5. Recoverable'
    BY <2>1, <2>2, <2>3 DEF Recoverable, TipIs
  <2> QED BY <2>2, <2>4, <2>5, ChainKept DEF ChainInv
<1>3. ASSUME NEW p \in Writers, ScanStarted(p) \/ OtherEvent(p) PROVE ChainInv'
  <2>1. PICK event, then : proc[p].at = "idle" /\ Compute(p, event, then)
    BY <1>3 DEF ScanStarted, OtherEvent
  <2>2. /\ proc'[p].at = "open" /\ proc'[p].moved = proc[p].moved
        /\ proc'[p].entry.prev = proc[p].prev /\ proc'[p].entry.seq = proc[p].seq + 1
    BY <2>1 DEF Compute, TypeOK
  <2>3. /\ UNCHANGED <<log, exists, old, head, rotations, met>>
        /\ Everything' = Everything
    BY <2>1 DEF Compute, Everything
  <2>4. \A q \in Writers : q = p
    BY DEF OneWriter
  <2>5. proc[p].seq \in Nat /\ proc'[p].entry.seq - 1 = proc[p].seq
    BY <2>2 DEF TypeOK
  <2>6. MemoryInOrder'
    BY <2>1, <2>2, <2>3, <2>4, <2>5 DEF MemoryInOrder, TipIs
  <2>7. Recoverable'
    BY <2>1, <2>2, <2>3, <2>4 DEF Recoverable, TipIs, FilesInOrder
  <2> QED BY <2>3, <2>6, <2>7, ChainKept DEF ChainInv
<1>4. ASSUME NEW p \in Writers, Open(p) PROVE ChainInv'
  <2>1. /\ proc[p].at = "open"
        /\ proc'[p].at = "append" /\ proc'[p].moved = FALSE
        /\ proc'[p].entry = proc[p].entry
    BY <1>4 DEF Open, TypeOK
  <2>2. /\ UNCHANGED <<log, old, head, rotations, met>>
        /\ Everything' = Everything
    BY <1>4 DEF Open, Everything
  <2>3. \A q \in Writers : q = p
    BY DEF OneWriter
  <2>4. MemoryInOrder'
    BY <2>1, <2>2, <2>3 DEF MemoryInOrder, TipIs
  <2>5. Recoverable'
    BY <2>1, <2>2, <2>3 DEF Recoverable, TipIs
  <2> QED BY <2>2, <2>4, <2>5, ChainKept DEF ChainInv
<1>5. ASSUME NEW p \in Writers, Write(p) PROVE ChainInv'
  <2> DEFINE e == proc[p].entry
  <2>1. /\ proc[p].at = "append" /\ e \in Entries /\ AppendLine(p, e)
        /\ proc'[p].at = "sync" /\ proc'[p].moved = FALSE
        /\ proc'[p].entry = e
        /\ UNCHANGED <<exists, head, rotations, met>>
    BY <1>5 DEF Write, TypeOK, EntriesAtHand
  <2>2. \A q \in Writers : q = p
    BY DEF OneWriter
  <2>3. Everything \in Seq(Line)
    BY ConcatProperties DEF TypeOK, Everything
  <2> HIDE DEF e
  <2>4. ASSUME Sound'
        PROVE  /\ Everything' = Append(Everything, e)
               /\ Verified(Everything')
               /\ Everything' # <<>>
               /\ Everything'[1].prev = Genesis /\ Everything'[1].seq = 1
               /\ Last(Everything') = e
    <3>1. Sound /\ ChainIntact
      BY <2>4 DEF ChainInv, ChainSurvives, Sound
    <3>2. Everything' = Append(Everything, e)
      BY <2>1, <3>1, Grows
    <3>3. TipIs(e.prev, e.seq - 1)
      BY <2>1, <3>1 DEF MemoryInOrder, e
    <3> QED BY <2>1, <2>3, <3>1, <3>2, <3>3, ChainGrows DEF ChainIntact, TipIs
  <2>5. MemoryInOrder'
    BY <2>1, <2>2, <2>4 DEF MemoryInOrder, TipIs
  <2>6. Recoverable'
    <3>1. met' = {} /\ exists' => log' # <<>>
      <4> SUFFICES ASSUME met' = {}, exists' PROVE log' # <<>>
        OBVIOUS
      <4>1. Sound /\ ~proc[p].moved
        BY <2>1 DEF Sound, Recoverable
      <4>2. Whole(log) /\ log \in Seq(Line) /\ e \in Line
        BY <2>1, <4>1, SoundIsWhole DEF TypeOK, Line
      <4>3. log' = Append(log, e)
        BY <2>1, <4>1, <4>2, AddLineProperties DEF AppendLine
      <4> QED BY <4>2, <4>3, AppendProperties
    <3> QED BY <2>1, <2>2, <3>1 DEF Recoverable
  <2>7. ChainSurvives'
    BY <2>4 DEF ChainSurvives, Sound, ChainIntact
  <2> QED BY <2>5, <2>6, <2>7 DEF ChainInv
<1>6. ASSUME NEW p \in Writers, WriteShort(p) PROVE ChainInv'
  <2>1. /\ "short" \in met'
        /\ proc'[p].at = "sync" /\ proc'[p].moved = FALSE
    BY <1>6 DEF WriteShort, Meet, TypeOK
  <2>2. ~Sound' /\ met' # {}
    BY <2>1 DEF Sound
  <2>3. \A q \in Writers : q = p
    BY DEF OneWriter
  <2> QED BY <2>1, <2>2, <2>3 DEF ChainInv, MemoryInOrder, Recoverable, ChainSurvives, Sound
<1>7. ASSUME NEW p \in Writers, Sync(p) PROVE ChainInv'
  <2>1. /\ proc[p].at = "sync"
        /\ proc'[p].at = "replace" /\ proc'[p].moved = proc[p].moved
        /\ proc'[p].prev = proc[p].entry.hash /\ proc'[p].seq = proc[p].entry.seq
    BY <1>7 DEF Sync, TypeOK
  <2>2. /\ UNCHANGED <<log, exists, old, head, rotations, met>>
        /\ Everything' = Everything
    BY <1>7 DEF Sync, Everything
  <2>3. \A q \in Writers : q = p
    BY DEF OneWriter
  <2>4. MemoryInOrder'
    BY <2>1, <2>2, <2>3 DEF MemoryInOrder, TipIs
  <2>5. Recoverable'
    BY <2>1, <2>2, <2>3 DEF Recoverable, FilesInOrder
  <2> QED BY <2>2, <2>4, <2>5, ChainKept DEF ChainInv
<1>8. ASSUME NEW p \in Writers, ReplaceHead(p) PROVE ChainInv'
  <2>1. /\ proc[p].at = "replace"
        /\ proc'[p].at = "idle" /\ proc'[p].moved = proc[p].moved
        /\ proc'[p].prev = proc[p].prev /\ proc'[p].seq = proc[p].seq
        /\ head'.hash = proc[p].prev /\ head'.seq = proc[p].seq
    BY <1>8 DEF ReplaceHead, TypeOK
  <2>2. /\ UNCHANGED <<log, exists, old, rotations, met>>
        /\ Everything' = Everything
    BY <1>8 DEF ReplaceHead, Everything
  <2>3. \A q \in Writers : q = p
    BY DEF OneWriter
  <2>4. MemoryInOrder'
    BY <2>1, <2>2, <2>3 DEF MemoryInOrder, TipIs
  <2>5. Recoverable'
    BY <2>1, <2>2, <2>3 DEF Recoverable, FilesInOrder, MemoryInOrder, Sound, TipIs
  <2> QED BY <2>2, <2>4, <2>5, ChainKept DEF ChainInv
<1>9. CASE Rotate
  <2>1. Everything' = Everything
    <3>1. old \o log \in Seq(Line)
      BY ConcatProperties DEF TypeOK
    <3>2. (old \o log) \o <<>> = old \o log
      BY <3>1, ConcatEmptySeq
    <3> QED BY <1>9, <3>2 DEF Rotate, Everything
  <2>2. \A q \in Writers :
            /\ proc'[q].at = proc[q].at /\ proc'[q].entry = proc[q].entry
            /\ proc'[q].prev = proc[q].prev /\ proc'[q].seq = proc[q].seq
    BY <1>9 DEF Rotate, TypeOK
  <2>3. /\ exists' = FALSE
        /\ UNCHANGED <<head, met>>
    BY <1>9 DEF Rotate
  <2>4. MemoryInOrder'
    BY <2>1, <2>2 DEF MemoryInOrder, TipIs
  <2>5. Recoverable'
    BY <2>1, <2>2, <2>3 DEF Recoverable, TipIs
  <2> QED BY <2>1, <2>4, <2>5, ChainKept DEF ChainInv
<1>10. CASE UNCHANGED vars
  <2>1. UNCHANGED <<log, exists, old, head, proc, rotations, met>> /\ Everything' = Everything
    BY <1>10 DEF vars, Everything
  <2>2. MemoryInOrder' /\ Recoverable'
    BY <2>1 DEF MemoryInOrder, Recoverable, TipIs, Sound
  <2> QED BY <2>1, <2>2, ChainKept DEF ChainInv
<1> QED
    BY <1>1, <1>2, <1>3, <1>4, <1>5, <1>6, <1>7, <1>8, <1>9, <1>10 DEF Next

\* ChainSurvives, for one process: each line follows from the one before, over any
\* number of kills of a log that is not rotated and over any number of rotations of
\* a log whose process is not killed and meets no error.
THEOREM ChainHolds == ASSUME OneWriter PROVE Spec => []ChainSurvives
<1>1. Init => ChainInv
  <2> SUFFICES ASSUME Init PROVE ChainInv
    OBVIOUS
  <2>1. Everything = <<>>
    BY DEF Init, Everything
  <2>2. \A p \in Writers : proc[p] = Down
    BY DEF Init
  <2>3. TipIs(head.hash, head.seq) /\ met = {} /\ ~exists
    BY <2>1 DEF Init, TipIs, NoHead
  <2>4. MemoryInOrder /\ Recoverable
    BY <2>2, <2>3 DEF MemoryInOrder, Recoverable, Down
  <2>5. ChainIntact
    BY <2>1 DEF ChainIntact, Verified
  <2> QED BY <2>4, <2>5 DEF ChainInv, ChainSurvives
<1>2. IInv /\ ChainInv /\ [Next]_vars => ChainInv'
  BY ChainStep
<1>3. ChainInv => ChainSurvives
  BY DEF ChainInv
<1> QED BY <1>1, <1>2, <1>3, Invariance, PTL DEF Spec

-----------------------------------------------------------------------------
(* The changes of configuration, for one process                            *)

\* The entries, and the scans, of a log with one more line.
LEMMA StartsGrow ==
    ASSUME NEW s \in Seq(Line), NEW e \in Entries
    PROVE  LET t == Append(s, e)
               n == Len(s)
           IN  /\ n \in Nat
               /\ \A i \in 1..n : t[i] = s[i]
               /\ t[n + 1] = e
               /\ EntriesIn(t) = EntriesIn(s) \union {n + 1}
               /\ e.event = "scan.start" =>
                     /\ StartsIn(t) = StartsIn(s) \union {n + 1}
                     /\ LastOf(StartsIn(t)) = n + 1
               /\ e.event # "scan.start" => StartsIn(t) = StartsIn(s)
<1> DEFINE t == Append(s, e)
           n == Len(s)
<1>1. e \in Line /\ IsEntry(e) /\ n \in Nat
  BY LenProperties, EntryIsEntry DEF Line
<1>2. /\ t \in Seq(Line) /\ Len(t) = n + 1
      /\ \A i \in 1..n : t[i] = s[i]
      /\ t[n + 1] = e
  BY <1>1, AppendProperties
<1>3. \A i : i \in 1..(n + 1) <=> i \in 1..n \/ i = n + 1
  BY <1>1
<1>4. n + 1 \notin 1..n /\ EntriesIn(s) = {i \in 1..n : IsEntry(s[i])}
  BY <1>1 DEF EntriesIn
<1> HIDE DEF t, n
<1>5. EntriesIn(t) = EntriesIn(s) \union {n + 1}
  BY <1>1, <1>2, <1>3, <1>4 DEF EntriesIn
<1>6. e.event = "scan.start" => StartsIn(t) = StartsIn(s) \union {n + 1}
  BY <1>1, <1>2, <1>4, <1>5 DEF StartsIn
<1>7. e.event # "scan.start" => StartsIn(t) = StartsIn(s)
  BY <1>1, <1>2, <1>4, <1>5 DEF StartsIn
<1>8. e.event = "scan.start" => LastOf(StartsIn(t)) = n + 1
  <2> SUFFICES ASSUME e.event = "scan.start" PROVE LastOf(StartsIn(t)) = n + 1
    OBVIOUS
  <2>1. StartsIn(t) \in SUBSET (1..(n + 1))
    BY <1>2 DEF StartsIn, EntriesIn
  <2>2. n + 1 \in StartsIn(t) /\ \A i \in StartsIn(t) : i <= n + 1
    BY <1>1, <1>6, <2>1
  <2>3. n + 1 \in Nat
    BY <1>1
  <2> QED BY <2>1, <2>2, <2>3, LastOfProperties
<1> QED BY <1>1, <1>2, <1>5, <1>6, <1>7, <1>8 DEF t, n

\* As long as no line was cut short and the log was not rotated, the log is all
\* there is.
Unspoilt == rotations = 0 /\ "short" \notin met

\* What an unspoilt log holds, and where its last scan.start is.
LEMMA UnspoiltLog ==
    ASSUME IInv, Unspoilt
    PROVE  /\ old = <<>> /\ log \in Seq(Line) /\ Whole(log)
           /\ Everything = log
           /\ \A p \in Writers : ~proc[p].moved
           /\ Len(log) \in Nat
           /\ LET i == LastOf(StartsIn(log)) IN
              /\ i = 0 <=> StartsIn(log) = {}
              /\ i # 0 => i \in StartsIn(log) /\ log[i] \in Entries
              /\ \A j \in StartsIn(log) : j <= i
<1>1. /\ old = <<>> /\ log \in Seq(Line) /\ Whole(log)
      /\ \A p \in Writers : ~proc[p].moved
  BY DEF IInv, TypeOK, FilesInOrder, NothingTorn, Unspoilt
<1>2. Everything = log
  BY <1>1, ConcatEmptySeq DEF Everything
<1>3. Len(log) \in Nat /\ StartsIn(log) \in SUBSET (1..Len(log))
  BY <1>1, LenProperties DEF StartsIn, EntriesIn
<1>4. \A i \in StartsIn(log) : log[i] \in Entries
  BY <1>1, <1>3, ElementOfSeq, EntryIsEntry DEF StartsIn, EntriesIn
<1> QED BY <1>1, <1>2, <1>3, <1>4, LastOfProperties

\* A change is recorded before the first scan that follows it.
LEMMA ConfigGrows ==
    ASSUME IInv, Unspoilt, ConfigChangesAreLogged, NEW e \in Entries,
           e.event = "scan.start" => Follows(e.config),
           Everything' = Append(log, e)
    PROVE  ConfigChangesAreLogged'
<1> DEFINE t == Append(log, e)
           n == Len(log)
           m == LastOf(StartsIn(log))
<1>1. /\ Everything = log /\ log \in Seq(Line) /\ n \in Nat
      /\ m = 0 <=> StartsIn(log) = {}
      /\ m # 0 => m \in StartsIn(log) /\ log[m] \in Entries
      /\ \A j \in StartsIn(log) : j <= m
  BY UnspoiltLog
<1>2. /\ \A i \in 1..n : t[i] = log[i]
      /\ t[n + 1] = e
      /\ EntriesIn(t) = EntriesIn(log) \union {n + 1}
      /\ e.event = "scan.start" => StartsIn(t) = StartsIn(log) \union {n + 1}
      /\ e.event # "scan.start" => StartsIn(t) = StartsIn(log)
  BY <1>1, StartsGrow
<1>3. EntriesIn(log) \subseteq 1..n /\ StartsIn(log) \subseteq 1..n
  BY DEF EntriesIn, StartsIn
<1>0. Everything' = t
  OBVIOUS
<1> HIDE DEF t, n, m
<1> SUFFICES ASSUME NEW i \in StartsIn(t), NEW j \in StartsIn(t), i < j,
                    StartsIn(t) \cap (i + 1)..(j - 1) = {},
                    t[i].config # t[j].config
             PROVE  \E k \in EntriesIn(t) \cap (i + 1)..(j - 1) : t[k].event = "config.changed"
  BY <1>0 DEF ConfigChangesAreLogged
<1>4. CASE j \in StartsIn(log)
  <2>1. i \in StartsIn(log)
    BY <1>1, <1>2, <1>3, <1>4
  <2>2. StartsIn(log) \cap (i + 1)..(j - 1) = {}
    BY <1>2
  <2>3. log[i].config # log[j].config
    BY <1>2, <1>3, <1>4, <2>1
  <2>4. PICK k \in EntriesIn(log) \cap (i + 1)..(j - 1) : log[k].event = "config.changed"
    BY <1>1, <1>4, <2>1, <2>2, <2>3 DEF ConfigChangesAreLogged, Unspoilt
  <2> QED BY <1>2, <1>3, <2>4
<1>5. CASE j \notin StartsIn(log)
  <2>1. j = n + 1 /\ e.event = "scan.start"
    BY <1>2, <1>5
  <2>2. i \in StartsIn(log) /\ i \in 1..n
    BY <1>1, <1>2, <1>3, <2>1
  <2>3. i = m
    <3>1. m # 0 /\ m \in StartsIn(log) /\ i <= m /\ m \in 1..n
      BY <1>1, <1>3, <2>2
    <3>2. m \in StartsIn(t)
      BY <1>2, <3>1
    <3>3. i < m => m \in (i + 1)..(j - 1)
      BY <1>1, <2>1, <2>2, <3>1
    <3>4. i \in Nat /\ m \in Nat
      BY <2>2, <3>1
    <3> QED BY <3>1, <3>2, <3>3, <3>4
  <2>4. log[m].config # e.config /\ m # 0
    BY <1>2, <2>1, <2>2, <2>3
  <2>5. Recorded
    BY <2>1, <2>4 DEF Follows, m
  <2>6. PICK k \in EntriesIn(log) : k > m /\ log[k].event = "config.changed"
    BY <2>5 DEF Recorded, m
  <2>7. k \in 1..n /\ k \in (i + 1)..(j - 1) /\ t[k] = log[k]
    BY <1>1, <1>2, <1>3, <2>1, <2>2, <2>3, <2>6
  <2> QED BY <1>2, <2>6, <2>7
<1> QED BY <1>4, <1>5

\* A failure cannot be undone, nor can a rotation.
LEMMA UnspoiltBefore == IInv /\ [Next]_vars /\ Unspoilt' => Unspoilt
<1> SUFFICES ASSUME IInv, [Next]_vars PROVE Unspoilt' => Unspoilt
  OBVIOUS
<1>1. met' = met \/ \E kind \in Failures : met' = met \union {kind}
  BY DEF Next, Boot, Stop, Crash, ScanStarted, OtherEvent, Compute, Open, Write, WriteShort,
     Sync, ReplaceHead, Fail, Rotate, Meet, vars, history
<1>2. rotations' = rotations \/ rotations' = rotations + 1
  BY DEF Next, Boot, Stop, Crash, ScanStarted, OtherEvent, Compute, Open, Write, WriteShort,
     Sync, ReplaceHead, Fail, Rotate, Meet, vars, history
<1>3. rotations \in Nat
  BY DEF IInv, TypeOK
<1> QED BY <1>1, <1>2, <1>3 DEF Unspoilt

\* A log that stays as it is leaves what is recorded in it.
LEMMA ConfigKept ==
    ASSUME ConfigInv, Everything' = Everything, Unspoilt' => Unspoilt
    PROVE  ConfigChangesAreLogged'
BY DEF ConfigInv, ConfigChangesAreLogged, Unspoilt

\* With one process, every step keeps the invariant of the changes of configuration.
LEMMA ConfigStep ==
    ASSUME OneWriter, IInv, ConfigInv, [Next]_vars
    PROVE  ConfigInv'
<1>0. /\ TypeOK /\ EntriesAtHand /\ FilesInOrder
      /\ ChangesInOrder /\ ConfigChangesAreLogged
      /\ Unspoilt' => Unspoilt
      /\ \A p, q \in Writers : q = p
  BY UnspoiltBefore DEF IInv, ConfigInv, OneWriter
<1> USE <1>0 DEF history, Busy, Unspoilt
<1>1. ASSUME NEW p \in Writers, Boot(p) PROVE ConfigInv'
  <2>1. /\ proc'[p].at = "idle" /\ proc'[p].last = Remembered.last
        /\ UNCHANGED <<log, exists, old, head, rotations, met>>
        /\ Everything' = Everything
    BY <1>1 DEF Boot, TypeOK, Down, Everything
  <2>2. ASSUME Unspoilt
        PROVE  LET i == LastOf(StartsIn(log)) IN
               /\ i = 0 => Remembered.last = NoConfig /\ StartsIn(log) = {}
               /\ i # 0 => Remembered.last = log[i].config /\ log[i].config # NoConfig
    <3>1. CASE exists
      BY <2>2, <3>1, UnspoiltLog DEF Remembered, LastConfig, ConfigAt, Entries
    <3>2. CASE ~exists
      <4>1. log = <<>> /\ head = NoHead
        BY <2>2, <3>2 DEF FilesInOrder
      <4>2. StartsIn(log) = {}
        BY <4>1 DEF StartsIn, EntriesIn
      <4>3. LastOf(StartsIn(log)) = 0
        BY <2>2, <4>2, UnspoiltLog
      <4> QED BY <3>2, <4>1, <4>2, <4>3 DEF Remembered, NoHead
    <3> QED BY <3>1, <3>2
  <2>3. ChangesInOrder'
    BY <2>1, <2>2 DEF ChangesInOrder, Follows
  <2> QED BY <2>1, <2>3, ConfigKept DEF ConfigInv
<1>2. ASSUME NEW p \in Writers, Stop(p) \/ Crash(p) \/ Fail(p) PROVE ConfigInv'
  <2>1. /\ UNCHANGED <<log, old, rotations>> /\ Everything' = Everything
        /\ proc[p].at # "down"
        /\ \/ proc'[p].at = "down"
           \/ proc'[p].at = "idle" /\ proc'[p].last = proc[p].last
    <3>1. CASE Stop(p)
      <4>1. proc'[p] = Down /\ proc[p].at # "down"
        BY <3>1 DEF Stop, TypeOK
      <4>2. proc'[p].at = "down"
        BY <4>1 DEF Down
      <4>3. UNCHANGED <<log, old, rotations>> /\ Everything' = Everything
        BY <3>1 DEF Stop, Everything
      <4> QED BY <4>1, <4>2, <4>3
    <3>2. CASE Crash(p)
      <4>1. proc'[p] = Down /\ proc[p].at # "down"
        BY <3>2 DEF Crash, Meet, TypeOK
      <4>2. proc'[p].at = "down"
        BY <4>1 DEF Down
      <4>3. UNCHANGED <<log, old, rotations>> /\ Everything' = Everything
        BY <3>2 DEF Crash, Meet, Everything
      <4> QED BY <4>1, <4>2, <4>3
    <3>3. CASE Fail(p)
      BY <3>3 DEF Fail, Meet, TypeOK, Everything
    <3> QED BY <1>2, <3>1, <3>2, <3>3
  <2>2. ChangesInOrder'
    BY <2>1 DEF ChangesInOrder, Follows, Recorded
  <2> QED BY <2>1, <2>2, ConfigKept DEF ConfigInv
<1>3. ASSUME NEW p \in Writers, ScanStarted(p) PROVE ConfigInv'
  <2>1. PICK event, then :
           /\ Compute(p, event, then)
           /\ proc[p].at = "idle"
           /\ \/ event = "config.changed"
              \/ event = "scan.start" /\ then = FALSE /\ proc[p].last \in {NoConfig, proc[p].config}
    BY <1>3 DEF ScanStarted
  <2>2. /\ UNCHANGED <<log, old, rotations, met>> /\ Everything' = Everything
        /\ proc'[p].at = "open" /\ proc'[p].entry.event = event /\ proc'[p].then = then
        /\ proc'[p].config = proc[p].config /\ proc[p].config # NoConfig
        /\ proc'[p].last = IF event = "scan.start" THEN proc[p].config ELSE proc[p].last
    BY <2>1 DEF Compute, TypeOK, Everything, EntriesAtHand
  <2>3. Unspoilt /\ StartsIn(log) = {} => LastOf(StartsIn(log)) = 0
    BY UnspoiltLog
  <2>4. ChangesInOrder'
    BY <2>1, <2>2, <2>3 DEF ChangesInOrder, Follows, Recorded
  <2> QED BY <2>2, <2>4, ConfigKept DEF ConfigInv
<1>4. ASSUME NEW p \in Writers, OtherEvent(p) PROVE ConfigInv'
  <2>1. /\ UNCHANGED <<log, old, rotations, met>> /\ Everything' = Everything
        /\ proc[p].at = "idle"
        /\ proc'[p].at = "open" /\ proc'[p].entry.event = "serve.read" /\ proc'[p].then = FALSE
        /\ proc'[p].last = proc[p].last
    BY <1>4 DEF OtherEvent, Compute, TypeOK, Everything
  <2>2. ChangesInOrder'
    BY <2>1 DEF ChangesInOrder, Follows, Recorded
  <2> QED BY <2>1, <2>2, ConfigKept DEF ConfigInv
<1>5. ASSUME NEW p \in Writers, Open(p) \/ Sync(p) PROVE ConfigInv'
  <2>1. /\ UNCHANGED <<log, old, rotations, met>> /\ Everything' = Everything
        /\ \/ proc[p].at = "open" /\ proc'[p].at = "append"
           \/ proc[p].at = "sync" /\ proc'[p].at = "replace"
        /\ proc'[p].last = proc[p].last /\ proc'[p].config = proc[p].config
        /\ proc'[p].then = proc[p].then /\ proc'[p].entry = proc[p].entry
    <3>1. CASE Open(p)
      BY <3>1 DEF Open, TypeOK, Everything
    <3>2. CASE Sync(p)
      BY <3>2 DEF Sync, TypeOK, Everything
    <3> QED BY <1>5, <3>1, <3>2
  <2>2. ChangesInOrder'
    BY <2>1 DEF ChangesInOrder, Follows, Recorded
  <2> QED BY <2>1, <2>2, ConfigKept DEF ConfigInv
<1>6. ASSUME NEW p \in Writers, Write(p) PROVE ConfigInv'
  <2> DEFINE e == proc[p].entry
             n == Len(log)
  <2>1. /\ UNCHANGED <<rotations, met>>
        /\ proc[p].at = "append" /\ proc'[p].at = "sync"
        /\ proc'[p].last = proc[p].last /\ proc'[p].config = proc[p].config
        /\ proc'[p].then = proc[p].then
        /\ e \in Entries /\ e.config = proc[p].config /\ proc[p].config # NoConfig
        /\ AppendLine(p, e)
    BY <1>6 DEF Write, TypeOK, EntriesAtHand
  <2> HIDE DEF e, n
  <2> SUFFICES ASSUME Unspoilt PROVE ConfigInv'
    BY <2>1 DEF ConfigInv, ChangesInOrder, ConfigChangesAreLogged
  <2>2. /\ e.event = "scan.start" => proc[p].last = proc[p].config
        /\ proc[p].then => e.event = "config.changed"
    BY <2>1 DEF ChangesInOrder, e
  <2>3. log' = Append(log, e) /\ Everything' = Append(log, e)
    <3>1. /\ old = <<>> /\ log \in Seq(Line) /\ Whole(log) /\ ~proc[p].moved
          /\ e \in Line
      BY <2>1, UnspoiltLog DEF Line
    <3>2. log' = Append(log, e) /\ old' = <<>> /\ log' \in Seq(Line)
      BY <2>1, <3>1, AddLineProperties DEF AppendLine
    <3> QED BY <3>2, ConcatEmptySeq DEF Everything
  <2>4. /\ log \in Seq(Line) /\ EntriesIn(log) \subseteq 1..n
        /\ LastOf(StartsIn(log)) # 0 => LastOf(StartsIn(log)) \in 1..n
    BY UnspoiltLog DEF StartsIn, EntriesIn, n
  <2>5. /\ n \in Nat
        /\ \A i \in 1..n : log'[i] = log[i]
        /\ log'[n + 1] = e
        /\ EntriesIn(log') = EntriesIn(log) \union {n + 1}
        /\ e.event = "scan.start" => LastOf(StartsIn(log')) = n + 1
        /\ e.event # "scan.start" => StartsIn(log') = StartsIn(log)
    BY <2>1, <2>3, <2>4, StartsGrow DEF n
  <2>6. CASE e.event = "scan.start"
    <3>1. log'[LastOf(StartsIn(log'))].config = proc[p].last /\ proc[p].last # NoConfig
      BY <2>1, <2>2, <2>5, <2>6
    <3>2. ~proc[p].then
      BY <2>2, <2>6
    <3>3. ChangesInOrder'
      BY <2>1, <3>1, <3>2 DEF ChangesInOrder, Follows
    <3>4. Follows(e.config)
      BY <2>1, <2>2, <2>6 DEF ChangesInOrder
    <3> QED BY <2>1, <2>3, <3>3, <3>4, ConfigGrows DEF ConfigInv
  <2>7. CASE e.event # "scan.start"
    <3>1. Recorded => Recorded'
      BY <2>4, <2>5, <2>7 DEF Recorded
    <3>2. proc[p].then => Recorded'
      <4> SUFFICES ASSUME e.event = "config.changed" PROVE Recorded'
        BY <2>2
      <4>1. n + 1 \in EntriesIn(log') /\ n + 1 > LastOf(StartsIn(log'))
        BY <2>4, <2>5, <2>7
      <4> QED BY <2>5, <4>1 DEF Recorded
    <3>3. \A c : Follows(c) => Follows(c)'
      BY <2>4, <2>5, <2>7, <3>1 DEF Follows
    <3>4. ChangesInOrder'
      BY <2>1, <2>5, <2>7, <3>2, <3>3 DEF ChangesInOrder
    <3> QED BY <2>1, <2>3, <2>7, <3>4, ConfigGrows DEF ConfigInv
  <2> QED BY <2>6, <2>7
<1>7. ASSUME NEW p \in Writers, WriteShort(p) PROVE ConfigInv'
  <2>1. "short" \in met'
    BY <1>7 DEF WriteShort, Meet
  <2> QED BY <2>1 DEF ConfigInv, ChangesInOrder, ConfigChangesAreLogged
<1>8. ASSUME NEW p \in Writers, ReplaceHead(p) PROVE ConfigInv'
  <2>1. /\ UNCHANGED <<log, old, rotations, met>> /\ Everything' = Everything
        /\ proc[p].at = "replace" /\ proc'[p].at = "idle"
        /\ proc[p].config # NoConfig
        /\ proc'[p].last = IF proc[p].then THEN proc[p].config ELSE proc[p].last
    BY <1>8 DEF ReplaceHead, TypeOK, Everything, EntriesAtHand
  <2>2. ChangesInOrder'
    BY <2>1 DEF ChangesInOrder, Follows, Recorded
  <2> QED BY <2>1, <2>2, ConfigKept DEF ConfigInv
<1>9. CASE Rotate
  <2>1. rotations' # 0
    BY <1>9 DEF Rotate, TypeOK
  <2> QED BY <2>1 DEF ConfigInv, ChangesInOrder, ConfigChangesAreLogged
<1>10. CASE UNCHANGED vars
  <2>1. UNCHANGED <<log, old, proc, rotations, met>> /\ Everything' = Everything
    BY <1>10 DEF vars, Everything
  <2>2. ChangesInOrder'
    BY <2>1 DEF ChangesInOrder, Follows, Recorded
  <2> QED BY <2>1, <2>2, ConfigKept DEF ConfigInv
<1> QED
    BY <1>1, <1>2, <1>3, <1>4, <1>5, <1>6, <1>7, <1>8, <1>9, <1>10 DEF Next

\* ConfigChangesAreLogged, for one process: between two scans of different
\* configurations of a log that was not rotated there is a config.changed,
\* wherever the writes between them failed or were killed.
THEOREM ChangesOfConfig == ASSUME OneWriter PROVE Spec => []ConfigChangesAreLogged
<1>1. Init => ConfigInv
  <2> SUFFICES ASSUME Init PROVE ConfigInv
    OBVIOUS
  <2>1. StartsIn(Everything) = {}
    BY DEF Init, Everything, StartsIn, EntriesIn
  <2>2. \A p \in Writers : proc[p].at = "down"
    BY DEF Init, Down
  <2> QED BY <2>1, <2>2 DEF ConfigInv, ChangesInOrder, ConfigChangesAreLogged
<1>2. IInv /\ ConfigInv /\ [Next]_vars => ConfigInv'
  BY ConfigStep
<1>3. ConfigInv => ConfigChangesAreLogged
  BY DEF ConfigInv
<1> QED BY <1>1, <1>2, <1>3, Invariance, PTL DEF Spec
=============================================================================
