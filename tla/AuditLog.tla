-------------------------------- MODULE AuditLog --------------------------------
(***************************************************************************)
(* The hash-chained audit log (keycensus/audit.py): one line per event,     *)
(* each carrying the hash of the line before, and a head file that keeps    *)
(* the chain going when the log is rotated away.  AuditLog.write is taken   *)
(* apart into the system calls it makes, so that the process may be killed, *)
(* a call may fail and the operator may move the file aside between any two *)
(* of them.  Writers are processes; the threads of one process take turns   *)
(* at AuditLog._lock and are one writer.                                    *)
(*                                                                          *)
(* Hashes do not collide: the hash of an entry is the number of entries     *)
(* computed before it, plus one.                                            *)
(***************************************************************************)
EXTENDS Naturals, Sequences, SequencesExt

CONSTANTS
    Writers,      \* the keycensus processes that have this log configured
    Configs,      \* the configurations (file and policy) a process may load
    Failures,     \* "kill": a process may be killed while it writes;
                  \* "raise": a system call may raise an error;
                  \* "short": os.write may write less than it was given
    MaxEntries,   \* bound: entries computed
    MaxRotations  \* bound: how often the file is moved aside

Genesis == 0
NoConfig == "none"

ASSUME AuditAssumption ==
    /\ Failures \subseteq {"kill", "raise", "short"}
    /\ MaxEntries \in Nat
    /\ MaxRotations \in Nat
    /\ NoConfig \notin Configs

Events == {"scan.start", "config.changed", "serve.read"}

Entries == [hash: 1..MaxEntries, seq: Nat, prev: 0..MaxEntries,
            event: Events, config: Configs]

\* A line that is not JSON: the beginning of one, or of one and another entry
\* in the same line.
Torn == [torn |-> TRUE]
Garbled == [torn |-> FALSE]

VARIABLES
    log,        \* the lines of the file
    exists,     \* the file exists
    old,        \* the lines of the files moved aside, oldest first
    head,       \* the .head file: seq, hash and configuration; NoHead if none
    proc,       \* what each process is doing, and its memory of the chain
    computed,   \* entries computed so far
    rotations,  \* times the file was moved aside
    \* history, read by no action:
    kept,       \* the hashes of the entries that a write() returned
    met         \* the kinds of failure met so far

history == <<kept, met>>
vars == <<log, exists, old, head, proc, computed, rotations, history>>

NoHead == [seq |-> 0, hash |-> Genesis, last |-> NoConfig]

Down == [at |-> "down", prev |-> Genesis, seq |-> 0, last |-> NoConfig,
         config |-> NoConfig, entry |-> Torn, then |-> FALSE, moved |-> FALSE]

Init ==
    /\ log = <<>>
    /\ exists = FALSE
    /\ old = <<>>
    /\ head = NoHead
    /\ proc = [p \in Writers |-> Down]
    /\ computed = 0
    /\ rotations = 0
    /\ kept = {}
    /\ met = {}

IsEntry(line) == line \notin {Torn, Garbled}

\* The places of the entries among these lines, and those of the scan.start.
EntriesIn(lines) == {i \in 1..Len(lines) : IsEntry(lines[i])}
StartsIn(lines) == {i \in EntriesIn(lines) : lines[i].event = "scan.start"}

\* The last of some places, 0 if there is none.
LastOf(places) == Max({0} \union places)

ConfigAt(lines, i) == IF i = 0 THEN NoConfig ELSE lines[i].config

\* The configuration of the last entry of any kind.
LastConfigOfAny(lines) == ConfigAt(lines, LastOf(EntriesIn(lines)))

\* The configuration of the last scan.start among these lines.
LastConfig(lines) == ConfigAt(lines, LastOf(StartsIn(lines)))

\* The head file is read only when the log is gone.
Remembered ==
    IF ~exists THEN [prev |-> head.hash, seq |-> head.seq, last |-> head.last]
    ELSE LET i == LastOf(EntriesIn(log)) IN
         [prev |-> IF i = 0 THEN Genesis ELSE log[i].hash,
          seq |-> IF i = 0 THEN 0 ELSE log[i].seq,
          last |-> LastConfig(log)]

-----------------------------------------------------------------------------
(* Starting a process                                                       *)

\* AuditLog.__init__, with the configuration the process has loaded.
Boot(p) ==
    /\ proc[p].at = "down"
    /\ \E c \in Configs :
          proc' = [proc EXCEPT ![p] =
                      [Down EXCEPT !.at = "idle", !.config = c,
                                   !.prev = Remembered.prev, !.seq = Remembered.seq,
                                   !.last = Remembered.last]]
    /\ UNCHANGED <<log, exists, old, head, computed, rotations, history>>

\* What the process knew survives it.
StopWarm(p) ==
    /\ proc[p].at = "idle"
    /\ proc' = [proc EXCEPT ![p].at = "down"]
    /\ UNCHANGED <<log, exists, old, head, computed, rotations, history>>

\* The process ends between two writes.
Stop(p) ==
    /\ proc[p].at = "idle"
    /\ proc' = [proc EXCEPT ![p] = Down]
    /\ UNCHANGED <<log, exists, old, head, computed, rotations, history>>

\* A failure of this kind is met, if it is one that may be.
Meet(kind) ==
    /\ kind \in Failures
    /\ met' = met \union {kind}
    /\ UNCHANGED kept

\* The process is killed; what it wrote is in the file.
Crash(p) ==
    /\ proc[p].at \notin {"down", "idle"}
    /\ Meet("kill")
    /\ proc' = [proc EXCEPT ![p] = Down]
    /\ UNCHANGED <<log, exists, old, head, computed, rotations>>

-----------------------------------------------------------------------------
(* write(): the entry, the line, the memory, the head                       *)

\* The entry of one event, chained to what this process remembers.
Compute(p, event, then) ==
    /\ computed < MaxEntries
    /\ computed' = computed + 1
    /\ proc' = [proc EXCEPT
                  ![p].at = "open",
                  ![p].entry = [hash |-> computed', seq |-> proc[p].seq + 1,
                                prev |-> proc[p].prev, event |-> event,
                                config |-> proc[p].config],
                  ![p].then = then,
                  ![p].last = IF event = "scan.start" THEN proc[p].config ELSE @]
    /\ UNCHANGED <<log, exists, old, head, rotations, history>>

\* scan_started: config.changed if the last scan had another configuration.
ScanStarted(p) ==
    /\ proc[p].at = "idle"
    /\ IF proc[p].last \notin {NoConfig, proc[p].config}
       THEN Compute(p, "config.changed", TRUE)
       ELSE Compute(p, "scan.start", FALSE)

\* Any other event.
OtherEvent(p) ==
    /\ proc[p].at = "idle"
    /\ Compute(p, "serve.read", FALSE)

\* The file is opened for writing, not for appending.
OpenTruncating(p) ==
    /\ proc[p].at = "open"
    /\ exists' = TRUE
    /\ log' = <<>>
    /\ proc' = [proc EXCEPT ![p].at = "append", ![p].moved = FALSE]
    /\ UNCHANGED <<old, head, computed, rotations, history>>

\* os.open with O_CREAT.
Open(p) ==
    /\ proc[p].at = "open"
    /\ exists' = TRUE
    /\ proc' = [proc EXCEPT ![p].at = "append", ![p].moved = FALSE]
    /\ UNCHANGED <<log, old, head, computed, rotations, history>>

\* A torn line is written over.
AddLineRepairing(lines, line) ==
    IF lines # <<>> /\ Last(lines) = Torn THEN Append(Front(lines), line)
    ELSE Append(lines, line)

\* A line added after a torn one ends up in the same line.
AddLine(lines, line) ==
    IF lines # <<>> /\ Last(lines) = Torn
    THEN [lines EXCEPT ![Len(lines)] = IF line = Torn THEN Torn ELSE Garbled]
    ELSE Append(lines, line)

\* os.write to the file that was opened, wherever it is now.
AppendLine(p, line) ==
    IF proc[p].moved
    THEN old' = AddLine(old, line) /\ UNCHANGED log
    ELSE log' = AddLine(log, line) /\ UNCHANGED old

Write(p) ==
    /\ proc[p].at = "append"
    /\ AppendLine(p, proc[p].entry)
    /\ proc' = [proc EXCEPT ![p].at = "sync", ![p].moved = FALSE]
    /\ UNCHANGED <<exists, head, computed, rotations, history>>

\* The disk is almost full: os.write writes less, which nobody looks at.
WriteShort(p) ==
    /\ proc[p].at = "append"
    /\ Meet("short")
    /\ AppendLine(p, Torn)
    /\ proc' = [proc EXCEPT ![p].at = "sync", ![p].moved = FALSE]
    /\ UNCHANGED <<exists, head, computed, rotations>>

\* The head is written but not what the process remembers.
SyncForgetful(p) ==
    /\ proc[p].at = "sync"
    /\ proc' = [proc EXCEPT ![p].at = "replace"]
    /\ UNCHANGED <<log, exists, old, head, computed, rotations, history>>

\* os.fsync, and the process remembers the entry as the last.
Sync(p) ==
    /\ proc[p].at = "sync"
    /\ proc' = [proc EXCEPT ![p].at = "replace",
                            ![p].prev = proc[p].entry.hash,
                            ![p].seq = proc[p].entry.seq]
    /\ UNCHANGED <<log, exists, old, head, computed, rotations, history>>

\* The head file is replaced in one rename.  After config.changed, scan_started
\* goes on with scan.start.
ReplaceHead(p) ==
    /\ proc[p].at = "replace"
    /\ head' = [seq |-> proc[p].seq, hash |-> proc[p].prev, last |-> proc[p].last]
    /\ proc' = [proc EXCEPT ![p].at = "idle",
                            ![p].last = IF proc[p].then THEN proc[p].config ELSE @]
    /\ kept' = kept \union {proc[p].entry.hash}
    /\ UNCHANGED <<log, exists, old, computed, rotations, met>>

\* A system call fails; the exception leaves write() where it is.
Fail(p) ==
    /\ proc[p].at \in {"open", "append", "sync", "replace"}
    /\ Meet("raise")
    /\ proc' = [proc EXCEPT ![p].at = "idle", ![p].moved = FALSE]
    /\ UNCHANGED <<log, exists, old, head, computed, rotations>>

-----------------------------------------------------------------------------

\* "Rotation: move the file aside".
Rotate ==
    /\ exists
    /\ rotations < MaxRotations
    /\ \A p \in Writers : ~proc[p].moved
    /\ rotations' = rotations + 1
    /\ old' = old \o log
    /\ log' = <<>>
    /\ exists' = FALSE
    /\ proc' = [p \in Writers |->
                  IF proc[p].at = "append" THEN [proc[p] EXCEPT !.moved = TRUE]
                  ELSE proc[p]]
    /\ UNCHANGED <<head, computed, history>>

Next ==
    \/ \E p \in Writers :
          \/ Boot(p) \/ Stop(p) \/ Crash(p)
          \/ ScanStarted(p) \/ OtherEvent(p)
          \/ Open(p) \/ Write(p) \/ WriteShort(p) \/ Sync(p) \/ ReplaceHead(p)
          \/ Fail(p)
    \/ Rotate

Spec == Init /\ [][Next]_vars

-----------------------------------------------------------------------------
(* Properties                                                               *)

Line == Entries \union {Torn, Garbled}

\* The shape of the state; a process that is down knows nothing.
TypeOK ==
    /\ log \in Seq(Line)
    /\ old \in Seq(Line)
    /\ exists \in BOOLEAN
    /\ head \in [seq: Nat, hash: 0..MaxEntries, last: Configs \union {NoConfig}]
    /\ proc \in [Writers ->
          [at: {"down", "idle", "open", "append", "sync", "replace"},
           prev: 0..MaxEntries, seq: Nat, last: Configs \union {NoConfig},
           config: Configs \union {NoConfig}, entry: Entries \union {Torn},
           then: BOOLEAN, moved: BOOLEAN]]
    /\ \A p \in Writers : proc[p].at = "down" => proc[p] = Down
    /\ computed \in 0..MaxEntries
    /\ rotations \in 0..MaxRotations
    /\ kept \subseteq 1..computed
    /\ met \subseteq Failures

\* Everything logged, the files moved aside first.
Everything == old \o log

\* verify(): every line is an entry and follows from the one before.
Verified(lines) ==
    \A i \in 1..Len(lines) :
        /\ IsEntry(lines[i])
        /\ i > 1 => /\ lines[i].prev = lines[i - 1].hash
                    /\ lines[i].seq = lines[i - 1].seq + 1

\* Each line carries the hash of the line before, across rotations, so that
\* the files can be checked as one chain that starts at the genesis (audit.py,
\* first lines).
ChainIntact ==
    /\ Verified(Everything)
    /\ Everything # <<>> => Everything[1].prev = Genesis /\ Everything[1].seq = 1

\* It is intact over any number of kills, as long as the log is not rotated, and
\* over rotations at any moment, as long as no write was cut short: whichever
\* calls of write() were made, a new process goes on from the last line.
ChainSurvives ==
    met = {} \/ (met = {"kill"} /\ rotations = 0) => ChainIntact

\* The entries whose write() returned are in the files.
KeptIsLogged ==
    kept \subseteq {Everything[i].hash : i \in EntriesIn(Everything)}

\* What write() returned is in the log from then on, whatever is killed, fails
\* or is rotated away; only a short write may lose it.
KeptSurvives == "short" \notin met => KeptIsLogged

\* A log that verifies has lost nothing: whatever was killed, failed, was cut
\* short or was rotated away, an entry that write() returned and that is not
\* there leaves a mark that verify() finds.
LossIsNoticed == ChainIntact => KeptIsLogged

\* Between two scans that ran with different configurations there is a
\* config.changed (audit.py, "the config or policy hash differs from the
\* previous scan's"), also when writing it failed or was killed half way.  After
\* a rotation a new process may not find the previous scan, and after a short
\* write the line may be unreadable.
ConfigChangesAreLogged ==
    rotations = 0 /\ "short" \notin met =>
    \A i, j \in StartsIn(Everything) :
        /\ i < j
        /\ StartsIn(Everything) \cap (i + 1)..(j - 1) = {}
        /\ Everything[i].config # Everything[j].config
        => \E k \in EntriesIn(Everything) \cap (i + 1)..(j - 1) :
              Everything[k].event = "config.changed"
=============================================================================
