--------------------------------- MODULE Census ---------------------------------
(***************************************************************************)
(* The census of an estate: one scan after another, each with the previous  *)
(* inventory as its baseline, as `keycensus serve` and a scheduled          *)
(* `keycensus scan --baseline` run them (keycensus/scanner.py,              *)
(* collectors/base.py, diff.py, changes.py).                                *)
(*                                                                          *)
(* The collectors of a scan run in a thread pool and answer in any order;   *)
(* keys are created, replaced and destroyed at any time, so that each       *)
(* collector meets any content of its source.  A collector may raise, or    *)
(* report gaps.  The main thread then stamps what was found, carries        *)
(* forward what could not be seen, evaluates the policy, and compares the   *)
(* result with the baseline.                                                *)
(*                                                                          *)
(* A collector is taken at its word: outside the gaps it reports it lists   *)
(* everything its source holds at the moment it reads.  That is the         *)
(* contract every collector must keep for the properties to mean anything.  *)
(***************************************************************************)
EXTENDS InventoryDiff

CONSTANTS
    CarryModes,      \* carry forward? {TRUE}; BOOLEAN with --no-carry-forward
    Reconfigurable,  \* may sources be added to and removed from the config
    MaxScans         \* bound: scans in a behaviour

ASSUME CensusAssumption ==
    /\ CarryModes \subseteq BOOLEAN
    /\ Reconfigurable \in BOOLEAN
    /\ MaxScans \in Nat

VARIABLES
    configured,  \* the sources in the configuration file
    phase,       \* "idle" between scans, "collecting" during one
    clock,       \* the number of scans finished; a scan's generated_at
    pending,     \* the collectors that have not answered
    results,     \* what the others answered
    inventory,   \* the inventory of the last scan, the next one's baseline
    changes,     \* its change report; none while the next scan runs
    \* history, read by no action:
    examined,    \* the assets this scan's collectors looked for
    sighting,    \* what the last finished scan that saw an asset saw, and when
    feed         \* the assets a reader of every change report believes in

scanVars == <<phase, pending, results>>
history == <<examined, sighting, feed>>
vars == <<configured, phase, clock, pending, results, inventory,
          changes, examined, sighting, feed>>

Unseen == [strength |-> "strong", last |-> 0]

Init ==
    /\ configured = Sources
    /\ phase = "idle"
    /\ clock = 0
    /\ pending = {}
    /\ results = NoResults({})
    /\ inventory = NoInventory
    /\ changes = {}
    /\ examined = {}
    /\ sighting = [a \in Assets |-> Unseen]
    /\ feed = {}

-----------------------------------------------------------------------------
(* The configuration                                                        *)

\* The operator adds or removes a source; the next run reads the new file.
Reconfigure ==
    /\ Reconfigurable
    /\ phase = "idle"
    /\ configured' \in (SUBSET Sources) \ {configured}
    /\ UNCHANGED <<clock, inventory, changes, scanVars, history>>

-----------------------------------------------------------------------------
(* One scan                                                                 *)

StartScan ==
    /\ phase = "idle"
    /\ clock < MaxScans
    /\ phase' = "collecting"
    /\ pending' = configured
    /\ results' = NoResults(configured)
    /\ changes' = {}
    /\ UNCHANGED <<configured, clock, inventory, history>>

\* build() or collect() raises: the source is failed and found nothing.  (An
\* exception of build() without any text, which leaves an error that is empty and so
\* is none, is left out.)
CollectorFails(s) ==
    /\ s \in pending
    /\ pending' = pending \ {s}
    /\ results' = [results EXCEPT !.failed = @ \union {s}]
    /\ UNCHANGED <<configured, phase, clock, inventory, changes, history>>

HeldBy(s) == {a \in Assets : Home[a] = s}

\* The scopes an asset is reached through.  A collector names all of them, or
\* none: then the asset may be anywhere in its source.
Within(a) == IF ScopesOf[a] = {} THEN Areas[Home[a]] ELSE ScopesOf[a]

\* An asset the gaps may hide; it may still have been listed before the call
\* that failed.
Hidden(a, gaps) == Within(a) \cap gaps # {}

\* What the answer of s leaves for the main thread: its gaps, and those of the
\* assets it looked for that its source holds.
Report(s, gaps, held, looked) ==
    /\ results' = [results EXCEPT
                      !.gaps = [@ EXCEPT ![s] = gaps],
                      !.found = [a \in Assets |-> IF a \in looked THEN held[a]
                                                  ELSE results.found[a]]]
    /\ examined' = examined \union looked

\* The collector of s returns: with the gaps it met, and everything else its
\* source holds at that moment (held), which no earlier look at it determines.
CollectorReports(s) ==
    /\ s \in pending
    /\ \E gaps \in SUBSET Areas[s],
          held \in [HeldBy(s) -> Strengths \union {Missing}],
          looked \in SUBSET HeldBy(s) :
          /\ \A a \in HeldBy(s) \ looked : Hidden(a, gaps)
          /\ \A a \in looked : Hidden(a, gaps) => held[a] # Missing
          /\ Report(s, gaps, held, looked)
    /\ pending' = pending \ {s}
    /\ UNCHANGED <<configured, phase, clock, inventory, changes, sighting, feed>>

\* The main thread, once every collector answered: build the inventory and
\* compare it with the baseline, if there is one.
FinishScan(carry) ==
    LET now == clock + 1
        new == Scan(IF carry THEN inventory ELSE NoInventory, results, now)
    IN
    /\ phase = "collecting"
    /\ pending = {}
    /\ phase' = "idle"
    /\ clock' = now
    /\ inventory' = new
    /\ changes' = IF inventory.at = 0 THEN {} ELSE Classify(inventory, new)
    /\ sighting' = [a \in Assets |->
                       IF results.found[a] = Missing THEN sighting[a]
                       ELSE [strength |-> results.found[a], last |-> now]]
    /\ feed' = IF inventory.at = 0 THEN Present(new)
               ELSE (feed \union {c.asset : c \in {d \in changes' :
                                     d.kind = "asset-added"}})
                    \ {c.asset : c \in {d \in changes' :
                                     d.kind \in {"asset-removed", "asset-retired"}}}
    /\ results' = NoResults({})
    /\ examined' = {}
    /\ UNCHANGED <<configured, pending>>

Next ==
    \/ Reconfigure
    \/ StartScan
    \/ \E s \in Sources : CollectorFails(s)
    \/ \E s \in Sources : CollectorReports(s)
    \/ \E carry \in CarryModes : FinishScan(carry)

Spec == Init /\ [][Next]_vars

-----------------------------------------------------------------------------
(* Properties                                                               *)

\* The shape of the state.
TypeOK ==
    /\ configured \subseteq Sources
    /\ phase \in {"idle", "collecting"}
    /\ clock \in Nat
    /\ pending \subseteq Sources
    /\ results \in Results
    /\ inventory \in InventoryDoc
    /\ changes \subseteq Change
    /\ examined \subseteq Assets
    /\ sighting \in [Assets -> [strength: Strengths, last: Nat]]
    /\ feed \subseteq Assets

Finishes == phase = "collecting" /\ phase' = "idle"

\* The assets a change report names under one of these kinds.
Reported(kinds) == {c.asset : c \in {d \in changes' : d.kind \in kinds}}

\* The assets whose source is in the configuration of the scan that ends.
InScope == {a \in Assets : Home[a] \in results.sources}

\* Whatever the outages, and however long they last, the inventory says of
\* every asset what the last look at it found and when that was: a carried
\* copy keeps the key size and the last_observed of that look, and nobody
\* looked at it in the newest scan exactly if it is marked observed: false
\* (scanner.py: the stamping loop and carry_forward).
EntriesAreSightings ==
    \A a \in Present(inventory) :
        LET e == inventory.entries[a] IN
        /\ [strength |-> e.strength, last |-> e.last] = sighting[a]
        /\ e.observed <=> e.last = inventory.at

\* An asset of a configured source leaves the inventory only in a scan whose
\* collector looked for it and did not find it (scanner.py: "A scan that could
\* not look never makes a key disappear").
AbsenceIsObserved ==
    [][Finishes =>
         \A a \in Present(inventory) \ Present(inventory)' :
            Home[a] \in results.sources => a \in examined]_vars

\* An asset is reported removed or retired only by a scan that looked for it,
\* or because its source left the configuration (docs/DIFF.md, "When a scan
\* could not look"); this also holds without carrying forward.
RemovalsAreObserved ==
    [][Finishes =>
         Reported({"asset-removed", "asset-retired"}) \cap InScope
            \subseteq examined]_vars

\* Following the change reports alone, adding what was added and dropping what
\* was removed or retired, gives the assets of the inventory: no outage, no
\* reconfiguration and no return of a carried asset is ever left out of them
\* or told twice (diff.py, changes.py: classify).
FeedIsInventory == phase = "idle" => feed = Present(inventory)

\* Rules whose verdict changes with the date alone.
DatedRules == {"cert-expired", "cert-expiring-critical", "cert-expiring-soon"}

\* A finding is reported resolved only by a scan that looked for its asset, or
\* because its source left the configuration: the promise of scanner.py ("nor a
\* finding resolve") and of Finding.verified in model.py ("never resolved by a
\* scan that did not look").
ResolutionsAreObserved ==
    [][Finishes =>
         Reported({"finding-resolved"}) \cap InScope \subseteq examined]_vars

\* The same promise for the findings that do not depend on the date.
UndatedResolutionsAreObserved ==
    [][Finishes =>
         \A c \in changes' :
            /\ c.kind = "finding-resolved"
            /\ c.rule \notin DatedRules
            /\ Home[c.asset] \in results.sources
            => c.asset \in examined]_vars

\* No outage closes a finding: each one that does not depend on the date is still
\* in the next inventory when nobody looked at its asset, if its source is still
\* configured, and there the findings marked verified are those whose asset was
\* looked at (scanner.py: "Their findings stay open, marked `verified: false`").
\* Only linking.apply, which runs after the marking loop, verifies unseen.
FindingsOutlastOutages ==
    [][Finishes =>
         /\ \A f \in inventory.findings :
               /\ f.rule \notin DatedRules
               /\ Home[f.asset] \in results.sources /\ f.asset \notin examined
               => [f EXCEPT !.verified = (f.rule = "unlinked-asset")] \in inventory'.findings
         /\ \A f \in inventory'.findings :
               f.rule # "unlinked-asset" => (f.verified <=> f.asset \in examined)]_vars

\* An asset-unverified change comes next to a source-broken or source-partial
\* page that explains why (docs/DIFF.md, docs/ALERTING.md) when the source was
\* complete in the baseline: the first blind spot of a source always pages.
FirstBlindSpotPages ==
    [][Finishes =>
         \A a \in Reported({"asset-unverified"}) :
            Status(inventory, Home[a]) = "complete" =>
            \E c \in changes' : /\ c.kind \in {"source-broken", "source-partial"}
                               /\ c.source = Home[a]]_vars

\* While a scan runs, the answers in hand already say exactly which of the
\* missing assets nobody looked for: SourceResult.unverified() is neither too
\* timid nor too bold, in whatever order the collectors answer.
BlindSpotsAreKnown ==
    /\ pending \subseteq results.sources
    /\ results.failed \cap pending = {}
    /\ phase = "idle" => results.sources = {}
    /\ \A a \in Assets :
          /\ a \in examined => Home[a] \in results.sources \ pending
          /\ results.found[a] # Missing => a \in examined
          /\ Home[a] \in results.sources \ pending /\ results.found[a] = Missing
             => (Unverified(results, a) <=> a \notin examined)

\* No entry is dated after the scan that wrote the inventory.
DatesAreScans ==
    /\ inventory.at = clock
    /\ \A a \in Present(inventory) : inventory.entries[a].last <= clock

\* The findings of an inventory are those of its own entries at its own date.
FindingsAreOfEntries ==
    inventory.findings = FindingsOn(inventory.entries, inventory.at)

\* Every entry of an inventory is of a source that inventory lists: carrying
\* forward does not keep the assets of a source that left the configuration.
EntriesAreOfSources ==
    \A a \in Present(inventory) : Home[a] \in inventory.sources

\* The inductive invariant behind the theorems of CensusProofs.
IInv == /\ TypeOK
        /\ BlindSpotsAreKnown
        /\ DatesAreScans
        /\ EntriesAreSightings
        /\ FindingsAreOfEntries
        /\ EntriesAreOfSources

\* An inventory whose scan_status is complete, what --require-complete insists
\* on, has no hearsay in it: every entry was seen in that very scan, and so was
\* the absence of every other asset of a configured source.
CompleteIsFirstHand ==
    [][Finishes /\ ScanStatus(inventory') = "complete" =>
         /\ InScope \subseteq examined
         /\ \A a \in Present(inventory)' : inventory'.entries[a].observed]_vars

-----------------------------------------------------------------------------
(* The abstract specification                                               *)

KnownOf(a) ==
    LET e == inventory.entries[a] IN
    IF e = Missing THEN Missing ELSE [fact |-> e.strength, at |-> e.last]

L == INSTANCE Ledger WITH
        Facts <- Strengths,
        Unknown <- Missing,
        known <- [a \in Assets |-> KnownOf(a)],
        now <- clock,
        watched <- InScope,
        examined <- examined

\* The inventories keycensus writes, one after another, are the editions of a
\* ledger: a scan changes what is said of the assets it examined and of no
\* other.
ImplementsLedger == L!Spec
=============================================================================
