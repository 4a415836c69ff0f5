------------------------------ MODULE CensusProofs ------------------------------
(***************************************************************************)
(* Proofs about Census, for every estate, configuration, coverage layout    *)
(* and number of scans.                                                     *)
(***************************************************************************)
EXTENDS Census, TLAPS

USE ConstantsAssumption, CensusAssumption

-----------------------------------------------------------------------------
(* Lemmas about the operators of Inventory and InventoryDiff               *)

\* Nothing in the results of a scan that found nothing is ill-typed.
LEMMA NoResultsType ==
    ASSUME NEW S \in SUBSET Sources
    PROVE  NoResults(S) \in Results
BY DEF NoResults, Results

\* The findings of an inventory are those of the policy, verified as far as their
\* assets were observed, and those of linking, which always are.
LEMMA FindingsAre ==
    ASSUME NEW entries \in [Assets -> Entry \union {Missing}], NEW now
    PROVE  FindingsOn(entries, now) =
              {f \in Finding :
                  /\ entries[f.asset] # Missing
                  /\ \/ /\ f.rule \in PolicyRules(f.asset, entries[f.asset], now)
                        /\ f.verified = entries[f.asset].observed
                     \/ /\ AppsDeclared /\ f.asset \notin Claimed
                        /\ f.rule = "unlinked-asset" /\ f.verified}
<1>1. ASSUME NEW f \in Mark(Evaluate(entries, now), entries)
      PROVE  /\ f \in Finding /\ entries[f.asset] # Missing
             /\ f.rule \in PolicyRules(f.asset, entries[f.asset], now)
             /\ f.verified = entries[f.asset].observed
  <2>1. PICK g \in Evaluate(entries, now) : f = [g EXCEPT !.verified = entries[g.asset].observed]
    BY DEF Mark
  <2>2. /\ g \in Finding /\ entries[g.asset] # Missing
        /\ g.rule \in PolicyRules(g.asset, entries[g.asset], now)
    BY DEF Evaluate
  <2>3. entries[g.asset].observed \in BOOLEAN
    BY <2>2 DEF Finding, Entry
  <2>4. f = [asset |-> g.asset, rule |-> g.rule, verified |-> entries[g.asset].observed]
    BY <2>1, <2>2 DEF Finding
  <2> QED BY <2>2, <2>3, <2>4 DEF Finding
<1>2. ASSUME NEW f \in Finding, entries[f.asset] # Missing,
             f.rule \in PolicyRules(f.asset, entries[f.asset], now),
             f.verified = entries[f.asset].observed
      PROVE  f \in Mark(Evaluate(entries, now), entries)
  <2> DEFINE g == [asset |-> f.asset, rule |-> f.rule, verified |-> TRUE]
  <2>1. g \in Evaluate(entries, now)
    BY <1>2 DEF Evaluate, Finding
  <2>2. f = [g EXCEPT !.verified = entries[g.asset].observed]
    BY <1>2 DEF Finding
  <2> QED BY <2>1, <2>2 DEF Mark
<1>3. UnlinkedFindings(entries) = {f \in Finding :
          /\ AppsDeclared /\ entries[f.asset] # Missing /\ f.asset \notin Claimed
          /\ f.rule = "unlinked-asset" /\ f.verified}
  BY DEF UnlinkedFindings
<1> QED BY <1>1, <1>2, <1>3 DEF FindingsOn

\* What scan() returns is an inventory document.
LEMMA ScanType ==
    ASSUME NEW base \in InventoryDoc, NEW r \in Results, NEW now \in Nat
    PROVE  Scan(base, r, now) \in InventoryDoc
<1>1. ASSUME NEW a \in Assets
      PROVE  CarryForward(base, r, now)[a] \in Entry \union {Missing}
  <2>1. CASE IsCarried(base, r, a)
    <3>1. base.entries[a] \in Entry
      BY <2>1 DEF IsCarried, InventoryDoc
    <3> QED BY <2>1, <3>1 DEF CarryForward, Entry
  <2>2. CASE ~IsCarried(base, r, a)
    <3>1. r.found[a] \in Strengths \union {Missing}
      BY DEF Results
    <3> QED BY <2>2, <3>1 DEF CarryForward, Observed, Entry
  <2> QED BY <2>1, <2>2
<1>2. CarryForward(base, r, now) \in [Assets -> Entry \union {Missing}]
  BY <1>1 DEF CarryForward
<1>3. FindingsOn(CarryForward(base, r, now), now) \in SUBSET Finding
  BY <1>2, FindingsAre
<1> QED BY <1>2, <1>3 DEF Scan, InventoryDoc, Results

\* No scan yet is an inventory document.
LEMMA NoInventoryType == NoInventory \in InventoryDoc
BY DEF NoInventory, InventoryDoc

\* A finding key is a pair of a rule and an asset.
LEMMA FindingKeysType ==
    ASSUME NEW inv \in InventoryDoc
    PROVE  FindingKeys(inv) \subseteq Rules \X Assets
BY DEF FindingKeys, InventoryDoc, Finding

\* Every change classify emits is one of the changes it may emit.
LEMMA ClassifyType ==
    ASSUME NEW b \in InventoryDoc, NEW n \in InventoryDoc
    PROVE  Classify(b, n) \subseteq Change
<1>1. ASSUME NEW k \in Kinds, NEW as \in SUBSET Assets
      PROVE  OnAssets(k, as) \subseteq AssetChange
  <2>1. \A a \in as : [kind |-> k, asset |-> a] \in AssetChange
    BY <1>1 DEF AssetChange
  <2> QED BY <2>1 DEF OnAssets
<1>2. ASSUME NEW k \in Kinds, NEW keys \in SUBSET (Rules \X Assets)
      PROVE  OnFindings(k, keys) \subseteq FindingChange
  <2>1. \A p \in keys : p[1] \in Rules /\ p[2] \in Assets
    BY <1>2
  <2>2. \A p \in keys : [kind |-> k, asset |-> p[2], rule |-> p[1]] \in FindingChange
    BY <1>2, <2>1 DEF FindingChange
  <2> QED BY <2>2 DEF OnFindings
<1>3. ASSUME NEW k \in Kinds, NEW ss \in SUBSET Sources
      PROVE  OnSources(k, ss) \subseteq SourceChange
  <2>1. \A s \in ss : [kind |-> k, source |-> s] \in SourceChange
    BY <1>3 DEF SourceChange
  <2> QED BY <2>1 DEF OnSources
<1>4. /\ Added(b, n) \in SUBSET Assets
      /\ UnverifiedAssets(b, n) \in SUBSET Assets
      /\ Removed(b, n) \in SUBSET Assets
      /\ Changed(b, n) \in SUBSET Assets
  BY DEF Added, UnverifiedAssets, Removed, Gone, Changed, Present
<1>5. /\ FindingsNew(b, n) \in SUBSET (Rules \X Assets)
      /\ FindingsUnverified(b, n) \in SUBSET (Rules \X Assets)
      /\ FindingsResolved(b, n) \in SUBSET (Rules \X Assets)
  BY FindingKeysType DEF FindingsNew, FindingsUnverified, FindingsResolved
<1>6. /\ SourcesBroken(b, n) \in SUBSET Sources
      /\ SourcesFixed(b, n) \in SUBSET Sources
      /\ SourcesPartial(b, n) \in SUBSET Sources
      /\ b.sources \in SUBSET Sources
      /\ n.sources \in SUBSET Sources
  BY DEF SourcesBroken, SourcesFixed, SourcesPartial, InventoryDoc
<1>7. \A c \in Classify(b, n) : c \in AssetChange \/ c \in FindingChange \/ c \in SourceChange
  <2>1. /\ OnAssets("asset-added", Added(b, n)) \subseteq AssetChange
        /\ OnAssets("asset-retired", {a \in Removed(b, n) : GoneForAReason(a, n.at)}) \subseteq AssetChange
        /\ OnAssets("asset-removed", {a \in Removed(b, n) : ~GoneForAReason(a, n.at)}) \subseteq AssetChange
        /\ OnAssets("asset-unverified", UnverifiedAssets(b, n)) \subseteq AssetChange
        /\ OnAssets("algorithm-weakened", {a \in Changed(b, n) : n.entries[a].strength = "weak"}) \subseteq AssetChange
        /\ OnAssets("algorithm-strengthened", {a \in Changed(b, n) : n.entries[a].strength = "strong"}) \subseteq AssetChange
    BY <1>1, <1>4 DEF Kinds
  <2>2. /\ OnFindings("finding-new", FindingsNew(b, n)) \subseteq FindingChange
        /\ OnFindings("finding-resolved", FindingsResolved(b, n)) \subseteq FindingChange
        /\ OnFindings("finding-unverified", FindingsUnverified(b, n)) \subseteq FindingChange
    BY <1>2, <1>5 DEF Kinds
  <2>3. /\ OnSources("source-broken", SourcesBroken(b, n)) \subseteq SourceChange
        /\ OnSources("source-fixed", SourcesFixed(b, n)) \subseteq SourceChange
        /\ OnSources("source-partial", SourcesPartial(b, n)) \subseteq SourceChange
        /\ OnSources("source-added", n.sources \ b.sources) \subseteq SourceChange
        /\ OnSources("source-removed", b.sources \ n.sources) \subseteq SourceChange
    BY <1>3, <1>6 DEF Kinds
  <2> QED BY ONLY <2>1, <2>2, <2>3 DEF Classify
<1> QED BY <1>7 DEF Change

-----------------------------------------------------------------------------
(* Type correctness                                                         *)

\* In every reachable state each variable has its type.
THEOREM TypeCorrect == Spec => []TypeOK
<1>1. Init => TypeOK
  BY NoResultsType, NoInventoryType DEF Init, TypeOK, Unseen, Strengths
<1>2. TypeOK /\ [Next]_vars => TypeOK'
  <2> SUFFICES ASSUME TypeOK, [Next]_vars PROVE TypeOK'
    OBVIOUS
  <2> USE DEF TypeOK
  <2>1. CASE Reconfigure
    BY <2>1 DEF Reconfigure, scanVars, history
  <2>2. CASE StartScan
    <3>1. NoResults(configured) \in Results
      BY NoResultsType
    <3>2. /\ configured' = configured /\ phase' = "collecting" /\ clock' = clock
          /\ pending' = configured /\ results' = NoResults(configured)
          /\ inventory' = inventory /\ changes' = {} /\ examined' = examined
          /\ sighting' = sighting /\ feed' = feed
      BY <2>2 DEF StartScan, history
    <3> QED BY <3>1, <3>2
  <2>3. ASSUME NEW s \in Sources, CollectorFails(s) PROVE TypeOK'
    BY <2>3 DEF CollectorFails, Results, history
  <2>4. ASSUME NEW s \in Sources, CollectorReports(s) PROVE TypeOK'
    <3>1. PICK gaps \in SUBSET Areas[s],
               held \in [HeldBy(s) -> Strengths \union {Missing}],
               looked \in SUBSET HeldBy(s) : Report(s, gaps, held, looked)
      BY <2>4 DEF CollectorReports
    <3>2. [results.gaps EXCEPT ![s] = gaps] \in [Sources -> SUBSET Scopes]
      BY DEF Results, ConstantsAssumption
    <3>3. [a \in Assets |-> IF a \in looked THEN held[a] ELSE results.found[a]]
             \in [Assets -> Strengths \union {Missing}]
      BY DEF Results
    <3>4. results' \in Results
      BY <3>1, <3>2, <3>3 DEF Report, Results
    <3>5. examined' \subseteq Assets
      BY <3>1 DEF Report, HeldBy
    <3> QED BY <2>4, <3>4, <3>5 DEF CollectorReports
  <2>5. ASSUME NEW carry \in CarryModes, FinishScan(carry) PROVE TypeOK'
    <3> DEFINE base == IF carry THEN inventory ELSE NoInventory
               new == Scan(base, results, clock + 1)
    <3>1. new \in InventoryDoc
      BY ScanType, NoInventoryType
    <3>2. inventory' = new /\ clock' = clock + 1 /\ phase' = "idle"
      BY <2>5 DEF FinishScan
    <3>3. changes' \subseteq Change
      BY <2>5, <3>1, ClassifyType DEF FinishScan
    <3>4. sighting' \in [Assets -> [strength: Strengths, last: Nat]]
      BY <2>5 DEF FinishScan, Results
    <3>5. feed' \subseteq Assets
      <4> HIDE DEF new
      <4>1. Present(new) \subseteq Assets
        BY DEF Present
      <4>2. \A c \in changes' : c.kind = "asset-added" => c.asset \in Assets
        <5>1. inventory.at = 0 => changes' = {}
          BY <2>5 DEF FinishScan
        <5>2. inventory.at # 0 => changes' = Classify(inventory, new)
          BY <2>5 DEF FinishScan, new
        <5>3. \A c \in Classify(inventory, new) :
                 c.kind = "asset-added" => c.asset \in Added(inventory, new)
          BY DEF Classify, OnAssets, OnFindings, OnSources
        <5> QED BY <5>1, <5>2, <5>3 DEF Added, Present
      <4> QED BY <2>5, <4>1, <4>2 DEF FinishScan, new
    <3> QED
      BY <2>5, <3>1, <3>2, <3>3, <3>4, <3>5, NoResultsType DEF FinishScan
  <2>6. CASE UNCHANGED vars
    BY <2>6 DEF vars
  <2> QED BY <2>1, <2>2, <2>3, <2>4, <2>5, <2>6 DEF Next
<1> QED BY <1>1, <1>2, PTL DEF Spec

-----------------------------------------------------------------------------
(* The inductive invariant                                                  *)

\* What is unverified under the results a scan ends with is unverified in the
\* inventory it writes, which has the same sources, failures and gaps.
LEMMA ScanCoverage ==
    ASSUME NEW base, NEW r, NEW now
    PROVE  LET new == Scan(base, r, now) IN
           /\ new.at = now
           /\ new.sources = r.sources
           /\ new.entries = CarryForward(base, r, now)
           /\ \A a \in Assets : Unverified(new, a) <=> Unverified(r, a)
BY DEF Scan, Unverified, Status

\* The answer of one source changes what is known of that source only.
LEMMA OtherSources ==
    ASSUME NEW r \in Results, NEW q \in Results, NEW a \in Assets,
           Home[a] \in r.failed <=> Home[a] \in q.failed,
           r.gaps[Home[a]] = q.gaps[Home[a]]
    PROVE  Unverified(r, a) <=> Unverified(q, a)
BY DEF Unverified, Status

\* An asset is unverified after the answer of its source exactly if one of the
\* gaps in that answer may hide it.
LEMMA GapsHide ==
    ASSUME NEW r \in Results, NEW a \in Assets,
           Home[a] \notin r.failed,
           r.gaps[Home[a]] \subseteq Areas[Home[a]]
    PROVE  Unverified(r, a) <=> Hidden(a, r.gaps[Home[a]])
<1>1. CASE ScopesOf[a] = {}
  BY <1>1 DEF Unverified, Status, AssetInGap, Hidden, Within
<1>2. CASE ScopesOf[a] # {}
  BY <1>2 DEF Unverified, Status, AssetInGap, Hidden, Within
<1> QED BY <1>1, <1>2

\* The entries of a new inventory: carried copies, fresh entries, and nothing.
LEMMA ScanEntries ==
    ASSUME NEW base \in InventoryDoc, NEW r \in Results, NEW now \in Nat,
           NEW a \in Assets
    PROVE  LET e == Scan(base, r, now).entries[a] IN
           /\ IsCarried(base, r, a) =>
                 /\ e # Missing
                 /\ e.strength = base.entries[a].strength
                 /\ e.last = base.entries[a].last
                 /\ ~e.observed
           /\ r.found[a] # Missing =>
                 /\ e # Missing
                 /\ e.strength = r.found[a]
                 /\ e.last = now
                 /\ e.observed
           /\ ~IsCarried(base, r, a) /\ r.found[a] = Missing => e = Missing
<1>1. IsCarried(base, r, a) => base.entries[a] \in Entry
  BY DEF IsCarried, InventoryDoc
<1>2. Scan(base, r, now).entries[a] = CarryForward(base, r, now)[a]
  BY DEF Scan
<1>3. \A e \in Entry : e # Missing
  BY DEF ConstantsAssumption
<1>4. CASE IsCarried(base, r, a)
  <2>1. CarryForward(base, r, now)[a] = [base.entries[a] EXCEPT !.observed = FALSE]
    BY <1>4 DEF CarryForward
  <2>2. CarryForward(base, r, now)[a] \in Entry
    BY <1>1, <1>4, <2>1 DEF Entry
  <2> QED BY <1>1, <1>2, <1>3, <1>4, <2>1, <2>2 DEF Entry, IsCarried
<1>5. CASE ~IsCarried(base, r, a) /\ r.found[a] # Missing
  <2>1. CarryForward(base, r, now)[a] = [strength |-> r.found[a], observed |-> TRUE, last |-> now]
    BY <1>5 DEF CarryForward, Observed
  <2>2. CarryForward(base, r, now)[a] \in Entry
    BY <1>5, <2>1 DEF Entry, Results
  <2>3. /\ CarryForward(base, r, now)[a].strength = r.found[a]
        /\ CarryForward(base, r, now)[a].last = now
        /\ CarryForward(base, r, now)[a].observed
    BY <2>1
  <2> QED BY <1>2, <1>3, <1>5, <2>2, <2>3
<1>6. CASE ~IsCarried(base, r, a) /\ r.found[a] = Missing
  BY <1>2, <1>6 DEF CarryForward, Observed
<1> QED BY <1>4, <1>5, <1>6 DEF IsCarried

-----------------------------------------------------------------------------
(* What a scan knows of its own blind spots                                 *)

\* In whatever order the collectors of a scan answer, fail or meet gaps, its
\* results tell exactly which of the assets that were not found nobody looked
\* for (SourceResult.unverified).
THEOREM BlindSpotsKnown == Spec => []BlindSpotsAreKnown
<1> USE DEF BlindSpotsAreKnown
<1>1. Init => BlindSpotsAreKnown
  BY DEF Init, NoResults
<1>2. TypeOK /\ TypeOK' /\ BlindSpotsAreKnown /\ [Next]_vars => BlindSpotsAreKnown'
  <2> SUFFICES ASSUME TypeOK, TypeOK', BlindSpotsAreKnown, [Next]_vars
               PROVE  BlindSpotsAreKnown'
    OBVIOUS
  <2>0. /\ results \in Results /\ results' \in Results
        /\ \A a \in Assets : Home[a] \in Sources
    BY DEF TypeOK, ConstantsAssumption
  <2>1. CASE Reconfigure
    BY <2>1 DEF Reconfigure, scanVars, history
  <2>2. CASE StartScan
    <3>1. /\ phase' = "collecting" /\ pending' = configured
          /\ results' = NoResults(configured) /\ examined' = examined
      BY <2>2 DEF StartScan, history
    <3>2. \A a \in Assets : a \notin examined
      BY <2>2 DEF StartScan
    <3>3. /\ results'.sources = configured /\ results'.failed = {}
          /\ \A a \in Assets : results'.found[a] = Missing
      BY <3>1 DEF NoResults
    <3>4. ASSUME NEW a \in Assets
          PROVE  /\ a \in examined' => Home[a] \in results'.sources \ pending'
                 /\ results'.found[a] # Missing => a \in examined'
                 /\ ~(Home[a] \in results'.sources \ pending')
      BY <3>1, <3>2, <3>3
    <3> QED BY <3>1, <3>3, <3>4
  <2>3. ASSUME NEW s \in Sources, CollectorFails(s) PROVE BlindSpotsAreKnown'
    <3>1. /\ s \in pending /\ pending' = pending \ {s} /\ phase' = phase
          /\ results' = [results EXCEPT !.failed = @ \union {s}]
          /\ examined' = examined
      BY <2>3 DEF CollectorFails, history
    <3>2. /\ results'.sources = results.sources /\ results'.gaps = results.gaps
          /\ results'.found = results.found
          /\ results'.failed = results.failed \union {s}
      BY <2>0, <3>1 DEF Results
    <3>3. ASSUME NEW a \in Assets, Home[a] # s
          PROVE  Unverified(results', a) <=> Unverified(results, a)
      BY <2>0, <3>2, <3>3, OtherSources
    <3>4. ASSUME NEW a \in Assets, Home[a] = s
          PROVE  Unverified(results', a) /\ a \notin examined
      BY <3>1, <3>2, <3>4 DEF Unverified, Status
    <3> QED BY <3>1, <3>2, <3>3, <3>4
  <2>4. ASSUME NEW s \in Sources, CollectorReports(s) PROVE BlindSpotsAreKnown'
    <3>1. /\ s \in pending /\ pending' = pending \ {s} /\ phase' = phase
      BY <2>4 DEF CollectorReports
    <3>2. PICK gaps \in SUBSET Areas[s],
               held \in [HeldBy(s) -> Strengths \union {Missing}],
               looked \in SUBSET HeldBy(s) :
            /\ \A a \in HeldBy(s) \ looked : Hidden(a, gaps)
            /\ \A a \in looked : Hidden(a, gaps) => held[a] # Missing
            /\ Report(s, gaps, held, looked)
      BY <2>4 DEF CollectorReports
    <3>3. /\ results'.sources = results.sources
          /\ results'.failed = results.failed
          /\ results'.gaps = [results.gaps EXCEPT ![s] = gaps]
          /\ results'.found = [a \in Assets |-> IF a \in looked THEN held[a]
                                                ELSE results.found[a]]
          /\ examined' = examined \union looked
      BY <2>0, <3>2 DEF Report, Results
    <3>4. \A a \in Assets : a \in HeldBy(s) <=> Home[a] = s
      BY DEF HeldBy
    <3>5. ASSUME NEW a \in Assets, Home[a] # s
          PROVE  /\ Unverified(results', a) <=> Unverified(results, a)
                 /\ results'.found[a] = results.found[a]
                 /\ a \in examined' <=> a \in examined
      <4>1. results'.gaps[Home[a]] = results.gaps[Home[a]]
        BY <2>0, <3>3, <3>5 DEF Results
      <4>2. Unverified(results', a) <=> Unverified(results, a)
        BY <2>0, <3>3, <4>1, OtherSources
      <4> QED BY <3>2, <3>3, <3>4, <3>5, <4>2
    <3>6. ASSUME NEW a \in Assets, Home[a] = s
          PROVE  /\ Unverified(results', a) <=> Hidden(a, gaps)
                 /\ a \in examined' <=> a \in looked
                 /\ results'.found[a] = IF a \in looked THEN held[a] ELSE Missing
      <4>1. results'.gaps[Home[a]] = gaps
        BY <2>0, <3>3, <3>6 DEF Results
      <4>2. Home[a] \notin results'.failed
        BY <3>1, <3>3, <3>6
      <4>3. Unverified(results', a) <=> Hidden(a, gaps)
        BY <2>0, <3>2, <3>6, <4>1, <4>2, GapsHide
      <4>4. a \notin examined /\ results.found[a] = Missing
        BY <3>1, <3>6
      <4> QED BY <3>3, <4>3, <4>4
    <3>7. ASSUME NEW a \in Assets
          PROVE  /\ a \in examined' => Home[a] \in results'.sources \ pending'
                 /\ results'.found[a] # Missing => a \in examined'
                 /\ Home[a] \in results'.sources \ pending' /\ results'.found[a] = Missing
                    => (Unverified(results', a) <=> a \notin examined')
      <4>1. CASE Home[a] = s
        BY <3>1, <3>2, <3>3, <3>4, <3>6, <4>1
      <4>2. CASE Home[a] # s
        BY <3>1, <3>3, <3>5, <4>2
      <4> QED BY <4>1, <4>2
    <3> QED BY <3>1, <3>3, <3>7
  <2>5. ASSUME NEW carry \in CarryModes, FinishScan(carry) PROVE BlindSpotsAreKnown'
    BY <2>5 DEF FinishScan, NoResults
  <2>6. CASE UNCHANGED vars
    BY <2>6 DEF vars
  <2> QED BY <2>1, <2>2, <2>3, <2>4, <2>5, <2>6 DEF Next
<1> QED BY <1>1, <1>2, TypeCorrect, PTL DEF Spec

-----------------------------------------------------------------------------
(* What the inventory says is what was last seen                            *)

\* The steps that finish no scan leave the inventory, its date, the sightings
\* and the feed alone.
LEMMA OnlyFinishWrites ==
    ASSUME [Next]_vars, \A carry \in CarryModes : ~FinishScan(carry)
    PROVE  UNCHANGED <<clock, inventory, sighting, feed>> /\ ~Finishes
<1>1. CASE Reconfigure
  BY <1>1 DEF Reconfigure, scanVars, history, Finishes
<1>2. CASE StartScan
  BY <1>2 DEF StartScan, history, Finishes
<1>3. CASE \E s \in Sources : CollectorFails(s)
  BY <1>3 DEF CollectorFails, history, Finishes
<1>4. CASE \E s \in Sources : CollectorReports(s)
  BY <1>4 DEF CollectorReports, Finishes
<1>5. CASE UNCHANGED vars
  BY <1>5 DEF vars, Finishes
<1> QED BY <1>1, <1>2, <1>3, <1>4, <1>5 DEF Next

\* The dates in an inventory are those of scans.
LEMMA DatesCorrect == Spec => []DatesAreScans
<1>1. Init => DatesAreScans
  BY DEF Init, DatesAreScans, NoInventory, Present
<1>2. TypeOK /\ TypeOK' /\ DatesAreScans /\ [Next]_vars => DatesAreScans'
  <2> SUFFICES ASSUME TypeOK, TypeOK', DatesAreScans, [Next]_vars
               PROVE  DatesAreScans'
    OBVIOUS
  <2>1. CASE \A carry \in CarryModes : ~FinishScan(carry)
    BY <2>1, OnlyFinishWrites DEF DatesAreScans, Present
  <2>2. ASSUME NEW carry \in CarryModes, FinishScan(carry) PROVE DatesAreScans'
    <3> DEFINE base == IF carry THEN inventory ELSE NoInventory
               new == Scan(base, results, clock + 1)
    <3>1. /\ inventory' = new /\ clock' = clock + 1
          /\ clock \in Nat /\ results \in Results /\ base \in InventoryDoc
      BY <2>2, NoInventoryType DEF FinishScan, TypeOK
    <3>2. new.at = clock + 1
      BY ScanCoverage
    <3>3. ASSUME NEW a \in Assets, new.entries[a] # Missing
          PROVE  new.entries[a].last <= clock + 1
      <4>1. CASE IsCarried(base, results, a)
        <5>1. base = inventory
          BY <4>1 DEF IsCarried, NoInventory
        <5>2. inventory.entries[a] # Missing /\ inventory.entries[a] \in Entry
          BY <4>1, <5>1, <3>1 DEF IsCarried, InventoryDoc
        <5>3. inventory.entries[a].last <= clock
          BY <5>2 DEF DatesAreScans, Present
        <5>4. new.entries[a].last = inventory.entries[a].last
          BY <3>1, <4>1, <5>1, ScanEntries
        <5>5. inventory.entries[a].last \in Nat
          BY <5>2 DEF Entry
        <5> QED BY <3>1, <5>3, <5>4, <5>5
      <4>2. CASE ~IsCarried(base, results, a)
        <5>1. clock + 1 \in Nat
          BY <3>1
        <5>2. results.found[a] # Missing
          BY <3>1, <3>3, <4>2, <5>1, ScanEntries
        <5>3. new.entries[a].last = clock + 1
          BY <3>1, <5>1, <5>2, ScanEntries
        <5> QED BY <3>1, <5>3
      <4> QED BY <4>1, <4>2
    <3> QED BY <3>1, <3>2, <3>3 DEF DatesAreScans, Present
  <2> QED BY <2>1, <2>2
<1> QED BY <1>1, <1>2, TypeCorrect, PTL DEF Spec

\* However long a source stays unreachable, the inventory keeps saying of each
\* of its assets what the last scan that saw it saw, and when, and marks
\* exactly the entries of the newest scan as observed (carry_forward).
THEOREM SightingsKept == Spec => []EntriesAreSightings
<1>1. Init => EntriesAreSightings
  BY DEF Init, EntriesAreSightings, NoInventory, Present
<1>2. TypeOK /\ DatesAreScans /\ EntriesAreSightings /\ [Next]_vars
         => EntriesAreSightings'
  <2> SUFFICES ASSUME TypeOK, DatesAreScans, EntriesAreSightings, [Next]_vars
               PROVE  EntriesAreSightings'
    OBVIOUS
  <2>1. CASE \A carry \in CarryModes : ~FinishScan(carry)
    BY <2>1, OnlyFinishWrites DEF EntriesAreSightings, Present
  <2>2. ASSUME NEW carry \in CarryModes, FinishScan(carry)
        PROVE  EntriesAreSightings'
    <3> DEFINE base == IF carry THEN inventory ELSE NoInventory
               new == Scan(base, results, clock + 1)
    <3>1. /\ inventory' = new
          /\ clock \in Nat /\ results \in Results /\ base \in InventoryDoc
      BY <2>2, NoInventoryType DEF FinishScan, TypeOK
    <3>2. new.at = clock + 1
      BY ScanCoverage
    <3>3. sighting' = [a \in Assets |->
                          IF results.found[a] = Missing THEN sighting[a]
                          ELSE [strength |-> results.found[a], last |-> clock + 1]]
      BY <2>2 DEF FinishScan
    <3>4. ASSUME NEW a \in Assets, new.entries[a] # Missing
          PROVE  /\ [strength |-> new.entries[a].strength, last |-> new.entries[a].last]
                       = sighting'[a]
                 /\ new.entries[a].observed <=> new.entries[a].last = clock + 1
      <4>1. CASE IsCarried(base, results, a)
        <5>1. base = inventory /\ results.found[a] = Missing
          BY <4>1 DEF IsCarried, NoInventory
        <5>2. inventory.entries[a] # Missing /\ inventory.entries[a] \in Entry
          BY <4>1, <5>1, <3>1 DEF IsCarried, InventoryDoc
        <5>3. /\ new.entries[a].strength = inventory.entries[a].strength
              /\ new.entries[a].last = inventory.entries[a].last
              /\ ~new.entries[a].observed
          BY <3>1, <4>1, <5>1, ScanEntries
        <5>4. /\ inventory.entries[a].last \in Nat
              /\ inventory.entries[a].last <= clock
          BY <5>2 DEF Entry, DatesAreScans, Present
        <5>5. [strength |-> inventory.entries[a].strength,
               last |-> inventory.entries[a].last] = sighting[a]
          BY <5>2 DEF EntriesAreSightings, Present
        <5>6. sighting'[a] = sighting[a]
          BY <3>3, <5>1
        <5>7. [strength |-> new.entries[a].strength, last |-> new.entries[a].last] = sighting'[a]
          BY <5>3, <5>5, <5>6
        <5>8. new.entries[a].last # clock + 1
          BY <3>1, <5>3, <5>4
        <5> QED BY <5>3, <5>7, <5>8
      <4>2. CASE ~IsCarried(base, results, a)
        <5>1. results.found[a] # Missing
          BY <3>1, <3>4, <4>2, ScanEntries
        <5>2. /\ new.entries[a].strength = results.found[a]
              /\ new.entries[a].last = clock + 1
              /\ new.entries[a].observed
          BY <3>1, <5>1, ScanEntries
        <5>3. sighting'[a] = [strength |-> results.found[a], last |-> clock + 1]
          BY <3>3, <5>1
        <5> QED BY <5>2, <5>3
      <4> QED BY <4>1, <4>2
    <3> HIDE DEF new
    <3> QED BY <3>1, <3>2, <3>4 DEF EntriesAreSightings, Present
  <2> QED BY <2>1, <2>2
<1> QED BY <1>1, <1>2, TypeCorrect, DatesCorrect, PTL DEF Spec

\* What an inventory says of an asset it says with that asset's own entry, at
\* the date of the inventory: scan() evaluates the carried assets with the rest.
LEMMA FindingsCorrect == Spec => []FindingsAreOfEntries
<1>1. Init => FindingsAreOfEntries
  <2> SUFFICES ASSUME Init PROVE FindingsAreOfEntries
    OBVIOUS
  <2>1. /\ inventory.findings = {} /\ inventory.at = 0
        /\ \A a \in Assets : inventory.entries[a] = Missing
    BY DEF Init, NoInventory
  <2>2. inventory.entries \in [Assets -> Entry \union {Missing}]
    BY DEF Init, NoInventory
  <2>3. FindingsOn(inventory.entries, inventory.at) = {}
    BY <2>1, <2>2, FindingsAre DEF Finding
  <2> QED BY <2>1, <2>3 DEF FindingsAreOfEntries
<1>2. FindingsAreOfEntries /\ [Next]_vars => FindingsAreOfEntries'
  <2> SUFFICES ASSUME FindingsAreOfEntries, [Next]_vars PROVE FindingsAreOfEntries'
    OBVIOUS
  <2>1. CASE \A carry \in CarryModes : ~FinishScan(carry)
    BY <2>1, OnlyFinishWrites DEF FindingsAreOfEntries
  <2>2. ASSUME NEW carry \in CarryModes, FinishScan(carry) PROVE FindingsAreOfEntries'
    <3> DEFINE base == IF carry THEN inventory ELSE NoInventory
    <3>1. inventory' = Scan(base, results, clock + 1)
      BY <2>2 DEF FinishScan
    <3> HIDE DEF base
    <3> QED BY <3>1 DEF Scan, FindingsAreOfEntries
  <2> QED BY <2>1, <2>2
<1> QED BY <1>1, <1>2, PTL DEF Spec

\* An inventory has entries of the sources it lists only: what scan() found is
\* of a source it asked, and carry_forward() leaves out the rest.
THEOREM SourcesListed == Spec => []EntriesAreOfSources
<1>1. Init => EntriesAreOfSources
  BY DEF Init, NoInventory, EntriesAreOfSources, Present
<1>2. TypeOK /\ BlindSpotsAreKnown /\ EntriesAreOfSources /\ [Next]_vars
         => EntriesAreOfSources'
  <2> SUFFICES ASSUME TypeOK, BlindSpotsAreKnown, EntriesAreOfSources, [Next]_vars
               PROVE  EntriesAreOfSources'
    OBVIOUS
  <2>1. CASE \A carry \in CarryModes : ~FinishScan(carry)
    BY <2>1, OnlyFinishWrites DEF EntriesAreOfSources, Present
  <2>2. ASSUME NEW carry \in CarryModes, FinishScan(carry)
        PROVE  EntriesAreOfSources'
    <3> DEFINE base == IF carry THEN inventory ELSE NoInventory
               new == Scan(base, results, clock + 1)
    <3>1. /\ inventory' = new
          /\ clock \in Nat /\ results \in Results /\ base \in InventoryDoc
      BY <2>2, NoInventoryType DEF FinishScan, TypeOK
    <3>2. new.sources = results.sources
      BY ScanCoverage
    <3>3. ASSUME NEW a \in Assets, new.entries[a] # Missing
          PROVE  Home[a] \in results.sources
      <4>1. clock + 1 \in Nat
        BY <3>1
      <4> HIDE DEF base
      <4>2. ~IsCarried(base, results, a) /\ results.found[a] = Missing
              => new.entries[a] = Missing
        BY <3>1, <4>1, ScanEntries
      <4>3. IsCarried(base, results, a) \/ results.found[a] # Missing
        BY <3>3, <4>2
      <4> QED BY <4>3 DEF IsCarried, BlindSpotsAreKnown
    <3> HIDE DEF new
    <3> QED BY <3>1, <3>2, <3>3 DEF EntriesAreOfSources, Present
  <2> QED BY <2>1, <2>2
<1> QED BY <1>1, <1>2, TypeCorrect, BlindSpotsKnown, PTL DEF Spec

\* The inductive invariant holds.
THEOREM Inductive == Spec => []IInv
BY TypeCorrect, BlindSpotsKnown, DatesCorrect, SightingsKept, FindingsCorrect,
   SourcesListed, PTL DEF IInv

-----------------------------------------------------------------------------
(* Nothing disappears unseen                                                *)

\* With the baseline carried forward, an asset of a configured source leaves
\* the inventory only in a scan that looked for it.
THEOREM AbsenceObserved ==
    ASSUME CarryModes = {TRUE}
    PROVE  Spec => AbsenceIsObserved
<1>1. TypeOK /\ BlindSpotsAreKnown /\ [Next]_vars =>
         (Finishes => \A a \in Present(inventory) \ Present(inventory)' :
                         Home[a] \in results.sources => a \in examined)
  <2> SUFFICES ASSUME TypeOK, BlindSpotsAreKnown, [Next]_vars, Finishes,
                      NEW a \in Present(inventory) \ Present(inventory)',
                      Home[a] \in results.sources, a \notin examined
               PROVE  FALSE
    OBVIOUS
  <2>1. FinishScan(TRUE)
    BY OnlyFinishWrites
  <2>2. a \in Assets /\ inventory.entries[a] # Missing
    BY DEF Present
  <2>3. pending = {} /\ inventory' = Scan(inventory, results, clock + 1)
    BY <2>1 DEF FinishScan
  <2>4. results.found[a] = Missing /\ Unverified(results, a)
    BY <2>2, <2>3 DEF BlindSpotsAreKnown
  <2>5. IsCarried(inventory, results, a)
    BY <2>2, <2>4 DEF IsCarried
  <2>6. inventory'.entries[a] # Missing
    BY <2>2, <2>3, <2>5, ScanEntries DEF TypeOK
  <2> QED BY <2>2, <2>6 DEF Present
<1> QED BY <1>1, TypeCorrect, BlindSpotsKnown, PTL DEF Spec, AbsenceIsObserved

\* The assets a report names as added, and those it names as removed or
\* retired, are those the diff added and removed.
LEMMA ReportedAssets ==
    ASSUME NEW b, NEW n
    PROVE  /\ {c.asset : c \in {d \in Classify(b, n) : d.kind = "asset-added"}}
                 = Added(b, n)
           /\ {c.asset : c \in {d \in Classify(b, n) :
                                 d.kind \in {"asset-removed", "asset-retired"}}}
                 = Removed(b, n)
<1> DEFINE retired == {a \in Removed(b, n) : GoneForAReason(a, n.at)}
           removed == {a \in Removed(b, n) : ~GoneForAReason(a, n.at)}
<1>1. \A c \in Classify(b, n) : c.kind = "asset-added" =>
         \E a \in Added(b, n) : c = [kind |-> "asset-added", asset |-> a]
  BY DEF Classify, OnAssets, OnFindings, OnSources
<1>2. \A c \in Classify(b, n) : c.kind \in {"asset-removed", "asset-retired"} =>
         \E a \in Removed(b, n) : c.asset = a
  BY DEF Classify, OnAssets, OnFindings, OnSources
<1>3. \A a \in Added(b, n) : [kind |-> "asset-added", asset |-> a] \in Classify(b, n)
  BY DEF Classify, OnAssets
<1>4. \A a \in retired : [kind |-> "asset-retired", asset |-> a] \in Classify(b, n)
  BY DEF Classify, OnAssets
<1>5. \A a \in removed : [kind |-> "asset-removed", asset |-> a] \in Classify(b, n)
  BY DEF Classify, OnAssets
<1>6. \A a \in Removed(b, n) :
         \E c \in Classify(b, n) :
            c.kind \in {"asset-removed", "asset-retired"} /\ c.asset = a
  <2> SUFFICES ASSUME NEW a \in Removed(b, n)
               PROVE  \E c \in Classify(b, n) :
                         c.kind \in {"asset-removed", "asset-retired"} /\ c.asset = a
    OBVIOUS
  <2>1. CASE GoneForAReason(a, n.at)
    <3> DEFINE c == [kind |-> "asset-retired", asset |-> a]
    <3>1. c \in Classify(b, n)
      BY <1>4, <2>1
    <3> QED BY <3>1
  <2>2. CASE ~GoneForAReason(a, n.at)
    <3> DEFINE c == [kind |-> "asset-removed", asset |-> a]
    <3>1. c \in Classify(b, n)
      BY <1>5, <2>2
    <3> QED BY <3>1
  <2> QED BY <2>1, <2>2
<1>7. \A a \in Added(b, n) :
         \E c \in Classify(b, n) : c.kind = "asset-added" /\ c.asset = a
  <2> SUFFICES ASSUME NEW a \in Added(b, n)
               PROVE  \E c \in Classify(b, n) : c.kind = "asset-added" /\ c.asset = a
    OBVIOUS
  <2> DEFINE c == [kind |-> "asset-added", asset |-> a]
  <2>1. c \in Classify(b, n)
    BY <1>3
  <2> QED BY <2>1
<1>8. \A c \in Classify(b, n) : c.kind = "asset-added" => c.asset \in Added(b, n)
  BY <1>1
<1> HIDE DEF retired, removed
<1> QED BY <1>2, <1>6, <1>7, <1>8

\* An asset is reported removed or retired only by a scan that looked for it,
\* or because its source left the configuration, whether or not the scan
\* carries its baseline forward.
THEOREM RemovalsObserved == Spec => RemovalsAreObserved
<1>1. TypeOK /\ BlindSpotsAreKnown /\ [Next]_vars =>
         (Finishes => Reported({"asset-removed", "asset-retired"}) \cap InScope
                         \subseteq examined)
  <2> SUFFICES ASSUME TypeOK, BlindSpotsAreKnown, [Next]_vars, Finishes,
                      NEW a \in Reported({"asset-removed", "asset-retired"}),
                      a \in InScope, a \notin examined
               PROVE  FALSE
    OBVIOUS
  <2>1. PICK carry \in CarryModes : FinishScan(carry)
    BY OnlyFinishWrites
  <2> DEFINE new == Scan(IF carry THEN inventory ELSE NoInventory, results, clock + 1)
  <2>2. pending = {} /\ a \in Assets /\ Home[a] \in results.sources
    BY <2>1 DEF FinishScan, InScope
  <2>3. changes' # {}
    BY DEF Reported
  <2>4. changes' = Classify(inventory, new)
    BY <2>1, <2>3 DEF FinishScan
  <2>5. a \in Removed(inventory, new)
    BY <2>4, ReportedAssets DEF Reported
  <2>6. Unverified(results, a)
    BY <2>2 DEF BlindSpotsAreKnown
  <2>7. /\ new.sources = results.sources
        /\ Unverified(new, a)
    BY <2>2, <2>6, ScanCoverage
  <2> HIDE DEF new
  <2> QED BY <2>2, <2>5, <2>7 DEF Removed, UnverifiedAssets
<1> QED BY <1>1, TypeCorrect, BlindSpotsKnown, PTL DEF Spec, RemovalsAreObserved

\* The findings an inventory has on an asset by a rule that does not depend on
\* the date, it has whenever the asset is there with the same key size.
LEMMA UndatedFindings ==
    ASSUME NEW entries \in [Assets -> Entry \union {Missing}], NEW now \in Nat,
           NEW later \in [Assets -> Entry \union {Missing}], NEW then \in Nat,
           NEW f \in FindingsOn(entries, now),
           f.rule \notin DatedRules, later[f.asset] # Missing,
           later[f.asset].strength = entries[f.asset].strength
    PROVE  \E g \in FindingsOn(later, then) :
              /\ f \in Finding /\ g.rule = f.rule /\ g.asset = f.asset
              /\ g.verified = (later[f.asset].observed \/ f.rule = "unlinked-asset")
<1> DEFINE g == [asset |-> f.asset, rule |-> f.rule,
                 verified |-> later[f.asset].observed \/ f.rule = "unlinked-asset"]
<1>1. f \in Finding /\ entries[f.asset] # Missing
  BY FindingsAre
<1>2. \/ f.rule \in PolicyRules(f.asset, entries[f.asset], now)
      \/ AppsDeclared /\ f.asset \notin Claimed /\ f.rule = "unlinked-asset"
  BY FindingsAre
<1>3. later[f.asset] \in Entry
  BY <1>1 DEF Finding
<1>4. g \in Finding
  BY <1>1, <1>3 DEF Finding, Entry
<1>5. /\ g.rule = f.rule /\ g.asset = f.asset
      /\ g.verified = (later[f.asset].observed \/ f.rule = "unlinked-asset")
  OBVIOUS
<1>6. CASE AppsDeclared /\ f.asset \notin Claimed /\ f.rule = "unlinked-asset"
  <2>1. g \in FindingsOn(later, then)
    BY <1>4, <1>6, FindingsAre
  <2> QED BY <1>1, <1>5, <2>1
<1>7. CASE f.rule \in PolicyRules(f.asset, entries[f.asset], now)
  <2>1. f.rule = "weak-key-size" /\ entries[f.asset].strength = "weak"
    BY <1>7 DEF PolicyRules, DatedRules
  <2>2. f.rule \in PolicyRules(f.asset, later[f.asset], then)
    BY <2>1 DEF PolicyRules
  <2>3. g.verified = later[f.asset].observed
    BY <1>3, <2>1 DEF Entry
  <2>4. g \in FindingsOn(later, then)
    BY <1>4, <2>2, <2>3, FindingsAre
  <2> QED BY <1>1, <1>5, <2>4
<1> QED BY <1>2, <1>6, <1>7

\* A report that calls a finding resolved calls it that because the diff does.
LEMMA ReportedResolutions ==
    ASSUME NEW b, NEW n, NEW c \in Classify(b, n), c.kind = "finding-resolved"
    PROVE  <<c.rule, c.asset>> \in FindingsResolved(b, n)
<1>1. c \in OnFindings("finding-resolved", FindingsResolved(b, n))
  BY DEF Classify, OnAssets, OnFindings, OnSources
<1>2. PICK k \in FindingsResolved(b, n) : c.asset = k[2] /\ c.rule = k[1]
  BY <1>1 DEF OnFindings
<1>3. \E f \in b.findings : k = <<f.rule, f.asset>>
  BY <1>2 DEF FindingsResolved, FindingKeys
<1>4. k = <<k[1], k[2]>>
  BY <1>3
<1> QED BY <1>2, <1>4

\* A finding that does not depend on the date is reported resolved only by a
\* scan that looked for its asset, whether or not it carries its baseline
\* forward: with carrying the copy has the same finding, without it the diff
\* finds the asset unverified.
THEOREM ResolutionsObserved == Spec => UndatedResolutionsAreObserved
<1>1. TypeOK /\ BlindSpotsAreKnown /\ FindingsAreOfEntries /\ [Next]_vars =>
         (Finishes =>
            \A c \in changes' :
               /\ c.kind = "finding-resolved"
               /\ c.rule \notin DatedRules
               /\ Home[c.asset] \in results.sources
               => c.asset \in examined)
  <2> SUFFICES ASSUME TypeOK, BlindSpotsAreKnown, FindingsAreOfEntries, [Next]_vars,
                      Finishes, NEW c \in changes', c.kind = "finding-resolved",
                      c.rule \notin DatedRules, Home[c.asset] \in results.sources,
                      c.asset \notin examined
               PROVE  FALSE
    OBVIOUS
  <2>1. PICK carry \in CarryModes : FinishScan(carry)
    BY OnlyFinishWrites
  <2> DEFINE base == IF carry THEN inventory ELSE NoInventory
             new == Scan(base, results, clock + 1)
             a == c.asset
  <2>2. pending = {} /\ changes' = Classify(inventory, new)
    BY <2>1 DEF FinishScan
  <2>3. /\ <<c.rule, a>> \in FindingKeys(inventory)
        /\ <<c.rule, a>> \notin FindingKeys(new)
        /\ a \notin UnverifiedAssets(inventory, new)
    BY <2>2, ReportedResolutions DEF FindingsResolved, FindingsUnverified
  <2>4. PICK f \in inventory.findings : f.rule = c.rule /\ f.asset = a
    BY <2>3 DEF FindingKeys
  <2>5. /\ f \in FindingsOn(inventory.entries, inventory.at)
        /\ a \in Assets /\ inventory.entries[a] # Missing
    BY <2>4, FindingsAre DEF FindingsAreOfEntries, TypeOK, InventoryDoc, Finding
  <2>6. results.found[a] = Missing /\ Unverified(results, a)
    BY <2>2, <2>5 DEF BlindSpotsAreKnown
  <2>7. base \in InventoryDoc /\ new \in InventoryDoc /\ inventory \in InventoryDoc
    BY ScanType, NoInventoryType DEF TypeOK
  <2>8. CASE carry
    <3>1. IsCarried(base, results, a)
      BY <2>5, <2>6, <2>8 DEF IsCarried
    <3>2. /\ new.entries[a] # Missing
          /\ new.entries[a].strength = inventory.entries[a].strength
      BY <2>5, <2>7, <2>8, <3>1, ScanEntries DEF TypeOK
    <3>3. new.findings = FindingsOn(new.entries, clock + 1)
      BY DEF Scan
    <3>4. /\ inventory.entries \in [Assets -> Entry \union {Missing}]
          /\ new.entries \in [Assets -> Entry \union {Missing}]
          /\ inventory.at \in Nat /\ clock + 1 \in Nat
      BY <2>7 DEF InventoryDoc, TypeOK
    <3> HIDE DEF new, base
    <3>5. /\ f.rule \notin DatedRules /\ new.entries[f.asset] # Missing
          /\ new.entries[f.asset].strength = inventory.entries[f.asset].strength
      BY <2>4, <3>2
    <3>6. f \in FindingsOn(inventory.entries, inventory.at)
      BY <2>5
    <3>7. \E g \in FindingsOn(new.entries, clock + 1) : g.rule = f.rule /\ g.asset = f.asset
      BY <3>4, <3>5, <3>6, UndatedFindings
    <3> QED BY <2>3, <2>4, <3>3, <3>7 DEF FindingKeys
  <2>9. CASE ~carry
    <3>1. base.entries[a] = Missing
      <4>1. base = NoInventory
        BY <2>9
      <4> HIDE DEF base
      <4> QED BY <2>5, <4>1 DEF NoInventory
    <3>2. new.entries[a] = Missing
      <4>1. ~IsCarried(base, results, a)
        BY <3>1 DEF IsCarried
      <4> HIDE DEF base
      <4> QED BY <2>5, <2>6, <2>7, <4>1, ScanEntries DEF TypeOK
    <3>3. new.sources = results.sources /\ Unverified(new, a)
      BY <2>5, <2>6, ScanCoverage
    <3> HIDE DEF new, base
    <3> QED BY <2>3, <2>5, <3>2, <3>3 DEF UnverifiedAssets, Gone, Present
  <2> QED BY <2>8, <2>9
<1> QED BY <1>1, TypeCorrect, BlindSpotsKnown, FindingsCorrect, PTL
     DEF Spec, UndatedResolutionsAreObserved

\* With the baseline carried forward no outage closes a finding: the copy of its
\* asset has it again, not verified, and what is verified was looked at.
THEOREM FindingsOutlast ==
    ASSUME CarryModes = {TRUE}
    PROVE  Spec => FindingsOutlastOutages
<1>1. TypeOK /\ BlindSpotsAreKnown /\ FindingsAreOfEntries /\ [Next]_vars =>
         (Finishes =>
            /\ \A f \in inventory.findings :
                  /\ f.rule \notin DatedRules
                  /\ Home[f.asset] \in results.sources /\ f.asset \notin examined
                  => [f EXCEPT !.verified = (f.rule = "unlinked-asset")] \in inventory'.findings
            /\ \A f \in inventory'.findings :
                  f.rule # "unlinked-asset" => (f.verified <=> f.asset \in examined))
  <2> SUFFICES ASSUME TypeOK, BlindSpotsAreKnown, FindingsAreOfEntries, [Next]_vars, Finishes
               PROVE  /\ \A f \in inventory.findings :
                            /\ f.rule \notin DatedRules
                            /\ Home[f.asset] \in results.sources /\ f.asset \notin examined
                            => [f EXCEPT !.verified = (f.rule = "unlinked-asset")]
                                  \in inventory'.findings
                      /\ \A f \in inventory'.findings :
                            f.rule # "unlinked-asset" => (f.verified <=> f.asset \in examined)
    OBVIOUS
  <2> DEFINE new == Scan(inventory, results, clock + 1)
  <2>1. FinishScan(TRUE)
    BY OnlyFinishWrites
  <2>2. pending = {} /\ inventory' = new
    BY <2>1 DEF FinishScan
  <2>3. /\ inventory \in InventoryDoc /\ results \in Results
        /\ clock \in Nat /\ clock + 1 \in Nat
    BY DEF TypeOK
  <2>4. new \in InventoryDoc
    BY <2>3, ScanType
  <2>5. new.findings = FindingsOn(new.entries, clock + 1)
    BY DEF Scan
  <2>6. /\ inventory.findings = FindingsOn(inventory.entries, inventory.at)
        /\ inventory.entries \in [Assets -> Entry \union {Missing}]
        /\ new.entries \in [Assets -> Entry \union {Missing}] /\ inventory.at \in Nat
    BY <2>3, <2>4 DEF FindingsAreOfEntries, InventoryDoc
  <2> HIDE DEF new
  <2>7. ASSUME NEW f \in inventory.findings, f.rule \notin DatedRules,
               Home[f.asset] \in results.sources, f.asset \notin examined
        PROVE  [f EXCEPT !.verified = (f.rule = "unlinked-asset")] \in new.findings
    <3>1. f.asset \in Assets /\ inventory.entries[f.asset] # Missing
      BY <2>6, FindingsAre DEF Finding
    <3>2. results.found[f.asset] = Missing /\ Unverified(results, f.asset)
      BY <2>2, <2>7, <3>1 DEF BlindSpotsAreKnown
    <3>3. IsCarried(inventory, results, f.asset)
      BY <2>7, <3>1, <3>2 DEF IsCarried
    <3>4. /\ new.entries[f.asset] # Missing
          /\ new.entries[f.asset].strength = inventory.entries[f.asset].strength
          /\ ~new.entries[f.asset].observed
      BY <2>3, <3>1, <3>3, ScanEntries DEF new
    <3>5. PICK g \in new.findings :
             /\ f \in Finding /\ g.rule = f.rule /\ g.asset = f.asset
             /\ g.verified = (new.entries[f.asset].observed \/ f.rule = "unlinked-asset")
      BY <2>3, <2>5, <2>6, <2>7, <3>4, UndatedFindings
    <3>6. g \in Finding
      BY <2>4 DEF InventoryDoc
    <3>7. g.verified = (f.rule = "unlinked-asset")
      BY <3>4, <3>5, <3>6 DEF Finding
    <3>8. g = [f EXCEPT !.verified = (f.rule = "unlinked-asset")]
      BY <3>5, <3>6, <3>7 DEF Finding
    <3> QED BY <3>8
  <2>8. ASSUME NEW f \in new.findings, f.rule # "unlinked-asset"
        PROVE  f.verified <=> f.asset \in examined
    <3>1. f.asset \in Assets /\ new.entries[f.asset] # Missing
      BY <2>5, <2>6, FindingsAre DEF Finding
    <3>2. f.verified = new.entries[f.asset].observed
      BY <2>5, <2>6, <2>8, FindingsAre
    <3>3. CASE results.found[f.asset] # Missing
      <4>1. new.entries[f.asset].observed
        BY <2>3, <3>1, <3>3, ScanEntries DEF new
      <4>2. f.asset \in examined
        BY <3>1, <3>3 DEF BlindSpotsAreKnown
      <4> QED BY <3>2, <4>1, <4>2
    <3>4. CASE results.found[f.asset] = Missing
      <4>1. IsCarried(inventory, results, f.asset)
        BY <2>3, <3>1, <3>4, ScanEntries DEF new
      <4>2. ~new.entries[f.asset].observed
        BY <2>3, <3>1, <4>1, ScanEntries DEF new
      <4>3. f.asset \notin examined
        BY <2>2, <3>1, <3>4, <4>1 DEF BlindSpotsAreKnown, IsCarried
      <4> QED BY <3>2, <4>2, <4>3
    <3> QED BY <3>3, <3>4
  <2> QED BY <2>2, <2>7, <2>8
<1> QED BY <1>1, TypeCorrect, BlindSpotsKnown, FindingsCorrect, PTL
     DEF Spec, FindingsOutlastOutages

\* With the baseline carried forward, the reports of what was added, removed and
\* retired add up to the inventory.
THEOREM FeedKept ==
    ASSUME CarryModes = {TRUE}
    PROVE  Spec => [](feed = Present(inventory))
<1> DEFINE FInv == feed = Present(inventory)
<1>1. Init => FInv
  BY DEF Init, NoInventory, Present
<1>2. TypeOK /\ FInv /\ [Next]_vars => FInv'
  <2> SUFFICES ASSUME TypeOK, FInv, [Next]_vars PROVE FInv'
    OBVIOUS
  <2>1. CASE \A carry \in CarryModes : ~FinishScan(carry)
    BY <2>1, OnlyFinishWrites DEF Present
  <2>2. CASE FinishScan(TRUE)
    <3> DEFINE new == Scan(inventory, results, clock + 1)
    <3>1. inventory' = new
      BY <2>2 DEF FinishScan
    <3>2. CASE inventory.at = 0
      BY <2>2, <3>1, <3>2 DEF FinishScan, Present
    <3>3. CASE inventory.at # 0
      <4>1. feed' = (feed \union Added(inventory, new)) \ Removed(inventory, new)
        <5>1. changes' = Classify(inventory, new)
          BY <2>2, <3>3 DEF FinishScan
        <5>2. feed' = (feed \union {c.asset : c \in {d \in changes' :
                                     d.kind = "asset-added"}})
                    \ {c.asset : c \in {d \in changes' :
                                     d.kind \in {"asset-removed", "asset-retired"}}}
          BY <2>2, <3>3 DEF FinishScan
        <5> HIDE DEF new
        <5> QED BY <5>1, <5>2, ReportedAssets
      <4>2. Gone(inventory, new) \cap UnverifiedAssets(inventory, new) = {}
        <5> SUFFICES ASSUME NEW a \in Gone(inventory, new),
                            a \in UnverifiedAssets(inventory, new)
                     PROVE  FALSE
          OBVIOUS
        <5>1. /\ a \in Assets /\ inventory.entries[a] # Missing
              /\ new.entries[a] = Missing
          BY DEF Gone, Present
        <5>2. Home[a] \in new.sources /\ Unverified(new, a)
          BY <5>1 DEF UnverifiedAssets, Present
        <5>3. Home[a] \in results.sources /\ Unverified(results, a)
          BY <5>1, <5>2, ScanCoverage
        <5>4. /\ ~IsCarried(inventory, results, a)
              /\ results.found[a] = Missing
          BY <5>1, ScanEntries DEF TypeOK
        <5> QED BY <5>1, <5>3, <5>4 DEF IsCarried
      <4> HIDE DEF new
      <4> QED BY <3>1, <4>1, <4>2 DEF Added, Removed, Gone
    <3> QED BY <3>2, <3>3
  <2> QED BY <2>1, <2>2
<1> QED BY <1>1, <1>2, TypeCorrect, PTL DEF Spec

\* In particular whenever no scan is running.
THEOREM FeedCorrect ==
    ASSUME CarryModes = {TRUE}
    PROVE  Spec => []FeedIsInventory
<1>1. feed = Present(inventory) => FeedIsInventory
  BY DEF FeedIsInventory
<1> QED BY <1>1, FeedKept, PTL

-----------------------------------------------------------------------------
(* Blind spots are told                                                     *)

\* Every blind spot a report tells of is one the diff found.
LEMMA ReportedUnverified ==
    ASSUME NEW b, NEW n, NEW c \in Classify(b, n), c.kind = "asset-unverified"
    PROVE  c.asset \in UnverifiedAssets(b, n)
<1>1. c \in OnAssets("asset-unverified", UnverifiedAssets(b, n))
  BY DEF Classify, OnAssets, OnFindings, OnSources
<1> QED BY <1>1 DEF OnAssets

\* A source that was complete and is not any more gets a page of its own.
LEMMA WorseSourceIsReported ==
    ASSUME NEW b \in InventoryDoc, NEW n \in InventoryDoc,
           NEW s \in b.sources \cap n.sources,
           Status(b, s) = "complete", Status(n, s) # "complete"
    PROVE  \E c \in Classify(b, n) : /\ c.kind \in {"source-broken", "source-partial"}
                                    /\ c.source = s
<1>1. s \in SourcesBroken(b, n) \/ s \in SourcesPartial(b, n)
  BY DEF SourcesBroken, SourcesPartial, Status
<1>2. CASE s \in SourcesBroken(b, n)
  <2> DEFINE c == [kind |-> "source-broken", source |-> s]
  <2>1. c \in Classify(b, n)
    BY <1>2 DEF Classify, OnSources
  <2> QED BY <2>1
<1>3. CASE s \in SourcesPartial(b, n)
  <2> DEFINE c == [kind |-> "source-partial", source |-> s]
  <2>1. c \in Classify(b, n)
    BY <1>3 DEF Classify, OnSources
  <2> QED BY <2>1
<1> QED BY <1>1, <1>2, <1>3

\* An asset-unverified change on an asset of a source that was complete in the
\* baseline comes with the page on that source, whether or not the scan carries
\* its baseline forward: the asset was of a source the baseline lists, its source
\* is still configured, and only a failure or a gap of that source hides it.
THEOREM FirstBlindSpotPaged == Spec => FirstBlindSpotPages
<1>1. TypeOK /\ BlindSpotsAreKnown /\ EntriesAreOfSources /\ [Next]_vars =>
         (Finishes =>
            \A a \in Reported({"asset-unverified"}) :
               Status(inventory, Home[a]) = "complete" =>
               \E c \in changes' : /\ c.kind \in {"source-broken", "source-partial"}
                                  /\ c.source = Home[a])
  <2> SUFFICES ASSUME TypeOK, BlindSpotsAreKnown, EntriesAreOfSources, [Next]_vars,
                      Finishes, NEW a \in Reported({"asset-unverified"}),
                      Status(inventory, Home[a]) = "complete"
               PROVE  \E c \in changes' :
                         /\ c.kind \in {"source-broken", "source-partial"}
                         /\ c.source = Home[a]
    OBVIOUS
  <2>1. PICK carry \in CarryModes : FinishScan(carry)
    BY OnlyFinishWrites
  <2> DEFINE base == IF carry THEN inventory ELSE NoInventory
             new == Scan(base, results, clock + 1)
  <2>2. changes' = Classify(inventory, new)
    BY <2>1 DEF FinishScan, Reported
  <2>3. a \in UnverifiedAssets(inventory, new)
    BY <2>2, ReportedUnverified DEF Reported
  <2>4. /\ base \in InventoryDoc /\ inventory \in InventoryDoc
        /\ results \in Results /\ clock + 1 \in Nat
    BY NoInventoryType DEF TypeOK
  <2>5. new \in InventoryDoc /\ new.sources = results.sources
    BY <2>4, ScanType, ScanCoverage
  <2>6. a \in Assets /\ a \in Present(inventory)
    BY <2>3 DEF UnverifiedAssets, Gone, Present
  <2>7. Home[a] \in inventory.sources
    BY <2>6 DEF EntriesAreOfSources
  <2>8. Home[a] \in new.sources /\ Unverified(new, a)
    <3>1. CASE a \in Gone(inventory, new)
      BY <2>3, <3>1 DEF UnverifiedAssets, Gone
    <3>2. CASE a \notin Gone(inventory, new)
      <4>1. new.entries[a] # Missing /\ ~new.entries[a].observed
        BY <2>3, <3>2 DEF UnverifiedAssets, Present
      <4>2. IsCarried(base, results, a)
        BY <2>4, <2>6, <4>1, ScanEntries
      <4>3. Home[a] \in results.sources /\ Unverified(results, a)
        BY <4>2 DEF IsCarried
      <4> QED BY <2>5, <2>6, <4>3, ScanCoverage
    <3> QED BY <3>1, <3>2
  <2>9. Status(new, Home[a]) # "complete"
    BY <2>8 DEF Unverified
  <2> HIDE DEF new
  <2> QED BY <2>2, <2>4, <2>5, <2>7, <2>8, <2>9, WorseSourceIsReported
<1> QED BY <1>1, TypeCorrect, BlindSpotsKnown, SourcesListed, PTL
     DEF Spec, FirstBlindSpotPages

\* A complete inventory has no hearsay in it: the assets of its sources were all
\* looked for by the scan that wrote it, and it carries none forward.
THEOREM CompleteFirstHand == Spec => CompleteIsFirstHand
<1>1. TypeOK /\ BlindSpotsAreKnown /\ [Next]_vars =>
         (Finishes /\ ScanStatus(inventory') = "complete" =>
            /\ InScope \subseteq examined
            /\ \A a \in Present(inventory)' : inventory'.entries[a].observed)
  <2> SUFFICES ASSUME TypeOK, BlindSpotsAreKnown, [Next]_vars, Finishes,
                      ScanStatus(inventory') = "complete"
               PROVE  /\ InScope \subseteq examined
                      /\ \A a \in Present(inventory)' : inventory'.entries[a].observed
    OBVIOUS
  <2>1. PICK carry \in CarryModes : FinishScan(carry)
    BY OnlyFinishWrites
  <2> DEFINE base == IF carry THEN inventory ELSE NoInventory
             new == Scan(base, results, clock + 1)
  <2>2. inventory' = new /\ pending = {}
    BY <2>1 DEF FinishScan
  <2>3. /\ base \in InventoryDoc /\ results \in Results /\ clock + 1 \in Nat
    BY NoInventoryType DEF TypeOK
  <2>4. new.sources = results.sources
    BY ScanCoverage
  <2>5. \A s \in results.sources : Status(new, s) = "complete"
    BY <2>2, <2>4 DEF ScanStatus
  <2>6. \A a \in Assets : Home[a] \in results.sources => ~Unverified(results, a)
    <3> SUFFICES ASSUME NEW a \in Assets, Home[a] \in results.sources
                 PROVE  ~Unverified(results, a)
      OBVIOUS
    <3>1. Status(new, Home[a]) = "complete"
      BY <2>5
    <3>2. ~Unverified(new, a)
      BY <3>1 DEF Unverified
    <3> QED BY <3>2, ScanCoverage
  <2>7. InScope \subseteq examined
    BY <2>2, <2>6 DEF BlindSpotsAreKnown, InScope
  <2>8. ASSUME NEW a \in Assets, new.entries[a] # Missing
        PROVE  new.entries[a].observed
    <3>1. ~IsCarried(base, results, a)
      BY <2>6 DEF IsCarried
    <3> QED BY <2>3, <2>8, <3>1, ScanEntries
  <2> HIDE DEF new
  <2> QED BY <2>2, <2>7, <2>8 DEF Present
<1> QED BY <1>1, TypeCorrect, BlindSpotsKnown, PTL DEF Spec, CompleteIsFirstHand

-----------------------------------------------------------------------------
(* The census implements the ledger                                         *)

\* What the inventory of a scan with its baseline says of one asset is what the
\* next edition of the ledger may say of it.
LEMMA NextLineKept ==
    ASSUME TypeOK, BlindSpotsAreKnown, pending = {}, FinishScan(TRUE),
           NEW a \in Assets
    PROVE  /\ KnownOf(a)' \in L!Line
           /\ L!NextLine(a, KnownOf(a)')
<1> DEFINE new == Scan(inventory, results, clock + 1)
           e == new.entries[a]
<1>1. /\ inventory' = new /\ inventory \in InventoryDoc /\ results \in Results
      /\ clock \in Nat /\ new \in InventoryDoc
  BY ScanType DEF FinishScan, TypeOK
<1>2. e \in Entry \union {Missing}
  BY <1>1 DEF InventoryDoc
<1>3. KnownOf(a)' = IF e = Missing THEN Missing ELSE [fact |-> e.strength, at |-> e.last]
  BY <1>1 DEF KnownOf
<1>4. KnownOf(a)' \in L!Line
  <2> HIDE DEF e
  <2> QED BY <1>2, <1>3 DEF Entry, L!Line
<1>5. L!NextLine(a, KnownOf(a)')
  <2>1. CASE Home[a] \notin results.sources
    <3>1. results.found[a] = Missing
      BY <2>1 DEF BlindSpotsAreKnown
    <3>2. ~IsCarried(inventory, results, a)
      BY <2>1 DEF IsCarried
    <3>3. KnownOf(a)' = Missing
      BY <1>1, <1>3, <3>1, <3>2, ScanEntries
    <3> QED BY <2>1, <3>3 DEF L!NextLine, InScope
  <2>2. CASE Home[a] \in results.sources /\ a \in examined
    <3>1. ~(results.found[a] = Missing /\ Unverified(results, a))
      BY <2>2 DEF BlindSpotsAreKnown
    <3>2. ~IsCarried(inventory, results, a)
      BY <3>1 DEF IsCarried
    <3>3. CASE results.found[a] = Missing
      <4>1. KnownOf(a)' = Missing
        BY <1>1, <1>3, <3>2, <3>3, ScanEntries
      <4> QED BY <2>2, <4>1 DEF L!NextLine, InScope
    <3>4. CASE results.found[a] # Missing
      <4>1. e # Missing /\ e.strength = results.found[a] /\ e.last = clock + 1
        BY <1>1, <3>4, ScanEntries
      <4>2. KnownOf(a)' = [fact |-> results.found[a], at |-> clock + 1]
        BY <1>3, <4>1
      <4>3. results.found[a] \in Strengths
        BY <1>1, <3>4 DEF Results
      <4> QED BY <2>2, <4>2, <4>3 DEF L!NextLine, InScope
    <3> QED BY <3>3, <3>4
  <2>3. CASE Home[a] \in results.sources /\ a \notin examined
    <3>1. results.found[a] = Missing /\ Unverified(results, a)
      BY <2>3 DEF BlindSpotsAreKnown
    <3>2. CASE inventory.entries[a] = Missing
      <4>1. e = Missing
        BY <1>1, <3>1, <3>2, ScanEntries DEF IsCarried
      <4>2. KnownOf(a)' = KnownOf(a)
        BY <1>3, <3>2, <4>1 DEF KnownOf
      <4> QED BY <2>3, <4>2 DEF L!NextLine, InScope
    <3>3. CASE inventory.entries[a] # Missing
      <4>1. IsCarried(inventory, results, a)
        BY <2>3, <3>1, <3>3 DEF IsCarried
      <4>2. /\ e # Missing
            /\ e.strength = inventory.entries[a].strength
            /\ e.last = inventory.entries[a].last
        BY <1>1, <4>1, ScanEntries
      <4>3. KnownOf(a)' = KnownOf(a)
        BY <1>3, <3>3, <4>2 DEF KnownOf
      <4> QED BY <2>3, <4>3 DEF L!NextLine, InScope
    <3> QED BY <3>2, <3>3
  <2> QED BY <2>1, <2>2, <2>3
<1> QED BY <1>4, <1>5

\* With their baselines carried forward, the inventories that scans write one
\* after another are the editions of a ledger: a scan rewrites the lines of the
\* assets it examined and of no other (scanner.py, scan).
THEOREM LedgerImplemented ==
    ASSUME CarryModes = {TRUE}
    PROVE  Spec => ImplementsLedger
<1>1. Init => L!Init
  BY DEF Init, L!Init, NoResults, NoInventory, KnownOf, InScope
<1>2. TypeOK /\ TypeOK' /\ BlindSpotsAreKnown /\ BlindSpotsAreKnown' /\ [Next]_vars
         => [L!Next]_(L!ledgerVars)
  <2> SUFFICES ASSUME TypeOK, TypeOK', BlindSpotsAreKnown, BlindSpotsAreKnown', [Next]_vars
               PROVE  [L!Next]_(L!ledgerVars)
    OBVIOUS
  <2>1. CASE Reconfigure
    BY <2>1 DEF Reconfigure, scanVars, history, L!ledgerVars, KnownOf, InScope
  <2>2. CASE StartScan
    <3>1. examined = {} /\ examined' = examined /\ clock' = clock /\ inventory' = inventory
      BY <2>2 DEF StartScan, history, BlindSpotsAreKnown, TypeOK
    <3>2. InScope' \in SUBSET Assets
      BY DEF InScope
    <3>3. L!Begin
      BY <3>1, <3>2 DEF L!Begin, KnownOf
    <3> QED BY <3>3 DEF L!Next
  <2>3. ASSUME NEW s \in Sources, CollectorFails(s)
        PROVE  UNCHANGED L!ledgerVars
    <3>1. results'.sources = results.sources
      BY <2>3 DEF CollectorFails, TypeOK, Results
    <3> QED BY <2>3, <3>1 DEF CollectorFails, history, L!ledgerVars, KnownOf, InScope
  <2>4. ASSUME NEW s \in Sources, CollectorReports(s)
        PROVE  L!Examine
    <3>1. results'.sources = results.sources /\ examined \subseteq examined'
      BY <2>4 DEF CollectorReports, Report, TypeOK, Results
    <3>2. InScope' = InScope
      BY <3>1 DEF InScope
    <3>3. examined' \in SUBSET InScope
      BY <3>2 DEF BlindSpotsAreKnown, TypeOK, InScope
    <3>4. clock' = clock /\ inventory' = inventory
      BY <2>4 DEF CollectorReports
    <3> QED BY <3>1, <3>2, <3>3, <3>4 DEF L!Examine, KnownOf
  <2>5. CASE FinishScan(TRUE)
    <3>1. pending = {} /\ clock' = clock + 1 /\ examined' = {}
          /\ results' = NoResults({})
      BY <2>5 DEF FinishScan
    <3>2. \A a \in Assets : KnownOf(a)' \in L!Line /\ L!NextLine(a, KnownOf(a)')
      BY <2>5, <3>1, NextLineKept
    <3>3. InScope' = {}
      BY <3>1 DEF InScope, NoResults
    <3>4. [a \in Assets |-> KnownOf(a)'] \in [Assets -> L!Line]
      BY <3>2
    <3> QED BY <3>1, <3>2, <3>3, <3>4 DEF L!Publish, L!Next
  <2>6. CASE UNCHANGED vars
    BY <2>6 DEF vars, L!ledgerVars, KnownOf, InScope
  <2> QED BY <2>1, <2>2, <2>3, <2>4, <2>5, <2>6 DEF Next, L!Next
<1> QED BY <1>1, <1>2, TypeCorrect, BlindSpotsKnown, PTL DEF Spec, ImplementsLedger, L!Spec
=============================================================================
