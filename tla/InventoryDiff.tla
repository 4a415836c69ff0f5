----------------------------- MODULE InventoryDiff -----------------------------
(***************************************************************************)
(* What the comparison of two inventories reports: diff_dicts               *)
(* (keycensus/diff.py) and the kinds classify gives its results             *)
(* (keycensus/changes.py).  b is the inventory before, n the one after.     *)
(***************************************************************************)
EXTENDS Inventory

-----------------------------------------------------------------------------
(* diff_dicts                                                               *)

Added(b, n) == Present(n) \ Present(b)

Gone(b, n) == Present(b) \ Present(n)

\* Seen before, and not looked for now: missing from a source that could not
\* see it, or carried forward and observed until now.
UnverifiedAssets(b, n) ==
    {a \in Gone(b, n) : Home[a] \in n.sources /\ Unverified(n, a)}
    \union
    {a \in Present(b) \cap Present(n) :
        ~n.entries[a].observed /\ b.entries[a].observed}

Removed(b, n) == Gone(b, n) \ UnverifiedAssets(b, n)

\* Of the watched fields the model has the key size.
Changed(b, n) == {a \in Present(b) \cap Present(n) :
                    b.entries[a].strength # n.entries[a].strength}

\* Findings are matched by rule and asset.
FindingKeys(inv) == {<<f.rule, f.asset>> : f \in inv.findings}

FindingsNew(b, n) == FindingKeys(n) \ FindingKeys(b)

FindingsUnverified(b, n) ==
    {k \in FindingKeys(b) \ FindingKeys(n) : k[2] \in UnverifiedAssets(b, n)}

FindingsResolved(b, n) ==
    (FindingKeys(b) \ FindingKeys(n)) \ FindingsUnverified(b, n)

SourcesBroken(b, n) == {s \in b.sources \cap n.sources :
                          s \notin b.failed /\ s \in n.failed}

SourcesFixed(b, n) == {s \in b.sources \cap n.sources :
                         s \in b.failed /\ s \notin n.failed}

\* The wrong way round.
SourcesPartialSwapped(b, n) == {s \in b.sources \cap n.sources :
                           Status(n, s) = "complete" /\ Status(b, s) = "partial"}

\* Reported only for a source that had no gap in the last inventory.
SourcesPartial(b, n) == {s \in b.sources \cap n.sources :
                           Status(b, s) = "complete" /\ Status(n, s) = "partial"}

-----------------------------------------------------------------------------
(* classify                                                                 *)

Kinds == {"asset-added", "asset-removed", "asset-retired", "asset-unverified",
          "algorithm-weakened", "algorithm-strengthened",
          "finding-new", "finding-resolved", "finding-unverified",
          "source-broken", "source-fixed", "source-partial",
          "source-added", "source-removed"}

AssetChange == [kind: Kinds, asset: Assets]
FindingChange == [kind: Kinds, asset: Assets, rule: Rules]
SourceChange == [kind: Kinds, source: Sources]

Change == AssetChange \union FindingChange \union SourceChange

OnAssets(kind, as) == {[kind |-> kind, asset |-> a] : a \in as}
OnFindings(kind, keys) ==
    {[kind |-> kind, asset |-> k[2], rule |-> k[1]] : k \in keys}
OnSources(kind, ss) == {[kind |-> kind, source |-> s] : s \in ss}

\* A certificate past its expiry date leaves for a reason.
GoneForAReason(a, now) == a \in Certificates /\ Expires[a] <= now

\* The bug of leaving an asset that went with its source out of the report.
ClassifyStillConfigured(b, n) ==
    OnAssets("asset-added", Added(b, n))
    \union OnAssets("asset-removed", {a \in Removed(b, n) : Home[a] \in n.sources})

\* Every entry of the diff becomes one change.
Classify(b, n) ==
    OnAssets("asset-added", Added(b, n))
    \union OnAssets("asset-retired", {a \in Removed(b, n) : GoneForAReason(a, n.at)})
    \union OnAssets("asset-removed", {a \in Removed(b, n) : ~GoneForAReason(a, n.at)})
    \union OnAssets("asset-unverified", UnverifiedAssets(b, n))
    \union OnAssets("algorithm-weakened",
                    {a \in Changed(b, n) : n.entries[a].strength = "weak"})
    \union OnAssets("algorithm-strengthened",
                    {a \in Changed(b, n) : n.entries[a].strength = "strong"})
    \union OnFindings("finding-new", FindingsNew(b, n))
    \union OnFindings("finding-resolved", FindingsResolved(b, n))
    \union OnFindings("finding-unverified", FindingsUnverified(b, n))
    \union OnSources("source-broken", SourcesBroken(b, n))
    \union OnSources("source-fixed", SourcesFixed(b, n))
    \union OnSources("source-partial", SourcesPartial(b, n))
    \union OnSources("source-added", n.sources \ b.sources)
    \union OnSources("source-removed", b.sources \ n.sources)
=============================================================================
