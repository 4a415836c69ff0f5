------------------------------ MODULE ChangeReport ------------------------------
(***************************************************************************)
(* What became of one asset between two inventories, and what is worth      *)
(* waking someone for: the field by field part of diff_dicts                *)
(* (keycensus/diff.py) and its classification (keycensus/changes.py).       *)
(* Pure: no state.  InventoryDiff has the other part, which asset counts as *)
(* gone and which as not looked for; here a source answers or fails whole.  *)
(*                                                                          *)
(* b is the inventory before, n the one after: records of the assets by id, *)
(* the findings, the source's failure and the declared applications.        *)
(***************************************************************************)
EXTENDS Policy

-----------------------------------------------------------------------------
(* diff_dicts                                                               *)

Watched == {"state", "algorithm", "key_size", "curve", "expires", "last_rotated",
            "rotation_enabled", "exportable", "hardware_backed", "fips_validated",
            "purposes", "signature_hash", "protocol_version",
            "weak_versions_accepted", "key_exchange", "fingerprint", "location",
            "name", "applications", "used_by"}

\* Lists are compared without their order.
Norm(f, v) == IF f = "purposes" THEN {v[i] : i \in DOMAIN v} ELSE v

FieldChanges(old, new) ==
    [f \in {g \in Watched : Norm(g, old[g]) # Norm(g, new[g])} |->
        [before |-> old[f], after |-> new[f]]]

Both(b, n) == DOMAIN b.assets \cap DOMAIN n.assets

Gone(b, n) == DOMAIN b.assets \ DOMAIN n.assets

Unverified(b, n) ==
    (IF n.failed THEN Gone(b, n) ELSE {})
    \union {i \in Both(b, n) : ~n.assets[i].observed /\ b.assets[i].observed}

FindingKey(f) == <<f.rule, f.asset>>

FindingsNew(b, n) ==
    {f \in n.findings : \A g \in b.findings : FindingKey(g) # FindingKey(f)}

FindingsGone(b, n) ==
    {f \in b.findings : \A g \in n.findings : FindingKey(g) # FindingKey(f)}

\* Diff.worst_new_severity: the least rank of the new findings, 9 if none.
WorstNew(b, n) ==
    LET ranks == {9} \union {SeverityRank[f.severity] : f \in FindingsNew(b, n)}
    IN  CHOOSE r \in ranks : \A q \in ranks : r <= q

-----------------------------------------------------------------------------
(* classify                                                                 *)

Page == {"algorithm-weakened", "key-became-exportable", "hardware-backing-lost",
         "fips-validation-lost", "rotation-disabled", "protocol-weakened",
         "pq-key-exchange-lost", "state-compromised", "asset-removed",
         "source-broken", "finding-new-critical", "finding-new-high"}

Ignore == {"algorithm-strengthened", "pq-key-exchange-gained",
           "hardware-backing-gained", "rotation-enabled", "finding-resolved",
           "finding-unverified", "source-fixed", "metadata-changed"}

\* Everything else waits for the weekly digest.  The configuration can give
\* any kind another urgency.
Urgency(kind, overrides) ==
    Get(overrides, kind,
        IF kind \in Page THEN "page" ELSE IF kind \in Ignore THEN "ignore" ELSE "digest")

StrengthFields == {"algorithm", "key_size", "curve"}

\* The fields CryptoAsset cannot be built without.
Required == {"source", "source_type", "kind", "name", "native_id"}

\* _bits: whatever from_dict raises, a missing field for one, is "cannot be
\* judged".
Bits(fields) == IF Required \subseteq DOMAIN fields THEN Assess(fields).bits ELSE Unset

Compare(before, after) ==
    IF after < before THEN "weaker" ELSE IF after > before THEN "stronger" ELSE "same"

\* The comparison of key sizes made whatever the algorithms are.
DirectionAnyAlgorithm(before, after) ==
    IF before.key_size = Unset \/ after.key_size = Unset THEN "same"
    ELSE Compare(before.key_size, after.key_size)

\* _strength_direction, with its fallback to key sizes of one algorithm.
Direction(before, after) ==
    IF Bits(before) # Unset /\ Bits(after) # Unset
    THEN Compare(Bits(before), Bits(after))
    ELSE IF /\ before.algorithm = after.algorithm
            /\ before.key_size # Unset /\ after.key_size # Unset
    THEN Compare(before.key_size, after.key_size)
    ELSE "same"

\* The side of a change that _classify_asset hands to Direction: the strength
\* fields that changed, None for those that did not, and the kind.
Side(ch, kind, side) ==
    [algorithm |-> IF "algorithm" \in DOMAIN ch THEN ch["algorithm"][side] ELSE "none",
     key_size |-> IF "key_size" \in DOMAIN ch THEN ch["key_size"][side] ELSE Unset,
     curve |-> IF "curve" \in DOMAIN ch THEN ch["curve"][side] ELSE "none",
     kind |-> kind]

StrengthKinds(ch, kind) ==
    IF DOMAIN ch \cap StrengthFields = {} THEN {}
    ELSE LET d == Direction(Side(ch, kind, "before"), Side(ch, kind, "after"))
         IN  {CASE d = "weaker" -> "algorithm-weakened"
                [] d = "stronger" -> "algorithm-strengthened"
                [] OTHER -> "algorithm-changed"}

\* What each flag becoming true, and ceasing to be, is called.
Flips ==
    [exportable |-> <<"key-became-exportable", "metadata-changed">>,
     hardware_backed |-> <<"hardware-backing-gained", "hardware-backing-lost">>,
     fips_validated |-> <<"metadata-changed", "fips-validation-lost">>,
     rotation_enabled |-> <<"rotation-enabled", "rotation-disabled">>]

\* A flag that nobody could read counts as neither.
FlipKindsKnown(ch) ==
    {Flips[f][1] : f \in {g \in DOMAIN Flips \cap DOMAIN ch :
                             ch[g].before = "no" /\ ch[g].after = "yes"}}
    \union
    {Flips[f][2] : f \in {g \in DOMAIN Flips \cap DOMAIN ch :
                             ch[g].before = "yes" /\ ch[g].after = "no"}}

\* bool(None) is False: a flag nobody could read is one that is not set.
FlipKinds(ch) ==
    {Flips[f][1] : f \in {g \in DOMAIN Flips \cap DOMAIN ch : ch[g].after = "yes"}}
    \union
    {Flips[f][2] : f \in {g \in DOMAIN Flips \cap DOMAIN ch : ch[g].before = "yes"}}

RetiredStates == {"deactivated", "destroyed"}

StateKinds(ch) ==
    IF "state" \notin DOMAIN ch THEN {}
    ELSE {CASE ch["state"].after = "compromised" -> "state-compromised"
            [] ch["state"].after \in RetiredStates -> "asset-retired"
            [] OTHER -> "state-changed"}

\* A version that is accepted now and was not; dropping one is not reported.
ProtocolKinds(ch) ==
    IF "weak_versions_accepted" \in DOMAIN ch
       /\ ch["weak_versions_accepted"].after \ ch["weak_versions_accepted"].before # {}
    THEN {"protocol-weakened"} ELSE {}

PostQuantum(name) == KeyExchangeClass(name) \in {"hybrid", "quantum-safe"}

\* An exchange that could not be probed this time has not been lost.
KeyExchangeKinds(ch) ==
    IF "key_exchange" \notin DOMAIN ch THEN {}
    ELSE LET before == ch["key_exchange"].before
             after == ch["key_exchange"].after
         IN  CASE PostQuantum(before) /\ after # "none" /\ ~PostQuantum(after) ->
                    {"pq-key-exchange-lost"}
               [] PostQuantum(after) /\ ~PostQuantum(before) -> {"pq-key-exchange-gained"}
               [] OTHER -> {}

ConsumerKinds(ch) ==
    IF "used_by" \notin DOMAIN ch THEN {}
    ELSE (IF ch["used_by"].after \ ch["used_by"].before # {} THEN {"consumer-added"} ELSE {})
         \union
         (IF ch["used_by"].before \ ch["used_by"].after # {} THEN {"consumer-removed"} ELSE {})

\* The fields that are reported as such; an expiry date that moved back, or
\* that is not known any more, is not reported.
PlainKinds(ch) ==
    (IF "fingerprint" \in DOMAIN ch THEN {"certificate-replaced"} ELSE {})
    \union
    (IF /\ "expires" \in DOMAIN ch
        /\ Unset \notin {ch["expires"].before, ch["expires"].after}
        /\ ch["expires"].after < ch["expires"].before
     THEN {"expiry-shortened"} ELSE {})
    \union
    (IF "last_rotated" \in DOMAIN ch THEN {"key-rotated"} ELSE {})
    \union
    (IF "applications" \in DOMAIN ch THEN {"application-link-changed"} ELSE {})
    \union
    (IF DOMAIN ch \cap {"name", "location", "purposes", "signature_hash",
                        "protocol_version"} # {}
     THEN {"metadata-changed"} ELSE {})

\* _classify_asset: the kinds of the changes of one asset.
ClassifyAsset(old, new) ==
    LET ch == FieldChanges(old, new) IN
    StrengthKinds(ch, new.kind) \union FlipKinds(ch) \union StateKinds(ch)
    \union ProtocolKinds(ch) \union KeyExchangeKinds(ch)
    \union ConsumerKinds(ch) \union PlainKinds(ch)

\* _gone_for_a_reason, and the keys that had been retired before.
Retired(a, now) ==
    \/ a.state \in RetiredStates
    \/ a.kind = "algorithm"
    \/ a.kind = "certificate" /\ a.expires # Unset /\ a.expires <= now

NewFindingKind(f) ==
    IF f.severity \in {"critical", "high"}
    THEN IF f.severity = "high" THEN "finding-new-high" ELSE "finding-new-critical"
    ELSE "finding-new"

\* classify: every change that concerns an asset, by its kind.  now is the
\* time of the classification.
Classify(b, n, now) ==
    {<<"asset-added", i>> : i \in DOMAIN n.assets \ DOMAIN b.assets}
    \union {<<IF Retired(b.assets[i], now) THEN "asset-retired" ELSE "asset-removed", i>> :
                i \in Gone(b, n) \ Unverified(b, n)}
    \union {<<"asset-unverified", i>> : i \in Unverified(b, n)}
    \union (UNION {ClassifyAsset(b.assets[i], n.assets[i]) \X {i} : i \in Both(b, n)})
    \union {<<NewFindingKind(f), f.asset>> : f \in FindingsNew(b, n)}
    \union {<<IF f.asset \in Unverified(b, n) THEN "finding-unverified"
              ELSE "finding-resolved", f.asset>> : f \in FindingsGone(b, n)}

Pages(b, n, now, overrides) ==
    {c \in Classify(b, n, now) : Urgency(c[1], overrides) = "page"}

\* The source answered before and fails now; before there is an inventory, it is as
\* if it had answered with nothing.
SourceBroken(b, n) == ~b.failed /\ n.failed

IsPaged(b, n, now, overrides) ==
    \/ Pages(b, n, now, overrides) # {}
    \/ SourceBroken(b, n) /\ Urgency("source-broken", overrides) = "page"

\* Diff.empty, which counts changes that are classified as nothing, too.
DiffEmpty(b, n) ==
    /\ DOMAIN b.assets = DOMAIN n.assets /\ Unverified(b, n) = {}
    /\ \A i \in Both(b, n) : DOMAIN FieldChanges(b.assets[i], n.assets[i]) = {}
    /\ FindingsNew(b, n) = {} /\ FindingsGone(b, n) = {}
    /\ b.failed = n.failed

\* The exit code of `keycensus diff`.  newRank is the rank --fail-on-new
\* names, or -1 without that option; onPage and onChange are the two others.
DiffExit(b, n, now, overrides, onPage, newRank, onChange) ==
    IF onPage /\ IsPaged(b, n, now, overrides) THEN 5
    ELSE IF WorstNew(b, n) <= newRank THEN 3
    ELSE IF onChange /\ ~DiffEmpty(b, n) THEN 4 ELSE 0
=============================================================================
