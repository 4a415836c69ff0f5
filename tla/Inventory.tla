------------------------------- MODULE Inventory -------------------------------
(***************************************************************************)
(* The inventory of one scan and the pure functions that build it: what a   *)
(* source's coverage says about an asset that was not found, the findings   *)
(* the policy raises, and the carrying forward of assets nobody could look  *)
(* for (keycensus/model.py, keycensus/scanner.py, analysis/policy.py,       *)
(* linking.py).                                                             *)
(*                                                                          *)
(* Data is reduced to what the properties tell apart.  An asset's id is the *)
(* asset itself; of its fields only the key size is kept, as "strong" or    *)
(* "weak"; the date it expires is fixed.  The configuration keys a source   *)
(* by name and the id of a gap holds the name of a scope of that source.    *)
(***************************************************************************)
EXTENDS Naturals, FiniteSets

CONSTANTS
    Assets,          \* the ids of the keys and certificates that may ever exist
    Sources,         \* the names of the sources that may be configured
    Scopes,          \* the scopes (namespaces, regions, ...) a source may miss
    Home,            \* the source that holds each asset
    ScopesOf,        \* extra.coverage_scope of each asset; {} if it names none
    Areas,           \* the scopes each source reports coverage for
    Certificates,    \* the assets that carry an expiry date
    Expires,         \* when each certificate expires
    CriticalWindow,  \* policy: certificate.expiring_critical_days
    SoonWindow,      \* policy: certificate.expiring_soon_days
    AppsDeclared,    \* the configuration has an applications: block
    Claimed,         \* the assets some declared application is linked to
    Missing          \* stands for "no such asset here"

Strengths == {"strong", "weak"}

\* An asset as the inventory records it: its key size, whether this scan saw
\* it, and when a scan last did.
Entry == [strength: Strengths, observed: BOOLEAN, last: Nat]

ASSUME ConstantsAssumption ==
    /\ Home \in [Assets -> Sources]
    /\ ScopesOf \in [Assets -> SUBSET Scopes]
    /\ Areas \in [Sources -> SUBSET Scopes]
    /\ \A a \in Assets : ScopesOf[a] \subseteq Areas[Home[a]]
    /\ Certificates \subseteq Assets
    /\ Expires \in [Certificates -> Nat]
    /\ CriticalWindow \in Nat
    /\ SoonWindow \in Nat
    /\ AppsDeclared \in BOOLEAN
    /\ Claimed \subseteq Assets
    /\ Missing \notin Strengths
    /\ Missing \notin Entry

Rules == {"weak-key-size", "cert-expired", "cert-expiring-critical",
          "cert-expiring-soon", "unlinked-asset"}

Finding == [asset: Assets, rule: Rules, verified: BOOLEAN]

\* What the collectors of one scan produced: the configured sources, those
\* that raised, the gaps each reported, and what they found.
Results == [sources: SUBSET Sources, failed: SUBSET Sources,
            gaps: [Sources -> SUBSET Scopes],
            found: [Assets -> Strengths \union {Missing}]]

InventoryDoc == [at: Nat, sources: SUBSET Sources, failed: SUBSET Sources,
                 gaps: [Sources -> SUBSET Scopes],
                 entries: [Assets -> Entry \union {Missing}],
                 findings: SUBSET Finding]

NoResults(sources) == [sources |-> sources, failed |-> {},
                       gaps |-> [s \in Sources |-> {}],
                       found |-> [a \in Assets |-> Missing]]

\* No scan yet: scan() is called with baseline None.
NoInventory == [at |-> 0, sources |-> {}, failed |-> {},
                gaps |-> [s \in Sources |-> {}],
                entries |-> [a \in Assets |-> Missing],
                findings |-> {}]

Present(inv) == {a \in Assets : inv.entries[a] # Missing}

-----------------------------------------------------------------------------
(* Coverage.  r is the results of a scan or an inventory document.          *)

\* The gaps of a source that did not fail go unnoticed.
StatusGapsIgnored(r, s) == IF s \in r.failed THEN "failed" ELSE "complete"

Status(r, s) == IF s \in r.failed THEN "failed"
                ELSE IF r.gaps[s] # {} THEN "partial" ELSE "complete"

\* The status of the whole scan: failed only if no source worked.
ScanStatus(inv) ==
    IF inv.sources # {} /\ \A s \in inv.sources : Status(inv, s) = "failed"
    THEN "failed"
    ELSE IF \A s \in inv.sources : Status(inv, s) = "complete"
         THEN "complete" ELSE "partial"

\* An asset that names no scope is taken for checked.
AssetInGapScopedOnly(a, gaps) == ScopesOf[a] \cap gaps # {}

\* Could a be in one of these gaps?  An asset that names no scope could.
AssetInGap(a, gaps) == ScopesOf[a] = {} \/ ScopesOf[a] \cap gaps # {}

\* Only a source that failed outright hides its assets.
UnverifiedIfFailed(r, a) == Status(r, Home[a]) = "failed"

\* a was seen before and is missing now: is that because nobody could look?
Unverified(r, a) ==
    \/ Status(r, Home[a]) = "failed"
    \/ /\ Status(r, Home[a]) = "partial"
       /\ AssetInGap(a, r.gaps[Home[a]])

-----------------------------------------------------------------------------
(* Building the inventory.                                                  *)

\* Everything a collector found is stamped with the time the scan ended.
Observed(r, now) ==
    [a \in Assets |->
        IF r.found[a] = Missing THEN Missing
        ELSE [strength |-> r.found[a], observed |-> TRUE, last |-> now]]

\* Must be brought forward: in the baseline, of a source that is still
\* configured, not found, and not looked for.
IsCarried(base, r, a) ==
    /\ base.entries[a] # Missing
    /\ Home[a] \in r.sources
    /\ r.found[a] = Missing
    /\ Unverified(r, a)

\* The stamping loop run after the carrying one.
CarryForwardThenStamp(base, r, now) ==
    [a \in Assets |->
        IF IsCarried(base, r, a)
        THEN [base.entries[a] EXCEPT !.observed = FALSE, !.last = now]
        ELSE Observed(r, now)[a]]

\* The copy keeps the observed flag of the baseline.
CarryForwardAsIs(base, r, now) ==
    [a \in Assets |-> IF IsCarried(base, r, a) THEN base.entries[a]
                      ELSE Observed(r, now)[a]]

\* carry_forward after the stamping loop: the assets of this scan, and a copy
\* of each baseline asset this scan could not have seen.
CarryForward(base, r, now) ==
    [a \in Assets |->
        IF IsCarried(base, r, a)
        THEN [base.entries[a] EXCEPT !.observed = FALSE]
        ELSE Observed(r, now)[a]]

\* The rules that a key size or an expiry date can break.
PolicyRules(a, entry, now) ==
    (IF entry.strength = "weak" THEN {"weak-key-size"} ELSE {})
    \union
    (IF a \notin Certificates \/ Expires[a] >= now + SoonWindow THEN {}
     ELSE IF Expires[a] < now THEN {"cert-expired"}
     ELSE IF Expires[a] < now + CriticalWindow THEN {"cert-expiring-critical"}
     ELSE {"cert-expiring-soon"})

\* evaluate(): carried assets with the rest; every finding starts as verified.
Evaluate(entries, now) ==
    {f \in Finding :
        /\ entries[f.asset] # Missing
        /\ f.rule \in PolicyRules(f.asset, entries[f.asset], now)
        /\ f.verified}

\* The findings on what was not observed are left out.
MarkByDropping(findings, entries) == {f \in findings : entries[f.asset].observed}

\* The loop of scan() over the findings of evaluate().
Mark(findings, entries) ==
    {[f EXCEPT !.verified = entries[f.asset].observed] : f \in findings}

\* unlinked_findings(), which apply() appends after the marking loop: every
\* finding of it keeps the default, verified.
UnlinkedFindings(entries) ==
    {f \in Finding :
        /\ AppsDeclared
        /\ entries[f.asset] # Missing
        /\ f.asset \notin Claimed
        /\ f.rule = "unlinked-asset"
        /\ f.verified}

\* The findings of an inventory, in the order they are made.
FindingsOn(entries, now) ==
    Mark(Evaluate(entries, now), entries) \union UnlinkedFindings(entries)

\* scan(): collect, stamp, carry forward, evaluate, mark, link.
Scan(base, r, now) ==
    LET entries == CarryForward(base, r, now) IN
    [at |-> now, sources |-> r.sources, failed |-> r.failed, gaps |-> r.gaps,
     entries |-> entries,
     findings |-> FindingsOn(entries, now)]
=============================================================================
