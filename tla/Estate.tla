--------------------------------- MODULE Estate ---------------------------------
(***************************************************************************)
(* The judgements of keycensus put together: an estate whose keys,          *)
(* certificates and endpoints change in any way is scanned again and again  *)
(* by a source that may fail, under a policy, with applications declared    *)
(* and undeclared; each inventory is linked, compared with the last one,    *)
(* and the changes are classified (keycensus/scanner.py, cli.py).           *)
(*                                                                          *)
(* Census has what a failing source does to the inventory in detail; here   *)
(* it answers or fails whole.  Time stands still: what a passing date does  *)
(* to the rules is in Census, too.                                          *)
(***************************************************************************)
EXTENDS ChangeReport, Linking

CONSTANTS
    Sites,       \* the organisations: the shapes each asset of theirs may have,
                 \* their policies (overrides of the default) and the
                 \* applications: blocks they may declare
    Overrides,   \* changes.urgency of the configuration
    Today

ASSUME EstateAssumption ==
    /\ \A s \in Sites :
          /\ DOMAIN s = {"shapes", "policies", "blocks"}
          /\ \A i \in DOMAIN s.shapes : \A a, b \in s.shapes[i] :
                /\ DOMAIN a = DOMAIN Blank
                /\ a.kind = b.kind            \* an id is made of the kind, too
    /\ Today \in Nat

VARIABLES
    site,      \* the organisation
    policy,    \* the policy in force
    entries,   \* the applications: block in force
    last,      \* the baseline: the inventory before doc
    doc        \* the inventory

vars == <<site, policy, entries, last, doc>>

NoInventory == [assets |-> <<>>, findings |-> {}, failed |-> FALSE, apps |-> <<>>]

Init ==
    /\ site \in Sites
    /\ policy \in {DeepMerge(DefaultPolicy, o) : o \in site.policies}
    /\ entries \in site.blocks
    /\ last = NoInventory
    /\ doc = NoInventory

\* What the source may report: some of the assets, each in one of its shapes.
Sightings ==
    UNION {{f \in [ids -> UNION {site.shapes[i] : i \in ids}] :
               \A i \in ids : f[i] \in site.shapes[i]} :
           ids \in SUBSET DOMAIN site.shapes}

\* scan(): collect or carry forward, evaluate, mark, link.
Inventory(found, failed) ==
    LET assets == IF failed
                  THEN [i \in DOMAIN doc.assets |->
                           [doc.assets[i] EXCEPT !.observed = FALSE]]
                  ELSE found
    IN  Apply([assets |-> assets,
               findings |-> {[f EXCEPT !.verified = assets[f.asset].observed] :
                               f \in Evaluate(assets, policy, Today)},
               failed |-> failed, apps |-> <<>>],
              entries, policy, TRUE)

\* A scan with the last inventory as its baseline.  With a block that cannot
\* be loaded it raises and writes nothing.
Rescan(found) ==
    /\ Loadable(entries)
    /\ last' = doc
    /\ doc' = Inventory(found, FALSE)
    /\ UNCHANGED <<site, policy, entries>>

RescanFails ==
    /\ Loadable(entries)
    /\ last' = doc
    /\ doc' = Inventory(<<>>, TRUE)
    /\ UNCHANGED <<site, policy, entries>>

\* `keycensus link`: the saved inventory is linked again and rewritten.
Relink ==
    /\ doc # NoInventory
    /\ entries # <<>> /\ Loadable(entries)
    /\ doc' = Apply(doc, entries, policy, TRUE)
    /\ UNCHANGED <<site, policy, entries, last>>

Reconfigure ==
    /\ entries' \in site.blocks \ {entries}
    /\ UNCHANGED <<site, policy, last, doc>>

Next ==
    \/ \E found \in Sightings : Rescan(found)
    \/ RescanFails
    \/ Relink
    \/ Reconfigure

Spec == Init /\ [][Next]_vars
-----------------------------------------------------------------------------
(* What the properties below need of the configuration and the materials.   *)

\* changes.urgency gives a kind that pages no other urgency, and no other
\* kind that one.
NothingDemoted == \A k \in DOMAIN Overrides \cap Page : Overrides[k] = "page"
NothingPromoted == \A k \in DOMAIN Overrides \ Page : Overrides[k] # "page"

\* No policy turns a rule on strength off or grades it below high.
StrengthRules == {"weak-algorithm", "weak-key-size"}
GradedHigh(p) ==
    \A r \in StrengthRules : Enabled(p, r) /\ SeverityOf(p, r) \in {"critical", "high"}
StrengthIsGraded ==
    \A s \in Sites : \A o \in s.policies : GradedHigh(DeepMerge(DefaultPolicy, o))

\* The rules and Assess draw the line in the same place but for these: AES and
\* HMAC keys of 112 to 127 bits, which the size rule rejects and Assess puts
\* above 112; Edwards and Montgomery keys of less than 224 and keys of a
\* broken digest, which no rule rejects; and sizes that are no sizes.
Ordinary(a) ==
    a.kind \in {"key", "certificate"} =>
        /\ SizeOf(a) \in Int /\ (SizeOf(a) = Unset \/ SizeOf(a) > 0)
        /\ a.algorithm \notin BrokenHashes
        /\ a.algorithm \in {"AES", "HMAC"} => SizeOf(a) \notin 112..127
        /\ a.algorithm \in {"Ed25519", "Ed448", "X25519"} => SizeOf(a) \notin 1..223
MaterialsAreOrdinary ==
    \A s \in Sites : \A i \in DOMAIN s.shapes : \A a \in s.shapes[i] : Ordinary(a)
-----------------------------------------------------------------------------
(* Getting worse.                                                           *)

Lost(old, new, flag) == old[flag] = "yes" /\ new[flag] # "yes"

\* Below what 112 bits are, or an algorithm that is broken whatever its size.
TooWeak(a) ==
    /\ a.kind \in {"key", "certificate"}
    /\ \/ a.algorithm \in WeakAlgorithms
       \/ Assess(a).bits # Unset /\ Assess(a).bits < 112

Worse(old, new) ==
    \/ TooWeak(new) /\ ~TooWeak(old)
    \/ new.exportable = "yes" /\ old.exportable # "yes"
    \/ \E flag \in {"hardware_backed", "fips_validated", "rotation_enabled"} :
          Lost(old, new, flag)
    \/ new.state = "compromised" /\ old.state # "compromised"
    \/ \E v \in new.weak_versions_accepted : v \notin old.weak_versions_accepted
    \/ /\ PostQuantum(old.key_exchange)
       /\ new.key_exchange # "none" /\ ~PostQuantum(new.key_exchange)

\* Nothing gets worse quietly: whatever becomes too weak, exportable or
\* compromised, leaves the hardware or its validation, is no longer rotated,
\* or accepts a version or a key exchange it had left behind, `keycensus diff
\* --fail-on-page` exits 5 on it.  (Of a pair of keys, on the private half.)
WorseMeansPage ==
    (\E i \in Both(last, doc) \ PublicHalves(doc.assets) :
        Worse(last.assets[i], doc.assets[i]))
    => DiffExit(last, doc, Today, Overrides, TRUE, 4, TRUE) = 5

\* Routine is not paged: about an asset that is in both inventories, got in
\* no way worse, and is as strong as before or stronger, no page is sent but
\* those for a new finding.
RoutineIsNotPaged ==
    \A c \in Pages(last, doc, Today, Overrides) :
        c[2] \in Both(last, doc) /\ c[1] \notin {"finding-new-high", "finding-new-critical"} =>
            LET old == last.assets[c[2]]
                new == doc.assets[c[2]]
            IN  \/ Worse(old, new)
                \/ old.algorithm = new.algorithm /\ new.key_size < old.key_size
                \/ Assess(new).bits < Assess(old).bits

\* With applications declared, the two sides of every link agree, a name
\* stands for one application, and the assets reported as unlinked are those
\* that no application claims, whatever was scanned, carried forward, linked
\* and relinked under whatever configurations before.
LinksAgree ==
    doc.apps # <<>> =>
        /\ \A i \in DOMAIN doc.assets :
              doc.assets[i].applications =
                {doc.apps[k].name : k \in {j \in DOMAIN doc.apps : i \in doc.apps[j].asset_ids}}
        /\ \A k, j \in DOMAIN doc.apps : k # j => doc.apps[k].name # doc.apps[j].name
        /\ Enabled(policy, "unlinked-asset") =>
              {f.asset : f \in {g \in doc.findings : g.rule = "unlinked-asset"}} =
              {i \in DOMAIN doc.assets :
                  /\ \A k \in DOMAIN doc.apps : i \notin doc.apps[k].asset_ids
                  /\ doc.assets[i].kind # "protocol"
                  /\ ~(doc.assets[i].kind = "key" /\ doc.assets[i].key_type = "public-key")}

\* docs/ALERTING.md on algorithm-weakened: "Effective strength went down: a
\* shorter key, or a re-key to a weaker algorithm.  Judged with the same
\* strength model the findings use".
RekeyIsJudged ==
    \A i \in Both(last, doc) :
        LET old == Assess(last.assets[i]).bits
            new == Assess(doc.assets[i]).bits
        IN  old # Unset /\ new # Unset /\ new < old
            => <<"algorithm-weakened", i>> \in Classify(last, doc, Today)
=============================================================================
