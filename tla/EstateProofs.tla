------------------------------ MODULE EstateProofs ------------------------------
(***************************************************************************)
(* Proofs about Estate, for any organisations: any shapes of any number of  *)
(* assets, any policies and any applications: blocks.                       *)
(*                                                                          *)
(* First what every step keeps of the assets (Stocked), and what linking    *)
(* does; from it, that the two sides of the links agree.  Then the change   *)
(* report: what pages about an asset is that it got worse, and, with the    *)
(* findings on strength shown to be those of the assets as they stand       *)
(* (IInv), that nothing gets worse without a page.                          *)
(***************************************************************************)
EXTENDS Estate, TLAPS

USE EstateAssumption

-----------------------------------------------------------------------------
(* Inventories                                                              *)

\* An asset as it was collected, but for what carrying it forward and linking
\* change of it.
Resembles(a, b) ==
    /\ DOMAIN a = DOMAIN b
    /\ \A f \in DOMAIN b \ {"applications", "observed"} : a[f] = b[f]

\* Assets of the organisation s.
Collected(s, assets) ==
    \A i \in DOMAIN assets :
        /\ i \in DOMAIN s.shapes
        /\ \E a \in s.shapes[i] : Resembles(assets[i], a)

Shaped(s, d) ==
    DOMAIN d = {"assets", "findings", "failed", "apps"} /\ Collected(s, d.assets)

\* The inductive invariant of the assets: in the inventory and in its baseline
\* every one is an asset of the organisation.
Stocked ==
    /\ site \in Sites
    /\ Shaped(site, last)
    /\ Shaped(site, doc)

\* The assets of an inventory have the fields of the dataclass.
LEMMA FieldsAreThere ==
    ASSUME NEW s \in Sites, NEW assets, Collected(s, assets), NEW i \in DOMAIN assets
    PROVE  /\ DOMAIN assets[i] = DOMAIN Blank
           /\ {"applications", "observed"} \subseteq DOMAIN assets[i]
<1>1. PICK a \in s.shapes[i] : i \in DOMAIN s.shapes /\ Resembles(assets[i], a)
  BY DEF Collected
<1>2. DOMAIN assets[i] = DOMAIN Blank
  BY <1>1 DEF Resembles, EstateAssumption
<1> QED BY <1>2 DEF Blank

\* What linking needs of an inventory and of the applications.
Linkable(inv) ==
    /\ DOMAIN inv = {"assets", "findings", "failed", "apps"}
    /\ \A i \in DOMAIN inv.assets : "applications" \in DOMAIN inv.assets[i]
Named(apps) == \A k \in DOMAIN apps : {"name", "asset_ids"} \subseteq DOMAIN apps[k]

\* The names of the applications that claim i.
NamesOf(apps, i) ==
    {apps[k].name : k \in {j \in DOMAIN apps : i \in apps[j].asset_ids}}

\* No application claims an asset exactly when it gets no name.
LEMMA NoNames ==
    ASSUME NEW apps, NEW i
    PROVE  NamesOf(apps, i) = {} <=> \A k \in DOMAIN apps : i \notin apps[k].asset_ids
<1>1. ASSUME NEW k \in DOMAIN apps, i \in apps[k].asset_ids
      PROVE  apps[k].name \in NamesOf(apps, i)
  BY <1>1 DEF NamesOf
<1>2. ASSUME \A k \in DOMAIN apps : i \notin apps[k].asset_ids
      PROVE  NamesOf(apps, i) = {}
  BY <1>2 DEF NamesOf
<1> QED BY <1>1, <1>2

\* Linking touches the applications of the assets and nothing else of them.
LEMMA LinkIs ==
    ASSUME NEW inv, NEW apps, NEW auto, Linkable(inv), Named(apps),
           NEW linked, linked = Link(inv, apps, auto)
    PROVE  /\ DOMAIN linked = DOMAIN inv
           /\ linked.findings = inv.findings
           /\ linked.failed = inv.failed
           /\ DOMAIN linked.apps = DOMAIN apps
           /\ \A k \in DOMAIN apps : linked.apps[k].name = apps[k].name
           /\ DOMAIN linked.assets = DOMAIN inv.assets
           /\ \A i \in DOMAIN inv.assets :
                 /\ DOMAIN linked.assets[i] = DOMAIN inv.assets[i]
                 /\ \A f \in DOMAIN inv.assets[i] \ {"applications"} :
                       linked.assets[i][f] = inv.assets[i][f]
                 /\ linked.assets[i].applications = NamesOf(linked.apps, i)
<1> DEFINE apps2 == [k \in DOMAIN apps |->
            [apps[k] EXCEPT !.asset_ids =
                {i \in DOMAIN inv.assets : Claims(apps[k], i, inv.assets[i], auto)}]]
           assets2 == [i \in DOMAIN inv.assets |->
            [inv.assets[i] EXCEPT !.applications =
                {apps2[k].name : k \in {j \in DOMAIN apps : i \in apps2[j].asset_ids}}]]
<1>1. Link(inv, apps, auto) = [inv EXCEPT !.apps = apps2, !.assets = assets2]
  BY DEF Link
<1>2. \A k \in DOMAIN apps : apps2[k].name = apps[k].name
  BY DEF Named
<1>3. DOMAIN apps2 = DOMAIN apps
  OBVIOUS
<1> HIDE DEF apps2
<1>4. /\ DOMAIN assets2 = DOMAIN inv.assets
      /\ \A i \in DOMAIN inv.assets :
            /\ DOMAIN assets2[i] = DOMAIN inv.assets[i]
            /\ \A f \in DOMAIN inv.assets[i] \ {"applications"} : assets2[i][f] = inv.assets[i][f]
            /\ assets2[i].applications = NamesOf(apps2, i)
  BY <1>3 DEF NamesOf, Linkable
<1> HIDE DEF assets2
<1>5. /\ DOMAIN linked = DOMAIN inv /\ linked.findings = inv.findings
      /\ linked.failed = inv.failed /\ linked.apps = apps2 /\ linked.assets = assets2
  BY <1>1 DEF Linkable
<1> QED BY <1>2, <1>3, <1>4, <1>5

\* What Apply needs of it.
LEMMA LinkKeeps ==
    ASSUME NEW inv, NEW apps, NEW auto, Linkable(inv), Named(apps),
           NEW linked, linked = Link(inv, apps, auto)
    PROVE  /\ DOMAIN linked = DOMAIN inv
           /\ DOMAIN linked.assets = DOMAIN inv.assets
           /\ \A i \in DOMAIN inv.assets : Resembles(linked.assets[i], inv.assets[i])
BY LinkIs DEF Resembles

\* The findings Apply adds are those of one rule.
LEMMA UnlinkedIs ==
    ASSUME NEW inv, NEW p, NEW f \in UnlinkedFindings(inv, p)
    PROVE  f.rule = "unlinked-asset"
<1>1. PICK i : f = [rule |-> "unlinked-asset", asset |-> i,
                    severity |-> SeverityOf(p, "unlinked-asset"), verified |-> TRUE]
  BY DEF UnlinkedFindings
<1> QED BY <1>1

\* What is collected or carried forward, and evaluated, before it is linked.
Raw(found, failed) ==
    LET assets == IF failed
                  THEN [i \in DOMAIN doc.assets |->
                           [doc.assets[i] EXCEPT !.observed = FALSE]]
                  ELSE found
    IN  [assets |-> assets,
         findings |-> {[f EXCEPT !.verified = assets[f.asset].observed] :
                         f \in Evaluate(assets, policy, Today)},
         failed |-> failed, apps |-> <<>>]

\* scan() in two steps: what is seen and evaluated, then linked.
LEMMA InventoryIs ==
    ASSUME NEW found, NEW failed
    PROVE  Inventory(found, failed) = Apply(Raw(found, failed), entries, policy, TRUE)
BY DEF Inventory, Raw

\* Resembling carries over.
LEMMA ResemblingIsKept ==
    ASSUME NEW s, NEW assets, NEW others, Collected(s, others),
           DOMAIN assets = DOMAIN others,
           \A i \in DOMAIN others : Resembles(assets[i], others[i])
    PROVE  Collected(s, assets)
<1> SUFFICES ASSUME NEW i \in DOMAIN assets
             PROVE  i \in DOMAIN s.shapes /\ \E a \in s.shapes[i] : Resembles(assets[i], a)
  BY DEF Collected
<1>1. PICK a \in s.shapes[i] : i \in DOMAIN s.shapes /\ Resembles(others[i], a)
  BY DEF Collected
<1>2. Resembles(assets[i], a)
  BY <1>1 DEF Resembles
<1> QED BY <1>1, <1>2

\* What a scan collects or carries forward is the organisation's.
LEMMA RawIsShaped ==
    ASSUME Stocked, NEW found, NEW failed \in BOOLEAN, failed \/ found \in Sightings
    PROVE  Shaped(site, Raw(found, failed))
<1> DEFINE assets == Raw(found, failed).assets
<1>1. DOMAIN Raw(found, failed) = {"assets", "findings", "failed", "apps"}
  BY DEF Raw
<1>2. CASE failed
  <2>1. assets = [i \in DOMAIN doc.assets |-> [doc.assets[i] EXCEPT !.observed = FALSE]]
    BY <1>2 DEF Raw
  <2> HIDE DEF assets
  <2>2. DOMAIN assets = DOMAIN doc.assets
        /\ \A i \in DOMAIN doc.assets : Resembles(assets[i], doc.assets[i])
    BY <2>1 DEF Resembles
  <2>3. Collected(site, assets)
    BY <2>2, ResemblingIsKept DEF Stocked, Shaped
  <2> QED BY <1>1, <2>3 DEF Shaped, assets
<1>3. CASE ~failed
  <2>1. assets = found
    BY <1>3 DEF Raw
  <2>2. PICK ids \in SUBSET DOMAIN site.shapes :
           found \in {f \in [ids -> UNION {site.shapes[i] : i \in ids}] :
                        \A i \in ids : f[i] \in site.shapes[i]}
    BY <1>3 DEF Sightings
  <2>3. Collected(site, found)
    BY <2>2 DEF Collected, Resembles
  <2> QED BY <1>1, <2>1, <2>3 DEF Shaped
<1> QED BY <1>2, <1>3

\* With applications declared, Apply links and writes the unlinked anew;
\* without, it leaves the inventory alone.  Either way the assets and their
\* other findings stay as they are.
LEMMA ApplyIs ==
    ASSUME NEW inv, NEW auto, site \in Sites, Shaped(site, inv)
    PROVE  LET d == Apply(inv, entries, policy, auto) IN
           /\ Shaped(site, d)
           /\ DOMAIN d.assets = DOMAIN inv.assets
           /\ \A i \in DOMAIN inv.assets : Resembles(d.assets[i], inv.assets[i])
           /\ \A f : f.rule # "unlinked-asset" => (f \in d.findings <=> f \in inv.findings)
<1> DEFINE linked == Link(inv, Load(entries), auto)
           d == Apply(inv, entries, policy, auto)
<1>1. CASE entries = <<>>
  <2>1. d = inv
    BY <1>1 DEF Apply
  <2> QED BY <2>1 DEF Resembles
<1>2. CASE entries # <<>>
  <2>1. d = [linked EXCEPT !.findings =
                {f \in inv.findings : f.rule # "unlinked-asset"}
                \union UnlinkedFindings(linked, policy)]
    BY <1>2 DEF Apply
  <2>2. Linkable(inv) /\ Named(Load(entries))
    BY FieldsAreThere DEF Shaped, Linkable, Load, Named
  <2> HIDE DEF linked, d
  <2>3. /\ DOMAIN linked = DOMAIN inv
        /\ DOMAIN linked.assets = DOMAIN inv.assets
        /\ \A i \in DOMAIN inv.assets : Resembles(linked.assets[i], inv.assets[i])
    BY <2>2, LinkKeeps DEF linked
  <2>4. \A f \in UnlinkedFindings(linked, policy) : f.rule = "unlinked-asset"
    BY UnlinkedIs
  <2>5. DOMAIN d = DOMAIN inv /\ d.assets = linked.assets
        /\ d.findings = {f \in inv.findings : f.rule # "unlinked-asset"}
                        \union UnlinkedFindings(linked, policy)
    BY <2>1, <2>2, <2>3 DEF Linkable
  <2>6. DOMAIN d.assets = DOMAIN inv.assets
        /\ \A i \in DOMAIN inv.assets : Resembles(d.assets[i], inv.assets[i])
    BY <2>3, <2>5
  <2>7. Shaped(site, d)
    BY <2>2, <2>5, <2>6, ResemblingIsKept DEF Shaped, Linkable
  <2>8. \A f : f.rule # "unlinked-asset" => (f \in d.findings <=> f \in inv.findings)
    BY <2>4, <2>5
  <2> QED BY <2>6, <2>7, <2>8 DEF d
<1> QED BY <1>1, <1>2

\* The four ways the two inventories move.
LEMMA Moves ==
    ASSUME [Next]_vars
    PROVE  /\ UNCHANGED <<site, policy>>
           /\ \/ /\ last' = doc
                 /\ Loadable(entries)
                 /\ \E failed \in BOOLEAN : \E found :
                       /\ failed \/ found \in Sightings
                       /\ doc' = Apply(Raw(found, failed), entries, policy, TRUE)
              \/ /\ UNCHANGED last
                 /\ entries # <<>> /\ Loadable(entries)
                 /\ doc' = Apply(doc, entries, policy, TRUE)
              \/ UNCHANGED <<last, doc>>
<1>1. ASSUME NEW found \in Sightings, Rescan(found)
      PROVE  /\ UNCHANGED <<site, policy>> /\ last' = doc /\ Loadable(entries)
             /\ doc' = Apply(Raw(found, FALSE), entries, policy, TRUE)
  BY <1>1, InventoryIs DEF Rescan
<1>2. ASSUME RescanFails
      PROVE  /\ UNCHANGED <<site, policy>> /\ last' = doc /\ Loadable(entries)
             /\ doc' = Apply(Raw(<<>>, TRUE), entries, policy, TRUE)
  BY <1>2, InventoryIs DEF RescanFails
<1> QED BY <1>1, <1>2 DEF Next, Relink, Reconfigure, vars

\* Stocked at the start: there is no inventory yet.
LEMMA StockedInit == Init => Stocked
<1> SUFFICES ASSUME Init PROVE Stocked
  OBVIOUS
<1>1. NoInventory.assets = <<>> /\ DOMAIN NoInventory = {"assets", "findings", "failed", "apps"}
  BY DEF NoInventory
<1>2. Collected(site, <<>>)
  BY DEF Collected
<1> QED BY <1>1, <1>2 DEF Init, Stocked, Shaped

\* Stocked is kept: collected assets are new, and carrying forward and
\* linking leave an asset resembling what was collected.
LEMMA StockedStep == Stocked /\ [Next]_vars => Stocked'
<1> SUFFICES ASSUME Stocked, [Next]_vars PROVE Stocked'
  OBVIOUS
<1>1. UNCHANGED <<site, policy>>
  BY Moves
<1>2. CASE /\ last' = doc
           /\ \E failed \in BOOLEAN : \E found :
                 /\ failed \/ found \in Sightings
                 /\ doc' = Apply(Raw(found, failed), entries, policy, TRUE)
  <2>1. Shaped(site, doc')
    BY <1>2, RawIsShaped, ApplyIs DEF Stocked
  <2> QED BY <1>1, <1>2, <2>1 DEF Stocked
<1>3. CASE UNCHANGED last /\ doc' = Apply(doc, entries, policy, TRUE)
  <2>1. Shaped(site, doc')
    BY <1>3, ApplyIs DEF Stocked
  <2> QED BY <1>1, <1>3, <2>1 DEF Stocked
<1>4. CASE UNCHANGED <<last, doc>>
  BY <1>1, <1>4 DEF Stocked
<1> QED BY <1>2, <1>3, <1>4, Moves

\* Every asset that is scanned, carried forward or linked is one that was
\* collected, in all that the judgements read.
THEOREM EveryAssetWasCollected == Spec => []Stocked
BY StockedInit, StockedStep, PTL DEF Spec
-----------------------------------------------------------------------------
(* The links agree                                                          *)

\* LinksAgree, of any inventory and policy.
AgreeIn(d, p) ==
    d.apps # <<>> =>
        /\ \A i \in DOMAIN d.assets :
              d.assets[i].applications = NamesOf(d.apps, i)
        /\ \A k, j \in DOMAIN d.apps : k # j => d.apps[k].name # d.apps[j].name
        /\ Enabled(p, "unlinked-asset") =>
              {f.asset : f \in {g \in d.findings : g.rule = "unlinked-asset"}} =
              {i \in DOMAIN d.assets :
                  /\ \A k \in DOMAIN d.apps : i \notin d.apps[k].asset_ids
                  /\ d.assets[i].kind # "protocol"
                  /\ ~(d.assets[i].kind = "key" /\ d.assets[i].key_type = "public-key")}

\* AgreeIn states the invariant of the runs.
LEMMA AgreeIsLinksAgree == LinksAgree <=> AgreeIn(doc, policy)
BY DEF LinksAgree, AgreeIn, NamesOf

\* The applications of a block that can be loaded have a name each.
LEMMA LoadedNamesDiffer ==
    ASSUME NEW block, Loadable(block), NEW apps, apps = Load(block)
    PROVE  /\ DOMAIN apps = DOMAIN block
           /\ Named(apps)
           /\ \A k, j \in DOMAIN apps : k # j => apps[k].name # apps[j].name
BY DEF Load, Loadable, Named

\* Linking an inventory makes its two sides agree, whatever they were before.
LEMMA LinkingAgrees ==
    ASSUME NEW inv, NEW auto, site \in Sites, Shaped(site, inv), Loadable(entries),
           entries # <<>> \/ inv.apps = <<>>
    PROVE  AgreeIn(Apply(inv, entries, policy, auto), policy)
<1> DEFINE loaded == Load(entries)
           linked == Link(inv, loaded, auto)
           d == Apply(inv, entries, policy, auto)
<1>1. CASE entries = <<>>
  <2>1. d = inv /\ inv.apps = <<>>
    BY <1>1 DEF Apply
  <2> QED BY <2>1 DEF AgreeIn
<1>2. CASE entries # <<>>
  <2>1. d = [linked EXCEPT !.findings =
                {f \in inv.findings : f.rule # "unlinked-asset"}
                \union UnlinkedFindings(linked, policy)]
    BY <1>2 DEF Apply
  <2>2. Linkable(inv)
    BY FieldsAreThere DEF Shaped, Linkable
  <2> HIDE DEF d, linked, loaded
  <2>3. /\ Named(loaded)
        /\ \A k, j \in DOMAIN loaded : k # j => loaded[k].name # loaded[j].name
    BY LoadedNamesDiffer DEF loaded
  <2>4. /\ DOMAIN linked = DOMAIN inv
        /\ DOMAIN linked.apps = DOMAIN loaded
        /\ \A k \in DOMAIN loaded : linked.apps[k].name = loaded[k].name
        /\ DOMAIN linked.assets = DOMAIN inv.assets
        /\ \A i \in DOMAIN inv.assets :
              linked.assets[i].applications = NamesOf(linked.apps, i)
    BY <2>2, <2>3, LinkIs DEF linked
  <2>5. /\ d.apps = linked.apps /\ d.assets = linked.assets
        /\ d.findings = {f \in inv.findings : f.rule # "unlinked-asset"}
                        \union UnlinkedFindings(linked, policy)
    BY <2>1, <2>2, <2>4 DEF Linkable
  <2>6. \A i \in DOMAIN d.assets :
           d.assets[i].applications = NamesOf(d.apps, i)
    BY <2>4, <2>5
  <2>7. \A k, j \in DOMAIN d.apps : k # j => d.apps[k].name # d.apps[j].name
    BY <2>3, <2>4, <2>5
  <2>8. ASSUME Enabled(policy, "unlinked-asset")
        PROVE  {f.asset : f \in {g \in d.findings : g.rule = "unlinked-asset"}} =
               {i \in DOMAIN d.assets :
                   /\ \A k \in DOMAIN d.apps : i \notin d.apps[k].asset_ids
                   /\ d.assets[i].kind # "protocol"
                   /\ ~(d.assets[i].kind = "key" /\ d.assets[i].key_type = "public-key")}
    <3> DEFINE Unowned(i) == /\ d.assets[i].applications = {}
                             /\ d.assets[i].kind # "protocol"
                             /\ ~(d.assets[i].kind = "key" /\ d.assets[i].key_type = "public-key")
    <3>1. \A i \in DOMAIN d.assets :
             d.assets[i].applications = {} <=>
             \A k \in DOMAIN d.apps : i \notin d.apps[k].asset_ids
      BY <2>6, NoNames
    <3>2. \A g : g \in d.findings /\ g.rule = "unlinked-asset" <=>
                g \in UnlinkedFindings(linked, policy)
      BY <2>5, UnlinkedIs
    <3>3. ASSUME NEW i \in DOMAIN d.assets, Unowned(i)
          PROVE  \E f \in UnlinkedFindings(linked, policy) : f.asset = i
      <4> DEFINE f == [rule |-> "unlinked-asset", asset |-> i,
                       severity |-> SeverityOf(policy, "unlinked-asset"), verified |-> TRUE]
      <4>1. f \in UnlinkedFindings(linked, policy) /\ f.asset = i
        BY <2>5, <2>8, <3>3 DEF UnlinkedFindings
      <4> QED BY <4>1
    <3>4. ASSUME NEW f \in UnlinkedFindings(linked, policy)
          PROVE  f.asset \in DOMAIN d.assets /\ Unowned(f.asset)
      <4>1. PICK i \in DOMAIN d.assets :
               /\ f = [rule |-> "unlinked-asset", asset |-> i,
                       severity |-> SeverityOf(policy, "unlinked-asset"), verified |-> TRUE]
               /\ Unowned(i)
        BY <2>5 DEF UnlinkedFindings
      <4>2. f.asset = i
        BY <4>1
      <4> QED BY <4>1, <4>2
    <3> HIDE DEF Unowned
    <3>5. {f.asset : f \in {g \in d.findings : g.rule = "unlinked-asset"}} =
          {i \in DOMAIN d.assets : Unowned(i)}
      BY <3>2, <3>3, <3>4
    <3> QED BY <3>1, <3>5 DEF Unowned
  <2> QED BY <2>6, <2>7, <2>8 DEF AgreeIn, d
<1> QED BY <1>1, <1>2

\* LinksAgree, for any applications: block, reconfigured at any time: the
\* links of an inventory are made anew by every scan and every relink, from
\* names that differ.
THEOREM LinksAgreeAlways == Spec => []LinksAgree
<1>1. Init => AgreeIn(doc, policy)
  BY DEF Init, NoInventory, AgreeIn
<1>2. Stocked /\ AgreeIn(doc, policy) /\ [Next]_vars => AgreeIn(doc, policy)'
  <2> SUFFICES ASSUME Stocked, AgreeIn(doc, policy), [Next]_vars
               PROVE  AgreeIn(doc', policy')
    OBVIOUS
  <2>1. policy' = policy /\ site \in Sites
    BY Moves DEF Stocked
  <2>2. ASSUME NEW failed \in BOOLEAN, NEW found, failed \/ found \in Sightings,
               Loadable(entries), doc' = Apply(Raw(found, failed), entries, policy, TRUE)
        PROVE  AgreeIn(doc', policy)
    <3>1. Raw(found, failed).apps = <<>>
      BY DEF Raw
    <3> QED BY <2>1, <2>2, <3>1, RawIsShaped, LinkingAgrees
  <2>3. ASSUME entries # <<>>, Loadable(entries), doc' = Apply(doc, entries, policy, TRUE)
        PROVE  AgreeIn(doc', policy)
    BY <2>1, <2>3, LinkingAgrees DEF Stocked
  <2> QED BY <2>1, <2>2, <2>3, Moves
<1> QED BY <1>1, <1>2, AgreeIsLinksAgree, EveryAssetWasCollected, PTL DEF Spec
-----------------------------------------------------------------------------
(* Routine is not paged                                                     *)

\* What a page about an asset that is in both inventories tells: that it got
\* worse, that its key got shorter, or that it has a new finding.
LEMMA PagesAreOfTheWorse ==
    ASSUME NEW old, NEW new, NEW kind \in ClassifyAsset(old, new) \cap Page
    PROVE  \/ Worse(old, new)
           \/ old.algorithm = new.algorithm /\ new.key_size < old.key_size
<1> DEFINE ch == FieldChanges(old, new)
<1>1. \A f \in DOMAIN ch : ch[f].before = old[f] /\ ch[f].after = new[f]
  BY DEF FieldChanges
<1>2. \A f \in DOMAIN ch : f \in Watched /\ Norm(f, old[f]) # Norm(f, new[f])
  BY DEF FieldChanges
<1>3. \A f \in DOMAIN ch \ {"purposes"} : old[f] # new[f]
  BY <1>2 DEF Norm
<1>4. \A f \in {"algorithm", "key_size", "curve"} : f \in DOMAIN ch \/ old[f] = new[f]
  BY DEF FieldChanges, Norm, Watched
<1>5. CASE kind \in StrengthKinds(ch, new.kind)
  <2> DEFINE b == Side(ch, new.kind, "before")
             a == Side(ch, new.kind, "after")
  <2>1. kind = "algorithm-weakened" /\ Direction(b, a) = "weaker"
    BY <1>5 DEF StrengthKinds, Page
  <2>2. Bits(b) = Unset /\ Bits(a) = Unset
    BY DEF Bits, Side, Required
  <2>3. b.algorithm = a.algorithm /\ b.key_size # Unset /\ a.key_size # Unset
        /\ Compare(b.key_size, a.key_size) = "weaker"
    BY <2>1, <2>2 DEF Direction
  <2>4. a.key_size < b.key_size
    BY <2>3 DEF Compare
  <2>5. "key_size" \in DOMAIN ch
    BY <2>3 DEF Side
  <2>6. b.key_size = old.key_size /\ a.key_size = new.key_size
    BY <2>5, <1>1 DEF Side
  <2>7. "algorithm" \notin DOMAIN ch
    <3>1. SUFFICES ASSUME "algorithm" \in DOMAIN ch PROVE FALSE
      OBVIOUS
    <3>2. b.algorithm = old.algorithm /\ a.algorithm = new.algorithm
      BY <3>1, <1>1 DEF Side
    <3> QED BY <3>1, <3>2, <1>3, <2>3
  <2> QED BY <2>4, <2>6, <2>7, <1>4
<1>6. CASE kind \in FlipKinds(ch)
  <2>1. PICK g \in DOMAIN Flips \cap DOMAIN ch :
           \/ ch[g].after = "yes" /\ kind = Flips[g][1]
           \/ ch[g].before = "yes" /\ kind = Flips[g][2]
    BY <1>6 DEF FlipKinds
  <2>2. g \in {"exportable", "hardware_backed", "fips_validated", "rotation_enabled"}
    BY DEF Flips
  <2>3. old[g] # new[g] /\ ch[g].before = old[g] /\ ch[g].after = new[g]
    BY <2>2, <1>1, <1>3
  <2>4. \/ g = "exportable" /\ new[g] = "yes"
        \/ g # "exportable" /\ old[g] = "yes"
    BY <2>1, <2>2, <2>3 DEF Flips, Page
  <2> QED BY <2>2, <2>3, <2>4 DEF Worse, Lost
<1>7. CASE kind \in StateKinds(ch)
  <2>1. "state" \in DOMAIN ch /\ ch["state"].after = "compromised"
    BY <1>7 DEF StateKinds, Page
  <2> QED BY <2>1, <1>1, <1>3 DEF Worse
<1>8. CASE kind \in ProtocolKinds(ch)
  <2>1. "weak_versions_accepted" \in DOMAIN ch
        /\ ch["weak_versions_accepted"].after \ ch["weak_versions_accepted"].before # {}
    BY <1>8 DEF ProtocolKinds
  <2>2. new.weak_versions_accepted \ old.weak_versions_accepted # {}
    BY <2>1, <1>1
  <2> QED BY <2>2 DEF Worse
<1>9. CASE kind \in KeyExchangeKinds(ch)
  <2>1. /\ "key_exchange" \in DOMAIN ch
        /\ PostQuantum(ch["key_exchange"].before)
        /\ ch["key_exchange"].after # "none"
        /\ ~PostQuantum(ch["key_exchange"].after)
    BY <1>9 DEF KeyExchangeKinds, Page
  <2> QED BY <2>1, <1>1 DEF Worse
<1>10. kind \notin ConsumerKinds(ch) /\ kind \notin PlainKinds(ch)
  BY DEF ConsumerKinds, PlainKinds, Page
<1> QED BY <1>5, <1>6, <1>7, <1>8, <1>9, <1>10 DEF ClassifyAsset

\* A page is of a kind that pages, unless the configuration promotes another.
LEMMA PagedKinds ==
    ASSUME NothingPromoted, NEW b, NEW n, NEW now, NEW c \in Pages(b, n, now, Overrides)
    PROVE  c[1] \in Page /\ c \in Classify(b, n, now)
<1>1. c \in Classify(b, n, now) /\ Urgency(c[1], Overrides) = "page"
  BY DEF Pages
<1>2. c[1] \in Page
  BY <1>1 DEF Urgency, Get, NothingPromoted
<1> QED BY <1>1, <1>2

\* RoutineIsNotPaged, whatever the inventories are, in a configuration that
\* pages for no other kinds than the code does.
THEOREM QuietAboutRoutine == NothingPromoted => (Spec => []RoutineIsNotPaged)
<1> SUFFICES ASSUME NothingPromoted PROVE Spec => []RoutineIsNotPaged
  OBVIOUS
<1>1. RoutineIsNotPaged
  <2> SUFFICES ASSUME NEW c \in Pages(last, doc, Today, Overrides),
                      c[2] \in Both(last, doc),
                      c[1] \notin {"finding-new-high", "finding-new-critical"}
               PROVE  LET old == last.assets[c[2]]
                          new == doc.assets[c[2]]
                      IN  \/ Worse(old, new)
                          \/ old.algorithm = new.algorithm /\ new.key_size < old.key_size
    BY DEF RoutineIsNotPaged
  <2>1. c[1] \in Page /\ c \in Classify(last, doc, Today)
    BY PagedKinds
  <2>2. c[1] \notin {"asset-added", "asset-retired", "asset-unverified", "finding-new",
                     "finding-unverified", "finding-resolved"}
    BY <2>1 DEF Page
  <2>3. c[2] \notin Gone(last, doc)
    BY DEF Both, Gone
  <2>4. PICK i \in Both(last, doc) : c \in ClassifyAsset(last.assets[i], doc.assets[i]) \X {i}
    BY <2>1, <2>2, <2>3 DEF Classify, NewFindingKind
  <2>5. c[2] = i /\ c[1] \in ClassifyAsset(last.assets[i], doc.assets[i])
    BY <2>4
  <2> QED BY <2>1, <2>5, PagesAreOfTheWorse
<1> QED BY <1>1, PTL
-----------------------------------------------------------------------------
(* Strength: the rules and Assess                                           *)

\* The two rules on strength are rules of the shipped policy.
LEMMA RulesOfStrength == StrengthRules \subseteq RuleIds
<1>1. "high" \in Severities
  BY DEF Severities
<1>2. StrengthRules \subseteq RulesGraded["high"]
  BY DEF StrengthRules, RulesGraded
<1> QED BY <1>1, <1>2 DEF RuleIds

\* No other rule yields the findings of the two on strength.
LEMMA OnlyBreaks ==
    ASSUME NEW p, NEW a, NEW now, NEW r \in StrengthRules
    PROVE  r \in Yielded(p, a, now) <=> Breaks(a, r)
<1>1. r \notin Noted(a)
  BY DEF Noted, StrengthRules
<1>2. r \notin ExpiryRule(p, a, now)
  BY DEF ExpiryRule, StrengthRules
<1>3. r \notin QuantumRule(a)
  BY DEF QuantumRule, StrengthRules
<1>4. r \notin KeyExchangeRule(a)
  BY DEF KeyExchangeRule, StrengthRules
<1>5. r \notin TlsRules(a)
  BY DEF TlsRules, StrengthRules
<1> QED BY <1>1, <1>2, <1>3, <1>4, <1>5, RulesOfStrength DEF Yielded, StrengthRules

\* A table of NIST's puts a size below 112 bits exactly when it is below the
\* size of its row of 112.
LEMMA LookupIs ==
    ASSUME NEW table, NEW k \in Int, NEW n \in Int, <<k, 112>> \in table,
           \A row \in table : /\ row[1] \in Int
                              /\ row[2] \in {80, 112, 128, 192, 256}
                              /\ row[2] = 80 <=> row[1] < k
    PROVE  /\ TableLookup(n, table) \in {0, 80, 112, 128, 192, 256}
           /\ TableLookup(n, table) < 112 <=> n < k
<1> DEFINE reached == {0} \union {row[2] : row \in {r \in table : r[1] <= n}}
           s == TableLookup(n, table)
<1>1. reached \subseteq {0, 80, 112, 128, 192, 256} /\ 0 \in reached
  OBVIOUS
<1>2. n < k => reached \subseteq {0, 80}
  OBVIOUS
<1>3. k <= n => 112 \in reached
  <2>1. <<k, 112>>[1] = k /\ <<k, 112>>[2] = 112
    OBVIOUS
  <2> QED BY <2>1
<1>4. s = CHOOSE t \in reached : \A u \in reached : u <= t
  BY DEF TableLookup
<1> HIDE DEF reached, s
<1>5. \E t \in reached : \A u \in reached : u <= t
  BY <1>1
<1>6. s \in reached /\ \A u \in reached : u <= s
  BY <1>4, <1>5
<1>7. s \in {0, 80, 112, 128, 192, 256}
  BY <1>1, <1>6
<1>8. n < k => s < 112
  BY <1>2, <1>6
<1>9. k <= n => ~(s < 112)
  BY <1>3, <1>6, <1>7
<1> QED BY <1>7, <1>8, <1>9 DEF s

\* RSA, DSA and DH: 2048 bits of key are 112 of strength.
LEMMA FiniteFieldLookup ==
    ASSUME NEW n \in Int
    PROVE  /\ TableLookup(n, FiniteFieldTable) \in {0, 80, 112, 128, 192, 256}
           /\ TableLookup(n, FiniteFieldTable) < 112 <=> n < 2048
<1>1. <<2048, 112>> \in FiniteFieldTable
      /\ \A row \in FiniteFieldTable : /\ row[1] \in Int
                                       /\ row[2] \in {80, 112, 128, 192, 256}
                                       /\ row[2] = 80 <=> row[1] < 2048
  BY DEF FiniteFieldTable
<1> QED BY <1>1, LookupIs

\* Curves: 224 bits of key are 112 of strength.
LEMMA CurveLookup ==
    ASSUME NEW n \in Int
    PROVE  /\ TableLookup(n, CurveTable) \in {0, 80, 112, 128, 192, 256}
           /\ TableLookup(n, CurveTable) < 112 <=> n < 224
<1>1. <<224, 112>> \in CurveTable
      /\ \A row \in CurveTable : /\ row[1] \in Int
                                 /\ row[2] \in {80, 112, 128, 192, 256}
                                 /\ row[2] = 80 <=> row[1] < 224
  BY DEF CurveTable
<1> QED BY <1>1, LookupIs

\* Of ordinary material, what is too weak is what the two rules reject.
LEMMA TooWeakIsRejected ==
    ASSUME NEW a, Ordinary(a), a.kind \in {"key", "certificate"}
    PROVE  TooWeak(a) <=> \E r \in StrengthRules : Breaks(a, r)
<1> DEFINE size == SizeOf(a)
           bits == Assess(a).bits
           alg == a.algorithm
           Small == size # Unset /\ size < MinimumSize(alg)
           Short == bits # Unset /\ bits < 112
<1>1. size \in Int /\ (size = Unset \/ size > 0) /\ Unset = -1
  BY DEF Ordinary, Unset
<1>2. Breaks(a, "weak-algorithm") <=> alg \in WeakAlgorithms
  BY DEF Breaks, Material
<1>3. Breaks(a, "weak-key-size") <=> Small
  BY DEF Breaks, WeakKeySize, Material, IsWeakKeySize
<1>4. TooWeak(a) <=> alg \in WeakAlgorithms \/ Short
  BY DEF TooWeak
<1>5. a.kind # "protocol"
  OBVIOUS
<1> HIDE DEF size, alg
<1>6. CASE alg \in WeakAlgorithms
  BY <1>2, <1>4, <1>6 DEF StrengthRules
<1>7. CASE alg \notin WeakAlgorithms
  <2>1. SUFFICES Short <=> Small
    BY <1>2, <1>3, <1>4, <1>7 DEF StrengthRules
  <2>2. CASE alg \in FiniteFieldAlgorithms
    <3>1. bits = IF size <= 0 THEN Unset ELSE TableLookup(size, FiniteFieldTable)
      BY <1>5, <2>2 DEF Assess, Judged, size, alg, FiniteFieldAlgorithms, CurveAlgorithms, PQC,
          LegacyCiphers, BrokenHashes, HashBits
    <3>2. MinimumSize(alg) = 2048
      BY <2>2 DEF MinimumSize, FiniteFieldAlgorithms
    <3> QED BY <1>1, <3>1, <3>2, FiniteFieldLookup
  <2>3. CASE alg \in CurveAlgorithms
    <3>1. bits = IF size <= 0 THEN Unset ELSE TableLookup(size, CurveTable)
      BY <1>5, <2>3 DEF Assess, Judged, size, alg, FiniteFieldAlgorithms, CurveAlgorithms, PQC,
          LegacyCiphers, BrokenHashes, HashBits
    <3>2. alg = "EC" => MinimumSize(alg) = 224
      BY DEF MinimumSize, FiniteFieldAlgorithms
    <3>3. alg # "EC" => MinimumSize(alg) = 0 /\ size \notin 1..223
      BY <2>3 DEF MinimumSize, CurveAlgorithms, FiniteFieldAlgorithms, Ordinary, size, alg
    <3> QED BY <1>1, <3>1, <3>2, <3>3, CurveLookup
  <2>4. CASE alg = "AES"
    <3>1. bits = size
      BY <1>5, <2>4 DEF Assess, Judged, size, alg, FiniteFieldAlgorithms, CurveAlgorithms, PQC,
          LegacyCiphers, BrokenHashes, HashBits
    <3>2. MinimumSize(alg) = 128
      BY <2>4 DEF MinimumSize, FiniteFieldAlgorithms
    <3>3. size \notin 112..127
      BY <2>4 DEF Ordinary, size, alg
    <3> QED BY <1>1, <3>1, <3>2, <3>3
  <2>5. CASE alg = "HMAC"
    <3>1. bits = size
      BY <1>5, <2>5 DEF Assess, Judged, size, alg, FiniteFieldAlgorithms, CurveAlgorithms, PQC,
          LegacyCiphers, BrokenHashes, HashBits
    <3>2. MinimumSize(alg) = 128
      BY <2>5 DEF MinimumSize, FiniteFieldAlgorithms
    <3>3. size \notin 112..127
      BY <2>5 DEF Ordinary, size, alg
    <3> QED BY <1>1, <3>1, <3>2, <3>3
  <2>6. CASE alg \notin FiniteFieldAlgorithms \union CurveAlgorithms \union {"AES", "HMAC"}
    <3>1. MinimumSize(alg) = 0
      BY <2>6 DEF MinimumSize, CurveAlgorithms
    <3>2. alg \notin BrokenHashes
      BY DEF Ordinary, alg
    <3>3. CASE alg \in {"SHA-224", "SHA-256", "SHA-384", "SHA-512"}
      <4>1. DOMAIN HashBits = {"SHA-224", "SHA-256", "SHA-384", "SHA-512"}
            /\ HashBits[alg] \in {224, 256, 384, 512}
        BY <3>3 DEF HashBits
      <4>2. bits = HashBits[alg] \div 2
        BY <1>5, <3>3, <4>1 DEF Assess, Judged, size, alg, FiniteFieldAlgorithms,
          CurveAlgorithms, PQC, LegacyCiphers, BrokenHashes
      <4>3. bits \in {112, 128, 192, 256}
        BY <4>1, <4>2
      <4> QED BY <1>1, <3>1, <4>3
    <3>4. CASE alg \notin {"SHA-224", "SHA-256", "SHA-384", "SHA-512"}
      <4>1. DOMAIN HashBits = {"SHA-224", "SHA-256", "SHA-384", "SHA-512"}
        BY DEF HashBits
      <4>2. alg \notin PQC \union {"ChaCha20"} => bits = Unset
        BY <1>5, <1>7, <2>6, <3>2, <3>4, <4>1
        DEF Assess, Judged, size, alg, FiniteFieldAlgorithms, CurveAlgorithms, PQC,
          LegacyCiphers, BrokenHashes, WeakAlgorithms
      <4>3. alg \in PQC \union {"ChaCha20"} => bits = Unset \/ bits = 256
        BY <1>5, <1>7, <2>6, <3>4, <4>1
        DEF Assess, Judged, size, alg, FiniteFieldAlgorithms, CurveAlgorithms, PQC,
          LegacyCiphers, BrokenHashes, WeakAlgorithms
      <4> QED BY <1>1, <3>1, <4>2, <4>3
    <3> QED BY <3>3, <3>4
  <2> QED BY <2>2, <2>3, <2>4, <2>5, <2>6
<1> QED BY <1>6, <1>7
-----------------------------------------------------------------------------
(* Getting worse is paged                                                   *)

\* The findings on strength are those of the assets as they stand: whatever
\* breaks one of the two rules has its finding, unless it is the public half
\* of a pair, and no finding outlives its cause.
Faithful(d) ==
    /\ \A i \in DOMAIN d.assets \ PublicHalves(d.assets) : \A r \in StrengthRules :
          Breaks(d.assets[i], r) =>
          \E f \in d.findings :
             f.rule = r /\ f.asset = i /\ f.severity \in {"critical", "high"}
    /\ \A f \in d.findings :
          f.rule \in StrengthRules =>
          f.asset \in DOMAIN d.assets /\ Breaks(d.assets[f.asset], f.rule)

\* The inductive invariant of the findings.
IInv ==
    /\ Stocked
    /\ GradedHigh(policy)
    /\ Faithful(last)
    /\ Faithful(doc)

\* What linking and carrying forward leave as it was.
LEMMA SameJudgements ==
    ASSUME NEW a, NEW b, Resembles(a, b), DOMAIN b = DOMAIN Blank
    PROVE  /\ a.kind = b.kind /\ a.key_type = b.key_type /\ a.source = b.source
           /\ a.name = b.name /\ a.marks = b.marks
           /\ a.ssh_fingerprint = b.ssh_fingerprint
           /\ Ordinary(a) <=> Ordinary(b)
           /\ \A r \in StrengthRules : Breaks(a, r) <=> Breaks(b, r)
<1>1. /\ a.kind = b.kind /\ a.key_type = b.key_type /\ a.source = b.source
      /\ a.name = b.name /\ a.marks = b.marks
      /\ a.ssh_fingerprint = b.ssh_fingerprint
      /\ a.algorithm = b.algorithm /\ a.key_size = b.key_size /\ a.curve = b.curve
  BY DEF Resembles, Blank
<1>2. SizeOf(a) = SizeOf(b)
  BY <1>1 DEF SizeOf
<1>3. Ordinary(a) <=> Ordinary(b)
  BY <1>1, <1>2 DEF Ordinary
<1>4. Breaks(a, "weak-algorithm") <=> Breaks(b, "weak-algorithm")
  BY <1>1 DEF Breaks, Material
<1>5. Breaks(a, "weak-key-size") <=> Breaks(b, "weak-key-size")
  BY <1>1, <1>2 DEF Breaks, WeakKeySize, Material, IsWeakKeySize
<1> QED BY <1>1, <1>3, <1>4, <1>5 DEF StrengthRules

\* Findings stay true to assets that are carried over unchanged in what the
\* two rules read.
LEMMA FaithfulIsKept ==
    ASSUME NEW d, NEW inv, Faithful(inv),
           DOMAIN d.assets = DOMAIN inv.assets,
           \A i \in DOMAIN inv.assets : /\ Resembles(d.assets[i], inv.assets[i])
                                        /\ DOMAIN inv.assets[i] = DOMAIN Blank,
           \A f : f.rule # "unlinked-asset" => (f \in d.findings <=> f \in inv.findings)
    PROVE  Faithful(d)
<1>1. PublicHalves(d.assets) = PublicHalves(inv.assets)
  BY SameJudgements DEF PublicHalves
<1>2. \A i \in DOMAIN d.assets : \A r \in StrengthRules :
         Breaks(d.assets[i], r) <=> Breaks(inv.assets[i], r)
  BY SameJudgements
<1>3. \A f : f.rule \in StrengthRules => (f \in d.findings <=> f \in inv.findings)
  BY DEF StrengthRules
<1> QED BY <1>1, <1>2, <1>3 DEF Faithful

\* Evaluation finds what breaks the two rules, at the policy's severity.
LEMMA RawIsFaithful ==
    ASSUME GradedHigh(policy), NEW found, NEW failed \in BOOLEAN
    PROVE  Faithful(Raw(found, failed))
<1> DEFINE d == Raw(found, failed)
           seen == Evaluate(d.assets, policy, Today)
           Found(i, r) == [rule |-> r, asset |-> i, severity |-> SeverityOf(policy, r),
                           verified |-> TRUE]
<1>1. d.findings = {[f EXCEPT !.verified = d.assets[f.asset].observed] : f \in seen}
  BY DEF Raw
<1>2. \A f \in seen :
         \E i \in DOMAIN d.assets \ PublicHalves(d.assets) :
            \E r \in Yielded(policy, d.assets[i], Today) : f = Found(i, r)
  BY DEF Evaluate
<1>3. \A i \in DOMAIN d.assets \ PublicHalves(d.assets) :
         \A r \in Yielded(policy, d.assets[i], Today) :
            Enabled(policy, r) => Found(i, r) \in seen
  <2> SUFFICES ASSUME NEW i \in DOMAIN d.assets \ PublicHalves(d.assets),
                      NEW r \in Yielded(policy, d.assets[i], Today), Enabled(policy, r)
               PROVE  Found(i, r) \in seen
    OBVIOUS
  <2> HIDE DEF d
  <2> DEFINE own == {[rule |-> q, asset |-> i, severity |-> SeverityOf(policy, q),
                      verified |-> TRUE] :
                        q \in {t \in Yielded(policy, d.assets[i], Today) : Enabled(policy, t)}}
  <2>1. Found(i, r) \in own
    OBVIOUS
  <2>2. own \subseteq seen
    BY DEF Evaluate
  <2> QED BY <2>1, <2>2
<1> HIDE DEF d, seen
<1>4. ASSUME NEW i \in DOMAIN d.assets \ PublicHalves(d.assets), NEW r \in StrengthRules,
             Breaks(d.assets[i], r)
      PROVE  \E f \in d.findings :
                f.rule = r /\ f.asset = i /\ f.severity \in {"critical", "high"}
  <2>1. Found(i, r) \in seen
    BY <1>3, <1>4, OnlyBreaks DEF GradedHigh
  <2> DEFINE g == [Found(i, r) EXCEPT !.verified = d.assets[Found(i, r).asset].observed]
  <2>2. g \in d.findings
    BY <1>1, <2>1
  <2>3. g.rule = r /\ g.asset = i /\ g.severity = SeverityOf(policy, r)
    OBVIOUS
  <2> QED BY <2>2, <2>3 DEF GradedHigh
<1>5. ASSUME NEW f \in d.findings, f.rule \in StrengthRules
      PROVE  f.asset \in DOMAIN d.assets /\ Breaks(d.assets[f.asset], f.rule)
  <2>1. PICK g \in seen : f = [g EXCEPT !.verified = d.assets[g.asset].observed]
    BY <1>1
  <2>2. PICK i \in DOMAIN d.assets :
           \E r \in Yielded(policy, d.assets[i], Today) : g = Found(i, r)
    BY <1>2
  <2>3. PICK r \in Yielded(policy, d.assets[i], Today) : g = Found(i, r)
    BY <2>2
  <2>4. f.rule = r /\ f.asset = i
    BY <2>1, <2>3
  <2> QED BY <1>5, <2>3, <2>4, OnlyBreaks
<1> QED BY <1>4, <1>5 DEF Faithful, d

\* Linking neither loses nor adds a finding on strength.
LEMMA AppliedIsFaithful ==
    ASSUME NEW inv, NEW auto, site \in Sites, Shaped(site, inv), Faithful(inv)
    PROVE  Faithful(Apply(inv, entries, policy, auto))
<1> DEFINE d == Apply(inv, entries, policy, auto)
<1>1. /\ DOMAIN d.assets = DOMAIN inv.assets
      /\ \A i \in DOMAIN inv.assets : Resembles(d.assets[i], inv.assets[i])
      /\ \A f : f.rule # "unlinked-asset" => (f \in d.findings <=> f \in inv.findings)
  BY ApplyIs
<1>2. \A i \in DOMAIN inv.assets : DOMAIN inv.assets[i] = DOMAIN Blank
  BY FieldsAreThere DEF Shaped
<1> HIDE DEF d
<1>3. Faithful(d)
  BY <1>1, <1>2, FaithfulIsKept
<1> QED BY <1>3 DEF d

\* IInv at the start.
LEMMA Initial == StrengthIsGraded /\ Init => IInv
<1> SUFFICES ASSUME StrengthIsGraded, Init PROVE IInv
  OBVIOUS
<1>1. GradedHigh(policy)
  BY DEF Init, StrengthIsGraded
<1>2. Faithful(NoInventory)
  BY DEF NoInventory, Faithful
<1> QED BY <1>1, <1>2, StockedInit DEF IInv, Init

\* IInv is inductive: scans evaluate anew, and linking rewrites findings of
\* another rule only.
LEMMA Step == IInv /\ [Next]_vars => IInv'
<1> SUFFICES ASSUME IInv, [Next]_vars PROVE IInv'
  OBVIOUS
<1>1. UNCHANGED <<site, policy>> /\ site \in Sites
  BY Moves DEF IInv, Stocked
<1>2. Stocked' /\ GradedHigh(policy)'
  BY <1>1, StockedStep DEF IInv
<1>3. ASSUME last' = doc, NEW failed \in BOOLEAN, NEW found, failed \/ found \in Sightings,
             doc' = Apply(Raw(found, failed), entries, policy, TRUE)
      PROVE  Faithful(last') /\ Faithful(doc')
  <2>1. Shaped(site, Raw(found, failed)) /\ Faithful(Raw(found, failed))
    BY <1>3, RawIsShaped, RawIsFaithful DEF IInv
  <2> QED BY <1>1, <1>3, <2>1, AppliedIsFaithful DEF IInv
<1>4. ASSUME UNCHANGED last, doc' = Apply(doc, entries, policy, TRUE)
      PROVE  Faithful(last') /\ Faithful(doc')
  BY <1>1, <1>4, AppliedIsFaithful DEF IInv, Stocked
<1>5. ASSUME UNCHANGED <<last, doc>>
      PROVE  Faithful(last') /\ Faithful(doc')
  BY <1>5 DEF IInv
<1>6. Faithful(last') /\ Faithful(doc')
  BY <1>3, <1>4, <1>5, Moves
<1> QED BY <1>2, <1>6 DEF IInv

\* The findings on strength are true of every inventory, and of its baseline,
\* over any scans, failures, relinks and reconfigurations.
THEOREM Invariance == StrengthIsGraded => (Spec => []IInv)
<1> SUFFICES ASSUME StrengthIsGraded PROVE Spec => []IInv
  OBVIOUS
<1>1. Init => IInv
  BY Initial
<1> QED BY <1>1, Step, PTL DEF Spec

\* Whatever else gets worse about an asset is a change of a kind that pages.
LEMMA WorseIsPaged ==
    ASSUME NEW old, NEW new, Worse(old, new), ~(TooWeak(new) /\ ~TooWeak(old))
    PROVE  \E kind \in ClassifyAsset(old, new) : kind \in Page
<1> DEFINE ch == FieldChanges(old, new)
<1>1. \A f \in Watched \ {"purposes"} : old[f] # new[f] =>
         f \in DOMAIN ch /\ ch[f].before = old[f] /\ ch[f].after = new[f]
  BY DEF FieldChanges, Norm
<1> HIDE DEF ch
<1>2. CASE new.exportable = "yes" /\ old.exportable # "yes"
  <2>1. "exportable" \in DOMAIN ch /\ ch["exportable"].after = "yes"
    BY <1>1, <1>2 DEF Watched
  <2>2. "key-became-exportable" \in FlipKinds(ch)
    BY <2>1 DEF FlipKinds, Flips
  <2> QED BY <2>2 DEF ClassifyAsset, Page, ch
<1>3. CASE \E flag \in {"hardware_backed", "fips_validated", "rotation_enabled"} :
              Lost(old, new, flag)
  <2>1. PICK flag \in {"hardware_backed", "fips_validated", "rotation_enabled"} :
           old[flag] = "yes" /\ new[flag] # "yes"
    BY <1>3 DEF Lost
  <2>2. flag \in DOMAIN ch /\ ch[flag].before = "yes"
    BY <1>1, <2>1 DEF Watched
  <2>3. flag \in DOMAIN Flips
    BY <2>1 DEF Flips
  <2>4. Flips[flag][2] \in FlipKinds(ch)
    BY <2>2, <2>3 DEF FlipKinds
  <2>5. Flips[flag][2] \in Page
    BY <2>1 DEF Flips, Page
  <2> QED BY <2>4, <2>5 DEF ClassifyAsset, ch
<1>4. CASE new.state = "compromised" /\ old.state # "compromised"
  <2>1. "state" \in DOMAIN ch /\ ch["state"].after = "compromised"
    BY <1>1, <1>4 DEF Watched
  <2>2. "state-compromised" \in StateKinds(ch)
    BY <2>1 DEF StateKinds, RetiredStates
  <2> QED BY <2>2 DEF ClassifyAsset, Page, ch
<1>5. CASE \E v \in new.weak_versions_accepted : v \notin old.weak_versions_accepted
  <2>1. /\ "weak_versions_accepted" \in DOMAIN ch
        /\ ch["weak_versions_accepted"].before = old.weak_versions_accepted
        /\ ch["weak_versions_accepted"].after = new.weak_versions_accepted
    BY <1>1, <1>5 DEF Watched
  <2>2. "protocol-weakened" \in ProtocolKinds(ch)
    BY <1>5, <2>1 DEF ProtocolKinds
  <2> QED BY <2>2 DEF ClassifyAsset, Page, ch
<1>6. CASE /\ PostQuantum(old.key_exchange)
           /\ new.key_exchange # "none" /\ ~PostQuantum(new.key_exchange)
  <2>1. /\ "key_exchange" \in DOMAIN ch
        /\ ch["key_exchange"].before = old.key_exchange
        /\ ch["key_exchange"].after = new.key_exchange
    BY <1>1, <1>6 DEF Watched
  <2>2. "pq-key-exchange-lost" \in KeyExchangeKinds(ch)
    BY <1>6, <2>1 DEF KeyExchangeKinds
  <2> QED BY <2>2 DEF ClassifyAsset, Page, ch
<1> QED BY <1>2, <1>3, <1>4, <1>5, <1>6 DEF Worse

\* An asset that becomes too weak gets a finding it did not have.
LEMMA TooWeakIsFound ==
    ASSUME IInv, MaterialsAreOrdinary,
           NEW i \in Both(last, doc) \ PublicHalves(doc.assets),
           TooWeak(doc.assets[i]), ~TooWeak(last.assets[i])
    PROVE  \E f \in FindingsNew(last, doc) : f.severity \in {"critical", "high"}
<1> DEFINE old == last.assets[i]
           new == doc.assets[i]
<1>1. i \in DOMAIN last.assets /\ i \in DOMAIN doc.assets
  BY DEF Both
<1>2. PICK a \in site.shapes[i] : i \in DOMAIN site.shapes /\ Resembles(old, a)
  BY <1>1 DEF IInv, Stocked, Shaped, Collected
<1>3. PICK b \in site.shapes[i] : Resembles(new, b)
  BY <1>1 DEF IInv, Stocked, Shaped, Collected
<1>4. /\ DOMAIN a = DOMAIN Blank /\ DOMAIN b = DOMAIN Blank /\ a.kind = b.kind
      /\ Ordinary(a) /\ Ordinary(b)
  BY <1>2 DEF IInv, Stocked, EstateAssumption, MaterialsAreOrdinary
<1> HIDE DEF old, new
<1>5. Ordinary(old) /\ Ordinary(new) /\ old.kind = new.kind
  BY <1>2, <1>3, <1>4, SameJudgements
<1>6. TooWeak(new) /\ ~TooWeak(old) /\ new.kind \in {"key", "certificate"}
  BY DEF TooWeak, old, new
<1>7. PICK r \in StrengthRules : Breaks(new, r)
  BY <1>5, <1>6, TooWeakIsRejected
<1>8. ~Breaks(old, r)
  BY <1>5, <1>6, TooWeakIsRejected
<1>9. PICK f \in doc.findings :
         f.rule = r /\ f.asset = i /\ f.severity \in {"critical", "high"}
  BY <1>1, <1>7 DEF IInv, Faithful, new
<1>10. \A g \in last.findings : ~(g.rule = r /\ g.asset = i)
  BY <1>8 DEF IInv, Faithful, old
<1>11. f \in FindingsNew(last, doc)
  BY <1>9, <1>10 DEF FindingsNew, FindingKey
<1> QED BY <1>9, <1>11

\* With nothing demoted, one change of a kind that pages is exit code 5.
LEMMA PagesAreSent ==
    ASSUME NothingDemoted, NEW kind \in Page, NEW i,
           <<kind, i>> \in Classify(last, doc, Today)
    PROVE  DiffExit(last, doc, Today, Overrides, TRUE, 4, TRUE) = 5
<1>1. Urgency(kind, Overrides) = "page"
  BY DEF Urgency, Get, NothingDemoted
<1>2. <<kind, i>> \in Pages(last, doc, Today, Overrides)
  BY <1>1 DEF Pages
<1> QED BY <1>2 DEF DiffExit, IsPaged

\* WorseMeansPage, for any estate of ordinary material under any policy that
\* leaves the two rules on strength their grade, with any urgencies that
\* demote nothing that pages.
THEOREM NothingGetsWorseQuietly ==
    NothingDemoted /\ StrengthIsGraded /\ MaterialsAreOrdinary =>
    (Spec => []WorseMeansPage)
<1> SUFFICES ASSUME NothingDemoted, StrengthIsGraded, MaterialsAreOrdinary
             PROVE  Spec => []WorseMeansPage
  OBVIOUS
<1>1. IInv => WorseMeansPage
  <2> SUFFICES ASSUME IInv, NEW i \in Both(last, doc) \ PublicHalves(doc.assets),
                      Worse(last.assets[i], doc.assets[i])
               PROVE  DiffExit(last, doc, Today, Overrides, TRUE, 4, TRUE) = 5
    BY DEF WorseMeansPage
  <2>1. CASE TooWeak(doc.assets[i]) /\ ~TooWeak(last.assets[i])
    <3>1. PICK f \in FindingsNew(last, doc) : f.severity \in {"critical", "high"}
      BY <2>1, TooWeakIsFound
    <3>2. <<NewFindingKind(f), f.asset>> \in Classify(last, doc, Today)
      BY <3>1 DEF Classify
    <3>3. NewFindingKind(f) \in Page
      BY <3>1 DEF NewFindingKind, Page
    <3> QED BY <3>2, <3>3, PagesAreSent
  <2>2. CASE ~(TooWeak(doc.assets[i]) /\ ~TooWeak(last.assets[i]))
    <3>1. PICK kind \in ClassifyAsset(last.assets[i], doc.assets[i]) : kind \in Page
      BY <2>2, WorseIsPaged
    <3>2. <<kind, i>> \in ClassifyAsset(last.assets[i], doc.assets[i]) \X {i}
      OBVIOUS
    <3>3. <<kind, i>> \in Classify(last, doc, Today)
      BY <3>2 DEF Classify
    <3> QED BY <3>1, <3>3, PagesAreSent
  <2> QED BY <2>1, <2>2
<1>2. Spec => []IInv
  BY Invariance
<1> QED BY <1>1, <1>2, PTL
=============================================================================
