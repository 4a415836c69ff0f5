-------------------------------- MODULE Linking --------------------------------
(***************************************************************************)
(* Which application uses which asset (keycensus/linking.py).  Pure: no     *)
(* state.                                                                   *)
(*                                                                          *)
(* An entry of the applications: block is a record with any of name, uses   *)
(* and sbom; a selector a record with some of SelectorKeys.  A pattern is a *)
(* value or "*"; consumers and application names are told apart by their    *)
(* words, and by which of them contains which.  What read_sbom makes of a   *)
(* file is the names it may give the application, the best one first.       *)
(***************************************************************************)
EXTENDS Policy

CONSTANTS
    WordsOf,    \* the words in each consumer id and application name
    Mentions    \* the pairs of an application name and a consumer id that contains it,
                \* as a word or within one

SelectorKeys == {"source", "name", "kind", "algorithm", "tag", "principal", "id"}

-----------------------------------------------------------------------------
(* load_applications.                                                       *)

\* The first name that is there: that of the package or component the SBOM is about,
\* for SPDX that of the document, and the stem of the path, which always is.
NameInSbom(doc) ==
    doc.names[CHOOSE i \in DOMAIN doc.names :
                 doc.names[i] # "none" /\ \A j \in 1..(i - 1) : doc.names[j] = "none"]

NameOf(e) ==
    IF "name" \in DOMAIN e THEN e.name
    ELSE IF "sbom" \in DOMAIN e THEN NameInSbom(e.sbom) ELSE "none"

Uses(e) == Get(e, "uses", {})

\* A LinkingError otherwise: an unknown selector key, an SBOM that cannot be
\* read or recognised, no name, or a name twice.
Loadable(entries) ==
    /\ \A i \in DOMAIN entries :
          /\ \A u \in Uses(entries[i]) : DOMAIN u \subseteq SelectorKeys
          /\ "sbom" \in DOMAIN entries[i] => entries[i].sbom.readable
          /\ NameOf(entries[i]) # "none"
    /\ \A i, j \in DOMAIN entries : i # j => NameOf(entries[i]) # NameOf(entries[j])

Load(entries) ==
    [i \in DOMAIN entries |-> [name |-> NameOf(entries[i]), uses |-> Uses(entries[i]),
                               asset_ids |-> {}]]

-----------------------------------------------------------------------------
(* Matching and linking.                                                    *)

Glob(pattern, value) == value # "none" /\ pattern \in {"*", value}

KeyMatches(key, want, i, a) ==
    CASE key = "principal" -> \E u \in a.used_by : Glob(want, u)
      [] key = "id" -> Glob(want, i)
      [] OTHER -> Glob(want, a[key])

\* AND within a selector; an empty one gives no reason and so matches nothing.
SelectorMatches(sel, i, a) ==
    DOMAIN sel # {} /\ \A key \in DOMAIN sel : KeyMatches(key, sel[key], i, a)

\* The application's name is in a consumer's id, or its words are among those of it.
AutoMatch(app, a) ==
    \E u \in a.used_by :
        \/ <<app.name, u>> \in Mentions
        \/ WordsOf[app.name] # {} /\ WordsOf[app.name] \subseteq WordsOf[u]

Claims(app, i, a, auto) ==
    \/ \E sel \in app.uses : SelectorMatches(sel, i, a)
    \/ auto /\ AutoMatch(app, a)

\* The links of an earlier run are kept.
LinkWithoutReset(inv, apps, auto) ==
    LET linked == [k \in DOMAIN apps |->
            [apps[k] EXCEPT !.asset_ids =
                {i \in DOMAIN inv.assets : Claims(apps[k], i, inv.assets[i], auto)}]]
    IN  [inv EXCEPT !.apps = linked,
                    !.assets = [i \in DOMAIN inv.assets |->
            [inv.assets[i] EXCEPT !.applications = @ \union
                {linked[k].name : k \in {j \in DOMAIN apps : i \in linked[j].asset_ids}}]]]

\* link(): both sides of every link, from nothing.
Link(inv, apps, auto) ==
    LET linked == [k \in DOMAIN apps |->
            [apps[k] EXCEPT !.asset_ids =
                {i \in DOMAIN inv.assets : Claims(apps[k], i, inv.assets[i], auto)}]]
    IN  [inv EXCEPT !.apps = linked,
                    !.assets = [i \in DOMAIN inv.assets |->
            [inv.assets[i] EXCEPT !.applications =
                {linked[k].name : k \in {j \in DOMAIN apps : i \in linked[j].asset_ids}}]]]

\* Protocols are not owned, and a public key goes with its private half.
UnlinkedFindings(inv, p) ==
    {[rule |-> "unlinked-asset", asset |-> i,
      severity |-> SeverityOf(p, "unlinked-asset"), verified |-> TRUE] :
        i \in {j \in DOMAIN inv.assets :
                 LET a == inv.assets[j] IN
                 /\ Enabled(p, "unlinked-asset")
                 /\ a.applications = {} /\ a.kind # "protocol"
                 /\ ~(a.kind = "key" /\ a.key_type = "public-key")}}

\* apply(): with no application declared, nothing is touched.
Apply(inv, entries, p, auto) ==
    IF entries = <<>> THEN inv
    ELSE LET linked == Link(inv, Load(entries), auto)
         IN  [linked EXCEPT !.findings =
                {f \in inv.findings : f.rule # "unlinked-asset"} \union UnlinkedFindings(linked, p)]
=============================================================================
