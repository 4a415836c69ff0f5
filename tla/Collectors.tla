-------------------------------- MODULE Collectors --------------------------------
(***************************************************************************)
(* One run of a collector (keycensus/collectors): Collector.run calls       *)
(* collect(), which asks a remote service, a token or a file system for     *)
(* what it holds, call by call, while keys are created and destroyed there. *)
(* A call may fail; what the collector makes of that - a gap in its         *)
(* coverage, silence, or the failure of the whole source - is what decides  *)
(* whether the scan takes a key it did not see for a key that is gone.      *)
(*                                                                          *)
(* All collectors walk the same tree.  Wings (accounts, subscriptions,      *)
(* projects) are opened and reveal rooms (regions, vaults, locations,       *)
(* mounts, namespaced lists, paths, domains, tokens, exports); a room is    *)
(* listed and reveals items; some collectors then read each item by itself. *)
(* They differ in the exceptions they catch at each level, in the gap they  *)
(* record and in the scopes they stamp on an asset; a record says so for    *)
(* each.  Calls are made in any order: no collector's depends on it.        *)
(*                                                                          *)
(* The services are external: a listing is answered at one moment, with     *)
(* everything it is asked for.  An item is a thing the collector makes an   *)
(* asset of: what it leaves out on purpose, or cannot make sense of, is not *)
(* one.  Reads of attributes that may be denied (Coverage.optional) change  *)
(* no scope and are left out.                                               *)
(***************************************************************************)
EXTENDS Naturals, FiniteSets

CONSTANTS
    Kinds,            \* the types of source that are run
    Wings, Rooms, Items,
    WingOf,           \* the wing of each room
    RoomOf,           \* the room of each item
    Rank,             \* the order in which a paged listing answers
    PageSize,         \* items on a page
    MaxCertificates,  \* option max_certificates of the ct collector
    Unlistable,       \* files in subdirectories that may not be listed
    MaxMoves,         \* bound: items created or destroyed during the run
    MaxFailures       \* bound: calls that fail

ASSUME CollectorsAssumption ==
    /\ WingOf \in [Rooms -> Wings]
    /\ RoomOf \in [Items -> Rooms]
    /\ IsFiniteSet(Rooms)
    /\ IsFiniteSet(Items)
    /\ Rank \in [Items -> 1..Cardinality(Items)]
    /\ \A i, j \in Items : Rank[i] = Rank[j] => i = j
    /\ PageSize \in Nat \ {0}
    /\ MaxCertificates \in Nat \ {0}
    /\ Unlistable \subseteq Items
    /\ MaxMoves \in Nat
    /\ MaxFailures \in Nat

-----------------------------------------------------------------------------
(* The collectors                                                           *)

\* Why a call fails: it is refused; it is answered by an error such as 503; by one
\* that says that the service is switched off, or the thing asked for does not
\* exist, where nothing is held; or it ends in an exception of another type than the
\* collector catches there ("broken").  Of what type a lost connection or a timeout
\* is depends on the client: requests raises what the `except RuntimeError` of the
\* Azure and GCP collectors does not catch, so there they are "broken"; for others
\* they are "unavailable".  Of a file, "broken" is what Keyfiles calls unhandled.
Reasons == {"denied", "unavailable", "off", "broken"}

\* A collector that knows no scopes: it reads one room or fails.
Plain ==
    [type |-> "plain",
     wings |-> FALSE,          \* are wings opened first
     one |-> FALSE,            \* is only one room configured
     reads |-> FALSE,          \* is each item of a list read by itself
     pages |-> "none",         \* how a listing is paged: by offset or cursor
     stamps |-> {},            \* the levels in extra.coverage_scope
     wing |-> {}, room |-> {}, item |-> {},  \* what is caught at each level
     wingPasses |-> {},        \* caught of a wing where it is no gap
     passes |-> {},            \* ... of a room; "gone": of an item that is gone
     roomGap |-> "room",       \* the level the gap of a room is named after
     itemGap |-> "item",       \* ... and of an item; "room": the room fails
     lost |-> "keep",          \* a wing without a readable room
     hopeless |-> "never"]     \* raise if something failed and nothing was read:
                               \* no room, or every wing has a gap

\* An organization: accounts, their enabled regions, keys.
AwsKms == [Plain EXCEPT !.type = "aws-kms", !.wings = TRUE, !.reads = TRUE,
               !.stamps = {"wing", "room", "item"},
               !.wing = Reasons, !.room = Reasons, !.item = Reasons,
               !.lost = "add", !.hopeless = "rooms"]

\* The same with ec2:DescribeRegions denied: every region botocore knows.
AwsStatic == [AwsKms EXCEPT !.type = "aws-static",
                  !.passes = {"off", "unavailable"}]

\* Without organization or regions: one region.
AwsRegion == [Plain EXCEPT !.type = "aws-region", !.one = TRUE, !.reads = TRUE,
                  !.stamps = {"room", "item"}, !.item = Reasons]

\* discover: subscriptions and their vaults.
Azure == [Plain EXCEPT !.type = "azure-keyvault", !.wings = TRUE, !.reads = TRUE,
              !.stamps = {"wing", "room"},
              !.wing = Reasons \ {"broken"}, !.room = Reasons, !.item = Reasons,
              !.itemGap = "room", !.hopeless = "rooms"]

\* One vault: the keys, then the certificates.
AzureVault == [Plain EXCEPT !.type = "azure-vault", !.one = TRUE, !.reads = TRUE,
                   !.stamps = {"room"}]

\* discover: projects; each is a child collector for its locations.  "the API is
\* off: there can be no keys"
Gcp == [Plain EXCEPT !.type = "gcp-kms", !.wings = TRUE, !.reads = TRUE,
            !.stamps = {"wing", "room"},
            !.wing = Reasons \ {"broken"}, !.room = Reasons \ {"broken"},
            !.item = Reasons \ {"broken"}, !.wingPasses = {"off"}, !.passes = {"off"},
            !.itemGap = "room", !.lost = "replace", !.hopeless = "wings"]

\* One project: its locations.
GcpProject == [Gcp EXCEPT !.type = "gcp-project", !.wings = FALSE, !.passes = {},
                   !.lost = "raise", !.hopeless = "never"]

\* namespaces: in each a list of TLS secrets and one of opaque ones.
Kubernetes == [Plain EXCEPT !.type = "kubernetes", !.stamps = {"lists"},
                   !.room = Reasons \ {"broken"}]

\* Cluster-wide lists.
KubernetesAll == [Plain EXCEPT !.type = "kubernetes-all", !.stamps = {"lists"}]

\* The cert-manager Certificates of each namespace that match no secret; the lists
\* of secrets, with their own gaps, are left out.  404: "cert-manager is not
\* installed".
CertManager == [Plain EXCEPT !.type = "cert-manager", !.stamps = {"certificates"},
                    !.room = Reasons \ {"broken"}, !.passes = {"off"},
                    !.roomGap = "certificates-of"]

\* Transit and PKI mounts; one, or a key, that is gone answers 404, which is no
\* error.
Vault == [Plain EXCEPT !.type = "vault", !.reads = TRUE, !.stamps = {"room", "item"},
              !.room = Reasons, !.item = Reasons, !.passes = {"off", "gone"}]

\* One token; "which object failed cannot be named reliably".  The attributes of
\* an object that is gone read as absent.
Pkcs11 == [Plain EXCEPT !.type = "pkcs11", !.one = TRUE, !.reads = TRUE,
               !.stamps = {"room", "objects"}, !.item = Reasons,
               !.passes = {"gone"}, !.itemGap = "objects"]

\* Exports of CA databases; rows that cannot be parsed are counted.
Adcs == [Plain EXCEPT !.type = "adcs", !.reads = TRUE, !.stamps = {"room", "objects"},
             !.room = Reasons \ {"broken"}, !.item = Reasons,
             !.itemGap = "objects", !.hopeless = "rooms"]

\* Paths and the files below them.
Files == [Plain EXCEPT !.type = "files", !.reads = TRUE, !.stamps = {"room", "item"},
              !.room = Reasons \ {"broken"}, !.item = Reasons \ {"broken"}]

\* Domains.
Ct == [Plain EXCEPT !.type = "ct", !.stamps = {"room"}, !.room = Reasons \ {"broken"}]

\* Endpoints; the items are their certificates.  An endpoint that does not answer
\* leaves a protocol asset without them.
Tls == [Plain EXCEPT !.type = "tls", !.room = Reasons \ {"broken"},
            !.passes = Reasons \ {"broken"}]

\* One listing, page by page.
CipherTrust == [Plain EXCEPT !.type = "ciphertrust", !.one = TRUE,
                    !.pages = "offset", !.stamps = {"listing"}]

KeySafe == [CipherTrust EXCEPT !.type = "keysafe5", !.pages = "cursor"]

Collectors == {AwsKms, AwsStatic, AwsRegion, Azure, AzureVault, Gcp, GcpProject,
               Kubernetes, KubernetesAll, CertManager, Vault, Pkcs11, Adcs, Files,
               Ct, Tls, CipherTrust, KeySafe}

-----------------------------------------------------------------------------
VARIABLES
    how,       \* the collector that runs
    rooms,     \* the rooms its configuration covers
    held,      \* the items that exist
    phase,     \* "starting", "walking", "answered" or "raised"
    calls,     \* the calls still to be made
    page,      \* of a paged listing: the offset, or the rank of the last item
    found,     \* the assets collected
    read,      \* the rooms listed, and not failed since
    gaps,      \* the ids of the gaps in its coverage
    moves,     \* items created or destroyed
    failures,  \* calls that failed
    \* history, read by no action:
    stayed,    \* the items that were there all the time
    seen,      \* the items that were there at some time
    troubled,  \* the scopes a call failed in
    met        \* the reasons met

walk == <<how, rooms, phase, calls, page, found, read, gaps>>
history == <<stayed, seen, troubled, met>>
vars == <<walk, held, moves, failures, history>>

Covered == {i \in Items : RoomOf[i] \in rooms}

InRoom(r) == {i \in Covered : RoomOf[i] = r}

RoomsOf(w) == {r \in rooms : WingOf[r] = w}

InWing(w) == UNION {InRoom(r) : r \in RoomsOf(w)}

\* Another collector forgets the scope that was stamped first: the scopes of the
\* region replace that of the key.
ScopesReplaced(i) ==
    LET r == RoomOf[i] IN
    (IF "wing" \in how.stamps THEN {<<"wing", WingOf[r]>>} ELSE {})
    \union {<<l, r>> : l \in how.stamps \cap {"room", "objects"}}
    \union (IF "lists" \in how.stamps THEN {<<"room", q>> : q \in RoomsOf(WingOf[r])} ELSE {})
    \union {<<l, l>> : l \in how.stamps \cap {"certificates", "listing"}}

\* extra.coverage_scope of an item.
ScopesOf(i) ==
    LET r == RoomOf[i] IN
    (IF "wing" \in how.stamps THEN {<<"wing", WingOf[r]>>} ELSE {})
    \union {<<l, r>> : l \in how.stamps \cap {"room", "objects"}}
    \union (IF "item" \in how.stamps THEN {<<"item", i>>} ELSE {})
    \union (IF "lists" \in how.stamps THEN {<<"room", q>> : q \in RoomsOf(WingOf[r])} ELSE {})
    \union {<<l, l>> : l \in how.stamps \cap {"certificates", "listing"}}

\* SourceResult.unverified for a source that did not fail: it is partial, and
\* the asset names no scope or one with a gap.
Hidden(i) == gaps # {} /\ (ScopesOf(i) = {} \/ ScopesOf(i) \cap gaps # {})

FirstCalls ==
    IF how.pages # "none" THEN {<<"page", "page">>}
    ELSE IF how.wings THEN {<<"wing", w>> : w \in Wings}
    ELSE {<<"room", r>> : r \in rooms}

Init ==
    /\ how \in {c \in Collectors : c.type \in Kinds}
    /\ rooms \in {{r} : r \in Rooms} \union (IF how.one THEN {} ELSE {Rooms})
    /\ held \in SUBSET Covered
    /\ phase = "starting"
    /\ calls = {}
    /\ page = 0
    /\ found = {}
    /\ read = {}
    /\ gaps = {}
    /\ moves = 0
    /\ failures = 0
    /\ stayed = held
    /\ seen = held
    /\ troubled = {}
    /\ met = {}

-----------------------------------------------------------------------------
(* The estate                                                               *)

Create(i) ==
    /\ moves < MaxMoves
    /\ phase \in {"starting", "walking"}
    /\ i \in Covered \ held
    /\ held' = held \union {i}
    /\ moves' = moves + 1
    /\ seen' = seen \union {i}
    /\ UNCHANGED <<walk, failures, stayed, troubled, met>>

Destroy(i) ==
    /\ moves < MaxMoves
    /\ phase \in {"starting", "walking"}
    /\ i \in held
    /\ held' = held \ {i}
    /\ moves' = moves + 1
    /\ stayed' = stayed \ {i}
    /\ UNCHANGED <<walk, failures, seen, troubled, met>>

-----------------------------------------------------------------------------
(* Calls that are answered                                                  *)

\* Signed in; what to walk is configured or was asked for.
Begin ==
    /\ phase = "starting"
    /\ phase' = "walking"
    /\ calls' = FirstCalls
    /\ UNCHANGED <<how, rooms, page, found, read, gaps, held, moves, failures, history>>

OpenWing(w) ==
    /\ <<"wing", w>> \in calls
    /\ calls' = (calls \ {<<"wing", w>>}) \union {<<"room", r>> : r \in RoomsOf(w)}
    /\ UNCHANGED <<how, rooms, phase, page, found, read, gaps, held, moves, failures,
                   history>>

\* What a listing of the room shows.
Listed(r) == (held \cap InRoom(r)) \ (IF how.type = "files" THEN Unlistable ELSE {})

\* Not read one by one, the items are all there; ct stops at its maximum.
Take(r) ==
    /\ read' = read \union {r}
    /\ IF how.type = "ct" /\ Cardinality(found \union Listed(r)) >= MaxCertificates
       THEN /\ found' \in {f \in SUBSET (found \union Listed(r)) :
                              found \subseteq f /\ Cardinality(f) = MaxCertificates}
            /\ calls' = {}
       ELSE /\ found' = found \union Listed(r)
            /\ calls' = calls \ {<<"room", r>>}

ListRoom(r) ==
    /\ <<"room", r>> \in calls
    /\ IF how.reads
       THEN /\ calls' = (calls \ {<<"room", r>>}) \union {<<"item", i>> : i \in Listed(r)}
            /\ read' = read \union {r}
            /\ UNCHANGED found
       ELSE Take(r)
    /\ UNCHANGED <<how, rooms, phase, page, gaps, held, moves, failures, history>>

\* A row of an export is there once the export was read.
Present(i) == i \in held \/ how.type = "adcs"

ReadItem(i) ==
    /\ <<"item", i>> \in calls
    /\ Present(i)
    /\ calls' = calls \ {<<"item", i>>}
    /\ found' = found \union {i}
    /\ UNCHANGED <<how, rooms, phase, page, read, gaps, held, moves, failures, history>>

\* How many items a listing shows before i, from the item of this rank on.
Position(i, from) ==
    Cardinality({j \in held \cap Covered : from < Rank[j] /\ Rank[j] < Rank[i]})

\* limit and skip: the next page starts as many items further on as there have
\* been, and the last one is reached when that is all there are.
NextOffset ==
    LET items == {i \in held \cap Covered : /\ page <= Position(i, 0)
                                           /\ Position(i, 0) < page + PageSize}
    IN
    /\ found' = found \union items
    /\ page' = page + Cardinality(items)
    /\ calls' = IF items = {} \/ page' >= Cardinality(held \cap Covered)
                THEN {} ELSE calls

\* The answer names the next page (or none).
NextCursor ==
    LET items == {i \in held \cap Covered : /\ page < Rank[i]
                                           /\ Position(i, page) < PageSize}
    IN
    /\ found' = found \union items
    /\ IF items = {} THEN page' = page
       ELSE \E last \in items : (\A i \in items : Rank[i] <= Rank[last]) /\ page' = Rank[last]
    /\ calls' = IF \E i \in held \cap Covered : Rank[i] > page' THEN calls ELSE {}

NextPage ==
    /\ <<"page", "page">> \in calls
    /\ IF how.pages = "offset" THEN NextOffset ELSE NextCursor
    /\ UNCHANGED <<how, rooms, phase, read, gaps, held, moves, failures, history>>

-----------------------------------------------------------------------------
(* Calls that fail                                                          *)

\* The exception leaves collect(); run() reports it as the error of the source.
RaiseOut ==
    /\ phase' = "raised"
    /\ calls' = {}
    /\ found' = {}
    /\ UNCHANGED <<read, gaps>>

\* A call in one of these scopes fails.  A service is switched off only where
\* nothing is held.
Meet(why, scope, there) ==
    /\ failures < MaxFailures
    /\ why = "off" => there \cap held = {}
    /\ failures' = failures + 1
    /\ met' = met \union {why}
    /\ troubled' = troubled \union {scope}
    /\ UNCHANGED <<how, rooms, page, held, moves, stayed, seen>>

\* Signing in, or asking for what there is to walk.
BeginFails ==
    /\ phase = "starting"
    /\ \E why \in Reasons : Meet(why, <<"source", "source">>, {})
    /\ RaiseOut

WingFails(w) ==
    /\ <<"wing", w>> \in calls
    /\ \E why \in Reasons :
          /\ Meet(why, <<"wing", w>>, InWing(w))
          /\ IF why \in how.wing
             THEN /\ calls' = calls \ {<<"wing", w>>}
                  /\ gaps' = IF why \in how.wingPasses THEN gaps
                             ELSE gaps \union {<<"wing", w>>}
                  /\ UNCHANGED <<phase, found, read>>
             ELSE RaiseOut

\* That a service is off is known for a project with one location only: the one
\* message about several does not say it.
Passes(r, why) ==
    /\ why \in how.passes
    /\ how.type = "gcp-kms" => RoomsOf(WingOf[r]) = {r}

\* The room is given up: what was read of it is not kept.  Where cert-manager is
\* not installed no further namespace is asked.
LoseRoom(r, why) ==
    /\ calls' = IF how.type = "cert-manager" /\ why = "off" THEN {}
                ELSE calls \ ({<<"room", r>>} \union {<<"item", i>> : i \in InRoom(r)})
    /\ found' = found \ InRoom(r)
    /\ read' = read \ {r}
    /\ gaps' = IF Passes(r, why) THEN gaps ELSE gaps \union {<<how.roomGap, r>>}
    /\ UNCHANGED phase

RoomFails(r) ==
    /\ <<"room", r>> \in calls
    /\ \E why \in Reasons :
          /\ Meet(why, <<"room", r>>,
                  IF how.type = "cert-manager" THEN Covered ELSE InRoom(r))
          /\ IF why \in how.room /\ ~(how.type = "ct" /\ Cardinality(rooms) = 1)
             THEN LoseRoom(r, why)
             ELSE RaiseOut

\* One item cannot be read, for this reason.
GiveUpItem(i, why) ==
    IF how.itemGap = "room" /\ why \in how.room
    THEN LoseRoom(RoomOf[i], why)
    ELSE IF why \in how.item
    THEN /\ calls' = calls \ {<<"item", i>>}
         /\ gaps' = gaps \union {IF how.itemGap = "item" THEN <<"item", i>>
                                 ELSE <<how.itemGap, RoomOf[i]>>}
         /\ UNCHANGED <<phase, found, read>>
    ELSE RaiseOut

ItemFails(i) ==
    /\ <<"item", i>> \in calls
    /\ \E why \in Reasons \ {"off"} :
          /\ Meet(why, <<"room", RoomOf[i]>>, {})
          /\ GiveUpItem(i, why)

\* It was listed and is gone: a 404, for most an error like any other.
ItemGone(i) ==
    /\ <<"item", i>> \in calls
    /\ ~Present(i)
    /\ IF "gone" \in how.passes
       THEN /\ calls' = calls \ {<<"item", i>>}
            /\ UNCHANGED <<phase, found, read, gaps>>
       ELSE GiveUpItem(i, "unavailable")
    /\ troubled' = troubled \union {<<"room", RoomOf[i]>>}
    /\ UNCHANGED <<how, rooms, page, held, moves, failures, stayed, seen, met>>

\* The first page fails the source, a later one is a gap.
PageFails ==
    /\ <<"page", "page">> \in calls
    /\ \E why \in Reasons \ {"off"} :
          /\ Meet(why, <<"listing", "listing">>, {})
          /\ IF page = 0
             THEN RaiseOut
             ELSE /\ calls' = {}
                  /\ gaps' = gaps \union {<<"listing", "listing">>}
                  /\ UNCHANGED <<phase, found, read>>

-----------------------------------------------------------------------------
(* The end of collect()                                                     *)

\* Every wing with a room that could not be read.
TouchedWings == {w \in Wings : RoomsOf(w) \ read # {} /\ <<"wing", w>> \notin gaps}

\* The wings that were opened and of which no room could be read.
LostWings ==
    {w \in Wings : /\ RoomsOf(w) # {}
                   /\ RoomsOf(w) \cap read = {}
                   /\ <<"wing", w>> \notin gaps}

\* Exports of which no row could be parsed count as not read.
Barren ==
    IF how.type # "adcs" THEN {}
    ELSE {r \in rooms : <<"objects", r>> \in gaps /\ found \cap InRoom(r) = {}}

FinalGaps ==
    IF how.lost = "add" THEN gaps \union {<<"wing", w>> : w \in LostWings}
    ELSE IF how.lost = "replace"
    THEN {g \in gaps : \A w \in LostWings : g \notin {<<"room", r>> : r \in RoomsOf(w)}}
         \union {<<"wing", w>> : w \in {v \in LostWings :
                    \E r \in RoomsOf(v) : <<"room", r>> \in gaps}}
    ELSE {g \in gaps : \A r \in Barren : g # <<"objects", r>>}
         \union {<<"room", r>> : r \in Barren}

\* Something failed.
Troubles == how.hopeless # "never" /\ gaps # {}

\* Something failed and there is nothing that was read.
Hopeless ==
    \/ how.hopeless = "rooms" /\ gaps # {} /\ read \subseteq Barren
    \/ how.hopeless = "wings" /\ \A w \in Wings : <<"wing", w>> \in FinalGaps
    \/ how.lost = "raise" /\ read = {}

Answer ==
    /\ phase = "walking"
    /\ calls = {}
    /\ IF Hopeless
       THEN RaiseOut
       ELSE /\ phase' = "answered"
            /\ gaps' = FinalGaps
            /\ UNCHANGED <<calls, found, read>>
    /\ UNCHANGED <<how, rooms, page, held, moves, failures, history>>

Next ==
    \/ Begin \/ BeginFails \/ NextPage \/ PageFails \/ Answer
    \/ \E i \in Items : Create(i) \/ Destroy(i) \/ ReadItem(i) \/ ItemFails(i) \/ ItemGone(i)
    \/ \E w \in Wings : OpenWing(w) \/ WingFails(w)
    \/ \E r \in Rooms : ListRoom(r) \/ RoomFails(r)

Spec == Init /\ [][Next]_vars

-----------------------------------------------------------------------------
(* Properties                                                               *)

\* What the census takes from a collector (Collector.run, base.py): of a source
\* that did not fail, an item that was there all the time is among its assets, or
\* SourceResult.unverified says that nobody could look - whatever failed in
\* whatever order, and whatever else came and went meanwhile.  Otherwise the item
\* is reported as removed and its findings as resolved.
NothingIsOverlooked ==
    phase = "answered" => \A i \in stayed : i \in found \/ Hidden(i)

\* "A real deletion in a fully scanned scope still counts" (docs/ROADMAP.md): an
\* item that was never there during the run is not taken for one that nobody
\* could look for, unless a call failed in a scope that it is stamped with.
DeletionsCount ==
    phase = "answered" =>
        \A i \in Covered \ seen : ScopesOf(i) \cap troubled = {} => ~Hidden(i)

\* "one account must not end the scan" (aws_kms.py), "one unreadable vault must
\* not end the scan" (azure_keyvault.py): where a collector catches what fails in
\* a room, its source fails for such a reason only while nothing was collected.
FailureIsConfined ==
    [][(phase' = "raised" /\ how.room # {} /\ "broken" \notin met') => found = {}]_vars
=============================================================================
