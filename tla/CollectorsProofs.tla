---------------------------- MODULE CollectorsProofs ----------------------------
(***************************************************************************)
(* Proofs about Collectors, for any tree of wings, rooms and items, any     *)
(* number of changes and of failures, and the collectors that leave nothing *)
(* out in silence; then about Disk, for any places, any contents of files   *)
(* and any passwords.                                                       *)
(***************************************************************************)
EXTENDS Collectors, Disk, FiniteSetTheorems, TLAPS

USE CollectorsAssumption

\* The collectors that pass over what they cannot read, or where a page may miss
\* a key, are not meant; nor are a directory that cannot be listed and a limit
\* that is reached.
Thorough ==
    /\ Kinds \cap {"aws-static", "cert-manager", "ciphertrust", "tls"} = {}
    /\ Unlistable = {}
    /\ Cardinality(Items) < MaxCertificates

-----------------------------------------------------------------------------
(* What the collectors have in common                                       *)

Confines(c) ==
    /\ Reasons \ {"broken"} \subseteq c.room
    /\ c.wings => Reasons \ {"broken"} \subseteq c.wing
    /\ c.reads => Reasons \ {"broken"} \subseteq c.item
    /\ c.pages = "none"

Careful(c) ==
    /\ c.type \notin {"aws-static", "cert-manager", "ciphertrust", "tls"}
    /\ c.wings => "wing" \in c.stamps
    /\ c.room # {} =>
          /\ c.roomGap = "room"
          /\ "room" \in c.stamps \/ "lists" \in c.stamps
          /\ Confines(c)
    /\ c.item # {} => c.itemGap \in c.stamps \cap {"room", "objects", "item"}
    /\ c.passes \subseteq {"off", "gone"}
    /\ c.wingPasses \subseteq {"off"}
    /\ c.lost # "keep" => "wing" \in c.stamps /\ "room" \in c.stamps
    /\ c.lost # "keep" => c.pages = "none"
    /\ c.type = "adcs" => c.lost = "keep"
    /\ "objects" \in c.stamps => "room" \in c.stamps
    /\ c.type # "ct" \/ ~c.reads
    /\ c.hopeless = "wings" => c.wings
    /\ c.pages \in {"none", "cursor"}
    /\ c.pages # "none" => "listing" \in c.stamps /\ c.room = {}
    /\ "listing" \notin c.stamps \/ c.pages # "none"
    /\ c.stamps \subseteq {"wing", "room", "objects", "item", "lists", "listing"}
    /\ c.stamps \cap {"room", "lists", "listing"} # {}

-----------------------------------------------------------------------------
(* The inductive invariant                                                  *)

CallsMade ==
    {<<"wing", w>> : w \in Wings} \union {<<"room", r>> : r \in rooms}
    \union {<<"item", i>> : i \in Covered} \union {<<"page", "page">>}

Gaps ==
    {<<"wing", w>> : w \in Wings} \union {<<l, r>> : l \in {"room", "objects"}, r \in rooms}
    \union {<<"item", i>> : i \in Items} \union {<<"listing", "listing">>}

\* What the proofs need of the shape of the state.
Shape ==
    /\ Careful(how)
    /\ rooms \subseteq Rooms
    /\ phase \in {"starting", "walking", "answered", "raised"}
    /\ calls \subseteq CallsMade
    /\ page \in Nat
    /\ found \subseteq seen
    /\ stayed \subseteq held /\ held \subseteq seen /\ seen \subseteq Covered
    /\ read \subseteq rooms
    /\ gaps \subseteq Gaps
    /\ phase # "walking" => calls = {}
    /\ phase \in {"starting", "raised"} => found = {}
    /\ phase = "starting" => gaps = {} /\ read = {} /\ page = 0

\* Each wing is opened once and each room listed once; what is collected or still
\* to be read is of a room that was listed.
InTurn ==
    /\ \A i \in Items : <<"item", i>> \in calls =>
          how.reads /\ how.pages = "none" /\ i \in seen /\ RoomOf[i] \in read
    /\ \A r \in Rooms : <<"room", r>> \in calls =>
          /\ how.pages = "none" /\ r \notin read
          /\ <<"wing", WingOf[r]>> \notin calls
    /\ \A w \in Wings :
          <<"wing", w>> \in calls \/ (phase # "answered" /\ <<"wing", w>> \in gaps) =>
             /\ how.wings /\ how.pages = "none"
             /\ \A r \in RoomsOf(w) : r \notin read /\ <<"room", r>> \notin calls
             /\ <<"wing", w>> \in calls => <<"wing", w>> \notin gaps
    /\ how.pages = "none" => \A i \in found : RoomOf[i] \in read
    /\ <<"page", "page">> \in calls => how.pages # "none"

\* There is a call left that may find the item, or a gap says that there is none.
Reached(i) ==
    \/ i \in found
    \/ <<"item", i>> \in calls
    \/ <<"room", RoomOf[i]>> \in calls
    \/ <<"wing", WingOf[RoomOf[i]]>> \in calls
    \/ <<"page", "page">> \in calls /\ page < Rank[i]
    \/ ScopesOf(i) \cap gaps # {}

NothingPassedOver ==
    phase \in {"walking", "answered"} => \A i \in stayed : Reached(i)

\* A gap is where a call failed, or of an item that was listed.
GapsExplained ==
    phase = "walking" =>
    /\ \A w \in Wings : <<"wing", w>> \in gaps => <<"wing", w>> \in troubled
    /\ \A r \in Rooms : <<"room", r>> \in gaps \/ <<"objects", r>> \in gaps =>
          <<"room", r>> \in troubled
    /\ \A i \in Items : <<"item", i>> \in gaps => i \in seen
    /\ <<"listing", "listing">> \in gaps => <<"listing", "listing">> \in troubled

\* A room that is not listed, and not about to be, was met by a failure.
RoomsAccounted ==
    phase = "walking" /\ how.pages = "none" =>
        \A r \in rooms :
            \/ r \in read \/ <<"room", r>> \in calls \/ <<"wing", WingOf[r]>> \in calls
            \/ <<"room", r>> \in troubled \/ <<"wing", WingOf[r]>> \in troubled

\* The inductive invariant: together these hold in every reachable state.
IInv ==
    /\ Shape /\ InTurn /\ NothingPassedOver /\ GapsExplained /\ RoomsAccounted
    /\ DeletionsCount

-----------------------------------------------------------------------------
(* Lemmas                                                                   *)

\* Every collector that is meant is a careful one.
LEMMA AllCareful ==
    ASSUME Thorough, NEW c \in Collectors, c.type \in Kinds
    PROVE  Careful(c)
<1>1. Careful(AwsKms)
  BY DEF Careful, Confines, Reasons, AwsKms, Plain
<1>2. Careful(AwsRegion)
  BY DEF Careful, Confines, Reasons, AwsRegion, Plain
<1>3. Careful(Azure)
  BY DEF Careful, Confines, Reasons, Azure, Plain
<1>4. Careful(AzureVault)
  BY DEF Careful, Confines, Reasons, AzureVault, Plain
<1>5. Careful(Gcp)
  BY DEF Careful, Confines, Reasons, Gcp, Plain
<1>6. Careful(GcpProject)
  BY DEF Careful, Confines, Reasons, GcpProject, Gcp, Plain
<1>7. Careful(Kubernetes)
  BY DEF Careful, Confines, Reasons, Kubernetes, Plain
<1>8. Careful(KubernetesAll)
  BY DEF Careful, Confines, Reasons, KubernetesAll, Plain
<1>9. Careful(Vault)
  BY DEF Careful, Confines, Reasons, Vault, Plain
<1>10. Careful(Pkcs11)
  BY DEF Careful, Confines, Reasons, Pkcs11, Plain
<1>11. Careful(Adcs)
  BY DEF Careful, Confines, Reasons, Adcs, Plain
<1>12. Careful(Files)
  BY DEF Careful, Confines, Reasons, Files, Plain
<1>13. Careful(Ct)
  BY DEF Careful, Confines, Reasons, Ct, Plain
<1>14. Careful(KeySafe)
  BY DEF Careful, Confines, Reasons, KeySafe, CipherTrust, Plain
<1>15. AwsStatic.type \notin Kinds
  BY DEF Thorough, AwsStatic, AwsKms, Plain
<1>16. CertManager.type \notin Kinds
  BY DEF Thorough, CertManager, Plain
<1>17. CipherTrust.type \notin Kinds
  BY DEF Thorough, CipherTrust, Plain
<1>18. Tls.type \notin Kinds
  BY DEF Thorough, Tls, Plain
<1> QED
  BY <1>1, <1>2, <1>3, <1>4, <1>5, <1>6, <1>7, <1>8, <1>9, <1>10, <1>11, <1>12, <1>13,
     <1>14, <1>15, <1>16, <1>17, <1>18 DEF Collectors

\* Only these levels are stamped, so a scope of an item names the item, its room,
\* its wing, a room beside it, or the listing.
LEMMA ScopesNamed ==
    ASSUME IInv, NEW i \in Items
    PROVE  /\ "wing" \in how.stamps => <<"wing", WingOf[RoomOf[i]]>> \in ScopesOf(i)
           /\ "room" \in how.stamps => <<"room", RoomOf[i]>> \in ScopesOf(i)
           /\ "objects" \in how.stamps =>
                 /\ <<"objects", RoomOf[i]>> \in ScopesOf(i)
                 /\ <<"room", RoomOf[i]>> \in ScopesOf(i)
           /\ "item" \in how.stamps => <<"item", i>> \in ScopesOf(i)
           /\ "listing" \in how.stamps => <<"listing", "listing">> \in ScopesOf(i)
           /\ "lists" \in how.stamps =>
                 \A r \in rooms : WingOf[r] = WingOf[RoomOf[i]] => <<"room", r>> \in ScopesOf(i)
           /\ \A r \in rooms : <<"room", r>> \in ScopesOf(i) => WingOf[r] = WingOf[RoomOf[i]]
           /\ \A r \in rooms : <<"objects", r>> \in ScopesOf(i) =>
                 r = RoomOf[i] /\ <<"room", r>> \in ScopesOf(i)
           /\ \A j \in Items : <<"item", j>> \in ScopesOf(i) => j = i
           /\ \A w \in Wings : <<"wing", w>> \in ScopesOf(i) => w = WingOf[RoomOf[i]]
<1> "objects" \in how.stamps => "room" \in how.stamps
  BY DEF IInv, Shape, Careful
<1>1. /\ "wing" \in how.stamps => <<"wing", WingOf[RoomOf[i]]>> \in ScopesOf(i)
      /\ "room" \in how.stamps => <<"room", RoomOf[i]>> \in ScopesOf(i)
      /\ "objects" \in how.stamps => <<"objects", RoomOf[i]>> \in ScopesOf(i)
      /\ "item" \in how.stamps => <<"item", i>> \in ScopesOf(i)
      /\ "listing" \in how.stamps => <<"listing", "listing">> \in ScopesOf(i)
      /\ "lists" \in how.stamps =>
            \A r \in rooms : WingOf[r] = WingOf[RoomOf[i]] => <<"room", r>> \in ScopesOf(i)
  BY DEF ScopesOf, RoomsOf
<1>2. \A r \in rooms : <<"room", r>> \in ScopesOf(i) => WingOf[r] = WingOf[RoomOf[i]]
  BY DEF ScopesOf, RoomsOf
<1>3. \A r \in rooms : <<"objects", r>> \in ScopesOf(i) => r = RoomOf[i]
  BY DEF ScopesOf
<1>4. \A r \in rooms : <<"objects", r>> \in ScopesOf(i) => "objects" \in how.stamps
  BY DEF ScopesOf
<1>5. \A j \in Items : <<"item", j>> \in ScopesOf(i) => j = i
  BY DEF ScopesOf
<1>6. \A w \in Wings : <<"wing", w>> \in ScopesOf(i) => w = WingOf[RoomOf[i]]
  BY DEF ScopesOf
<1> QED
  BY <1>1, <1>2, <1>3, <1>4, <1>5, <1>6

\* An item that is there is of a room that is covered, and of its wing.
LEMMA WhereItemsAre ==
    ASSUME IInv, NEW i \in seen
    PROVE  /\ i \in Items /\ RoomOf[i] \in rooms /\ WingOf[RoomOf[i]] \in Wings
           /\ i \in InRoom(RoomOf[i])
           /\ i \in InWing(WingOf[RoomOf[i]])
           /\ \A r \in rooms : i \in InRoom(r) => r = RoomOf[i]
<1>1. /\ i \in Covered /\ rooms \subseteq Rooms
  BY DEF IInv, Shape
<1>2. i \in Items /\ RoomOf[i] \in rooms /\ i \in InRoom(RoomOf[i])
  BY <1>1 DEF Covered, InRoom
<1>3. WingOf[RoomOf[i]] \in Wings /\ RoomOf[i] \in RoomsOf(WingOf[RoomOf[i]])
  BY <1>1, <1>2 DEF RoomsOf
<1>4. i \in InWing(WingOf[RoomOf[i]])
  BY <1>2, <1>3 DEF InWing
<1> QED
  BY <1>2, <1>3, <1>4 DEF InRoom

\* Where the exception leaves collect(), nothing is promised.
LEMMA RaiseKeeps ==
    ASSUME IInv, RaiseOut, phase # "answered",
           UNCHANGED <<how, rooms, page, held, stayed, seen>>
    PROVE  IInv'
<1>1. Shape'
  BY DEF IInv, Shape, RaiseOut, CallsMade, Gaps, Covered
<1>2. InTurn'
  BY DEF IInv, InTurn, Shape, RaiseOut, RoomsOf
<1>3. NothingPassedOver' /\ GapsExplained' /\ RoomsAccounted' /\ DeletionsCount'
  BY DEF RaiseOut, NothingPassedOver, GapsExplained, RoomsAccounted, DeletionsCount
<1> QED
  BY <1>1, <1>2, <1>3 DEF IInv

\* A room that is given up leaves a gap that its items, and those beside it, are
\* stamped with - or there was nothing in it.
LEMMA LoseRoomKeeps ==
    ASSUME IInv, NEW r \in rooms, NEW why \in Reasons,
           phase = "walking", how.pages = "none", why \in how.room,
           r \in read \/ <<"room", r>> \in calls,
           why = "off" => InRoom(r) \cap held = {},
           LoseRoom(r, why),
           troubled' = troubled \union {<<"room", r>>},
           UNCHANGED <<how, rooms, page, held, stayed, seen>>
    PROVE  IInv'
<1>0. /\ Careful(how) /\ how.roomGap = "room" /\ how.type # "cert-manager"
      /\ how.passes \subseteq {"off", "gone"}
      /\ "room" \in how.stamps \/ "lists" \in how.stamps
      /\ r \in Rooms /\ WingOf[r] \in Wings
  BY DEF IInv, Shape, Careful
<1>1. /\ calls' = calls \ ({<<"room", r>>} \union {<<"item", i>> : i \in InRoom(r)})
      /\ found' = found \ InRoom(r)
      /\ read' = read \ {r}
      /\ gaps' = IF Passes(r, why) THEN gaps ELSE gaps \union {<<"room", r>>}
      /\ phase' = phase
  BY <1>0 DEF LoseRoom
<1>2. Passes(r, why) => InRoom(r) \cap held = {}
  BY <1>0 DEF Passes, Reasons
<1> HIDE DEF LoseRoom
<1>3. Shape'
  <2>1. gaps' \subseteq Gaps
    BY <1>1 DEF IInv, Shape, Gaps
  <2> QED
    BY <1>1, <2>1 DEF IInv, Shape, CallsMade, Gaps, Covered
<1>4. InTurn'
  <2>1. \A i \in Items : <<"item", i>> \in calls' =>
            how.reads /\ how.pages = "none" /\ i \in seen /\ RoomOf[i] \in read'
    <3> TAKE i \in Items
    <3> HAVE <<"item", i>> \in calls'
    <3>1. <<"item", i>> \in calls /\ i \notin InRoom(r)
      BY <1>1
    <3>2. how.reads /\ how.pages = "none" /\ i \in seen /\ RoomOf[i] \in read
      BY <3>1 DEF IInv, InTurn
    <3> QED BY <1>1, <3>1, <3>2, WhereItemsAre
  <2>2. \A q \in Rooms : <<"room", q>> \in calls' =>
            how.pages = "none" /\ q \notin read' /\ <<"wing", WingOf[q]>> \notin calls'
    BY <1>1 DEF IInv, InTurn
  <2>3. \A w \in Wings :
          <<"wing", w>> \in calls' \/ (phase' # "answered" /\ <<"wing", w>> \in gaps') =>
             /\ how.wings /\ how.pages = "none"
             /\ \A q \in RoomsOf(w) : q \notin read' /\ <<"room", q>> \notin calls'
             /\ <<"wing", w>> \in calls' => <<"wing", w>> \notin gaps'
    BY <1>1 DEF IInv, InTurn
  <2>4. \A i \in found' : RoomOf[i] \in read'
    <3> TAKE i \in found'
    <3>1. i \in found /\ i \notin InRoom(r) /\ i \in seen /\ RoomOf[i] \in read
      BY <1>1 DEF IInv, InTurn, Shape
    <3> QED BY <1>1, <3>1, WhereItemsAre
  <2>5. <<"page", "page">> \notin calls'
    BY <1>1 DEF IInv, InTurn
  <2> QED
    BY <2>1, <2>2, <2>3, <2>4, <2>5 DEF InTurn, RoomsOf
<1>5. NothingPassedOver'
  <2> SUFFICES ASSUME NEW i \in stayed PROVE Reached(i)'
    BY DEF NothingPassedOver
  <2>1. i \in seen /\ i \in held /\ Reached(i)
    BY DEF IInv, NothingPassedOver, Shape
  <2>2. ScopesOf(i)' = ScopesOf(i)
    BY DEF ScopesOf, RoomsOf
  <2>3. CASE i \in InRoom(r)
    <3>1. r = RoomOf[i] /\ gaps' = gaps \union {<<"room", r>>}
      BY <1>1, <1>2, <2>1, <2>3, WhereItemsAre
    <3>2. <<"room", r>> \in ScopesOf(i)
      BY <1>0, <2>1, <3>1, ScopesNamed, WhereItemsAre
    <3> QED BY <2>2, <3>1, <3>2 DEF Reached
  <2>4. CASE i \notin InRoom(r)
    <3>1. r # RoomOf[i]
      BY <2>1, <2>4, WhereItemsAre
    <3> QED BY <1>1, <2>1, <2>2, <2>4, <3>1 DEF Reached
  <2> QED BY <2>3, <2>4
<1>6. GapsExplained'
  BY <1>1 DEF IInv, GapsExplained
<1>7. RoomsAccounted'
  BY <1>1 DEF IInv, RoomsAccounted
<1>8. DeletionsCount'
  BY <1>1 DEF DeletionsCount
<1> QED
  BY <1>3, <1>4, <1>5, <1>6, <1>7, <1>8 DEF IInv

\* An item that cannot be read leaves a gap that it is stamped with, or takes the
\* room or the source with it.
LEMMA GiveUpKeeps ==
    ASSUME IInv, NEW i \in Items, NEW why \in Reasons \ {"off"},
           <<"item", i>> \in calls, GiveUpItem(i, why),
           troubled' = troubled \union {<<"room", RoomOf[i]>>},
           UNCHANGED <<how, rooms, page, held, stayed, seen>>
    PROVE  IInv'
<1>0. /\ Careful(how) /\ phase = "walking" /\ how.reads /\ how.pages = "none"
      /\ i \in seen /\ RoomOf[i] \in read /\ RoomOf[i] \in rooms
  BY DEF IInv, Shape, InTurn
<1>1. CASE how.itemGap = "room" /\ why \in how.room
  BY <1>0, <1>1, LoseRoomKeeps DEF GiveUpItem
<1>2. CASE RaiseOut
  BY <1>0, <1>2, RaiseKeeps
<1>3. CASE /\ why \in how.item
           /\ calls' = calls \ {<<"item", i>>}
           /\ gaps' = gaps \union {IF how.itemGap = "item" THEN <<"item", i>>
                                   ELSE <<how.itemGap, RoomOf[i]>>}
           /\ UNCHANGED <<phase, found, read>>
  <2>1. how.itemGap \in how.stamps \cap {"room", "objects", "item"}
    BY <1>0, <1>3 DEF Careful
  <2> DEFINE gap == IF how.itemGap = "item" THEN <<"item", i>> ELSE <<how.itemGap, RoomOf[i]>>
  <2>2. /\ gap \in ScopesOf(i)
        /\ gap \in {<<"item", i>>, <<"room", RoomOf[i]>>, <<"objects", RoomOf[i]>>}
    <3>1. /\ "item" \in how.stamps => <<"item", i>> \in ScopesOf(i)
          /\ "room" \in how.stamps => <<"room", RoomOf[i]>> \in ScopesOf(i)
          /\ "objects" \in how.stamps => <<"objects", RoomOf[i]>> \in ScopesOf(i)
      BY ScopesNamed
    <3> QED BY <2>1, <3>1
  <2>3. gaps' = gaps \union {gap} /\ calls' = calls \ {<<"item", i>>}
    BY <1>3
  <2> HIDE DEF gap
  <2>4. \A w \in Wings : gap # <<"wing", w>>
    BY <2>2
  <2>5. Shape'
    <3>1. gaps' \subseteq Gaps
      BY <1>0, <2>2, <2>3 DEF IInv, Shape, Gaps
    <3> QED BY <1>0, <1>3, <2>3, <3>1 DEF IInv, Shape, CallsMade, Gaps, Covered
  <2>6. InTurn'
    BY <1>0, <1>3, <2>3, <2>4 DEF IInv, InTurn, RoomsOf
  <2>7. NothingPassedOver'
    <3> SUFFICES ASSUME NEW j \in stayed PROVE Reached(j)'
      BY DEF NothingPassedOver
    <3>1. Reached(j) /\ j \in Items
      BY <1>0 DEF IInv, NothingPassedOver, Shape, Covered
    <3>2. ScopesOf(j)' = ScopesOf(j)
      BY DEF ScopesOf, RoomsOf
    <3> QED BY <1>3, <2>2, <2>3, <3>1, <3>2 DEF Reached
  <2>8. GapsExplained'
    BY <1>0, <1>3, <2>2, <2>3 DEF IInv, GapsExplained
  <2>9. RoomsAccounted' /\ DeletionsCount'
    BY <1>0, <1>3, <2>3 DEF IInv, RoomsAccounted, DeletionsCount
  <2> QED
    BY <2>5, <2>6, <2>7, <2>8, <2>9 DEF IInv
<1> QED
  BY <1>1, <1>2, <1>3 DEF GiveUpItem

\* A page by cursor passes over no item: what is not on it comes after it.
LEMMA PageKeeps ==
    ASSUME IInv, <<"page", "page">> \in calls, NextCursor,
           UNCHANGED <<how, rooms, phase, read, gaps, held, moves, failures, history>>
    PROVE  IInv'
<1> DEFINE there == held \cap Covered
           items == {i \in there : page < Rank[i] /\ Position(i, page) < PageSize}
<1>0. /\ Careful(how) /\ phase = "walking" /\ how.pages # "none" /\ page \in Nat
      /\ there \subseteq Items /\ there \subseteq seen /\ stayed \subseteq there
  BY DEF IInv, Shape, InTurn, Covered
<1>1. /\ found' = found \union items
      /\ IF items = {} THEN page' = page
         ELSE \E last \in items : (\A i \in items : Rank[i] <= Rank[last]) /\ page' = Rank[last]
      /\ calls' = IF \E i \in there : Rank[i] > page' THEN calls ELSE {}
  BY DEF NextCursor
<1>2. UNCHANGED <<how, rooms, phase, read, gaps, held, stayed, seen, troubled>>
  BY DEF history
<1>3. ASSUME items # {}
      PROVE  page' \in Nat /\ \E j \in items : page' = Rank[j]
  <2>1. \A j \in items : Rank[j] \in Nat
    BY <1>0, FS_CardinalityType
  <2> HIDE DEF items
  <2> QED BY <1>1, <1>3, <2>1
<1>4. page' \in Nat
  BY <1>0, <1>1, <1>3
<1>5. ASSUME NEW i \in there, page < Rank[i], i \notin items
      PROVE  page' < Rank[i] /\ <<"page", "page">> \in calls'
  <2>1. ~(Position(i, page) < PageSize)
    BY <1>5
  <2>2. ASSUME NEW j \in items PROVE Rank[j] < Rank[i]
    <3> DEFINE Ahead(k) == {l \in held \cap Covered : page < Rank[l] /\ Rank[l] < Rank[k]}
    <3>1. j \in there /\ Position(j, page) < PageSize
      BY <2>2
    <3>2. Rank[i] \in Nat /\ Rank[j] \in Nat
      BY <1>0, <1>5, <3>1, FS_CardinalityType
    <3>3. Position(i, page) = Cardinality(Ahead(i)) /\ Position(j, page) = Cardinality(Ahead(j))
      BY DEF Position
    <3>4. IsFiniteSet(Ahead(j)) /\ IsFiniteSet(Ahead(i))
      BY <1>0, FS_Subset
    <3>5. Cardinality(Ahead(j)) \in Nat /\ Cardinality(Ahead(i)) \in Nat
      BY <3>4, FS_CardinalityType
    <3>6. Rank[i] <= Rank[j] => Ahead(i) \subseteq Ahead(j)
      BY <1>0, <3>2, FS_CardinalityType
    <3>7. Ahead(i) \subseteq Ahead(j) => Cardinality(Ahead(i)) <= Cardinality(Ahead(j))
      BY <3>4, FS_Subset
    <3> HIDE DEF Ahead, items
    <3> QED BY <2>1, <3>1, <3>2, <3>3, <3>5, <3>6, <3>7
  <2>3. page' < Rank[i]
    <3> HIDE DEF items
    <3> QED BY <1>1, <1>3, <1>5, <2>2
  <2>4. Rank[i] \in Nat
    BY <1>0, <1>5, FS_CardinalityType
  <2> QED BY <1>1, <1>4, <2>3, <2>4
<1> HIDE DEF items
<1>6. items \subseteq there
  BY DEF items
<1> HIDE DEF there
<1>7. calls' \in {calls, {}}
  BY <1>1
<1>8. Shape'
  BY <1>0, <1>1, <1>2, <1>4, <1>6, <1>7 DEF IInv, Shape, CallsMade, Gaps, Covered
<1>9. InTurn'
  BY <1>0, <1>1, <1>2, <1>7 DEF IInv, InTurn, RoomsOf
<1>10. NothingPassedOver'
  <2> SUFFICES ASSUME NEW i \in stayed PROVE Reached(i)'
    BY <1>2 DEF NothingPassedOver
  <2>1. Reached(i) /\ i \in there
    BY <1>0 DEF IInv, NothingPassedOver
  <2>2. ScopesOf(i)' = ScopesOf(i)
    BY <1>2 DEF ScopesOf, RoomsOf
  <2>3. <<"item", i>> \notin calls /\ <<"room", RoomOf[i]>> \notin calls
        /\ <<"wing", WingOf[RoomOf[i]]>> \notin calls
    BY <1>0, <2>1 DEF IInv, InTurn
  <2> QED BY <1>1, <1>2, <1>5, <2>1, <2>2, <2>3 DEF Reached
<1>11. GapsExplained' /\ RoomsAccounted' /\ DeletionsCount'
  BY <1>0, <1>2 DEF IInv, GapsExplained, RoomsAccounted, DeletionsCount
<1> QED
  BY <1>8, <1>9, <1>10, <1>11 DEF IInv

\* A final gap was one before, or is of a wing or a room that could not be read.
LEMMA FinalGapsOf ==
    \A g \in FinalGaps :
       \/ g \in gaps
       \/ \E w \in LostWings : g = <<"wing", w>>
       \/ \E r \in Barren : g = <<"room", r>>
<1>1. CASE how.lost = "add"
  BY <1>1 DEF FinalGaps
<1>2. CASE how.lost = "replace"
  <2> DEFINE lost == {v \in LostWings : \E r \in RoomsOf(v) : <<"room", r>> \in gaps}
  <2>1. FinalGaps =
          {g \in gaps : \A w \in LostWings : g \notin {<<"room", r>> : r \in RoomsOf(w)}}
          \union {<<"wing", w>> : w \in lost}
    BY <1>2 DEF FinalGaps
  <2>2. lost \subseteq LostWings
    OBVIOUS
  <2> HIDE DEF lost
  <2> QED BY <2>1, <2>2
<1>3. CASE how.lost \notin {"add", "replace"}
  <2>1. FinalGaps = {g \in gaps : \A r \in Barren : g # <<"objects", r>>}
                    \union {<<"room", r>> : r \in Barren}
    BY <1>3 DEF FinalGaps
  <2> SUFFICES ASSUME NEW g \in FinalGaps, g \notin gaps
               PROVE  \E r \in Barren : g = <<"room", r>>
    OBVIOUS
  <2>2. g \in {<<"room", r>> : r \in Barren}
    BY <2>1
  <2> QED BY <2>2
<1> QED BY <1>1, <1>2, <1>3

\* The final gaps are scopes.
LEMMA FinalGapsAre ==
    ASSUME IInv
    PROVE  FinalGaps \subseteq Gaps
<1>1. gaps \subseteq Gaps /\ rooms \subseteq Rooms
  BY DEF IInv, Shape
<1>2. LostWings \subseteq Wings /\ Barren \subseteq rooms
  BY DEF LostWings, Barren
<1>3. (\A w \in Wings : <<"wing", w>> \in Gaps) /\ (\A r \in rooms : <<"room", r>> \in Gaps)
  BY DEF Gaps
<1> QED
  BY <1>1, <1>2, <1>3, FinalGapsOf

\* What becomes of the gaps at the end: an item that a gap was stamped with is
\* stamped with a final one; and a final one is of an item that was there, or
\* there was a failure that the item is stamped with.
LEMMA GapsAtTheEnd ==
    ASSUME IInv, phase = "walking", calls = {}, NEW i \in Covered
    PROVE  /\ ScopesOf(i) \cap gaps # {} => ScopesOf(i) \cap FinalGaps # {}
           /\ ScopesOf(i) \cap FinalGaps # {} =>
                 ScopesOf(i) \cap troubled # {} \/ i \in seen
<1>0. /\ Careful(how) /\ rooms \subseteq Rooms /\ gaps \subseteq Gaps
      /\ seen \subseteq Covered /\ Covered \subseteq Items
  BY DEF IInv, Shape, Covered
<1> DEFINE r == RoomOf[i]
           w == WingOf[r]
<1>1. /\ i \in Items /\ r \in rooms /\ w \in Wings /\ r \in RoomsOf(w)
  BY <1>0 DEF Covered, RoomsOf
<1>8. /\ \A q \in rooms : <<"objects", q>> \in ScopesOf(i) =>
            q = r /\ <<"room", q>> \in ScopesOf(i)
      /\ \A j \in Items : <<"item", j>> \in ScopesOf(i) => j = i
  BY <1>1, ScopesNamed
<1>2. ASSUME NEW g \in ScopesOf(i) \cap gaps
      PROVE  ScopesOf(i) \cap troubled # {} \/ i \in seen
  <2>1. CASE \E v \in Wings : g = <<"wing", v>>
    BY <1>2, <2>1 DEF IInv, GapsExplained
  <2>2. CASE \E q \in rooms : g = <<"room", q>>
    BY <1>0, <1>2, <2>2 DEF IInv, GapsExplained
  <2>3. CASE \E q \in rooms : g = <<"objects", q>>
    BY <1>0, <1>2, <1>8, <2>3 DEF IInv, GapsExplained
  <2>4. CASE \E j \in Items : g = <<"item", j>>
    BY <1>2, <1>8, <2>4 DEF IInv, GapsExplained
  <2>5. CASE g = <<"listing", "listing">>
    BY <1>2, <2>5 DEF IInv, GapsExplained
  <2> QED BY <1>0, <1>2, <2>1, <2>2, <2>3, <2>4, <2>5 DEF Gaps
<1>3. ASSUME NEW v \in LostWings, <<"wing", v>> \in ScopesOf(i), how.lost # "keep"
      PROVE  ScopesOf(i) \cap troubled # {}
  <2>1. v = w /\ v \in Wings
    BY <1>1, <1>3, ScopesNamed DEF LostWings
  <2>2. <<"room", r>> \in ScopesOf(i) /\ how.pages = "none"
    BY <1>0, <1>1, <1>3, ScopesNamed DEF Careful
  <2>3. <<"room", r>> \in troubled \/ <<"wing", w>> \in troubled
    BY <1>1, <2>1, <2>2 DEF IInv, RoomsAccounted, LostWings
  <2> QED BY <1>3, <2>1, <2>2, <2>3
<1>4. ASSUME NEW q \in Barren
      PROVE  q \in rooms /\ <<"objects", q>> \in gaps /\ <<"room", q>> \in troubled
  BY <1>0, <1>4 DEF Barren, IInv, GapsExplained
<1>5. CASE how.lost = "add"
  <2>1. FinalGaps = gaps \union {<<"wing", v>> : v \in LostWings}
    BY <1>5 DEF FinalGaps
  <2>2. \A g \in ScopesOf(i) \cap FinalGaps : ScopesOf(i) \cap troubled # {} \/ i \in seen
    BY <1>2, <1>3, <1>5, <2>1
  <2> QED BY <2>1, <2>2
<1>6. CASE how.lost = "replace"
  <2>1. FinalGaps = {g \in gaps : \A v \in LostWings : g \notin {<<"room", q>> : q \in RoomsOf(v)}}
             \union {<<"wing", v>> : v \in {u \in LostWings :
                        \E q \in RoomsOf(u) : <<"room", q>> \in gaps}}
    BY <1>6 DEF FinalGaps
  <2>2. \A g \in ScopesOf(i) \cap FinalGaps : ScopesOf(i) \cap troubled # {} \/ i \in seen
    BY <1>2, <1>3, <1>6, <2>1
  <2>3. ASSUME NEW g \in ScopesOf(i) \cap gaps PROVE ScopesOf(i) \cap FinalGaps # {}
    <3>1. CASE g \in FinalGaps
      BY <2>3, <3>1
    <3>2. CASE g \notin FinalGaps
      <4>1. PICK v \in LostWings : g \in {<<"room", q>> : q \in RoomsOf(v)}
        BY <2>1, <2>3, <3>2
      <4>2. PICK q \in RoomsOf(v) : g = <<"room", q>>
        BY <4>1
      <4>3. q \in rooms /\ WingOf[q] = v
        BY <4>2 DEF RoomsOf
      <4>4. v = w
        BY <1>1, <2>3, <4>2, <4>3, ScopesNamed
      <4>5. <<"wing", w>> \in FinalGaps
        BY <2>1, <2>3, <4>1, <4>2, <4>4
      <4>6. <<"wing", w>> \in ScopesOf(i)
        BY <1>0, <1>1, <1>6, ScopesNamed DEF Careful
      <4> QED BY <4>5, <4>6
    <3> QED BY <3>1, <3>2
  <2> QED BY <2>2, <2>3
<1>7. CASE how.lost \notin {"add", "replace"}
  <2>1. FinalGaps = {g \in gaps : \A q \in Barren : g # <<"objects", q>>}
             \union {<<"room", q>> : q \in Barren}
    BY <1>7 DEF FinalGaps
  <2>2. \A g \in ScopesOf(i) \cap FinalGaps : ScopesOf(i) \cap troubled # {} \/ i \in seen
    BY <1>2, <1>4, <2>1
  <2>3. ASSUME NEW g \in ScopesOf(i) \cap gaps PROVE ScopesOf(i) \cap FinalGaps # {}
    <3>1. CASE g \in FinalGaps
      BY <2>3, <3>1
    <3>2. CASE g \notin FinalGaps
      <4>1. PICK q \in Barren : g = <<"objects", q>>
        BY <2>1, <2>3, <3>2
      <4>2. q = r /\ <<"room", q>> \in ScopesOf(i)
        BY <1>1, <1>4, <2>3, <4>1, ScopesNamed
      <4> QED BY <2>1, <4>1, <4>2
    <3> QED BY <3>1, <3>2
  <2> QED BY <2>2, <2>3
<1> QED
  BY <1>5, <1>6, <1>7

-----------------------------------------------------------------------------
(* The invariant is inductive                                               *)

\* Every first state satisfies the inductive invariant.
LEMMA Initial == Thorough /\ Init => IInv
<1> SUFFICES ASSUME Thorough, Init PROVE IInv
  OBVIOUS
<1>1. Careful(how)
  BY AllCareful DEF Init
<1>2. rooms \subseteq Rooms /\ held \subseteq Covered
  BY DEF Init
<1> QED
  BY <1>1, <1>2 DEF Init, IInv, Shape, InTurn, NothingPassedOver, GapsExplained,
     RoomsAccounted, DeletionsCount

\* Every step of a thorough collector keeps the inductive invariant.
LEMMA Step == Thorough /\ IInv /\ [Next]_vars => IInv'
<1> SUFFICES ASSUME Thorough, IInv, [Next]_vars PROVE IInv'
  OBVIOUS
<1>0. /\ Shape /\ InTurn /\ NothingPassedOver /\ GapsExplained /\ RoomsAccounted
      /\ DeletionsCount /\ Careful(how)
  BY DEF IInv, Shape
<1>0a. \A i \in stayed : i \in held /\ i \in seen /\ i \in Items /\ RoomOf[i] \in rooms
                         /\ WingOf[RoomOf[i]] \in Wings
  BY <1>0, WhereItemsAre DEF Shape
<1>1. CASE Begin
  <2>1. /\ calls' = FirstCalls /\ phase' = "walking" /\ phase = "starting"
        /\ UNCHANGED <<how, rooms, page, found, read, gaps, held, stayed, seen, troubled>>
    BY <1>1 DEF Begin, history
  <2>2. gaps = {} /\ found = {} /\ read = {} /\ calls = {} /\ page = 0
    BY <1>0, <2>1 DEF Shape
  <2>3. Shape'
    BY <1>0, <2>1, <2>2 DEF Shape, FirstCalls, CallsMade, Gaps, Covered
  <2>4. InTurn'
    BY <1>0, <2>1, <2>2 DEF InTurn, FirstCalls, RoomsOf
  <2>5. NothingPassedOver'
    <3> SUFFICES ASSUME NEW i \in stayed PROVE Reached(i)'
      BY <2>1 DEF NothingPassedOver
    <3>1. page < Rank[i]
      BY <1>0a, <2>2, FS_CardinalityType
    <3> QED BY <1>0a, <2>1, <3>1 DEF Reached, FirstCalls
  <2>6. GapsExplained' /\ DeletionsCount'
    BY <2>1, <2>2 DEF GapsExplained, DeletionsCount
  <2>7. RoomsAccounted'
    BY <1>0, <2>1 DEF RoomsAccounted, FirstCalls, Shape
  <2> QED
    BY <2>3, <2>4, <2>5, <2>6, <2>7 DEF IInv
<1>2. CASE BeginFails
  BY <1>2, RaiseKeeps DEF BeginFails, Meet
<1>3. CASE NextPage
  BY <1>0, <1>3, PageKeeps DEF NextPage, Careful
<1>4. CASE PageFails
  <2>1. /\ <<"page", "page">> \in calls
        /\ UNCHANGED <<how, rooms, page, held, stayed, seen>>
        /\ troubled' = troubled \union {<<"listing", "listing">>}
    BY <1>4 DEF PageFails, Meet
  <2>2. phase = "walking" /\ how.pages # "none" /\ "listing" \in how.stamps
    BY <1>0, <2>1 DEF Shape, InTurn, Careful
  <2>3. CASE RaiseOut
    BY <2>1, <2>2, <2>3, RaiseKeeps
  <2>4. CASE /\ calls' = {}
             /\ gaps' = gaps \union {<<"listing", "listing">>}
             /\ UNCHANGED <<phase, found, read>>
    <3>1. Shape'
      BY <1>0, <2>1, <2>4 DEF Shape, CallsMade, Gaps, Covered
    <3>2. InTurn'
      BY <1>0, <2>1, <2>4 DEF InTurn, RoomsOf
    <3>3. NothingPassedOver'
      <4> SUFFICES ASSUME NEW i \in stayed PROVE Reached(i)'
        BY <2>1 DEF NothingPassedOver
      <4>1. <<"listing", "listing">> \in ScopesOf(i)
        BY <1>0a, <2>2, ScopesNamed
      <4>2. ScopesOf(i)' = ScopesOf(i)
        BY <2>1 DEF ScopesOf, RoomsOf
      <4> QED BY <2>4, <4>1, <4>2 DEF Reached
    <3>4. GapsExplained' /\ DeletionsCount' /\ RoomsAccounted'
      BY <1>0, <2>1, <2>2, <2>4 DEF GapsExplained, DeletionsCount, RoomsAccounted
    <3> QED
      BY <3>1, <3>2, <3>3, <3>4 DEF IInv
  <2> QED
    BY <1>4, <2>3, <2>4 DEF PageFails
<1>5. CASE Answer
  <2>1. /\ phase = "walking" /\ calls = {}
        /\ UNCHANGED <<how, rooms, page, held, stayed, seen, troubled>>
    BY <1>5 DEF Answer, history
  <2>2. CASE RaiseOut
    BY <2>1, <2>2, RaiseKeeps
  <2>3. CASE phase' = "answered" /\ gaps' = FinalGaps /\ UNCHANGED <<calls, found, read>>
    <3>1. Shape'
      BY <1>0, <2>1, <2>3, FinalGapsAre DEF Shape, CallsMade, Gaps, Covered
    <3>2. InTurn'
      BY <1>0, <2>1, <2>3 DEF InTurn, RoomsOf
    <3>3. \A i : ScopesOf(i)' = ScopesOf(i)
      BY <2>1 DEF ScopesOf, RoomsOf
    <3>4. NothingPassedOver'
      <4> SUFFICES ASSUME NEW i \in stayed PROVE Reached(i)'
        BY <2>1 DEF NothingPassedOver
      <4>1. Reached(i) /\ i \in Covered
        BY <1>0, <2>1 DEF Shape, NothingPassedOver
      <4>2. i \in found \/ ScopesOf(i) \cap gaps # {}
        BY <2>1, <4>1 DEF Reached
      <4>3. i \in found \/ ScopesOf(i) \cap FinalGaps # {}
        BY <2>1, <4>1, <4>2, GapsAtTheEnd
      <4> QED BY <2>3, <3>3, <4>3 DEF Reached
    <3>5. DeletionsCount'
      <4> SUFFICES ASSUME NEW i \in Covered \ seen, ScopesOf(i) \cap troubled = {}
                   PROVE  ~Hidden(i)'
        BY <2>1, <3>3 DEF DeletionsCount, Covered
      <4>1. ScopesOf(i) \cap FinalGaps = {}
        BY <2>1, GapsAtTheEnd
      <4>2. ScopesOf(i) # {}
        <5>1. i \in Items /\ RoomOf[i] \in rooms
          BY DEF Covered
        <5>2. how.stamps \cap {"room", "lists", "listing"} # {}
          BY <1>0 DEF Careful
        <5>3. /\ "room" \in how.stamps => <<"room", RoomOf[i]>> \in ScopesOf(i)
              /\ "lists" \in how.stamps => <<"room", RoomOf[i]>> \in ScopesOf(i)
              /\ "listing" \in how.stamps => <<"listing", "listing">> \in ScopesOf(i)
          BY <5>1, ScopesNamed
        <5> QED BY <5>2, <5>3
      <4> QED BY <2>3, <3>3, <4>1, <4>2 DEF Hidden
    <3>6. GapsExplained' /\ RoomsAccounted'
      BY <2>3 DEF GapsExplained, RoomsAccounted
    <3> QED
      BY <3>1, <3>2, <3>4, <3>5, <3>6 DEF IInv
  <2> QED
    BY <1>5, <2>2, <2>3 DEF Answer
<1>6. ASSUME NEW i \in Items, Create(i) PROVE IInv'
  <2>1. /\ i \in Covered /\ phase \in {"starting", "walking"}
        /\ held' = held \union {i} /\ seen' = seen \union {i}
        /\ UNCHANGED <<how, rooms, phase, calls, page, found, read, gaps, stayed, troubled>>
    BY <1>6 DEF Create, walk
  <2>2. Shape'
    BY <1>0, <2>1 DEF Shape, CallsMade, Gaps, Covered
  <2>3. InTurn'
    BY <1>0, <2>1 DEF InTurn, RoomsOf
  <2>4. NothingPassedOver'
    BY <1>0, <2>1 DEF NothingPassedOver, Reached, ScopesOf, RoomsOf
  <2>5. GapsExplained' /\ RoomsAccounted' /\ DeletionsCount'
    BY <1>0, <2>1 DEF GapsExplained, RoomsAccounted, DeletionsCount
  <2> QED
    BY <2>2, <2>3, <2>4, <2>5 DEF IInv
<1>7. ASSUME NEW i \in Items, Destroy(i) PROVE IInv'
  <2>1. /\ phase \in {"starting", "walking"}
        /\ held' = held \ {i} /\ stayed' = stayed \ {i}
        /\ UNCHANGED <<how, rooms, phase, calls, page, found, read, gaps, seen, troubled>>
    BY <1>7 DEF Destroy, walk
  <2>2. Shape'
    BY <1>0, <2>1 DEF Shape, CallsMade, Gaps, Covered
  <2>3. InTurn'
    BY <1>0, <2>1 DEF InTurn, RoomsOf
  <2>4. NothingPassedOver'
    BY <1>0, <2>1 DEF NothingPassedOver, Reached, ScopesOf, RoomsOf
  <2>5. GapsExplained' /\ RoomsAccounted' /\ DeletionsCount'
    BY <1>0, <2>1 DEF GapsExplained, RoomsAccounted, DeletionsCount
  <2> QED
    BY <2>2, <2>3, <2>4, <2>5 DEF IInv
<1>8. ASSUME NEW i \in Items, ReadItem(i) PROVE IInv'
  <2>1. /\ <<"item", i>> \in calls
        /\ calls' = calls \ {<<"item", i>>} /\ found' = found \union {i}
        /\ UNCHANGED <<how, rooms, phase, page, read, gaps, held, stayed, seen, troubled>>
    BY <1>8 DEF ReadItem, history
  <2>2. i \in seen /\ RoomOf[i] \in read /\ phase = "walking"
    BY <1>0, <2>1 DEF InTurn, Shape
  <2>3. Shape'
    BY <1>0, <2>1, <2>2 DEF Shape, CallsMade, Gaps, Covered
  <2>4. InTurn'
    BY <1>0, <2>1, <2>2 DEF InTurn, RoomsOf
  <2>5. NothingPassedOver'
    BY <1>0, <1>0a, <2>1 DEF NothingPassedOver, Reached, ScopesOf, RoomsOf
  <2>6. GapsExplained' /\ RoomsAccounted' /\ DeletionsCount'
    BY <1>0, <2>1, <2>2 DEF GapsExplained, RoomsAccounted, DeletionsCount
  <2> QED
    BY <2>3, <2>4, <2>5, <2>6 DEF IInv
<1>9. ASSUME NEW i \in Items, ItemFails(i) PROVE IInv'
  BY <1>9, GiveUpKeeps DEF ItemFails, Meet
<1>10. ASSUME NEW i \in Items, ItemGone(i) PROVE IInv'
  <2>1. /\ <<"item", i>> \in calls /\ i \notin held
        /\ troubled' = troubled \union {<<"room", RoomOf[i]>>}
        /\ UNCHANGED <<how, rooms, page, held, stayed, seen>>
    BY <1>10 DEF ItemGone, Present
  <2>2. CASE GiveUpItem(i, "unavailable")
    BY <2>1, <2>2, GiveUpKeeps DEF Reasons
  <2>3. CASE calls' = calls \ {<<"item", i>>} /\ UNCHANGED <<phase, found, read, gaps>>
    <3>0. phase = "walking"
      BY <1>0, <2>1 DEF Shape
    <3>1. Shape'
      BY <1>0, <2>1, <2>3 DEF Shape, CallsMade, Gaps, Covered
    <3>2. InTurn'
      BY <1>0, <2>1, <2>3 DEF InTurn, RoomsOf
    <3>3. NothingPassedOver'
      <4> SUFFICES ASSUME NEW j \in stayed PROVE Reached(j)'
        BY <2>1 DEF NothingPassedOver
      <4>1. Reached(j) /\ j # i
        BY <1>0, <1>0a, <2>1, <3>0 DEF NothingPassedOver
      <4>2. ScopesOf(j)' = ScopesOf(j)
        BY <2>1 DEF ScopesOf, RoomsOf
      <4> QED BY <2>1, <2>3, <4>1, <4>2 DEF Reached
    <3>4. GapsExplained' /\ RoomsAccounted' /\ DeletionsCount'
      BY <1>0, <2>1, <2>3, <3>0 DEF GapsExplained, RoomsAccounted, DeletionsCount
    <3> QED
      BY <3>1, <3>2, <3>3, <3>4 DEF IInv
  <2> QED
    BY <1>10, <2>2, <2>3 DEF ItemGone
<1>11. ASSUME NEW w \in Wings, OpenWing(w) PROVE IInv'
  <2>1. /\ <<"wing", w>> \in calls
        /\ calls' = (calls \ {<<"wing", w>>}) \union {<<"room", r>> : r \in RoomsOf(w)}
        /\ UNCHANGED <<how, rooms, phase, page, found, read, gaps, held, stayed, seen, troubled>>
    BY <1>11 DEF OpenWing, history
  <2>2. phase = "walking" /\ how.pages = "none"
    BY <1>0, <2>1 DEF Shape, InTurn
  <2>3. \A r \in RoomsOf(w) : r \in rooms /\ WingOf[r] = w
    BY DEF RoomsOf
  <2>4. \A r \in rooms : WingOf[r] = w => r \in RoomsOf(w)
    BY DEF RoomsOf
  <2>5. Shape'
    BY <1>0, <2>1, <2>2, <2>3 DEF Shape, CallsMade, Gaps, Covered
  <2>6. InTurn'
    <3>1. \A v \in Wings : RoomsOf(v)' = RoomsOf(v)
      BY <2>1 DEF RoomsOf
    <3>2. \A v \in Wings, r \in rooms : v # w /\ r \in RoomsOf(v) => r \notin RoomsOf(w)
      BY DEF RoomsOf
    <3> QED BY <1>0, <2>1, <2>2, <2>3, <3>1, <3>2 DEF InTurn, RoomsOf
  <2>7. NothingPassedOver'
    <3> SUFFICES ASSUME NEW i \in stayed PROVE Reached(i)'
      BY <2>1 DEF NothingPassedOver
    <3>1. Reached(i)
      BY <1>0, <2>2 DEF NothingPassedOver
    <3>2. ScopesOf(i)' = ScopesOf(i)
      BY <2>1 DEF ScopesOf, RoomsOf
    <3> QED BY <1>0a, <2>1, <2>4, <3>1, <3>2 DEF Reached
  <2>8. GapsExplained' /\ DeletionsCount'
    BY <1>0, <2>1, <2>2 DEF GapsExplained, DeletionsCount
  <2>9. RoomsAccounted'
    BY <1>0, <2>1, <2>2, <2>4 DEF RoomsAccounted
  <2> QED
    BY <2>5, <2>6, <2>7, <2>8, <2>9 DEF IInv
<1>12. ASSUME NEW w \in Wings, WingFails(w) PROVE IInv'
  <2>1. PICK why \in Reasons :
          /\ Meet(why, <<"wing", w>>, InWing(w))
          /\ IF why \in how.wing
             THEN /\ calls' = calls \ {<<"wing", w>>}
                  /\ gaps' = IF why \in how.wingPasses THEN gaps
                             ELSE gaps \union {<<"wing", w>>}
                  /\ UNCHANGED <<phase, found, read>>
             ELSE RaiseOut
    BY <1>12 DEF WingFails
  <2>2. /\ <<"wing", w>> \in calls
        /\ UNCHANGED <<how, rooms, page, held, stayed, seen>>
        /\ troubled' = troubled \union {<<"wing", w>>}
        /\ why = "off" => InWing(w) \cap held = {}
    BY <1>12, <2>1 DEF WingFails, Meet
  <2>3. /\ phase = "walking" /\ how.pages = "none" /\ how.wings /\ "wing" \in how.stamps
        /\ how.wingPasses \subseteq {"off"}
    BY <1>0, <2>2 DEF Shape, InTurn, Careful
  <2>4. CASE RaiseOut
    BY <2>2, <2>3, <2>4, RaiseKeeps
  <2>5. CASE why \in how.wing
    <3>1. /\ calls' = calls \ {<<"wing", w>>}
          /\ gaps' = IF why \in how.wingPasses THEN gaps ELSE gaps \union {<<"wing", w>>}
          /\ UNCHANGED <<phase, found, read>>
      BY <2>1, <2>5
    <3>2. gaps' \in {gaps, gaps \union {<<"wing", w>>}}
      BY <3>1
    <3>3. Shape'
      BY <1>0, <2>2, <3>1, <3>2 DEF Shape, CallsMade, Gaps, Covered
    <3>4. InTurn'
      <4>1. \A v \in Wings : RoomsOf(v)' = RoomsOf(v)
        BY <2>2 DEF RoomsOf
      <4> QED BY <1>0, <2>2, <2>3, <3>1, <3>2, <4>1 DEF InTurn
    <3>5. NothingPassedOver'
      <4> SUFFICES ASSUME NEW i \in stayed PROVE Reached(i)'
        BY <2>2 DEF NothingPassedOver
      <4>1. Reached(i)
        BY <1>0, <2>3 DEF NothingPassedOver
      <4>2. ScopesOf(i)' = ScopesOf(i)
        BY <2>2 DEF ScopesOf, RoomsOf
      <4>3. CASE WingOf[RoomOf[i]] = w
        <5>1. i \in InWing(w) /\ <<"wing", w>> \in ScopesOf(i)
          BY <1>0a, <2>3, <4>3, WhereItemsAre, ScopesNamed
        <5>2. why \notin how.wingPasses
          BY <1>0a, <2>2, <2>3, <5>1
        <5> QED BY <3>1, <4>2, <5>1, <5>2 DEF Reached
      <4>4. CASE WingOf[RoomOf[i]] # w
        BY <2>2, <3>1, <3>2, <4>1, <4>2, <4>4 DEF Reached
      <4> QED BY <4>3, <4>4
    <3>6. GapsExplained' /\ DeletionsCount' /\ RoomsAccounted'
      BY <1>0, <2>2, <2>3, <3>1, <3>2 DEF GapsExplained, DeletionsCount, RoomsAccounted
    <3> QED
      BY <3>3, <3>4, <3>5, <3>6 DEF IInv
  <2> QED
    BY <2>1, <2>4, <2>5
<1>13. ASSUME NEW r \in Rooms, ListRoom(r) PROVE IInv'
  <2>1. /\ <<"room", r>> \in calls
        /\ UNCHANGED <<how, rooms, phase, page, gaps, held, stayed, seen, troubled>>
    BY <1>13 DEF ListRoom, history
  <2>2. phase = "walking" /\ how.pages = "none" /\ r \in rooms /\ r \notin read
        /\ <<"wing", WingOf[r]>> \notin calls
        /\ (<<"wing", WingOf[r]>> \notin gaps)
    BY <1>0, <2>1 DEF Shape, InTurn, CallsMade, RoomsOf
  <2>3. Listed(r) = held \cap InRoom(r)
    BY DEF Listed, Thorough
  <2>4. /\ read' = read \union {r}
        /\ \/ /\ how.reads /\ found' = found
              /\ calls' = (calls \ {<<"room", r>>}) \union {<<"item", i>> : i \in Listed(r)}
           \/ /\ calls' = calls \ {<<"room", r>>}
              /\ found' = found \union Listed(r)
    <3>1. ~(Cardinality(found \union Listed(r)) >= MaxCertificates)
      <4>1. found \union Listed(r) \subseteq Items
        BY <1>0, <2>3 DEF Shape, Covered
      <4>2. /\ Cardinality(found \union Listed(r)) <= Cardinality(Items)
            /\ Cardinality(found \union Listed(r)) \in Nat /\ Cardinality(Items) \in Nat
        BY <4>1, FS_Subset, FS_CardinalityType
      <4> QED BY <4>2 DEF Thorough
    <3> QED BY <1>13, <3>1 DEF ListRoom, Take
  <2>5. \A i \in Listed(r) : i \in held /\ i \in seen /\ i \in Covered /\ i \in Items /\ RoomOf[i] = r
    BY <1>0, <2>3 DEF InRoom, Covered, Shape
  <2>6. \A i \in stayed : RoomOf[i] = r => i \in Listed(r)
    BY <1>0a, <2>3, WhereItemsAre
  <2>7. Shape'
    BY <1>0, <2>1, <2>2, <2>4, <2>5 DEF Shape, CallsMade, Gaps, Covered
  <2>8. InTurn'
    BY <1>0, <2>1, <2>2, <2>4, <2>5 DEF InTurn, RoomsOf
  <2>9. NothingPassedOver'
    <3> SUFFICES ASSUME NEW i \in stayed PROVE Reached(i)'
      BY <2>1 DEF NothingPassedOver
    <3>1. Reached(i)
      BY <1>0, <2>2 DEF NothingPassedOver
    <3>2. ScopesOf(i)' = ScopesOf(i)
      BY <2>1 DEF ScopesOf, RoomsOf
    <3> QED BY <2>1, <2>4, <2>6, <3>1, <3>2 DEF Reached
  <2>10. GapsExplained' /\ RoomsAccounted' /\ DeletionsCount'
    BY <1>0, <2>1, <2>2, <2>4 DEF GapsExplained, RoomsAccounted, DeletionsCount
  <2> QED
    BY <2>7, <2>8, <2>9, <2>10 DEF IInv
<1>14. ASSUME NEW r \in Rooms, RoomFails(r) PROVE IInv'
  <2>1. <<"room", r>> \in calls
    BY <1>14 DEF RoomFails
  <2>2. phase = "walking" /\ how.pages = "none" /\ r \in rooms
    <3>1. phase = "walking" /\ how.pages = "none"
      BY <1>0, <2>1 DEF Shape, InTurn
    <3>2. <<"room", r>> \in CallsMade
      BY <1>0, <2>1 DEF Shape
    <3> QED BY <3>1, <3>2 DEF CallsMade
  <2>3. how.type # "cert-manager"
    BY <1>0 DEF Careful
  <2>4. PICK why \in Reasons :
          /\ Meet(why, <<"room", r>>, InRoom(r))
          /\ IF why \in how.room /\ ~(how.type = "ct" /\ Cardinality(rooms) = 1)
             THEN LoseRoom(r, why)
             ELSE RaiseOut
    BY <1>14, <2>3 DEF RoomFails
  <2>5. CASE RaiseOut
    BY <2>2, <2>4, <2>5, RaiseKeeps DEF Meet
  <2>6. CASE LoseRoom(r, why) /\ why \in how.room
    BY <2>1, <2>2, <2>4, <2>6, LoseRoomKeeps DEF Meet
  <2> QED
    BY <2>4, <2>5, <2>6
<1>15. CASE UNCHANGED vars
  <2>1. UNCHANGED <<how, rooms, phase, calls, page, found, read, gaps, held, stayed, seen,
                    troubled>>
    BY <1>15 DEF vars, walk, history
  <2>2. Shape' /\ InTurn'
    BY <1>0, <2>1 DEF Shape, InTurn, CallsMade, Gaps, Covered, RoomsOf
  <2>3. NothingPassedOver' /\ GapsExplained' /\ RoomsAccounted'
    BY <1>0, <2>1 DEF NothingPassedOver, GapsExplained, RoomsAccounted, Reached,
       ScopesOf, RoomsOf
  <2>4. DeletionsCount'
    BY <1>0, <2>1 DEF DeletionsCount, Covered, Hidden, ScopesOf, RoomsOf
  <2> QED
    BY <2>2, <2>3, <2>4 DEF IInv
<1> QED
  BY <1>1, <1>2, <1>3, <1>4, <1>5, <1>6, <1>7, <1>8, <1>9, <1>10, <1>11, <1>12, <1>13,
     <1>14, <1>15 DEF Next

-----------------------------------------------------------------------------
(* Theorems                                                                 *)

\* The inductive invariant holds in every reachable state of a thorough collector.
THEOREM Invariance == ASSUME Thorough PROVE Spec => []IInv
<1>1. Init => IInv
  BY Initial
<1>2. IInv /\ [Next]_vars => IInv'
  BY Step
<1> QED
  BY <1>1, <1>2, PTL DEF Spec

\* Whatever fails and whatever comes and goes during a run, an item that was there
\* all the time is among the assets of a source that did not fail, or unverified
\* says that nobody could look.  NothingPassedOver says it call by call: until the
\* end a call is left that may find the item.
THEOREM NothingOverlooked == ASSUME Thorough PROVE Spec => []NothingIsOverlooked
<1>1. IInv => NothingIsOverlooked
  <2> SUFFICES ASSUME IInv, phase = "answered", NEW i \in stayed
               PROVE  i \in found \/ Hidden(i)
    BY DEF NothingIsOverlooked
  <2>1. Reached(i) /\ calls = {}
    BY DEF IInv, Shape, NothingPassedOver
  <2> QED BY <2>1 DEF Reached, Hidden
<1> QED
  BY <1>1, Invariance, PTL

\* An item that was never there during the run counts as deleted, unless a call
\* failed in a scope that it is stamped with.
THEOREM DeletionsNoticed == ASSUME Thorough PROVE Spec => []DeletionsCount
<1>1. IInv => DeletionsCount
  BY DEF IInv
<1> QED
  BY <1>1, Invariance, PTL

\* Where a collector catches what fails in a room, its source fails for such a
\* reason only while nothing was collected: what would be collected from a room
\* or a wing that was read is not given up because of another one.
THEOREM FailureConfined == ASSUME Thorough PROVE Spec => FailureIsConfined
<1>1. ASSUME IInv, [Next]_vars
      PROVE  [(phase' = "raised" /\ how.room # {} /\ "broken" \notin met') => found = {}]_vars
  <2> SUFFICES ASSUME Next, phase' = "raised", how.room # {}, "broken" \notin met',
                      phase # "raised", phase # "starting"
               PROVE  found = {}
    BY <1>1 DEF IInv, Shape, vars
  <2>1. /\ Careful(how) /\ Confines(how) /\ how.pages = "none"
        /\ phase # "answered" \/ calls = {}
    BY <1>1 DEF IInv, Shape, Careful, Confines
  <2>2. CASE \E i \in Items : Create(i) \/ Destroy(i) \/ ReadItem(i)
    BY <2>2 DEF Create, Destroy, ReadItem, walk
  <2>3. CASE Begin \/ BeginFails
    BY <2>3 DEF Begin, BeginFails
  <2>4. CASE NextPage \/ PageFails
    BY <1>1, <2>1, <2>4 DEF NextPage, PageFails, IInv, InTurn
  <2>5. CASE \E w \in Wings : OpenWing(w)
    BY <2>5 DEF OpenWing
  <2>6. CASE \E r \in Rooms : ListRoom(r)
    BY <2>6 DEF ListRoom
  <2>7. ASSUME NEW i \in Items, ItemFails(i) \/ ItemGone(i) PROVE FALSE
    <3>1. how.reads
      BY <1>1, <2>7 DEF ItemFails, ItemGone, IInv, InTurn
    <3>2. PICK why \in Reasons \ {"off", "broken"} : GiveUpItem(i, why)
      BY <2>7 DEF ItemFails, ItemGone, Meet, Reasons
    <3>3. why \in how.item
      BY <2>1, <3>1, <3>2 DEF Confines
    <3> QED BY <3>2, <3>3 DEF GiveUpItem, LoseRoom
  <2>8. ASSUME NEW w \in Wings, WingFails(w) PROVE FALSE
    <3>1. how.wings
      BY <1>1, <2>8 DEF WingFails, IInv, InTurn
    <3> QED BY <2>1, <2>8, <3>1 DEF WingFails, Meet, Confines
  <2>9. ASSUME NEW r \in Rooms, RoomFails(r) PROVE found = {}
    <3>1. <<"room", r>> \in calls /\ r \notin read
      BY <1>1, <2>9 DEF RoomFails, IInv, InTurn
    <3>2. r \in rooms
      <4>1. <<"room", r>> \in CallsMade
        BY <1>1, <3>1 DEF IInv, Shape
      <4> QED BY <4>1 DEF CallsMade
    <3>3. PICK why \in Reasons \ {"broken"} :
            IF why \in how.room /\ ~(how.type = "ct" /\ Cardinality(rooms) = 1)
            THEN LoseRoom(r, why) ELSE RaiseOut
      BY <2>9 DEF RoomFails, Meet
    <3>4. why \in how.room
      BY <2>1 DEF Confines
    <3>5. Cardinality(rooms) = 1
      BY <3>3, <3>4 DEF LoseRoom
    <3>6. IsFiniteSet(rooms)
      BY <1>1, FS_Subset DEF IInv, Shape
    <3>7. rooms = {r}
      BY <3>2, <3>5, <3>6, FS_Singleton
    <3>8. \A i \in found : RoomOf[i] \in read /\ read \subseteq rooms
      BY <1>1, <2>1 DEF IInv, InTurn, Shape
    <3> QED BY <3>1, <3>7, <3>8
  <2>10. ASSUME Answer PROVE found = {}
    <3>1. Hopeless
      BY <2>10 DEF Answer
    <3>2. \A i \in found : /\ RoomOf[i] \in read /\ i \in InRoom(RoomOf[i])
                           /\ WingOf[RoomOf[i]] \in Wings
                           /\ RoomOf[i] \in RoomsOf(WingOf[RoomOf[i]])
      BY <1>1, <2>1, WhereItemsAre DEF IInv, InTurn, Shape, RoomsOf
    <3>3. \A q \in Barren : found \cap InRoom(q) = {}
      BY DEF Barren
    <3>4. CASE read \subseteq Barren
      BY <3>2, <3>3, <3>4
    <3>5. CASE how.hopeless = "wings" /\ \A w \in Wings : <<"wing", w>> \in FinalGaps
      <4>1. ASSUME NEW i \in found PROVE FALSE
        <5> DEFINE w == WingOf[RoomOf[i]]
        <5>1. w \in Wings /\ RoomOf[i] \in RoomsOf(w) \cap read
          BY <3>2
        <5>2. <<"wing", w>> \notin gaps
          BY <1>1, <2>10, <5>1 DEF IInv, InTurn, Answer
        <5>3. w \notin LostWings
          BY <5>1 DEF LostWings
        <5> HIDE DEF w
        <5>4. <<"wing", w>> \notin FinalGaps
          BY <5>2, <5>3, FinalGapsOf
        <5> QED BY <3>5, <5>1, <5>4
      <4> QED BY <4>1
    <3>6. CASE read = {}
      BY <3>2, <3>6
    <3> QED BY <3>1, <3>4, <3>5, <3>6 DEF Hopeless
  <2> QED
    BY <2>2, <2>3, <2>4, <2>5, <2>6, <2>7, <2>8, <2>9, <2>10 DEF Next
<1> QED
  BY <1>1, Invariance, PTL DEF Spec, FailureIsConfined

-----------------------------------------------------------------------------
(* Disk: what is read out of files                                          *)

HIDE CollectorsAssumption

\* What the fields of an entry are, by what it is read from.
LEMMA KeyFieldsAre ==
    ASSUME NEW key, NEW type, NEW name, NEW f, f = KeyFields(key, type, name)
    PROVE  /\ DOMAIN f = DOMAIN Blank
           /\ f.kind = "key" /\ f.algorithm = key.algorithm /\ f.key_size = key.size
           /\ f.key_type = type /\ f.marks = {}
BY DEF KeyFields, Blank

\* A key of OpenSSH has the fields of another, but for its marks.
LEMMA SshKeyFieldsAre ==
    ASSUME NEW key, NEW type, NEW name, NEW f, f = SshKeyFields(key, type, name)
    PROVE  /\ DOMAIN f = DOMAIN Blank
           /\ f.kind = "key" /\ f.algorithm = key.algorithm /\ f.key_size = key.size
           /\ f.key_type = type
BY KeyFieldsAre DEF SshKeyFields, Blank

\* A key that no password opens is marked as such.
LEMMA UnopenedIs ==
    ASSUME NEW algorithm, NEW name, NEW f, f = Unopened(algorithm, name)
    PROVE  /\ DOMAIN f = DOMAIN Blank
           /\ f.kind = "key" /\ f.marks = {"unopened"} /\ f.key_type = "private-key"
BY DEF Unopened, Blank

\* A note on weak protection adds a mark, and changes nothing else.
LEMMA WeaklyIs ==
    ASSUME NEW a, DOMAIN a = DOMAIN Blank, NEW weak, NEW f, f = Weakly(a, weak)
    PROVE  /\ DOMAIN f = DOMAIN Blank
           /\ \A x \in DOMAIN Blank \ {"marks"} : f[x] = a[x]
           /\ a.marks \subseteq f.marks
           /\ weak => "keystore_weak_protection" \in f.marks
BY DEF Weakly, Blank

\* No two entries of a file have one sub-identifier.
SubsTellApart(entries) == \A a, b \in entries : a.sub = b.sub => a = b

\* One of the passwords opens an encrypted key, which is not damaged.
Opens(block, configured) == block.reads = "sound" /\ block.password \in Tried(configured)

\* The entry that a block gives, by its label.
Gives(block, i, name, configured, e) ==
    \/ /\ block.label = "certificate"
       /\ e.sub = <<block.cert.id>> /\ e = Entry(e.sub, CertFields(block.cert))
    \/ /\ block.label = "openssh"
       /\ e.sub = <<"sshkey", block.key.id>>
       /\ e = Entry(e.sub, SshKeyFields(block.key, "private-key", name))
    \/ /\ block.label = "encrypted" /\ Opens(block, configured)
       /\ e.sub = <<"key", i, block.key.id>>
       /\ e = Entry(e.sub, Weakly(KeyFields(block.key, "private-key", name),
                                  block.password \in WellKnown))
    \/ /\ block.label = "encrypted" /\ ~Opens(block, configured)
       /\ e.sub = <<"key", i>> /\ e = Entry(e.sub, Unopened(block.named, name))
    \/ /\ block.label = "private"
       /\ e.sub = <<"key", i, block.key.id>>
       /\ e = Entry(e.sub, KeyFields(block.key, "private-key", name))
    \/ /\ block.label = "public"
       /\ e.sub = <<"pub", i, block.key.id>>
       /\ e = Entry(e.sub, KeyFields(block.key, "public-key", name))

\* What a block of text gives is what its label says.
LEMMA BlockEntries ==
    ASSUME NEW block, NEW i, NEW name, NEW configured, NEW e \in PemBlock(block, i, name, configured)
    PROVE  Gives(block, i, name, configured, e)
<1>1. \A sub, asset : Entry(sub, asset).sub = sub
  BY DEF Entry
<1> QED BY <1>1 DEF PemBlock, CertEntry, Encrypted, Gives, Opens

\* Of two blocks, neither of them encrypted and in the place of another key, what
\* has one sub-identifier is one entry.
LEMMA BlockSubs ==
    ASSUME NEW b, NEW c, NEW i, NEW j, NEW name, NEW configured,
           b.key.id = c.key.id => b.key = c.key,
           b.cert.id = c.cert.id => b.cert = c.cert,
           i = j => \/ b = c
                    \/ /\ ~(b.label = "encrypted" /\ c.label \in {"private", "encrypted"})
                       /\ ~(c.label = "encrypted" /\ b.label \in {"private", "encrypted"}),
           NEW e, Gives(b, i, name, configured, e), NEW f, Gives(c, j, name, configured, f),
           e.sub = f.sub
    PROVE  e = f
<1>1. CASE b.label = "certificate"
  BY <1>1 DEF Gives
<1>2. CASE b.label = "openssh"
  BY <1>2 DEF Gives
<1>3. CASE b.label = "public"
  BY <1>3 DEF Gives
<1>4. CASE b.label = "private"
  <2>1. e.sub = <<"key", i, b.key.id>> /\ e = Entry(e.sub, KeyFields(b.key, "private-key", name))
    BY <1>4 DEF Gives
  <2>2. i = j /\ c.label \in {"private", "encrypted"}
    BY <2>1 DEF Gives
  <2>3. c.label = "private"
    BY <1>4, <2>2
  <2> QED BY <2>1, <2>3 DEF Gives
<1>5. CASE b.label = "encrypted"
  <2>1. i = j /\ c.label \in {"private", "encrypted"}
    BY <1>5 DEF Gives
  <2>2. b = c
    BY <1>5, <2>1
  <2> QED BY <1>5, <2>1, <2>2 DEF Gives
<1> QED BY <1>1, <1>2, <1>3, <1>4, <1>5 DEF Gives

\* A block that is loaded: a damaged one is passed over, unless it is encrypted.
Loaded(block) == block.reads = "sound" \/ block.label = "encrypted"

\* An entry of text is one that such a block gives.
LEMMA PemEntriesAre ==
    ASSUME NEW file, NEW name, NEW configured, NEW e \in PemEntries(file, name, configured)
    PROVE  \E n \in DOMAIN file.blocks :
              Loaded(file.blocks[n]) /\ Gives(file.blocks[n], n - 1, name, configured, e)
<1>1. PICK n \in {m \in DOMAIN file.blocks : Loaded(file.blocks[m])} :
           e \in PemBlock(file.blocks[n], n - 1, name, configured)
  BY DEF PemEntries, Loaded
<1> QED BY <1>1, BlockEntries

\* What such a block gives is read.
LEMMA LoadedBlockIsRead ==
    ASSUME NEW file, NEW name, NEW configured, NEW n \in DOMAIN file.blocks, Loaded(file.blocks[n]),
           NEW e \in PemBlock(file.blocks[n], n - 1, name, configured)
    PROVE  e \in PemEntries(file, name, configured)
<1> DEFINE Some == PemBlock(file.blocks[n], n - 1, name, configured)
           All == {PemBlock(file.blocks[m], m - 1, name, configured) :
                      m \in {m \in DOMAIN file.blocks :
                               file.blocks[m].reads = "sound" \/ file.blocks[m].label = "encrypted"}}
<1>1. Some \in All
  BY DEF Loaded
<1>2. e \in UNION All
  <2> HIDE DEF All
  <2> QED BY <1>1
<1> QED BY <1>2 DEF PemEntries

\* Text tells its entries apart by the place of the block.
LEMMA PemSubs ==
    ASSUME NEW file, IsText(file), NEW name, NEW configured
    PROVE  SubsTellApart(PemEntries(file, name, configured))
<1> SUFFICES ASSUME NEW e \in PemEntries(file, name, configured),
                    NEW f \in PemEntries(file, name, configured), e.sub = f.sub
             PROVE  e = f
  BY DEF SubsTellApart
<1>1. PICK n \in DOMAIN file.blocks : Gives(file.blocks[n], n - 1, name, configured, e)
  BY PemEntriesAre
<1>2. PICK m \in DOMAIN file.blocks : Gives(file.blocks[m], m - 1, name, configured, f)
  BY PemEntriesAre
<1>3. /\ file.blocks[n].key.id = file.blocks[m].key.id => file.blocks[n].key = file.blocks[m].key
      /\ file.blocks[n].cert.id = file.blocks[m].cert.id => file.blocks[n].cert = file.blocks[m].cert
  BY DEF IsText, Identified
<1>4. n - 1 = m - 1 => file.blocks[n] = file.blocks[m]
  BY DEF IsText
<1> HIDE DEF IsText
<1> QED BY <1>1, <1>2, <1>3, <1>4, BlockSubs

\* A file of DER has one entry at most.
LEMMA DerSubs ==
    ASSUME NEW file, NEW name
    PROVE  SubsTellApart(DerEntries(file, name))
BY DEF SubsTellApart, DerEntries

\* Keys of OpenSSH are told apart by their lines, certificates by their keys.
LEMMA SshSubs ==
    ASSUME NEW file, IsKeyList(file), NEW name
    PROVE  SubsTellApart(SshPublicEntries(file, name))
<1> DEFINE Of(n) ==
       LET line == file.lines[n] IN
       IF line.certificate
       THEN Entry(<<"sshcert", line.key.id>>,
                  [CertFields([id |-> line.key.id, key |-> line.key, purposes |-> <<"verify">>,
                               alias |-> "none"])
                    EXCEPT !.expires = line.expires])
       ELSE Entry(<<"ssh", line.key.id, n>>,
                  [SshKeyFields(line.key, "public-key", name) EXCEPT !.name = line.comment])
<1>1. ASSUME NEW n \in DOMAIN file.lines, NEW m \in DOMAIN file.lines, Of(n).sub = Of(m).sub
      PROVE  Of(n) = Of(m)
  <2>1. CASE file.lines[n].certificate /\ file.lines[m].certificate
    <3>1. file.lines[n].key.id = file.lines[m].key.id
      BY <1>1, <2>1 DEF Entry
    <3> QED BY <2>1, <3>1 DEF IsKeyList
  <2>2. CASE ~file.lines[n].certificate /\ ~file.lines[m].certificate
    BY <1>1, <2>2 DEF Entry
  <2>3. CASE file.lines[n].certificate /\ ~file.lines[m].certificate
    BY <1>1, <2>3 DEF Entry
  <2>4. CASE ~file.lines[n].certificate /\ file.lines[m].certificate
    BY <1>1, <2>4 DEF Entry
  <2> QED BY <2>1, <2>2, <2>3, <2>4
<1>2. SshPublicEntries(file, name) = {Of(n) : n \in {m \in DOMAIN file.lines : file.lines[m].reads = "sound"}}
  BY DEF SshPublicEntries
<1> HIDE DEF Of
<1> QED BY <1>1, <1>2 DEF SubsTellApart

\* A PKCS#12 keystore tells keys from certificates; those have one name each.
LEMMA Pkcs12Subs ==
    ASSUME NEW file, IsPkcs12(file), Identified(file.leaf \union file.others),
           NEW name, NEW configured
    PROVE  SubsTellApart(Pkcs12Entries(file, name, configured))
<1>1. CASE file.reads = "damaged" \/ file.password \notin Tried(configured)
  BY <1>1 DEF Pkcs12Entries, SubsTellApart
<1>2. CASE file.reads # "damaged" /\ file.password \in Tried(configured)
  <2> DEFINE Of(key) ==
                Entry(<<"key:", key.id>>,
                  Weakly(Certified(KeyFields(key, "private-key", name), file.leaf),
                         file.legacy \/ file.password \in WellKnown))
  <2>1. Pkcs12Entries(file, name, configured) =
          {Of(key) : key \in file.key}
          \union {CertEntry(<<"cert", c.id>>, c) : c \in file.leaf \union file.others}
    BY <1>2 DEF Pkcs12Entries
  <2>2. \A key : Of(key).sub = <<"key:", key.id>>
    BY DEF Entry
  <2>3. \A c : CertEntry(<<"cert", c.id>>, c).sub = <<"cert", c.id>>
    BY DEF Entry, CertEntry
  <2> HIDE DEF Of
  <2>4. ASSUME NEW k \in file.key, NEW l \in file.key, Of(k).sub = Of(l).sub
        PROVE  Of(k) = Of(l)
    BY <2>2, <2>4 DEF IsPkcs12, Identified
  <2>5. ASSUME NEW c \in file.leaf \union file.others, NEW d \in file.leaf \union file.others,
               CertEntry(<<"cert", c.id>>, c).sub = CertEntry(<<"cert", d.id>>, d).sub
        PROVE  c = d
    BY <2>3, <2>5 DEF Identified
  <2>6. ASSUME NEW k, NEW c, Of(k).sub = CertEntry(<<"cert", c.id>>, c).sub
        PROVE  FALSE
    <3>1. <<"key:", k.id>> = <<"cert", c.id>>
      BY <2>2, <2>3, <2>6
    <3> QED BY <3>1
  <2> SUFFICES ASSUME NEW e \in Pkcs12Entries(file, name, configured),
                      NEW f \in Pkcs12Entries(file, name, configured), e.sub = f.sub
               PROVE  e = f
    BY DEF SubsTellApart
  <2>7. \/ \E k \in file.key : e = Of(k)
        \/ \E c \in file.leaf \union file.others : e = CertEntry(<<"cert", c.id>>, c)
    BY <2>1
  <2>8. \/ \E k \in file.key : f = Of(k)
        \/ \E c \in file.leaf \union file.others : f = CertEntry(<<"cert", c.id>>, c)
    BY <2>1
  <2> QED BY <2>4, <2>5, <2>6, <2>7, <2>8
<1> QED BY <1>1, <1>2

\* A Java keystore tells its entries apart by alias, and a chain by position.
LEMMA JavaSubs ==
    ASSUME NEW file, IsJavaStore(file), NEW name
    PROVE  SubsTellApart(JavaEntries(file, name))
<1>1. ASSUME NEW e, e.tag \in {"key", "trusted", "secret"}, NEW x \in JavaEntry(e, name)
      PROVE  /\ x.sub[1] = e.alias
             /\ \A y \in JavaEntry(e, name) : x.sub = y.sub => x = y
  <2>1. CASE e.tag = "trusted"
    <3>1. JavaEntry(e, name) = {CertEntry(<<e.alias, "trusted", e.cert.id>>, e.cert)}
      BY <2>1 DEF JavaEntry
    <3> QED BY <1>1, <3>1 DEF CertEntry, Entry
  <2>2. CASE e.tag = "secret"
    <3>1. JavaEntry(e, name) =
            {Entry(<<e.alias, "secret">>, Weakly(JavaSecret(e, name \o ":" \o e.alias), TRUE))}
      BY <2>2 DEF JavaEntry
    <3>2. \A sub, asset : Entry(sub, asset).sub = sub
      BY DEF Entry
    <3>3. x.sub = <<e.alias, "secret">>
      BY <1>1, <3>1, <3>2, Zenon
    <3>4. x.sub[1] = e.alias
      BY <3>3
    <3> QED BY <1>1, <3>1, <3>4, Zenon
  <2>3. CASE e.tag = "key"
    <3> DEFINE OfKey == Entry(<<e.alias, "key">>, Weakly(JavaKey(e, name \o ":" \o e.alias), TRUE))
               OfCert(n) == CertEntry(<<e.alias, n, e.chain[n].id>>, e.chain[n])
    <3>1. JavaEntry(e, name) = {OfKey} \union {OfCert(n) : n \in DOMAIN e.chain}
      BY <2>3 DEF JavaEntry
    <3>2. OfKey.sub = <<e.alias, "key">>
      BY DEF Entry
    <3>3. \A n : OfCert(n).sub = <<e.alias, n, e.chain[n].id>>
      BY DEF Entry, CertEntry
    <3> HIDE DEF OfKey, OfCert
    <3>4. ASSUME NEW n, NEW m, OfCert(n).sub = OfCert(m).sub
          PROVE  n = m
      BY <3>3, <3>4
    <3>5. ASSUME NEW n, OfCert(n).sub = OfKey.sub
          PROVE  FALSE
      <4>1. <<e.alias, n, e.chain[n].id>> = <<e.alias, "key">>
        BY <3>2, <3>3, <3>5
      <4> QED BY <4>1
    <3>6. x = OfKey \/ \E n \in DOMAIN e.chain : x = OfCert(n)
      BY <1>1, <3>1
    <3>7. x.sub[1] = e.alias
      BY <3>2, <3>3, <3>6
    <3>8. ASSUME NEW y \in JavaEntry(e, name), x.sub = y.sub
          PROVE  x = y
      <4>1. y = OfKey \/ \E n \in DOMAIN e.chain : y = OfCert(n)
        BY <3>1, <3>8
      <4> QED BY <3>4, <3>5, <3>6, <3>8, <4>1
    <3> QED BY <3>7, <3>8
  <2> QED BY <1>1, <2>1, <2>2, <2>3
<1> SUFFICES ASSUME NEW x \in JavaEntries(file, name), NEW y \in JavaEntries(file, name), x.sub = y.sub
             PROVE  x = y
  BY DEF SubsTellApart
<1>2. PICK n \in DOMAIN file.entries : x \in JavaEntry(file.entries[n], name)
  BY DEF JavaEntries
<1>3. PICK m \in DOMAIN file.entries : y \in JavaEntry(file.entries[m], name)
  BY DEF JavaEntries
<1>4. /\ file.entries[n].tag \in {"key", "trusted", "secret"}
      /\ file.entries[m].tag \in {"key", "trusted", "secret"}
      /\ file.entries[n].alias = file.entries[m].alias => n = m
  BY DEF IsJavaStore
<1>5. n = m
  BY <1>1, <1>2, <1>3, <1>4
<1> QED BY <1>1, <1>2, <1>3, <1>4, <1>5

\* Which parser reads which form of file.
LEMMA ParseIs ==
    ASSUME NEW file, NEW name, NEW configured
    PROVE  /\ file.form = "PEM" => Parse(file, name, configured) = PemEntries(file, name, configured)
           /\ file.form = "DER" => Parse(file, name, configured) = DerEntries(file, name)
           /\ file.form = "PKCS12" => Parse(file, name, configured) = Pkcs12Entries(file, name, configured)
           /\ file.form \in {"JKS", "JCEKS"} => Parse(file, name, configured) = JavaEntries(file, name)
           /\ file.form = "SSH" => Parse(file, name, configured) \subseteq SshPublicEntries(file, name)
           /\ file.form \in {"absent", "unreadable"} => Parse(file, name, configured) = {}
<1>1. file.form = "PEM" => Parse(file, name, configured) = PemEntries(file, name, configured)
  BY DEF Parse
<1>2. file.form = "DER" => Parse(file, name, configured) = DerEntries(file, name)
  BY DEF Parse
<1>3. file.form = "PKCS12" => Parse(file, name, configured) = Pkcs12Entries(file, name, configured)
  BY DEF Parse
<1>4. file.form \in {"JKS", "JCEKS"} => Parse(file, name, configured) = JavaEntries(file, name)
  BY DEF Parse
<1>5. file.form = "SSH" => Parse(file, name, configured) \subseteq SshPublicEntries(file, name)
  BY DEF Parse
<1>6. file.form \in {"absent", "unreadable"} => Parse(file, name, configured) = {}
  BY DEF Parse
<1> QED BY <1>1, <1>2, <1>3, <1>4, <1>5, <1>6

\* What may be where a file is expected.
IsContent(file) == file.form \in {"absent", "unreadable"} \/ IsFile(file)

\* The same, where a PKCS#12 file does not have a certificate under two names.
IsDistinct(file) ==
    IsContent(file) /\ (file.form = "PKCS12" => Identified(file.leaf \union file.others))

\* Whatever the form of a file, no two of its entries have one sub-identifier.
LEMMA EntrySubs ==
    ASSUME NEW file, IsDistinct(file), NEW name, NEW configured
    PROVE  SubsTellApart(Parse(file, name, configured))
<1>1. CASE file.form \in {"absent", "unreadable"}
  BY <1>1, ParseIs DEF SubsTellApart
<1>2. CASE file.form = "PEM" /\ IsText(file)
  BY <1>2, ParseIs, PemSubs
<1>3. CASE file.form = "SSH" /\ IsKeyList(file)
  BY <1>3, ParseIs, SshSubs DEF SubsTellApart
<1>4. CASE file.form = "PKCS12" /\ IsPkcs12(file)
  BY <1>4, ParseIs, Pkcs12Subs DEF IsDistinct
<1>5. CASE file.form \in {"JKS", "JCEKS"} /\ IsJavaStore(file)
  BY <1>5, ParseIs, JavaSubs
<1>6. CASE file.form = "DER"
  BY <1>6, ParseIs, DerSubs
<1> QED BY <1>1, <1>2, <1>3, <1>4, <1>5, <1>6 DEF IsDistinct, IsContent, IsFile

-----------------------------------------------------------------------------
(* Ids.                                                                     *)

\* No two assets have one id.
IdsIn(assets) == \A s, t \in assets : s.id = t.id => s = t

\* The ids of a file are its name with sub-identifiers; its only key has the name
\* alone, which no other entry has.
LEMMA FileIds ==
    ASSUME NEW file, IsDistinct(file), NEW name, NEW configured
    PROVE  /\ IdsIn(ParseFile(file, name, configured))
           /\ \A s \in ParseFile(file, name, configured) : s.id[1] = name
<1> DEFINE entries == Parse(file, name, configured)
           Of(e) == [id |-> IdOf(entries, e, name), asset |-> [e.asset EXCEPT !.location = name]]
<1>1. ParseFile(file, name, configured) = {Of(e) : e \in entries}
  BY DEF ParseFile
<1>2. SubsTellApart(entries)
  BY EntrySubs
<1> HIDE DEF entries
<1>3. ASSUME NEW e \in entries
      PROVE  \/ Of(e).id = <<name, e.sub>>
             \/ Of(e).id = <<name>> /\ {k \in entries : k.asset.kind = "key"} = {e}
  BY DEF IdOf
<1>4. ASSUME NEW e \in entries, NEW f \in entries, Of(e).id = Of(f).id
      PROVE  Of(e) = Of(f)
  <2>1. CASE Of(e).id = <<name>> /\ {k \in entries : k.asset.kind = "key"} = {e}
    <3>1. Of(f).id = <<name>> /\ {k \in entries : k.asset.kind = "key"} = {f}
      <4>1. Of(f).id # <<name, f.sub>>
        BY <1>4, <2>1
      <4> QED BY <1>3, <4>1
    <3> QED BY <2>1, <3>1
  <2>2. CASE Of(e).id = <<name, e.sub>>
    <3>1. Of(f).id = <<name, f.sub>>
      <4>1. Of(f).id # <<name>>
        BY <1>4, <2>2
      <4> QED BY <1>3, <4>1
    <3>2. e.sub = f.sub
      BY <1>4, <2>2, <3>1
    <3> QED BY <1>2, <3>2 DEF SubsTellApart
  <2> QED BY <1>3, <2>1, <2>2
<1>5. \A e \in entries : Of(e).id[1] = name
  BY <1>3
<1> HIDE DEF Of
<1> QED BY <1>1, <1>4, <1>5 DEF IdsIn

\* The files of a directory tell their ids apart by their names.
LEMMA FilesIds ==
    ASSUME NEW files, \A n \in DOMAIN files : IsDistinct(files[n]), NEW configured
    PROVE  IdsIn(ScanFiles(files, configured))
<1> SUFFICES ASSUME NEW s \in ScanFiles(files, configured), NEW t \in ScanFiles(files, configured),
                    s.id = t.id
             PROVE  s = t
  BY DEF IdsIn
<1>1. PICK n \in DOMAIN files : s \in ParseFile(files[n], n, configured)
  BY DEF ScanFiles
<1>2. PICK m \in DOMAIN files : t \in ParseFile(files[m], m, configured)
  BY DEF ScanFiles
<1>3. n = m
  BY <1>1, <1>2, FileIds
<1> QED BY <1>1, <1>2, <1>3, FileIds DEF IdsIn

\* Of one file of source: no encrypted key is on one line with another key.
LinesApart(file) ==
    \A i, j \in DOMAIN file.blocks :
        /\ file.blocks[i].label = "encrypted"
        /\ file.blocks[j].label \in {"private", "encrypted"}
        /\ file.blocks[i].line = file.blocks[j].line
        => i = j

\* What is found in text was given by a block alone.
LEMMA FoundInText ==
    ASSUME NEW file, file.form = "PEM", NEW name, NEW configured, NEW f \in FoundIn(file, name, configured)
    PROVE  \E n \in DOMAIN file.blocks :
              /\ file.blocks[n].label \in {"private", "encrypted", "openssh"}
              /\ f.line = file.blocks[n].line
              /\ Gives(file.blocks[n], 0, name, configured, f.entry)
              /\ f = [line |-> f.line, entry |-> f.entry]
<1> DEFINE At(b) == FoundAt(b.line, Parse(Alone(b), name, configured))
<1>1. FoundIn(file, name, configured) = UNION {At(b) : b \in Committed(file)}
  BY DEF FoundIn, Binary
<1>2. PICK b \in Committed(file) : f \in At(b)
  <2> HIDE DEF At
  <2> QED BY <1>1
<1>3. PICK n \in DOMAIN file.blocks :
         b = file.blocks[n] /\ b.label \in {"private", "encrypted", "openssh"}
  BY <1>2 DEF Committed
<1>4. /\ f.line = b.line /\ f = [line |-> f.line, entry |-> f.entry]
      /\ f.entry \in Parse(Alone(b), name, configured)
  BY <1>2 DEF FoundAt
<1>5. f.entry \in PemEntries(Alone(b), name, configured)
  BY <1>4, ParseIs DEF Alone
<1>6. PICK k \in DOMAIN Alone(b).blocks : Gives(Alone(b).blocks[k], k - 1, name, configured, f.entry)
  BY <1>5, PemEntriesAre
<1>7. k = 1 /\ Alone(b).blocks[k] = b
  BY DEF Alone
<1>8. Gives(b, 0, name, configured, f.entry)
  BY <1>6, <1>7
<1> QED BY <1>3, <1>4, <1>8

\* What is found in a file of source is told apart by line and sub-identifier.
LEMMA FoundSubs ==
    ASSUME NEW file, IsDistinct(file), file.form = "PEM" => LinesApart(file),
           NEW name, NEW configured,
           NEW f \in FoundIn(file, name, configured), NEW g \in FoundIn(file, name, configured),
           f.line = g.line, f.entry.sub = g.entry.sub
    PROVE  f = g
<1>1. CASE Binary(file)
  <2>1. FoundIn(file, name, configured) = {[line |-> 1, entry |-> e] : e \in Parse(file, name, configured)}
    BY <1>1 DEF FoundIn, FoundAt
  <2> QED BY <2>1, EntrySubs DEF SubsTellApart
<1>2. CASE ~Binary(file) /\ file.form # "PEM"
  BY <1>2 DEF FoundIn, Committed
<1>3. CASE ~Binary(file) /\ file.form = "PEM"
  <2>1. PICK n \in DOMAIN file.blocks :
           /\ file.blocks[n].label \in {"private", "encrypted", "openssh"}
           /\ f.line = file.blocks[n].line
           /\ Gives(file.blocks[n], 0, name, configured, f.entry)
           /\ f = [line |-> f.line, entry |-> f.entry]
    BY <1>3, FoundInText
  <2>2. PICK m \in DOMAIN file.blocks :
           /\ file.blocks[m].label \in {"private", "encrypted", "openssh"}
           /\ g.line = file.blocks[m].line
           /\ Gives(file.blocks[m], 0, name, configured, g.entry)
           /\ g = [line |-> g.line, entry |-> g.entry]
    BY <1>3, FoundInText
  <2>3. IsText(file)
    BY <1>3 DEF IsDistinct, IsContent, IsFile
  <2>4. /\ file.blocks[n].key.id = file.blocks[m].key.id => file.blocks[n].key = file.blocks[m].key
        /\ file.blocks[n].cert.id = file.blocks[m].cert.id => file.blocks[n].cert = file.blocks[m].cert
    BY <2>3 DEF IsText, Identified
  <2>5. \/ file.blocks[n] = file.blocks[m]
        \/ /\ ~(file.blocks[n].label = "encrypted" /\ file.blocks[m].label \in {"private", "encrypted"})
           /\ ~(file.blocks[m].label = "encrypted" /\ file.blocks[n].label \in {"private", "encrypted"})
    BY <1>3, <2>1, <2>2 DEF LinesApart
  <2>6. f.entry = g.entry
    BY <2>1, <2>2, <2>4, <2>5, BlockSubs
  <2> QED BY <2>1, <2>2, <2>6
<1> QED BY <1>1, <1>2, <1>3

\* Committed keys have ids of their own within a file.
LEMMA HardcodingIds ==
    ASSUME NEW file, IsDistinct(file), file.form = "PEM" => LinesApart(file),
           NEW path, NEW name, NEW configured
    PROVE  /\ IdsIn(Hardcoding(file, path, name, configured))
           /\ \A s \in Hardcoding(file, path, name, configured) :
                 \E line, sub : s.id = <<path, line, sub>>
<1> DEFINE Of(f) == [id |-> <<path, f.line, f.entry.sub>>,
                     asset |-> [f.entry.asset EXCEPT !.marks = @ \union {"hardcoded"}, !.location = path]]
<1>1. \A s \in Hardcoding(file, path, name, configured) :
         \E f \in FoundIn(file, name, configured) : s = Of(f)
  BY DEF Hardcoding
<1>2. \A f : Of(f).id = <<path, f.line, f.entry.sub>>
  OBVIOUS
<1> HIDE DEF Of
<1>3. ASSUME NEW f \in FoundIn(file, name, configured), NEW g \in FoundIn(file, name, configured),
             Of(f).id = Of(g).id
      PROVE  f = g
  BY <1>2, <1>3, FoundSubs
<1> QED BY <1>1, <1>2, <1>3 DEF IdsIn

\* Calls that are alike are one asset, which their label tells from others.
LEMMA GroupIds ==
    ASSUME NEW made
    PROVE  /\ IdsIn(Group(made))
           /\ \A s \in Group(made) : \E label : s.id = <<"calls", label>>
<1> DEFINE Purposes(label) == SetToSeq({c.purpose : c \in {d \in made : Label(d) = label}})
           Of(k) ==
             [id |-> <<"calls", Label(k)>>,
              asset |->
                [Blank EXCEPT !.kind = "algorithm", !.algorithm = k.algorithm, !.key_size = k.size,
                              !.curve = k.curve, !.key_type = "algorithm", !.state = "active",
                              !.purposes = Purposes(Label(k)),
                              !.marks = {k.mode} \ {"none"}]]
<1>1. Group(made) = {Of(k) : k \in made}
  BY DEF Group
<1>2. \A k : Of(k).id = <<"calls", Label(k)>>
  OBVIOUS
<1>3. ASSUME NEW k \in made, NEW l \in made, Label(k) = Label(l)
      PROVE  Of(k) = Of(l)
  <2>1. k.algorithm = l.algorithm /\ k.size = l.size /\ k.curve = l.curve /\ k.mode = l.mode
    BY <1>3 DEF Label
  <2> HIDE DEF Purposes
  <2> QED BY <1>3, <2>1
<1> HIDE DEF Of
<1> QED BY <1>1, <1>2, <1>3 DEF IdsIn

\* No id of a committed key is that of a group of calls.
LEMMA CodeIds ==
    ASSUME NEW p, NEW files, NEW configured,
           \A n \in DOMAIN files : IsDistinct(files[n]) /\ (files[n].form = "PEM" => LinesApart(files[n]))
    PROVE  IdsIn(ScanCode(p, files, configured))
<1> DEFINE made == UNION {{h.call : h \in Hits(files[n].lines)} :
                              n \in {m \in Opened(p, files) : files[m].form = "PEM"}}
<1>1. ASSUME NEW s \in ScanCode(p, files, configured)
      PROVE  \/ \E n \in Opened(p, files) : s \in Hardcoding(files[n], n, n, configured)
             \/ s \in Group(made)
  BY DEF ScanCode
<1> HIDE DEF made
<1>2. Opened(p, files) \subseteq DOMAIN files
  BY DEF Opened
<1> SUFFICES ASSUME NEW s \in ScanCode(p, files, configured), NEW t \in ScanCode(p, files, configured),
                    s.id = t.id
             PROVE  s = t
  BY DEF IdsIn
<1>3. CASE s \in Group(made)
  <2>1. t \notin Group(made) => FALSE
    <3>1. \E label : t.id = <<"calls", label>>
      BY <1>3, GroupIds
    <3>2. ASSUME NEW n \in Opened(p, files), t \in Hardcoding(files[n], n, n, configured)
          PROVE  FALSE
      BY <1>2, <3>1, <3>2, HardcodingIds
    <3> QED BY <1>1, <3>2
  <2> QED BY <1>3, <2>1, GroupIds DEF IdsIn
<1>4. ASSUME NEW n \in Opened(p, files), s \in Hardcoding(files[n], n, n, configured)
      PROVE  s = t
  <2>1. PICK line, sub : s.id = <<n, line, sub>>
    BY <1>2, <1>4, HardcodingIds
  <2>2. ASSUME t \in Group(made)
        PROVE  FALSE
    <3>1. PICK label : t.id = <<"calls", label>>
      BY <2>2, GroupIds
    <3>2. <<n, line, sub>> = <<"calls", label>>
      BY <2>1, <3>1
    <3> QED BY <3>2
  <2>3. \E m \in Opened(p, files) : t \in Hardcoding(files[m], m, m, configured)
    BY <1>1, <2>2, Zenon
  <2>4. PICK m \in Opened(p, files) : t \in Hardcoding(files[m], m, m, configured)
    BY <2>3
  <2>5. PICK there, part : t.id = <<m, there, part>>
    BY <1>2, <2>4, HardcodingIds
  <2>6. n = m
    <3>1. <<n, line, sub>> = <<m, there, part>>
      BY <2>1, <2>5
    <3> QED BY <3>1
  <2>7. IdsIn(Hardcoding(files[n], n, n, configured))
    BY <1>2, HardcodingIds
  <2> QED BY <1>4, <2>4, <2>6, <2>7 DEF IdsIn
<1> QED BY <1>1, <1>3, <1>4

-----------------------------------------------------------------------------
(* The invariant.                                                           *)

\* The files are of the place, and so were those of the last scan.
InPlace(files) ==
    /\ DOMAIN files = DOMAIN place.files
    /\ \A n \in DOMAIN place.files : files[n] \in Contents(place)[n]

\* What is held of the last scan is what a scan of the same files finds, if they let
\* it end.
DiskIInv ==
    /\ place \in Places
    /\ InPlace(disk) /\ InPlace(scanned.disk)
    /\ failed = Raises(place, scanned.disk, scanned.passwords)
    /\ sightings = IF failed THEN {} ELSE Found(place, scanned.disk, scanned.passwords)

\* Of an empty directory, a scan finds nothing.
LEMMA DiskInitial == DiskInit => DiskIInv
<1> SUFFICES ASSUME DiskInit
             PROVE  DiskIInv
  OBVIOUS
<1>1. place \in Places /\ InPlace(disk) /\ InPlace(scanned.disk) /\ scanned.disk = disk
  BY DEF DiskInit, InPlace, Contents
<1>2. \A n \in DOMAIN disk : disk[n].form = "absent"
  BY DEF DiskInit, Absent
<1>3. \A n \in DOMAIN disk : Parse(disk[n], n, scanned.passwords) = {}
  BY <1>2, ParseIs
<1>4. ScanFiles(disk, scanned.passwords) = {}
  BY <1>3 DEF ScanFiles, ParseFile
<1>5. \A n \in DOMAIN disk : Hardcoding(disk[n], n, n, scanned.passwords) = {}
  BY <1>2 DEF Hardcoding, FoundIn, Binary, Committed
<1>6. {m \in Opened(place, disk) : disk[m].form = "PEM"} = {}
  BY <1>2 DEF Opened
<1>7. Group({}) = {}
  BY DEF Group
<1>8. ScanCode(place, disk, scanned.passwords) = {}
  <2>1. UNION {Hardcoding(disk[n], n, n, scanned.passwords) : n \in Opened(place, disk)} = {}
    BY <1>5 DEF Opened
  <2>2. UNION {{h.call : h \in Hits(disk[n].lines)} :
                 n \in {m \in Opened(place, disk) : disk[m].form = "PEM"}} = {}
    BY <1>6
  <2> QED BY <1>7, <2>1, <2>2 DEF ScanCode
<1>9. sightings = Found(place, disk, scanned.passwords)
  BY <1>4, <1>8 DEF Found, DiskInit
<1>10. ~Raises(place, disk, scanned.passwords)
  BY <1>2 DEF Raises, Opened, HardcodedRaises, Binary, Committed, ParseRaises
<1>11. failed = FALSE /\ Raises(place, disk, scanned.passwords) = FALSE
  BY <1>10 DEF DiskInit, Raises
<1> QED BY <1>1, <1>9, <1>11 DEF DiskIInv

\* Files and passwords change without the last scan, and a scan replaces it.
LEMMA DiskStep == DiskIInv /\ [DiskNext]_diskVars => DiskIInv'
<1> SUFFICES ASSUME DiskIInv, [DiskNext]_diskVars
             PROVE  DiskIInv'
  OBVIOUS
<1>1. CASE UNCHANGED diskVars
  BY <1>1 DEF DiskIInv, InPlace, Contents, diskVars
<1>2. CASE Scan
  BY <1>2 DEF DiskIInv, InPlace, Contents, Scan
<1>3. CASE Configure
  BY <1>3 DEF DiskIInv, InPlace, Contents, Configure
<1>4. ASSUME NEW n \in DOMAIN disk, Edit(n)
      PROVE  DiskIInv'
  <2>1. PICK c \in Contents(place)[n] : disk' = [disk EXCEPT ![n] = c]
    BY <1>4 DEF Edit
  <2>2. InPlace(disk)'
    BY <1>4, <2>1 DEF DiskIInv, InPlace, Edit, Contents
  <2> QED BY <1>4, <2>2 DEF DiskIInv, InPlace, Edit, Contents
<1> QED BY <1>1, <1>2, <1>3, <1>4 DEF DiskNext

\* What is held is of the last scan, whatever was edited since.
LEMMA DiskInvariance == DiskSpec => []DiskIInv
BY DiskInitial, DiskStep, PTL DEF DiskSpec

\* A file that was scanned is one the place may have, or was not to be read.
LEMMA ContentsAre ==
    ASSUME DiskIInv
    PROVE  \A n \in DOMAIN scanned.disk :
              \/ scanned.disk[n] \in place.files[n] /\ IsFile(scanned.disk[n]) /\ n \in DOMAIN place.files
              \/ scanned.disk[n].form \in {"absent", "unreadable"}
<1> TAKE n \in DOMAIN scanned.disk
<1>1. place \in Places /\ n \in DOMAIN place.files
  BY DEF DiskIInv, InPlace
<1>2. scanned.disk[n] \in place.files[n] \union {Absent, Unreadable}
  BY <1>1 DEF DiskIInv, InPlace, Contents
<1>3. scanned.disk[n] \in place.files[n] => IsFile(scanned.disk[n])
  BY <1>1, DiskAssumption
<1> QED BY <1>1, <1>2, <1>3 DEF Absent, Unreadable

\* The ids of the last scan, for both types of source.
LEMMA IdsAreApart == OneToALine /\ NamedOnce /\ DiskIInv => IdsTellApart
<1> SUFFICES ASSUME OneToALine, NamedOnce, DiskIInv
             PROVE  IdsTellApart
  OBVIOUS
<1>1. \A n \in DOMAIN scanned.disk : IsDistinct(scanned.disk[n])
  <2> TAKE n \in DOMAIN scanned.disk
  <2>1. IsContent(scanned.disk[n])
    BY ContentsAre DEF IsContent
  <2>2. scanned.disk[n].form = "PKCS12" =>
          Identified(scanned.disk[n].leaf \union scanned.disk[n].others)
    BY ContentsAre DEF DiskIInv, NamedOnce
  <2> QED BY <2>1, <2>2 DEF IsDistinct
<1>2. CASE failed
  BY <1>2 DEF DiskIInv, IdsTellApart
<1>3. CASE ~failed /\ place.type # "code"
  <2>1. sightings = ScanFiles(scanned.disk, scanned.passwords)
    BY <1>3 DEF DiskIInv, Found
  <2> QED BY <1>1, <2>1, FilesIds DEF IdsIn, IdsTellApart
<1>4. CASE ~failed /\ place.type = "code"
  <2>1. \A n \in DOMAIN scanned.disk : scanned.disk[n].form = "PEM" => LinesApart(scanned.disk[n])
    BY <1>4, ContentsAre DEF DiskIInv, OneToALine, LinesApart
  <2>2. sightings = ScanCode(place, scanned.disk, scanned.passwords)
    BY <1>4 DEF DiskIInv, Found
  <2> QED BY <1>1, <2>1, <2>2, CodeIds DEF IdsIn, IdsTellApart
<1> QED BY <1>2, <1>3, <1>4

\* IdsTellApart: the sub-identifiers that entries_to_assets, _hardcoded and _group
\* make ids of tell apart whatever one scan finds, for any directory, any contents of
\* its files and any passwords, if no encrypted key shares a line of code with
\* another key and no PKCS#12 file has one certificate under two names.
THEOREM IdsApart ==
    ASSUME OneToALine, NamedOnce
    PROVE  DiskSpec => []IdsTellApart
<1>1. DiskIInv => IdsTellApart
  BY IdsAreApart
<1> QED BY <1>1, DiskInvariance, PTL

-----------------------------------------------------------------------------
(* Findings.                                                                *)

\* The marks by which a rule of the policy notes an asset.
LEMMA NotedRules ==
    ASSUME NEW a
    PROVE  /\ a.kind = "key" /\ "keystore_weak_protection" \in a.marks
              => "keystore-weak-protection" \in Noted(a)
           /\ a.kind = "key" /\ "hardcoded" \in a.marks => "hardcoded-private-key" \in Noted(a)
           /\ a.kind = "algorithm" /\ "ECB" \in a.marks => "weak-cipher-mode" \in Noted(a)
<1>1. {"keystore-weak-protection", "hardcoded-private-key", "weak-cipher-mode"} \subseteq RuleIds
  <2>1. /\ "critical" \in Severities /\ "hardcoded-private-key" \in RulesGraded["critical"]
        /\ "high" \in Severities /\ "weak-cipher-mode" \in RulesGraded["high"]
        /\ "medium" \in Severities /\ "keystore-weak-protection" \in RulesGraded["medium"]
    BY DEF Severities, RulesGraded
  <2> QED BY <2>1 DEF RuleIds
<1>2. a.kind = "key" /\ "keystore_weak_protection" \in a.marks
         => "keystore-weak-protection" \in Noted(a)
  BY <1>1 DEF Noted
<1>3. a.kind = "key" /\ "hardcoded" \in a.marks => "hardcoded-private-key" \in Noted(a)
  BY <1>1 DEF Noted, Hardcoded
<1>4. a.kind = "algorithm" /\ "ECB" \in a.marks => "weak-cipher-mode" \in Noted(a)
  BY <1>1 DEF Noted
<1> QED BY <1>2, <1>3, <1>4

\* The default policy switches off no rule.
LEMMA AllEnabled ==
    ASSUME NEW r \in RuleIds
    PROVE  Enabled(DefaultPolicy, r)
<1>1. /\ r \in DOMAIN DefaultPolicy.rules
      /\ DefaultPolicy.rules[r] = [enabled |-> TRUE, severity |-> DefaultSeverity[r]]
  BY DEF DefaultPolicy
<1>2. Get(DefaultPolicy.rules, r, <<>>) = [enabled |-> TRUE, severity |-> DefaultSeverity[r]]
  BY <1>1 DEF Get
<1>3. Get([enabled |-> TRUE, severity |-> DefaultSeverity[r]], "enabled", TRUE)
  BY DEF Get
<1> QED BY <1>2, <1>3 DEF Enabled

\* What a rule notes of an asset that is no public key is among the findings.
LEMMA NotedIsReported ==
    ASSUME IdsTellApart, NEW s \in sightings, s.asset.key_type # "public-key",
           NEW rule \in Noted(s.asset)
    PROVE  s.id \in Reported(rule)
<1> DEFINE A == AssetsById
           finding == [rule |-> rule, asset |-> s.id, severity |-> SeverityOf(DefaultPolicy, rule),
                       verified |-> TRUE]
           Of(i) == {[rule |-> r, asset |-> i, severity |-> SeverityOf(DefaultPolicy, r), verified |-> TRUE] :
                        r \in {q \in Yielded(DefaultPolicy, A[i], Today) : Enabled(DefaultPolicy, q)}}
<1>1. s.id \in DOMAIN A /\ A[s.id] = s.asset
  <2>1. s.id \in {t.id : t \in sightings}
    OBVIOUS
  <2>2. (CHOOSE t \in sightings : t.id = s.id) = s
    BY DEF IdsTellApart
  <2> QED BY <2>1, <2>2 DEF AssetsById
<1>2. s.id \in DOMAIN A \ PublicHalves(A)
  BY <1>1 DEF PublicHalves
<1>3. rule \in RuleIds /\ rule \in Yielded(DefaultPolicy, s.asset, Today)
  BY DEF Yielded, Noted
<1>4. finding \in Of(s.id)
  BY <1>1, <1>3, AllEnabled
<1>5. Evaluate(A, DefaultPolicy, Today) = UNION {Of(i) : i \in DOMAIN A \ PublicHalves(A)}
  BY DEF Evaluate
<1>6. finding \in Evaluate(A, DefaultPolicy, Today)
  <2> HIDE DEF Of, finding, A
  <2> QED BY <1>2, <1>4, <1>5
<1>7. finding.rule = rule /\ finding.asset = s.id
  OBVIOUS
<1> HIDE DEF finding
<1> QED BY <1>6, <1>7 DEF Reported

-----------------------------------------------------------------------------
(* Keys.                                                                    *)

\* The asset tells of a private or secret key: its algorithm and its size, or that
\* nothing could be told.
Tells(asset, key) ==
    /\ DOMAIN asset = DOMAIN Blank
    /\ asset.kind = "key" /\ asset.key_type \in {"private-key", "secret-key"}
    /\ IF key = NoKey THEN "unopened" \in asset.marks
       ELSE asset.algorithm = key.algorithm /\ asset.key_size = key.size

\* The entry tells of the secret, and that its protection is weak.
Covers(entry, secret) ==
    /\ Tells(entry.asset, secret.key)
    /\ secret.weak => "keystore_weak_protection" \in entry.asset.marks

\* A key that is read is told of.
LEMMA PrivateKeyTells ==
    ASSUME NEW key, key # NoKey, NEW name
    PROVE  /\ Tells(KeyFields(key, "private-key", name), key)
           /\ Tells(SshKeyFields(key, "private-key", name), key)
<1>1. Tells(KeyFields(key, "private-key", name), key)
  BY KeyFieldsAre DEF Tells
<1>2. Tells(SshKeyFields(key, "private-key", name), key)
  BY SshKeyFieldsAre DEF Tells
<1> QED BY <1>1, <1>2

\* A key that is not opened is told of as such.
LEMMA UnopenedTells ==
    ASSUME NEW algorithm, NEW name
    PROVE  Tells(Unopened(algorithm, name), NoKey)
BY UnopenedIs DEF Tells

\* The note on weak protection leaves what is told.
LEMMA WeaklyTells ==
    ASSUME NEW a, NEW key, Tells(a, key), NEW weak, NEW f, f = Weakly(a, weak)
    PROVE  Tells(f, key) /\ (weak => "keystore_weak_protection" \in f.marks)
<1>1. /\ DOMAIN f = DOMAIN Blank
      /\ \A x \in DOMAIN Blank \ {"marks"} : f[x] = a[x]
      /\ a.marks \subseteq f.marks
      /\ weak => "keystore_weak_protection" \in f.marks
  BY WeaklyIs DEF Tells
<1>2. {"kind", "key_type", "algorithm", "key_size"} \subseteq DOMAIN Blank \ {"marks"}
  BY DEF Blank
<1> QED BY <1>1, <1>2 DEF Tells

\* The purposes of a certificate leave what is told of its key.
LEMMA CertifiedTells ==
    ASSUME NEW a, NEW key, Tells(a, key), NEW leaf
    PROVE  Tells(Certified(a, leaf), key)
<1>1. PICK purposes : purposes = PurposesFromCert(CHOOSE c \in leaf : TRUE)
  OBVIOUS
<1>2. Certified(a, leaf) = a \/ Certified(a, leaf) = [a EXCEPT !.purposes = purposes]
  BY <1>1, Zenon DEF Certified
<1>3. Tells([a EXCEPT !.purposes = purposes], key)
  BY DEF Tells, Blank
<1> QED BY <1>2, <1>3

\* A key of a Java keystore is known by the certificate of its chain, one without a
\* chain and a secret key by nothing.
LEMMA JavaTells ==
    ASSUME NEW e, NEW named
    PROVE  /\ e.chain = <<>> => Tells(JavaKey(e, named), NoKey)
           /\ e.chain # <<>> /\ e.chain[1].key # NoKey => Tells(JavaKey(e, named), e.chain[1].key)
           /\ Tells(JavaSecret(e, named), NoKey)
<1>1. ASSUME e.chain = <<>>
      PROVE  Tells(JavaKey(e, named), NoKey)
  BY <1>1, UnopenedTells DEF JavaKey
<1>2. ASSUME e.chain # <<>>, e.chain[1].key # NoKey
      PROVE  Tells(JavaKey(e, named), e.chain[1].key)
  <2> DEFINE a == Certified(KeyFields(e.chain[1].key, "private-key", named), {e.chain[1]})
  <2>1. Tells(a, e.chain[1].key)
    BY <1>2, PrivateKeyTells, CertifiedTells
  <2>2. JavaKey(e, named) = [a EXCEPT !.created = e.created]
    BY <1>2 DEF JavaKey
  <2> HIDE DEF a
  <2>3. Tells([a EXCEPT !.created = e.created], e.chain[1].key)
    BY <2>1 DEF Tells, Blank
  <2> QED BY <2>2, <2>3
<1>3. Tells(JavaSecret(e, named), NoKey)
  <2> DEFINE a == Unopened("unknown", named)
  <2>1. Tells(a, NoKey)
    BY UnopenedTells
  <2>2. JavaSecret(e, named) = [a EXCEPT !.key_type = "secret-key", !.purposes = <<"encrypt", "decrypt">>,
                                        !.created = e.created]
    BY DEF JavaSecret
  <2> HIDE DEF a
  <2>3. Tells([a EXCEPT !.key_type = "secret-key", !.purposes = <<"encrypt", "decrypt">>,
                        !.created = e.created], NoKey)
    BY <2>1 DEF Tells, Blank
  <2> QED BY <2>2, <2>3
<1> QED BY <1>1, <1>2, <1>3

\* A block with a private key gives an entry that tells of it.
LEMMA BlockCovers ==
    ASSUME NEW b, b.label \in {"private", "encrypted", "openssh"}, b.key # NoKey,
           NEW i, NEW name, NEW configured, NEW secret,
           secret.key = IF b.label = "encrypted" /\ ~Opens(b, configured) THEN NoKey ELSE b.key,
           secret.weak => b.label = "encrypted" /\ b.reads = "sound" /\ b.password \in WellKnown
    PROVE  \E e \in PemBlock(b, i, name, configured) : Covers(e, secret)
<1>1. \A sub, asset : Entry(sub, asset).asset = asset
  BY DEF Entry
<1>2. CASE b.label = "private"
  <2>1. Entry(<<"key", i, b.key.id>>, KeyFields(b.key, "private-key", name))
          \in PemBlock(b, i, name, configured)
    BY <1>2 DEF PemBlock
  <2> QED BY <1>1, <1>2, <2>1, PrivateKeyTells DEF Covers
<1>3. CASE b.label = "openssh"
  <2>1. Entry(<<"sshkey", b.key.id>>, SshKeyFields(b.key, "private-key", name))
          \in PemBlock(b, i, name, configured)
    BY <1>3 DEF PemBlock
  <2> QED BY <1>1, <1>3, <2>1, PrivateKeyTells DEF Covers
<1>4. CASE b.label = "encrypted" /\ Opens(b, configured)
  <2> DEFINE plain == KeyFields(b.key, "private-key", name)
             weak == b.password \in WellKnown
             e == Entry(<<"key", i, b.key.id>>, Weakly(plain, weak))
  <2>1. e \in PemBlock(b, i, name, configured)
    BY <1>4 DEF PemBlock, Encrypted, Opens
  <2>2. Tells(plain, b.key)
    BY PrivateKeyTells
  <2>3. Tells(Weakly(plain, weak), b.key) /\ (weak => "keystore_weak_protection" \in Weakly(plain, weak).marks)
    <3> HIDE DEF plain, weak
    <3> QED BY <2>2, WeaklyTells
  <2>4. e.asset = Weakly(plain, weak)
    BY <1>1
  <2>5. Covers(e, secret)
    BY <1>4, <2>3, <2>4 DEF Covers
  <2> QED BY <2>1, <2>5
<1>5. CASE b.label = "encrypted" /\ ~Opens(b, configured)
  <2> DEFINE e == Entry(<<"key", i>>, Unopened(b.named, name))
  <2>1. e \in PemBlock(b, i, name, configured)
    BY <1>5 DEF PemBlock, Encrypted, Opens
  <2>2. Covers(e, secret)
    BY <1>1, <1>5, UnopenedTells DEF Covers, Tried, Opens
  <2> QED BY <2>1, <2>2
<1> QED BY <1>2, <1>3, <1>4, <1>5

\* The block holds the secret, which is its key if that is read.
HoldsSecret(b, secret) ==
    /\ Loaded(b) /\ b.label \in {"private", "encrypted", "openssh"}
    /\ secret.key = IF b.label = "encrypted" /\ ~Opens(b, scanned.passwords) THEN NoKey ELSE b.key
    /\ secret.weak => b.label = "encrypted" /\ b.reads = "sound" /\ b.password \in WellKnown
    /\ secret.ignored = b.ignored

\* The secrets of text: each is that of a block.
LEMMA TextSecrets ==
    ASSUME NEW file, file.form = "PEM", NEW secret \in SecretsOf(file)
    PROVE  \E n \in DOMAIN file.blocks : HoldsSecret(file.blocks[n], secret)
<1> DEFINE tried == Tried(scanned.passwords)
           chosen == {m \in DOMAIN file.blocks :
                         \/ file.blocks[m].label = "encrypted"
                         \/ /\ file.blocks[m].reads = "sound"
                            /\ file.blocks[m].label \in {"private", "openssh"}}
           Of(b) == [key |-> IF b.reads = "sound" /\ (b.label = "encrypted" => b.password \in tried)
                             THEN b.key ELSE NoKey,
                     weak |-> Weak(file, b), ignored |-> b.ignored]
<1>1. SecretsOf(file) = {Of(b) : b \in {file.blocks[n] : n \in chosen}}
  BY DEF SecretsOf
<1>2. PICK n \in chosen : secret = Of(file.blocks[n])
  BY <1>1
<1> DEFINE b == file.blocks[n]
<1>3. Loaded(b) /\ b.label \in {"private", "encrypted", "openssh"}
  BY <1>2 DEF Loaded
<1>4. secret.key = IF b.label = "encrypted" /\ ~Opens(b, scanned.passwords) THEN NoKey ELSE b.key
  BY <1>2, <1>3 DEF Loaded, Opens
<1>5. secret.weak = Weak(file, b) /\ secret.ignored = b.ignored
  BY <1>2
<1>6. Weak(file, b) => b.label = "encrypted" /\ b.reads = "sound" /\ b.password \in WellKnown
  BY DEF Weak
<1> QED BY <1>3, <1>4, <1>5, <1>6 DEF HoldsSecret

\* Every private key in text is among the entries of the file.
LEMMA TextIsCovered ==
    ASSUME NEW file, file.form = "PEM", IsText(file), NEW name, NEW secret \in SecretsOf(file)
    PROVE  \E e \in Parse(file, name, scanned.passwords) : Covers(e, secret)
<1>1. PICK n \in DOMAIN file.blocks : HoldsSecret(file.blocks[n], secret)
  BY TextSecrets
<1>2. file.blocks[n].key # NoKey
  BY DEF IsText
<1>3. PICK e \in PemBlock(file.blocks[n], n - 1, name, scanned.passwords) : Covers(e, secret)
  BY <1>1, <1>2, BlockCovers DEF HoldsSecret
<1>4. e \in PemEntries(file, name, scanned.passwords)
  BY <1>1, <1>3, LoadedBlockIsRead DEF HoldsSecret
<1>5. e \in Parse(file, name, scanned.passwords)
  BY <1>4, ParseIs
<1> QED BY <1>3, <1>5

\* In source, but for what is marked to be ignored.
LEMMA CodeTextIsCovered ==
    ASSUME NEW file, file.form = "PEM", IsText(file), NEW name, NEW secret \in SecretsOf(file),
           ~secret.ignored
    PROVE  \E f \in FoundIn(file, name, scanned.passwords) : Covers(f.entry, secret)
<1> DEFINE At(b) == FoundAt(b.line, Parse(Alone(b), name, scanned.passwords))
<1>1. PICK n \in DOMAIN file.blocks : HoldsSecret(file.blocks[n], secret)
  BY TextSecrets
<1>2. PICK b : b = file.blocks[n]
  OBVIOUS
<1>3. b.key # NoKey /\ HoldsSecret(b, secret)
  BY <1>1, <1>2 DEF IsText
<1>4. PICK e \in PemBlock(b, 1 - 1, name, scanned.passwords) : Covers(e, secret)
  BY <1>3, BlockCovers DEF HoldsSecret
<1>5. e \in Parse(Alone(b), name, scanned.passwords)
  <2>1. 1 \in DOMAIN Alone(b).blocks /\ Alone(b).blocks[1] = b /\ Alone(b).form = "PEM"
    BY DEF Alone
  <2>2. e \in PemEntries(Alone(b), name, scanned.passwords)
    BY <1>3, <1>4, <2>1, LoadedBlockIsRead DEF HoldsSecret
  <2> QED BY <2>1, <2>2, ParseIs
<1> DEFINE f == [line |-> b.line, entry |-> e]
<1>6. f \in At(b)
  BY <1>5 DEF FoundAt
<1>7. FoundIn(file, name, scanned.passwords) = UNION {At(c) : c \in Committed(file)}
  BY DEF FoundIn, Binary
<1>8. b \in Committed(file)
  BY <1>2, <1>3 DEF Committed, HoldsSecret
<1>9. f \in FoundIn(file, name, scanned.passwords)
  <2> HIDE DEF At, f
  <2> QED BY <1>6, <1>7, <1>8
<1>10. f.entry = e
  OBVIOUS
<1> HIDE DEF f
<1> QED BY <1>4, <1>9, <1>10

\* Every private or secret key in a keystore, or of a DER file, is among the entries.
LEMMA KeystoresAreCovered ==
    ASSUME NEW file, file.form # "PEM", IsFile(file), NEW name, NEW secret \in SecretsOf(file)
    PROVE  \E e \in Parse(file, name, scanned.passwords) : Covers(e, secret)
<1>1. \A sub, asset : Entry(sub, asset).asset = asset
  BY DEF Entry
<1>2. CASE file.form = "SSH"
  BY <1>2 DEF SecretsOf
<1>3. CASE file.form = "DER"
  <2>1. file.label = "private" /\ file.reads = "sound" /\ secret = [key |-> file.key, weak |-> FALSE, ignored |-> FALSE]
    BY <1>3 DEF SecretsOf
  <2>2. file.key # NoKey
    BY <1>3 DEF IsFile
  <2> DEFINE e == Entry(<<"private-key", file.key.id>>, KeyFields(file.key, "private-key", name))
  <2>3. e \in DerEntries(file, name)
    BY <2>1 DEF DerEntries
  <2>4. Covers(e, secret)
    BY <1>1, <2>1, <2>2, PrivateKeyTells DEF Covers
  <2> QED BY <1>3, <2>3, <2>4, ParseIs
<1>4. CASE file.form = "PKCS12"
  <2> DEFINE tried == Tried(scanned.passwords)
             Of(k) == [key |-> IF file.password \in tried THEN k ELSE NoKey,
                       weak |-> Weak(file, {}), ignored |-> FALSE]
  <2>1. file.reads # "damaged" /\ SecretsOf(file) = {Of(k) : k \in file.key}
    BY <1>4 DEF SecretsOf
  <2>2. PICK k \in file.key : secret = Of(k)
    BY <2>1
  <2>3. /\ secret.key = IF file.password \in tried THEN k ELSE NoKey
        /\ secret.weak = Weak(file, {})
    BY <2>2
  <2>4. Weak(file, {}) => file.legacy \/ file.password \in WellKnown
    BY <1>4 DEF Weak
  <2>5. k # NoKey
    BY <1>4 DEF IsFile, IsPkcs12
  <2>6. CASE file.password \in tried
    <3> DEFINE fields == Certified(KeyFields(k, "private-key", name), file.leaf)
               weak == file.legacy \/ file.password \in WellKnown
               e == Entry(<<"key:", k.id>>, Weakly(fields, weak))
    <3>1. Tells(fields, k)
      BY <2>5, PrivateKeyTells, CertifiedTells
    <3>2. /\ Tells(Weakly(fields, weak), k)
          /\ weak => "keystore_weak_protection" \in Weakly(fields, weak).marks
      <4> HIDE DEF fields, weak
      <4> QED BY <3>1, WeaklyTells
    <3>3. e \in Pkcs12Entries(file, name, scanned.passwords)
      BY <2>1, <2>6 DEF Pkcs12Entries
    <3>4. Covers(e, secret)
      BY <1>1, <2>3, <2>4, <2>6, <3>2 DEF Covers
    <3> QED BY <1>4, <3>3, <3>4, ParseIs
  <2>7. CASE file.password \notin tried
    <3> DEFINE fields == Unopened("unknown", name)
               weak == file.legacy
               e == Entry(<<"locked">>, Weakly(fields, weak))
    <3>1. Tells(fields, NoKey)
      BY UnopenedTells
    <3>2. /\ Tells(Weakly(fields, weak), NoKey)
          /\ weak => "keystore_weak_protection" \in Weakly(fields, weak).marks
      <4> HIDE DEF fields, weak
      <4> QED BY <3>1, WeaklyTells
    <3>3. e \in Pkcs12Entries(file, name, scanned.passwords)
      BY <2>1, <2>7 DEF Pkcs12Entries
    <3>4. secret.weak => weak
      BY <2>3, <2>4, <2>7 DEF Tried
    <3>5. Covers(e, secret)
      BY <1>1, <2>3, <2>7, <3>2, <3>4 DEF Covers
    <3> QED BY <1>4, <3>3, <3>5, ParseIs
  <2> QED BY <2>6, <2>7
<1>5. CASE file.form \in {"JKS", "JCEKS"}
  <2> DEFINE Of(x) == [key |-> IF x.tag = "key" /\ x.chain # <<>> THEN x.chain[1].key ELSE NoKey,
                       weak |-> TRUE, ignored |-> FALSE]
             sealed == {x \in {file.entries[n] : n \in DOMAIN file.entries} : x.tag # "trusted"}
  <2>1. file.reads = "sound" /\ SecretsOf(file) = {Of(x) : x \in sealed}
    BY <1>5 DEF SecretsOf
  <2>2. PICK n \in DOMAIN file.entries : file.entries[n].tag # "trusted" /\ secret = Of(file.entries[n])
    BY <2>1
  <2> DEFINE x == file.entries[n]
             named == name \o ":" \o x.alias
  <2>3. secret.key = IF x.tag = "key" /\ x.chain # <<>> THEN x.chain[1].key ELSE NoKey
    BY <2>2
  <2>4. IsJavaStore(file)
    BY <1>5 DEF IsFile
  <2>5. /\ x.tag \in {"key", "secret"}
        /\ x.tag = "key" /\ x.chain # <<>> => x.chain[1].key # NoKey
        /\ ~(file.form = "JKS" /\ \E m \in DOMAIN file.entries : file.entries[m].tag = "secret")
    BY <2>2, <2>4 DEF IsJavaStore
  <2>6. PICK e \in JavaEntry(x, name) : Covers(e, secret)
    <3> HIDE DEF x, named
    <3>1. CASE x.tag = "key"
      <4>1. Tells(JavaKey(x, named), secret.key)
        BY <2>3, <2>5, <3>1, JavaTells
      <4>2. PICK weak : weak = TRUE
        OBVIOUS
      <4>3. PICK fields : fields = Weakly(JavaKey(x, named), weak)
        OBVIOUS
      <4>4. Tells(fields, secret.key) /\ "keystore_weak_protection" \in fields.marks
        BY <4>1, <4>2, <4>3, WeaklyTells
      <4>5. Entry(<<x.alias, "key">>, fields) \in JavaEntry(x, name)
        BY <3>1, <4>2, <4>3, Zenon DEF JavaEntry, named
      <4> QED BY <1>1, <4>4, <4>5 DEF Covers
    <3>2. CASE x.tag = "secret"
      <4>1. Tells(JavaSecret(x, named), secret.key)
        BY <2>3, <2>5, <3>2, JavaTells
      <4>2. PICK weak : weak = TRUE
        OBVIOUS
      <4>3. PICK fields : fields = Weakly(JavaSecret(x, named), weak)
        OBVIOUS
      <4>4. Tells(fields, secret.key) /\ "keystore_weak_protection" \in fields.marks
        BY <4>1, <4>2, <4>3, WeaklyTells
      <4>5. Entry(<<x.alias, "secret">>, fields) \in JavaEntry(x, name)
        <5>1. JavaEntry(x, name) =
                {Entry(<<x.alias, "secret">>, Weakly(JavaSecret(x, name \o ":" \o x.alias), TRUE))}
          BY <3>2 DEF JavaEntry
        <5> QED BY <4>2, <4>3, <5>1, Zenon DEF named
      <4> QED BY <1>1, <4>4, <4>5 DEF Covers
    <3> QED BY <2>5, <3>1, <3>2
  <2>7. e \in JavaEntries(file, name)
    BY <2>1, <2>5, <2>6 DEF JavaEntries
  <2> QED BY <1>5, <2>6, <2>7, ParseIs
<1> QED BY <1>2, <1>3, <1>4, <1>5 DEF IsFile

\* An asset that keeps what its entry tells shows the key, and the rules report it.
LEMMA WhatIsCoveredShows ==
    ASSUME IdsTellApart, NEW s \in sightings, NEW n, NEW secret, NEW entry, Covers(entry, secret),
           \A x \in DOMAIN Blank \ {"marks", "location"} : s.asset[x] = entry.asset[x],
           entry.asset.marks \subseteq s.asset.marks,
           s.asset.location = n,
           place.type = "code" => "hardcoded" \in s.asset.marks
    PROVE  Shows(s, n, secret)
<1>1. /\ s.asset.kind = entry.asset.kind /\ s.asset.key_type = entry.asset.key_type
      /\ s.asset.algorithm = entry.asset.algorithm /\ s.asset.key_size = entry.asset.key_size
  <2>1. {"kind", "key_type", "algorithm", "key_size"} \subseteq DOMAIN Blank \ {"marks", "location"}
    BY DEF Blank
  <2> QED BY <2>1
<1>2. s.asset.kind = "key" /\ s.asset.key_type \in {"private-key", "secret-key"}
  BY <1>1 DEF Covers, Tells
<1>3. IF secret.key = NoKey THEN "unopened" \in s.asset.marks
      ELSE s.asset.algorithm = secret.key.algorithm /\ s.asset.key_size = secret.key.size
  BY <1>1 DEF Covers, Tells
<1>4. secret.weak => s.id \in Reported("keystore-weak-protection")
  <2>1. secret.weak => "keystore-weak-protection" \in Noted(s.asset)
    BY <1>2, NotedRules DEF Covers
  <2> QED BY <1>2, <2>1, NotedIsReported
<1>5. place.type = "code" => s.id \in Reported("hardcoded-private-key")
  BY <1>2, NotedRules, NotedIsReported
<1> QED BY <1>2, <1>3, <1>4, <1>5 DEF Shows

\* Every private or secret key in the files that were read is shown by an asset.
LEMMA KeysAreSurfaced == DiskIInv /\ ~failed /\ IdsTellApart => PrivateKeysAreSurfaced
<1> SUFFICES ASSUME DiskIInv, ~failed, IdsTellApart, NEW n \in Seen, NEW secret \in SecretsOf(scanned.disk[n]),
                    ~(place.type = "code" /\ secret.ignored)
             PROVE  \E s \in sightings : Shows(s, n, secret)
  BY DEF PrivateKeysAreSurfaced
<1> DEFINE file == scanned.disk[n]
<1>1. n \in Opened(place, scanned.disk) /\ n \in DOMAIN scanned.disk /\ file.form # "unreadable"
  BY DEF Seen, Opened
<1>2. file.form # "absent"
  BY DEF SecretsOf
<1>3. IsFile(file)
  BY <1>1, <1>2, ContentsAre
<1>4. CASE place.type # "code"
  <2>1. PICK e \in Parse(file, n, scanned.passwords) : Covers(e, secret)
    <3>1. CASE file.form = "PEM"
      BY <1>3, <3>1, TextIsCovered DEF IsFile
    <3>2. CASE file.form # "PEM"
      BY <1>3, <3>2, KeystoresAreCovered
    <3> QED BY <3>1, <3>2
  <2> DEFINE s == [id |-> IdOf(Parse(file, n, scanned.passwords), e, n),
                   asset |-> [e.asset EXCEPT !.location = n]]
  <2>2. s \in ParseFile(file, n, scanned.passwords)
    BY DEF ParseFile
  <2>3. s \in sightings
    <3>1. sightings = ScanFiles(scanned.disk, scanned.passwords)
      BY <1>4 DEF DiskIInv, Found
    <3> HIDE DEF s
    <3> QED BY <1>1, <2>2, <3>1 DEF ScanFiles
  <2>4. s.asset = [e.asset EXCEPT !.location = n]
    OBVIOUS
  <2> HIDE DEF s
  <2>5. /\ \A x \in DOMAIN Blank \ {"marks", "location"} : s.asset[x] = e.asset[x]
        /\ e.asset.marks \subseteq s.asset.marks
        /\ s.asset.location = n
    BY <2>1, <2>4 DEF Covers, Tells, Blank
  <2>6. Shows(s, n, secret)
    BY <1>4, <2>1, <2>3, <2>5, WhatIsCoveredShows
  <2> QED BY <2>3, <2>6
<1>5. CASE place.type = "code"
  <2>1. PICK f \in FoundIn(file, n, scanned.passwords) : Covers(f.entry, secret)
    <3>1. CASE file.form = "PEM"
      BY <1>3, <1>5, <3>1, CodeTextIsCovered DEF IsFile
    <3>2. CASE file.form # "PEM"
      <4>1. PICK e \in Parse(file, n, scanned.passwords) : Covers(e, secret)
        BY <1>3, <3>2, KeystoresAreCovered
      <4>2. Binary(file)
        BY <1>3, <3>2 DEF IsFile, Binary, SecretsOf
      <4>3. [line |-> 1, entry |-> e] \in FoundIn(file, n, scanned.passwords)
        BY <4>2 DEF FoundIn, FoundAt
      <4> QED BY <4>1, <4>3
    <3> QED BY <3>1, <3>2
  <2> DEFINE s == [id |-> <<n, f.line, f.entry.sub>>,
                   asset |-> [f.entry.asset EXCEPT !.marks = @ \union {"hardcoded"}, !.location = n]]
  <2>2. s \in Hardcoding(file, n, n, scanned.passwords)
    BY <2>1 DEF Hardcoding, Covers, Tells
  <2>3. s \in sightings
    <3>1. sightings = ScanCode(place, scanned.disk, scanned.passwords)
      BY <1>5 DEF DiskIInv, Found
    <3> HIDE DEF s
    <3>2. s \in UNION {Hardcoding(scanned.disk[m], m, m, scanned.passwords) : m \in Opened(place, scanned.disk)}
      BY <1>1, <2>2
    <3> QED BY <3>1, <3>2 DEF ScanCode
  <2>4. s.asset = [f.entry.asset EXCEPT !.marks = @ \union {"hardcoded"}, !.location = n]
    OBVIOUS
  <2> HIDE DEF s
  <2>5. /\ \A x \in DOMAIN Blank \ {"marks", "location"} : s.asset[x] = f.entry.asset[x]
        /\ f.entry.asset.marks \subseteq s.asset.marks
        /\ s.asset.location = n
        /\ "hardcoded" \in s.asset.marks
    <3>1. PICK a : a = f.entry.asset
      OBVIOUS
    <3>2. DOMAIN a = DOMAIN Blank
      BY <2>1, <3>1 DEF Covers, Tells
    <3>3. s.asset = [a EXCEPT !.marks = @ \union {"hardcoded"}, !.location = n]
      BY <2>4, <3>1
    <3>4. {"marks", "location"} \subseteq DOMAIN a
      BY <3>2 DEF Blank
    <3>5. s.asset.marks = a.marks \union {"hardcoded"} /\ s.asset.location = n
      BY <3>3, <3>4
    <3>6. \A x \in DOMAIN Blank \ {"marks", "location"} : s.asset[x] = a[x]
      BY <3>2, <3>3
    <3> QED BY <3>1, <3>5, <3>6
  <2>6. Shows(s, n, secret)
    BY <2>1, <2>3, <2>5, WhatIsCoveredShows
  <2> QED BY <2>3, <2>6
<1> QED BY <1>4, <1>5

-----------------------------------------------------------------------------
(* Calls.                                                                   *)

\* SetToSeq lists every element of a finite set.
LEMMA EachIsListed ==
    ASSUME NEW S, IsFiniteSet(S), NEW x \in S
    PROVE  \E i \in DOMAIN SetToSeq(S) : SetToSeq(S)[i] = x
<1> DEFINE C == Cardinality(S)
           f == SetToSeq(S)
<1>1. C \in Nat /\ ExistsBijection(1..C, S)
  BY FS_CardinalityType
<1>2. \E g \in [1..C -> S] : IsInjective(g)
  BY <1>1 DEF ExistsBijection, Bijection, Injection
<1>3. f \in [1..C -> S] /\ IsInjective(f)
  BY <1>2 DEF SetToSeq
<1> HIDE DEF f
<1>4. f \in Injection(1..C, S)
  BY <1>3 DEF Injection
<1>5. Cardinality(1..C) = C
  <2> HIDE DEF C
  <2>1. Cardinality(1..C) = IF 1 > C THEN 0 ELSE C - 1 + 1
    BY <1>1, FS_Interval
  <2> QED BY <1>1, <2>1
<1>6. f \in Surjection(1..C, S)
  <2>1. Cardinality(1..C) = Cardinality(S) <=> f \in Surjection(1..C, S)
    <3> HIDE DEF C
    <3> QED BY <1>4, FS_Injection
  <2> QED BY <1>5, <2>1
<1>7. PICK i \in 1..C : f[i] = x
  BY <1>6 DEF Surjection
<1> QED BY <1>3, <1>7 DEF f

\* A bounded set of numbers has a greatest.
LEMMA HasGreatest ==
    ASSUME NEW S \in SUBSET Nat, S # {}, NEW n \in Nat, \A x \in S : x <= n
    PROVE  \E m \in S : \A x \in S : x <= m
<1> DEFINE D == {n - x : x \in S}
           Less == OpToRel(<, Nat)
<1>1. D \subseteq Nat /\ D # {}
  <2>1. PICK x \in S : TRUE
    OBVIOUS
  <2>2. n - x \in D
    OBVIOUS
  <2>3. \A y \in S : n - y \in Nat
    OBVIOUS
  <2> QED BY <2>2, <2>3
<1>2. IsWellFoundedOn(Less, Nat)
  BY NatLessThanWellFounded
<1>3. PICK d \in D : \A e \in D : ~(<<e, d>> \in Less)
  <2> HIDE DEF D, Less
  <2> QED BY <1>1, <1>2, WFMin
<1>4. \A e \in D : ~(e < d)
  <2>1. \A e \in D : e < d => <<e, d>> \in Less
    BY <1>1 DEF OpToRel
  <2> QED BY <1>3, <2>1
<1>5. PICK m \in S : d = n - m
  OBVIOUS
<1>6. \A x \in S : x <= m
  <2> TAKE x \in S
  <2>1. n - x \in D
    OBVIOUS
  <2>2. ~(n - x < n - m)
    BY <1>4, <1>5, <2>1
  <2>3. n \in Nat /\ m \in Nat /\ x \in Nat
    OBVIOUS
  <2> HIDE DEF D, Less
  <2> QED BY <2>2, <2>3
<1> HIDE DEF D, Less
<1> QED BY <1>6

\* Every call of a tree is in an asset of its kind, which has its purpose and its mode.
LEMMA CallsAreGrouped ==
    ASSUME NEW made, \A d \in made : d.purpose \in CallPurposes, NEW c \in made
    PROVE  \E s \in Group(made) :
              /\ s.asset.kind = "algorithm" /\ s.asset.key_type = "algorithm"
              /\ s.asset.algorithm = c.algorithm /\ s.asset.key_size = c.size
              /\ HasPurpose(s.asset, {c.purpose})
              /\ c.mode = "ECB" => "ECB" \in s.asset.marks
<1> DEFINE purposes == {d.purpose : d \in {x \in made : Label(x) = Label(c)}}
           listed == SetToSeq(purposes)
           asset == [Blank EXCEPT !.kind = "algorithm", !.algorithm = c.algorithm, !.key_size = c.size,
                              !.curve = c.curve, !.key_type = "algorithm", !.state = "active",
                              !.purposes = listed, !.marks = {c.mode} \ {"none"}]
           s == [id |-> <<"calls", Label(c)>>, asset |-> asset]
<1>1. s \in Group(made)
  BY DEF Group
<1>2. IsFiniteSet(CallPurposes)
  <2>1. \A x, y : IsFiniteSet({x, y})
    <3> TAKE x, y
    <3>1. IsFiniteSet({x}) /\ IsFiniteSet({y})
      BY FS_Singleton
    <3>2. IsFiniteSet({x} \union {y})
      BY <3>1, FS_Union
    <3>3. {x, y} = {x} \union {y}
      OBVIOUS
    <3> QED BY <3>2, <3>3
  <2>2. CallPurposes = {"encrypt", "sign"} \union {"digest", "derive"}
    BY DEF CallPurposes
  <2>3. IsFiniteSet({"encrypt", "sign"}) /\ IsFiniteSet({"digest", "derive"})
    BY <2>1
  <2> QED BY <2>2, <2>3, FS_Union
<1>3. IsFiniteSet(purposes)
  <2>1. purposes \in SUBSET CallPurposes
    OBVIOUS
  <2> HIDE DEF purposes
  <2> QED BY <1>2, <2>1, FS_Subset
<1>4. c.purpose \in purposes
  OBVIOUS
<1>5. \E i \in DOMAIN listed : listed[i] = c.purpose
  <2> HIDE DEF purposes
  <2> QED BY <1>3, <1>4, EachIsListed
<1> HIDE DEF listed
<1>6. /\ asset.kind = "algorithm" /\ asset.key_type = "algorithm"
      /\ asset.algorithm = c.algorithm /\ asset.key_size = c.size
      /\ asset.purposes = listed /\ asset.marks = {c.mode} \ {"none"}
  BY DEF Blank
<1> HIDE DEF asset
<1>7. s.asset = asset
  OBVIOUS
<1>8. HasPurpose(asset, {c.purpose})
  BY <1>5, <1>6 DEF HasPurpose
<1>9. c.mode = "ECB" => "ECB" \in asset.marks
  BY <1>6
<1> HIDE DEF s
<1> QED BY <1>1, <1>6, <1>7, <1>8, <1>9

\* The fields of a call.
IsCall(c) ==
    /\ DOMAIN c = {"algorithm", "size", "curve", "mode", "purpose", "padding"}
    /\ c.purpose \in CallPurposes

IsCode(lines) ==
    /\ DOMAIN lines \subseteq Nat
    /\ \A n \in DOMAIN lines :
          /\ Len(lines[n].calls) \in Nat
          /\ DOMAIN lines[n].calls = 1..Len(lines[n].calls)
          /\ \A k \in DOMAIN lines[n].calls : IsCall(lines[n].calls[k])

\* A call is one on a line that is not skipped.
LEMMA CallsAre ==
    ASSUME NEW lines, NEW h
    PROVE  h \in Calls(lines) <=>
              \E n \in Live(lines) : \E k \in DOMAIN lines[n].calls :
                 h = [line |-> n, at |-> k, call |-> lines[n].calls[k]]
<1> DEFINE In(n) == {[line |-> n, at |-> k, call |-> lines[n].calls[k]] : k \in DOMAIN lines[n].calls}
<1>1. Calls(lines) = UNION {In(n) : n \in Live(lines)}
  BY DEF Calls, Live
<1>2. h \in UNION {In(n) : n \in Live(lines)} <=> \E n \in Live(lines) : h \in In(n)
  <2> HIDE DEF In
  <2> QED OBVIOUS
<1>3. \A n : h \in In(n) <=>
         \E k \in DOMAIN lines[n].calls : h = [line |-> n, at |-> k, call |-> lines[n].calls[k]]
  OBVIOUS
<1> HIDE DEF In
<1> QED BY <1>1, <1>2, <1>3

\* What a hit is, with the mode it was given.
LEMMA HitsAre ==
    ASSUME NEW lines, NEW n \in Live(lines), NEW k \in DOMAIN lines[n].calls, IsCall(lines[n].calls[k]),
           NEW h, h = [line |-> n, at |-> k, call |-> lines[n].calls[k]]
    PROVE  \E g \in Hits(lines) :
              /\ g.call.algorithm = h.call.algorithm /\ g.call.size = h.call.size
              /\ g.call.purpose = h.call.purpose /\ g.call.mode = ModeOf(lines, h)
<1>1. h \in Calls(lines)
  BY CallsAre
<1> DEFINE g == [h EXCEPT !.call.mode = ModeOf(lines, h)]
<1>2. g \in Hits(lines)
  BY <1>1 DEF Hits
<1>3. g.call = [lines[n].calls[k] EXCEPT !.mode = ModeOf(lines, h)]
  OBVIOUS
<1>4. h.call = lines[n].calls[k]
  OBVIOUS
<1> HIDE DEF g
<1>5. /\ g.call.algorithm = h.call.algorithm /\ g.call.size = h.call.size
      /\ g.call.purpose = h.call.purpose /\ g.call.mode = ModeOf(lines, h)
  BY <1>3, <1>4 DEF IsCall
<1> QED BY <1>2, <1>5

\* Every hit has one of the purposes.
LEMMA HitsHavePurposes ==
    ASSUME NEW lines, IsCode(lines), NEW g \in Hits(lines)
    PROVE  g.call.purpose \in CallPurposes
<1>1. PICK h \in Calls(lines) : g = [h EXCEPT !.call.mode = ModeOf(lines, h)]
  BY DEF Hits
<1>2. PICK n \in Live(lines) : \E k \in DOMAIN lines[n].calls :
         h = [line |-> n, at |-> k, call |-> lines[n].calls[k]]
  BY CallsAre
<1>3. PICK k \in DOMAIN lines[n].calls : h = [line |-> n, at |-> k, call |-> lines[n].calls[k]]
  BY <1>2
<1>4. IsCall(lines[n].calls[k])
  BY <1>2, <1>3 DEF IsCode, Live
<1>5. g.call = [lines[n].calls[k] EXCEPT !.mode = ModeOf(lines, h)]
  BY <1>1, <1>3
<1> QED BY <1>4, <1>5 DEF IsCall

\* Of the calls of a line like one that is set to ECB, the last is given that mode.
LEMMA EcbIsSet ==
    ASSUME NEW lines, IsCode(lines), NEW n \in Live(lines), NEW at0 \in DOMAIN lines[n].calls,
           NEW c, c = lines[n].calls[at0], InEcb(lines, n, c)
    PROVE  \E k \in DOMAIN lines[n].calls :
              /\ lines[n].calls[k] = c
              /\ ModeOf(lines, [line |-> n, at |-> k, call |-> c]) = "ECB"
<1>1. CASE c.mode = "ECB"
  <2> DEFINE h == [line |-> n, at |-> at0, call |-> c]
  <2>1. h.call.mode = "ECB"
    BY <1>1
  <2> HIDE DEF h
  <2>2. ModeOf(lines, h) = "ECB"
    BY <2>1 DEF ModeOf
  <2> QED BY <2>2 DEF h
<1>2. CASE c.mode # "ECB"
  <2>1. /\ c.mode = "none" /\ Encrypts(c)
        /\ \E m \in Live(lines) :
             /\ n <= m /\ m < n + Window /\ lines[m].mode = "ECB"
             /\ \A k \in Live(lines) : n <= k /\ k < m => lines[k].mode = "none"
             /\ \A k \in Live(lines) : n < k /\ k <= m =>
                   \A d \in DOMAIN lines[k].calls : ~Encrypts(lines[k].calls[d])
             /\ \A d \in DOMAIN lines[n].calls :
                   Encrypts(lines[n].calls[d]) => lines[n].calls[d] = c
    BY <1>2 DEF InEcb
  <2>2. PICK m \in Live(lines) :
             /\ n <= m /\ m < n + Window /\ lines[m].mode = "ECB"
             /\ \A k \in Live(lines) : n <= k /\ k < m => lines[k].mode = "none"
             /\ \A k \in Live(lines) : n < k /\ k <= m =>
                   \A d \in DOMAIN lines[k].calls : ~Encrypts(lines[k].calls[d])
             /\ \A d \in DOMAIN lines[n].calls :
                   Encrypts(lines[n].calls[d]) => lines[n].calls[d] = c
    BY <2>1
  <2>3. Live(lines) \subseteq Nat /\ n \in Nat /\ m \in Nat
    BY DEF Live, IsCode
  <2>4. PICK length \in Nat : DOMAIN lines[n].calls = 1..length
    BY DEF Live, IsCode
  <2> DEFINE K == {k \in DOMAIN lines[n].calls : Encrypts(lines[n].calls[k])}
  <2>5. K \in SUBSET Nat /\ K # {} /\ \A x \in K : x <= length
    BY <2>1, <2>4
  <2>6. PICK last \in K : \A x \in K : x <= last
    <3> HIDE DEF K
    <3> QED BY <2>5, HasGreatest
  <2>7. last \in DOMAIN lines[n].calls /\ last \in Nat /\ lines[n].calls[last] = c
    BY <2>2, <2>4
  <2>8. \A k \in DOMAIN lines[n].calls : Encrypts(lines[n].calls[k]) => k \in Nat /\ k <= last
    BY <2>5, <2>6
  <2> HIDE DEF K
  <2> DEFINE h == [line |-> n, at |-> last, call |-> c]
  <2>9. h.line = n /\ h.at = last /\ h.call = c
    OBVIOUS
  <2>10. h \in Calls(lines)
    BY <2>7, CallsAre
  <2>11. h \in Prior(lines, m)
    <3>1. n - Window < h.line
      BY <2>3, <2>9 DEF Window
    <3>11. m - Window < h.line
      BY <2>2, <2>3, <2>9 DEF Window
    <3>2. ASSUME NEW g \in Calls(lines), g.line <= m,
                 g.call.algorithm \in BlockCiphers, g.call.purpose = "encrypt"
          PROVE  g = h \/ Before(g, h)
      <4>1. PICK k \in Live(lines) : \E d \in DOMAIN lines[k].calls :
               g = [line |-> k, at |-> d, call |-> lines[k].calls[d]]
        BY CallsAre
      <4>2. PICK d \in DOMAIN lines[k].calls :
               g = [line |-> k, at |-> d, call |-> lines[k].calls[d]]
        BY <4>1
      <4>3. g.line = k /\ g.at = d /\ g.call = lines[k].calls[d]
        BY <4>2
      <4>4. Encrypts(lines[k].calls[d])
        BY <3>2, <4>3 DEF Encrypts
      <4>5. ~(n < k /\ k <= m)
        BY <2>2, <4>4
      <4>6. k \in Nat /\ k <= n
        BY <2>3, <3>2, <4>3, <4>5
      <4>7. CASE k = n
        <5>1. d \in Nat /\ d <= last /\ lines[n].calls[d] = c
          BY <2>2, <2>8, <4>2, <4>4, <4>7
        <5>2. CASE d = last
          <6>1. g = [line |-> n, at |-> last, call |-> c]
            BY <4>2, <4>7, <5>1, <5>2
          <6> QED BY <6>1
        <5>3. CASE d < last
          BY <2>9, <4>3, <4>7, <5>3 DEF Before
        <5> QED BY <2>7, <5>1, <5>2, <5>3
      <4>8. CASE k < n
        BY <2>9, <4>3, <4>8 DEF Before
      <4> QED BY <2>3, <4>6, <4>7, <4>8
    <3> HIDE DEF h
    <3>3. h.call.algorithm \in BlockCiphers /\ h.call.purpose = "encrypt" /\ h.line <= m
      BY <2>1, <2>2, <2>9 DEF Encrypts
    <3> QED BY <2>10, <3>11, <3>2, <3>3 DEF Prior
  <2> DEFINE S == ModeSetters(lines, h)
  <2>12. m \in S
    BY <2>2, <2>11 DEF ModeSetters, Live
  <2>13. \A j \in S : j \in Nat /\ m <= j
    <3> TAKE j \in S
    <3>1. j \in Live(lines) /\ lines[j].mode # "none" /\ h \in Prior(lines, j)
      BY DEF ModeSetters, Live
    <3>2. n <= j
      <4> HIDE DEF h
      <4> QED BY <2>9, <3>1 DEF Prior
    <3>3. j \in Nat
      BY <2>3, <3>1
    <3> QED BY <2>2, <2>3, <3>1, <3>2, <3>3
  <2> HIDE DEF h
  <2>14. h.call.mode = "none"
    BY <2>1, <2>9
  <2>15. (CHOOSE x \in S : \A y \in S : x <= y) = m
    <3> HIDE DEF S
    <3>1. \A y \in S : m <= y
      BY <2>13
    <3>2. \E x \in S : \A y \in S : x <= y
      BY <2>12, <3>1
    <3> DEFINE w == CHOOSE x \in S : \A y \in S : x <= y
    <3>3. w \in S /\ \A y \in S : w <= y
      BY <3>2
    <3> HIDE DEF w
    <3>4. w \in Nat /\ w <= m /\ m <= w
      BY <2>12, <2>13, <3>3
    <3>5. w = m
      BY <2>3, <3>4
    <3> QED BY <3>5 DEF w
  <2>16. ModeOf(lines, h) = lines[m].mode
    BY <2>12, <2>14, <2>15 DEF ModeOf
  <2>17. ModeOf(lines, h) = "ECB"
    BY <2>2, <2>16
  <2> QED BY <2>7, <2>17 DEF h
<1> QED BY <1>1, <1>2

\* Each call is in an asset of its kind, and one that is set to ECB is a finding.
LEMMA CallsAreCovered == DiskIInv /\ ~failed /\ IdsTellApart => CallsAreSurfaced
<1> DEFINE files == scanned.disk
           Coded == {m \in Opened(place, files) : files[m].form = "PEM"}
           called(x) == {h.call : h \in Hits(files[x].lines)}
           made == UNION {called(x) : x \in Coded}
<1> DEFINE Shown(lines, n, c) ==
              \E s \in sightings :
                 /\ s.asset.kind = "algorithm"
                 /\ s.asset.algorithm = c.algorithm /\ s.asset.key_size = c.size
                 /\ HasPurpose(s.asset, {c.purpose})
                 /\ InEcb(lines, n, c) => s.id \in Reported("weak-cipher-mode")
<1> SUFFICES ASSUME DiskIInv, ~failed, IdsTellApart, place.type = "code",
                    NEW lines \in Texts, NEW n \in Live(lines), NEW at0 \in DOMAIN lines[n].calls
             PROVE  Shown(lines, n, lines[n].calls[at0])
  BY DEF CallsAreSurfaced
<1>0. PICK x \in Coded : lines = files[x].lines
  BY DEF Texts, Seen
<1> DEFINE c == lines[n].calls[at0]
<1> HIDE DEF Shown
<1>1. \A y \in Coded : IsCode(files[y].lines)
  <2> TAKE y \in Coded
  <2>1. y \in DOMAIN files /\ files[y].form = "PEM"
    BY DEF Opened
  <2>2. IsFile(files[y])
    BY <2>1, ContentsAre
  <2>3. IsText(files[y])
    BY <2>1, <2>2 DEF IsFile
  <2> QED BY <2>3 DEF IsText, IsCode, IsCall
<1>2. IsCode(lines) /\ IsCall(c)
  BY <1>0, <1>1 DEF IsCode, Live
<1>3. \A d \in made : d.purpose \in CallPurposes
  <2> TAKE d \in made
  <2>1. PICK y \in Coded : d \in called(y)
    <3> HIDE DEF called, Coded
    <3> QED OBVIOUS
  <2>2. PICK h \in Hits(files[y].lines) : d = h.call
    BY <2>1
  <2>3. IsCode(files[y].lines)
    BY <1>1
  <2>4. h.call.purpose \in CallPurposes
    <3> HIDE DEF Coded
    <3> QED BY <2>3, HitsHavePurposes
  <2> QED BY <2>2, <2>4
<1>4. Group(made) \subseteq sightings
  <2>1. sightings = Found(place, files, scanned.passwords)
    BY DEF DiskIInv
  <2>2. sightings = ScanCode(place, files, scanned.passwords)
    BY <2>1 DEF Found
  <2>3. Group(made) \subseteq ScanCode(place, files, scanned.passwords)
    BY DEF ScanCode
  <2> QED BY <2>2, <2>3
<1>5. PICK k \in DOMAIN lines[n].calls :
         /\ lines[n].calls[k] = c
         /\ InEcb(lines, n, c) => ModeOf(lines, [line |-> n, at |-> k, call |-> c]) = "ECB"
  <2>1. CASE InEcb(lines, n, c)
    <3>1. n \in Live(lines) /\ at0 \in DOMAIN lines[n].calls /\ c = lines[n].calls[at0]
      OBVIOUS
    <3> HIDE DEF c
    <3> QED BY <1>2, <2>1, <3>1, EcbIsSet
  <2>2. CASE ~InEcb(lines, n, c)
    BY <2>2
  <2> QED BY <2>1, <2>2
<1> DEFINE h == [line |-> n, at |-> k, call |-> lines[n].calls[k]]
<1>6. h.call = c /\ h = [line |-> n, at |-> k, call |-> c]
  BY <1>5
<1>7. PICK g \in Hits(lines) :
         /\ g.call.algorithm = h.call.algorithm /\ g.call.size = h.call.size
         /\ g.call.purpose = h.call.purpose /\ g.call.mode = ModeOf(lines, h)
  <2>1. n \in Live(lines) /\ IsCall(lines[n].calls[k])
    BY <1>2, <1>5
  <2>2. h = [line |-> n, at |-> k, call |-> lines[n].calls[k]]
    OBVIOUS
  <2> HIDE DEF c, h
  <2> QED BY <2>1, <2>2, HitsAre
<1>8. g.call \in made
  <2>1. g.call \in called(x)
    BY <1>0
  <2> HIDE DEF called
  <2> QED BY <2>1
<1>9. PICK s \in Group(made) :
         /\ s.asset.kind = "algorithm" /\ s.asset.key_type = "algorithm"
         /\ s.asset.algorithm = g.call.algorithm /\ s.asset.key_size = g.call.size
         /\ HasPurpose(s.asset, {g.call.purpose})
         /\ g.call.mode = "ECB" => "ECB" \in s.asset.marks
  <2> HIDE DEF made
  <2> QED BY <1>3, <1>8, CallsAreGrouped
<1>10. s \in sightings
  BY <1>4
<1>11. InEcb(lines, n, c) => s.id \in Reported("weak-cipher-mode")
  <2> SUFFICES ASSUME InEcb(lines, n, c)
               PROVE  s.id \in Reported("weak-cipher-mode")
    OBVIOUS
  <2>1. ModeOf(lines, h) = "ECB"
    <3> HIDE DEF h, c
    <3> QED BY <1>5, <1>6
  <2>2. "ECB" \in s.asset.marks
    <3> HIDE DEF h, made
    <3> QED BY <1>7, <1>9, <2>1
  <2> HIDE DEF made
  <2>3. "weak-cipher-mode" \in Noted(s.asset)
    BY <1>9, <2>2, NotedRules
  <2> QED BY <1>9, <1>10, <2>3, NotedIsReported
<1> HIDE DEF h, c, made
<1>12. /\ s.asset.kind = "algorithm"
       /\ s.asset.algorithm = c.algorithm /\ s.asset.key_size = c.size
       /\ HasPurpose(s.asset, {c.purpose})
  BY <1>6, <1>7, <1>9
<1>13. Shown(lines, n, c)
  BY <1>10, <1>11, <1>12 DEF Shown
<1> QED BY <1>13 DEF c

\* A file whose exception nobody catches has something that raises it, and was read.
LEMMA RaisersAreUnhandled ==
    ASSUME NEW file, NEW name, NEW configured, ParseRaises(file, name, configured)
    PROVE  Unhandled(file) /\ file.form # "unreadable"
<1>1. \A part, opened : Escapes(part, opened) => part.reads \notin {"sound", "damaged"}
  BY DEF Escapes
<1>2. CASE file.form = "PEM"
  BY <1>1, <1>2 DEF ParseRaises, Unhandled
<1>3. CASE file.form = "SSH"
  BY <1>1, <1>3 DEF ParseRaises, Unhandled
<1>4. CASE file.form \in {"JKS", "JCEKS", "DER", "PKCS12"}
  BY <1>1, <1>4 DEF ParseRaises, Unhandled
<1>5. file.form \in {"PEM", "SSH", "JKS", "JCEKS", "DER", "PKCS12"}
  BY DEF ParseRaises
<1> QED BY <1>2, <1>3, <1>4, <1>5

\* The same of a file of source, of which only some blocks are parsed.
LEMMA CommittedRaisersAreUnhandled ==
    ASSUME NEW file, NEW name, NEW configured, HardcodedRaises(file, name, configured)
    PROVE  Unhandled(file)
<1>1. CASE Binary(file)
  BY <1>1, RaisersAreUnhandled DEF HardcodedRaises
<1>2. CASE ~Binary(file)
  <2>1. PICK b \in Committed(file) : ParseRaises(Alone(b), name, configured)
    BY <1>2 DEF HardcodedRaises
  <2>2. file.form = "PEM" /\ \E n \in DOMAIN file.blocks : b = file.blocks[n]
    BY <2>1 DEF Committed
  <2>3. Unhandled(Alone(b))
    BY <2>1, RaisersAreUnhandled
  <2>4. b.reads \notin {"sound", "damaged"}
    BY <2>3 DEF Unhandled, Alone
  <2> QED BY <2>2, <2>4 DEF Unhandled
<1> QED BY <1>1, <1>2

\* Where the source failed, one of the files that were read made it.
LEMMA FailuresAreExplained ==
    DiskIInv /\ failed => \E n \in Seen : Unhandled(scanned.disk[n])
<1> SUFFICES ASSUME DiskIInv, failed
             PROVE  \E n \in Seen : Unhandled(scanned.disk[n])
  OBVIOUS
<1>1. Raises(place, scanned.disk, scanned.passwords)
  BY DEF DiskIInv
<1>2. CASE place.type = "code"
  BY <1>1, <1>2, CommittedRaisersAreUnhandled DEF Raises, Seen
<1>3. CASE place.type # "code"
  <2>1. PICK n \in DOMAIN scanned.disk : ParseRaises(scanned.disk[n], n, scanned.passwords)
    BY <1>1, <1>3 DEF Raises
  <2>2. Unhandled(scanned.disk[n]) /\ scanned.disk[n].form # "unreadable"
    BY <2>1, RaisersAreUnhandled
  <2>3. place.excluded = {}
    BY <1>3, DiskAssumption DEF DiskIInv
  <2> QED BY <2>1, <2>2, <2>3 DEF Seen, Opened
<1> QED BY <1>2, <1>3

\* NothingIsPassedOver: either a file with something that the parsers do not handle
\* ended the source, or every private or secret key that a file can be seen to hold is
\* in the inventory, opened or not, and so is every call, with the findings that
\* the default policy has on them; whatever the passwords that are configured and the
\* order of edits and scans.
THEOREM KeysAndCallsSurfaced ==
    ASSUME OneToALine, NamedOnce
    PROVE  DiskSpec => []NothingIsPassedOver
<1>1. DiskIInv => NothingIsPassedOver
  BY IdsAreApart, FailuresAreExplained, KeysAreSurfaced, CallsAreCovered DEF NothingIsPassedOver
<1> QED BY <1>1, DiskInvariance, PTL
=============================================================================
