------------------------------ MODULE MCCollectors ------------------------------
(* A wing with two rooms and one with one; the first room holds two items.  *)
EXTENDS Collectors, TLC

CONSTANTS w1, w2, r1, r2, r3, i1, i2, i3, i4

MCWingOf == (r1 :> w1) @@ (r2 :> w1) @@ (r3 :> w2)
MCRoomOf == (i1 :> r1) @@ (i2 :> r1) @@ (i3 :> r2) @@ (i4 :> r3)
MCRank == (i1 :> 2) @@ (i2 :> 1) @@ (i3 :> 4) @@ (i4 :> 3)
=============================================================================
