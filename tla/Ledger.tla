--------------------------------- MODULE Ledger ---------------------------------
(***************************************************************************)
(* What keycensus promises about its knowledge of the estate: "A scan that  *)
(* could not look never makes a key disappear" (keycensus/scanner.py).      *)
(*                                                                          *)
(* A ledger holds, for each asset, what the last look at it told and when.  *)
(* A scan says which assets it is responsible for (watched) and which of    *)
(* them it examined; publishing it rewrites the lines of the examined       *)
(* assets and of no other.  The lines of assets that no configured source   *)
(* holds any more are struck out.  Nothing here knows of sources, scopes,   *)
(* gaps, baselines or of the order in which collectors answer.              *)
(***************************************************************************)
EXTENDS Naturals

CONSTANTS Assets, Facts, Unknown

VARIABLES
    known,     \* what the ledger says of each asset: Unknown or a dated fact
    now,       \* the number of scans published
    watched,   \* the assets the scan under way is responsible for
    examined   \* those of them it has looked for

ledgerVars == <<known, now, watched, examined>>

Line == [fact: Facts, at: Nat] \union {Unknown}

Init ==
    /\ known = [a \in Assets |-> Unknown]
    /\ now = 0
    /\ watched = {}
    /\ examined = {}

Begin ==
    /\ watched' \in SUBSET Assets
    /\ examined' = {}
    /\ UNCHANGED <<known, now>>

Examine ==
    /\ examined' \in SUBSET watched
    /\ examined \subseteq examined'
    /\ UNCHANGED <<known, now, watched>>

\* The line of a in the next edition of the ledger.
NextLine(a, line) ==
    IF a \notin watched THEN line = Unknown
    ELSE IF a \in examined THEN line \in [fact: Facts, at: {now + 1}] \union {Unknown}
    ELSE line = known[a]

Publish ==
    /\ now' = now + 1
    /\ known' \in [Assets -> Line]
    /\ \A a \in Assets : NextLine(a, known'[a])
    /\ watched' = {}
    /\ examined' = {}

Next == Begin \/ Examine \/ Publish

Spec == Init /\ [][Next]_ledgerVars
=============================================================================
