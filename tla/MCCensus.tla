-------------------------------- MODULE MCCensus --------------------------------
(***************************************************************************)
(* Small instances of Census.  A source with two scopes holds a key in one  *)
(* and a certificate in the other; a third asset names no scope, so that    *)
(* any gap of its source may hide it, and is in that source (OneHome) or in *)
(* one of its own (MCHome).                                                 *)
(***************************************************************************)
EXTENDS Census

CONSTANTS key, cert, bare, s1, s2, east, west, root

OneHome == [a \in Assets |-> s1]

MCHome == [a \in Assets |-> IF a = bare THEN s2 ELSE s1]

MCScopesOf == [a \in Assets |-> IF a = key THEN {east}
                                ELSE IF a = cert THEN {west} ELSE {}]

MCAreas == [s \in Sources |-> IF s = s1 THEN {east, west} ELSE {root}]

MCCertificates == Assets \cap {cert}

\* Expires in the third scan after being "expiring soon" in the first and
\* "critical" in the second.
MCExpires == [c \in MCCertificates |-> 2]
=============================================================================
