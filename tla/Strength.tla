-------------------------------- MODULE Strength --------------------------------
(***************************************************************************)
(* How strong an algorithm is, and whether it outlives a quantum computer   *)
(* (keycensus/analysis/strength.py).  Pure: no state.                       *)
(*                                                                          *)
(* Where the code has None, an integer is Unset and a name is "none".  An   *)
(* asset is a record with (at least) the fields kind, algorithm, key_size,  *)
(* curve and key_exchange.  Of the names of curves and key exchange groups  *)
(* one of each class is kept, of the notes none.                            *)
(***************************************************************************)
EXTENDS Integers

Unset == -1

LegacyCiphers == {"Blowfish", "RC2", "IDEA", "CAST5"}

BrokenHashes == {"MD2", "MD4", "MD5", "SHA-1"}

\* The digests _HASH matches and the bits it reads from their names.
HashBits == [h \in {"SHA-224", "SHA-256", "SHA-384", "SHA-512"} |->
                CASE h = "SHA-224" -> 224 [] h = "SHA-256" -> 256
                  [] h = "SHA-384" -> 384 [] h = "SHA-512" -> 512]

FiniteFieldAlgorithms == {"RSA", "DSA", "DH"}

CurveAlgorithms == {"EC", "Ed25519", "Ed448", "X25519"}

PQC == {"ML-KEM", "ML-DSA", "SLH-DSA"}

\* NIST SP 800-57 Part 1, table 2, as pairs of a key size and its strength.
FiniteFieldTable ==
    {<<1024, 80>>, <<2048, 112>>, <<3072, 128>>, <<7680, 192>>, <<15360, 256>>}

CurveTable == {<<160, 80>>, <<224, 112>>, <<256, 128>>, <<384, 192>>, <<512, 256>>}

CurveBits == [c \in {"P-192", "P-224", "P-256", "P-384", "P-521", "Ed25519", "Ed448"} |->
                CASE c = "P-192" -> 192 [] c = "P-224" -> 224
                  [] c = "P-384" -> 384 [] c = "P-521" -> 521
                  [] c = "Ed448" -> 448 [] OTHER -> 256]

\* The strength of the largest entry that is not above bits; the tables grow.
TableLookup(bits, table) ==
    LET reached == {0} \union {row[2] : row \in {r \in table : r[1] <= bits}}
    IN  CHOOSE s \in reached : \A t \in reached : t <= s

\* The key size, or that of the curve when there is none (or it is zero).
SizeOf(a) ==
    IF a.curve = "none" \/ a.key_size > 0 THEN a.key_size
    ELSE IF a.curve \in DOMAIN CurveBits THEN CurveBits[a.curve] ELSE Unset

PureKex == {"mlkem768"}
HybridKex == {"x25519mlkem768", "x25519kyber768draft00"}

\* Whatever is not known to be post-quantum is classical.
KeyExchangeClass(name) ==
    IF name = "none" THEN "unknown"
    ELSE IF name \in PureKex THEN "quantum-safe"
    ELSE IF name \in HybridKex THEN "hybrid"
    ELSE "quantum-vulnerable"

Judged(bits, class, level) == [bits |-> bits, class |-> class, level |-> level]

Pick(table, key) == IF key \in DOMAIN table THEN table[key] ELSE Unset

\* The level of each parameter set, by the number in its name.
PqcLevel == [n \in {44, 65, 87, 512, 768, 1024} |->
                CASE n = 512 -> 1 [] n = 44 -> 2 [] n \in {65, 768} -> 3 [] OTHER -> 5]

HashLevel == [n \in {224, 256, 384, 512} |->
                CASE n = 224 -> 1 [] n = 256 -> 2 [] n = 384 -> 4 [] n = 512 -> 5]

\* Classical bits (Unset if they cannot be told), quantum class, NIST level.
Assess(a) ==
    LET alg  == a.algorithm
        size == SizeOf(a)
        looked(table) == IF size <= 0 THEN Unset ELSE TableLookup(size, table)
    IN  IF a.kind = "protocol"
        THEN Judged(Unset, KeyExchangeClass(a.key_exchange), Unset)
        ELSE CASE alg \in FiniteFieldAlgorithms ->
                    Judged(looked(FiniteFieldTable), "quantum-vulnerable", 0)
               [] alg \in CurveAlgorithms ->
                    Judged(looked(CurveTable), "quantum-vulnerable", 0)
               [] alg \in PQC -> Judged(Unset, "quantum-safe", Pick(PqcLevel, size))
               [] alg = "AES" -> CASE size = 256 -> Judged(256, "quantum-safe", 5)
                                   [] size = 192 -> Judged(192, "quantum-reduced", 3)
                                   [] size = 128 -> Judged(128, "quantum-reduced", 1)
                                   [] OTHER -> Judged(size, "unknown", Unset)
               [] alg = "ChaCha20" -> Judged(256, "quantum-safe", 5)
               [] alg = "HMAC" ->
                    IF size >= 256
                    THEN Judged(size, "quantum-safe", IF size >= 384 THEN 5 ELSE 2)
                    ELSE Judged(size, "quantum-reduced", 1)
               [] alg = "3DES" ->
                    Judged(IF size >= 168 \/ size <= 0 THEN 112 ELSE 80, "quantum-vulnerable", 0)
               [] alg = "DES" -> Judged(56, "quantum-vulnerable", 0)
               [] alg = "RC4" -> Judged(0, "quantum-vulnerable", 0)
               [] alg \in LegacyCiphers -> Judged(Unset, "quantum-vulnerable", 0)
               [] alg \in BrokenHashes -> Judged(0, "unknown", Unset)
               [] alg \in DOMAIN HashBits ->
                    Judged(HashBits[alg] \div 2, "quantum-safe", Pick(HashLevel, HashBits[alg]))
               [] OTHER -> Judged(Unset, "unknown", Unset)

\* PCI DSS v4.0, "strong cryptography"; 0 where the code sets no minimum.
MinimumSize(alg) ==
    CASE alg \in FiniteFieldAlgorithms -> 2048
      [] alg = "EC" -> 224
      [] alg \in {"AES", "HMAC"} -> 128
      [] OTHER -> 0

IsWeakKeySize(a) == SizeOf(a) # Unset /\ SizeOf(a) < MinimumSize(a.algorithm)
=============================================================================
