--------------------------------- MODULE Policy ---------------------------------
(***************************************************************************)
(* The policy and its rules (keycensus/analysis/policy.py and the numbers   *)
(* of data/default-policy.yml).  Pure: no state.                            *)
(*                                                                          *)
(* A three-valued flag of an asset is "yes", "no" or "none".  What rules    *)
(* read in extra is a set of marks.  Dates are days; an asset's id is where *)
(* it stands in the inventory.  Of a finding's texts nothing is kept.       *)
(***************************************************************************)
EXTENDS Strength, Sequences, TLC

Flags == {"yes", "no", "none"}

\* The defaults of the dataclass.
Blank ==
    [kind |-> "key", source |-> "s", name |-> "n", algorithm |-> "unknown",
     key_size |-> Unset, curve |-> "none", key_type |-> "key", purposes |-> <<>>,
     created |-> Unset, last_rotated |-> Unset, expires |-> Unset,
     state |-> "unknown", rotation_enabled |-> "none", exportable |-> "none",
     hardware_backed |-> "none", fips_validated |-> "none", location |-> "l",
     signature_hash |-> "none", self_signed |-> FALSE, fingerprint |-> "none",
     protocol |-> "none", protocol_version |-> "none", cipher_suites |-> {},
     weak_versions_accepted |-> {}, key_exchange |-> "none", tag |-> "none",
     used_by |-> {}, applications |-> {}, observed |-> TRUE,
     marks |-> {}, templates |-> {}, ssh_fingerprint |-> "none"]

Get(record, key, default) ==
    IF key \in DOMAIN record THEN record[key] ELSE default

-----------------------------------------------------------------------------
(* The policy: one record per block of the YAML, any field of it may be     *)
(* missing.                                                                 *)

Severities == {"critical", "high", "medium", "low", "info"}

SeverityRank == [s \in Severities |->
    CASE s = "critical" -> 0 [] s = "high" -> 1 [] s = "medium" -> 2
      [] s = "low" -> 3 [] s = "info" -> 4]

\* The shipped policy, by severity.
RulesGraded ==
    [critical |-> {"cert-expired", "hardcoded-private-key"},
     high |-> {"weak-algorithm", "weak-key-size", "deprecated-signature-hash",
               "cert-expiring-critical", "tls-weak-protocol", "tls-weak-cipher",
               "ssh-weak-algorithm", "weak-cipher-mode", "ct-unexpected-issuer"},
     medium |-> {"rotation-overdue", "cert-expiring-soon", "key-exportable",
                 "quantum-vulnerable-encryption", "quantum-vulnerable-key-exchange",
                 "adcs-template-weak-key-size", "weak-hash",
                 "keystore-weak-protection", "ldap-cleartext"},
     low |-> {"rotation-disabled", "key-software-backed", "quantum-vulnerable",
              "tls-no-forward-secrecy", "key-reuse-on-renewal"},
     info |-> {"no-creation-date", "cert-self-signed", "cert-long-validity",
               "key-not-active", "quantum-reduced", "hybrid-key-exchange",
               "unknown-algorithm", "unlinked-asset"}]

RuleIds == UNION {RulesGraded[s] : s \in Severities}

DefaultSeverity == [r \in RuleIds |-> CHOOSE s \in Severities : r \in RulesGraded[s]]

DefaultPolicy ==
    [rules |-> [r \in RuleIds |-> [enabled |-> TRUE, severity |-> DefaultSeverity[r]]],
     cryptoperiod_days |->
        [default |-> 365,
         by_algorithm |-> [g \in {"AES", "ChaCha20", "HMAC", "RSA", "EC", "Ed25519"} |->
                              IF g \in {"AES", "ChaCha20", "HMAC"} THEN 365 ELSE 730],
         by_purpose |-> [wrap |-> 1095, sign |-> 730]],
     certificate |-> [soon |-> 30, critical |-> 7, validity |-> 398]]

\* _deep_merge: a rule takes over the keys the override lists and keeps the
\* others; the two other blocks are replaced as a whole.
DeepMerge(base, override) ==
    LET rules == Get(override, "rules", <<>>) IN
    [override @@ base EXCEPT !.rules =
        [r \in DOMAIN rules \union DOMAIN base.rules |->
            Get(rules, r, <<>>) @@ Get(base.rules, r, <<>>)]]

Enabled(p, r) == Get(Get(p.rules, r, <<>>), "enabled", TRUE)

\* The default that the call for each rule passes is what the shipped policy says.
SeverityOf(p, r) == Get(Get(p.rules, r, <<>>), "severity", DefaultSeverity[r])

\* The first purpose the policy names decides, then the algorithm.
CryptoperiodDays(p, a) ==
    LET cp == p.cryptoperiod_days
        byPurpose == Get(cp, "by_purpose", <<>>)
        named == {i \in DOMAIN a.purposes : a.purposes[i] \in DOMAIN byPurpose}
    IN  IF named # {}
        THEN byPurpose[a.purposes[CHOOSE i \in named : \A j \in named : i <= j]]
        ELSE Get(Get(cp, "by_algorithm", <<>>), a.algorithm, Get(cp, "default", 365))

-----------------------------------------------------------------------------
(* The rules.  Each says of an asset whether its finding is yielded.        *)

WeakAlgorithms == {"DES", "RC4", "3DES"} \union LegacyCiphers

HasPurpose(a, purposes) == \E i \in DOMAIN a.purposes : a.purposes[i] \in purposes

Hardcoded(a) == "hardcoded" \in a.marks

Material(a) == a.kind \in {"key", "certificate", "algorithm"}

InUse(a) == a.state \in {"active", "unknown"}

WeakKeySize(a) == Material(a) /\ IsWeakKeySize(a)

RotationOverdue(p, a, now) ==
    LET anchor == IF a.last_rotated # Unset THEN a.last_rotated ELSE a.created IN
    /\ a.kind = "key" /\ InUse(a)
    /\ anchor # Unset
    /\ now - anchor > CryptoperiodDays(p, a)

\* Of the three rules of rule_cert_expiry at most one is yielded.
ExpiryRule(p, a, now) ==
    LET left == a.expires - now IN
    IF a.kind # "certificate" \/ a.expires = Unset THEN {}
    ELSE IF left < 0 THEN {"cert-expired"}
    ELSE IF left < Get(p.certificate, "critical", 7) THEN {"cert-expiring-critical"}
    ELSE IF left < Get(p.certificate, "soon", 30) THEN {"cert-expiring-soon"}
    ELSE {}

LongValidity(p, a) ==
    /\ a.kind = "certificate"
    /\ a.created # Unset /\ a.expires # Unset
    /\ ~a.self_signed /\ "is_ca" \notin a.marks
    /\ a.expires - a.created > Get(p.certificate, "validity", 398)

\* rule_quantum: certificates only carry public keys, so nothing is encrypted
\* under them.
QuantumRule(a) ==
    LET class == Assess(a).class
        encrypts == /\ a.kind \in {"key", "algorithm"}
                    /\ HasPurpose(a, {"encrypt", "decrypt", "wrap", "unwrap", "derive"})
    IN  IF a.kind = "protocol" THEN {}
        ELSE IF class = "quantum-vulnerable" /\ a.algorithm \notin WeakAlgorithms
        THEN {IF encrypts THEN "quantum-vulnerable-encryption" ELSE "quantum-vulnerable"}
        ELSE IF class = "quantum-reduced" THEN {"quantum-reduced"} ELSE {}

KeyExchangeRule(a) ==
    CASE a.kind # "protocol" \/ a.key_exchange = "none" -> {}
      [] KeyExchangeClass(a.key_exchange) = "quantum-vulnerable" ->
            {"quantum-vulnerable-key-exchange"}
      [] KeyExchangeClass(a.key_exchange) = "hybrid" -> {"hybrid-key-exchange"}
      [] OTHER -> {}

\* A template is probed as if it were a key of its minimum size.
WeakTemplate(a) ==
    /\ a.kind = "certificate"
    /\ \E t \in a.templates :
          IsWeakKeySize([Blank EXCEPT !.algorithm = t.key_algorithm,
                                      !.key_size = t.min_key_size])

\* rule_tls; a cipher suite is "modern", or "weak" or "static" (without forward
\* secrecy), or both.
TlsRules(a) ==
    LET versions == a.weak_versions_accepted \union
                    ({a.protocol_version} \cap {"TLSv1.0", "TLSv1.1"})
    IN  IF a.kind # "protocol" \/ a.protocol \notin {"none", "TLS"} THEN {}
        ELSE (IF versions # {} THEN {"tls-weak-protocol"} ELSE {})
             \union
             (IF a.cipher_suites \cap {"weak", "weak-static"} # {} THEN {"tls-weak-cipher"} ELSE {})
             \union
             (IF a.cipher_suites # {} /\ a.cipher_suites \subseteq {"static", "weak-static"}
              THEN {"tls-no-forward-secrecy"} ELSE {})

\* The rules on the fields of an asset that are a single condition.
Breaks(a, r) ==
    CASE r = "weak-algorithm" -> Material(a) /\ a.algorithm \in WeakAlgorithms
      [] r = "weak-key-size" -> WeakKeySize(a)
      [] r = "deprecated-signature-hash" ->
            a.kind = "certificate" /\ a.signature_hash \in {"MD5", "SHA1", "SHA-1"}
      [] r = "rotation-disabled" ->
            a.kind = "key" /\ a.rotation_enabled = "no" /\ a.state = "active"
      [] r = "no-creation-date" ->
            /\ a.kind = "key" /\ ~Hardcoded(a)
            /\ a.created = Unset /\ a.last_rotated = Unset
      [] r = "cert-self-signed" ->
            a.kind = "certificate" /\ a.self_signed /\ "vault-pki" \notin a.marks
      [] r = "key-exportable" ->
            /\ a.kind = "key" /\ a.exportable = "yes"
            /\ a.key_type # "public-key" /\ ~Hardcoded(a)
      [] r = "key-software-backed" ->
            /\ a.kind = "key" /\ a.hardware_backed = "no"
            /\ a.key_type # "public-key" /\ ~Hardcoded(a)
            /\ HasPurpose(a, {"encrypt", "decrypt", "wrap", "unwrap", "sign"})
      [] r = "key-not-active" -> a.kind = "key" /\ ~InUse(a)
      [] r = "unknown-algorithm" -> a.kind # "protocol" /\ a.algorithm = "unknown"
      [] OTHER -> FALSE

\* The rules on what the collectors of files, code, directories and endpoints
\* note in extra.
Noted(a) ==
    {r \in RuleIds :
        CASE r = "ssh-weak-algorithm" ->
                a.kind = "protocol" /\ a.protocol = "SSH" /\ "weak_algorithms" \in a.marks
          [] r = "weak-hash" -> a.kind = "algorithm" /\ a.algorithm \in BrokenHashes
          [] r = "weak-cipher-mode" -> a.kind = "algorithm" /\ "ECB" \in a.marks
          [] r = "hardcoded-private-key" -> a.kind = "key" /\ Hardcoded(a)
          [] r = "keystore-weak-protection" ->
                a.kind = "key" /\ "keystore_weak_protection" \in a.marks
          [] r = "ct-unexpected-issuer" ->
                a.kind = "certificate" /\ "unexpected_issuer" \in a.marks
          [] r = "ldap-cleartext" ->
                a.kind = "protocol" /\ a.protocol = "LDAP" /\ "starttls_error" \in a.marks
          [] r = "key-reuse-on-renewal" ->
                a.kind = "certificate" /\ "rotation_policy_never" \in a.marks
          [] r = "adcs-template-weak-key-size" -> WeakTemplate(a)
          [] OTHER -> FALSE}

\* RULES, each applied to the asset.
Yielded(p, a, now) ==
    {r \in RuleIds : Breaks(a, r)} \union Noted(a)
    \union (IF RotationOverdue(p, a, now) THEN {"rotation-overdue"} ELSE {})
    \union (IF LongValidity(p, a) THEN {"cert-long-validity"} ELSE {})
    \union ExpiryRule(p, a, now) \union QuantumRule(a)
    \union KeyExchangeRule(a) \union TlsRules(a)

\* Public keys whose private half is in the same source: by name, or for the
\* key files of an SSH host or user by fingerprint.
PublicHalves(assets) ==
    {i \in DOMAIN assets :
        LET a == assets[i] IN
        /\ a.kind = "key" /\ a.key_type = "public-key"
        /\ \E j \in DOMAIN assets :
              LET b == assets[j] IN
              /\ b.key_type = "private-key" /\ b.source = a.source
              /\ \/ b.name = a.name
                 \/ /\ "own_ssh_key" \in a.marks
                    /\ b.ssh_fingerprint # "none"
                    /\ b.ssh_fingerprint = a.ssh_fingerprint}

\* evaluate(): the public half of a pair is not reported twice.
Evaluate(assets, p, now) ==
    UNION {{[rule |-> r, asset |-> i, severity |-> SeverityOf(p, r), verified |-> TRUE] :
               r \in {q \in Yielded(p, assets[i], now) : Enabled(p, q)}} :
           i \in DOMAIN assets \ PublicHalves(assets)}
=============================================================================
