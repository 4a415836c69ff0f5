-------------------------------- MODULE MCEstate --------------------------------
(* Estate for TLC: six small organisations, each with its own kind of asset. *)
EXTENDS Estate

MCToday == 2000

None == <<>>     \* an override of nothing

\* A key, and every material and attribute of it that some judgement reads.
Key == [Blank EXCEPT !.algorithm = "RSA", !.key_size = 4096, !.state = "active",
                     !.key_type = "private-key", !.created = 1500,
                     !.purposes = <<"encrypt", "sign">>, !.exportable = "no",
                     !.hardware_backed = "yes", !.fips_validated = "yes",
                     !.rotation_enabled = "yes"]

Of(a, algorithm, size, curve) ==
    [a EXCEPT !.algorithm = algorithm, !.key_size = size, !.curve = curve]

Materials(a) ==
    {Of(a, m[1], m[2], m[3]) :
        m \in {<<"RSA", 3072, "none">>, <<"RSA", 2048, "none">>, <<"RSA", 1024, "none">>,
               <<"EC", 256, "P-256">>, <<"EC", Unset, "P-384">>, <<"EC", Unset, "P-192">>,
               <<"AES", 256, "none">>, <<"AES", 128, "none">>, <<"AES", 64, "none">>,
               <<"3DES", 168, "none">>, <<"RC4", 128, "none">>, <<"Blowfish", 128, "none">>,
               <<"HMAC", 256, "none">>, <<"ChaCha20", 256, "none">>,
               <<"ML-DSA", 65, "none">>, <<"unknown", Unset, "none">>}}

Attributes(a) ==
    {[a EXCEPT !.exportable = x, !.hardware_backed = h] : x, h \in Flags}
    \union {[a EXCEPT !.rotation_enabled = x, !.fips_validated = h] : x, h \in Flags}
    \union {[a EXCEPT !.state = x] : x \in {"compromised", "destroyed", "suspended", "unknown"}}
    \union {[a EXCEPT !.last_rotated = 1900], [a EXCEPT !.created = Unset],
            [a EXCEPT !.purposes = <<"wrap">>, !.name = "m"],
            [a EXCEPT !.marks = {"hardcoded", "keystore_weak_protection"}]}

Keys == [shapes |-> [key |-> Materials(Key) \union Attributes(Key)],
         policies |-> {None, [rules |-> ("weak-hash" :> [severity |-> "low"]),
                              cryptoperiod_days |-> [default |-> 90]]},
         blocks |-> {<<>>}]

\* A pair in one source, the public half with or without its own name.
Public == [Key EXCEPT !.key_type = "public-key"]

Pairs == [shapes |-> [key |-> {Key, Of(Key, "RSA", 1024, "none")},
                      pub |-> {Public, Of(Public, "RSA", 1024, "none"),
                               [Public EXCEPT !.name = "m", !.marks = {"own_ssh_key"}],
                               Of([Public EXCEPT !.name = "m"], "RSA", 1024, "none")}],
          policies |-> {None, [rules |-> ("rotation-disabled" :> [enabled |-> FALSE])]},
          blocks |-> {<<>>}]

Cert == [Blank EXCEPT !.kind = "certificate", !.algorithm = "RSA", !.key_size = 2048,
                      !.created = 1800, !.expires = 2100, !.signature_hash = "SHA256",
                      !.fingerprint = "f"]

Certs ==
    [shapes |-> [cert |->
        {Cert, Of(Cert, "EC", Unset, "P-192"), Of(Cert, "RSA", 1024, "none"),
         [Cert EXCEPT !.signature_hash = "SHA1", !.fingerprint = "g"],
         [Cert EXCEPT !.self_signed = TRUE, !.marks = {"unexpected_issuer"}],
         [Cert EXCEPT !.templates = {[key_algorithm |-> "RSA", min_key_size |-> 1024]},
                      !.marks = {"is_ca", "rotation_policy_never"}]}
        \union {[Cert EXCEPT !.expires = d, !.fingerprint = "g"] :
                   d \in {Unset, 1999, 2003, 2020, 2500}}],
     policies |-> {None, [certificate |-> [soon |-> 60]]}, blocks |-> {<<>>}]

Endpoint == [Blank EXCEPT !.kind = "protocol", !.protocol = "TLS",
                          !.protocol_version = "TLSv1.3", !.cipher_suites = {"modern"}]

Endpoints ==
    [shapes |->
        [tls |-> {[Endpoint EXCEPT !.key_exchange = k, !.weak_versions_accepted = v] :
                     k \in {"none", "x25519", "x25519mlkem768", "mlkem768"},
                     v \in {{}, {"TLSv1.1"}}}
                 \union {[Endpoint EXCEPT !.protocol_version = "TLSv1.0",
                                          !.cipher_suites = {"weak-static"}]},
         ssh |-> {[Endpoint EXCEPT !.protocol = "SSH", !.marks = m] :
                     m \in {{}, {"weak_algorithms"}}}
                 \union {[Endpoint EXCEPT !.protocol = "LDAP", !.marks = {"starttls_error"}]}],
     policies |-> {None}, blocks |-> {<<>>}]

Call == [Blank EXCEPT !.kind = "algorithm", !.purposes = <<"encrypt">>]

Code == [shapes |-> [call |->
            {Of(Call, "MD5", Unset, "none"), Of(Call, "SHA-256", Unset, "none"),
             Of(Call, "DES", 56, "none"), Of(Call, "AES", 128, "none"),
             [Of(Call, "AES", 256, "none") EXCEPT !.marks = {"ECB"}]}],
         policies |-> {None}, blocks |-> {<<>>}]

-----------------------------------------------------------------------------
(* Applications: named, named by an SBOM of either format, claiming by      *)
(* selector or by their name among the consumers; and blocks that are in    *)
(* error.                                                                   *)

MCWordsOf == [w \in {"payments", "ledger", "role/payments", "role/repayments",
                    "role/batch/ledger"} |->
                CASE w = "role/payments" -> {"role", "payments"}
                  [] w = "role/repayments" -> {"role", "repayments"}
                  [] w = "role/batch/ledger" -> {"role", "batch", "ledger"}
                  [] OTHER -> {w}]

MCMentions == {<<"payments", "role/payments">>, <<"payments", "role/repayments">>,
               <<"ledger", "role/batch/ledger">>}

Spdx == [readable |-> TRUE, names |-> <<"none", "payments", "lib">>]
CycloneDx == [readable |-> TRUE, names |-> <<"none", "payments">>]

Payments == [name |-> "payments", uses |-> {[kind |-> "key", name |-> "m"]}]
Ledger == [name |-> "ledger", uses |-> {[tag |-> "ledger"], <<>>}]

Linked ==
    [shapes |-> [k1 |-> {[Key EXCEPT !.used_by = {"role/payments"}],
                         [Key EXCEPT !.name = "m", !.tag = "ledger"]},
                 k2 |-> {Public, [Key EXCEPT !.used_by = {"role/batch/ledger", "role/repayments"}]}],
     policies |-> {None, [rules |-> ("unlinked-asset" :> [enabled |-> FALSE])]},
     blocks |-> {<<>>, <<Payments, Ledger>>, <<Ledger, [sbom |-> Spdx]>>,
                 <<Payments, [sbom |-> CycloneDx]>>,
                 <<[name |-> "ledger", uses |-> {[principal |-> "*"]}]>>}]

MCSites == {Keys, Pairs, Certs, Endpoints, Code, Linked}

\* What the theorems about pages assume holds of these; StrengthIsGraded does
\* because no policy names a rule on strength.
ASSUME
    /\ NothingDemoted /\ NothingPromoted /\ MaterialsAreOrdinary
    /\ \A s \in Sites : \A o \in s.policies :
          DOMAIN Get(o, "rules", None) \cap StrengthRules = {}
=============================================================================
