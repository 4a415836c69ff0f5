-------------------------------- MODULE Keyfiles --------------------------------
(***************************************************************************)
(* What is read out of a file, whatever container it is                     *)
(* (keycensus/collectors/keyfiles.py), and the passwords it is tried with.  *)
(* Pure: no state.                                                          *)
(*                                                                          *)
(* A file is a record: its form and what that form holds.  A key is a       *)
(* record [id, algorithm, size, curve], its id standing for fingerprint and *)
(* bytes alike; of the names of files one of each class the code tells      *)
(* apart is used.  An entry is the id it has within the file and its asset. *)
(* Entries are a set: the same certificate twice is one entry here, unless  *)
(* a keystore has it under two names.                                       *)
(*                                                                          *)
(* "reads" is what loading a part of a file, or a whole keystore, comes to: *)
(* "sound": it loads;                                                       *)
(* "damaged": it raises what the parsers catch;                             *)
(* "unhandled": it raises something else, such as UnsupportedAlgorithm for  *)
(* a key type, a curve or a cipher the library does not know, or the        *)
(* IndexError of a JCEKS keystore that ends within a sealed object;         *)
(* "unhandled-inside": it raises that once a password opens it.             *)
(***************************************************************************)
EXTENDS Policy

\* "no password" is one of them.
WellKnown == {"", "changeit"}

\* The passwords a file is tried with; at most one opens it.
Tried(configured) == configured \union WellKnown

Entry(sub, asset) == [sub |-> sub, asset |-> asset]

\* Entry.weak_protection, which the collectors copy into extra; of the reasons
\* it is enough to know whether there is one.
Weakly(asset, weak) ==
    IF weak THEN [asset EXCEPT !.marks = @ \union {"keystore_weak_protection"}] ELSE asset

\* _key_fields
KeyFields(key, type, name) ==
    [Blank EXCEPT !.name = name, !.algorithm = key.algorithm, !.key_size = key.size,
                  !.curve = key.curve, !.key_type = type,
                  !.purposes = IF type = "private-key" THEN <<"sign", "decrypt">>
                               ELSE <<"verify", "encrypt">>,
                  !.exportable = IF type = "private-key" THEN "yes" ELSE "none",
                  !.hardware_backed = "no"]

\* A private key of which nothing but its algorithm, if that, can be told.
Unopened(algorithm, name) ==
    [Blank EXCEPT !.name = name, !.algorithm = algorithm, !.key_type = "private-key",
                  !.purposes = <<"sign", "decrypt">>, !.exportable = "yes",
                  !.hardware_backed = "no", !.marks = {"unopened"}]

\* Nothing between the load and Collector.run catches what it raises.
Escapes(part, opened) ==
    part.reads = "unhandled" \/ (part.reads = "unhandled-inside" /\ opened)

\* A certificate is a record [id, key, purposes, alias], the last its name within
\* a PKCS#12 file.
CertFields(c) ==
    [Blank EXCEPT !.kind = "certificate", !.algorithm = c.key.algorithm,
                  !.key_size = c.key.size, !.curve = c.key.curve, !.fingerprint = c.id,
                  !.key_type = "public-key", !.purposes = c.purposes,
                  !.marks = {c.alias} \ {"none"}]

CertEntry(sub, c) == Entry(sub, CertFields(c))

\* Who holds the key of a certificate decrypts what is encrypted to it.
PurposesFromCert(c) ==
    IF HasPurpose(c, {"encrypt"}) THEN <<"decrypt">> \o c.purposes ELSE c.purposes

-----------------------------------------------------------------------------
(* OpenSSH                                                                  *)

\* The names under which a file of keys of others is looked for.
OfOthers == {"authorized_keys", "known_hosts"}

\* _ssh_key_fields; a FIDO key ("sk-") stays in its authenticator.
SshKeyFields(key, type, name) ==
    [KeyFields(key, type, name) EXCEPT
        !.purposes = IF type = "private-key" THEN <<"sign">> ELSE <<"verify">>,
        !.exportable = IF key.fido THEN "no" ELSE @,
        !.hardware_backed = IF key.fido THEN "yes" ELSE @,
        !.marks = IF name \in OfOthers THEN {} ELSE {"own_ssh_key"},
        !.ssh_fingerprint = key.id]

\* ssh_public_entries: a line that cannot be read is skipped, and so are empty
\* lines and comments.  A certificate is named by its fingerprint alone.
SshPublicEntries(file, name) ==
    {LET line == file.lines[n] IN
     IF line.certificate
     THEN Entry(<<"sshcert", line.key.id>>,
                [CertFields([id |-> line.key.id, key |-> line.key, purposes |-> <<"verify">>,
                             alias |-> "none"])
                    EXCEPT !.expires = line.expires])
     ELSE Entry(<<"ssh", line.key.id, n>>,
                [SshKeyFields(line.key, "public-key", name) EXCEPT !.name = line.comment]) :
     n \in {m \in DOMAIN file.lines : file.lines[m].reads = "sound"}}

-----------------------------------------------------------------------------
(* PEM and DER                                                              *)

\* The keys found are not told apart by where they are in the file.
EncryptedUnnumbered(block, i, name, configured) ==
    Entry(<<"key">>, Unopened(block.named, name))

\* An encrypted key that a password opens is read like any other; one that none
\* opens, or that is damaged, is reported as what its label names.
Encrypted(block, i, name, configured) ==
    IF block.reads = "sound" /\ block.password \in Tried(configured)
    THEN Entry(<<"key", i, block.key.id>>,
               Weakly(KeyFields(block.key, "private-key", name), block.password \in WellKnown))
    ELSE Entry(<<"key", i>>, Unopened(block.named, name))

\* _pem_block, of the i-th block.
PemBlock(block, i, name, configured) ==
    CASE block.label = "certificate" -> {CertEntry(<<block.cert.id>>, block.cert)}
      [] block.label = "openssh" ->
            {Entry(<<"sshkey", block.key.id>>, SshKeyFields(block.key, "private-key", name))}
      [] block.label = "encrypted" -> {Encrypted(block, i, name, configured)}
      [] block.label = "private" ->
            {Entry(<<"key", i, block.key.id>>, KeyFields(block.key, "private-key", name))}
      [] block.label = "public" ->
            {Entry(<<"pub", i, block.key.id>>, KeyFields(block.key, "public-key", name))}
      [] OTHER -> {}

\* A damaged block does not keep the others from being read.
PemEntries(file, name, configured) ==
    UNION {PemBlock(file.blocks[n], n - 1, name, configured) :
              n \in {m \in DOMAIN file.blocks :
                        file.blocks[m].reads = "sound" \/ file.blocks[m].label = "encrypted"}}

\* A certificate, an unencrypted private key or a public key, whichever loads.
DerEntries(file, name) ==
    CASE file.reads = "sound" /\ file.label = "certificate" ->
            {CertEntry(<<file.cert.id>>, file.cert)}
      [] file.reads = "sound" /\ file.label \in {"private", "public"} ->
            LET type == IF file.label = "private" THEN "private-key" ELSE "public-key"
            IN  {Entry(<<type, file.key.id>>, KeyFields(file.key, type, name))}
      [] OTHER -> {}

-----------------------------------------------------------------------------
(* Keystores                                                                *)

\* A locked PKCS#12 file is passed over.
Pkcs12Opened(file, name, configured) ==
    IF file.password \in Tried(configured)
    THEN {Entry(<<"key:", key.id>>, KeyFields(key, "private-key", name)) : key \in file.key}
    ELSE {}

\* A key with a certificate is for what the certificate allows, if that says anything.
Certified(fields, leaf) ==
    IF \A c \in leaf : c.purposes = <<>> THEN fields
    ELSE [fields EXCEPT !.purposes = PurposesFromCert(CHOOSE c \in leaf : TRUE)]

\* pkcs12_entries.  The protection is read without a password: legacy ciphers, a
\* SHA-1 or MD5 MAC, few iterations.  Where that fails it is no PKCS#12 file.
Pkcs12Entries(file, name, configured) ==
    IF file.reads = "damaged" THEN {}
    ELSE IF file.password \in Tried(configured)
    THEN {Entry(<<"key:", key.id>>,
                Weakly(Certified(KeyFields(key, "private-key", name), file.leaf),
                       file.legacy \/ file.password \in WellKnown)) : key \in file.key}
         \union {CertEntry(<<"cert", c.id>>, c) : c \in file.leaf \union file.others}
    ELSE {Entry(<<"locked">>, Weakly(Unopened("unknown", name), file.legacy))}

\* A private key of a Java keystore, whose algorithm the chain tells.
JavaKey(e, named) ==
    IF e.chain = <<>> THEN Unopened("unknown", named)
    ELSE [Certified(KeyFields(e.chain[1].key, "private-key", named), {e.chain[1]})
            EXCEPT !.created = e.created]

\* A secret key, of which nothing but the way it was sealed is known.
JavaSecret(e, named) ==
    [Unopened("unknown", named) EXCEPT
        !.key_type = "secret-key", !.purposes = <<"encrypt", "decrypt">>, !.created = e.created]

\* One entry of a Java keystore: its key with the chain; a trusted certificate;
\* or a secret key, which JCEKS alone can hold.  No two have one alias.
JavaEntry(e, name) ==
    LET named == name \o ":" \o e.alias IN
    CASE e.tag = "key" ->
            {Entry(<<e.alias, "key">>, Weakly(JavaKey(e, named), TRUE))}
            \union {CertEntry(<<e.alias, n, e.chain[n].id>>, e.chain[n]) : n \in DOMAIN e.chain}
      [] e.tag = "trusted" -> {CertEntry(<<e.alias, "trusted", e.cert.id>>, e.cert)}
      [] e.tag = "secret" ->
            {Entry(<<e.alias, "secret">>, Weakly(JavaSecret(e, named), TRUE))}

\* jks_entries: all of them, without a password, or none: a keystore that is
\* truncated, or holds an entry of another kind, raises KeyfileError.  Both formats
\* are weak as such.
JavaEntries(file, name) ==
    IF file.reads # "sound"
       \/ (file.form = "JKS" /\ \E n \in DOMAIN file.entries : file.entries[n].tag = "secret")
    THEN {}
    ELSE UNION {JavaEntry(file.entries[n], name) : n \in DOMAIN file.entries}

-----------------------------------------------------------------------------

\* Without a telling name public SSH keys are recognized by the first line only.
ListsSsh(file, name) == name \in OfOthers \union {"id_rsa.pub"} \/ file.leads

\* parse().  KeyfileError is no entry: that is what the collectors make of it.
Parse(file, name, configured) ==
    CASE file.form \in {"JKS", "JCEKS"} -> JavaEntries(file, name)
      [] file.form = "PEM" -> PemEntries(file, name, configured)
      [] file.form = "SSH" ->
            IF ListsSsh(file, name) THEN SshPublicEntries(file, name) ELSE {}
      [] file.form = "PKCS12" -> Pkcs12Entries(file, name, configured)
      [] file.form = "DER" -> DerEntries(file, name)
      [] OTHER -> {}

\* What blocks are loaded by; one of another label is passed over.
Labels == {"certificate", "openssh", "encrypted", "private", "public"}

\* parse() raises what neither it nor the collectors catch.
ParseRaises(file, name, configured) ==
    CASE file.form \in {"JKS", "JCEKS", "DER"} -> Escapes(file, FALSE)
      [] file.form = "PEM" ->
            \E n \in DOMAIN file.blocks :
                LET b == file.blocks[n] IN
                b.label \in Labels /\ Escapes(b, b.password \in Tried(configured))
      [] file.form = "SSH" ->
            ListsSsh(file, name) /\ \E n \in DOMAIN file.lines : Escapes(file.lines[n], FALSE)
      [] file.form = "PKCS12" -> Escapes(file, file.password \in Tried(configured))
      [] OTHER -> FALSE
=============================================================================
