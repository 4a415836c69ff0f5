---------------------------------- MODULE Disk ----------------------------------
(***************************************************************************)
(* A directory whose files are edited, read again and again by a `files` or *)
(* by a `code` source (keycensus/collectors/pem_files.py, code.py) with the *)
(* keystore passwords that are configured at the time.                      *)
(*                                                                          *)
(* That a path may be missing and a call may fail is in Collectors; here    *)
(* the directory is there, a file can be read or not, and what is in it can *)
(* be sound, damaged, or such that the exception ends the whole source.     *)
(***************************************************************************)
EXTENDS SourceCode

CONSTANTS
    Places,         \* the places a source may read: its type, what each file there may
                    \* hold, and the files that the source is told to exclude
    Passwords,      \* the sets of passwords that may be configured
    Today           \* the day the findings are evaluated at

\* Stands for the key of an entry that no password opens, or that nothing says the
\* algorithm of.
NoKey == [id |-> "none", algorithm |-> "unknown", size |-> Unset, curve |-> "none",
          fido |-> FALSE]

\* The id of a key or of a certificate is that of no other: it is made of all its bytes.
Identified(things) == \A a, b \in things : a.id = b.id => a = b

\* Blocks are numbered, lines too, and calls are what the handlers return.
IsText(file) ==
    /\ DOMAIN file.blocks \union DOMAIN file.lines \subseteq Nat
    /\ Identified({file.blocks[i].key : i \in DOMAIN file.blocks})
    /\ Identified({file.blocks[i].cert : i \in DOMAIN file.blocks})
    /\ \A i \in DOMAIN file.blocks :
          /\ file.blocks[i].key # NoKey
          /\ file.blocks[i].reads = "unhandled-inside" => file.blocks[i].label = "encrypted"
    /\ \A n \in DOMAIN file.lines :
          /\ Len(file.lines[n].calls) \in Nat
          /\ DOMAIN file.lines[n].calls = 1..Len(file.lines[n].calls)
          /\ \A k \in DOMAIN file.lines[n].calls :
                /\ DOMAIN file.lines[n].calls[k] =
                      {"algorithm", "size", "curve", "mode", "purpose", "padding"}
                /\ file.lines[n].calls[k].purpose \in CallPurposes

\* A certificate of OpenSSH has an id of its own too, for which that of its key stands.
IsKeyList(file) ==
    \A i, j \in DOMAIN file.lines :
        LET a == file.lines[i] b == file.lines[j] IN
        a.certificate /\ b.certificate /\ a.key.id = b.key.id =>
            a.key = b.key /\ a.expires = b.expires

IsPkcs12(file) ==
    /\ Identified(file.key) /\ NoKey \notin file.key
    /\ \A a, b \in file.leaf \union file.others :
          a.id = b.id => a.key = b.key /\ a.purposes = b.purposes

\* No two entries have one alias, and a secret key is in a JCEKS keystore only.
IsJavaStore(file) ==
    /\ \A i, j \in DOMAIN file.entries : file.entries[i].alias = file.entries[j].alias => i = j
    /\ \A i \in DOMAIN file.entries :
          LET e == file.entries[i] IN
          /\ e.tag \in {"key", "trusted", "secret"}
          /\ e.tag = "secret" => file.form = "JCEKS"
          /\ e.tag = "key" /\ e.chain # <<>> => e.chain[1].key # NoKey

\* The forms of files, each with what it holds.
IsFile(file) ==
    \/ file.form = "PEM" /\ IsText(file)
    \/ file.form = "SSH" /\ IsKeyList(file)
    \/ file.form = "PKCS12" /\ IsPkcs12(file)
    \/ file.form \in {"JKS", "JCEKS"} /\ IsJavaStore(file)
    \/ file.form = "DER" /\ file.key # NoKey

ASSUME DiskAssumption ==
    /\ \A p \in Places : p.type \in {"files", "code"} /\ p.excluded \subseteq DOMAIN p.files
    /\ \A p \in Places : p.type = "files" => p.excluded = {}
    /\ \A p \in Places : \A n \in DOMAIN p.files : \A file \in p.files[n] : IsFile(file)
    /\ Passwords # {}
    /\ Today \in Nat

VARIABLES
    place,       \* the place that is read
    disk,        \* the files, by name
    passwords,   \* keystore_passwords
    scanned,     \* the files and passwords of the last scan
    failed,      \* its source ended in an exception
    sightings    \* its assets and their ids

diskVars == <<place, disk, passwords, scanned, failed, sightings>>

Absent == [form |-> "absent"]

Unreadable == [form |-> "unreadable"]

Contents(p) == [n \in DOMAIN p.files |-> p.files[n] \union {Absent, Unreadable}]

\* An empty directory, and nothing scanned yet.
DiskInit ==
    /\ place \in Places
    /\ disk = [n \in DOMAIN place.files |-> Absent]
    /\ passwords \in Passwords
    /\ scanned = [disk |-> disk, passwords |-> passwords]
    /\ failed = FALSE
    /\ sightings = {}

\* A file is written, replaced, removed, or made unreadable.
Edit(n) ==
    /\ disk' \in {[disk EXCEPT ![n] = c] : c \in Contents(place)[n]}
    /\ disk' # disk
    /\ UNCHANGED <<place, passwords, scanned, failed, sightings>>

\* Other passwords are configured.
Configure ==
    /\ passwords' \in Passwords \ {passwords}
    /\ UNCHANGED <<place, disk, scanned, failed, sightings>>

-----------------------------------------------------------------------------
(* The files source                                                         *)

\* entries_to_assets: the only key of a file of PEM or DER has the id of the
\* file, "so diffs against older scans do not churn".
IdOf(entries, e, name) ==
    LET keys == {k \in entries : k.asset.kind = "key"}
        plain == \/ e.sub[1] \in {"private-key", "public-key"}
                 \/ e.sub[1] \in {"key", "pub"} /\ e.sub[2] = 0
    IN  IF keys = {e} /\ plain THEN <<name>> ELSE <<name, e.sub>>

\* PemCollector._parse_file: one that cannot be read is a gap (Collectors), one
\* that holds nothing that is recognized is nothing.
ParseFile(file, name, configured) ==
    LET entries == Parse(file, name, configured) IN
    {[id |-> IdOf(entries, e, name), asset |-> [e.asset EXCEPT !.location = name]] : e \in entries}

ScanFiles(files, configured) ==
    UNION {ParseFile(files[n], n, configured) : n \in DOMAIN files}

-----------------------------------------------------------------------------
(* The code source                                                          *)

\* CodeCollector._walk and collect: what is excluded is not opened; a file that
\* cannot be read is passed over.
Opened(p, files) == {n \in DOMAIN files : files[n].form # "unreadable" /\ n \notin p.excluded}

ScanCode(p, files, configured) ==
    LET opened == Opened(p, files) IN
    (UNION {Hardcoding(files[n], n, n, configured) : n \in opened})
    \union Group(UNION {{h.call : h \in Hits(files[n].lines)} :
                           n \in {m \in opened : files[m].form = "PEM"}})

\* The assets that a scan finds in the files of a place, and their ids.
Found(p, files, configured) ==
    IF p.type = "code" THEN ScanCode(p, files, configured) ELSE ScanFiles(files, configured)

\* One file whose exception nobody catches is enough.
Raises(p, files, configured) ==
    IF p.type = "code"
    THEN \E n \in Opened(p, files) : HardcodedRaises(files[n], n, configured)
    ELSE \E n \in DOMAIN files : ParseRaises(files[n], n, configured)

-----------------------------------------------------------------------------

\* Collector.run: where collect() raises, the source has an error and no assets.
Scan ==
    /\ scanned' = [disk |-> disk, passwords |-> passwords]
    /\ failed' = Raises(place, disk, passwords)
    /\ sightings' = IF failed' THEN {} ELSE Found(place, disk, passwords)
    /\ UNCHANGED <<place, disk, passwords>>

DiskNext == Scan \/ Configure \/ \E n \in DOMAIN disk : Edit(n)

DiskSpec == DiskInit /\ [][DiskNext]_diskVars

-----------------------------------------------------------------------------
(* What is expected of the places.                                          *)

\* No encrypted key was committed on one line of code with another key: two of
\* them that cannot be opened would have one id.
OneToALine ==
    \A p \in Places : \A n \in DOMAIN p.files : \A file \in p.files[n] :
        p.type = "code" /\ file.form = "PEM" =>
            \A i, j \in DOMAIN file.blocks :
                /\ file.blocks[i].label = "encrypted"
                /\ file.blocks[j].label \in {"private", "encrypted"}
                /\ file.blocks[i].line = file.blocks[j].line
                => i = j

\* No PKCS#12 file has one certificate under two names: they would have one id.
NamedOnce ==
    \A p \in Places : \A n \in DOMAIN p.files : \A file \in p.files[n] :
        file.form = "PKCS12" => Identified(file.leaf \union file.others)

-----------------------------------------------------------------------------
(* What is in the files of the last scan, told without the parsers.         *)

\* The ids are the subjects of findings.
AssetsById == [i \in {s.id : s \in sightings} |-> (CHOOSE s \in sightings : s.id = i).asset]

Reported(rule) ==
    {f.asset : f \in {g \in Evaluate(AssetsById, DefaultPolicy, Today) : g.rule = rule}}

\* Java keystores always, PKCS#12 by its algorithms or its password, and an
\* encrypted key by its password (docs/POLICY.md, keystore-weak-protection).
Weak(file, block) ==
    CASE file.form = "PEM" ->
            block.label = "encrypted" /\ block.reads = "sound" /\ block.password \in WellKnown
      [] file.form = "PKCS12" -> file.legacy \/ file.password \in WellKnown
      [] OTHER -> file.form # "DER"

\* The private and secret keys that a file holds: the key, whether its protection is
\* weak, and whether a marker asks to ignore it.
SecretsOf(file) ==
    LET tried == Tried(scanned.passwords) IN
    CASE file.form = "PEM" ->
            {[key |-> IF b.reads = "sound" /\ (b.label = "encrypted" => b.password \in tried)
                      THEN b.key ELSE NoKey,
              weak |-> Weak(file, b), ignored |-> b.ignored] :
                b \in {file.blocks[n] : n \in {m \in DOMAIN file.blocks :
                         \/ file.blocks[m].label = "encrypted"
                         \/ /\ file.blocks[m].reads = "sound"
                            /\ file.blocks[m].label \in {"private", "openssh"}}}}
      [] file.form = "DER" /\ file.label = "private" /\ file.reads = "sound" ->
            {[key |-> file.key, weak |-> FALSE, ignored |-> FALSE]}
      [] file.form = "PKCS12" /\ file.reads # "damaged" ->
            {[key |-> IF file.password \in tried THEN k ELSE NoKey,
              weak |-> Weak(file, {}), ignored |-> FALSE] : k \in file.key}
      [] file.form \in {"JKS", "JCEKS"} /\ file.reads = "sound" ->
            {[key |-> IF e.tag = "key" /\ e.chain # <<>> THEN e.chain[1].key ELSE NoKey,
              weak |-> TRUE, ignored |-> FALSE] :
                e \in {x \in {file.entries[n] : n \in DOMAIN file.entries} : x.tag # "trusted"}}
      [] OTHER -> {}

\* The files that a scan of the place could read.
Seen == Opened(place, scanned.disk)

Shows(s, n, secret) ==
    /\ s.asset.location = n
    /\ s.asset.key_type \in {"private-key", "secret-key"}
    /\ IF secret.key = NoKey THEN "unopened" \in s.asset.marks
       ELSE /\ s.asset.algorithm = secret.key.algorithm
            /\ s.asset.key_size = secret.key.size
    /\ secret.weak => s.id \in Reported("keystore-weak-protection")
    /\ place.type = "code" => s.id \in Reported("hardcoded-private-key")

PrivateKeysAreSurfaced ==
    \A n \in Seen : \A secret \in SecretsOf(scanned.disk[n]) :
        \/ place.type = "code" /\ secret.ignored
        \/ \E s \in sightings : Shows(s, n, secret)

\* The lines of the source files read, and those of them nobody asked to ignore.
Texts == {scanned.disk[n].lines : n \in {m \in Seen : scanned.disk[m].form = "PEM"}}

Live(lines) == {n \in DOMAIN lines : ~Skipped(lines, n)}

Encrypts(c) == c.algorithm \in BlockCiphers /\ c.purpose = "encrypt"

\* The call c of line n works in ECB mode: it says so, or the next line that sets
\* a mode does, soon enough and without another cipher in between.
InEcb(lines, n, c) ==
    \/ c.mode = "ECB"
    \/ /\ c.mode = "none" /\ Encrypts(c)
       /\ \E m \in Live(lines) :
             /\ n <= m /\ m < n + Window /\ lines[m].mode = "ECB"
             /\ \A k \in Live(lines) : n <= k /\ k < m => lines[k].mode = "none"
             /\ \A k \in Live(lines) : n < k /\ k <= m =>
                   \A d \in DOMAIN lines[k].calls : ~Encrypts(lines[k].calls[d])
             /\ \A d \in DOMAIN lines[n].calls :
                   Encrypts(lines[n].calls[d]) => lines[n].calls[d] = c

CallsAreSurfaced ==
    place.type = "code" =>
        \A lines \in Texts : \A n \in Live(lines) : \A k \in DOMAIN lines[n].calls :
            LET c == lines[n].calls[k] IN
            \E s \in sightings :
                /\ s.asset.kind = "algorithm"
                /\ s.asset.algorithm = c.algorithm /\ s.asset.key_size = c.size
                /\ HasPurpose(s.asset, {c.purpose})
                /\ InEcb(lines, n, c) => s.id \in Reported("weak-cipher-mode")

\* Something in the file raises what the parsers do not catch.
Unhandled(file) ==
    LET parts == CASE file.form = "PEM" -> {file.blocks[n] : n \in DOMAIN file.blocks}
                   [] file.form = "SSH" -> {file.lines[n] : n \in DOMAIN file.lines}
                   [] file.form \in {"DER", "PKCS12", "JKS", "JCEKS"} -> {file}
                   [] OTHER -> {}
    IN  \E part \in parts : part.reads \notin {"sound", "damaged"}

\* "A private key in a file with no register entry is what an inventory should
\* surface" (docs/COLLECTORS.md), and none is lost in silence: either the source
\* failed, which no damaged, locked or unreadable file makes it do but only one that
\* raises what the parsers do not catch; or each private or secret key that a file of
\* the place can be seen to hold is in the inventory, also where it is locked or next
\* to something damaged, with the finding on its weak protection and, if it was
\* committed to source and is not marked to be ignored, with that finding, and so is
\* each call of a cryptographic API, with the finding on ECB mode, set there or on a
\* later line.  A file that does not show what it holds (encrypted DER, a damaged
\* keystore, a format that is not read) counts for nothing.
NothingIsPassedOver ==
    IF failed THEN \E n \in Seen : Unhandled(scanned.disk[n])
    ELSE PrivateKeysAreSurfaced /\ CallsAreSurfaced

\* The id of an asset is "unique" (model.py; the tests of the keystores check it
\* for one directory): no two things of one scan get the same id, whichever of
\* them can be opened and however many there are in a file.
\* Excepted are encrypted keys that were committed on one line with other keys
\* (OneToALine) and certificates that a PKCS#12 file has under two names
\* (NamedOnce).
IdsTellApart ==
    \A s, t \in sightings : s.id = t.id => s = t
=============================================================================
