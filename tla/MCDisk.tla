--------------------------------- MODULE MCDisk ---------------------------------
(* Disk for TLC: a few directories of two files, one form of file in each.  *)
EXTENDS Disk

MCToday == 2000

Of(id, algorithm, size, curve) ==
    [id |-> id, algorithm |-> algorithm, size |-> size, curve |-> curve, fido |-> FALSE]

K1 == Of("k1", "RSA", 2048, "none")
K2 == Of("k2", "RSA", 1024, "none")
K3 == Of("k3", "EC", 256, "P-256")
Fido == [Of("k4", "Ed25519", 256, "Ed25519") EXCEPT !.fido = TRUE]

Cert(key) == [id |-> "of-" \o key.id, key |-> key, purposes |-> <<"encrypt", "sign">>,
              alias |-> "none"]

-----------------------------------------------------------------------------
(* Text: blocks, and lines of code.                                         *)

Block(label, key, line) ==
    [label |-> label, key |-> key, cert |-> Cert(key), reads |-> "sound",
     password |-> "none", named |-> "unknown", line |-> line, ignored |-> FALSE]

Secured(key, line, password, named) ==
    [Block("encrypted", key, line) EXCEPT !.password = password, !.named = named]

Torn(part) == [part EXCEPT !.reads = "damaged"]
Odd(part) == [part EXCEPT !.reads = "unhandled"]
OddInside(part) == [part EXCEPT !.reads = "unhandled-inside"]
Ignored(block) == [block EXCEPT !.ignored = TRUE]

Text(blocks, lines) == [form |-> "PEM", blocks |-> blocks, lines |-> lines]

Pem(blocks) == Text(blocks, <<>>)

Bundles ==
    {Pem(<<Block("private", K1, 1)>>),
     Pem(<<Block("certificate", K1, 1), Block("private", K1, 9)>>),
     Pem(<<Block("private", K1, 1), Block("private", K2, 9), Block("public", K3, 18)>>),
     Pem(<<Secured(K1, 1, "s3cret", "RSA"), Secured(K2, 9, "changeit", "unknown"),
           Secured(K3, 18, "lost", "EC")>>),
     Pem(<<Torn(Block("private", K2, 1)), Block("openssh", K3, 9), Odd(Block("ssh2", K1, 18)),
           Torn(Secured(K1, 20, "changeit", "RSA"))>>),
     Pem(<<Block("private", K1, 1), Odd(Block("certificate", K2, 9))>>),
     Pem(<<OddInside(Secured(K2, 1, "s3cret", "EC")), Block("private", K1, 9)>>),
     Pem(<<Block("openssh", Fido, 1), Block("certificate", K1, 9)>>)}

Call(algorithm, size, mode, purpose) ==
    [algorithm |-> algorithm, size |-> size, curve |-> "none", mode |-> mode,
     purpose |-> purpose, padding |-> "none"]

Code(calls, mode) == [calls |-> calls, mode |-> mode, ignored |-> FALSE, comment |-> FALSE]

Md5 == Call("MD5", Unset, "none", "digest")
Aes == Call("AES", 256, "none", "encrypt")
Des == Call("DES", 56, "ECB", "encrypt")
Rsa == Call("RSA", 2048, "none", "sign")
RsaEncrypts == Call("RSA", 2048, "none", "encrypt")

Sources ==
    {Text(<<>>, (3 :> Code(<<Aes>>, "none")) @@ (5 :> Code(<<>>, "ECB")) @@ (7 :> Code(<<>>, "CBC"))),
     Text(<<>>, (3 :> Code(<<Aes, Rsa>>, "none")) @@ (40 :> Code(<<Md5>>, "ECB"))),
     Text(<<>>, (3 :> [Code(<<Md5>>, "none") EXCEPT !.ignored = TRUE])
                @@ (4 :> Code(<<Des>>, "none")) @@ (5 :> Code(<<Des, RsaEncrypts>>, "ECB"))),
     Text(<<>>, (3 :> [Code(<<Md5>>, "none") EXCEPT !.comment = TRUE])),
     Text(<<Ignored(Odd(Block("private", K1, 2))), Block("private", K2, 9),
            Odd(Block("public", K3, 15))>>,
          20 :> Code(<<RsaEncrypts>>, "none")),
     Pem(<<Secured(K1, 1, "changeit", "RSA"), Secured(K2, 9, "lost", "unknown"),
           Block("certificate", K3, 20), Torn(Block("private", K3, 30))>>),
     Pem(<<Block("private", K1, 1), OddInside(Secured(K2, 9, "s3cret", "EC"))>>)}

-----------------------------------------------------------------------------
(* Keystores, DER and SSH.                                                  *)

Store(password, legacy, key, others) ==
    [form |-> "PKCS12", reads |-> "sound", password |-> password, legacy |-> legacy, key |-> key,
     leaf |-> {Cert(k) : k \in key}, others |-> others]

Stores == {Store("s3cret", FALSE, {K1}, {[Cert(K3) EXCEPT !.alias = "ca"]}),
           Store("lost", TRUE, {K2}, {}), Store("", FALSE, {K3}, {}),
           Store("s3cret", TRUE, {}, {Cert(K1), Cert(K2)}),
           OddInside(Store("s3cret", TRUE, {K2}, {}))}

Java(form, reads, entries) == [form |-> form, reads |-> reads, entries |-> entries]

KeyEntry(alias, chain) == [tag |-> "key", alias |-> alias, chain |-> chain, created |-> 1500]
Trusted(alias, cert) == [tag |-> "trusted", alias |-> alias, cert |-> cert]
Sealed(alias) == [tag |-> "secret", alias |-> alias, created |-> 1500]

JavaStores ==
    {Java("JKS", "sound", <<KeyEntry("web", <<Cert(K1), Cert(K3)>>), Trusted("ca", Cert(K3))>>),
     Java("JKS", "sound", <<KeyEntry("web", <<>>), KeyEntry("old", <<Cert(K2)>>)>>),
     Java("JCEKS", "sound", <<Sealed("hdfs"), KeyEntry("web", <<Cert(K1)>>)>>),
     Java("JCEKS", "damaged", <<Sealed("hdfs"), KeyEntry("web", <<Cert(K1)>>)>>),
     Java("JCEKS", "unhandled", <<KeyEntry("web", <<Cert(K1)>>), Sealed("hdfs")>>)}

Der(label) == [form |-> "DER", reads |-> "sound", label |-> label, key |-> K1, cert |-> Cert(K1)]

Ders == {Der("private"), Der("public"), Der("certificate"), Der("encrypted"),
         Odd(Der("private"))}

Line(key, certificate) ==
    [key |-> key, certificate |-> certificate, reads |-> "sound", comment |-> "me@host",
     expires |-> 2100]

Ssh(leads, lines) == [form |-> "SSH", leads |-> leads, lines |-> lines]

Lines == {Ssh(TRUE, <<Line(K1, FALSE), Line(K1, FALSE), Torn(Line(K2, FALSE))>>),
          Ssh(FALSE, <<Torn(Line(K1, FALSE)), Line(Fido, FALSE), Line(K3, TRUE)>>),
          Ssh(FALSE, <<Line(K1, FALSE), Odd(Line(K2, FALSE))>>)}

Directory(type, excluded, files) == [type |-> type, excluded |-> excluded, files |-> files]

MCPlaces ==
    {Directory("files", {}, ("server.pem" :> Bundles) @@ ("old.pem" :> Bundles)),
     Directory("files", {}, ("web.p12" :> Stores) @@ ("app.jks" :> JavaStores)),
     Directory("files", {}, ("key.der" :> Ders) @@ ("authorized_keys" :> Lines)
                            @@ ("notes" :> Lines)),
     Directory("code", {"docs.py"}, ("main.py" :> Sources) @@ ("docs.py" :> Sources)),
     Directory("code", {}, ("main.py" :> Sources) @@ ("test.p12" :> Stores)),
     Directory("code", {}, ("test.jks" :> JavaStores) @@ ("id_rsa" :> Ders \union Bundles))}

MCPasswords == {{}, {"s3cret"}}

\* The places are within what the theorems assume.
ASSUME OneToALine /\ NamedOnce
=============================================================================
