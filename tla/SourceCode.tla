------------------------------- MODULE SourceCode -------------------------------
(***************************************************************************)
(* What is read out of a file of source code                                *)
(* (keycensus/collectors/code.py): the private keys that were committed,    *)
(* and the calls of cryptographic APIs.  Pure: no state.                    *)
(*                                                                          *)
(* A file of text has the form "PEM": its blocks, each with the line it     *)
(* starts at and whether that line or the one before asks to be ignored,    *)
(* and its lines of code, by their numbers.  A line is what the patterns    *)
(* and handlers make of it: whether it is ignored or a comment, the calls   *)
(* found in it, and the mode that is set by itself, as in                   *)
(* aes.Mode = CipherMode.ECB, "none" if there is no such thing.             *)
(***************************************************************************)
EXTENDS Keyfiles, SequencesExt

-----------------------------------------------------------------------------
(* Committed keys                                                           *)

\* Keystores, and other binary files that look like key material.
Binary(file) == file.form \in {"JKS", "JCEKS", "PKCS12", "DER"}

\* Where an entry was found, and what it is.
FoundAt(line, entries) == {[line |-> line, entry |-> e] : e \in entries}

\* The blocks of text that are parsed, each by itself; placeholders do not parse.
Committed(file) ==
    IF file.form # "PEM" THEN {}
    ELSE {b \in {file.blocks[n] : n \in DOMAIN file.blocks} :
             ~b.ignored /\ b.label \in {"private", "encrypted", "openssh"}}

Alone(b) == [form |-> "PEM", blocks |-> <<b>>]

FoundIn(file, name, configured) ==
    IF Binary(file) THEN FoundAt(1, Parse(file, name, configured))
    ELSE UNION {FoundAt(b.line, Parse(Alone(b), name, configured)) : b \in Committed(file)}

\* It catches no more than the other collectors.
HardcodedRaises(file, name, configured) ==
    IF Binary(file) THEN ParseRaises(file, name, configured)
    ELSE \E b \in Committed(file) : ParseRaises(Alone(b), name, configured)

\* _hardcoded: "certificates and public keys in a repo are not secrets".  The id
\* has the line in it.
Hardcoding(file, path, name, configured) ==
    {[id |-> <<path, f.line, f.entry.sub>>,
      asset |-> [f.entry.asset EXCEPT !.marks = @ \union {"hardcoded"}, !.location = path]] :
        f \in {g \in FoundIn(file, name, configured) :
                  /\ g.entry.asset.kind = "key"
                  /\ g.entry.asset.key_type \in {"private-key", "secret-key"}}}

-----------------------------------------------------------------------------
(* API usage                                                                *)

\* What cipher_spec takes for a block cipher and a mode can be set on.
BlockCiphers == {"AES", "DES", "3DES", "RC2", "Blowfish", "Camellia", "IDEA", "SEED", "SM4", "CAST5"}

\* How many lines back a mode that is set by itself is about.
Window == 30

\* A marker is about its own line and the one after it.
Skipped(lines, n) ==
    \/ lines[n].ignored \/ lines[n].comment
    \/ n - 1 \in DOMAIN lines /\ lines[n - 1].ignored

\* The hits of a file before modes are attached, in the order they are found.
Calls(lines) ==
    UNION {{[line |-> n, at |-> k, call |-> lines[n].calls[k]] : k \in DOMAIN lines[n].calls} :
              n \in {m \in DOMAIN lines : ~Skipped(lines, m)}}

Before(h, g) == h.line < g.line \/ (h.line = g.line /\ h.at < g.at)

\* The last block cipher above, or in, line n.
Prior(lines, n) ==
    LET ciphers == {h \in Calls(lines) :
                       /\ n - Window < h.line /\ h.line <= n
                       /\ h.call.algorithm \in BlockCiphers /\ h.call.purpose = "encrypt"}
    IN  {h \in ciphers : \A g \in ciphers : g = h \/ Before(g, h)}

\* The lines that set a mode on this call, which has none of its own.
ModeSetters(lines, h) ==
    {n \in DOMAIN lines : ~Skipped(lines, n) /\ lines[n].mode # "none" /\ h \in Prior(lines, n)}

\* The first setter wins.
ModeOf(lines, h) ==
    IF h.call.mode # "none" \/ ModeSetters(lines, h) = {} THEN h.call.mode
    ELSE lines[CHOOSE n \in ModeSetters(lines, h) :
                  \A m \in ModeSetters(lines, h) : n <= m].mode

\* scan_api
Hits(lines) == {[h EXCEPT !.call.mode = ModeOf(lines, h)] : h \in Calls(lines)}

\* What a call is for.
CallPurposes == {"encrypt", "sign", "digest", "derive"}

\* _group: one asset for all the calls of a tree that are alike, with every
\* purpose one of them has.
Label(call) == <<call.algorithm, call.size, call.curve, call.mode, call.padding>>

Group(calls) ==
    {[id |-> <<"calls", Label(k)>>,
      asset |->
        [Blank EXCEPT !.kind = "algorithm", !.algorithm = k.algorithm, !.key_size = k.size,
                      !.curve = k.curve, !.key_type = "algorithm", !.state = "active",
                      !.purposes = SetToSeq({c.purpose : c \in {d \in calls : Label(d) = Label(k)}}),
                      !.marks = {k.mode} \ {"none"}]] :
        k \in calls}
=============================================================================
