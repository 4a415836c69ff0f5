------------------------------ MODULE Evidence ------------------------------
(* signing.py, timestamp.py and dtrack.py: the folder `keycensus scan`      *)
(* writes, the manifest, signature and timestamp beside its outputs, what   *)
(* `keycensus verify` says of them, and the upload of the CBOM.  A file's   *)
(* content is the number of the command that wrote it; one that was killed  *)
(* while it wrote leaves Torn.                                              *)
EXTENDS Integers, FiniteSets, Sequences

CONSTANTS
    Sites,       \* configurations: [urls, required, roots, dtrack]
    Authorities, \* external: what a timestamp authority may answer with
    MaxRuns,     \* bound: how many commands write the folder
    MaxKeys,     \* bound: how many signing keys there are in turn
    MaxTime      \* bound: the end of the clock

ASSUME EvidenceAssumption ==
    /\ \A s \in Sites : s.urls \in Nat
    /\ MaxRuns \in Nat /\ MaxKeys \in Nat /\ MaxTime \in Nat

VARIABLES
    site,
    now,
    files,     \* [output -> content], the folder without the three below
    manifest,  \* manifest.json
    signature, \* manifest.json.sig
    stamp,     \* manifest.json.tsr
    command,   \* what is running
    runs,      \* how many commands have written
    key,       \* the private key the configuration points at
    server,    \* external: what Dependency-Track holds: [bom, status]
    success    \* the last command that exited 0, and what it said

folder == <<files, manifest, signature, stamp>>

vars == <<site, now, folder, command, runs, key, server, success>>

Nothing == [none |-> TRUE]

Torn == -1

Absent == 0

\* The outputs in the order they are written: the formats, and with a
\* baseline the comparison.
Formats == <<"inventory.json", "cbom.json">>

Comparison == <<"diff.json">>

Outputs == {"inventory.json", "cbom.json", "diff.json"}

\* reply is for a scan that has asked for a timestamp, bom for an upload.
Idle == [name |-> "none", at |-> "idle", todo |-> <<>>, names |-> {}, reply |-> Nothing,
         bom |-> Absent]

Init ==
    /\ site \in Sites
    /\ now = 0
    /\ files = [f \in Outputs |-> Absent]
    /\ manifest = Nothing /\ signature = Nothing /\ stamp = Nothing
    /\ command = Idle
    /\ runs = 0
    /\ key = 1
    /\ server = [bom |-> Absent, status |-> "none"]
    /\ success = Nothing
-----------------------------------------------------------------------------
(* Timestamps.  An answer is [status, imprint, nonce, certs, cms, gen]:     *)
(* certs[1] is the signer's certificate, <<>> stands for a reply without.   *)
(* A certificate is [subject, issuer, key, by, from, to, eku].              *)

\* _check_chain(): from the signer upwards, always to the first certificate
\* with the issuer's name and key, eight at most.
ChainedTo(roots, certs, at) ==
    LET pool == roots \o Tail(certs)
        above(c) == {i \in DOMAIN pool : /\ pool[i].subject = c.issuer /\ pool[i].key = c.by
                                         /\ pool[i] # c}
        next(c) == pool[CHOOSE i \in above(c) : \A j \in above(c) : i <= j]
        trusted(c) == \E i \in DOMAIN roots : roots[i] = c
        walk[i \in 0 .. 7] ==
            IF i = 0 THEN certs[1]
            ELSE IF walk[i - 1] = Nothing \/ trusted(walk[i - 1]) \/ above(walk[i - 1]) = {}
                 THEN Nothing
                 ELSE LET c == next(walk[i - 1])
                      IN  IF c.from <= at /\ at <= c.to THEN c ELSE Nothing
    IN  \E i \in 0 .. 7 : walk[i] # Nothing /\ trusted(walk[i])

\* verify(), check by check, as a set of what is wrong.  The signer's
\* certificate has to be valid when it stamped, not when that is checked.
StampProblems(reply, sig, roots) ==
    {p \in {"refused", "other data", "no signer", "signature", "validity", "eku", "chain"} :
        CASE p = "refused" -> reply.status \notin {"granted", "granted_with_mods"}
          [] p = "other data" -> reply.imprint # sig
          [] p = "no signer" -> reply.certs = <<>>
          [] p = "signature" -> ~reply.cms
          [] p = "validity" -> reply.certs # <<>>
                               /\ ~(reply.certs[1].from <= reply.gen /\ reply.gen <= reply.certs[1].to)
          [] p = "eku" -> reply.certs # <<>> /\ ~reply.certs[1].eku
          [] p = "chain" -> reply.certs # <<>> /\ roots # <<>> /\ ~ChainedTo(roots, reply.certs, reply.gen)}

\* request(): the authorities in turn, the first good answer.  Nothing stands
\* for one that cannot be reached.
Reply(template, sig) ==
    [status |-> template.status, imprint |-> IF template.ours THEN sig ELSE Nothing,
     nonce |-> template.nonce, certs |-> template.certs, cms |-> template.cms, gen |-> now]

Good(template, sig) ==
    /\ template # Nothing
    /\ template.nonce = "ours"
    /\ StampProblems(Reply(template, sig), sig, site.roots) = {}

Request(templates, sig) ==
    LET good == {i \in DOMAIN templates : Good(templates[i], sig)}
    IN  IF good = {} THEN Nothing
        ELSE Reply(templates[CHOOSE i \in good : \A j \in good : i <= j], sig)
-----------------------------------------------------------------------------
(* keycensus verify.                                                        *)

\* verify_dir(): the signature, the key it names, the timestamp if there is
\* one, and every file the manifest lists.
Verify(public, roots, requireStamp) ==
    /\ manifest # Nothing /\ signature # Nothing
    /\ signature.key = public /\ signature.over = manifest
    /\ manifest.key = public
    /\ IF stamp # Nothing
       THEN /\ StampProblems(stamp, signature, roots) = {}
            /\ requireStamp => roots # <<>>
       ELSE ~requireStamp
    /\ \A f \in DOMAIN manifest.files : files[f] = manifest.files[f]

\* What the command exits with: "Exit 1 if anything is off".
VerifyExit(public, roots, requireStamp) == IF Verify(public, roots, requireStamp) THEN 0 ELSE 1
-----------------------------------------------------------------------------
(* Commands that write the folder.                                          *)

Begin(name, todo) ==
    /\ command = Idle /\ runs < MaxRuns
    /\ command' = [Idle EXCEPT !.name = name, !.at = "write", !.todo = todo]
    /\ runs' = runs + 1
    /\ success' = Nothing
    /\ UNCHANGED <<site, now, folder, key, server>>

\* keycensus scan, with a baseline or without; with no private key to sign
\* with it does not begin.
BeginScan(compares) ==
    Begin("scan", Formats \o (IF compares THEN Comparison ELSE <<>>))

\* keycensus link rewrites the reports, and signs nothing.
BeginLink ==
    /\ files["inventory.json"] > Absent
    /\ Begin("link", Formats)

Write ==
    /\ command.at = "write" /\ command.todo # <<>>
    /\ files' = [files EXCEPT ![Head(command.todo)] = runs]
    /\ command' = [command EXCEPT !.todo = Tail(@), !.names = @ \cup {Head(command.todo)}]
    /\ UNCHANGED <<site, now, manifest, signature, stamp, runs, key, server, success>>

\* A defect: whatever is in the folder is signed.
EveryFile == {f \in Outputs : files[f] # Absent}

\* sign_dir() is given the names of what this scan wrote, and reads them back.
SignedNames == {f \in command.names : files[f] # Absent}

WriteManifest ==
    /\ command.name = "scan" /\ command.at = "write" /\ command.todo = <<>>
    /\ manifest' = [run |-> runs, key |-> key, files |-> [f \in SignedNames |-> files[f]]]
    /\ command' = [command EXCEPT !.at = "sign"]
    /\ UNCHANGED <<site, now, files, signature, stamp, runs, key, server, success>>

WriteSignature ==
    /\ command.at = "sign"
    /\ signature' = [over |-> manifest, key |-> manifest.key]
    /\ command' = [command EXCEPT !.at = "stamp"]
    /\ UNCHANGED <<site, now, files, manifest, stamp, runs, key, server, success>>

\* stamp_signature(): no authorities, no timestamp, even where one is
\* required; no good answer where one is ends the scan, exit 1, right there.
AskForStamp ==
    /\ command.at = "stamp"
    /\ \E templates \in [1 .. site.urls -> Authorities] :
          LET reply == Request(templates, signature)
          IN  command' = IF reply = Nothing /\ site.required /\ site.urls > 0 THEN Idle
                         ELSE [command EXCEPT !.at = "unlink", !.reply = reply]
    /\ UNCHANGED <<site, now, folder, runs, key, server, success>>

\* A defect: the timestamp of an earlier scan stays.
LeftAlone == stamp

\* The timestamp of an earlier scan is removed first.
Unlinked == Nothing

Unlink ==
    /\ command.at = "unlink"
    /\ stamp' = Unlinked
    /\ command' = [command EXCEPT !.at = "finish"]
    /\ UNCHANGED <<site, now, files, manifest, signature, runs, key, server, success>>

\* The reply is written, and the scan exits 0 as far as its evidence goes.
Finish ==
    /\ command.at = "finish"
    /\ stamp' = IF command.reply = Nothing THEN stamp ELSE command.reply
    /\ success' = [name |-> "scan", names |-> command.names, key |-> manifest.key, run |-> runs]
    /\ command' = Idle
    /\ UNCHANGED <<site, now, files, manifest, signature, runs, key, server>>

FinishLink ==
    /\ command.name = "link" /\ command.todo = <<>>
    /\ command' = Idle
    /\ UNCHANGED <<site, now, folder, runs, key, server, success>>

\* Killed, or an exception on the way: the file that was being written is
\* torn.  A torn manifest or signature is as good as none.
Kill ==
    /\ command # Idle
    /\ command' = Idle
    /\ \/ UNCHANGED folder
       \/ /\ command.at = "write" /\ command.todo # <<>>
          /\ files' = [files EXCEPT ![Head(command.todo)] = Torn]
          /\ UNCHANGED <<manifest, signature, stamp>>
       \/ /\ command.name = "scan" /\ command.at = "write" /\ command.todo = <<>>
          /\ manifest' = Nothing
          /\ UNCHANGED <<files, signature, stamp>>
       \/ /\ command.at = "sign"
          /\ signature' = Nothing
          /\ UNCHANGED <<files, manifest, stamp>>
       \/ /\ command.at = "finish" /\ command.reply # Nothing
          /\ stamp' = [command.reply EXCEPT !.status = "torn"]
          /\ UNCHANGED <<files, manifest, signature>>
    /\ UNCHANGED <<site, now, runs, key, server, success>>

\* keycensus keygen under a new name, and the configuration points there: a
\* key file that exists is not written over.
NewKey ==
    /\ command = Idle /\ key < MaxKeys
    /\ key' = key + 1
    /\ UNCHANGED <<site, now, folder, command, runs, server, success>>

Tick ==
    /\ now < MaxTime
    /\ now' = now + 1
    /\ UNCHANGED <<site, folder, command, runs, key, server, success>>
-----------------------------------------------------------------------------
(* keycensus upload dtrack --wait.                                          *)

\* upload(): the file has to be a whole CBOM; the server queues it and hands
\* a token out, or refuses it.
Upload ==
    /\ command = Idle /\ site.dtrack
    /\ files["cbom.json"] > Absent
    /\ server.status # "processing"
    /\ server' = [bom |-> files["cbom.json"], status |-> "processing"]
    /\ command' = [Idle EXCEPT !.name = "upload", !.at = "wait", !.bom = files["cbom.json"]]
    /\ success' = Nothing
    /\ UNCHANGED <<site, now, folder, runs, key>>

\* External: the BOM is processed or cannot be.
Process ==
    /\ server.status = "processing"
    /\ \E status \in {"processed", "FAILED"} : server' = [server EXCEPT !.status = status]
    /\ UNCHANGED <<site, now, folder, command, runs, key, success>>

\* wait(): a poll that finds it no longer processing, and not failed either.
\* Any other end, the deadline included, is an error and exit 1.
Done(status) == status \notin {"processing", "FAILED"}

Waited ==
    /\ command.name = "upload"
    /\ Done(server.status)
    /\ success' = [name |-> "upload", bom |-> command.bom]
    /\ command' = Idle
    /\ UNCHANGED <<site, now, folder, runs, key, server>>
-----------------------------------------------------------------------------
Next ==
    \/ \E compares \in BOOLEAN : BeginScan(compares)
    \/ BeginLink \/ Write \/ WriteManifest \/ WriteSignature \/ AskForStamp \/ Unlink
    \/ Finish \/ FinishLink \/ Kill \/ NewKey \/ Tick
    \/ Upload \/ Process \/ Waited

Spec == Init /\ [][Next]_vars
-----------------------------------------------------------------------------
(* What exit 0 promises.                                                    *)

\* A scan that exits 0 leaves evidence that stands: until something writes to
\* the folder again, `keycensus verify` with the key that signed it accepts it
\* and covers every file the scan wrote, at any later time, also after the
\* timestamp authority's certificate has expired and after the signing key was
\* changed; and where a timestamp is required and its authority trusted, also
\* with --require-timestamp: whatever was in the folder before, and whichever
\* authorities answered, refused or answered something else (signing.py:118).
\* An upload that exits 0 was processed, the BOM of the folder it was given.
SuccessStands ==
    /\ success # Nothing /\ success.name = "scan" =>
          /\ 0 = VerifyExit(success.key, site.roots,
                            site.required /\ site.urls > 0 /\ site.roots # <<>>)
          /\ DOMAIN manifest.files = success.names
    /\ success # Nothing /\ success.name = "upload" =>
          server = [bom |-> success.bom, status |-> "processed"]

\* A folder that verifies is the record of one scan: no file that the manifest
\* lists was left by an earlier scan, rewritten by `link` or torn, wherever
\* commands were killed, failed or followed one another (signing.py:123).
VerifiedIsOneScan ==
    \A public \in 1 .. MaxKeys :
        VerifyExit(public, <<>>, FALSE) = 0 =>
            \A f \in DOMAIN manifest.files : files[f] = manifest.run
=============================================================================
