# A TLA+ verification of keycensus

keycensus takes a census of the cryptographic keys and certificates of an
estate: collectors list what their sources hold, a policy raises findings, a
diff against the previous census says what changed, and notifications, metrics,
exit codes and an audit log tell people. The promise on which everything rests
is in `keycensus/scanner.py`: *a scan that could not look never makes a key
disappear or a finding resolve*. The specifications here say what that promise
means over any sequence of scans, outages, crashes and restarts, and which parts
of the code keep it.

## The system

| Component | State | Operations | Talks to |
|---|---|---|---|
| Scan orchestration (`scanner.py`, `collectors/base.py`, `model.py`) | the results of a scan, the inventory | build and run the collectors in a thread pool, stamp, carry forward, evaluate, mark, link | collectors, policy, linking |
| Collectors (`collectors/*.py`) | `Coverage` (which scopes were read, which were not) | list assets of one source, report gaps | remote services, files |
| Diff and changes (`diff.py`, `changes.py`) | none; a baseline file | compare two inventories, classify each difference into a kind with an urgency | scan command, daemon |
| Policy, strength, linking (`analysis/`, `linking.py`) | none | raise findings, link assets to applications | scan |
| Serve daemon (`serve.py`) | `state.previous`, `outputs`, `ready`, the counters | rescan thread, HTTP handler threads | scan, diff, notify, audit, metrics |
| Scan command (`cli.py`) and its scheduler (the Helm CronJob) | the output directory, `/out/latest`, the exit code | scan, write outputs, diff, notify, gates, sign, hand over the baseline | the next run, through a file |
| Notification (`notify.py`) | none | filter, render, POST | daemon, command |
| Audit log (`audit.py`) | the file, its `.head`, the chain in memory | append with fsync, recover the head at start, verify; the operator rotates | daemon, command |
| Exporters (`exporters/`), reports | counters in the Prometheus exporter | render | daemon, command |
| Signing, timestamps (`signing.py`, `timestamp.py`) | three files | sign a directory, verify it | command, daemon, a TSA |
| Secrets (`secrets.py`) | a cache with the age of each value, a Vault token | resolve a reference, fetch | secrets managers |
| Sign-on (`oidc.py`) | the provider's key set and metadata, the session key; cookies in browsers | verify a bearer token, login, callback, session | the identity provider, the daemon |
| Dependency-Track (`dtrack.py`) | none | upload a CBOM, wait until it is processed | a server |
| Doctor, registry, configuration | none | read-only | – |

What makes it correct, component by component:

* **collectors**: a source that did not fail names every asset it holds, or a gap
  behind which the asset is; what is in no gap and not listed is gone.
* **scan**: an entry says what the last look at the asset saw and when; an asset
  leaves only by being looked for, or with its source.
* **diff and changes**: a reader of the change reports alone knows the
  inventory; the first blind spot of a source pages; nothing is reported removed
  or resolved by a scan that did not look.
* **daemon**: what is handed out is in the audit log, healthy means there is a
  report, no comparison is skipped or counted twice, and the thread outlives its
  failures.
* **judgements** (policy, strength, changes, linking): whatever got worse pages,
  routine does not, and the links of an inventory are those of the applications
  declared now.
* **files and code**: every private key and every call that can be read is in the
  inventory, with the findings it deserves and an id of its own.
* **signing and uploads**: what exit 0 said of a folder stays true until the folder
  is written again; a folder that verifies is the record of one scan.
* **secrets and sign-on**: a secret is no older than its lifetime, a new key of the
  provider is honoured within a minute, and no session exists that nobody signed
  in for.
* **scan command and schedulers**: each change reaches a `changes.json` and the
  webhook, no run forgets what an earlier one knew, an exit code of 0 means that
  every gate passed, and no run leaves behind what all later runs fail on.
* **audit log**: one chain, over kills and rotations; what was kept stays.

Hard to test, and the reason for a model: collectors that answer in any order
with outages that overlap over several scans; the date moving between scans;
handlers and scrapes that run between two assignments of the rescan thread; an exception, a
kill or a rotation between any two system calls; two processes on one file;
combinations of gates; timestamps left from an earlier scan; two threads that
fetch one secret while it is replaced; a provider that rotates its keys, and cookies
that outlive the process that sealed them; key files whose contents can be
opened today and not tomorrow. `PROJECT.json` lists each of these hazards at its line,
with the properties that cover it or the reason why none does. A
collector adds the failures of its calls, at three levels and in any combination,
while the estate changes under it.

## The modules

| Module | Models | Role |
|---|---|---|
| `Inventory` | `model.py`, `scanner.py`, `analysis/policy.py`, `linking.py` | the pure functions of one scan: coverage, findings, carry-forward, `Scan(baseline, results, now)` |
| `InventoryDiff` | `diff.py`, `changes.py` | `Classify(before, after)`, the set of changes |
| `Census` | `scanner.scan` run after run | the state machine; extends the two above |
| `Ledger` | – | the abstract specification that `Census` implements |
| `Serve` | `serve.py`, `notify.py`, the counters of `exporters/prometheus.py` | rescan thread and handlers |
| `AuditLog` | `audit.py` | `write()` taken apart into system calls |
| `ScheduledScan` | `cli.py: scan`, `cronjob.yaml` | run after run through a file |
| `Collectors` | `collectors/*.py`, `Coverage` and `asset_in_gap` of `model.py` | one run of any collector, call by call |
| `Strength` | `analysis/strength.py` | `Assess`, `IsWeakKeySize`, `KeyExchangeClass`: pure functions |
| `Policy` | `analysis/policy.py`, `data/default-policy.yml` | every rule, `DeepMerge`, `Evaluate(assets, policy, today)` |
| `ChangeReport` | `changes.py`, `diff.py`, the gates of `cli.py: diff` | `FieldChanges`, `ClassifyAsset`, `Classify`, `DiffExit` |
| `Linking` | `linking.py` | `Load`, `Link`, `UnlinkedFindings`, `Apply` |
| `Estate` | scan after scan, `keycensus link`, `keycensus diff` | the state machine that composes the four above |
| `Secrets` | `secrets.py` | lookups by threads, the cache, the Vault token |
| `SignOn` | `oidc.py` | key set, bearer tokens, login, callback, cookies |
| `Access` | `serve.py`: `ServeSettings`, `_authenticate`, `_oidc_route` | the state machine that composes `Secrets` and `SignOn` |
| `Evidence` | `signing.py`, `timestamp.py`, `dtrack.py` and their commands | one output folder written by command after command |
| `Keyfiles` | `collectors/keyfiles.py`, `x509util.py` | `Parse(file, name, passwords)`: the entries of each container |
| `SourceCode` | `collectors/code.py` | hard-coded keys, calls of one file, grouping |
| `Disk` | `collectors/pem_files.py`, `code.py` | a directory edited between the scans of one source |
| `CensusProofs`, `ServeProofs`, `AuditLogProofs`, `ScheduledScanProofs`, `CollectorsProofs`, `AccessProofs`, `EvidenceProofs`, `EstateProofs` | – | theorems about the module they extend; `CollectorsProofs` extends `Collectors` and `Disk` |
| `MCCensus`, `MCServe`, `MCAuditLog`, `MCScheduledScan`, `MCCollectors`, `MCEstate`, `MCAccess`, `MCEvidence`, `MCDisk` | – | the constants of the runs |

### Census

`phase` is idle or collecting; `pending` holds the collectors of the thread pool
that have not answered, `results` what the others answered (failed sources, gaps,
found assets). `CollectorReports(s)` is `Collector.run` returning and
`CollectorFails(s)` is it (or `build`) raising. `FinishScan(carry)` is the main
thread after `pool.map`: the stamping loop, `carry_forward`, `evaluate`, the
marking loop, `link_apply`, and then `diff_dicts` and `classify` against the
baseline, which is one atomic step because nothing else touches that data. The order
within it is that of the functions: `Evaluate` makes findings that are all verified,
`Mark` unmarks those of carried entries, and `UnlinkedFindings` come after it
(`FindingsOn`). `scanner.py:55` takes the text of an exception for the error of
the source; an exception without any text is left out.
`Reconfigure` is an edit of the configuration between runs. `clock` counts
scans and is the `generated_at` and `last_observed` of the code; certificates
expire by it.

Between two scans the estate may change in any way, so `CollectorReports` lets a
source hold anything when it is looked at. A collector is external as far as
this module goes, and it is taken at its word: an asset it did not list is
either absent or reached through a scope among its gaps (`Hidden`). Where a
collector breaks that contract, it breaks what is promised here; `Collectors`
checks them against it.

Three variables are history and appear in no guard: `examined` (the assets this
scan's collectors looked for), `sighting` (what the last look saw) and `feed`
(what a reader who only applies the change reports believes).

Data is reduced to a strength (strong or weak), scopes and dates. The policy is reduced to
three shapes (`Policy` has all its rules): a rule on the asset alone (`weak-key-size`), a rule whose
verdict changes with the date (the three of `rule_cert_expiry`) and the rule that
`linking.apply` adds after the marking loop (`unlinked-asset`).

### Serve

`step` is the rescan thread's place in `rescan_forever`/`_rescan`: scan, diff,
count, notify, set `previous`, render, log `scan.end`, swap the outputs and set
`ready`, sleep. `request` is each connection's handler, with its read of
`outputs` under the lock and its read of `ready` outside it as two steps.
`Raise` is an exception in a step that can raise, caught by the loop (rescan);
`Drop` is one in a handler, caught by the HTTP server. `Restart` kills the
process and starts another with nothing in memory and any configuration: `conf`
says whether there is an audit log, and whether there is a webhook and its URL.
The estate is a number that grows with each change worth a page; a report is a
pair of inventories. A request is a page or a scrape of `/metrics`:
`ScrapeCounters` reads the counters of the `InventoryCollector` and
`ScrapeInventory` its inventory, later, while the rescan thread replaces the
inventory (`exported`) and then counts its changes (`Count`).

Two properties are limited to configurations, because the code breaks them in
the others. `CountedOnce` holds without an audit log and with no empty URL:
otherwise `webhook_sent` or `config.url` may raise after `record_changes` and
before `state.previous = current`, and the next round counts (and posts) the
same changes again. The metric's help says what it counts and nothing about
retries, so this is a limit of the property and not a finding. `ReportCatchesUp`
excludes the empty URL, which is the run `serve_unset`.

### AuditLog

The steps of `AuditLog.write` are compute, open, `os.write`, `fsync` with the
update of the memory, and the replacement of the `.head` file; `Boot` is
`__init__` with what it remembers of log and head. `Rotate` is the operator's `mv`,
between any two system calls. Hashes are numbered, so that they do not collide.
`Failures` says what may go wrong: kills between two system calls (`Crash`), calls
that raise (`Fail`), short writes (`WriteShort`). The history variable `met` keeps
which of them did, and the properties say which of them each part of the log
survives:

| | kills | calls that raise | short writes | rotations |
|---|---|---|---|---|
| the chain (`ChainSurvives`) | yes, without rotation | no | no | yes, without a kill |
| what `write()` returned (`KeptSurvives`) | yes | yes | no | yes |
| changes of configuration (`ConfigChangesAreLogged`) | yes | yes | no | no |
| a loss can be noticed (`LossIsNoticed`) | yes | yes | yes | yes |

### ScheduledScan

`step` goes through the command (load the baseline, scan, write the JSON, the
CBOM, the rest, the diff, notify, gates, sign, exit code) and then through the
script (test for `cbom.json`, `rm -rf`, `cp -r`). `Raise` is an exception in a step
of `Faulty`, `Kill` the end of the pod in a step of `Deadly`; `Halfway` says what
such a step leaves of the files it is writing. The history variable `cut`
remembers whether a run was ever cut short in the two places where the code is not
prepared for it: between its CBOM and its gates (the script takes its outputs
for complete, although the changes were not told), and while `rm` and `cp`
replace the baseline. The properties say that there is no third such place.

### Collectors

One module models all the collectors, since they walk the same tree: wings
(accounts, subscriptions, projects), rooms (regions, vaults, locations, mounts,
lists of a namespace, paths, domains, tokens, exports) and items. What they do
differently is in one record for each: which exceptions are caught at each level,
what the gap is named after, which scopes are stamped on an asset, whether a
wing without a readable room is a gap, and when the source fails altogether. A
reader who changes an `except` clause or a `coverage_scope` changes one line here.

`OpenWing`, `ListRoom`, `ReadItem` and `NextPage` are calls that are answered,
`WingFails`, `RoomFails`, `ItemFails` and `PageFails` the same calls failing, with a
reason that `gap_kind` or an `except` clause tells apart; `ItemGone` is a key that
was listed and is gone when it is read. `Answer` is the end of `collect()`, with
its last gaps and its decision to raise. `Create` and `Destroy` are the estate,
between any two calls.

`NothingIsOverlooked` is the contract that `Census` assumes. `DeletionsCount` is
its other half: gaps may not be wider than what failed. `FailureIsConfined` says
that a caught failure never takes with it what other calls have read.

| Collector | Type in `Kinds` | `NothingIsOverlooked` |
|---|---|---|
| AWS organization, regions listed | `aws-kms` | holds |
| AWS organization, `ec2:DescribeRegions` denied | `aws-static` | fails: a region that times out counts as not enabled (`aws_kms.py:149`) |
| AWS, one region | `aws-region` | holds |
| Azure discovery, one vault | `azure-keyvault`, `azure-vault` | holds |
| GCP discovery, one project | `gcp-kms`, `gcp-project` | holds |
| Kubernetes secrets, by namespace or cluster-wide | `kubernetes`, `kubernetes-all` | holds |
| Kubernetes, Certificates of namespaces | `cert-manager` | fails: the gap names the namespace, the assets name the whole listing (`kubernetes.py:308`, `373`) |
| Vault, PKCS #11, AD CS exports | `vault`, `pkcs11`, `adcs` | holds |
| files | `files` | holds, unless a subdirectory may not be listed (`Unlistable`; `pem_files.py:107`) |
| CT | `ct` | holds below `max_certificates` (`ct.py:105`) |
| TLS | `tls` | fails: an endpoint that does not answer leaves no gap (`tls_endpoint.py:78`) |
| CipherTrust | `ciphertrust` | fails: a key destroyed between two pages moves the next one to a page already read (`ciphertrust.py:197`) |
| KeySafe 5 | `keysafe5` | holds, for a service whose cursor survives deletions |

The run `collectors` has the fourteen types for which it holds. The others can be
tried by changing `Kinds`, `Unlistable` or `MaxCertificates` in `Collectors.cfg`.
`network` behaves like `tls`; `docs/QUALIFICATION.md:25` says so of it.

### Estate

An asset is a record of the fields of `CryptoAsset` that any judgement reads
(`Blank` has their defaults); free text and `extra` are a set of `marks`, such as
`hardcoded` or `rotation_policy_never`. `Strength` is `assess` with its tables.
`Policy` is one operator for each group of rules: `Breaks` and `Noted` are those
that look at one asset and say yes or no, the ones with arithmetic (expiry,
cryptoperiod, validity, quantum, key exchange, TLS, templates) stand alone. A policy
in force is `DeepMerge(DefaultPolicy, override)`, and `Evaluate` gives the findings
of each asset, but for the public halves of pairs. `ChangeReport` compares two documents as
`diff_dicts` does, field by watched field with its normalization, and
`ClassifyAsset` turns the fields of one asset into kinds. `Direction` is
`_strength_direction` as it runs, with strengths that are never known (see the
disagreements). `DiffExit` is the gates of `keycensus diff` in their order: a page,
also for a source that broke; the worst new finding; and `Diff.empty`, which counts what
no kind is about. `Linking` loads an `applications:` block, with the errors that
`Loadable` collects, and links. An SBOM is the list of the names it may give the
application, in the order they are tried; of the text of names and consumer ids two
constants tell what `auto_link` asks, which words they have (`WordsOf`) and which of them
contains which, as a word or within one (`Mentions`).

`Rescan(found)` is a scan of a source that answers: any of the assets, each in any
of its shapes; `RescanFails` is one that fails, and carries forward; `Relink` is
`keycensus link` on the saved inventory; `Reconfigure` edits the `applications:`
block. `last` and `doc` are what `keycensus diff` compares. `Worse` is written
from what the kinds of `docs/ALERTING.md` promise, field by field and without
`changes.py`, so that `WorseMeansPage` compares two accounts.

### Access

`Secrets` has a thread's lookup in three steps, since `_cached` fetches outside
its lock: the look into the cache, the fetch, the store with the time at which
the lookup began. `Chosen` and `Local` are `resolve` with its order of backends.
`SignOn` has, for each process, the key set with the time of its fetch, and for
each browser its two cookies. A cookie is its payload, its expiry and the key it
was sealed with. The provider is external: `NewKey`, `WithdrawKeys`,
`Authenticate`. `VerifyJwt` is every check of `verify_jwt`, and `MustFetch` is the
condition under which `_key` asks again.

`Access` starts and stops processes (`Start` resolves the session key through
`Secrets`, or makes one up), and `Reader` is `_authenticate` in its order: public
path, static token, bearer token, session, open access. Time is discrete; `Tick`
respects the time-outs of the fetches, which are shorter than any cache period.

### Evidence

One folder and the commands that write it: `scan` (formats, comparison, then
`sign_dir`: manifest, signature, request for a timestamp, removal of the old one,
the new one), `link`, `upload dtrack`. The content of a file is the number of the
command that wrote it, or `Torn`. `Kill` ends a command anywhere and may leave the
file it was writing torn. `Reply` is whatever an authority answers, built from the
templates in `Authorities`, and `StampProblems` the checks of `timestamp.verify`
with the chain as `_check_chain` walks it. `Verify` is `verify_dir`. `success` is a
history variable: the last command that exited 0, and what it said.

### Disk

A file is its container and what was put into it: blocks of PEM with labels and
passwords; PKCS #12 with its algorithms; Java keystores with three kinds
of entries; DER; SSH lines; lines of code with calls, mode setters and markers. Each part
that is loaded by itself says what loading it comes to (`reads`): it is sound; it is
damaged, which raises what the parsers catch, so that the rest is read; or it raises what
neither they nor the collectors catch, at once or once a password opens it, such as
`UnsupportedAlgorithm` for a key type, curve or cipher that the library does not know.
`Raises` says whether a scan meets one of these: `Collector.run` then makes it the error
of the source, which has no assets (`failed`).
`Keyfiles.Parse` gives the entries, with the sub-identifiers the code gives them;
`IdOf` makes ids, which are tuples of what the code joins with colons. `Edit` replaces,
removes or locks a file, `Configure` changes the passwords, `Scan` reads everything;
`Found(place, files, passwords)` is what it finds. The specification is `DiskSpec`, its
parts `DiskInit` and `DiskNext`. What a file may hold (`IsText`, `IsKeyList`, `IsPkcs12`,
`IsJavaStore`, in `DiskAssumption`) is what its container guarantees: blocks and lines are
numbered, a Java keystore has no alias twice, a key or certificate is told from others
by its bytes. `NothingIsPassedOver` is stated from what was put
into the files, without the parsers, and over the findings that `Policy`
raises: what has to be in the report is the key and its finding. It has two arms. A source
that failed has nothing to show, and then something that the scan read has to be of the
kind nobody catches: damage, a lost password or an unreadable file are no excuse. In a
source that did not fail, each key that the files can be seen to hold is reported.
Some files do not show what they hold and count for nothing in it: encrypted
DER, a keystore that is damaged, `bcfks` and what no parser recognizes.

## The runs

| Run | Instance | Shows |
|---|---|---|
| `census` | 2 sources that come and go, one with 2 scopes; a certificate and an asset that names no scope; 4 scans | entries are sightings, absences, removals and undated resolutions are observed, the feed is the inventory, findings outlast outages, first blind spots page, `--require-complete`, the inductive invariant, and that `Census` implements `Ledger` |
| `serve` | 1 client that reads or scrapes, estate up to 3, 1 exception anywhere, 1 restart, all 6 configurations of audit log and webhook, fair | traceable reads, healthy means report, matching change set (in pages and in scrapes), no page skipped, counted once, the report catches up |
| `audit` | 1 process, 4 entries, 2 configurations, kills, errors and short writes anywhere, 1 rotation | what the chain, the kept entries and the record of configuration changes survive; a log that verifies has lost nothing |
| `scan` | gates 3, 5 and 6, webhook with and without URL, signing, estate up to 3, 3 troubles: any exception, any kill, a failing source; fair | exit code 0 means every gate passed, every change told, nothing forgotten, the baseline catches up |
| `collectors` | 14 types; wings of 2 rooms and of 1, 4 items, all rooms or one, 2 failing calls, 1 item created or destroyed | nothing is overlooked, deletions count, a caught failure ends no source of which something was read |
| `estate` | 6 organisations: a key in 40 shapes, a pair, a certificate in 11 shapes, TLS and other endpoints, calls in code, keys with applications; 2 policies each | what got worse pages and exits 5, routine does not page, links agree |
| `access` | 8 deployments: 2 threads that look secrets up, machines, 2 browsers, 2 replicas with a shared session key, no sign-on; clock to 3, 2 starts, 3 provider keys, 2 versions of each secret | secrets are fresh, new keys are honoured, sessions are earned |
| `evidence` | 5 configurations, 11 answers of an authority, 3 commands, 2 keys, clock to 1 | what exit 0 said stands; what verifies is of one scan |
| `disk` | 6 directories of 2 files, 33 contents, 2 sets of passwords | nothing is passed over unless the source failed, ids tell apart |

The bounds are the smallest in which the interesting cases occur. Four scans
are an outage, its continuation, a recovery and one scan more, and let the
certificate go from expiring soon over critical to expired while carried. Two
scopes and an asset without one give every relation of an asset to a gap; one
asset per relation is enough since no rule of the code relates two assets of the
census. Three states of the estate are a change during a round that already
handles one. Four audit entries are a scan, a change of configuration and a scan
after it, or two entries before a kill and two after. Three troubles are an
outage, an exception and a kill in one sequence of runs. One client is enough for
`Serve`: handlers share no state but what they read. Two failing calls lose a
whole wing or source beside one that was read, or an item beside a room; a room
with two items is one that is read in part; one change during the run is one
that meets a call at any point, and a second would be of another item.
In `estate` the two inventories of a comparison are any two, so that longer
histories add nothing but links and marks; there is one shape for each branch of
a rule or of a change kind. In `access` the lifetimes are one or two units, which
gives each relation of before and after that two events and a lifetime can
have; two starts are a restart, three provider keys are one that is known, one that
is new and one that is newer. In `evidence` three commands are one whose remains
are left, one that is killed or fails over them and one that follows. In `disk` two
files are enough for ids to collide, in a file or between two, and each
content is there for one branch of a parser.

Deadlock is checked, with these exceptions: in `CensusResolved.cfg` nothing is left
to do when the bound `MaxScans` is reached; a run of `Collectors` is over when
`collect()` has returned or raised; in `Access.cfg` the bounds end the clock and the
starts, and a site whose settings are refused never starts; in `Evidence.cfg` the
bounds end the commands, the keys and the clock.

Each property of a passing run has a mutant in `PROJECT.json`: a definition of
the model changed the way a plausible bug would change the code, with which TLC
finds the property violated. The mutated forms stand next to the definitions
they are mutants of.

### Disagreements

In three runs TLC finds a counterexample to what the code or a document says.

| Run | Disagreement |
|---|---|
| `census_resolved` | a dated finding of a carried asset is reported resolved by a scan that did not look (`diff.py:216`; `model.py:193`: "It is never resolved by a scan that did not look") |
| `serve_unset` | an empty webhook URL stops the publication of reports (`serve.py:278`; `serve.py:269`: "A delivery failure is logged and swallowed") |
| `estate_rekey` | a re-key to a weaker algorithm is a digest: `_bits` (`changes.py:188`) gives `CryptoAsset.from_dict` too few fields and swallows the `TypeError`, so no strength is ever known (`docs/ALERTING.md:43`: "a re-key to a weaker algorithm. Judged with the same strength model the findings use") |

Others were met while the models were written; the properties of the passing
runs are stated so as to leave them out, and a reader should know of them.

* `changes.py:311` says "(still open)" of a finding whose asset became
  unverified, also when a dated rule has stopped applying to the carried copy.
* `diff.py:230` compares statuses, so a further gap in a source that was already
  partial makes assets unverified with no page to explain it, where
  `docs/DIFF.md:47` has one. `FirstBlindSpotPages` is about the first gap only.
* `scanner.py:82` marks the findings before `linking.apply` adds its own, so an
  unlinked-asset finding of a carried asset stays `verified` (`model.py:192`).
* `scanner.py:55`: a constructor that raises an exception without any text leaves a source
  with an empty error, which counts as complete and without assets.
* An exception between `state.previous = current` (`serve.py:217`) and the swap
  leaves the comparison out of `/changes.json` for ever; it was counted and
  posted.
* A handler that looked before the first swap and reads `ready` after it
  (`serve.py:329`) answers 404 for a report that exists.
* `audit.py:107`: when `fsync` raises after the write, the line is in the file and the
  memory is not advanced; the next entry repeats `seq` and `prev`. A short write
  (`audit.py:106`) goes unnoticed until `verify`. Both show with
  `ChainIntact` and `Failures = {"raise"}` or `{"short"}`.
* `audit.py:106`: a kill between appending the line and replacing the head,
  followed by a rotation before the next start: the new file continues from the
  entry before the last (`audit.py:25-27`). It shows with `ChainIntact` as the
  invariant of `Audit.cfg` and `Failures = {"kill"}`.
* `cronjob.yaml:62`: a pod killed in `cp -r` leaves a truncated
  `latest/inventory.json`, on which every later run fails before it writes
  anything (`docs/HELM.md:12-13`). The condition on `handover` in
  `BaselineRecovers` leaves it out.
* The rows of the table of collectors that say "fails" or "unless":
  `docs/ALERTING.md:55` has that an asset missing because its source was partly
  unreachable is never `asset-removed`, and `docs/ROADMAP.md:49` that a lost
  permission never makes an asset removed.
* Two processes on one log fork the chain: `ChainIntact` with
  `Writers = {serve, scan}` and no failures at all.
* After a rotation, a restart that finds only a new log without a scan.start
  misses a change of configuration (`audit.py:86`).
* `cronjob.yaml:62`: a pod killed between `rm` and `cp` leaves no baseline, and
  the next run starts from nothing. `cronjob.yaml:60`: a run that raised after
  `cbom.json` was written becomes the baseline with its changes untold.
* An empty webhook URL ends the command with 1 where a gate would have said 3
  (`cli.py:187`; `docs/ALERTING.md:114`).
* Exit code 3 wins over 1 although both gates failed (`cli.py:192`;
  `CHANGELOG.md:540`). `ZeroMeansPassed` only asks for a code that is not 0.
* The workflow of `docs/DIFF.md:102` passes a `--baseline` that does not exist in
  its first run, `cli.py:58` requires that it does, and so no run ever uploads
  one.

In the judgements, with `Estate`:

* `changes.py:367` has "unchanged fields keep their value on both sides"; the loop
  below sets them to `None`. With the key size alone decisive, RSA-4096 to
  RSA-3072 pages although both are above every threshold and have the same
  strength class, 3DES to DES is no page, and a curve replaced by a weaker one is
  none either. `RoutineIsNotPaged` and `Worse` are stated to leave these out.
* `is_weak_key_size` rejects AES and HMAC keys below 128 bits, `assess` takes their size
  for their strength, and 112 is the line below which `Worse` calls a key too weak. A
  key that goes from an HMAC key of 120 bits to an AES key of 100 crosses the line
  with the finding it had before, and, strengths being unknown to
  `_strength_direction`, pages nobody. `Ordinary` names the sizes between the two
  lines; the runs have none of them and the theorem excludes them.
* The head of `changes.py` says that every raw field change is classified into a
  kind; some combinations of fields emit nothing.
* `linking.py:295`: without applications `apply` returns before it clears the links
  that a carried asset still has from an earlier configuration. `LinksAgree` is
  about inventories with applications.
* `keycensus link --sbom` resolves its path against the directory of the
  configuration (`cli.py:524`, `linking.py:57`), while click checked it
  against the working directory.
* `keystore-weak-protection` is never raised for a truststore with certificates
  only (`docs/COLLECTORS.md:468`, `docs/POLICY.md:62`).
* `public_halves` (`policy.py:496`) recognizes the public half of a pair by the name
  of its file, whatever key it holds.

In secrets and sign-on, with `Access`:

* `secrets.py` describes its order with the environment first; `BACKENDS`
  (`secrets.py:46`) has files first, and a variable that is not set does not fall
  through to the next reference.
* The Vault token is never renewed nor replaced (`secrets.py:157`): once it has
  expired, each fetch of the process fails.
* A key withdrawn by the provider stays trusted as long as only known key ids are
  asked for (`oidc.py:158`). A token without a key id is checked with the only
  cached key, which nothing makes the process fetch again.
* A connection error while the key set is fetched for a bearer token is not caught
  in `_authenticate` (`serve.py:345`); the connection is dropped without an answer.
* On loopback without any authentication the log says "loopback only, no tokens"
  (`serve.py:429`), and every page but the public ones is answered with 401.
* A second `/login` in another tab replaces the state cookie; the first tab's
  sign-in is refused.

In signing and uploads, with `Evidence`:

* A timestamp that is required and fails raises before the old one is removed
  (`signing.py:127`): the old timestamp stays beside the new signature
  (`signing.py:128`: "never leave a stale timestamp next to a new signature"). The
  command does not exit 0.
* `verify` has "Exit 1 if anything is off" (`cli.py:630`) and does not look at files
  that the manifest does not name.
* `timestamp.required` without `urls` is no timestamp and no error
  (`signing.py:103`).
* `_check_chain` takes the first issuer that matches and does not go back
  (`timestamp.py:199`).
* A server of the fourth generation of Dependency-Track reports a BOM it could not
  process as not processing any more, which `wait` takes for success
  (`dtrack.py:92` is for the fifth). The model's server is of the fifth.

In files and code, with `Disk`:

* Ids are "stable, unique" (`model.py:123`), and `docs/ARCHITECTURE.md:37` has that
  they survive re-scans. One certificate twice in a bundle has one id twice, with one
  asset (an entry of a set in the model). Two locked keys committed on one line of code
  have one id, and so has one certificate that a PKCS #12 file holds under two friendly
  names, which are two assets (`keyfiles.py:240`); `OneToALine` and `NamedOnce` exclude
  the two, and `MCDisk` and the theorems assume them. The id of a key changes
  when a block is put before it, a second key is added to its file, its keystore is
  opened, or a line is put above it in source.
* `UnsupportedAlgorithm` is no `ValueError`: one key of an unknown type or curve, or
  encrypted with an unknown cipher, escapes the parsers (`keyfiles.py:112`, `129`, `158`)
  and the collectors (`pem_files.py:127`, `code.py:540`) and ends the source. All the keys
  that could be read are missing from that scan; a baseline carries them forward as
  unverified, and the source has an error. A JCEKS keystore that ends within a
  sealed object does the same with an `IndexError` (`keyfiles.py:360`).
* Encrypted DER keys yield nothing; `*.bcfks` is among the patterns and is not
  parsed.
* A keystore that is damaged is logged without a gap and its assets are reported
  removed (`pem_files.py:127`); a source file that cannot be read is passed over in
  the same way (`code.py:493`).

In the metrics: the first increment of a new series creates it at 1, which
`increase()` does not see (`prometheus.py:43`; `docs/ALERTING.md:89`: "is the whole
alert").

## Fairness

Safety properties need none. `Serve` assumes `WF(Rescan)`: the daemon's thread is
a loop with a bounded sleep, and every round either completes or raises into the
loop's handler (a remote call that never returns is outside the model; the
collectors and the POST set timeouts). Restarts and exceptions are bounded, which
is the usual "failures stop eventually", and they are no part of `Rescan`.
Nothing is assumed of clients or of the estate. `ScheduledScan` assumes `WF(Run)`:
cron starts runs and a run that is not killed ends. Its troubles are bounded too.

## The proofs

Every theorem holds for all values of the constants that satisfy the named
assumptions of its module (`ConstantsAssumption`, `CensusAssumption`,
`ServeAssumption` and so on), which the runs evaluate on their own values: any
number of assets, sources, connections, processes, browsers, items, faults and
scans. Where a theorem needs more than that, the table says so. Each proof module
has one inductive invariant, `IInv`, its initial case (`Initial`), its inductive
case with one step per action (`Step`) and the theorem that it always holds
(`Invariance`; `Inductive` in `CensusProofs`); TLC checked each `IInv` on the
constants of the component's run before it was proved. Those of `Disk` follow those of
`Collectors` in `CollectorsProofs` and are called `DiskIInv`, `DiskInitial`, `DiskStep` and
`DiskInvariance`. The tables have what a reader can use; the lemmas on the way to it,
such as that an invariant's parts hold, are in the modules.

### Census

| Theorem | States |
|---|---|
| `TypeCorrect` | `Spec => []TypeOK` |
| `BlindSpotsKnown` | while a scan runs, `SourceResult.unverified` is true of exactly the missing assets nobody looked for |
| `SightingsKept` | `Spec => []EntriesAreSightings` |
| `SourcesListed` | every entry is of a source the inventory lists |
| `Inductive` | `Spec => []IInv` |
| `AbsenceObserved` | with carry-forward, `Spec => AbsenceIsObserved` |
| `RemovalsObserved` | with or without it, `Spec => RemovalsAreObserved` |
| `ResolutionsObserved` | with or without it, `Spec => UndatedResolutionsAreObserved` |
| `FindingsOutlast` | with carry-forward, `Spec => FindingsOutlastOutages` |
| `FirstBlindSpotPaged` | with or without it, `Spec => FirstBlindSpotPages` |
| `CompleteFirstHand` | with or without it, `Spec => CompleteIsFirstHand` |
| `FeedCorrect` | with carry-forward, the feed is the inventory |
| `LedgerImplemented` | with carry-forward, `Census` implements `Ledger` |

`IInv` is `TypeOK`, `BlindSpotsAreKnown`, `DatesAreScans`, `EntriesAreSightings`,
`FindingsAreOfEntries` and `EntriesAreOfSources`. `EntriesAreSightings` alone is not
inductive: that a
carried entry is older than the scan needs `DatesAreScans`, and that absence of
an asset means that it was looked for needs to know, in the middle of a scan,
that the gaps reported so far account for everything not found, which is
`BlindSpotsAreKnown`. That a resolved finding was raised on an entry with the
strength its asset was last seen with needs `FindingsAreOfEntries`, and that a source
whose asset went out of sight was in the baseline too, so that `diff_dicts` compares
its status, needs `EntriesAreOfSources`. Each is proved
with the ones before it as lemmas. The pure functions enter through lemmas:
`ScanEntries` (what each entry of a new inventory is), `ScanCoverage`,
`UndatedFindings`, `ReportedResolutions`, `ReportedUnverified`,
`WorseSourceIsReported`, `GapsHide` (the scopes test against a
collector's gaps), `ClassifyType`, `ReportedAssets` (which assets a change report
names under each kind). `RemovalsObserved` and `ResolutionsObserved` need no
assumption on carrying forward because `diff_dicts` asks the new inventory's
coverage about missing assets by itself. The run has `CarryModes = {TRUE}`; what
holds with `--no-carry-forward` is said by the theorems that do not assume it.
The theorems about the feed, the findings and the ledger do. Without
it a scan drops what it could not see from the inventory, which is what
`--no-carry-forward` is for.

### Serve

| Theorem | States |
|---|---|
| `TypeCorrect` | `Spec => []TypeOK` |
| `ReadsTraceable` | `Spec => []ReadsAreTraceable` |
| `HealthyReport` | `Spec => []HealthyMeansReport` |
| `ChangesMatch` | `Spec => []ChangesMatchReport` |
| `Counted` | `Spec => []CountedOnce` |
| `PagesAttempted` | `Spec => NoPageIsSkipped` |

The invariant says where the rescan thread's private variables stand in each step:
the inventory it holds is the one the exporter has (`InventoriesInOrder`), the
comparison at hand leads from `previous` to it (`ReportAtHand`), what is published
was logged (`OutputsRecorded`), a comparison is counted and posted before
`previous` moves (`ComparisonTold`), and a request begun after a client was told
the process is healthy cannot find the report missing (`RequestsServed`). What was
counted never leads past `exported` (`CountsBehind`): that is what orders a scrape's
two reads against the rescan thread's two updates. `CountsInOrder` is why
`CountedOnce` holds: each counted change lies behind `previous` or is the one at hand.

### AuditLog

| Theorem | Assumes | States |
|---|---|---|
| `TypeCorrect` | | `Spec => []TypeOK` |
| `Kept` | | `Spec => []KeptSurvives` |
| `LossNoticed` | | `Spec => []LossIsNoticed` |
| `ChainHolds` | `OneWriter` | `Spec => []ChainSurvives` |
| `ChangesOfConfig` | `OneWriter` | `Spec => []ConfigChangesAreLogged` |

What `write()` returned is kept, and a loss is noticed, for any number of processes
on one file: `O_APPEND` is enough for that. The chain and the changes of
configuration are proved for one process (`OneWriter`, any two writers are the
same), as they are checked: a process remembers the last hash and configuration by
itself, and two of them fork the chain, which `Boot` then finds. `MemoryInOrder`
relates what the process remembers in each step of `write()` to the last line of
the files, and `Recoverable` says where the next process finds that line: in the log
or, after a rotation, in the head; they are needed as soon as there are kills. What
`_last_hash` and the reader of the last `scan.start` do is in lemmas
(`LastOfProperties`, `UnspoiltLog`). `AuditLog` says which lines of a log are
entries by their positions (`EntriesIn`, `StartsIn`), which is what the reading
loops of the code find.

### ScheduledScan

| Theorem | States |
|---|---|
| `TypeCorrect` | `Spec => []TypeOK` |
| `GatesHold` | `Spec => []ZeroMeansPassed` |
| `ChangesTold` | `Spec => EveryChangeIsTold` |
| `Remembered` | `Spec => NothingIsForgotten` |

They hold for every choice of the steps that may fail or be killed. The invariant
says what is in the output folder at each step (`OutputsInOrder`: a `cbom.json` there
means that a whole inventory is), that the file kept is the last inventory handed
over (`BaselineKept`), and what the run has told and passed up to there
(`TellingDone`, `CodeInOrder`).

### Collectors

| Theorem | Assumes | States |
|---|---|---|
| `NothingOverlooked` | `Thorough` | `Spec => []NothingIsOverlooked` |
| `DeletionsNoticed` | `Thorough` | `Spec => []DeletionsCount` |
| `FailureConfined` | `Thorough` | `Spec => FailureIsConfined` |

`Thorough` leaves out what is known not to hold (see the findings and limits above):
the collectors that pass over what they cannot read (`aws-static`, `tls`), whose gaps
no asset names (`cert-manager`) or whose pages can miss a key (`ciphertrust`), a
directory that cannot be listed, and a limit on certificates that is reached. All
other collectors meet one description, `Careful` (lemma `AllCareful`), and the proof
is about that, for any tree of wings, rooms and items, any changes while the
collector walks and any failures. The invariant is that every item that stayed can
still be found by a call that is left, or is covered by a gap (`NothingPassedOver`);
for pages that is: the page has not passed the item's rank.

### Disk

| Theorem | Assumes | States |
|---|---|---|
| `IdsApart` | `OneToALine`, `NamedOnce` | `DiskSpec => []IdsTellApart` |
| `KeysAndCallsSurfaced` | `OneToALine`, `NamedOnce` | `DiskSpec => []NothingIsPassedOver` |

For any number of directories, any files in them, whatever their containers hold, and
any passwords. `DiskIInv` says that what is held of the last scan is what a scan of the
files and passwords of that time finds; the rest is about that one scan, entry by entry.

*Ids.* Each container tells its own entries apart (`PemSubs`, `Pkcs12Subs`, `JavaSubs`,
`SshSubs`, `DerSubs`; together `EntrySubs`): blocks of text by their place and the key's
id, a Java keystore by aliases and places in a chain, PKCS #12 by what a thing is
and whose bytes it has. `FileIds` adds that the one key of a file, which has the
file's name alone for its id, meets no other id, `HardcodingIds` that in source the line
makes up for the place that a block parsed by itself has lost, which is where
`OneToALine` is needed: a key that stays locked has nothing but its line. `GroupIds` says
that calls with one label are one asset.

*Findings.* `PrivateKeysAreSurfaced` needs that ids tell apart, since a finding names an
id. `Tells` is what an asset has to say of a key, `Covers` what an entry has to say of a
secret: each way the fields of an entry are made keeps it (`PrivateKeyTells`,
`UnopenedTells`, `CertifiedTells`, `WeaklyTells`, `JavaTells`), each container has an entry
for each of its secrets (`TextIsCovered`, `KeystoresAreCovered`; `CodeTextIsCovered` for
source, but for what is marked to be ignored), and the default policy reports what an
entry notes (`NotedIsReported`).

*Calls.* `InEcb` says of a call, without the scanner, when a later line sets it to ECB;
`EcbIsSet` shows that the scanner agrees: of the ciphers of that line the last is the last
before the setter (`HasGreatest`), no setter comes before that one, and so it is the first
to reach the call. The others on the line are alike, and `CallsAreGrouped` has
one asset for all that are alike, with every purpose of theirs.

*Failures.* `FailuresAreExplained`: a source that failed read something that raises what
nobody catches. `RaisersAreUnhandled` says so of each container, whatever the
passwords, and `CommittedRaisersAreUnhandled` of the blocks that are parsed alone in source.

### Access

| Theorem | Assumes | States |
|---|---|---|
| `SecretsFresh` | `CacheSeconds > 0` | `Spec => []SecretsAreFresh` |
| `NewKeysHonoured` | | `Spec => []NewKeysAreHonoured` |
| `SessionsEarned` | | `Spec => []SessionsAreEarned` |

For any number of threads, processes, keys, browsers and logins. With
`cache_seconds: 0` nothing is cached and a lookup may last any time, so there is no
bound to prove. `EntriesInOrder` and `LookupsInOrder` say that a value was current
at or after the time it is dated with, whichever thread stored it; `KeysKnown`, that
a cached key set lacks no key that was there when it was fetched;
`StatesInOrder`, `TabsInOrder`, `CodesInOrder` and `SessionsInOrder` follow one login
from the state cookie of its browser through the provider and back to the session,
and bound the time between each two. `AccessAssumption` says of the organisations
that their processes, references and tokens are among those of the model, that the
report is not public and that a static token is not a JWT.

### Evidence

| Theorem | States |
|---|---|
| `Stands` | `Spec => []SuccessStands` |
| `OneScan` | `Spec => []VerifiedIsOneScan` |

What `verify` accepts was written by one command because every file a manifest lists
it lists as one run wrote it (`OneRun`); that in turn rests on `WrittenByThis`: what a
command names as written holds what it wrote, as long as it runs.
`EvidenceAtHand` and `UploadAtHand` are why an exit of 0 can be believed: the step
that exits comes after the manifest, the signature and the answer it speaks of.

### Estate

| Theorem | Assumes | States |
|---|---|---|
| `NothingGetsWorseQuietly` | `NothingDemoted`, `StrengthIsGraded`, `MaterialsAreOrdinary` | `Spec => []WorseMeansPage` |
| `QuietAboutRoutine` | `NothingPromoted` | `Spec => []RoutineIsNotPaged` |
| `LinksAgreeAlways` | | `Spec => []LinksAgree` |
| `EveryAssetWasCollected` | | `Spec => []Stocked` |
| `Invariance` | `StrengthIsGraded` | `Spec => []IInv` |

For any organisations: any shapes of any number of assets, any policies, urgencies and
`applications:` blocks. The assumptions are on what an operator configures:
`changes.urgency` gives a kind that pages no other urgency, or no other kind that one;
no policy turns `weak-algorithm` or `weak-key-size` off or grades them below high (the
property is false of such a policy, as it should be); and no key has a size on which
the two lines of the code differ (see the limits above). `MCEstate` has TLC evaluate
them on its organisations, of whose policies none names one of the two rules.

`QuietAboutRoutine` is about any two inventories: the kinds that page and are said of an
asset in both of them are taken one by one back to the fields that changed
(`PagesAreOfTheWorse`). Its proof is also the proof that `Direction` knows no strengths:
`Side` never has the fields that `Bits` requires. `WorseIsPaged` is the converse, for
all ways of getting worse but weakness itself, which is told by a new finding only.
For that one the invariant `IInv` says that the findings on strength are at all times
those of the assets as they stand (`Faithful`), over scans that fail, carry forward and
relink, and `TooWeakIsRejected` compares `Assess`, table by table, with the two rules.
`LinkingAgrees` is why the links need no invariant of their own: every scan and every
relink makes both sides anew, from names that differ.

### What the proofs changed

Attempting them showed places where a definition could not be reasoned about,
and they were restated, with the same meaning for TLC: CASE expressions whose guards overlap
(the order of the arms is TLC's and not the language's) became IF chains in `Secrets`
and `SignOn`; the log of `AuditLog` is filtered by position; the command of `Evidence`
always has the same fields; the shapes of `Sites` and the finiteness of `Rooms` and
`Items` are named assumptions, as are the fields and the one kind of an asset of
`Estate` and what the containers of `Disk` may hold; the ids of `Disk` are tuples instead
of concatenated strings, and its scan is an operator of the place, the files and the
passwords, so that it can be said of the scan before as of the next one; the fields of a
key with a certificate, of a Java keystore's entries and the label of a call have names
of their own (`Certified`, `JavaKey`, `JavaSecret`, `Label`); the severities of the shipped policy are five sets instead of functions
merged with `@@`, which the provers do not know; a `UNION` among unions has parentheses
(TLC and the provers read it differently without).

### Only model-checked

Of the properties of passing runs, the two on liveness: `ReportCatchesUp` and
`BaselineRecovers`, as liveness under fairness is out of the prover's reach. The runs that
expect a violation are TLC's as well.

## Not modelled

Wording and layout of reports, logs and messages; the CycloneDX, CSV and HTML
exporters and the executive and controls reports; the configuration parser and
`doctor`, which read and print; handshakes and probes of `network`, `ssh_probe`,
`starttls` and `tls_groups`; demo programs, dashboards and deployment manifests
other than the CronJob script. They are functions from data to data, or from a
remote service to data, which examples test well.

Of the modelled parts: the decoding of DER, ASN.1, Java serialization and JWT, and
signatures, which hold or do not; the patterns of each language in `code.py`; the
numbers that the Prometheus exporter derives from an inventory; the TLS of the
listener. `Serve` takes a request as one that was let through, `Access` says who is.
Of the collectors of services, what an asset's fields are read from is left out, as
are the AD CS directory and Voltage, which read one thing or fail.

## Plan

Done, in this order because each rests on the one before: `Inventory`,
`InventoryDiff`, `Census` with `Ledger`; `Serve`; `AuditLog`;
`ScheduledScan`; `Collectors`; then `Strength`, `Policy`, `ChangeReport`, `Linking`
with `Estate`; `Secrets`, `SignOn` with `Access`; `Evidence`; `Keyfiles`,
`SourceCode` with `Disk`; the scrapes of `Serve`.

The proofs, in this order: `Census`, `Serve`, `ScheduledScan`, `AuditLog`, `Evidence`,
`Collectors`, `Access`, `Estate`, `Disk`, each after its run. Every safety property of a
passing run is a theorem now.

What is left is in "Not modelled" and among the limits named above: two processes on one
audit log and a page of CipherTrust that misses a key are where the code, not the model,
would have to change first.
