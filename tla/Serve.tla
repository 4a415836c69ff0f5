---------------------------------- MODULE Serve ----------------------------------
(***************************************************************************)
(* `keycensus serve` (keycensus/serve.py): one thread rescans on a timer,   *)
(* compares each inventory with the one before, counts and posts what       *)
(* changed, renders the outputs, records them in the audit log and swaps    *)
(* them in; the threads of the HTTP server hand out the latest outputs, and *)
(* the metrics, which they read while the other thread is writing them.     *)
(*                                                                          *)
(* The estate is a number that grows when anything worth a page changes; an *)
(* inventory is the number its scan met, so that two inventories differ     *)
(* exactly if a change report between them has a page in it.  What a report *)
(* says is the subject of Census; here it is the two inventories compared.  *)
(***************************************************************************)
EXTENDS Naturals

CONSTANTS
    Clients,      \* the connections a client may have open
    AuditModes,   \* may the configuration have an audit: block
    Webhooks,     \* notifications: "none", "set" or "unset" (the URL is empty)
    MaxEstate,    \* bound: how often the estate changes, plus one
    MaxFaults,    \* bound: exceptions in the rescan loop or in a handler
    MaxRestarts   \* bound: how often the process is killed and started again

ASSUME ServeAssumption ==
    /\ AuditModes \subseteq BOOLEAN
    /\ Webhooks \subseteq {"none", "set", "unset"}
    /\ MaxEstate \in Nat \ {0}
    /\ MaxFaults \in Nat
    /\ MaxRestarts \in Nat

VARIABLES
    conf,      \* what this process read from its configuration file
    estate,    \* what there is to find
    step,      \* where the rescan thread is
    inv,       \* its local inventory
    report,    \* its local change report; NoReport if there was nothing before
    previous,  \* state.previous
    outputs,   \* state.outputs, of which the report and the change report
    ready,     \* state.ready
    exported,  \* collector.inventory, of which the metrics are made
    request,   \* what the handler of each connection is doing
    faults,    \* exceptions met
    restarts,  \* restarts met
    \* history, read by no action:
    ended,     \* the inventories whose outputs the audit log has a scan.end for
    posted,    \* the change reports a POST was attempted for, since the start
    counted,   \* how often record_changes counted each report, since the start
    vouched    \* a client of this process was told it is healthy

bounds == <<conf, estate, faults, restarts>>
local == <<inv, report>>
state == <<previous, outputs, ready, exported>>
history == <<ended, posted, counted, vouched>>
vars == <<step, request, bounds, local, state, history>>

Nothing == 0
Inventories == 1..MaxEstate
NoReport == <<Nothing, Nothing>>
Reports == Inventories \X Inventories

\* A change report has something to tell.
HasPage(rep) == rep[1] # rep[2]

Configurations == [audited: AuditModes, webhook: Webhooks]

NoOutputs == [report |-> Nothing, changes |-> NoReport]

Paths == {"report", "changes"}

\* The body the outputs have at a path.
BodyAt(path) == IF path = "report" THEN outputs.report ELSE outputs.changes[2]

\* A request of which nothing is answered yet.
Request(at, path, told, healthy) ==
    [at |-> at, path |-> path, hit |-> Nothing, code |-> 0, told |-> told,
     vouched |-> healthy]

Idle == Request("idle", "report", Nothing, FALSE)

Steps == {"idle", "scan", "diff", "count", "notify", "tell", "advance", "render",
          "log", "publish", "ready", "sleep"}

Init ==
    /\ conf \in Configurations
    /\ estate = 1
    /\ step = "idle"
    /\ inv = Nothing
    /\ report = NoReport
    /\ previous = Nothing
    /\ outputs = NoOutputs
    /\ ready = FALSE
    /\ exported = Nothing
    /\ request = [c \in Clients |-> Idle]
    /\ faults = 0
    /\ restarts = 0
    /\ ended = {}
    /\ posted = {}
    /\ counted = [r \in Reports |-> 0]
    /\ vouched = FALSE

\* The world moves on.
EstateChanges ==
    /\ estate < MaxEstate
    /\ estate' = estate + 1
    /\ UNCHANGED <<conf, step, request, faults, restarts, local, state, history>>

-----------------------------------------------------------------------------
(* The rescan thread, _rescan_loop                                          *)

\* audit.scan_started, if there is an audit log.
StartScan ==
    /\ step = "idle"
    /\ step' = "scan"
    /\ inv' = Nothing
    /\ report' = NoReport
    /\ UNCHANGED <<request, bounds, state, history>>

\* The thread says it is ready once the first scan is in.
ScanThenReady ==
    /\ step = "scan"
    /\ step' = "diff"
    /\ inv' = estate
    /\ ready' = TRUE
    /\ exported' = estate
    /\ UNCHANGED <<request, bounds, report, previous, outputs, history>>

\* scan(); the exporter has the new inventory from here on.
Scan ==
    /\ step = "scan"
    /\ step' = "diff"
    /\ inv' = estate
    /\ exported' = estate
    /\ UNCHANGED <<request, bounds, report, previous, outputs, ready, history>>

\* The previous inventory is replaced before the changes are sent.
DiffThenAdvance ==
    /\ step = "diff"
    /\ step' = IF previous = Nothing THEN "render" ELSE "notify"
    /\ report' = IF previous = Nothing THEN NoReport ELSE <<previous, inv>>
    /\ previous' = inv
    /\ UNCHANGED <<request, bounds, inv, outputs, ready, exported, history>>

\* diff_dicts and classify: from the second scan on.
Diff ==
    /\ step = "diff"
    /\ IF previous = Nothing
       THEN step' = "advance" /\ UNCHANGED report
       ELSE step' = "count" /\ report' = <<previous, inv>>
    /\ UNCHANGED <<request, bounds, inv, state, history>>

\* record_changes, the totals of the exporter.
Count ==
    /\ step = "count"
    /\ step' = "notify"
    /\ counted' = [counted EXCEPT ![report] = IF @ < 2 THEN @ + 1 ELSE @]
    /\ UNCHANGED <<request, bounds, local, state, ended, posted, vouched>>

\* An exception ends the round; the loop goes on after its sleep.
Abort ==
    /\ step' = "sleep"
    /\ UNCHANGED <<request, local, state>>

\* No notifications, or nothing to send: the latter is still recorded.
NotifyNothing ==
    /\ step = "notify"
    /\ conf.webhook = "none" \/ ~HasPage(report)
    /\ step' = IF conf.webhook = "none" THEN "advance" ELSE "tell"
    /\ UNCHANGED <<request, bounds, local, state, history>>

\* A POST that fails raises.
PostRaises ==
    /\ step = "notify"
    /\ conf.webhook = "set" /\ HasPage(report)
    /\ posted' = posted \union {report}
    /\ \/ step' = "tell" /\ UNCHANGED <<request, local, state>>
       \/ Abort
    /\ UNCHANGED <<bounds, ended, counted, vouched>>

\* send(): delivered, refused by the endpoint, or not delivered at all, the
\* thread goes on.
Post ==
    /\ step = "notify"
    /\ conf.webhook = "set" /\ HasPage(report)
    /\ posted' = posted \union {report}
    /\ step' = "tell"
    /\ UNCHANGED <<request, bounds, local, state, ended, counted, vouched>>

\* cfg.url() raises NotifyError, outside the try of send() and of its caller.
NoUrl ==
    /\ step = "notify"
    /\ conf.webhook = "unset" /\ HasPage(report)
    /\ Abort
    /\ UNCHANGED <<bounds, history>>

\* The previous inventory is replaced at the very end of a round.
TellThenRender ==
    /\ step = "tell"
    /\ step' = "render"
    /\ UNCHANGED <<request, bounds, local, state, history>>

\* webhook_sent
Tell ==
    /\ step = "tell"
    /\ step' = "advance"
    /\ UNCHANGED <<request, bounds, local, state, history>>

Advance ==
    /\ step = "advance"
    /\ step' = "render"
    /\ previous' = inv
    /\ UNCHANGED <<request, bounds, local, outputs, ready, exported, history>>

\* Outputs are swapped in before they are recorded.
RenderThenPublish ==
    /\ step = "render"
    /\ step' = "publish"
    /\ UNCHANGED <<request, bounds, local, state, history>>

\* Rendering, signing and time stamping.
Render ==
    /\ step = "render"
    /\ step' = "log"
    /\ UNCHANGED <<request, bounds, local, state, history>>

\* audit.scan_finished, with the digest of every output.
LogScan ==
    /\ step = "log"
    /\ step' = "publish"
    /\ ended' = IF conf.audited THEN ended \union {inv} ELSE ended
    /\ UNCHANGED <<request, bounds, local, state, posted, counted, vouched>>

\* A comparison that found nothing leaves the change outputs alone.
PublishPagesOnly ==
    /\ step = "publish"
    /\ step' = "ready"
    /\ outputs' = [report |-> inv,
                   changes |-> IF HasPage(report) THEN report ELSE outputs.changes]
    /\ UNCHANGED <<request, bounds, local, previous, ready, exported, history>>

\* The lock is taken and the outputs are swapped ...
Publish ==
    /\ step = "publish"
    /\ step' = "ready"
    /\ outputs' = [report |-> inv, changes |-> report]
    /\ UNCHANGED <<request, bounds, local, previous, ready, exported, history>>

\* ... then ready is set, and the lock released.
SetReady ==
    /\ step = "ready"
    /\ step' = "sleep"
    /\ ready' = TRUE
    /\ UNCHANGED <<request, bounds, local, previous, outputs, exported, history>>

Wake ==
    /\ step = "sleep"
    /\ step' = "idle"
    /\ UNCHANGED <<request, bounds, local, state, history>>

\* Where the loop may meet an exception: the audit log's file, the scan, the
\* renderers, the signer and the time-stamping authority.
MayRaise == \/ step \in {"scan", "render"}
            \/ conf.audited /\ step \in {"idle", "tell", "log"}

\* The exception is not caught: the thread is gone.
RaiseUncaught ==
    /\ MayRaise
    /\ faults < MaxFaults
    /\ faults' = faults + 1
    /\ step' = "dead"
    /\ UNCHANGED <<request, local, state, conf, estate, restarts, history>>

Raise ==
    /\ MayRaise
    /\ faults < MaxFaults
    /\ faults' = faults + 1
    /\ Abort
    /\ UNCHANGED <<conf, estate, restarts, history>>

Rescan ==
    \/ StartScan \/ Scan \/ Diff \/ Count \/ NotifyNothing \/ Post \/ NoUrl \/ Tell
    \/ Advance \/ Render \/ LogScan \/ Publish \/ SetReady \/ Wake

-----------------------------------------------------------------------------
(* The handlers, do_GET, for requests that may be answered                  *)

\* /healthz; ready is read without the lock.
Healthz(c) ==
    /\ request[c].at = "idle"
    /\ vouched' = (vouched \/ ready)
    /\ UNCHANGED <<step, request, bounds, local, state, ended, posted, counted>>

\* A request for one of the outputs, authenticated.
Ask(c) ==
    /\ request[c].at = "idle"
    /\ \E path \in Paths :
          request' = [request EXCEPT ![c] = Request("asked", path, Nothing, vouched)]
    /\ UNCHANGED <<step, bounds, local, state, history>>

\* A request that found what there is at its path, and one with its answer.
Looked(q) == [q EXCEPT !.at = "looked", !.hit = BodyAt(q.path)]
Answered(q, code) == [q EXCEPT !.at = "answered", !.code = code]

\* state.outputs.get(path), under the lock.
Look(c) ==
    /\ request[c].at = "asked"
    /\ step # "ready"
    /\ request' = [request EXCEPT ![c] = Looked(@)]
    /\ UNCHANGED <<step, bounds, local, state, history>>

\* Nothing there: ready tells why, and is read after the lock was released.
Miss(c) ==
    /\ request[c].at = "looked"
    /\ request[c].hit = Nothing
    /\ request' = [request EXCEPT ![c] = Answered(@, IF ready THEN 404 ELSE 503)]
    /\ UNCHANGED <<step, bounds, local, state, history>>

\* audit.write("serve.read", ...), then the body.
Answer(c) ==
    /\ request[c].at = "looked"
    /\ request[c].hit # Nothing
    /\ request' = [request EXCEPT ![c] = Answered(@, 200)]
    /\ UNCHANGED <<step, bounds, local, state, history>>

\* The audit log cannot be written: the connection ends without an answer.
Drop(c) ==
    /\ conf.audited
    /\ request[c].at = "looked"
    /\ request[c].hit # Nothing
    /\ faults < MaxFaults
    /\ faults' = faults + 1
    /\ request' = [request EXCEPT ![c] = Idle]
    /\ UNCHANGED <<conf, step, estate, restarts, local, state, history>>

\* The inventories that the changes counted led to.
CountedInventories ==
    {Nothing} \union {r[2] : r \in {x \in Reports : HasPage(x) /\ counted[x] > 0}}

\* A request for the metrics: InventoryCollector.collect(), without a lock, reads
\* first the counters ...
ScrapeCounters(c) ==
    /\ request[c].at = "idle"
    /\ \E newest \in CountedInventories :
          /\ \A other \in CountedInventories : other <= newest
          /\ request' = [request EXCEPT
                            ![c] = Request("scraping", "metrics", newest, FALSE)]
    /\ UNCHANGED <<step, bounds, local, state, history>>

\* ... then the inventory, if there is one, and answers with both.
ScrapeInventory(c) ==
    /\ request[c].at = "scraping"
    /\ request' = [request EXCEPT ![c] = Idle]
    /\ UNCHANGED <<step, bounds, local, state, history>>

\* The client is done with the answer.
Done(c) ==
    /\ request[c].at = "answered"
    /\ request' = [request EXCEPT ![c] = Idle]
    /\ UNCHANGED <<step, bounds, local, state, history>>

Handle(c) ==
    \/ Healthz(c) \/ Ask(c) \/ Look(c) \/ Miss(c) \/ Answer(c)
    \/ ScrapeCounters(c) \/ ScrapeInventory(c) \/ Done(c)

-----------------------------------------------------------------------------

\* The process is killed and started again, perhaps with another configuration:
\* only the audit log is left.
Restart ==
    /\ conf' \in Configurations
    /\ restarts < MaxRestarts
    /\ restarts' = restarts + 1
    /\ step' = "idle"
    /\ inv' = Nothing
    /\ report' = NoReport
    /\ previous' = Nothing
    /\ outputs' = NoOutputs
    /\ ready' = FALSE
    /\ exported' = Nothing
    /\ request' = [c \in Clients |-> Idle]
    /\ posted' = {}
    /\ counted' = [r \in Reports |-> 0]
    /\ vouched' = FALSE
    /\ UNCHANGED <<estate, faults, ended>>

Next ==
    \/ EstateChanges
    \/ Rescan
    \/ Raise
    \/ \E c \in Clients : Handle(c) \/ Drop(c)
    \/ Restart

Spec == Init /\ [][Next]_vars

\* The rescan thread is never starved, its sleep and its POST end (both have a
\* limit), and a scan ends; exceptions and restarts are not kept up for ever.
\* Of the estate and of the clients nothing is assumed.
FairSpec == Spec /\ WF_vars(Rescan)

-----------------------------------------------------------------------------
(* Properties                                                               *)

Answers == [at: {"idle", "asked", "looked", "scraping", "answered"},
            path: Paths \union {"metrics"},
            hit: Inventories \union {Nothing}, code: {0, 200, 404, 503},
            told: Inventories \union {Nothing}, vouched: BOOLEAN]

\* The shape of the state.
TypeOK ==
    /\ conf \in Configurations
    /\ estate \in Inventories
    /\ step \in Steps
    /\ inv \in Inventories \union {Nothing}
    /\ report \in Reports \union {NoReport}
    /\ previous \in Inventories \union {Nothing}
    /\ outputs \in [report: Inventories \union {Nothing},
                    changes: Reports \union {NoReport}]
    /\ ready \in BOOLEAN
    /\ exported \in Inventories \union {Nothing}
    /\ request \in [Clients -> Answers]
    /\ faults \in 0..MaxFaults
    /\ restarts \in 0..MaxRestarts
    /\ ended \subseteq Inventories
    /\ posted \subseteq Reports
    /\ counted \in [Reports -> 0..2]
    /\ vouched \in BOOLEAN

\* Whatever is handed out of the outputs, across restarts and failed scans, is
\* something the audit log has the digests of: an inventory that a scan.end was
\* written for (serve.py: scan_finished comes before the swap).
ReadsAreTraceable ==
    conf.audited => \A c \in Clients :
        request[c].hit # Nothing => request[c].hit \in ended

\* Once any client was told that the process is healthy, no request made from
\* then on for the report is answered "not found" or "not finished yet" (the
\* readiness probe of the Helm chart relies on it).
HealthyMeansReport ==
    \A c \in Clients :
        request[c].at = "answered" /\ request[c].path = "report" /\ request[c].vouched
        => request[c].code = 200

\* With a webhook, no change is passed over: when an inventory takes the place
\* of the one before, the two were compared and, if they differ, a POST of the
\* comparison was attempted.
NoPageIsSkipped ==
    [][previous # Nothing /\ previous' # Nothing /\ previous' # previous
       => /\ counted[<<previous, previous'>>] > 0
          /\ conf.webhook = "set" => <<previous, previous'>> \in posted]_vars

\* keycensus_change_total is a count of the changes "since the exporter
\* started": every change of the estate is in at most one of the comparisons
\* counted, and in that one once.  Not so when a round can be cut short between
\* the counting and the replacement of the previous inventory, by webhook_sent
\* (audited) or by an empty URL: the next round counts the same changes again.
CountedOnce ==
    ~conf.audited /\ conf.webhook # "unset" =>
    \A r, q \in {x \in Reports : HasPage(x) /\ counted[x] > 0} :
        /\ counted[r] = 1
        /\ r # q => r[2] <= q[1] \/ q[2] <= r[1]

\* Changes never stand beside an inventory that does not have them yet.  The change
\* report that is published leads to the inventory published with it; and a scrape,
\* which reads the counters and then the inventory while the rescan thread goes on
\* writing both, has at no time counted a change that leads further than the
\* inventory it is about to read.
ChangesMatchReport ==
    /\ outputs.changes # NoReport => outputs.changes[2] = outputs.report
    /\ \A c \in Clients :
          request[c].at = "scraping" => request[c].told <= exported

\* The thread that rescans survives its failures: when the estate has stopped
\* changing, the report is in the end that of the estate ("the scanner's job is
\* to keep scanning", _maybe_notify), with a webhook or without.
ReportAlwaysCatchesUp == <>[](outputs.report = estate)

\* It is, unless the webhook is configured and its URL is empty.
ReportCatchesUp == <>[](conf.webhook # "unset" => outputs.report = estate)
=============================================================================
