------------------------------ MODULE ScheduledScan ------------------------------
(***************************************************************************)
(* `keycensus scan --baseline` run after run (keycensus/cli.py, scan), and  *)
(* the hand-over of one run's inventory as the next one's baseline by the   *)
(* shell script of the Helm chart's CronJob (helm/keycensus/templates/      *)
(* cronjob.yaml).  A run may meet an exception in any step, and its pod may *)
(* be killed between any two.                                               *)
(*                                                                          *)
(* The estate is a number.  1 is the estate without a serious finding; each *)
(* change of it brings one.  An inventory is the number its scan met; Empty *)
(* is the inventory of a scan whose source failed and that had nothing to   *)
(* carry forward.  How a scan builds its inventory is the subject of Census.*)
(***************************************************************************)
EXTENDS Integers, FiniteSets

CONSTANTS
    Gates,       \* the gates switched on, and so the codes they exit with
    Webhooks,    \* what notifications may be: "none", "set", or "unset": the
                 \* environment variable with the URL is empty
    Signs,       \* the configuration has a signing: block
    Faulty,      \* the steps that may meet an exception
    Deadly,      \* the steps in which the pod may be killed
    MaxEstate,   \* bound: how often the estate changes, plus one
    MaxTroubles  \* bound: exceptions, kills and outages of the source

Steps == {"idle", "start", "scan", "json", "cbom", "rest", "diff", "notify",
          "gate", "sign", "finish", "exited", "remove", "copy", "done"}

\* --fail-on, --fail-on-new, --fail-on-page and --require-complete.
GateCodes == {1, 3, 5, 6}

ASSUME ScheduleAssumption ==
    /\ Gates \subseteq GateCodes
    /\ Webhooks \subseteq {"none", "set", "unset"}
    /\ Signs \in BOOLEAN
    /\ Faulty \subseteq Steps \ {"idle", "gate", "exited", "done"}
    /\ Deadly \subseteq Steps \ {"idle"}
    /\ MaxEstate \in Nat \ {0}
    /\ MaxTroubles \in Nat

VARIABLES
    estate,    \* what there is to find
    kept,      \* the file the next run takes for its baseline
    step,      \* where the run is
    base,      \* the baseline this run has loaded
    inv,       \* its inventory
    failed,    \* its source failed
    out,       \* its output directory: inventory.json, cbom.json
    rc,        \* the exit code, as far as it is known
    troubles,  \* exceptions, kills and outages met
    \* history, read by no action:
    basis,     \* the last inventory that was handed over
    written,   \* the comparisons that are in a changes.json
    posted,    \* the comparisons a POST was attempted for
    exits,     \* of the last run that exited by itself: its code and the codes
               \* of the gates it should not have passed
    cut        \* "telling": a run raised on its way from the CBOM to the gates;
               \* "handover": one was cut short while it replaced the baseline

run == <<base, inv, failed, out, rc>>
history == <<basis, written, posted, exits, cut>>
vars == <<estate, kept, step, run, troubles, history>>

Empty == 0
Inventories == 0..MaxEstate
NoFile == -1
Torn == -2
Files == Inventories \union {NoFile, Torn}

Comparisons == Inventories \X Inventories
Compared == <<base, inv>>

HasBaseline == base # NoFile

Serious(i) == i >= 2
\* Something in the comparison pages, and there is a new serious finding.
HasNews(c) == c[2] > c[1] /\ Serious(c[2])

NoOutput == [inventory |-> NoFile, cbom |-> FALSE]

Init ==
    /\ estate = 1
    /\ kept = NoFile
    /\ step = "idle"
    /\ base = NoFile
    /\ inv = Empty
    /\ failed = FALSE
    /\ out = NoOutput
    /\ rc = 0
    /\ troubles = 0
    /\ basis = NoFile
    /\ written = {}
    /\ posted = {}
    /\ exits = [code |-> 0, due |-> {}]
    /\ cut = {}

\* The world moves on.
EstateChanges ==
    /\ estate < MaxEstate
    /\ estate' = estate + 1
    /\ UNCHANGED <<kept, step, run, troubles, history>>

-----------------------------------------------------------------------------
(* keycensus scan                                                           *)

\* A new output directory; --baseline is passed if there is one to pass.
StartRun ==
    /\ step = "idle"
    /\ step' = "start"
    /\ out' = NoOutput
    /\ inv' = Empty
    /\ base' = NoFile
    /\ failed' = FALSE
    /\ rc' = 0
    /\ UNCHANGED <<estate, kept, troubles, history>>

\* The process ends here with this exit code.
Quit(code) == step' = "exited" /\ rc' = code

\* load_inventory_dict and audit.scan_started.
LoadBaseline ==
    /\ step = "start"
    /\ IF kept = Torn
       THEN Quit(1) /\ UNCHANGED base
       ELSE step' = "scan" /\ base' = kept /\ UNCHANGED rc
    /\ UNCHANGED <<estate, kept, inv, failed, out, troubles, history>>

\* The scan is not given the baseline: nothing is carried forward.
RunScanBare ==
    /\ step = "scan"
    /\ step' = "json"
    /\ \/ inv' = estate /\ failed' = FALSE /\ UNCHANGED troubles
       \/ /\ troubles < MaxTroubles
          /\ troubles' = troubles + 1
          /\ failed' = TRUE
          /\ inv' = Empty
    /\ UNCHANGED <<estate, kept, base, out, rc, history>>

\* The source answers, or it fails and its assets are carried forward.
RunScan ==
    /\ step = "scan"
    /\ step' = "json"
    /\ \/ inv' = estate /\ failed' = FALSE /\ UNCHANGED troubles
       \/ /\ troubles < MaxTroubles
          /\ troubles' = troubles + 1
          /\ failed' = TRUE
          /\ inv' = IF HasBaseline THEN base ELSE Empty
    /\ UNCHANGED <<estate, kept, base, out, rc, history>>

\* The outputs, in the order of the default formats.
WriteJson ==
    /\ step = "json"
    /\ step' = "cbom"
    /\ out' = [out EXCEPT !.inventory = inv]
    /\ UNCHANGED <<estate, kept, base, inv, failed, rc, troubles, history>>

WriteCbom ==
    /\ step = "cbom"
    /\ step' = "rest"
    /\ out' = [out EXCEPT !.cbom = TRUE]
    /\ UNCHANGED <<estate, kept, base, inv, failed, rc, troubles, history>>

\* inventory.csv and report.html, and the summary on the terminal.
WriteRest ==
    /\ step = "rest"
    /\ step' = IF HasBaseline THEN "diff" ELSE "sign"
    /\ UNCHANGED <<estate, kept, run, troubles, history>>

\* Only what is worth a page is written down.
WriteDiffIfNews ==
    /\ step = "diff"
    /\ step' = "notify"
    /\ written' = IF HasNews(Compared) THEN written \union {Compared} ELSE written
    /\ UNCHANGED <<estate, kept, run, troubles, basis, posted, exits, cut>>

\* diff.json, diff.md and changes.json.
WriteDiff ==
    /\ step = "diff"
    /\ step' = "notify"
    /\ written' = written \union {Compared}
    /\ UNCHANGED <<estate, kept, run, troubles, basis, posted, exits, cut>>

\* _notify: nothing configured, or nothing that pages.
NotifyNothing ==
    /\ step = "notify"
    /\ "none" \in Webhooks \/ ~HasNews(Compared)
    /\ step' = "gate"
    /\ UNCHANGED <<estate, kept, run, troubles, history>>

\* A POST, whether it is delivered or not.
Notify ==
    /\ step = "notify"
    /\ "set" \in Webhooks /\ HasNews(Compared)
    /\ step' = "gate"
    /\ posted' = posted \union {Compared}
    /\ UNCHANGED <<estate, kept, run, troubles, basis, written, exits, cut>>

\* The URL is empty: NotifyError is caught neither in send nor in _notify.
NotifyNoUrl ==
    /\ step = "notify"
    /\ "unset" \in Webhooks /\ HasNews(Compared)
    /\ Quit(1)
    /\ cut' = cut \union {"telling"}
    /\ UNCHANGED <<estate, kept, base, inv, failed, out, troubles,
                   basis, written, posted, exits>>

\* --fail-on-new, then --fail-on-page.
GateChanges ==
    /\ step = "gate"
    /\ step' = "sign"
    /\ rc' = IF 3 \in Gates /\ HasNews(Compared) THEN 3
             ELSE IF 5 \in Gates /\ HasNews(Compared) THEN 5 ELSE rc
    /\ UNCHANGED <<estate, kept, base, inv, failed, out, troubles, history>>

\* sign_dir and scan.signed.
Sign ==
    /\ step = "sign"
    /\ step' = "finish"
    /\ UNCHANGED <<estate, kept, run, troubles, history>>

\* The last gates forget what the first ones found.
OrReset(code) ==
    IF 1 \in Gates /\ Serious(inv) THEN 1 ELSE IF failed THEN 2 ELSE 0

\* The codes are added up.
OrSum(code) ==
    code + (IF 1 \in Gates /\ Serious(inv) THEN 1 ELSE 0)
         + (IF failed THEN 2 ELSE 0) + (IF 6 \in Gates /\ failed THEN 6 ELSE 0)

\* The exit code, when an earlier gate or none has set it.
OrElse(code) ==
    IF code # 0 THEN code
    ELSE IF 1 \in Gates /\ Serious(inv) THEN 1
    ELSE IF failed THEN 2
    ELSE IF 6 \in Gates /\ failed THEN 6 ELSE 0

\* audit.scan_finished, then --fail-on, a failed source, --require-complete.
Finish ==
    /\ step = "finish"
    /\ Quit(OrElse(rc))
    /\ UNCHANGED <<estate, kept, base, inv, failed, out, troubles, history>>

-----------------------------------------------------------------------------
(* The shell script around it                                               *)

\* The codes that apply to a run that got this far.
Due == (IF HasBaseline /\ HasNews(Compared) THEN Gates \cap {3, 5} ELSE {})
       \union (IF Serious(inv) THEN Gates \cap {1} ELSE {})
       \union (IF failed THEN {2} \union (Gates \cap {6}) ELSE {})

\* The script looks for the wrong one of the outputs.
ExitedByInventory ==
    /\ step = "exited"
    /\ step' = IF out.inventory # NoFile THEN "remove" ELSE "done"
    /\ exits' = [code |-> rc, due |-> Due]
    /\ UNCHANGED <<estate, kept, run, troubles, basis, written, posted, cut>>

\* "scan itself crashed: nothing to keep or upload"
Exited ==
    /\ step = "exited"
    /\ step' = IF out.cbom THEN "remove" ELSE "done"
    /\ exits' = [code |-> rc, due |-> Due]
    /\ UNCHANGED <<estate, kept, run, troubles, basis, written, posted, cut>>

\* rm -rf /out/latest
RemoveLatest ==
    /\ step = "remove"
    /\ step' = "copy"
    /\ kept' = NoFile
    /\ UNCHANGED <<estate, run, troubles, history>>

\* cp -r "$OUT" /out/latest
CopyLatest ==
    /\ step = "copy"
    /\ step' = "done"
    /\ kept' = out.inventory
    /\ basis' = IF out.inventory \in Inventories THEN out.inventory ELSE basis
    /\ UNCHANGED <<estate, run, troubles, written, posted, exits, cut>>

\* The job is over; the next one starts on schedule.
EndRun ==
    /\ step = "done"
    /\ step' = "idle"
    /\ UNCHANGED <<estate, kept, run, troubles, history>>

Run == \/ StartRun \/ LoadBaseline \/ RunScan
       \/ WriteJson \/ WriteCbom \/ WriteRest \/ WriteDiff
       \/ Notify \/ NotifyNothing \/ NotifyNoUrl \/ GateChanges \/ Sign \/ Finish
       \/ Exited \/ RemoveLatest \/ CopyLatest \/ EndRun

-----------------------------------------------------------------------------
(* What may go wrong                                                        *)

Trouble == troubles < MaxTroubles /\ troubles' = troubles + 1

\* The steps in which the baseline is replaced, and those in which a run that
\* raises has its outputs taken for complete before the changes are told.
Handover == {"remove", "copy"}
Telling == {"cbom", "rest", "diff", "notify"}

\* What a step that is cut short leaves of the file it is writing: nothing, a
\* part of it, or all of it.  cp -r and rm -rf go through latest/ file by file.
Halfway ==
    /\ out' \in IF step = "json"
                THEN {[out EXCEPT !.inventory = f] : f \in {NoFile, Torn, inv}}
                ELSE IF step = "cbom"
                THEN {[out EXCEPT !.cbom = b] : b \in BOOLEAN} ELSE {out}
    /\ kept' \in IF step = "remove" THEN {kept, NoFile}
                 ELSE IF step = "copy"
                 THEN {NoFile, Torn, out.inventory} ELSE {kept}
    /\ basis' = IF step = "copy" /\ kept' \in Inventories THEN kept' ELSE basis
    /\ UNCHANGED <<estate, base, inv, failed, written, posted, exits>>

\* An exception: a renderer, the disk, the audit log, the signing key, a
\* required timestamp.  One of the script's own commands may fail the same way.
Raise ==
    /\ step \in Faulty
    /\ step = "sign" => Signs
    /\ Trouble
    /\ Halfway
    /\ cut' = cut \union (IF step \in Telling THEN {"telling"} ELSE {})
                  \union (IF step \in Handover THEN {"handover"} ELSE {})
    /\ IF step \in Handover
       THEN step' = "done" /\ UNCHANGED rc
       ELSE Quit(1)

\* The pod is killed: nothing after this step happens.
Kill ==
    /\ step \in Deadly
    /\ Trouble
    /\ Halfway
    /\ cut' = cut \union (IF step \in Handover THEN {"handover"} ELSE {})
    /\ step' = "idle"
    /\ UNCHANGED rc

Next == EstateChanges \/ Run \/ Raise \/ Kill

Spec == Init /\ [][Next]_vars

\* Every run comes to an end and the next one is started; troubles do not last
\* for ever.  Nothing is assumed of the estate.
FairSpec == Spec /\ WF_vars(Run)

-----------------------------------------------------------------------------
(* Properties                                                               *)

\* The shape of the state.
TypeOK ==
    /\ estate \in Inventories \ {Empty}
    /\ kept \in Files
    /\ step \in Steps
    /\ base \in Inventories \union {NoFile}
    /\ inv \in Inventories
    /\ failed \in BOOLEAN
    /\ out \in [inventory: Files, cbom: BOOLEAN]
    /\ rc \in 0..6
    /\ troubles \in 0..MaxTroubles
    /\ basis \in Inventories \union {NoFile}
    /\ written \subseteq Comparisons
    /\ posted \subseteq Comparisons
    /\ exits \in [code: 0..6, due: SUBSET (GateCodes \union {2})]
    /\ cut \subseteq {"telling", "handover"}

\* No change of the estate passes between two baselines unseen: before one
\* inventory follows another, a changes.json compares the two, and the webhook
\* was tried if there is one ("every run produces a classified change set",
\* docs/HELM.md).  A run that raised half way, and became the baseline all the
\* same, or that was cut short in replacing it, breaks this.
EveryChangeIsTold ==
    [][cut' = {} /\ basis # NoFile /\ basis' # basis
       => /\ <<basis, basis'>> \in written
          /\ "none" \notin Webhooks /\ HasNews(<<basis, basis'>>)
             => <<basis, basis'>> \in posted]_vars

\* What one baseline knew the next ones know: no run forgets an asset because
\* it could not look (scanner.py, first lines), unless one was cut short while
\* it replaced the baseline.
NothingIsForgotten ==
    [][basis > Empty => basis' > Empty \/ "handover" \in cut']_vars

\* A run that exits with 0 had nothing to fail for: whatever was in the way of
\* its writing, notifying and signing, no gate is passed by mistake.
ZeroMeansPassed == exits.code = 0 => exits.due = {}

\* Whatever goes wrong for a while, in the end every run starts from a baseline
\* that is the estate as it is (docs/HELM.md: "every run"), unless a run was cut
\* short while it replaced the baseline: half a copy is what all later runs fail on.
BaselineRecovers ==
    <>[]("handover" \notin cut /\ step = "start" => kept = estate)
=============================================================================
