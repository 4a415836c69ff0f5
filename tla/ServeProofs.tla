------------------------------- MODULE ServeProofs -------------------------------
(***************************************************************************)
(* Proofs about Serve, for any number of connections, any estate, and any   *)
(* number of exceptions and restarts.                                       *)
(***************************************************************************)
EXTENDS Serve, TLAPS

USE ServeAssumption

\* The steps of a round from the scan on.
InRound == Steps \ {"idle", "scan", "sleep"}

\* Steps in which the previous inventory is that of the round already.
Advanced == {"render", "log", "publish", "ready"}

\* The thread's inventory is the one the exporter has; nothing known is newer
\* than what there is to find.
InventoriesInOrder ==
    /\ exported <= estate
    /\ previous <= exported
    /\ step \in InRound => inv = exported /\ inv # Nothing
    /\ step \in Advanced => previous = inv

\* The comparison at hand leads from the previous inventory to this one.
ReportAtHand ==
    /\ step \in {"scan", "diff"} => report = NoReport
    /\ step \in {"count", "notify", "tell"} =>
          previous # Nothing /\ report = <<previous, inv>>
    /\ step = "advance" =>
          report = IF previous = Nothing THEN NoReport ELSE <<previous, inv>>
    /\ step \in Advanced => report = NoReport \/ report[2] = inv

\* What is published is a report and the changes that led to it, and in the audit log.
OutputsRecorded ==
    /\ outputs.changes # NoReport => outputs.changes[2] = outputs.report
    /\ step = "ready" => outputs.report # Nothing
    /\ ready => outputs.report # Nothing
    /\ conf.audited => outputs.report \in ended \union {Nothing}
    /\ conf.audited /\ step = "publish" => inv \in ended

\* Who asks after the process was called healthy finds a report.
RequestsServed ==
    /\ vouched => ready
    /\ \A c \in Clients :
          /\ request[c].vouched => ready
          /\ request[c].at \in {"looked", "answered"} /\ request[c].path = "report"
             /\ request[c].vouched => request[c].hit # Nothing
          /\ request[c].at = "answered" /\ request[c].hit # Nothing => request[c].code = 200

\* Nothing counted leads further than what the exporter has.
CountsBehind ==
    /\ \A r \in Reports : counted[r] > 0 => r[2] <= exported
    /\ \A c \in Clients : request[c].at = "scraping" => request[c].told <= exported

\* Where no round is cut short after the counting, each change counted is behind the
\* previous inventory, or is the one at hand.
CountsInOrder ==
    ~conf.audited /\ conf.webhook # "unset" =>
    /\ \A r \in Reports : HasPage(r) /\ counted[r] > 0 =>
          /\ counted[r] = 1
          /\ r[1] < r[2]
          /\ r[2] <= previous \/ (step \in {"notify", "tell", "advance"} /\ r = report)
    /\ CountedOnce

\* What is about to become the previous inventory was compared with the one before.
ComparisonTold ==
    /\ step \in {"notify", "tell", "advance"} /\ previous # Nothing =>
          counted[<<previous, inv>>] > 0
    /\ step \in {"tell", "advance"} /\ previous # Nothing /\ previous # inv
       /\ conf.webhook = "set" => <<previous, inv>> \in posted

\* The inductive invariant: together these hold in every reachable state.
IInv ==
    /\ TypeOK /\ InventoriesInOrder /\ ReportAtHand /\ OutputsRecorded
    /\ ReadsAreTraceable /\ RequestsServed /\ CountsBehind /\ CountsInOrder
    /\ ComparisonTold

-----------------------------------------------------------------------------
(* Operators                                                                *)

\* What the two updates of a request make of it.
LEMMA Updates ==
    ASSUME NEW q \in Answers, NEW code
    PROVE  /\ Looked(q) = [at |-> "looked", path |-> q.path, hit |-> BodyAt(q.path),
                           code |-> q.code, told |-> q.told, vouched |-> q.vouched]
           /\ Answered(q, code) = [at |-> "answered", path |-> q.path, hit |-> q.hit,
                           code |-> code, told |-> q.told, vouched |-> q.vouched]
<1>1. q = [at |-> q.at, path |-> q.path, hit |-> q.hit, code |-> q.code,
           told |-> q.told, vouched |-> q.vouched]
  BY DEF Answers
<1>2. ASSUME NEW a, NEW p, NEW h, NEW k, NEW t, NEW v, NEW b
      PROVE  /\ [[at |-> a, path |-> p, hit |-> h, code |-> k, told |-> t, vouched |-> v]
                    EXCEPT !.at = b]
                = [at |-> b, path |-> p, hit |-> h, code |-> k, told |-> t, vouched |-> v]
             /\ [[at |-> a, path |-> p, hit |-> h, code |-> k, told |-> t, vouched |-> v]
                    EXCEPT !.hit = b]
                = [at |-> a, path |-> p, hit |-> b, code |-> k, told |-> t, vouched |-> v]
             /\ [[at |-> a, path |-> p, hit |-> h, code |-> k, told |-> t, vouched |-> v]
                    EXCEPT !.code = b]
                = [at |-> a, path |-> p, hit |-> h, code |-> b, told |-> t, vouched |-> v]
  OBVIOUS
<1>3. PICK a, p, h, k, t, v :
         q = [at |-> a, path |-> p, hit |-> h, code |-> k, told |-> t, vouched |-> v]
  BY <1>1
<1>4. a = q.at /\ p = q.path /\ h = q.hit /\ k = q.code /\ t = q.told /\ v = q.vouched
  BY <1>3
<1>5. Looked(q) = [at |-> "looked", path |-> p, hit |-> BodyAt(q.path), code |-> k, told |-> t, vouched |-> v]
  <2>1. [q EXCEPT !.at = "looked"] = [at |-> "looked", path |-> p, hit |-> h, code |-> k, told |-> t, vouched |-> v]
    BY <1>3
  <2>2. [[at |-> "looked", path |-> p, hit |-> h, code |-> k, told |-> t, vouched |-> v]
            EXCEPT !.hit = BodyAt(q.path)] = [at |-> "looked", path |-> p, hit |-> BodyAt(q.path), code |-> k, told |-> t, vouched |-> v]
    BY <1>2
  <2> QED BY <2>1, <2>2, Zenon DEF Looked
<1>6. Answered(q, code) = [at |-> "answered", path |-> p, hit |-> h, code |-> code, told |-> t, vouched |-> v]
  <2>1. [q EXCEPT !.at = "answered"] = [at |-> "answered", path |-> p, hit |-> h, code |-> k, told |-> t, vouched |-> v]
    BY <1>3
  <2>2. [[at |-> "answered", path |-> p, hit |-> h, code |-> k, told |-> t, vouched |-> v]
            EXCEPT !.code = code] = [at |-> "answered", path |-> p, hit |-> h, code |-> code, told |-> t, vouched |-> v]
    BY <1>2
  <2> QED BY <2>1, <2>2, Zenon DEF Answered
<1> QED BY <1>4, <1>5, <1>6

-----------------------------------------------------------------------------
(* The inductive invariant                                                  *)

\* Every step keeps the inductive invariant.
LEMMA Step == IInv /\ [Next]_vars => IInv'
<1> SUFFICES ASSUME IInv, [Next]_vars PROVE IInv'
  OBVIOUS
<1>0. /\ TypeOK /\ InventoriesInOrder /\ ReportAtHand /\ OutputsRecorded
      /\ ReadsAreTraceable /\ RequestsServed /\ CountsBehind /\ CountsInOrder
      /\ ComparisonTold
  BY DEF IInv
<1> USE <1>0 DEF Inventories, Nothing, Steps, InRound, Advanced, bounds, local, state, history
<1>1. CASE EstateChanges
  <2>1. /\ TypeOK' /\ InventoriesInOrder' /\ ReportAtHand' /\ OutputsRecorded'
        /\ ReadsAreTraceable' /\ RequestsServed'
    BY <1>1 DEF EstateChanges, TypeOK, Reports, NoReport, InventoriesInOrder,
       ReportAtHand, OutputsRecorded, ReadsAreTraceable, RequestsServed
  <2>2. CountsBehind' /\ CountsInOrder' /\ ComparisonTold'
    BY <1>1 DEF EstateChanges, CountsBehind, Answers, TypeOK, Reports,
       InventoriesInOrder, ReportAtHand, CountsInOrder, CountedOnce, NoReport, HasPage,
       ComparisonTold
  <2> QED BY <2>1, <2>2 DEF IInv
<1>2. CASE StartScan
  <2>1. /\ TypeOK' /\ InventoriesInOrder' /\ ReportAtHand' /\ OutputsRecorded'
        /\ ReadsAreTraceable' /\ RequestsServed'
    BY <1>2 DEF StartScan, TypeOK, Reports, NoReport, InventoriesInOrder, ReportAtHand,
       OutputsRecorded, ReadsAreTraceable, RequestsServed
  <2>2. CountsBehind' /\ CountsInOrder' /\ ComparisonTold'
    BY <1>2 DEF StartScan, CountsBehind, Answers, TypeOK, Reports, InventoriesInOrder,
       ReportAtHand, CountsInOrder, CountedOnce, NoReport, HasPage, ComparisonTold
  <2> QED BY <2>1, <2>2 DEF IInv
<1>3. CASE Scan
  <2>1. TypeOK'
    BY <1>3 DEF Scan, TypeOK, Reports, NoReport, InventoriesInOrder
  <2>2. InventoriesInOrder' /\ ReportAtHand'
    BY <1>3 DEF Scan, InventoriesInOrder, TypeOK, ReportAtHand, NoReport
  <2>3. OutputsRecorded' /\ ReadsAreTraceable' /\ RequestsServed'
    BY <1>3 DEF Scan, OutputsRecorded, ReportAtHand, InventoriesInOrder, NoReport,
       ReadsAreTraceable, TypeOK, RequestsServed
  <2>4. CountsBehind' /\ CountsInOrder' /\ ComparisonTold'
    BY <1>3 DEF Scan, CountsBehind, Answers, TypeOK, Reports, InventoriesInOrder,
       ReportAtHand, CountsInOrder, CountedOnce, NoReport, HasPage, ComparisonTold
  <2> QED BY <2>1, <2>2, <2>3, <2>4 DEF IInv
<1>4. CASE Diff
  <2>1. TypeOK'
    BY <1>4 DEF Diff, TypeOK, Reports, NoReport, InventoriesInOrder
  <2>2. InventoriesInOrder' /\ ReportAtHand'
    BY <1>4 DEF Diff, InventoriesInOrder, TypeOK, ReportAtHand, NoReport
  <2>3. OutputsRecorded' /\ ReadsAreTraceable' /\ RequestsServed'
    BY <1>4 DEF Diff, OutputsRecorded, ReportAtHand, InventoriesInOrder, NoReport,
       ReadsAreTraceable, TypeOK, RequestsServed
  <2>4. CountsBehind' /\ CountsInOrder' /\ ComparisonTold'
    BY <1>4 DEF Diff, CountsBehind, Answers, TypeOK, Reports, InventoriesInOrder,
       ReportAtHand, CountsInOrder, CountedOnce, NoReport, HasPage, ComparisonTold
  <2> QED BY <2>1, <2>2, <2>3, <2>4 DEF IInv
<1>5. CASE Count
  <2>1. TypeOK'
    BY <1>5 DEF Count, TypeOK, Reports, NoReport, InventoriesInOrder, ReportAtHand
  <2>2. InventoriesInOrder' /\ ReportAtHand'
    BY <1>5 DEF Count, InventoriesInOrder, TypeOK, ReportAtHand, NoReport
  <2>3. OutputsRecorded' /\ ReadsAreTraceable' /\ RequestsServed'
    BY <1>5 DEF Count, OutputsRecorded, ReportAtHand, InventoriesInOrder, NoReport,
       ReadsAreTraceable, TypeOK, RequestsServed
  <2>4. CountsBehind' /\ CountsInOrder' /\ ComparisonTold'
    BY <1>5 DEF Count, CountsBehind, Answers, TypeOK, Reports, InventoriesInOrder,
       ReportAtHand, CountsInOrder, CountedOnce, NoReport, HasPage, ComparisonTold
  <2> QED BY <2>1, <2>2, <2>3, <2>4 DEF IInv
<1>6. CASE NotifyNothing
  <2>1. /\ TypeOK' /\ InventoriesInOrder' /\ ReportAtHand' /\ OutputsRecorded'
        /\ ReadsAreTraceable' /\ RequestsServed'
    BY <1>6 DEF NotifyNothing, TypeOK, Reports, NoReport, InventoriesInOrder,
       ReportAtHand, OutputsRecorded, ReadsAreTraceable, RequestsServed
  <2>2. CountsBehind' /\ CountsInOrder' /\ ComparisonTold'
    BY <1>6 DEF NotifyNothing, CountsBehind, Answers, TypeOK, Reports,
       InventoriesInOrder, ReportAtHand, CountsInOrder, CountedOnce, NoReport, HasPage,
       ComparisonTold
  <2> QED BY <2>1, <2>2 DEF IInv
<1>7. CASE Post
  <2>1. TypeOK'
    BY <1>7 DEF Post, TypeOK, Reports, NoReport, InventoriesInOrder, ReportAtHand,
       HasPage
  <2>2. InventoriesInOrder' /\ ReportAtHand'
    BY <1>7 DEF Post, InventoriesInOrder, TypeOK, ReportAtHand, NoReport, HasPage
  <2>3. OutputsRecorded' /\ ReadsAreTraceable' /\ RequestsServed'
    BY <1>7 DEF Post, OutputsRecorded, ReportAtHand, InventoriesInOrder, NoReport,
       ReadsAreTraceable, TypeOK, RequestsServed, HasPage
  <2>4. CountsBehind' /\ CountsInOrder' /\ ComparisonTold'
    BY <1>7 DEF Post, CountsBehind, Answers, TypeOK, Reports, InventoriesInOrder,
       ReportAtHand, CountsInOrder, CountedOnce, NoReport, HasPage, ComparisonTold
  <2> QED BY <2>1, <2>2, <2>3, <2>4 DEF IInv
<1>8. CASE NoUrl
  <2>1. /\ TypeOK' /\ InventoriesInOrder' /\ ReportAtHand' /\ OutputsRecorded'
        /\ ReadsAreTraceable' /\ RequestsServed'
    BY <1>8 DEF NoUrl, TypeOK, Reports, NoReport, InventoriesInOrder, ReportAtHand,
       OutputsRecorded, ReadsAreTraceable, RequestsServed, Abort
  <2>2. CountsBehind' /\ CountsInOrder' /\ ComparisonTold'
    BY <1>8 DEF NoUrl, CountsBehind, Answers, TypeOK, Reports, InventoriesInOrder,
       ReportAtHand, CountsInOrder, CountedOnce, NoReport, HasPage, ComparisonTold,
       Abort
  <2> QED BY <2>1, <2>2 DEF IInv
<1>9. CASE Tell
  <2>1. /\ TypeOK' /\ InventoriesInOrder' /\ ReportAtHand' /\ OutputsRecorded'
        /\ ReadsAreTraceable' /\ RequestsServed'
    BY <1>9 DEF Tell, TypeOK, Reports, NoReport, InventoriesInOrder, ReportAtHand,
       OutputsRecorded, ReadsAreTraceable, RequestsServed
  <2>2. CountsBehind' /\ CountsInOrder' /\ ComparisonTold'
    BY <1>9 DEF Tell, CountsBehind, Answers, TypeOK, Reports, InventoriesInOrder,
       ReportAtHand, CountsInOrder, CountedOnce, NoReport, HasPage, ComparisonTold
  <2> QED BY <2>1, <2>2 DEF IInv
<1>10. CASE Advance
  <2>1. TypeOK'
    BY <1>10 DEF Advance, TypeOK, Reports, NoReport, InventoriesInOrder
  <2>2. InventoriesInOrder' /\ ReportAtHand'
    BY <1>10 DEF Advance, InventoriesInOrder, TypeOK, ReportAtHand, NoReport
  <2>3. OutputsRecorded' /\ ReadsAreTraceable' /\ RequestsServed'
    BY <1>10 DEF Advance, OutputsRecorded, ReportAtHand, InventoriesInOrder, NoReport,
       ReadsAreTraceable, TypeOK, RequestsServed
  <2>4. CountsBehind' /\ CountsInOrder' /\ ComparisonTold'
    BY <1>10 DEF Advance, CountsBehind, Answers, TypeOK, Reports, InventoriesInOrder,
       ReportAtHand, CountsInOrder, CountedOnce, NoReport, HasPage, ComparisonTold
  <2> QED BY <2>1, <2>2, <2>3, <2>4 DEF IInv
<1>11. CASE Render
  <2>1. /\ TypeOK' /\ InventoriesInOrder' /\ ReportAtHand' /\ OutputsRecorded'
        /\ ReadsAreTraceable' /\ RequestsServed'
    BY <1>11 DEF Render, TypeOK, Reports, NoReport, InventoriesInOrder, ReportAtHand,
       OutputsRecorded, ReadsAreTraceable, RequestsServed
  <2>2. CountsBehind' /\ CountsInOrder' /\ ComparisonTold'
    BY <1>11 DEF Render, CountsBehind, Answers, TypeOK, Reports, InventoriesInOrder,
       ReportAtHand, CountsInOrder, CountedOnce, NoReport, HasPage, ComparisonTold
  <2> QED BY <2>1, <2>2 DEF IInv
<1>12. CASE LogScan
  <2>1. TypeOK'
    BY <1>12 DEF LogScan, TypeOK, Reports, NoReport, InventoriesInOrder
  <2>2. InventoriesInOrder' /\ ReportAtHand'
    BY <1>12 DEF LogScan, InventoriesInOrder, TypeOK, ReportAtHand, NoReport
  <2>3. OutputsRecorded' /\ ReadsAreTraceable' /\ RequestsServed'
    BY <1>12 DEF LogScan, OutputsRecorded, ReportAtHand, InventoriesInOrder, NoReport,
       ReadsAreTraceable, TypeOK, RequestsServed
  <2>4. CountsBehind' /\ CountsInOrder' /\ ComparisonTold'
    BY <1>12 DEF LogScan, CountsBehind, Answers, TypeOK, Reports, InventoriesInOrder,
       ReportAtHand, CountsInOrder, CountedOnce, NoReport, HasPage, ComparisonTold
  <2> QED BY <2>1, <2>2, <2>3, <2>4 DEF IInv
<1>13. CASE Publish
  <2>1. TypeOK'
    BY <1>13 DEF Publish, TypeOK, Reports, NoReport, InventoriesInOrder
  <2>2. InventoriesInOrder' /\ ReportAtHand'
    BY <1>13 DEF Publish, InventoriesInOrder, TypeOK, ReportAtHand, NoReport
  <2>3. OutputsRecorded' /\ ReadsAreTraceable' /\ RequestsServed'
    BY <1>13 DEF Publish, OutputsRecorded, ReportAtHand, InventoriesInOrder, NoReport,
       ReadsAreTraceable, TypeOK, RequestsServed
  <2>4. CountsBehind' /\ CountsInOrder' /\ ComparisonTold'
    BY <1>13 DEF Publish, CountsBehind, Answers, TypeOK, Reports, InventoriesInOrder,
       ReportAtHand, CountsInOrder, CountedOnce, NoReport, HasPage, ComparisonTold
  <2> QED BY <2>1, <2>2, <2>3, <2>4 DEF IInv
<1>14. CASE SetReady
  <2>1. TypeOK'
    BY <1>14 DEF SetReady, TypeOK, Reports, NoReport, InventoriesInOrder
  <2>2. InventoriesInOrder' /\ ReportAtHand'
    BY <1>14 DEF SetReady, InventoriesInOrder, TypeOK, ReportAtHand, NoReport
  <2>3. OutputsRecorded' /\ ReadsAreTraceable' /\ RequestsServed'
    BY <1>14 DEF SetReady, OutputsRecorded, ReportAtHand, InventoriesInOrder, NoReport,
       ReadsAreTraceable, TypeOK, RequestsServed
  <2>4. CountsBehind' /\ CountsInOrder' /\ ComparisonTold'
    BY <1>14 DEF SetReady, CountsBehind, Answers, TypeOK, Reports, InventoriesInOrder,
       ReportAtHand, CountsInOrder, CountedOnce, NoReport, HasPage, ComparisonTold
  <2> QED BY <2>1, <2>2, <2>3, <2>4 DEF IInv
<1>15. CASE Wake
  <2>1. /\ TypeOK' /\ InventoriesInOrder' /\ ReportAtHand' /\ OutputsRecorded'
        /\ ReadsAreTraceable' /\ RequestsServed'
    BY <1>15 DEF Wake, TypeOK, Reports, NoReport, InventoriesInOrder, ReportAtHand,
       OutputsRecorded, ReadsAreTraceable, RequestsServed
  <2>2. CountsBehind' /\ CountsInOrder' /\ ComparisonTold'
    BY <1>15 DEF Wake, CountsBehind, Answers, TypeOK, Reports, InventoriesInOrder,
       ReportAtHand, CountsInOrder, CountedOnce, NoReport, HasPage, ComparisonTold
  <2> QED BY <2>1, <2>2 DEF IInv
<1>16. CASE Raise
  <2>1. /\ TypeOK' /\ InventoriesInOrder' /\ ReportAtHand' /\ OutputsRecorded'
        /\ ReadsAreTraceable' /\ RequestsServed'
    BY <1>16 DEF Raise, TypeOK, Reports, NoReport, InventoriesInOrder, ReportAtHand,
       OutputsRecorded, ReadsAreTraceable, RequestsServed, Abort, MayRaise
  <2>2. CountsBehind' /\ CountsInOrder' /\ ComparisonTold'
    BY <1>16 DEF Raise, CountsBehind, Answers, TypeOK, Reports, InventoriesInOrder,
       ReportAtHand, CountsInOrder, CountedOnce, NoReport, HasPage, ComparisonTold,
       Abort, MayRaise
  <2> QED BY <2>1, <2>2 DEF IInv
<1>17. ASSUME NEW c \in Clients, Healthz(c) PROVE IInv'
  <2>1. /\ TypeOK' /\ InventoriesInOrder' /\ ReportAtHand' /\ OutputsRecorded'
        /\ ReadsAreTraceable' /\ RequestsServed'
    BY <1>17 DEF Healthz, TypeOK, Reports, NoReport, InventoriesInOrder, ReportAtHand,
       OutputsRecorded, ReadsAreTraceable, RequestsServed
  <2>2. CountsBehind' /\ CountsInOrder' /\ ComparisonTold'
    BY <1>17 DEF Healthz, CountsBehind, Answers, TypeOK, Reports, InventoriesInOrder,
       ReportAtHand, CountsInOrder, CountedOnce, NoReport, HasPage, ComparisonTold
  <2> QED BY <2>1, <2>2 DEF IInv
<1>18. ASSUME NEW c \in Clients, Ask(c) PROVE IInv'
  <2>10. PICK path \in Paths : request' = [request EXCEPT ![c] =
            [at |-> "asked", path |-> path, hit |-> Nothing, code |-> 0,
             told |-> Nothing, vouched |-> vouched]]
    BY <1>18 DEF Ask, Request
  <2>1. TypeOK'
    BY <1>18, <2>10 DEF Ask, TypeOK, Reports, NoReport, InventoriesInOrder, Paths,
       Answers
  <2>2. InventoriesInOrder' /\ ReportAtHand'
    BY <1>18, <2>10 DEF Ask, InventoriesInOrder, TypeOK, ReportAtHand, NoReport, Paths,
       Answers
  <2>3. OutputsRecorded' /\ ReadsAreTraceable' /\ RequestsServed'
    BY <1>18, <2>10 DEF Ask, OutputsRecorded, ReportAtHand, InventoriesInOrder,
       NoReport, ReadsAreTraceable, TypeOK, RequestsServed, Paths, Answers
  <2>4. CountsBehind' /\ CountsInOrder' /\ ComparisonTold'
    BY <1>18, <2>10 DEF Ask, CountsBehind, Answers, TypeOK, Reports, InventoriesInOrder,
       ReportAtHand, CountsInOrder, CountedOnce, NoReport, HasPage, ComparisonTold,
       Paths
  <2> QED BY <2>1, <2>2, <2>3, <2>4 DEF IInv
<1>19. ASSUME NEW c \in Clients, Look(c) PROVE IInv'
  <2> DEFINE b == BodyAt(request[c].path)
  <2>10. /\ b \in Inventories \union {Nothing}
         /\ request[c].path = "report" => b = outputs.report
         /\ conf.audited => b \in ended \union {Nothing}
    BY <1>0 DEF BodyAt, TypeOK, OutputsRecorded, Reports, NoReport, Nothing
  <2>11. request' = [request EXCEPT ![c] =
            [at |-> "looked", path |-> request[c].path, hit |-> b,
             code |-> request[c].code, told |-> request[c].told,
             vouched |-> request[c].vouched]]
    <3>1. request[c] \in Answers
      BY <1>0 DEF TypeOK
    <3> QED BY <1>19, <3>1, Updates DEF Look
  <2> HIDE DEF b
  <2>1. TypeOK'
    BY <1>19, <2>10, <2>11 DEF Look, TypeOK, Reports, NoReport, InventoriesInOrder,
       Answers, Paths
  <2>2. InventoriesInOrder' /\ ReportAtHand'
    BY <1>19, <2>10, <2>11 DEF Look, InventoriesInOrder, TypeOK, ReportAtHand, NoReport,
       Answers, Paths
  <2>3. OutputsRecorded' /\ ReadsAreTraceable' /\ RequestsServed'
    BY <1>19, <2>10, <2>11 DEF Look, OutputsRecorded, ReportAtHand, InventoriesInOrder,
       NoReport, ReadsAreTraceable, TypeOK, RequestsServed, Answers, Paths
  <2>4. CountsBehind' /\ CountsInOrder' /\ ComparisonTold'
    BY <1>19, <2>10, <2>11 DEF Look, CountsBehind, Answers, TypeOK, Reports,
       InventoriesInOrder, ReportAtHand, CountsInOrder, CountedOnce, NoReport, HasPage,
       ComparisonTold, Paths
  <2> QED BY <2>1, <2>2, <2>3, <2>4 DEF IInv
<1>20. ASSUME NEW c \in Clients, Miss(c) PROVE IInv'
  <2>1. TypeOK'
    BY <1>20, Updates DEF Miss, TypeOK, Reports, NoReport, InventoriesInOrder, Answers
  <2>2. InventoriesInOrder' /\ ReportAtHand'
    BY <1>20, Updates DEF Miss, InventoriesInOrder, TypeOK, ReportAtHand, NoReport,
       Answers
  <2>3. OutputsRecorded' /\ ReadsAreTraceable' /\ RequestsServed'
    BY <1>20, Updates DEF Miss, OutputsRecorded, ReportAtHand, InventoriesInOrder,
       NoReport, ReadsAreTraceable, TypeOK, RequestsServed, Answers
  <2>4. CountsBehind' /\ CountsInOrder' /\ ComparisonTold'
    BY <1>20, Updates DEF Miss, CountsBehind, Answers, TypeOK, Reports,
       InventoriesInOrder, ReportAtHand, CountsInOrder, CountedOnce, NoReport, HasPage,
       ComparisonTold
  <2> QED BY <2>1, <2>2, <2>3, <2>4 DEF IInv
<1>21. ASSUME NEW c \in Clients, Answer(c) PROVE IInv'
  <2>1. TypeOK'
    BY <1>21, Updates DEF Answer, TypeOK, Reports, NoReport, InventoriesInOrder, Answers
  <2>2. InventoriesInOrder' /\ ReportAtHand'
    BY <1>21, Updates DEF Answer, InventoriesInOrder, TypeOK, ReportAtHand, NoReport,
       Answers
  <2>3. OutputsRecorded' /\ ReadsAreTraceable' /\ RequestsServed'
    BY <1>21, Updates DEF Answer, OutputsRecorded, ReportAtHand, InventoriesInOrder,
       NoReport, ReadsAreTraceable, TypeOK, RequestsServed, Answers
  <2>4. CountsBehind' /\ CountsInOrder' /\ ComparisonTold'
    BY <1>21, Updates DEF Answer, CountsBehind, Answers, TypeOK, Reports,
       InventoriesInOrder, ReportAtHand, CountsInOrder, CountedOnce, NoReport, HasPage,
       ComparisonTold
  <2> QED BY <2>1, <2>2, <2>3, <2>4 DEF IInv
<1>22. ASSUME NEW c \in Clients, ScrapeCounters(c) PROVE IInv'
  <2>10. PICK n \in CountedInventories :
            request' = [request EXCEPT ![c] =
               [at |-> "scraping", path |-> "metrics", hit |-> Nothing, code |-> 0,
                told |-> n, vouched |-> FALSE]]
    BY <1>22 DEF ScrapeCounters, Request
  <2>11. /\ n \in Inventories \union {Nothing}
         /\ n # Nothing => \E r \in Reports : counted[r] > 0 /\ n = r[2]
    BY DEF CountedInventories, Reports
  <2>12. UNCHANGED <<step, bounds, local, state, history>>
    BY <1>22 DEF ScrapeCounters
  <2>1. TypeOK'
    BY <1>22, <2>10, <2>11, <2>12 DEF TypeOK, Reports, NoReport, InventoriesInOrder,
       Paths, Answers
  <2>2. InventoriesInOrder' /\ ReportAtHand'
    BY <1>22, <2>10, <2>11, <2>12 DEF InventoriesInOrder, TypeOK, ReportAtHand,
       NoReport, Paths, Answers
  <2>3. OutputsRecorded' /\ ReadsAreTraceable' /\ RequestsServed'
    BY <1>22, <2>10, <2>11, <2>12 DEF OutputsRecorded, ReportAtHand, InventoriesInOrder,
       NoReport, ReadsAreTraceable, TypeOK, RequestsServed, Paths, Answers
  <2>4. CountsBehind' /\ CountsInOrder' /\ ComparisonTold'
    BY <1>22, <2>10, <2>11, <2>12 DEF CountsBehind, Answers, TypeOK, Reports,
       InventoriesInOrder, ReportAtHand, CountsInOrder, CountedOnce, NoReport, HasPage,
       ComparisonTold, Paths
  <2> QED BY <2>1, <2>2, <2>3, <2>4 DEF IInv
<1>23. ASSUME NEW c \in Clients, ScrapeInventory(c) PROVE IInv'
  <2>1. /\ TypeOK' /\ InventoriesInOrder' /\ ReportAtHand' /\ OutputsRecorded'
        /\ ReadsAreTraceable' /\ RequestsServed'
    BY <1>23 DEF ScrapeInventory, TypeOK, Reports, NoReport, InventoriesInOrder,
       ReportAtHand, OutputsRecorded, ReadsAreTraceable, RequestsServed, Idle, Request,
       Paths, Answers
  <2>2. CountsBehind' /\ CountsInOrder' /\ ComparisonTold'
    BY <1>23 DEF ScrapeInventory, CountsBehind, Answers, TypeOK, Reports,
       InventoriesInOrder, ReportAtHand, CountsInOrder, CountedOnce, NoReport, HasPage,
       ComparisonTold, Idle, Request, Paths
  <2> QED BY <2>1, <2>2 DEF IInv
<1>24. ASSUME NEW c \in Clients, Done(c) PROVE IInv'
  <2>1. /\ TypeOK' /\ InventoriesInOrder' /\ ReportAtHand' /\ OutputsRecorded'
        /\ ReadsAreTraceable' /\ RequestsServed'
    BY <1>24 DEF Done, TypeOK, Reports, NoReport, InventoriesInOrder, ReportAtHand,
       OutputsRecorded, ReadsAreTraceable, RequestsServed, Idle, Request, Paths, Answers
  <2>2. CountsBehind' /\ CountsInOrder' /\ ComparisonTold'
    BY <1>24 DEF Done, CountsBehind, Answers, TypeOK, Reports, InventoriesInOrder,
       ReportAtHand, CountsInOrder, CountedOnce, NoReport, HasPage, ComparisonTold,
       Idle, Request, Paths
  <2> QED BY <2>1, <2>2 DEF IInv
<1>25. ASSUME NEW c \in Clients, Drop(c) PROVE IInv'
  <2>1. /\ TypeOK' /\ InventoriesInOrder' /\ ReportAtHand' /\ OutputsRecorded'
        /\ ReadsAreTraceable' /\ RequestsServed'
    BY <1>25 DEF Drop, TypeOK, Reports, NoReport, InventoriesInOrder, ReportAtHand,
       OutputsRecorded, ReadsAreTraceable, RequestsServed, Idle, Request, Paths, Answers
  <2>2. CountsBehind' /\ CountsInOrder' /\ ComparisonTold'
    BY <1>25 DEF Drop, CountsBehind, Answers, TypeOK, Reports, InventoriesInOrder,
       ReportAtHand, CountsInOrder, CountedOnce, NoReport, HasPage, ComparisonTold,
       Idle, Request, Paths
  <2> QED BY <2>1, <2>2 DEF IInv
<1>26. CASE Restart
  <2>10. Idle \in Answers
    BY DEF Idle, Request, Answers, Paths, Inventories, Nothing
  <2>11. request' \in [Clients -> Answers] /\ counted' \in [Reports -> 0..2]
    BY <1>26, <2>10 DEF Restart
  <2>12. /\ inv' \in Inventories \union {Nothing} /\ previous' \in Inventories \union {Nothing}
         /\ exported' \in Inventories \union {Nothing} /\ report' \in Reports \union {NoReport}
         /\ ready' \in BOOLEAN /\ vouched' \in BOOLEAN /\ posted' \subseteq Reports
    BY <1>26 DEF Restart
  <2>14. /\ conf' \in Configurations /\ estate' \in Inventories /\ step' \in Steps
         /\ faults' \in 0..MaxFaults /\ restarts' \in 0..MaxRestarts /\ ended' \subseteq Inventories
    BY <1>26 DEF Restart, TypeOK
  <2>13. outputs' \in [report: Inventories \union {Nothing}, changes: Reports \union {NoReport}]
    BY <1>26 DEF Restart, NoOutputs
  <2>1. TypeOK'
    BY <2>11, <2>12, <2>13, <2>14 DEF TypeOK
  <2>2. InventoriesInOrder' /\ ReportAtHand'
    BY <1>26, <2>11, <2>12 DEF Restart, InventoriesInOrder, TypeOK, ReportAtHand,
       NoReport, Idle, Request, Paths, Answers, NoOutputs
  <2>3. OutputsRecorded' /\ ReadsAreTraceable' /\ RequestsServed'
    BY <1>26, <2>11, <2>12 DEF Restart, OutputsRecorded, ReportAtHand,
       InventoriesInOrder, NoReport, ReadsAreTraceable, TypeOK, RequestsServed, Idle,
       Request, Paths, Answers, NoOutputs
  <2>4. CountsBehind' /\ CountsInOrder' /\ ComparisonTold'
    BY <1>26, <2>11, <2>12 DEF Restart, CountsBehind, Answers, TypeOK, Reports,
       InventoriesInOrder, ReportAtHand, CountsInOrder, CountedOnce, NoReport, HasPage,
       ComparisonTold, Idle, Request, Paths, NoOutputs
  <2> QED BY <2>1, <2>2, <2>3, <2>4 DEF IInv
<1>27. CASE UNCHANGED vars
  <2> QED
    BY <1>27 DEF vars, TypeOK, Reports, NoReport, InventoriesInOrder, ReportAtHand,
       OutputsRecorded, ReadsAreTraceable, RequestsServed, CountsBehind, Answers,
       CountsInOrder, CountedOnce, HasPage, ComparisonTold, IInv
<1> QED
    BY <1>1, <1>2, <1>3, <1>4, <1>5, <1>6, <1>7, <1>8, <1>9, <1>10, <1>11, <1>12, <1>13,
       <1>14, <1>15, <1>16, <1>17, <1>18, <1>19, <1>20, <1>21, <1>22, <1>23, <1>24,
       <1>25, <1>26, <1>27 DEF Next, Rescan, Handle

\* Every first state satisfies the inductive invariant.
LEMMA Initial == Init => IInv
<1> SUFFICES ASSUME Init PROVE IInv
  OBVIOUS
<1> USE DEF Init, Inventories, Nothing, Steps, InRound, Advanced
<1>1. request \in [Clients -> Answers]
  BY DEF Idle, Request, Answers, Paths
<1>2. TypeOK
  <2>1. outputs \in [report: Inventories \union {Nothing}, changes: Reports \union {NoReport}]
    BY DEF NoOutputs
  <2>2. counted \in [Reports -> 0..2]
    OBVIOUS
  <2>3. faults \in 0..MaxFaults /\ restarts \in 0..MaxRestarts /\ estate \in Inventories
    OBVIOUS
  <2> QED BY <1>1, <2>1, <2>2, <2>3 DEF TypeOK
<1>3. InventoriesInOrder /\ ReportAtHand /\ OutputsRecorded /\ ComparisonTold
  BY DEF NoReport, NoOutputs, InventoriesInOrder, ReportAtHand, OutputsRecorded,
     ComparisonTold
<1>4. ReadsAreTraceable /\ RequestsServed
  BY DEF ReadsAreTraceable, RequestsServed, Idle, Request
<1>5. CountsBehind /\ CountsInOrder
  BY DEF CountsBehind, CountsInOrder, CountedOnce, Idle, Request
<1> QED BY <1>2, <1>3, <1>4, <1>5 DEF IInv

\* The inductive invariant holds in every reachable state.
THEOREM Invariance == Spec => []IInv
BY Initial, Step, PTL DEF Spec

-----------------------------------------------------------------------------
(* What follows                                                             *)

\* In every reachable state each variable has its type.
THEOREM TypeCorrect == Spec => []TypeOK
<1>1. IInv => TypeOK
  BY DEF IInv
<1> QED BY <1>1, Invariance, PTL

\* With an audit log, no client is ever handed an inventory that no scan.end was
\* written for, whatever restarts and exceptions there were.
THEOREM ReadsTraceable == Spec => []ReadsAreTraceable
<1>1. IInv => ReadsAreTraceable
  BY DEF IInv
<1> QED BY <1>1, Invariance, PTL

\* Once a client of the process was told it is healthy, a request for the report made
\* from then on is answered with it.
THEOREM HealthyReport == Spec => []HealthyMeansReport
<1>1. IInv => HealthyMeansReport
  <2> SUFFICES ASSUME IInv, NEW c \in Clients, request[c].at = "answered",
                      request[c].path = "report", request[c].vouched
               PROVE  request[c].code = 200
    BY DEF HealthyMeansReport
  <2> QED BY DEF IInv, RequestsServed
<1> QED BY <1>1, Invariance, PTL

\* The change report published leads to the inventory published with it, and no
\* scrape has counted a change that the inventory it is about to read lacks.
THEOREM ChangesMatch == Spec => []ChangesMatchReport
<1>1. IInv => ChangesMatchReport
  BY DEF IInv, OutputsRecorded, CountsBehind, ChangesMatchReport
<1> QED BY <1>1, Invariance, PTL

\* Without an audit log, and unless the webhook's URL is empty, every change of the
\* estate is counted once: no two comparisons counted overlap.
THEOREM Counted == Spec => []CountedOnce
<1>1. IInv => CountedOnce
  BY DEF IInv, CountsInOrder, CountedOnce
<1> QED BY <1>1, Invariance, PTL

\* No step puts an inventory in the place of the one before unless the two were
\* compared and, with a webhook, a POST of their differences was attempted.
THEOREM PagesAttempted == Spec => NoPageIsSkipped
<1>1. IInv /\ [Next]_vars =>
         [previous # Nothing /\ previous' # Nothing /\ previous' # previous
          => /\ counted[<<previous, previous'>>] > 0
             /\ conf.webhook = "set" => <<previous, previous'>> \in posted]_vars
  <2> SUFFICES ASSUME IInv, Next, previous # Nothing, previous' # Nothing,
                      previous' # previous
               PROVE  /\ counted[<<previous, previous'>>] > 0
                      /\ conf.webhook = "set" => <<previous, previous'>> \in posted
    BY DEF vars, state
  <2>1. Advance
    <3>1. ~Restart
      BY DEF Restart
    <3>2. ~EstateChanges /\ ~Raise
      BY DEF EstateChanges, Raise, Abort, state
    <3>3. \A c \in Clients : ~Handle(c) /\ ~Drop(c)
      BY DEF Handle, Healthz, Ask, Look, Miss, Answer, ScrapeCounters, ScrapeInventory,
             Done, Drop, state
    <3>4. Rescan
      BY <3>1, <3>2, <3>3 DEF Next
    <3> QED
      BY <3>4 DEF Rescan, StartScan, Scan, Diff, Count, NotifyNothing, Post, NoUrl,
         Abort,
         Tell, Render, LogScan, Publish, SetReady, Wake, state
  <2>2. step = "advance" /\ previous' = inv
    BY <2>1 DEF Advance
  <2> QED BY <2>2 DEF IInv, ComparisonTold
<1> QED BY <1>1, Invariance, PTL DEF Spec, NoPageIsSkipped
=================================================================================
