--------------------------- MODULE ScheduledScanProofs ---------------------------
(***************************************************************************)
(* Proofs about ScheduledScan, for any gates, any configuration of the      *)
(* webhook, any choice of the steps that may fail or be killed, and any     *)
(* number of changes and troubles.                                          *)
(***************************************************************************)
EXTENDS ScheduledScan, TLAPS

USE ScheduleAssumption

-----------------------------------------------------------------------------
(* The inductive invariant                                                  *)

\* The run is past its scan and either still at work or to be handed over.
Complete == \/ step \in {"cbom", "rest", "diff", "notify", "gate", "sign", "finish"}
            \/ step \in {"exited", "remove", "copy"} /\ out.cbom

\* The run is past the place where its changes are told, and did not raise there.
Told == step \in {"gate", "sign", "finish"} \/ (step \in {"exited", "remove", "copy"} /\ out.cbom)

\* Where a CBOM is, a whole inventory is: that of this run.
OutputsInOrder ==
    /\ step \in {"start", "scan", "json"} => out = NoOutput
    /\ step = "cbom" => ~out.cbom
    /\ step \in {"rest", "diff", "notify", "gate", "sign", "finish", "remove", "copy"} => out.cbom
    /\ Complete => out.inventory = inv

\* As long as no hand-over was cut short, the file that is kept is the last
\* inventory handed over, and the run compares with it.
BaselineKept ==
    "handover" \notin cut =>
    /\ step # "copy" => kept = basis
    /\ step \in {"scan", "json"} \/ Complete => base = basis

\* A run that found nothing had nothing to carry forward.
CarriedOver == (step = "json" \/ Complete) /\ base > Empty => inv > Empty

\* What a run passed on, it told before.
TellingDone ==
    "telling" \notin cut =>
    /\ HasBaseline /\ (step = "notify" \/ Told) => Compared \in written
    /\ HasBaseline /\ Told /\ "none" \notin Webhooks /\ HasNews(Compared) => Compared \in posted

\* The exit code is not 0 if any gate has to fail the run.
CodeInOrder ==
    /\ step \in {"sign", "finish"} /\ HasBaseline /\ HasNews(Compared)
       /\ Gates \cap {3, 5} # {} => rc # 0
    /\ step = "exited" /\ rc = 0 => Due = {}
    /\ step \in {"diff", "notify", "gate"} => HasBaseline

\* The inductive invariant: together these hold in every reachable state.
IInv ==
    /\ TypeOK /\ OutputsInOrder /\ BaselineKept /\ CarriedOver /\ TellingDone
    /\ CodeInOrder /\ ZeroMeansPassed

\* Every step keeps the inductive invariant.
LEMMA Step == IInv /\ [Next]_vars => IInv'
<1> SUFFICES ASSUME IInv, [Next]_vars PROVE IInv'
  OBVIOUS
<1>0. /\ TypeOK /\ OutputsInOrder /\ BaselineKept /\ CarriedOver /\ TellingDone
      /\ CodeInOrder /\ ZeroMeansPassed
  BY DEF IInv
<1> USE <1>0 DEF run, history, Steps, GateCodes
<1>1. CASE EstateChanges
  <2>1. TypeOK'
    BY <1>1 DEF EstateChanges, TypeOK, Inventories, Files, Comparisons, NoFile, Torn,
       Empty, CodeInOrder, HasBaseline, Compared
  <2>2. OutputsInOrder' /\ BaselineKept' /\ CarriedOver'
    BY <1>1 DEF EstateChanges, OutputsInOrder, Complete, NoOutput, BaselineKept, TypeOK,
       CarriedOver, Inventories, Empty
  <2>3. TellingDone'
    BY <1>1 DEF EstateChanges, TellingDone, Told, OutputsInOrder, NoOutput, HasBaseline,
       Compared, HasNews, Serious
  <2>4. CodeInOrder' /\ ZeroMeansPassed'
    BY <1>1 DEF EstateChanges, CodeInOrder, HasBaseline, Due, HasNews, Compared,
       Serious, TypeOK, ZeroMeansPassed
  <2> QED BY <2>1, <2>2, <2>3, <2>4 DEF IInv
<1>2. CASE StartRun
  <2>11. inv' \in Inventories /\ rc' \in 0..6 /\ base' = NoFile
    BY <1>2 DEF StartRun, Inventories, Empty
  <2>12. failed' \in BOOLEAN
    BY <1>2 DEF StartRun
  <2>10. out' \in [inventory: Files, cbom: BOOLEAN]
    BY <1>2 DEF StartRun, NoOutput, Files
  <2>1. TypeOK'
    BY <1>2, <2>10, <2>11, <2>12 DEF StartRun, TypeOK, Inventories, Files, Comparisons,
       NoFile, Torn, Empty, CodeInOrder, HasBaseline, Compared
  <2>2. OutputsInOrder' /\ BaselineKept' /\ CarriedOver'
    BY <1>2 DEF StartRun, OutputsInOrder, Complete, NoOutput, BaselineKept, TypeOK,
       CarriedOver, Inventories, Empty
  <2>3. TellingDone'
    BY <1>2 DEF StartRun, TellingDone, Told, OutputsInOrder, NoOutput, HasBaseline,
       Compared, HasNews, Serious
  <2>4. CodeInOrder' /\ ZeroMeansPassed'
    BY <1>2 DEF StartRun, CodeInOrder, HasBaseline, Due, HasNews, Compared, Serious,
       TypeOK, ZeroMeansPassed
  <2> QED BY <2>1, <2>2, <2>3, <2>4 DEF IInv
<1>3. CASE LoadBaseline
  <2>1. TypeOK'
    BY <1>3 DEF LoadBaseline, TypeOK, Inventories, Files, Comparisons, NoFile, Torn,
       Empty, CodeInOrder, HasBaseline, Compared, Quit
  <2>2. OutputsInOrder' /\ BaselineKept' /\ CarriedOver'
    BY <1>3 DEF LoadBaseline, OutputsInOrder, Complete, NoOutput, BaselineKept, TypeOK,
       CarriedOver, Inventories, Empty, Quit
  <2>3. TellingDone'
    BY <1>3 DEF LoadBaseline, TellingDone, Told, OutputsInOrder, NoOutput, HasBaseline,
       Compared, HasNews, Serious, Quit
  <2>4. CodeInOrder' /\ ZeroMeansPassed'
    BY <1>3 DEF LoadBaseline, CodeInOrder, HasBaseline, Due, HasNews, Compared, Serious,
       TypeOK, ZeroMeansPassed, Quit
  <2> QED BY <2>1, <2>2, <2>3, <2>4 DEF IInv
<1>4. CASE RunScan
  <2>10. /\ inv' \in Inventories
         /\ base > Empty => inv' > Empty
    BY <1>4 DEF RunScan, HasBaseline, TypeOK, Inventories, Empty, NoFile
  <2>12. failed' \in BOOLEAN
    BY <1>4 DEF RunScan
  <2>11. troubles' \in 0..MaxTroubles
    BY <1>4 DEF RunScan, TypeOK
  <2>1. TypeOK'
    BY <1>4, <2>10, <2>11, <2>12 DEF RunScan, TypeOK, Inventories, Files, Comparisons,
       NoFile, Torn, Empty, CodeInOrder, HasBaseline, Compared
  <2>2. OutputsInOrder' /\ BaselineKept' /\ CarriedOver'
    BY <1>4, <2>10 DEF RunScan, OutputsInOrder, Complete, NoOutput, BaselineKept,
       TypeOK, CarriedOver, Inventories, Empty, HasBaseline
  <2>3. TellingDone'
    BY <1>4 DEF RunScan, TellingDone, Told, OutputsInOrder, NoOutput, HasBaseline,
       Compared, HasNews, Serious
  <2>4. CodeInOrder' /\ ZeroMeansPassed'
    BY <1>4 DEF RunScan, CodeInOrder, HasBaseline, Due, HasNews, Compared, Serious,
       TypeOK, ZeroMeansPassed
  <2> QED BY <2>1, <2>2, <2>3, <2>4 DEF IInv
<1>5. CASE WriteJson
  <2>1. TypeOK'
    BY <1>5 DEF WriteJson, TypeOK, Inventories, Files, Comparisons, NoFile, Torn, Empty,
       CodeInOrder, HasBaseline, Compared
  <2>2. OutputsInOrder'
    BY <1>5 DEF WriteJson, OutputsInOrder, Complete, NoOutput
  <2>3. BaselineKept'
    BY <1>5 DEF WriteJson, BaselineKept, OutputsInOrder, Complete, TypeOK
  <2>4. CarriedOver'
    BY <1>5 DEF WriteJson, CarriedOver, Complete, TypeOK, Inventories, Empty
  <2>5. TellingDone'
    BY <1>5 DEF WriteJson, TellingDone, Told, OutputsInOrder, NoOutput, HasBaseline,
       Compared, HasNews, Serious
  <2>6. CodeInOrder' /\ ZeroMeansPassed'
    BY <1>5 DEF WriteJson, CodeInOrder, HasBaseline, Due, HasNews, Compared, Serious,
       TypeOK, ZeroMeansPassed
  <2> QED BY <2>1, <2>2, <2>3, <2>4, <2>5, <2>6 DEF IInv
<1>6. CASE WriteCbom
  <2>1. TypeOK'
    BY <1>6 DEF WriteCbom, TypeOK, Inventories, Files, Comparisons, NoFile, Torn, Empty,
       CodeInOrder, HasBaseline, Compared
  <2>2. OutputsInOrder' /\ BaselineKept' /\ CarriedOver'
    BY <1>6 DEF WriteCbom, OutputsInOrder, Complete, NoOutput, BaselineKept, TypeOK,
       CarriedOver, Inventories, Empty
  <2>3. TellingDone'
    BY <1>6 DEF WriteCbom, TellingDone, Told, OutputsInOrder, NoOutput, HasBaseline,
       Compared, HasNews, Serious
  <2>4. CodeInOrder' /\ ZeroMeansPassed'
    BY <1>6 DEF WriteCbom, CodeInOrder, HasBaseline, Due, HasNews, Compared, Serious,
       TypeOK, ZeroMeansPassed
  <2> QED BY <2>1, <2>2, <2>3, <2>4 DEF IInv
<1>7. CASE WriteRest
  <2>1. TypeOK'
    BY <1>7 DEF WriteRest, TypeOK, Inventories, Files, Comparisons, NoFile, Torn, Empty,
       CodeInOrder, HasBaseline, Compared
  <2>2. OutputsInOrder' /\ BaselineKept' /\ CarriedOver'
    BY <1>7 DEF WriteRest, OutputsInOrder, Complete, NoOutput, BaselineKept, TypeOK,
       CarriedOver, Inventories, Empty, HasBaseline
  <2>3. TellingDone'
    BY <1>7 DEF WriteRest, TellingDone, Told, OutputsInOrder, NoOutput, HasBaseline,
       Compared, HasNews, Serious
  <2>4. CodeInOrder' /\ ZeroMeansPassed'
    BY <1>7 DEF WriteRest, CodeInOrder, HasBaseline, Due, HasNews, Compared, Serious,
       TypeOK, ZeroMeansPassed
  <2> QED BY <2>1, <2>2, <2>3, <2>4 DEF IInv
<1>8. CASE WriteDiff
  <2>1. TypeOK'
    BY <1>8 DEF WriteDiff, TypeOK, Inventories, Files, Comparisons, NoFile, Torn, Empty,
       CodeInOrder, HasBaseline, Compared
  <2>2. OutputsInOrder' /\ BaselineKept' /\ CarriedOver'
    BY <1>8 DEF WriteDiff, OutputsInOrder, Complete, NoOutput, BaselineKept, TypeOK,
       CarriedOver, Inventories, Empty
  <2>3. TellingDone'
    BY <1>8 DEF WriteDiff, TellingDone, Told, OutputsInOrder, NoOutput, HasBaseline,
       Compared, HasNews, Serious
  <2>4. CodeInOrder' /\ ZeroMeansPassed'
    BY <1>8 DEF WriteDiff, CodeInOrder, HasBaseline, Due, HasNews, Compared, Serious,
       TypeOK, ZeroMeansPassed
  <2> QED BY <2>1, <2>2, <2>3, <2>4 DEF IInv
<1>9. CASE Notify
  <2>1. TypeOK'
    BY <1>9 DEF Notify, TypeOK, Inventories, Files, Comparisons, NoFile, Torn, Empty,
       CodeInOrder, HasBaseline, Compared
  <2>2. OutputsInOrder' /\ BaselineKept' /\ CarriedOver'
    BY <1>9 DEF Notify, OutputsInOrder, Complete, NoOutput, BaselineKept, TypeOK,
       CarriedOver, Inventories, Empty
  <2>3. TellingDone'
    BY <1>9 DEF Notify, TellingDone, Told, OutputsInOrder, NoOutput, HasBaseline,
       Compared, HasNews, Serious
  <2>4. CodeInOrder' /\ ZeroMeansPassed'
    BY <1>9 DEF Notify, CodeInOrder, HasBaseline, Due, HasNews, Compared, Serious,
       TypeOK, ZeroMeansPassed
  <2> QED BY <2>1, <2>2, <2>3, <2>4 DEF IInv
<1>10. CASE NotifyNothing
  <2>1. TypeOK'
    BY <1>10 DEF NotifyNothing, TypeOK, Inventories, Files, Comparisons, NoFile, Torn,
       Empty, CodeInOrder, HasBaseline, Compared
  <2>2. OutputsInOrder' /\ BaselineKept' /\ CarriedOver'
    BY <1>10 DEF NotifyNothing, OutputsInOrder, Complete, NoOutput, BaselineKept,
       TypeOK, CarriedOver, Inventories, Empty
  <2>3. TellingDone'
    BY <1>10 DEF NotifyNothing, TellingDone, Told, OutputsInOrder, NoOutput,
       HasBaseline, Compared, HasNews, Serious
  <2>4. CodeInOrder' /\ ZeroMeansPassed'
    BY <1>10 DEF NotifyNothing, CodeInOrder, HasBaseline, Due, HasNews, Compared,
       Serious, TypeOK, ZeroMeansPassed
  <2> QED BY <2>1, <2>2, <2>3, <2>4 DEF IInv
<1>11. CASE NotifyNoUrl
  <2>1. TypeOK'
    BY <1>11 DEF NotifyNoUrl, TypeOK, Inventories, Files, Comparisons, NoFile, Torn,
       Empty, CodeInOrder, HasBaseline, Compared, Quit
  <2>2. OutputsInOrder' /\ BaselineKept' /\ CarriedOver'
    BY <1>11 DEF NotifyNoUrl, OutputsInOrder, Complete, NoOutput, BaselineKept, TypeOK,
       CarriedOver, Inventories, Empty, Quit
  <2>3. TellingDone'
    BY <1>11 DEF NotifyNoUrl, TellingDone, Told, OutputsInOrder, NoOutput, HasBaseline,
       Compared, HasNews, Serious, Quit
  <2>4. CodeInOrder' /\ ZeroMeansPassed'
    BY <1>11 DEF NotifyNoUrl, CodeInOrder, HasBaseline, Due, HasNews, Compared, Serious,
       TypeOK, ZeroMeansPassed, Quit
  <2> QED BY <2>1, <2>2, <2>3, <2>4 DEF IInv
<1>12. CASE GateChanges
  <2>1. TypeOK'
    BY <1>12 DEF GateChanges, TypeOK, Inventories, Files, Comparisons, NoFile, Torn,
       Empty, CodeInOrder, HasBaseline, Compared
  <2>2. OutputsInOrder' /\ BaselineKept' /\ CarriedOver'
    BY <1>12 DEF GateChanges, OutputsInOrder, Complete, NoOutput, BaselineKept, TypeOK,
       CarriedOver, Inventories, Empty
  <2>3. TellingDone'
    BY <1>12 DEF GateChanges, TellingDone, Told, OutputsInOrder, NoOutput, HasBaseline,
       Compared, HasNews, Serious
  <2>4. CodeInOrder' /\ ZeroMeansPassed'
    BY <1>12 DEF GateChanges, CodeInOrder, HasBaseline, Due, HasNews, Compared, Serious,
       TypeOK, ZeroMeansPassed
  <2> QED BY <2>1, <2>2, <2>3, <2>4 DEF IInv
<1>13. CASE Sign
  <2>1. TypeOK'
    BY <1>13 DEF Sign, TypeOK, Inventories, Files, Comparisons, NoFile, Torn, Empty,
       CodeInOrder, HasBaseline, Compared
  <2>2. OutputsInOrder' /\ BaselineKept' /\ CarriedOver'
    BY <1>13 DEF Sign, OutputsInOrder, Complete, NoOutput, BaselineKept, TypeOK,
       CarriedOver, Inventories, Empty
  <2>3. TellingDone'
    BY <1>13 DEF Sign, TellingDone, Told, OutputsInOrder, NoOutput, HasBaseline,
       Compared, HasNews, Serious
  <2>4. CodeInOrder' /\ ZeroMeansPassed'
    BY <1>13 DEF Sign, CodeInOrder, HasBaseline, Due, HasNews, Compared, Serious,
       TypeOK, ZeroMeansPassed
  <2> QED BY <2>1, <2>2, <2>3, <2>4 DEF IInv
<1>14. CASE Finish
  <2>1. TypeOK'
    BY <1>14 DEF Finish, TypeOK, Inventories, Files, Comparisons, NoFile, Torn, Empty,
       CodeInOrder, HasBaseline, Compared, Quit, OrElse
  <2>2. OutputsInOrder' /\ BaselineKept' /\ CarriedOver'
    BY <1>14 DEF Finish, OutputsInOrder, Complete, NoOutput, BaselineKept, TypeOK,
       CarriedOver, Inventories, Empty, Quit, OrElse
  <2>3. TellingDone'
    BY <1>14 DEF Finish, TellingDone, Told, OutputsInOrder, NoOutput, HasBaseline,
       Compared, HasNews, Serious, Quit, OrElse
  <2>4. CodeInOrder' /\ ZeroMeansPassed'
    BY <1>14 DEF Finish, CodeInOrder, HasBaseline, Due, HasNews, Compared, Serious,
       TypeOK, ZeroMeansPassed, Quit, OrElse
  <2> QED BY <2>1, <2>2, <2>3, <2>4 DEF IInv
<1>15. CASE Exited
  <2>1. TypeOK'
    BY <1>15 DEF Exited, TypeOK, Inventories, Files, Comparisons, NoFile, Torn, Empty,
       CodeInOrder, HasBaseline, Compared, Due, Serious, HasNews
  <2>2. OutputsInOrder' /\ BaselineKept' /\ CarriedOver'
    BY <1>15 DEF Exited, OutputsInOrder, Complete, NoOutput, BaselineKept, TypeOK,
       CarriedOver, Inventories, Empty, Due, Serious, HasNews
  <2>3. TellingDone'
    BY <1>15 DEF Exited, TellingDone, Told, OutputsInOrder, NoOutput, HasBaseline,
       Compared, HasNews, Serious, Due
  <2>4. CodeInOrder' /\ ZeroMeansPassed'
    BY <1>15 DEF Exited, CodeInOrder, HasBaseline, Due, HasNews, Compared, Serious,
       TypeOK, ZeroMeansPassed
  <2> QED BY <2>1, <2>2, <2>3, <2>4 DEF IInv
<1>16. CASE RemoveLatest
  <2>1. TypeOK'
    BY <1>16 DEF RemoveLatest, TypeOK, Inventories, Files, Comparisons, NoFile, Torn,
       Empty, CodeInOrder, HasBaseline, Compared
  <2>2. OutputsInOrder' /\ BaselineKept' /\ CarriedOver'
    BY <1>16 DEF RemoveLatest, OutputsInOrder, Complete, NoOutput, BaselineKept, TypeOK,
       CarriedOver, Inventories, Empty
  <2>3. TellingDone'
    BY <1>16 DEF RemoveLatest, TellingDone, Told, OutputsInOrder, NoOutput, HasBaseline,
       Compared, HasNews, Serious
  <2>4. CodeInOrder' /\ ZeroMeansPassed'
    BY <1>16 DEF RemoveLatest, CodeInOrder, HasBaseline, Due, HasNews, Compared,
       Serious, TypeOK, ZeroMeansPassed
  <2> QED BY <2>1, <2>2, <2>3, <2>4 DEF IInv
<1>17. CASE CopyLatest
  <2>1. TypeOK'
    BY <1>17 DEF CopyLatest, TypeOK, Inventories, Files, Comparisons, NoFile, Torn,
       Empty, CodeInOrder, HasBaseline, Compared
  <2>2. OutputsInOrder' /\ BaselineKept' /\ CarriedOver'
    BY <1>17 DEF CopyLatest, OutputsInOrder, Complete, NoOutput, BaselineKept, TypeOK,
       CarriedOver, Inventories, Empty
  <2>3. TellingDone'
    BY <1>17 DEF CopyLatest, TellingDone, Told, OutputsInOrder, NoOutput, HasBaseline,
       Compared, HasNews, Serious
  <2>4. CodeInOrder' /\ ZeroMeansPassed'
    BY <1>17 DEF CopyLatest, CodeInOrder, HasBaseline, Due, HasNews, Compared, Serious,
       TypeOK, ZeroMeansPassed
  <2> QED BY <2>1, <2>2, <2>3, <2>4 DEF IInv
<1>18. CASE EndRun
  <2>1. TypeOK'
    BY <1>18 DEF EndRun, TypeOK, Inventories, Files, Comparisons, NoFile, Torn, Empty,
       CodeInOrder, HasBaseline, Compared
  <2>2. OutputsInOrder' /\ BaselineKept' /\ CarriedOver'
    BY <1>18 DEF EndRun, OutputsInOrder, Complete, NoOutput, BaselineKept, TypeOK,
       CarriedOver, Inventories, Empty
  <2>3. TellingDone'
    BY <1>18 DEF EndRun, TellingDone, Told, OutputsInOrder, NoOutput, HasBaseline,
       Compared, HasNews, Serious
  <2>4. CodeInOrder' /\ ZeroMeansPassed'
    BY <1>18 DEF EndRun, CodeInOrder, HasBaseline, Due, HasNews, Compared, Serious,
       TypeOK, ZeroMeansPassed
  <2> QED BY <2>1, <2>2, <2>3, <2>4 DEF IInv
<1>19. CASE Raise
  <2>10. step # "cbom" => out'.cbom = out.cbom
    BY <1>19 DEF Raise, Halfway, TypeOK
  <2>1. TypeOK'
    BY <1>19 DEF Raise, TypeOK, Inventories, Files, Comparisons, NoFile, Torn, Empty,
       CodeInOrder, HasBaseline, Compared, Halfway, Trouble, Quit, Telling, Handover
  <2>2. OutputsInOrder' /\ BaselineKept' /\ CarriedOver'
    BY <1>19 DEF Raise, OutputsInOrder, Complete, NoOutput, BaselineKept, TypeOK,
       CarriedOver, Inventories, Empty, Halfway, Trouble, Quit, Telling, Handover
  <2>3. TellingDone'
    BY <1>19, <2>10 DEF Raise, TellingDone, Told, OutputsInOrder, NoOutput, HasBaseline,
       Compared, HasNews, Serious, Halfway, Trouble, Quit, Telling, Handover
  <2>4. CodeInOrder' /\ ZeroMeansPassed'
    BY <1>19 DEF Raise, CodeInOrder, HasBaseline, Due, HasNews, Compared, Serious,
       TypeOK, ZeroMeansPassed, Halfway, Trouble, Quit, Telling, Handover
  <2> QED BY <2>1, <2>2, <2>3, <2>4 DEF IInv
<1>20. CASE Kill
  <2>1. TypeOK'
    BY <1>20 DEF Kill, TypeOK, Inventories, Files, Comparisons, NoFile, Torn, Empty,
       CodeInOrder, HasBaseline, Compared, Halfway, Trouble, Handover
  <2>2. OutputsInOrder' /\ BaselineKept' /\ CarriedOver'
    BY <1>20 DEF Kill, OutputsInOrder, Complete, NoOutput, BaselineKept, TypeOK,
       CarriedOver, Inventories, Empty, Halfway, Trouble, Handover
  <2>3. TellingDone'
    BY <1>20 DEF Kill, TellingDone, Told, OutputsInOrder, NoOutput, HasBaseline,
       Compared, HasNews, Serious, Halfway, Trouble, Handover
  <2>4. CodeInOrder' /\ ZeroMeansPassed'
    BY <1>20 DEF Kill, CodeInOrder, HasBaseline, Due, HasNews, Compared, Serious,
       TypeOK, ZeroMeansPassed, Halfway, Trouble, Handover
  <2> QED BY <2>1, <2>2, <2>3, <2>4 DEF IInv
<1>21. CASE UNCHANGED vars
  <2>1. TypeOK'
    BY <1>21 DEF vars, TypeOK, Inventories, Files, Comparisons, NoFile, Torn, Empty,
       CodeInOrder, HasBaseline, Compared
  <2>2. OutputsInOrder' /\ BaselineKept' /\ CarriedOver'
    BY <1>21 DEF vars, OutputsInOrder, Complete, NoOutput, BaselineKept, TypeOK,
       CarriedOver, Inventories, Empty
  <2>3. TellingDone'
    BY <1>21 DEF vars, TellingDone, Told, OutputsInOrder, NoOutput, HasBaseline,
       Compared, HasNews, Serious
  <2>4. CodeInOrder' /\ ZeroMeansPassed'
    BY <1>21 DEF vars, CodeInOrder, HasBaseline, Due, HasNews, Compared, Serious,
       TypeOK, ZeroMeansPassed
  <2> QED BY <2>1, <2>2, <2>3, <2>4 DEF IInv
<1> QED
    BY <1>1, <1>2, <1>3, <1>4, <1>5, <1>6, <1>7, <1>8, <1>9, <1>10, <1>11, <1>12, <1>13,
       <1>14, <1>15, <1>16, <1>17, <1>18, <1>19, <1>20, <1>21 DEF Next, Run

\* Every first state satisfies the inductive invariant.
LEMMA Initial == Init => IInv
<1> SUFFICES ASSUME Init PROVE IInv
  OBVIOUS
<1> USE DEF Init, Steps
<1>1. TypeOK
  <2>1. out \in [inventory: Files, cbom: BOOLEAN]
    BY DEF NoOutput, Files
  <2>2. exits \in [code: 0..6, due: SUBSET (GateCodes \union {2})]
    OBVIOUS
  <2>3. estate \in Inventories \ {Empty} /\ inv \in Inventories /\ troubles \in 0..MaxTroubles
    BY DEF Inventories, Empty
  <2>4. failed \in BOOLEAN /\ kept \in Files /\ base \in Inventories \union {NoFile}
    BY DEF Files
  <2> QED BY <2>1, <2>2, <2>3, <2>4 DEF TypeOK
<1>2. OutputsInOrder /\ BaselineKept /\ CarriedOver
  BY DEF OutputsInOrder, BaselineKept, CarriedOver, Complete
<1>3. TellingDone /\ CodeInOrder /\ ZeroMeansPassed
  BY DEF TellingDone, Told, CodeInOrder, ZeroMeansPassed
<1> QED BY <1>1, <1>2, <1>3 DEF IInv

\* The inductive invariant holds in every reachable state.
THEOREM Invariance == Spec => []IInv
BY Initial, Step, PTL DEF Spec

-----------------------------------------------------------------------------
(* What follows                                                             *)

\* In every reachable state each variable has its type.
THEOREM TypeCorrect == Spec => []TypeOK
<1>1. IInv => TypeOK
  BY DEF IInv
<1> QED BY <1>1, Invariance, PTL

\* A run that exits with 0 passed no gate by mistake, whatever was in its way.
THEOREM GatesHold == Spec => []ZeroMeansPassed
<1>1. IInv => ZeroMeansPassed
  BY DEF IInv
<1> QED BY <1>1, Invariance, PTL

\* A new last inventory is handed over by the copy, or by one that was cut short.
LEMMA HandedOver ==
    ASSUME Next, basis' # basis
    PROVE  \/ CopyLatest
           \/ step = "copy" /\ "handover" \in cut'
<1>1. CASE EstateChanges
  BY <1>1 DEF EstateChanges, history
<1>2. CASE Run
  BY <1>2 DEF Run, StartRun, LoadBaseline, RunScan, WriteJson, WriteCbom, WriteRest, WriteDiff,
     Notify, NotifyNothing, NotifyNoUrl, GateChanges, Sign, Finish, Exited, RemoveLatest,
     EndRun, history
<1>3. CASE Raise
  BY <1>3 DEF Raise, Halfway, Handover
<1>4. CASE Kill
  BY <1>4 DEF Kill, Halfway, Handover
<1> QED BY <1>1, <1>2, <1>3, <1>4 DEF Next

\* What is handed over is the inventory of the run, complete, of a run that had
\* the last one handed over for its baseline.
LEMMA CopiedOver ==
    ASSUME IInv, CopyLatest, basis' # basis
    PROVE  /\ basis' = inv
           /\ Complete
           /\ step = "copy" /\ out.cbom
           /\ "handover" \notin cut => base = basis
<1>1. step = "copy" /\ out.cbom /\ Complete /\ out.inventory = inv
  BY DEF IInv, CopyLatest, OutputsInOrder, Complete
<1>2. basis' = inv
  BY <1>1 DEF CopyLatest
<1> QED BY <1>1, <1>2 DEF IInv, BaselineKept

\* Before one inventory follows another as the baseline, a changes.json compares
\* the two, and the webhook was tried, unless a run was cut short.
THEOREM ChangesTold == Spec => EveryChangeIsTold
<1>1. IInv /\ [Next]_vars =>
        [cut' = {} /\ basis # NoFile /\ basis' # basis
         => /\ <<basis, basis'>> \in written
            /\ "none" \notin Webhooks /\ HasNews(<<basis, basis'>>)
               => <<basis, basis'>> \in posted]_vars
  <2> SUFFICES ASSUME IInv, Next, cut' = {}, basis # NoFile, basis' # basis
               PROVE  /\ <<basis, basis'>> \in written
                      /\ "none" \notin Webhooks /\ HasNews(<<basis, basis'>>)
                         => <<basis, basis'>> \in posted
    BY DEF vars, history
  <2>1. CopyLatest
    BY HandedOver
  <2>2. cut = {}
    BY <2>1 DEF CopyLatest
  <2>3. Told /\ HasBaseline /\ Compared = <<basis, basis'>>
    BY <2>1, <2>2, CopiedOver DEF Told, HasBaseline, Compared
  <2> QED BY <2>2, <2>3 DEF IInv, TellingDone
<1> QED BY <1>1, Invariance, PTL DEF Spec, EveryChangeIsTold

\* No run forgets what the baseline knew because its source failed, unless one was
\* cut short while it replaced the baseline.
THEOREM Remembered == Spec => NothingIsForgotten
<1>1. IInv /\ [Next]_vars => [basis > Empty => basis' > Empty \/ "handover" \in cut']_vars
  <2> SUFFICES ASSUME IInv, Next, basis > Empty, basis' # basis, "handover" \notin cut'
               PROVE  basis' > Empty
    BY DEF vars, history
  <2>1. CopyLatest
    BY HandedOver
  <2>2. "handover" \notin cut
    BY <2>1 DEF CopyLatest
  <2> QED BY <2>1, <2>2, CopiedOver DEF IInv, CarriedOver
<1> QED BY <1>1, Invariance, PTL DEF Spec, NothingIsForgotten
==================================================================================
