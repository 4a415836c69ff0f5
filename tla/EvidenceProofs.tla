----------------------------- MODULE EvidenceProofs -----------------------------
(***************************************************************************)
(* Proofs about Evidence, for any configurations, any authorities, and any  *)
(* number of commands, keys and ticks of the clock.                         *)
(***************************************************************************)
EXTENDS Evidence, SequenceTheorems, WellFoundedInduction, TLAPS

USE EvidenceAssumption

-----------------------------------------------------------------------------
(* The inductive invariant                                                  *)

Steps == {"idle", "write", "sign", "stamp", "unlink", "finish", "wait"}

Statuses == {"none", "processing", "processed", "FAILED"}

\* What the proofs need of the shape of the state.
Shape ==
    /\ site \in Sites
    /\ files \in [Outputs -> Int]
    /\ runs \in Nat
    /\ DOMAIN command = {"name", "at", "todo", "names", "reply", "bom"}
    /\ command.at \in Steps
    /\ command.todo \in Seq(Outputs)
    /\ command.names \in SUBSET Outputs
    /\ server \in [bom: Int, status: Statuses]

\* Which command does what, and that whoever writes has taken back what the last
\* success said.
CommandInOrder ==
    /\ command.at = "idle" => command = Idle
    /\ command.at # "idle" => success = Nothing
    /\ command.name = "upload" <=> command.at = "wait"
    /\ command.name = "link" => command.at = "write"
    /\ command.at # "wait" /\ command.at # "idle" => runs > 0

\* What a command has named as written holds what this command wrote.
WrittenByThis == command.at # "wait" => \A f \in command.names : files[f] = runs

\* Every file that a manifest lists, it lists as one command wrote it.
OneRun ==
    manifest # Nothing => \A f \in DOMAIN manifest.files : manifest.files[f] = manifest.run

\* From the manifest on, a scan has listed what is there; from the signature on,
\* it has signed that.
EvidenceAtHand ==
    /\ command.at \in {"sign", "stamp", "unlink", "finish"} =>
          /\ manifest # Nothing
          /\ DOMAIN manifest.files = command.names
          /\ \A f \in DOMAIN manifest.files : files[f] = manifest.files[f]
    /\ command.at \in {"stamp", "unlink", "finish"} =>
          signature # Nothing /\ signature.over = manifest /\ signature.key = manifest.key
    /\ command.at \in {"unlink", "finish"} =>
          /\ command.reply # Nothing => StampProblems(command.reply, signature, site.roots) = {}
          /\ site.required /\ site.urls > 0 => command.reply # Nothing
    /\ command.at = "finish" => stamp = Nothing

\* The server has what this upload gave it.
UploadAtHand ==
    command.at = "wait" => server.bom = command.bom /\ server.status # "none"

\* The inductive invariant: together these hold in every reachable state.
IInv ==
    /\ Shape /\ CommandInOrder /\ WrittenByThis /\ OneRun /\ EvidenceAtHand /\ UploadAtHand
    /\ SuccessStands

-----------------------------------------------------------------------------
(* The steps                                                                *)

\* Absence is told from a manifest and from a signature by its fields.
LEMMA NotNothing ==
    /\ \A r, k, f : [run |-> r, key |-> k, files |-> f] # Nothing
    /\ \A m, k : [over |-> m, key |-> k] # Nothing
<1>1. "none" \in DOMAIN Nothing
  BY DEF Nothing
<1>2. /\ \A r, k, f : "none" \notin DOMAIN [run |-> r, key |-> k, files |-> f]
      /\ \A m, k : "none" \notin DOMAIN [over |-> m, key |-> k]
  OBVIOUS
<1> QED BY <1>1, <1>2

\* What a scan and what link writes are outputs.
LEMMA Lists ==
    /\ Formats \in Seq(Outputs)
    /\ \A compares \in BOOLEAN : Formats \o (IF compares THEN Comparison ELSE <<>>) \in Seq(Outputs)
<1>1. Formats \in Seq(Outputs) /\ Comparison \in Seq(Outputs) /\ <<>> \in Seq(Outputs)
  BY DEF Formats, Comparison, Outputs
<1> QED BY <1>1, ConcatProperties

\* No command has the fields of one.
LEMMA IdleShape ==
    /\ DOMAIN Idle = {"name", "at", "todo", "names", "reply", "bom"}
    /\ Idle.at \in Steps /\ Idle.todo \in Seq(Outputs) /\ Idle.names \in SUBSET Outputs
<1>1. <<>> \in Seq(Outputs)
  OBVIOUS
<1> QED BY <1>1 DEF Idle, Steps

\* A set of naturals that is not empty has a least element.
LEMMA LeastExists ==
    ASSUME NEW S \in SUBSET Nat, S # {}
    PROVE  \E m \in S : \A x \in S : m <= x
<1> DEFINE Less == OpToRel(<, Nat)
<1>1. IsWellFoundedOn(Less, Nat)
  BY NatLessThanWellFounded
<1>2. PICK m \in S : \A x \in S : ~(<<x, m>> \in Less)
  <2> HIDE DEF Less
  <2> QED BY <1>1, WFMin
<1>3. \A x \in S : x < m => <<x, m>> \in Less
  BY DEF OpToRel
<1>4. \A x \in S : ~(x < m)
  BY <1>2, <1>3
<1> HIDE DEF Less
<1> QED BY <1>4

\* The answer that is taken, if one is, has nothing wrong with it.
LEMMA FirstGood ==
    ASSUME site.urls \in Nat, NEW templates \in [1..site.urls -> Authorities], NEW sig,
           Request(templates, sig) # Nothing
    PROVE  StampProblems(Request(templates, sig), sig, site.roots) = {}
<1> DEFINE good == {i \in DOMAIN templates : Good(templates[i], sig)}
<1>1. good # {}
  BY DEF Request
<1>2. good \in SUBSET Nat
  OBVIOUS
<1> DEFINE first == CHOOSE i \in good : \A j \in good : i <= j
<1>3. first \in good
  BY <1>1, <1>2, LeastExists
<1>4. Request(templates, sig) = Reply(templates[first], sig)
  BY <1>1 DEF Request
<1>5. Good(templates[first], sig)
  BY <1>3
<1> QED BY <1>4, <1>5 DEF Good

\* The invariant is kept by every step.
LEMMA Step == IInv /\ [Next]_vars => IInv'
<1> SUFFICES ASSUME IInv, [Next]_vars PROVE IInv'
  OBVIOUS
<1>0. /\ Shape /\ CommandInOrder /\ WrittenByThis /\ OneRun /\ EvidenceAtHand
      /\ UploadAtHand /\ SuccessStands
  BY DEF IInv
<1> USE <1>0 DEF folder
<1>1. ASSUME NEW compares \in BOOLEAN, BeginScan(compares) PROVE IInv'
  <2>1. Shape'
    <3>1. PICK todo \in Seq(Outputs) : command' = [Idle EXCEPT !.name = "scan", !.at = "write", !.todo = todo]
      BY <1>1, Lists DEF BeginScan, Begin
    <3>2. /\ DOMAIN command' = {"name", "at", "todo", "names", "reply", "bom"}
          /\ command'.at = "write" /\ command'.todo = todo /\ command'.names = {}
      BY <3>1 DEF Idle
    <3>3. UNCHANGED <<site, files, server>> /\ runs' = runs + 1
      BY <1>1 DEF BeginScan, Begin
    <3> QED BY <3>1, <3>2, <3>3 DEF Shape, Steps
  <2>2. CommandInOrder'
    BY <1>1 DEF BeginScan, CommandInOrder, Shape, Begin, Idle
  <2>3. WrittenByThis'
    BY <1>1 DEF BeginScan, WrittenByThis, Shape, CommandInOrder, Begin, Idle
  <2>4. OneRun'
    BY <1>1 DEF BeginScan, OneRun, Begin, Idle
  <2>5. EvidenceAtHand'
    BY <1>1 DEF BeginScan, EvidenceAtHand, Shape, Begin, Idle
  <2>6. UploadAtHand'
    BY <1>1 DEF BeginScan, UploadAtHand, Shape, CommandInOrder, Begin, Idle
  <2>7. SuccessStands'
    BY <1>1 DEF BeginScan, SuccessStands, CommandInOrder, VerifyExit, Verify, Begin,
       Idle
  <2> QED BY <2>1, <2>2, <2>3, <2>4, <2>5, <2>6, <2>7 DEF IInv
<1>2. CASE BeginLink
  <2>1. Shape'
    <3>1. PICK todo \in Seq(Outputs) : command' = [Idle EXCEPT !.name = "link", !.at = "write", !.todo = todo]
      BY <1>2, Lists DEF BeginLink, Begin
    <3>2. /\ DOMAIN command' = {"name", "at", "todo", "names", "reply", "bom"}
          /\ command'.at = "write" /\ command'.todo = todo /\ command'.names = {}
      BY <3>1 DEF Idle
    <3>3. UNCHANGED <<site, files, server>> /\ runs' = runs + 1
      BY <1>2 DEF BeginLink, Begin
    <3> QED BY <3>1, <3>2, <3>3 DEF Shape, Steps
  <2>2. CommandInOrder'
    BY <1>2 DEF BeginLink, CommandInOrder, Shape, Begin, Idle
  <2>3. WrittenByThis'
    BY <1>2 DEF BeginLink, WrittenByThis, Shape, CommandInOrder, Begin, Idle
  <2>4. OneRun'
    BY <1>2 DEF BeginLink, OneRun, Begin, Idle
  <2>5. EvidenceAtHand'
    BY <1>2 DEF BeginLink, EvidenceAtHand, Shape, Begin, Idle
  <2>6. UploadAtHand'
    BY <1>2 DEF BeginLink, UploadAtHand, Shape, CommandInOrder, Begin, Idle
  <2>7. SuccessStands'
    BY <1>2 DEF BeginLink, SuccessStands, CommandInOrder, VerifyExit, Verify, Begin,
       Idle
  <2> QED BY <2>1, <2>2, <2>3, <2>4, <2>5, <2>6, <2>7 DEF IInv
<1>3. CASE Write
  <2>1. Shape'
    BY <1>3 DEF Write, Shape, Steps, Statuses
  <2>2. CommandInOrder'
    BY <1>3 DEF Write, CommandInOrder, Shape
  <2>3. WrittenByThis'
    BY <1>3 DEF Write, WrittenByThis, Shape, CommandInOrder
  <2>4. OneRun'
    BY <1>3 DEF Write, OneRun
  <2>5. EvidenceAtHand'
    BY <1>3 DEF Write, EvidenceAtHand, Shape
  <2>6. UploadAtHand'
    BY <1>3 DEF Write, UploadAtHand, Shape, CommandInOrder
  <2>7. SuccessStands'
    BY <1>3 DEF Write, SuccessStands, CommandInOrder, VerifyExit, Verify
  <2> QED BY <2>1, <2>2, <2>3, <2>4, <2>5, <2>6, <2>7 DEF IInv
<1>4. CASE WriteManifest
  <2>1. Shape'
    BY <1>4 DEF WriteManifest, Shape, Steps, Statuses, SignedNames
  <2>2. CommandInOrder'
    BY <1>4 DEF WriteManifest, CommandInOrder, Shape, SignedNames
  <2>3. WrittenByThis'
    BY <1>4 DEF WriteManifest, WrittenByThis, Shape, CommandInOrder, SignedNames
  <2>4. OneRun'
    <3>1. \A f \in SignedNames : files[f] = runs
      BY <1>4 DEF WriteManifest, SignedNames, WrittenByThis
    <3>2. manifest'.run = runs /\ manifest'.files = [f \in SignedNames |-> files[f]]
      BY <1>4 DEF WriteManifest
    <3> QED BY <3>1, <3>2 DEF OneRun
  <2>5. EvidenceAtHand'
    <3>1. SignedNames = command.names
      BY <1>4 DEF WriteManifest, SignedNames, WrittenByThis, CommandInOrder, Shape, Absent
    <3>2. /\ manifest' = [run |-> runs, key |-> key, files |-> [f \in SignedNames |-> files[f]]]
          /\ files' = files /\ command'.at = "sign" /\ command'.names = command.names
      BY <1>4 DEF WriteManifest, Shape
    <3>3. manifest' # Nothing
      BY <3>2, NotNothing
    <3>4. manifest'.files = [f \in command.names |-> files[f]]
      BY <3>1, <3>2
    <3> QED BY <3>2, <3>3, <3>4 DEF EvidenceAtHand
  <2>6. UploadAtHand'
    BY <1>4 DEF WriteManifest, UploadAtHand, Shape, CommandInOrder, SignedNames
  <2>7. SuccessStands'
    BY <1>4 DEF WriteManifest, SuccessStands, CommandInOrder, VerifyExit, Verify,
       SignedNames
  <2> QED BY <2>1, <2>2, <2>3, <2>4, <2>5, <2>6, <2>7 DEF IInv
<1>5. CASE WriteSignature
  <2>1. Shape'
    BY <1>5 DEF WriteSignature, Shape, Steps, Statuses
  <2>2. CommandInOrder'
    BY <1>5 DEF WriteSignature, CommandInOrder, Shape
  <2>3. WrittenByThis'
    BY <1>5 DEF WriteSignature, WrittenByThis, Shape, CommandInOrder
  <2>4. OneRun'
    BY <1>5 DEF WriteSignature, OneRun
  <2>5. EvidenceAtHand'
    <3>1. /\ signature' = [over |-> manifest, key |-> manifest.key]
          /\ UNCHANGED <<files, manifest>> /\ command.at = "sign"
          /\ command'.at = "stamp" /\ command'.names = command.names
      BY <1>5 DEF WriteSignature, Shape
    <3>2. signature' # Nothing
      BY <3>1, NotNothing
    <3>3. signature'.over = manifest /\ signature'.key = manifest.key
      BY <3>1
    <3> QED BY <3>1, <3>2, <3>3 DEF EvidenceAtHand
  <2>6. UploadAtHand'
    BY <1>5 DEF WriteSignature, UploadAtHand, Shape, CommandInOrder
  <2>7. SuccessStands'
    BY <1>5 DEF WriteSignature, SuccessStands, CommandInOrder, VerifyExit, Verify
  <2> QED BY <2>1, <2>2, <2>3, <2>4, <2>5, <2>6, <2>7 DEF IInv
<1>6. CASE AskForStamp
  <2>1. Shape'
    BY <1>6 DEF AskForStamp, Shape, Steps, Statuses, Idle
  <2>2. CommandInOrder'
    BY <1>6 DEF AskForStamp, CommandInOrder, Shape, Idle
  <2>3. WrittenByThis'
    BY <1>6 DEF AskForStamp, WrittenByThis, Shape, CommandInOrder, Idle
  <2>4. OneRun'
    BY <1>6 DEF AskForStamp, OneRun, Idle
  <2>5. EvidenceAtHand'
    <3>1. PICK templates \in [1..site.urls -> Authorities] :
             LET reply == Request(templates, signature)
             IN  command' = IF reply = Nothing /\ site.required /\ site.urls > 0 THEN Idle
                            ELSE [command EXCEPT !.at = "unlink", !.reply = reply]
      BY <1>6 DEF AskForStamp
    <3> DEFINE reply == Request(templates, signature)
    <3>2. reply # Nothing => StampProblems(reply, signature, site.roots) = {}
      BY FirstGood DEF Shape
    <3>3. /\ UNCHANGED <<site, files, manifest, signature, stamp>>
          /\ command.at = "stamp"
      BY <1>6 DEF AskForStamp
    <3> HIDE DEF reply
    <3>4. \/ command'.at = "idle"
          \/ /\ command'.at = "unlink" /\ command'.reply = reply
             /\ command'.names = command.names
             /\ ~(reply = Nothing /\ site.required /\ site.urls > 0)
      BY <3>1 DEF Shape, Idle, reply
    <3> QED BY <3>2, <3>3, <3>4 DEF EvidenceAtHand
  <2>6. UploadAtHand'
    BY <1>6 DEF AskForStamp, UploadAtHand, Shape, CommandInOrder, Idle
  <2>7. SuccessStands'
    BY <1>6 DEF AskForStamp, SuccessStands, CommandInOrder, VerifyExit, Verify, Idle
  <2> QED BY <2>1, <2>2, <2>3, <2>4, <2>5, <2>6, <2>7 DEF IInv
<1>7. CASE Unlink
  <2>1. Shape'
    BY <1>7 DEF Unlink, Shape, Steps, Statuses, Unlinked
  <2>2. CommandInOrder'
    BY <1>7 DEF Unlink, CommandInOrder, Shape, Unlinked
  <2>3. WrittenByThis'
    BY <1>7 DEF Unlink, WrittenByThis, Shape, CommandInOrder, Unlinked
  <2>4. OneRun'
    BY <1>7 DEF Unlink, OneRun, Unlinked
  <2>5. EvidenceAtHand'
    BY <1>7 DEF Unlink, EvidenceAtHand, Shape, Unlinked
  <2>6. UploadAtHand'
    BY <1>7 DEF Unlink, UploadAtHand, Shape, CommandInOrder, Unlinked
  <2>7. SuccessStands'
    BY <1>7 DEF Unlink, SuccessStands, CommandInOrder, VerifyExit, Verify, Unlinked
  <2> QED BY <2>1, <2>2, <2>3, <2>4, <2>5, <2>6, <2>7 DEF IInv
<1>8. CASE Finish
  <2>1. Shape'
    BY <1>8 DEF Finish, Shape, Steps, Statuses, Idle
  <2>2. CommandInOrder'
    BY <1>8 DEF Finish, CommandInOrder, Shape, Idle
  <2>3. WrittenByThis'
    BY <1>8 DEF Finish, WrittenByThis, Shape, CommandInOrder, Idle
  <2>4. OneRun'
    BY <1>8 DEF Finish, OneRun, Idle
  <2>5. EvidenceAtHand'
    BY <1>8 DEF Finish, EvidenceAtHand, Shape, Idle
  <2>6. UploadAtHand'
    BY <1>8 DEF Finish, UploadAtHand, Shape, CommandInOrder, Idle
  <2>7. SuccessStands'
    <3>1. /\ success' = [name |-> "scan", names |-> command.names, key |-> manifest.key, run |-> runs]
          /\ UNCHANGED <<site, files, manifest, signature>>
          /\ command.at = "finish"
          /\ stamp' = IF command.reply = Nothing THEN stamp ELSE command.reply
      BY <1>8 DEF Finish
    <3>2. success'.name = "scan" /\ success'.names = command.names /\ success'.key = manifest.key
      BY <3>1
    <3>3. stamp' = command.reply
      BY <3>1 DEF EvidenceAtHand
    <3>4. Verify(success.key, site.roots, site.required /\ site.urls > 0 /\ site.roots # <<>>)'
      BY <3>1, <3>2, <3>3 DEF EvidenceAtHand, Verify
    <3> QED BY <3>1, <3>2, <3>4 DEF SuccessStands, VerifyExit, EvidenceAtHand
  <2> QED BY <2>1, <2>2, <2>3, <2>4, <2>5, <2>6, <2>7 DEF IInv
<1>9. CASE FinishLink
  <2>1. Shape'
    BY <1>9 DEF FinishLink, Shape, Steps, Statuses, Idle
  <2>2. CommandInOrder'
    BY <1>9 DEF FinishLink, CommandInOrder, Shape, Idle
  <2>3. WrittenByThis'
    BY <1>9 DEF FinishLink, WrittenByThis, Shape, CommandInOrder, Idle
  <2>4. OneRun'
    BY <1>9 DEF FinishLink, OneRun, Idle
  <2>5. EvidenceAtHand'
    BY <1>9 DEF FinishLink, EvidenceAtHand, Shape, Idle
  <2>6. UploadAtHand'
    BY <1>9 DEF FinishLink, UploadAtHand, Shape, CommandInOrder, Idle
  <2>7. SuccessStands'
    BY <1>9 DEF FinishLink, SuccessStands, CommandInOrder, VerifyExit, Verify, Idle
  <2> QED BY <2>1, <2>2, <2>3, <2>4, <2>5, <2>6, <2>7 DEF IInv
<1>10. CASE Kill
  <2>1. Shape'
    <3>1. files' \in [Outputs -> Int]
      BY <1>10 DEF Kill, Shape, Torn
    <3>2. command' = Idle /\ UNCHANGED <<site, runs, server>>
      BY <1>10 DEF Kill
    <3> QED BY <3>1, <3>2, IdleShape DEF Shape
  <2>2. CommandInOrder'
    BY <1>10 DEF Kill, CommandInOrder, Shape, Idle
  <2>3. WrittenByThis'
    BY <1>10 DEF Kill, WrittenByThis, Shape, CommandInOrder, Idle
  <2>4. OneRun'
    BY <1>10 DEF Kill, OneRun, Idle
  <2>5. EvidenceAtHand'
    BY <1>10 DEF Kill, EvidenceAtHand, Shape, Idle
  <2>6. UploadAtHand'
    BY <1>10 DEF Kill, UploadAtHand, Shape, CommandInOrder, Idle
  <2>7. SuccessStands'
    BY <1>10 DEF Kill, SuccessStands, CommandInOrder, VerifyExit, Verify, Idle
  <2> QED BY <2>1, <2>2, <2>3, <2>4, <2>5, <2>6, <2>7 DEF IInv
<1>11. CASE NewKey
  <2>1. Shape'
    BY <1>11 DEF NewKey, Shape, Steps, Statuses
  <2>2. CommandInOrder'
    BY <1>11 DEF NewKey, CommandInOrder, Shape
  <2>3. WrittenByThis'
    BY <1>11 DEF NewKey, WrittenByThis, Shape, CommandInOrder
  <2>4. OneRun'
    BY <1>11 DEF NewKey, OneRun
  <2>5. EvidenceAtHand'
    BY <1>11 DEF NewKey, EvidenceAtHand, Shape
  <2>6. UploadAtHand'
    BY <1>11 DEF NewKey, UploadAtHand, Shape, CommandInOrder
  <2>7. SuccessStands'
    BY <1>11 DEF NewKey, SuccessStands, CommandInOrder, VerifyExit, Verify
  <2> QED BY <2>1, <2>2, <2>3, <2>4, <2>5, <2>6, <2>7 DEF IInv
<1>12. CASE Tick
  <2>1. Shape'
    BY <1>12 DEF Tick, Shape, Steps, Statuses
  <2>2. CommandInOrder'
    BY <1>12 DEF Tick, CommandInOrder, Shape
  <2>3. WrittenByThis'
    BY <1>12 DEF Tick, WrittenByThis, Shape, CommandInOrder
  <2>4. OneRun'
    BY <1>12 DEF Tick, OneRun
  <2>5. EvidenceAtHand'
    BY <1>12 DEF Tick, EvidenceAtHand, Shape
  <2>6. UploadAtHand'
    BY <1>12 DEF Tick, UploadAtHand, Shape, CommandInOrder
  <2>7. SuccessStands'
    BY <1>12 DEF Tick, SuccessStands, CommandInOrder, VerifyExit, Verify
  <2> QED BY <2>1, <2>2, <2>3, <2>4, <2>5, <2>6, <2>7 DEF IInv
<1>13. CASE Upload
  <2>1. Shape'
    <3>1. files["cbom.json"] \in Int
      BY DEF Shape, Outputs
    <3>2. server' \in [bom: Int, status: Statuses]
      BY <1>13, <3>1 DEF Upload, Statuses
    <3>3. /\ DOMAIN command' = {"name", "at", "todo", "names", "reply", "bom"}
          /\ command'.at = "wait" /\ command'.todo = <<>> /\ command'.names = {}
      BY <1>13 DEF Upload, Idle
    <3> QED BY <1>13, <3>2, <3>3, IdleShape DEF Upload, Shape, Steps, Idle
  <2>2. CommandInOrder'
    BY <1>13 DEF Upload, CommandInOrder, Shape, Idle
  <2>3. WrittenByThis'
    BY <1>13 DEF Upload, WrittenByThis, Shape, CommandInOrder, Idle
  <2>4. OneRun'
    BY <1>13 DEF Upload, OneRun, Idle
  <2>5. EvidenceAtHand'
    BY <1>13 DEF Upload, EvidenceAtHand, Shape, Idle
  <2>6. UploadAtHand'
    BY <1>13 DEF Upload, UploadAtHand, Shape, CommandInOrder, Idle
  <2>7. SuccessStands'
    BY <1>13 DEF Upload, SuccessStands, CommandInOrder, VerifyExit, Verify, Idle
  <2> QED BY <2>1, <2>2, <2>3, <2>4, <2>5, <2>6, <2>7 DEF IInv
<1>14. CASE Process
  <2>1. Shape'
    BY <1>14 DEF Process, Shape, Steps, Statuses
  <2>2. CommandInOrder'
    BY <1>14 DEF Process, CommandInOrder, Shape
  <2>3. WrittenByThis'
    BY <1>14 DEF Process, WrittenByThis, Shape, CommandInOrder
  <2>4. OneRun'
    BY <1>14 DEF Process, OneRun
  <2>5. EvidenceAtHand'
    BY <1>14 DEF Process, EvidenceAtHand, Shape
  <2>6. UploadAtHand'
    BY <1>14 DEF Process, UploadAtHand, Shape, CommandInOrder
  <2>7. SuccessStands'
    BY <1>14 DEF Process, SuccessStands, CommandInOrder, VerifyExit, Verify
  <2> QED BY <2>1, <2>2, <2>3, <2>4, <2>5, <2>6, <2>7 DEF IInv
<1>15. CASE Waited
  <2>1. Shape'
    BY <1>15 DEF Waited, Shape, Steps, Statuses, Idle, Done
  <2>2. CommandInOrder'
    BY <1>15 DEF Waited, CommandInOrder, Shape, Idle, Done
  <2>3. WrittenByThis'
    BY <1>15 DEF Waited, WrittenByThis, Shape, CommandInOrder, Idle, Done
  <2>4. OneRun'
    BY <1>15 DEF Waited, OneRun, Idle, Done
  <2>5. EvidenceAtHand'
    BY <1>15 DEF Waited, EvidenceAtHand, Shape, Idle, Done
  <2>6. UploadAtHand'
    BY <1>15 DEF Waited, UploadAtHand, Shape, CommandInOrder, Idle, Done
  <2>7. SuccessStands'
    <3>1. /\ success' = [name |-> "upload", bom |-> command.bom]
          /\ UNCHANGED server
          /\ command.at = "wait" /\ Done(server.status)
      BY <1>15 DEF Waited, CommandInOrder
    <3>2. success'.name = "upload" /\ success'.bom = command.bom
      BY <3>1
    <3>3. server.bom = command.bom /\ server.status = "processed"
      BY <3>1 DEF UploadAtHand, Done, Shape, Statuses
    <3>4. server = [bom |-> command.bom, status |-> "processed"]
      BY <3>3 DEF Shape
    <3> QED BY <3>1, <3>2, <3>4 DEF SuccessStands
  <2> QED BY <2>1, <2>2, <2>3, <2>4, <2>5, <2>6, <2>7 DEF IInv
<1>16. CASE UNCHANGED vars
  <2>1. Shape'
    BY <1>16 DEF vars, Shape, Steps, Statuses
  <2>2. CommandInOrder'
    BY <1>16 DEF vars, CommandInOrder, Shape
  <2>3. WrittenByThis'
    BY <1>16 DEF vars, WrittenByThis, Shape, CommandInOrder
  <2>4. OneRun'
    BY <1>16 DEF vars, OneRun
  <2>5. EvidenceAtHand'
    BY <1>16 DEF vars, EvidenceAtHand, Shape
  <2>6. UploadAtHand'
    BY <1>16 DEF vars, UploadAtHand, Shape, CommandInOrder
  <2>7. SuccessStands'
    BY <1>16 DEF vars, SuccessStands, CommandInOrder, VerifyExit, Verify
  <2> QED BY <2>1, <2>2, <2>3, <2>4, <2>5, <2>6, <2>7 DEF IInv
<1> QED
    BY <1>1, <1>2, <1>3, <1>4, <1>5, <1>6, <1>7, <1>8, <1>9, <1>10, <1>11, <1>12, <1>13,
       <1>14, <1>15, <1>16 DEF Next

\* Every first state satisfies the inductive invariant.
LEMMA Initial == Init => IInv
<1> SUFFICES ASSUME Init PROVE IInv
  OBVIOUS
<1>1. command = Idle /\ success = Nothing /\ manifest = Nothing /\ files \in [Outputs -> Int]
  BY DEF Init, Absent
<1>2. server \in [bom: Int, status: Statuses]
  BY DEF Init, Absent, Statuses
<1>3. Shape
  BY <1>1, <1>2, IdleShape DEF Init, Shape
<1>4. CommandInOrder /\ WrittenByThis /\ OneRun /\ EvidenceAtHand /\ UploadAtHand
  BY <1>1 DEF CommandInOrder, WrittenByThis, OneRun, EvidenceAtHand, UploadAtHand, Idle
<1>5. SuccessStands
  BY <1>1 DEF SuccessStands
<1> QED BY <1>3, <1>4, <1>5 DEF IInv

\* The inductive invariant holds in every reachable state: what the evidence in the
\* folder says is what the command that wrote it did.
THEOREM Invariance == Spec => []IInv
<1> QED BY Initial, Step, PTL DEF Spec

-----------------------------------------------------------------------------
(* What exit 0 promises                                                     *)

\* SuccessStands for every configuration, whatever the authorities answer and
\* however often commands are killed: what a scan or an upload that exited 0 said
\* of the folder and of the server holds until the next one begins.
THEOREM Stands == Spec => []SuccessStands
<1>1. IInv => SuccessStands
  BY DEF IInv
<1> QED BY <1>1, Invariance, PTL

\* VerifiedIsOneScan for every configuration: a folder that `keycensus verify`
\* accepts holds, of the files that the manifest lists, what one command wrote.
THEOREM OneScan == Spec => []VerifiedIsOneScan
<1>1. IInv => VerifiedIsOneScan
  BY DEF IInv, OneRun, VerifiedIsOneScan, VerifyExit, Verify
<1> QED BY <1>1, Invariance, PTL
=============================================================================
