------------------------ MODULE TemplateUpdate_proofs ------------------------
(***************************************************************************)
(* Proofs of the safety properties of TemplateUpdate, for all constants    *)
(* with a finite set of VMs.  The inductive invariant follows the update   *)
(* through its steps: what is already removed, copied, listed and offered. *)
(***************************************************************************)
EXTENDS TemplateUpdate, FiniteSetTheorems, TLAPS

Listed == {"load", "forc", "store", "done"}

(* The directory at each step of the update.                               *)
Files ==
  /\ upc = "remove" => \A t \in Templates \ todo : resenvs[t] = "absent"
  /\ upc = "move" => resenvs = Empty
  /\ upc = "copy" => \A t \in Templates :
       resenvs[t] = IF t \in todo THEN "absent" ELSE archive[t]
  /\ upc \in {"list"} \cup Listed => resenvs = archive

(* The tables once the directory is complete.                              *)
Tables ==
  /\ upc \in Listed => allTemplates = Present(archive)
  /\ upc \in Listed => \A t \in Templates : archive[t] \in ForcEditions =>
       offered[t] > 0 \/ (upc = "load" /\ t \in todo)

(* The templates in hand: StoreMetadata finds the one AskForc has left.    *)
InHand ==
  /\ upc = "forc" => todo = parsed
  /\ upc = "store" => \E t \in todo :
       /\ parsed = todo \ {t}
       /\ resenvs[t] \in ForcEditions
       /\ forcAllowed[t] # "none"

(* Each update offers a template at most once.                             *)
Counts ==
  /\ upc \in {"lock"} \cup CheckSteps => updates < MaxUpdates
  /\ \A t \in Templates : offered[t] <= updates
  /\ upc \in {"download", "remove", "move", "copy", "list"} =>
       \A t \in Templates : offered[t] < updates
  /\ upc = "load" => \A t \in todo : offered[t] < updates

(* Only the update thread between Lock and Unlock holds the lock.          *)
Locked ==
  /\ isLocked <=> upc \in UpdateSteps
  /\ upc \in {"idle"} \cup CheckSteps => serving

UInv ==
  /\ UTypeOK /\ MetadataHasVersions
  /\ Files /\ Tables /\ InHand /\ Counts /\ Locked

-----------------------------------------------------------------------------
(* A dictionary of playbooks has no more keys than there are VMs.          *)
LEMMA SizeBounded ==
  ASSUME NEW S \in SUBSET VMs
  PROVE  Cardinality(S) \in 0 .. Cardinality(VMs)
  BY TemplateAssumption, FS_Subset, FS_CardinalityType

LEMMA SizeZero == 0 \in 0 .. Cardinality(VMs)
<1>1. Cardinality(VMs) \in Nat
  BY TemplateAssumption, FS_CardinalityType
<1> QED
  BY <1>1

(* The types of the loop's own variables, and what they are without a loop. *)
LookTypes ==
  /\ size \in 0 .. Cardinality(VMs) /\ left \in 0 .. size
  /\ seen \subseteq VMs /\ id \in VMs \cup {NoVM} /\ changed \in BOOLEAN

LEMMA EmptyLoop == LeaveLoop => LookTypes'
<1>1. 0 \in 0 .. 0
  OBVIOUS
<1> QED
  BY <1>1, SizeZero, Zenon DEF LeaveLoop, LookTypes

(* The initial state.                                                      *)
LEMMA InitInv == UInit => UInv
<1> SUFFICES ASSUME UInit PROVE UInv
  OBVIOUS
<1> USE TemplateAssumption DEF UInit
<1>1. UTypeOK
  <2>1. /\ size \in 0 .. Cardinality(VMs) /\ left \in 0 .. size
        /\ seen \subseteq VMs /\ id \in VMs \cup {NoVM} /\ changed \in BOOLEAN
    <3>1. 0 \in 0 .. 0
      OBVIOUS
    <3> QED
      BY <3>1, SizeZero, Zenon
  <2>2. resenvs \in Contents /\ archive \in Contents
    BY DEF Contents, Empty
  <2>3. /\ loaded \in [Templates -> ForcEditions \cup {"absent"}]
        /\ forcAllowed \in [Templates -> Entries]
        /\ offered \in [Templates -> 0 .. MaxUpdates]
    BY DEF Empty, Entries
  <2>4. /\ tries \in 0 .. MaxRetries /\ updates \in 0 .. MaxUpdates
        /\ upc \in UpdatePCs
    BY DEF UpdatePCs
  <2> QED
    BY <2>1, <2>2, <2>3, <2>4 DEF UInit, UTypeOK
<1>2. MetadataHasVersions /\ InHand /\ Files /\ Tables
  BY DEF MetadataHasVersions, Empty, InHand, Files, Tables, Listed
<1>3. Counts /\ Locked
  BY DEF Counts, Locked, CheckSteps, LookSteps, UpdateSteps
<1> QED
  BY <1>1, <1>2, <1>3 DEF UInv

(* The types.  The loop over active_playbooks counts at most all VMs.      *)
LEMMA UTypeOKStep ==
  ASSUME UInv, [UNext]_uvars
  PROVE  UTypeOK'
<1> USE TemplateAssumption DEF UTypeOK, Contents, Entries, Empty, Present, Editions, UpdatePCs,
      CheckSteps, LookSteps, UpdateSteps, UGoto, Counts, InHand
<1>1. UTypeOK /\ Counts /\ InHand
  BY DEF UInv
<1>2. CASE StartJob
  BY <1>1, <1>2 DEF StartJob, environ, loop, work, tables, own
<1>3. CASE BeginCheck
  <2>1. (/\ size \in 0 .. Cardinality(VMs) /\ left \in 0 .. size)'
    BY <1>1, <1>3, SizeBounded DEF BeginCheck
  <2> QED
    BY <1>1, <1>3, <2>1 DEF BeginCheck, environ, loop, work, tables, own
<1>4. CASE NextKey
  <2>1. (LookTypes /\ tries \in 0 .. MaxRetries /\ upc \in UpdatePCs)'
    <3>1. CASE JobRaises
      BY <1>1, <3>1, EmptyLoop DEF JobRaises
    <3>2. CASE FoundNone
      BY <1>1, <3>2, EmptyLoop DEF FoundNone
    <3>3. CASE left > 0 /\ left' = left - 1 /\ size' = size
      <4>1. (size \in 0 .. Cardinality(VMs) /\ left \in 0 .. size)'
        BY <1>1, <3>3
      <4> QED
        BY <1>1, <1>4, <3>3, <4>1
           DEF NextKey, LookTypes, JobRaises, FoundNone, LeaveLoop, Gives
    <3> QED
      BY <1>4, <3>1, <3>2, <3>3 DEF NextKey
  <2> QED
    BY <1>1, <1>4, <2>1
       DEF NextKey, LookTypes, environ, work, tables
<1>5. CASE LookUp
  <2>1. (LookTypes /\ tries \in 0 .. MaxRetries /\ upc \in UpdatePCs)'
    <3>1. CASE FoundActive
      BY <1>1, <3>1, EmptyLoop DEF FoundActive
    <3>2. CASE UGoto("ask_redis") /\ id' = NoVM
               /\ UNCHANGED <<tries, size, left, seen, changed>>
      BY <1>1, <3>2 DEF LookTypes
    <3> QED
      BY <1>5, <3>1, <3>2 DEF LookUp
  <2> QED
    BY <1>1, <1>5, <2>1 DEF LookUp, LookTypes, environ, work, tables
<1>6. CASE Lock
  BY <1>1, <1>6 DEF Lock, environ, loop, work, tables, own
<1>7. CASE Download
  BY <1>1, <1>7 DEF Download, environ, loop, work, tables, own
<1>8. CASE Remove
  BY <1>1, <1>8 DEF Remove, environ, loop, work, tables, own
<1>9. CASE Move
  BY <1>1, <1>9 DEF Move, environ, loop, work, tables, own
<1>10. CASE Copy
  BY <1>1, <1>10 DEF Copy, environ, loop, work, tables, own
<1>11. CASE List
  BY <1>1, <1>11 DEF List, environ, loop, work, tables, own
<1>12. CASE Load
  BY <1>1, <1>12 DEF Load, environ, loop, work, tables, own
<1>13. CASE AskForc
  BY <1>1, <1>13 DEF AskForc, environ, loop, work, tables, own
<1>14. CASE StoreMetadata
  BY <1>1, <1>14 DEF StoreMetadata, environ, loop, work, tables, own
<1>15. CASE Unlock
  BY <1>1, <1>15 DEF Unlock, environ, loop, work, tables, own
<1>16. CASE Requests
  BY <1>1, <1>16 DEF Requests, environ, loop, work, tables, own
<1>17. CASE URestart
  <2>1. LookTypes'
    BY <1>17, EmptyLoop DEF URestart
  <2>2. (resenvs \in Contents /\ archive \in Contents)'
    BY <1>1, <1>17 DEF URestart
  <2>3. /\ (loaded \in [Templates -> ForcEditions \cup {"absent"}])'
        /\ (forcAllowed \in [Templates -> Entries])'
        /\ (offered \in [Templates -> 0 .. MaxUpdates])'
    BY <1>17 DEF URestart
  <2>4. (tries \in 0 .. MaxRetries /\ upc \in UpdatePCs)'
    BY <1>17 DEF URestart
  <2> HIDE DEF Contents, Entries, UpdatePCs, Empty
  <2> QED
    BY <1>1, <1>17, <2>1, <2>2, <2>3, <2>4 DEF URestart, LookTypes
<1>18. CASE UNCHANGED uvars
  BY <1>1, <1>18 DEF uvars, environ, loop, work, tables, own
<1> QED
  BY <1>2, <1>3, <1>4, <1>5, <1>6, <1>7, <1>8, <1>9, <1>10, <1>11, <1>12,
     <1>13, <1>14, <1>15, <1>16, <1>17, <1>18
     DEF UNext, UStep, CheckStep, UpdateStep

(* FORC's answer is stored before the metadata.                            *)
LEMMA MetadataHasVersionsStep ==
  ASSUME UInv, [UNext]_uvars
  PROVE  MetadataHasVersions'
<1> USE TemplateAssumption DEF MetadataHasVersions, UTypeOK, Empty, UGoto, InHand
<1>1. UTypeOK /\ MetadataHasVersions /\ InHand
  BY DEF UInv
<1>2. CASE StartJob
  BY <1>1, <1>2 DEF StartJob, environ, loop, work, tables, own
<1>3. CASE BeginCheck
  BY <1>1, <1>3 DEF BeginCheck, environ, loop, work, tables, own
<1>4. CASE NextKey
  BY <1>1, <1>4 DEF NextKey, JobRaises, FoundNone, LeaveLoop, environ, loop, work, tables, own
<1>5. CASE LookUp
  BY <1>1, <1>5 DEF LookUp, FoundActive, LeaveLoop, environ, loop, work, tables, own
<1>6. CASE Lock
  BY <1>1, <1>6 DEF Lock, environ, loop, work, tables, own
<1>7. CASE Download
  BY <1>1, <1>7 DEF Download, environ, loop, work, tables, own
<1>8. CASE Remove
  BY <1>1, <1>8 DEF Remove, environ, loop, work, tables, own
<1>9. CASE Move
  BY <1>1, <1>9 DEF Move, environ, loop, work, tables, own
<1>10. CASE Copy
  BY <1>1, <1>10 DEF Copy, environ, loop, work, tables, own
<1>11. CASE List
  BY <1>1, <1>11 DEF List, environ, loop, work, tables, own
<1>12. CASE Load
  BY <1>1, <1>12 DEF Load, environ, loop, work, tables, own
<1>13. CASE AskForc
  BY <1>1, <1>13 DEF AskForc, environ, loop, work, tables, own
<1>14. CASE StoreMetadata
  BY <1>1, <1>14 DEF StoreMetadata, environ, loop, work, tables, own
<1>15. CASE Unlock
  BY <1>1, <1>15 DEF Unlock, environ, loop, work, tables, own
<1>16. CASE Requests
  BY <1>1, <1>16 DEF Requests, environ, loop, work, tables, own
<1>17. CASE URestart
  BY <1>1, <1>17 DEF URestart, LeaveLoop, environ, loop, work, tables, own
<1>18. CASE UNCHANGED uvars
  BY <1>1, <1>18 DEF uvars, environ, loop, work, tables, own
<1> QED
  BY <1>2, <1>3, <1>4, <1>5, <1>6, <1>7, <1>8, <1>9, <1>10, <1>11, <1>12,
     <1>13, <1>14, <1>15, <1>16, <1>17, <1>18
     DEF UNext, UStep, CheckStep, UpdateStep

(* The directory.                                                          *)
LEMMA FilesStep ==
  ASSUME UInv, [UNext]_uvars
  PROVE  Files'
<1> USE TemplateAssumption DEF Files, UTypeOK, Contents, Listed, Present, Empty, UGoto
<1>1. UTypeOK /\ Files
  BY DEF UInv
<1>2. CASE StartJob
  BY <1>1, <1>2 DEF StartJob, environ, loop, work, tables, own
<1>3. CASE BeginCheck
  BY <1>1, <1>3 DEF BeginCheck, environ, loop, work, tables, own
<1>4. CASE NextKey
  BY <1>1, <1>4 DEF NextKey, JobRaises, FoundNone, LeaveLoop, environ, loop, work, tables, own
<1>5. CASE LookUp
  BY <1>1, <1>5 DEF LookUp, FoundActive, LeaveLoop, environ, loop, work, tables, own
<1>6. CASE Lock
  BY <1>1, <1>6 DEF Lock, environ, loop, work, tables, own
<1>7. CASE Download
  BY <1>1, <1>7 DEF Download, environ, loop, work, tables, own
<1>8. CASE Remove
  BY <1>1, <1>8 DEF Remove, environ, loop, work, tables, own
<1>9. CASE Move
  BY <1>1, <1>9 DEF Move, environ, loop, work, tables, own
<1>10. CASE Copy
  BY <1>1, <1>10 DEF Copy, environ, loop, work, tables, own
<1>11. CASE List
  BY <1>1, <1>11 DEF List, environ, loop, work, tables, own
<1>12. CASE Load
  BY <1>1, <1>12 DEF Load, environ, loop, work, tables, own
<1>13. CASE AskForc
  BY <1>1, <1>13 DEF AskForc, environ, loop, work, tables, own
<1>14. CASE StoreMetadata
  BY <1>1, <1>14 DEF StoreMetadata, environ, loop, work, tables, own
<1>15. CASE Unlock
  BY <1>1, <1>15 DEF Unlock, environ, loop, work, tables, own
<1>16. CASE Requests
  BY <1>1, <1>16 DEF Requests, environ, loop, work, tables, own
<1>17. CASE URestart
  BY <1>1, <1>17 DEF URestart, LeaveLoop, environ, loop, work, tables, own
<1>18. CASE UNCHANGED uvars
  BY <1>1, <1>18 DEF uvars, environ, loop, work, tables, own
<1> QED
  BY <1>2, <1>3, <1>4, <1>5, <1>6, <1>7, <1>8, <1>9, <1>10, <1>11, <1>12,
     <1>13, <1>14, <1>15, <1>16, <1>17, <1>18
     DEF UNext, UStep, CheckStep, UpdateStep

(* The tables.                                                             *)
LEMMA TablesStep ==
  ASSUME UInv, [UNext]_uvars
  PROVE  Tables'
<1> USE TemplateAssumption DEF Tables, UTypeOK, Contents, Listed, Present, UGoto, Files, Counts
<1>1. UTypeOK /\ Tables /\ Files /\ Counts
  BY DEF UInv
<1>2. CASE StartJob
  BY <1>1, <1>2 DEF StartJob, environ, loop, work, tables, own
<1>3. CASE BeginCheck
  BY <1>1, <1>3 DEF BeginCheck, environ, loop, work, tables, own
<1>4. CASE NextKey
  BY <1>1, <1>4 DEF NextKey, JobRaises, FoundNone, LeaveLoop, environ, loop, work, tables, own
<1>5. CASE LookUp
  BY <1>1, <1>5 DEF LookUp, FoundActive, LeaveLoop, environ, loop, work, tables, own
<1>6. CASE Lock
  BY <1>1, <1>6 DEF Lock, environ, loop, work, tables, own
<1>7. CASE Download
  BY <1>1, <1>7 DEF Download, environ, loop, work, tables, own
<1>8. CASE Remove
  BY <1>1, <1>8 DEF Remove, environ, loop, work, tables, own
<1>9. CASE Move
  BY <1>1, <1>9 DEF Move, environ, loop, work, tables, own
<1>10. CASE Copy
  BY <1>1, <1>10 DEF Copy, environ, loop, work, tables, own
<1>11. CASE List
  BY <1>1, <1>11 DEF List, environ, loop, work, tables, own
<1>12. CASE Load
  BY <1>1, <1>12 DEF Load, environ, loop, work, tables, own
<1>13. CASE AskForc
  BY <1>1, <1>13 DEF AskForc, environ, loop, work, tables, own
<1>14. CASE StoreMetadata
  BY <1>1, <1>14 DEF StoreMetadata, environ, loop, work, tables, own
<1>15. CASE Unlock
  BY <1>1, <1>15 DEF Unlock, environ, loop, work, tables, own
<1>16. CASE Requests
  BY <1>1, <1>16 DEF Requests, environ, loop, work, tables, own
<1>17. CASE URestart
  BY <1>1, <1>17 DEF URestart, LeaveLoop, environ, loop, work, tables, own
<1>18. CASE UNCHANGED uvars
  BY <1>1, <1>18 DEF uvars, environ, loop, work, tables, own
<1> QED
  BY <1>2, <1>3, <1>4, <1>5, <1>6, <1>7, <1>8, <1>9, <1>10, <1>11, <1>12,
     <1>13, <1>14, <1>15, <1>16, <1>17, <1>18
     DEF UNext, UStep, CheckStep, UpdateStep

(* The template in hand.                                                   *)
LEMMA InHandStep ==
  ASSUME UInv, [UNext]_uvars
  PROVE  InHand'
<1> USE TemplateAssumption DEF InHand, UTypeOK, UGoto, Files
<1>1. UTypeOK /\ InHand /\ Files
  BY DEF UInv
<1>2. CASE StartJob
  BY <1>1, <1>2 DEF StartJob, environ, loop, work, tables, own
<1>3. CASE BeginCheck
  BY <1>1, <1>3 DEF BeginCheck, environ, loop, work, tables, own
<1>4. CASE NextKey
  BY <1>1, <1>4 DEF NextKey, JobRaises, FoundNone, LeaveLoop, environ, loop, work, tables, own
<1>5. CASE LookUp
  BY <1>1, <1>5 DEF LookUp, FoundActive, LeaveLoop, environ, loop, work, tables, own
<1>6. CASE Lock
  BY <1>1, <1>6 DEF Lock, environ, loop, work, tables, own
<1>7. CASE Download
  BY <1>1, <1>7 DEF Download, environ, loop, work, tables, own
<1>8. CASE Remove
  BY <1>1, <1>8 DEF Remove, environ, loop, work, tables, own
<1>9. CASE Move
  BY <1>1, <1>9 DEF Move, environ, loop, work, tables, own
<1>10. CASE Copy
  BY <1>1, <1>10 DEF Copy, environ, loop, work, tables, own
<1>11. CASE List
  BY <1>1, <1>11 DEF List, environ, loop, work, tables, own
<1>12. CASE Load
  BY <1>1, <1>12 DEF Load, environ, loop, work, tables, own
<1>13. CASE AskForc
  BY <1>1, <1>13 DEF AskForc, environ, loop, work, tables, own
<1>14. CASE StoreMetadata
  BY <1>1, <1>14 DEF StoreMetadata, environ, loop, work, tables, own
<1>15. CASE Unlock
  BY <1>1, <1>15 DEF Unlock, environ, loop, work, tables, own
<1>16. CASE Requests
  BY <1>1, <1>16 DEF Requests, environ, loop, work, tables, own
<1>17. CASE URestart
  BY <1>1, <1>17 DEF URestart, LeaveLoop, environ, loop, work, tables, own
<1>18. CASE UNCHANGED uvars
  BY <1>1, <1>18 DEF uvars, environ, loop, work, tables, own
<1> QED
  BY <1>2, <1>3, <1>4, <1>5, <1>6, <1>7, <1>8, <1>9, <1>10, <1>11, <1>12,
     <1>13, <1>14, <1>15, <1>16, <1>17, <1>18
     DEF UNext, UStep, CheckStep, UpdateStep

(* The bound on the offers.                                                *)
LEMMA CountsStep ==
  ASSUME UInv, [UNext]_uvars
  PROVE  Counts'
<1> USE TemplateAssumption DEF Counts, UTypeOK, CheckSteps, LookSteps, Present, UGoto
<1>1. UTypeOK /\ Counts
  BY DEF UInv
<1>2. CASE StartJob
  BY <1>1, <1>2 DEF StartJob, environ, loop, work, tables, own
<1>3. CASE BeginCheck
  BY <1>1, <1>3 DEF BeginCheck, environ, loop, work, tables, own
<1>4. CASE NextKey
  BY <1>1, <1>4 DEF NextKey, JobRaises, FoundNone, LeaveLoop, environ, loop, work, tables, own
<1>5. CASE LookUp
  BY <1>1, <1>5 DEF LookUp, FoundActive, LeaveLoop, environ, loop, work, tables, own
<1>6. CASE Lock
  BY <1>1, <1>6 DEF Lock, environ, loop, work, tables, own
<1>7. CASE Download
  BY <1>1, <1>7 DEF Download, environ, loop, work, tables, own
<1>8. CASE Remove
  BY <1>1, <1>8 DEF Remove, environ, loop, work, tables, own
<1>9. CASE Move
  BY <1>1, <1>9 DEF Move, environ, loop, work, tables, own
<1>10. CASE Copy
  BY <1>1, <1>10 DEF Copy, environ, loop, work, tables, own
<1>11. CASE List
  BY <1>1, <1>11 DEF List, environ, loop, work, tables, own
<1>12. CASE Load
  BY <1>1, <1>12 DEF Load, environ, loop, work, tables, own
<1>13. CASE AskForc
  BY <1>1, <1>13 DEF AskForc, environ, loop, work, tables, own
<1>14. CASE StoreMetadata
  BY <1>1, <1>14 DEF StoreMetadata, environ, loop, work, tables, own
<1>15. CASE Unlock
  BY <1>1, <1>15 DEF Unlock, environ, loop, work, tables, own
<1>16. CASE Requests
  BY <1>1, <1>16 DEF Requests, environ, loop, work, tables, own
<1>17. CASE URestart
  BY <1>1, <1>17 DEF URestart, LeaveLoop, environ, loop, work, tables, own
<1>18. CASE UNCHANGED uvars
  BY <1>1, <1>18 DEF uvars, environ, loop, work, tables, own
<1> QED
  BY <1>2, <1>3, <1>4, <1>5, <1>6, <1>7, <1>8, <1>9, <1>10, <1>11, <1>12,
     <1>13, <1>14, <1>15, <1>16, <1>17, <1>18
     DEF UNext, UStep, CheckStep, UpdateStep

(* The lock.                                                               *)
LEMMA LockedStep ==
  ASSUME UInv, [UNext]_uvars
  PROVE  Locked'
<1> USE TemplateAssumption DEF Locked, UTypeOK, CheckSteps, LookSteps, UpdateSteps, UGoto
<1>1. UTypeOK /\ Locked
  BY DEF UInv
<1>2. CASE StartJob
  BY <1>1, <1>2 DEF StartJob, environ, loop, work, tables, own
<1>3. CASE BeginCheck
  BY <1>1, <1>3 DEF BeginCheck, environ, loop, work, tables, own
<1>4. CASE NextKey
  BY <1>1, <1>4 DEF NextKey, JobRaises, FoundNone, LeaveLoop, environ, loop, work, tables, own
<1>5. CASE LookUp
  BY <1>1, <1>5 DEF LookUp, FoundActive, LeaveLoop, environ, loop, work, tables, own
<1>6. CASE Lock
  BY <1>1, <1>6 DEF Lock, environ, loop, work, tables, own
<1>7. CASE Download
  BY <1>1, <1>7 DEF Download, environ, loop, work, tables, own
<1>8. CASE Remove
  BY <1>1, <1>8 DEF Remove, environ, loop, work, tables, own
<1>9. CASE Move
  BY <1>1, <1>9 DEF Move, environ, loop, work, tables, own
<1>10. CASE Copy
  BY <1>1, <1>10 DEF Copy, environ, loop, work, tables, own
<1>11. CASE List
  BY <1>1, <1>11 DEF List, environ, loop, work, tables, own
<1>12. CASE Load
  BY <1>1, <1>12 DEF Load, environ, loop, work, tables, own
<1>13. CASE AskForc
  BY <1>1, <1>13 DEF AskForc, environ, loop, work, tables, own
<1>14. CASE StoreMetadata
  BY <1>1, <1>14 DEF StoreMetadata, environ, loop, work, tables, own
<1>15. CASE Unlock
  BY <1>1, <1>15 DEF Unlock, environ, loop, work, tables, own
<1>16. CASE Requests
  BY <1>1, <1>16 DEF Requests, environ, loop, work, tables, own
<1>17. CASE URestart
  BY <1>1, <1>17 DEF URestart, LeaveLoop, environ, loop, work, tables, own
<1>18. CASE UNCHANGED uvars
  BY <1>1, <1>18 DEF uvars, environ, loop, work, tables, own
<1> QED
  BY <1>2, <1>3, <1>4, <1>5, <1>6, <1>7, <1>8, <1>9, <1>10, <1>11, <1>12,
     <1>13, <1>14, <1>15, <1>16, <1>17, <1>18
     DEF UNext, UStep, CheckStep, UpdateStep

-----------------------------------------------------------------------------
(* UInv is an invariant of the update, ...                                 *)
THEOREM UInvariance == USpec => []UInv
<1>1. UInv /\ [UNext]_uvars => UInv'
  BY UTypeOKStep, MetadataHasVersionsStep, FilesStep, TablesStep,
     InHandStep, CountsStep, LockedStep DEF UInv
<1> QED
  BY InitInv, <1>1, PTL DEF USpec

(* ... so the variables keep their types, ...                              *)
THEOREM UTypeCorrect == USpec => []UTypeOK
<1>1. UInv => UTypeOK
  BY DEF UInv
<1> QED
  BY <1>1, UInvariance, PTL

(* ... metadata that a request finds always comes with the versions FORC   *)
(* knows, ...                                                              *)
THEOREM Versioned == USpec => []MetadataHasVersions
<1>1. UInv => MetadataHasVersions
  BY DEF UInv
<1> QED
  BY <1>1, UInvariance, PTL

(* ... and an update that was not abandoned has installed its archive.     *)
THEOREM Installed == USpec => []DoneMeansInstalled
<1>1. UInv => DoneMeansInstalled
  BY DEF UInv, DoneMeansInstalled, Files, Tables, Listed
<1> QED
  BY <1>1, UInvariance, PTL

(* Nothing changes for a request that sees no lock.                        *)
THEOREM LockProtects == USpec => ChangesUnderLock
<1>1. UInv /\ [UNext]_uvars =>
        [~isLocked /\ serving' => UNCHANGED <<resenvs, tables>>]_uvars
  <2> SUFFICES ASSUME UInv, UNext, ~isLocked, serving'
               PROVE  UNCHANGED <<resenvs, tables>>
    BY DEF uvars
  <2>1. UTypeOK /\ Locked
    BY DEF UInv
  <2> QED
    BY <2>1 DEF UTypeOK, Locked, UpdateSteps, CheckSteps, LookSteps, UNext, UStep,
       CheckStep, UpdateStep, StartJob, BeginCheck, NextKey, LookUp, Lock, Download, Remove, Move,
       Copy, List, Load, AskForc, StoreMetadata, Unlock, Requests, URestart,
       environ, loop, work, tables, own
<1> QED
  BY <1>1, UInvariance, PTL DEF USpec, ChangesUnderLock

-----------------------------------------------------------------------------
(* Why a job ends: an order of its states in which each step goes down.    *)
(* It has no infinite descent, since tries is bounded, left is a natural   *)
(* number and todo is a finite set of templates.                           *)
Left(s) ==
  CASE s = "idle"               -> 0
    [] s \in {"done", "failed"} -> 1
    [] s \in {"forc", "store"}  -> 2
    [] s = "load"     -> 3
    [] s = "list"     -> 4
    [] s = "copy"     -> 5
    [] s = "move"     -> 6
    [] s = "remove"   -> 7
    [] s = "download" -> 8
    [] s = "lock"     -> 9
    [] s \in CheckSteps -> 10

(* One look into active_playbooks: key after key, or the next look.        *)
LookCloser ==
  \/ tries' > tries /\ tries' <= MaxRetries
  \/ /\ tries' = tries /\ upc' # "check"
     /\ \/ upc = "check"
        \/ upc # "check" /\ left' < left /\ left' >= 0
        \/ left' = left /\ upc = "look_up" /\ upc' = "ask_redis"

(* One loop over the templates.                                            *)
LoopCloser ==
  \/ todo' \subseteq todo /\ todo' # todo
  \/ todo' = todo /\ upc = "forc" /\ upc' = "store"

Closer ==
  \/ Left(upc') < Left(upc)
  \/ upc \in CheckSteps /\ upc' \in CheckSteps /\ LookCloser
  \/ upc \notin CheckSteps /\ Left(upc') = Left(upc) /\ LoopCloser

(* What Left says of the steps after the looks.                            *)
LEMMA Lefts ==
  /\ Left("idle") = 0 /\ Left("done") = 1 /\ Left("failed") = 1
  /\ Left("forc") = 2 /\ Left("load") = 3 /\ Left("list") = 4
  /\ Left("copy") = 5 /\ Left("move") = 6 /\ Left("remove") = 7
  /\ Left("download") = 8 /\ Left("lock") = 9
  BY DEF Left, CheckSteps, LookSteps

JobGetsCloser ==
  [][/\ CheckStep \/ UpdateStep => Closer
     /\ UNCHANGED own \/ StartJob \/ CheckStep \/ UpdateStep \/ URestart]_uvars

(* Each step of update_templates brings the job closer to its end, and no  *)
(* request takes it back, whatever playbooks come and go during its looks. *)
THEOREM JobAdvances == USpec => JobGetsCloser
<1>1. ASSUME UInv, UNext, CheckStep \/ UpdateStep
      PROVE  Closer
  <2>1. UTypeOK /\ UTypeOK' /\ InHand
    BY <1>1, UTypeOKStep DEF UInv
  <2>2. CASE BeginCheck
    BY <2>2 DEF BeginCheck, UGoto, Closer, LookCloser, CheckSteps, LookSteps
  <2>3. CASE NextKey
    <3>1. upc \in CheckSteps /\ Left(upc) = 10
      BY <2>3 DEF NextKey, Left, CheckSteps, LookSteps
    <3>2. CASE JobRaises
      BY <3>1, <3>2, Lefts DEF JobRaises, UGoto, Closer
    <3>3. CASE FoundNone /\ tries < MaxRetries
      <4>1. tries' > tries /\ tries' <= MaxRetries /\ upc' = "check"
        BY <2>1, <3>3, TemplateAssumption DEF FoundNone, UGoto, UTypeOK
      <4> QED
        BY <3>1, <4>1 DEF Closer, LookCloser, CheckSteps
    <3>4. CASE FoundNone /\ ~(tries < MaxRetries)
      BY <3>1, <3>4, Lefts DEF FoundNone, UGoto, Closer
    <3>5. CASE UNCHANGED <<size, tries, changed>> /\ left > 0 /\ left' = left - 1
               /\ upc' \in LookSteps
      <4>1. left' < left /\ left' >= 0 /\ tries' = tries
        BY <2>1, <3>5 DEF UTypeOK
      <4>2. upc' # "check" /\ upc # "check"
        BY <2>3, <3>5 DEF LookSteps, NextKey
      <4> QED
        BY <3>1, <3>5, <4>1, <4>2 DEF Closer, LookCloser, CheckSteps
    <3> QED
      BY <2>3, <3>2, <3>3, <3>4, <3>5 DEF NextKey, UGoto, LookSteps
  <2>4. CASE LookUp
    <3>1. upc \in CheckSteps /\ Left(upc) = 10
      BY <2>4 DEF LookUp, Left, CheckSteps, LookSteps
    <3>2. CASE FoundActive /\ tries < MaxRetries
      <4>1. tries' > tries /\ tries' <= MaxRetries /\ upc' = "check"
        BY <2>1, <3>2, TemplateAssumption DEF FoundActive, UGoto, UTypeOK
      <4> QED
        BY <3>1, <4>1 DEF Closer, LookCloser, CheckSteps
    <3>3. CASE FoundActive /\ ~(tries < MaxRetries)
      BY <3>1, <3>3, Lefts DEF FoundActive, UGoto, Closer
    <3>4. CASE UGoto("ask_redis") /\ UNCHANGED <<tries, left>>
      BY <2>4, <3>1, <3>4
         DEF LookUp, UGoto, Closer, LookCloser, CheckSteps, LookSteps
    <3> QED
      BY <2>4, <3>2, <3>3, <3>4 DEF LookUp
  <2>5. CASE Lock \/ Download \/ Move \/ List \/ Unlock
    <3>1. Left(upc') < Left(upc)
      BY <2>5, Lefts DEF Lock, Download, Move, List, Unlock, UGoto
    <3> QED
      BY <3>1 DEF Closer
  <2>6. CASE Remove \/ Copy \/ Load
    <3>1. CASE upc' # upc
      BY <2>6, <3>1, Lefts DEF Remove, Copy, Load, UGoto, Closer
    <3>2. CASE upc' = upc
      BY <2>1, <2>6, <3>2
         DEF Remove, Copy, Load, UGoto, Closer, LoopCloser, CheckSteps, LookSteps
    <3> QED
      BY <3>1, <3>2
  <2>7. CASE AskForc
    <3>1. CASE upc' = "done"
      BY <2>7, <3>1, Lefts DEF AskForc, Closer
    <3>2. CASE upc' # "done"
      <4>1. Left(upc') = Left(upc) /\ upc \notin CheckSteps
        BY <2>7, <3>2 DEF AskForc, UGoto, Left, CheckSteps, LookSteps
      <4> QED
        BY <2>7, <3>2, <4>1 DEF AskForc, UGoto, Closer, LoopCloser
    <3> QED
      BY <3>1, <3>2
  <2>8. CASE StoreMetadata
    <3>1. Left(upc') = Left(upc) /\ upc \notin CheckSteps
      BY <2>8 DEF StoreMetadata, UGoto, Left, CheckSteps, LookSteps
    <3> QED
      BY <2>8, <3>1 DEF StoreMetadata, Closer, LoopCloser
  <2> QED
    BY <1>1, <2>2, <2>3, <2>4, <2>5, <2>6, <2>7, <2>8 DEF CheckStep, UpdateStep
<1>2. UNext => UNCHANGED own \/ StartJob \/ CheckStep \/ UpdateStep \/ URestart
  BY DEF UNext, UStep, Requests
<1> QED
  BY <1>1, <1>2, UInvariance, PTL DEF USpec, JobGetsCloser
=============================================================================
