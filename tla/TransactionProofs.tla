------------------------- MODULE TransactionProofs -------------------------
(***************************************************************************)
(* What holds of importers, and of importers and recoverers on one disk,   *)
(* for every set of members, parts and processes.  The first half is about *)
(* importers alone; the second composes it with RecoveryProofs.            *)
(***************************************************************************)
EXTENDS TransactionRecovery, RecoveryProofs, FiniteSetTheorems

-----------------------------------------------------------------------------
(* Types of the importer *)

ImportTypes == DiskTypeOK /\ ImportTypeOK

LEMMA NoWorkIsWork == NoWork \in Works
<1>1. (CHOOSE m \in Members : TRUE) \in Members
  BY MembersAssumption
<1>2. 1 \in 1 .. PartCount
  BY PartCountAssumption
<1> QED
  BY <1>1, <1>2 DEF NoWork, Works, Contents

LEMMA AfterIsPc == \A pc : After(pc) \in ImportPcs
BY DEF After, ImportPcs, EntrySteps, FileSteps, RecordKinds

LEMMA WorkIsWork ==
  ASSUME ImportTypes, NEW i \in Importers
  PROVE  /\ work[i] \in Works /\ work[i].m \in Members /\ work[i].part \in 1 .. PartCount
         /\ File(i) \in Files /\ Primary(work[i].m) \in Files
         /\ ipc[i] \in ImportPcs
<1>1. work[i] \in Works /\ ipc[i] \in ImportPcs
  BY DEF ImportTypes, ImportTypeOK
<1>2. work[i].m \in Members /\ work[i].part \in 1 .. PartCount
  BY <1>1 DEF Works
<1>3. 1 \in 1 .. PartCount
  BY PartCountAssumption
<1> QED
  BY <1>1, <1>2, <1>3 DEF File, Files, Primary

\* Where an importer goes, and what it forgets
LEMMA TurnTypes ==
  ASSUME ImportTypes, NEW i \in Importers, NEW pc \in ImportPcs, Turn(i, pc)
  PROVE  /\ ipc' \in [Importers -> ImportPcs] /\ ipc'[i] = pc
         /\ \A j \in Importers \ {i} : ipc'[j] = ipc[j]
BY DEF ImportTypes, ImportTypeOK, Turn

LEMMA ExitTypes ==
  ASSUME ImportTypes, NEW i \in Importers, Exit(i)
  PROVE  /\ ipc' \in [Importers -> ImportPcs] /\ ipc'[i] = "idle"
         /\ work' \in [Importers -> Works] /\ work'[i] = NoWork
         /\ \A j \in Importers \ {i} : ipc'[j] = ipc[j] /\ work'[j] = work[j]
<1>1. "idle" \in ImportPcs
  BY DEF ImportPcs
<1> QED
  BY <1>1, NoWorkIsWork, TurnTypes DEF Exit, ImportTypes, ImportTypeOK

LEMMA ImportTypesStart ==
  ASSUME ImportTypes, NEW i \in Importers,
         TransactionResume(i) \/ PlanExecute(i) \/ SelectMember(i)
  PROVE  ImportTypes'
<1>1. "select" \in ImportPcs /\ "pending" \in ImportPcs
  BY DEF ImportPcs, EntrySteps
<1>2. work[i] \in Works
  BY WorkIsWork
<1>3. CASE TransactionResume(i) \/ PlanExecute(i)
  <2>1. PICK S \in SUBSET Members : work' = [work EXCEPT ![i].todo = S]
    BY <1>3 DEF TransactionResume, PlanExecute, Listed
  <2>2. [work[i] EXCEPT !.todo = S] \in Works
    BY <1>2 DEF Works
  <2>3. work' \in [Importers -> Works]
    BY <2>1, <2>2 DEF ImportTypes, ImportTypeOK
  <2>4. Turn(i, "select") /\ UNCHANGED <<temp, records, phase, diskVars>>
    BY <1>3 DEF TransactionResume, PlanExecute
  <2> QED
    BY <1>1, <2>3, <2>4, TurnTypes DEF ImportTypes, ImportTypeOK, DiskTypeOK, diskVars
<1>4. CASE SelectMember(i)
  <2>1. PICK m \in work[i].todo :
          work' = [work EXCEPT ![i] = [todo |-> @.todo \ {m}, m |-> m, part |-> 1, want |-> "none"]]
    BY <1>4 DEF SelectMember
  <2>2. [todo |-> work[i].todo \ {m}, m |-> m, part |-> 1, want |-> "none"] \in Works
    BY <1>2, PartCountAssumption DEF Works, Contents
  <2>3. work' \in [Importers -> Works]
    BY <2>1, <2>2 DEF ImportTypes, ImportTypeOK
  <2>4. Turn(i, "pending") /\ UNCHANGED <<temp, records, phase, diskVars>>
    BY <1>4 DEF SelectMember
  <2> QED
    BY <1>1, <2>3, <2>4, TurnTypes DEF ImportTypes, ImportTypeOK, DiskTypeOK, diskVars
<1> QED
  BY <1>3, <1>4

LEMMA ImportTypesExit ==
  ASSUME ImportTypes, NEW i \in Importers,
         TargetExists(i) \/ HashMismatch(i) \/ ReplaceFails(i) \/ Finish(i) \/ Stop(i)
  PROVE  ImportTypes'
<1>1. /\ Exit(i) /\ UNCHANGED <<records, diskVars>>
      /\ phase' \in {phase, "completed"}
      /\ temp' = temp \/ temp' = [temp EXCEPT ![File(i)] = "none"]
  BY DEF TargetExists, HashMismatch, ReplaceFails, Finish, Stop
<1>2. temp' \in [Files -> Contents]
  BY <1>1 DEF ImportTypes, ImportTypeOK, Contents
<1> QED
  BY <1>1, <1>2, ExitTypes DEF ImportTypes, ImportTypeOK, DiskTypeOK, diskVars

LEMMA ImportTypesWalk ==
  ASSUME ImportTypes, NEW i \in Importers,
         \/ SaveEntry(i) \/ TruncateStage(i) \/ FillStage(i) \/ CreateObject(i) \/ CheckTarget(i)
         \/ TruncateTemp(i) \/ FillTemp(i) \/ HashTemp(i) \/ Replace(i) \/ SaveRecord(i)
  PROVE  ImportTypes'
<1>1. /\ work[i] \in Works /\ work[i].m \in Members /\ work[i].part \in 1 .. PartCount
      /\ File(i) \in Files /\ Primary(work[i].m) \in Files
  BY WorkIsWork
<1>2. SourceContents \in Contents /\ {"torn", "none"} \subseteq Contents /\ "copying" \in ImportPcs
  BY DEF SourceContents, Contents, ImportPcs, EntrySteps
<1>3. ipc' \in [Importers -> ImportPcs]
  <2>1. PICK pc \in ImportPcs : Turn(i, pc)
    BY <1>2, AfterIsPc DEF SaveEntry, TruncateStage, FillStage, CreateObject, CheckTarget, TruncateTemp,
                           FillTemp, HashTemp, Replace, SaveRecord
  <2> QED
    BY <2>1, TurnTypes
<1>4. work' \in [Importers -> Works]
  <2>1. CASE CreateObject(i)
    <3>1. PICK c \in Contents : work' = [work EXCEPT ![i].want = c]
      BY <1>1, <1>2, <2>1 DEF CreateObject, ImportTypes, DiskTypeOK
    <3>2. [work[i] EXCEPT !.want = c] \in Works
      BY <1>1 DEF Works
    <3> QED
      BY <3>1, <3>2 DEF ImportTypes, ImportTypeOK
  <2>2. CASE Replace(i) /\ MoreParts(i)
    <3>1. work' = [work EXCEPT ![i].part = @ + 1]
      BY <2>2 DEF Replace
    <3>2. work[i].part + 1 \in 1 .. PartCount
      BY <1>1, <2>2, PartCountAssumption DEF MoreParts
    <3>3. [work[i] EXCEPT !.part = @ + 1] \in Works
      BY <1>1, <3>2 DEF Works
    <3> QED
      BY <3>1, <3>3 DEF ImportTypes, ImportTypeOK
  <2>3. CASE UNCHANGED work
    BY <2>3 DEF ImportTypes, ImportTypeOK
  <2> QED
    BY <2>1, <2>2, <2>3 DEF SaveEntry, TruncateStage, FillStage, CheckTarget, TruncateTemp, FillTemp,
                            HashTemp, Replace, SaveRecord
<1>5. temp' \in [Files -> Contents] /\ staged' \in [Files -> Contents] /\ dest' \in [Files -> Contents]
  BY <1>1, <1>2 DEF ImportTypes, ImportTypeOK, DiskTypeOK, diskVars, SaveEntry, TruncateStage, FillStage,
                    CreateObject, CheckTarget, TruncateTemp, FillTemp, HashTemp, Replace, SaveRecord
<1>6. entry' \in [Members -> Entries]
  <2>1. EntrySteps \subseteq States
    BY DEF EntrySteps, States, SuccessStates
  <2>2. CASE SaveEntry(i)
    <3>1. /\ ipc[i] \in EntrySteps
          /\ entry' = [entry EXCEPT ![work[i].m] = [state |-> ipc[i], recorded |-> FALSE]]
      BY <2>2 DEF SaveEntry
    <3>2. [state |-> ipc[i], recorded |-> FALSE] \in Entries
      BY <2>1, <3>1 DEF Entries
    <3> QED
      BY <3>1, <3>2 DEF ImportTypes, DiskTypeOK
  <2>3. CASE UNCHANGED entry
    BY <2>3 DEF ImportTypes, DiskTypeOK
  <2> QED
    BY <2>2, <2>3 DEF diskVars, TruncateStage, FillStage, CreateObject, CheckTarget, TruncateTemp,
                      FillTemp, HashTemp, Replace, SaveRecord
<1>7. records' \in [Members -> SUBSET RecordKinds] /\ phase' = phase /\ source' = source
  BY <1>1 DEF ImportTypes, ImportTypeOK, diskVars, SaveEntry, TruncateStage,
              FillStage, CreateObject, CheckTarget, TruncateTemp, FillTemp, HashTemp, Replace, SaveRecord
<1> QED
  BY <1>3, <1>4, <1>5, <1>6, <1>7 DEF ImportTypes, ImportTypeOK, DiskTypeOK

LEMMA ImportTypesStep ==
  ASSUME ImportTypes, ImportNext
  PROVE  ImportTypes'
BY ImportTypesStart, ImportTypesExit, ImportTypesWalk DEF ImportNext, Import

LEMMA ImportTypesInit ==
  ASSUME DiskInit, ImportInit
  PROVE  ImportTypes
BY NoWorkIsWork DEF DiskInit, ImportInit, ImportTypes, ImportTypeOK, DiskTypeOK, Entries, Absent, Contents,
                    ImportPcs

\* Importers keep the types, on disk and in memory (importer.py:131-236).
THEOREM ImportTypesAlways == ImportSpec => [](DiskTypeOK /\ ImportTypeOK)
<1>1. ImportStart => ImportTypes
  BY ImportTypesInit DEF ImportStart
<1>2. ImportTypes /\ [ImportStep]_<<diskVars, importVars>> => ImportTypes'
  <2> SUFFICES ASSUME ImportTypes, [ImportStep]_<<diskVars, importVars>> PROVE ImportTypes'
    OBVIOUS
  <2>1. CASE (SourceChanges /\ UNCHANGED importVars) \/ UNCHANGED <<diskVars, importVars>>
    BY <2>1 DEF SourceChanges, diskVars, importVars, ImportTypes, ImportTypeOK, DiskTypeOK
  <2> QED
    BY <2>1, ImportTypesStep DEF ImportStep
<1>3. ImportTypes => DiskTypeOK /\ ImportTypeOK
  BY DEF ImportTypes
<1> QED
  BY <1>1, <1>2, <1>3, PTL DEF ImportSpec
-----------------------------------------------------------------------------
(* What an importer has placed and recorded.  It holds whatever other      *)
(* importers do, because files in the collection are replaced and never    *)
(* removed, and records are only added.                                    *)

PlacedPcs == {"copying", "verifying", "metadata-writing", "completed"} \cup RecordKinds

\* The files of the object in hand that are in the collection
Placing(i) ==
  /\ \A k \in 1 .. (work[i].part - 1) : dest[<<work[i].m, k>>] # "none"
  /\ ipc[i] \in PlacedPcs => \A k \in 1 .. PartCount : dest[<<work[i].m, k>>] # "none"

\* The records written before an importer gets to pc
RecordsBefore(pc) ==
  CASE pc = "object" -> {"import-event"}
    [] pc = "verification" -> {"import-event", "object"}
    [] pc = "relationship" -> {"import-event", "object", "verification"}
    [] pc \in {"metadata-writing", "completed"} -> RecordsNeeded
    [] OTHER -> {}
Recording(i) == RecordsBefore(ipc[i]) \subseteq records[work[i].m]

DestGrows == \A f \in Files : dest[f] # "none" => dest'[f] # "none"
RecordsGrow == \A m \in Members : records[m] \subseteq records'[m]

LEMMA AfterPlaced ==
  /\ \A pc : After(pc) \in PlacedPcs => pc \in PlacedPcs
  /\ \A pc : RecordsBefore(After(pc)) \subseteq RecordsBefore(pc) \cup (IF pc \in RecordKinds THEN {pc} ELSE {})
<1>1. \A pc : After(pc) \in PlacedPcs => pc \in PlacedPcs
  BY DEF After, PlacedPcs, RecordKinds
<1>2. ASSUME NEW pc
      PROVE  RecordsBefore(After(pc)) \subseteq RecordsBefore(pc) \cup (IF pc \in RecordKinds THEN {pc} ELSE {})
  <2>1. CASE pc = "verification"
    BY <2>1, KindAssumption DEF After, RecordsBefore, RecordsNeeded, RecordKinds
  <2>2. CASE pc = "relationship"
    BY <2>2 DEF After, RecordsBefore, RecordsNeeded, RecordKinds
  <2>3. CASE pc \in {"verifying", "import-event", "object", "metadata-writing"}
    BY <2>3 DEF After, RecordsBefore, RecordsNeeded, RecordKinds
  <2>4. CASE pc \notin {"verification", "relationship", "verifying", "import-event", "object", "metadata-writing"}
    <3>1. After(pc) \notin {"object", "verification", "relationship", "metadata-writing", "completed"}
      BY <2>4 DEF After
    <3> QED
      BY <3>1 DEF RecordsBefore
  <2> QED
    BY <2>1, <2>2, <2>3, <2>4
<1> QED
  BY <1>1, <1>2

\* What an importer's step leaves of the others
LEMMA OtherImportersStay ==
  ASSUME ImportTypes, NEW i \in Importers,
         TransactionResume(i) \/ PlanExecute(i) \/ Import(i) \/ Stop(i)
  PROVE  \A j \in Importers \ {i} : ipc'[j] = ipc[j] /\ work'[j] = work[j]
<1>1. \E pc : ipc' = [ipc EXCEPT ![i] = pc]
  BY DEF TransactionResume, PlanExecute, Import, Stop, SelectMember, SaveEntry, TruncateStage, FillStage,
         CreateObject, CheckTarget, TargetExists, TruncateTemp, FillTemp, HashTemp, HashMismatch, Replace,
         ReplaceFails, SaveRecord, Finish, Turn, Exit
<1>2. work' = work \/ \E w : work' = [work EXCEPT ![i] = w]
  BY DEF TransactionResume, PlanExecute, Import, Stop, SelectMember, SaveEntry, TruncateStage, FillStage,
         CreateObject, CheckTarget, TargetExists, TruncateTemp, FillTemp, HashTemp, HashMismatch, Replace,
         ReplaceFails, SaveRecord, Finish, Exit
<1> QED
  BY <1>1, <1>2 DEF ImportTypes, ImportTypeOK

LEMMA ImportGrows ==
  ASSUME ImportTypes, ImportNext
  PROVE  DestGrows /\ RecordsGrow
<1>1. PICK i \in Importers : TransactionResume(i) \/ PlanExecute(i) \/ Import(i) \/ Stop(i)
  BY DEF ImportNext
<1>2. CASE Replace(i)
  <2>1. temp[File(i)] # "none" /\ dest' = [dest EXCEPT ![File(i)] = temp[File(i)]] /\ UNCHANGED records
    BY <1>2 DEF Replace
  <2> QED
    BY <2>1 DEF DestGrows, RecordsGrow, ImportTypes, DiskTypeOK
<1>3. CASE SaveRecord(i)
  <2>1. records' = [records EXCEPT ![work[i].m] = @ \cup {ipc[i]}] /\ UNCHANGED dest
    BY <1>3 DEF SaveRecord, diskVars
  <2> QED
    BY <2>1 DEF DestGrows, RecordsGrow, ImportTypes, ImportTypeOK
<1>4. CASE UNCHANGED <<dest, records>>
  BY <1>4 DEF DestGrows, RecordsGrow
<1> QED
  BY <1>1, <1>2, <1>3, <1>4
  DEF TransactionResume, PlanExecute, Import, Stop, SelectMember, SaveEntry, TruncateStage, FillStage,
      CreateObject, CheckTarget, TargetExists, TruncateTemp, FillTemp, HashTemp, HashMismatch,
      ReplaceFails, Finish, diskVars

\* An importer that does not move keeps what it placed and recorded.
LEMMA StillPlaced ==
  ASSUME ImportTypes, NEW i \in Importers, ipc'[i] = ipc[i], work'[i] = work[i], DestGrows, Placing(i)
  PROVE  Placing(i)'
<1>1. work[i].m \in Members /\ work[i].part \in 1 .. PartCount
  BY WorkIsWork
<1>2. \A k \in 1 .. PartCount : <<work[i].m, k>> \in Files
  BY <1>1 DEF Files
<1>3. \A k \in 1 .. (work[i].part - 1) : k \in 1 .. PartCount
  BY <1>1, PartCountAssumption
<1> QED
  BY <1>2, <1>3 DEF Placing, DestGrows

LEMMA PlacingStep ==
  ASSUME ImportTypes, NEW i \in Importers, Placing(i), DestGrows,
         TransactionResume(i) \/ PlanExecute(i) \/ Import(i) \/ Stop(i)
  PROVE  Placing(i)'
<1> DEFINE Past == \A k \in 1 .. (work[i].part - 1) : dest'[<<work[i].m, k>>] # "none"
           All == \A k \in 1 .. PartCount : dest'[<<work[i].m, k>>] # "none"
<1>1. /\ work[i] \in Works /\ work[i].m \in Members /\ work[i].part \in 1 .. PartCount
      /\ PartCount \in Nat \ {0}
  BY WorkIsWork, PartCountAssumption
<1>2. \A k \in 1 .. PartCount : <<work[i].m, k>> \in Files
  BY <1>1 DEF Files
<1>3. \A k \in 1 .. (work[i].part - 1) : k \in 1 .. PartCount
  BY <1>1
<1>4. Past /\ (ipc[i] \in PlacedPcs => All)
  BY <1>2, <1>3 DEF Placing, DestGrows
<1>5. ASSUME work'[i].part = 1, ipc'[i] \notin PlacedPcs
      PROVE  Placing(i)'
  BY <1>5 DEF Placing
<1>6. CASE TargetExists(i) \/ HashMismatch(i) \/ ReplaceFails(i) \/ Finish(i) \/ Stop(i)
  <2>1. Exit(i)
    BY <1>6 DEF TargetExists, HashMismatch, ReplaceFails, Finish, Stop
  <2>2. NoWork.part = 1 /\ "idle" \notin PlacedPcs
    BY DEF NoWork, PlacedPcs, RecordKinds
  <2> QED
    BY <1>5, <2>1, <2>2, ExitTypes
<1>7. CASE SelectMember(i)
  <2>1. /\ \E m : work'[i] = [todo |-> work[i].todo \ {m}, m |-> m, part |-> 1, want |-> "none"]
        /\ ipc'[i] = "pending"
    BY <1>7 DEF SelectMember, Turn, ImportTypes, ImportTypeOK
  <2>2. "pending" \notin PlacedPcs
    BY DEF PlacedPcs, RecordKinds
  <2> QED
    BY <1>5, <2>1, <2>2
<1>8. ASSUME work'[i].m = work[i].m, work'[i].part = work[i].part,
             ipc'[i] \in PlacedPcs => ipc[i] \in PlacedPcs
      PROVE  Placing(i)'
  BY <1>4, <1>8 DEF Placing
<1>9. CASE TransactionResume(i) \/ PlanExecute(i)
  <2>1. /\ \E S : work'[i] = [work[i] EXCEPT !.todo = S]
        /\ ipc'[i] = "select"
    BY <1>9 DEF TransactionResume, PlanExecute, Turn, ImportTypes, ImportTypeOK
  <2>2. work'[i].m = work[i].m /\ work'[i].part = work[i].part
    BY <1>1, <2>1 DEF Works
  <2>3. "select" \notin PlacedPcs
    BY DEF PlacedPcs, RecordKinds
  <2> QED
    BY <1>8, <2>1, <2>2, <2>3
<1>10. CASE CreateObject(i)
  <2>1. /\ \E c : work'[i] = [work[i] EXCEPT !.want = c]
        /\ ipc'[i] = After(ipc[i])
    BY <1>10 DEF CreateObject, Turn, ImportTypes, ImportTypeOK
  <2>2. work'[i].m = work[i].m /\ work'[i].part = work[i].part
    BY <1>1, <2>1 DEF Works
  <2> QED
    BY <1>8, <2>1, <2>2, AfterPlaced
<1>11. CASE \/ SaveEntry(i) \/ TruncateStage(i) \/ FillStage(i) \/ CheckTarget(i)
            \/ TruncateTemp(i) \/ FillTemp(i) \/ HashTemp(i) \/ SaveRecord(i)
  <2>1. UNCHANGED work /\ ipc'[i] = After(ipc[i])
    BY <1>11 DEF SaveEntry, TruncateStage, FillStage, CheckTarget, TruncateTemp, FillTemp, HashTemp,
                 SaveRecord, Turn, ImportTypes, ImportTypeOK
  <2> QED
    BY <1>8, <2>1, AfterPlaced
<1>12. CASE Replace(i)
  <2>1. temp[File(i)] # "none" /\ dest' = [dest EXCEPT ![File(i)] = temp[File(i)]]
    BY <1>12 DEF Replace
  <2>2. dest'[<<work[i].m, work[i].part>>] # "none"
    BY <1>1, <1>2, <2>1 DEF File, ImportTypes, DiskTypeOK
  <2>3. \A k \in 1 .. work[i].part : dest'[<<work[i].m, k>>] # "none"
    <3>1. \A k \in 1 .. work[i].part : k \in 1 .. (work[i].part - 1) \/ k = work[i].part
      BY <1>1
    <3> QED
      BY <1>4, <2>2, <3>1
  <2>4. CASE MoreParts(i)
    <3>1. work'[i] = [work[i] EXCEPT !.part = @ + 1] /\ ipc'[i] = After("check")
      BY <1>12, <2>4 DEF Replace, Turn, ImportTypes, ImportTypeOK
    <3>2. work'[i].m = work[i].m /\ work'[i].part = work[i].part + 1
      BY <1>1, <3>1 DEF Works
    <3>3. work'[i].part - 1 = work[i].part
      BY <1>1, <3>2
    <3>4. "check" \notin PlacedPcs
      BY DEF PlacedPcs, RecordKinds
    <3> QED
      BY <2>3, <3>1, <3>2, <3>3, <3>4, AfterPlaced DEF Placing
  <2>5. CASE ~MoreParts(i)
    <3>1. UNCHANGED work
      BY <1>12, <2>5 DEF Replace
    <3>2. work[i].part = PartCount
      BY <1>1, <2>5 DEF MoreParts
    <3> QED
      BY <1>4, <2>3, <3>1, <3>2 DEF Placing
  <2> QED
    BY <2>4, <2>5
<1> QED
  BY <1>6, <1>7, <1>9, <1>10, <1>11, <1>12 DEF Import

LEMMA RecordingStep ==
  ASSUME ImportTypes, NEW i \in Importers, Recording(i), RecordsGrow,
         TransactionResume(i) \/ PlanExecute(i) \/ Import(i) \/ Stop(i)
  PROVE  Recording(i)'
<1>1. work[i] \in Works /\ work[i].m \in Members
  BY WorkIsWork
<1>2. RecordsBefore(ipc[i]) \subseteq records'[work[i].m]
  BY <1>1 DEF Recording, RecordsGrow
<1>3. ASSUME NEW pc, RecordsBefore(pc) = {}, ipc'[i] = pc
      PROVE  Recording(i)'
  BY <1>3 DEF Recording, RecordsBefore, RecordsNeeded
<1>4. /\ \A pc \in {"idle", "select", "pending", "copying"} : RecordsBefore(pc) = {}
      /\ RecordsBefore(After("check")) = {}
  BY DEF RecordsBefore, After
<1>5. CASE TargetExists(i) \/ HashMismatch(i) \/ ReplaceFails(i) \/ Finish(i) \/ Stop(i)
  <2>1. Exit(i)
    BY <1>5 DEF TargetExists, HashMismatch, ReplaceFails, Finish, Stop
  <2> QED
    BY <1>3, <1>4, <2>1, ExitTypes
<1>6. CASE SelectMember(i) \/ TransactionResume(i) \/ PlanExecute(i)
  <2>1. ipc'[i] \in {"pending", "select"}
    BY <1>6 DEF SelectMember, TransactionResume, PlanExecute, Turn, ImportTypes, ImportTypeOK
  <2> QED
    BY <1>3, <1>4, <2>1
<1>7. CASE Replace(i)
  <2>1. ipc'[i] \in {After("check"), "copying"}
    BY <1>7 DEF Replace, Turn, ImportTypes, ImportTypeOK
  <2> QED
    BY <1>3, <1>4, <2>1
<1>8. ASSUME work'[i].m = work[i].m, ipc'[i] = After(ipc[i]),
             ipc[i] \in RecordKinds => ipc[i] \in records'[work[i].m]
      PROVE  Recording(i)'
  <2>1. RecordsBefore(After(ipc[i])) \subseteq records'[work[i].m]
    BY <1>2, <1>8, AfterPlaced
  <2> QED
    BY <1>8, <2>1 DEF Recording, RecordsBefore, RecordsNeeded
<1>9. CASE CreateObject(i)
  <2>1. (\E c : work'[i] = [work[i] EXCEPT !.want = c]) /\ ipc'[i] = After(ipc[i])
    BY <1>9 DEF CreateObject, Turn, ImportTypes, ImportTypeOK
  <2>2. work'[i].m = work[i].m
    BY <1>1, <2>1 DEF Works
  <2> QED
    BY <1>8, <1>9, <2>1, <2>2 DEF CreateObject, RecordKinds
<1>10. CASE SaveRecord(i)
  <2>1. UNCHANGED work /\ ipc'[i] = After(ipc[i]) /\ ipc[i] \in records'[work[i].m]
    BY <1>1, <1>10 DEF SaveRecord, Turn, ImportTypes, ImportTypeOK
  <2> QED
    BY <1>8, <2>1
<1>11. CASE \/ SaveEntry(i) \/ TruncateStage(i) \/ FillStage(i) \/ CheckTarget(i)
            \/ TruncateTemp(i) \/ FillTemp(i) \/ HashTemp(i)
  <2>1. UNCHANGED work /\ ipc'[i] = After(ipc[i]) /\ ipc[i] \notin RecordKinds
    BY <1>11 DEF SaveEntry, TruncateStage, FillStage, CheckTarget, TruncateTemp, FillTemp, HashTemp,
                 Turn, ImportTypes, ImportTypeOK, RecordKinds, EntrySteps
  <2> QED
    BY <1>8, <2>1
<1> QED
  BY <1>5, <1>6, <1>7, <1>9, <1>10, <1>11 DEF Import

\* What an entry on disk becomes in an importer's step
LEMMA ImportEntries ==
  ASSUME ImportTypes, NEW i \in Importers,
         TransactionResume(i) \/ PlanExecute(i) \/ Import(i) \/ Stop(i)
  PROVE  \A m \in Members :
           \/ entry'[m] = entry[m]
           \/ /\ SaveEntry(i) /\ m = work[i].m /\ ipc[i] \in EntrySteps
              /\ entry'[m] = [state |-> ipc[i], recorded |-> FALSE]
<1>1. CASE SaveEntry(i)
  BY <1>1 DEF SaveEntry, ImportTypes, DiskTypeOK
<1>2. CASE UNCHANGED entry
  BY <1>2
<1> QED
  BY <1>1, <1>2
  DEF TransactionResume, PlanExecute, Import, Stop, SelectMember, TruncateStage, FillStage,
      CreateObject, CheckTarget, TargetExists, TruncateTemp, FillTemp, HashTemp, HashMismatch, Replace,
      ReplaceFails, SaveRecord, Finish, diskVars

Preserving ==
  /\ \A i \in Importers : Placing(i) /\ Recording(i)
  /\ CompletedIsPreserved

LEMMA PreservingStep ==
  ASSUME ImportTypes, Preserving, ImportNext
  PROVE  Preserving'
<1>1. PICK i \in Importers : TransactionResume(i) \/ PlanExecute(i) \/ Import(i) \/ Stop(i)
  BY DEF ImportNext
<1>2. DestGrows /\ RecordsGrow
  BY ImportGrows
<1>3. Placing(i)' /\ Recording(i)'
  BY <1>1, <1>2, PlacingStep, RecordingStep DEF Preserving
<1>4. ASSUME NEW j \in Importers \ {i}
      PROVE  Placing(j)' /\ Recording(j)'
  <2>1. ipc'[j] = ipc[j] /\ work'[j] = work[j]
    BY <1>1, OtherImportersStay
  <2>2. Placing(j)'
    BY <1>2, <2>1, StillPlaced DEF Preserving
  <2>3. work[j].m \in Members
    BY WorkIsWork
  <2> QED
    BY <1>2, <2>1, <2>2, <2>3 DEF Preserving, Recording, RecordsGrow, RecordsBefore, RecordsNeeded
<1>5. ASSUME NEW m \in Members, entry'[m].state = "completed"
      PROVE  RecordsNeeded \subseteq records'[m] /\ \A k \in 1 .. PartCount : dest'[<<m, k>>] # "none"
  <2>1. CASE entry'[m] = entry[m]
    <3>1. \A k \in 1 .. PartCount : <<m, k>> \in Files
      BY DEF Files
    <3> QED
      BY <1>2, <1>5, <2>1, <3>1 DEF Preserving, CompletedIsPreserved, DestGrows, RecordsGrow
  <2>2. CASE m = work[i].m /\ ipc[i] \in EntrySteps /\ entry'[m] = [state |-> ipc[i], recorded |-> FALSE]
    <3>1. ipc[i] = "completed" /\ m = work[i].m
      BY <1>5, <2>2
    <3>2. /\ RecordsNeeded \subseteq records[m]
          /\ \A k \in 1 .. PartCount : dest[<<m, k>>] # "none" /\ <<m, k>> \in Files
      BY <3>1 DEF Preserving, Placing, Recording, RecordsBefore, PlacedPcs, Files
    <3> QED
      BY <1>2, <3>2 DEF DestGrows, RecordsGrow
  <2> QED
    BY <1>1, <2>1, <2>2, ImportEntries
<1>6. CompletedIsPreserved'
  BY <1>5 DEF CompletedIsPreserved, RecordsNeeded
<1> QED
  BY <1>3, <1>4, <1>6 DEF Preserving

LEMMA PreservingInit ==
  ASSUME DiskInit, ImportInit
  PROVE  Preserving
<1>1. \A i \in Importers : ipc[i] = "idle" /\ work[i].part = 1
  BY DEF ImportInit, NoWork
<1>2. "idle" \notin PlacedPcs /\ RecordsBefore("idle") = {}
  BY DEF PlacedPcs, RecordKinds, RecordsBefore
<1>3. \A m \in Members : entry[m].state # "completed"
  BY DEF DiskInit, Absent
<1> QED
  BY <1>1, <1>2, <1>3 DEF Preserving, Placing, Recording, CompletedIsPreserved

\* Whatever importers of one collection do to each other's files, an entry is
\* called completed after all its files and records are there
\* (importer.py:187-233).
THEOREM CompletedEntriesArePreserved == ImportSpec => []CompletedIsPreserved
<1>1. ImportStart => ImportTypes /\ Preserving
  BY ImportTypesInit, PreservingInit DEF ImportStart
<1>2. ImportTypes /\ Preserving /\ [ImportStep]_<<diskVars, importVars>> => Preserving'
  <2> SUFFICES ASSUME ImportTypes, Preserving, [ImportStep]_<<diskVars, importVars>> PROVE Preserving'
    OBVIOUS
  <2>1. CASE (SourceChanges /\ UNCHANGED importVars) \/ UNCHANGED <<diskVars, importVars>>
    BY <2>1 DEF SourceChanges, diskVars, importVars, Preserving, Placing, Recording, CompletedIsPreserved,
                RecordsBefore, RecordsNeeded
  <2> QED
    BY <2>1, PreservingStep DEF ImportStep
<1>3. ImportSpec => []ImportTypes
  BY ImportTypesAlways, PTL DEF ImportTypes
<1>4. Preserving => CompletedIsPreserved
  BY DEF Preserving
<1> QED
  BY <1>1, <1>2, <1>3, <1>4, PTL DEF ImportSpec
-----------------------------------------------------------------------------
(* Importers that keep to members of their own.  Staging files, temporary  *)
(* files and entries are named after the member, so what follows needs no  *)
(* two importers to have one member in hand; nothing in the code sees to   *)
(* it.                                                                     *)

Busy(i) == ipc[i] \notin {"idle", "select"}
MembersApart ==
  \A i, j \in Importers : Busy(i) /\ Busy(j) /\ work[i].m = work[j].m => i = j

Sound(c) == c \notin {"none", "torn"}

\* Between the first entry document and the last rename
WalkPcs == {"opening-source", "streaming", "staging", "staged", "copying", "create-object", "check"}
             \cup FileSteps
\* The file in hand is staged
StagedPcs == {"truncate-temp", "fill-temp", "hash-temp", "replace"} \cup
  (IF Kind = "archive" THEN {"streaming", "staging", "staged", "create-object", "check"} ELSE {})

Steady(i) ==
  Busy(i) =>
    /\ ipc[i] # "pending" => entry[work[i].m].state # "absent"
    /\ ipc[i] \in WalkPcs => entry[work[i].m].state \notin PlacedStates
    /\ ipc[i] \in PlacedPcs \/ work[i].part > 1 =>
         dest[Primary(work[i].m)] = staged[Primary(work[i].m)] /\ Sound(dest[Primary(work[i].m)])
    /\ ipc[i] \in StagedPcs => Sound(staged[File(i)])
    /\ ipc[i] \in {"hash-temp", "replace"} => temp[File(i)] = staged[File(i)]

Untouched(m) ==
  /\ entry'[m] = entry[m]
  /\ \A k \in 1 .. PartCount : /\ staged'[<<m, k>>] = staged[<<m, k>>]
                               /\ dest'[<<m, k>>] = dest[<<m, k>>]
                               /\ temp'[<<m, k>>] = temp[<<m, k>>]

LEMMA OtherMembersUntouched ==
  ASSUME ImportTypes, NEW i \in Importers,
         TransactionResume(i) \/ PlanExecute(i) \/ Import(i) \/ Stop(i),
         NEW m \in Members, ~Busy(i) \/ m # work[i].m
  PROVE  Untouched(m)
<1>1. CASE UNCHANGED <<entry, staged, dest, temp>>
  BY <1>1 DEF Untouched
<1>2. /\ \A k \in 1 .. PartCount : <<m, k>> \in Files
      /\ work[i].m \in Members /\ File(i) \in Files
      /\ m # work[i].m => \A k \in 1 .. PartCount : <<m, k>> # File(i)
  BY WorkIsWork DEF Files, File
<1>3. ASSUME m # work[i].m,
             \/ SaveEntry(i) \/ TruncateStage(i) \/ FillStage(i) \/ TruncateTemp(i) \/ FillTemp(i)
             \/ HashMismatch(i) \/ Replace(i)
      PROVE  Untouched(m)
  <2>1. CASE SaveEntry(i)
    BY <1>3, <2>1 DEF SaveEntry, Untouched, ImportTypes, DiskTypeOK
  <2>2. CASE TruncateStage(i) \/ FillStage(i)
    <3>1. (\E c : staged' = [staged EXCEPT ![File(i)] = c]) /\ UNCHANGED <<entry, dest, temp>>
      BY <2>2 DEF TruncateStage, FillStage
    <3> QED
      BY <1>2, <1>3, <3>1 DEF Untouched, ImportTypes, DiskTypeOK
  <2>3. CASE TruncateTemp(i) \/ FillTemp(i) \/ HashMismatch(i)
    <3>1. (\E c : temp' = [temp EXCEPT ![File(i)] = c]) /\ UNCHANGED <<entry, dest, staged>>
      BY <2>3 DEF TruncateTemp, FillTemp, HashMismatch, diskVars
    <3> QED
      BY <1>2, <1>3, <3>1 DEF Untouched, ImportTypes, ImportTypeOK
  <2>4. CASE Replace(i)
    <3>1. /\ \E c, d : dest' = [dest EXCEPT ![File(i)] = c] /\ temp' = [temp EXCEPT ![File(i)] = d]
          /\ UNCHANGED <<entry, staged>>
      BY <2>4 DEF Replace
    <3> QED
      BY <1>2, <1>3, <3>1 DEF Untouched, ImportTypes, ImportTypeOK, DiskTypeOK
  <2> QED
    BY <1>3, <2>1, <2>2, <2>3, <2>4
<1>4. CASE \/ TransactionResume(i) \/ PlanExecute(i) \/ SelectMember(i) \/ CreateObject(i) \/ CheckTarget(i)
           \/ TargetExists(i) \/ HashTemp(i) \/ ReplaceFails(i) \/ SaveRecord(i) \/ Finish(i) \/ Stop(i)
  BY <1>1, <1>4 DEF TransactionResume, PlanExecute, SelectMember, CreateObject, CheckTarget, TargetExists,
                    HashTemp, ReplaceFails, SaveRecord, Finish, Stop, diskVars
<1>5. CASE \/ SaveEntry(i) \/ TruncateStage(i) \/ FillStage(i) \/ TruncateTemp(i) \/ FillTemp(i)
           \/ HashMismatch(i) \/ Replace(i)
  <2>1. Busy(i)
    BY <1>5 DEF SaveEntry, TruncateStage, FillStage, TruncateTemp, FillTemp, HashMismatch, Replace, Busy,
                EntrySteps
  <2> QED
    BY <1>3, <1>5, <2>1
<1> QED
  BY <1>4, <1>5 DEF Import

LEMMA SteadyStays ==
  ASSUME ImportTypes, NEW i \in Importers, ipc'[i] = ipc[i], work'[i] = work[i],
         Busy(i) => Untouched(work[i].m), Steady(i)
  PROVE  Steady(i)'
<1>1. work[i].part \in 1 .. PartCount /\ 1 \in 1 .. PartCount
  BY WorkIsWork, PartCountAssumption
<1>2. /\ Primary(work[i].m)' = Primary(work[i].m) /\ File(i)' = File(i)
      /\ Primary(work[i].m) = <<work[i].m, 1>> /\ File(i) = <<work[i].m, work[i].part>>
  BY DEF Primary, File
<1>3. Busy(i) => /\ entry'[work[i].m] = entry[work[i].m]
                 /\ dest'[Primary(work[i].m)] = dest[Primary(work[i].m)]
                 /\ staged'[Primary(work[i].m)] = staged[Primary(work[i].m)]
                 /\ staged'[File(i)] = staged[File(i)] /\ temp'[File(i)] = temp[File(i)]
  BY <1>1, <1>2 DEF Untouched
<1> QED
  BY <1>2, <1>3 DEF Steady, Busy, StagedPcs

\* A step of i within its walk, whatever it does to the file in hand
LEMMA SteadyStep ==
  ASSUME ImportTypes, NEW i \in Importers, Steady(i), Import(i) \/ Stop(i) \/ TransactionResume(i) \/ PlanExecute(i)
  PROVE  Steady(i)'
<1> DEFINE m == work[i].m
           f == Primary(m)
<1>1. /\ work[i] \in Works /\ m \in Members /\ work[i].part \in 1 .. PartCount
      /\ File(i) \in Files /\ f \in Files
      /\ PartCount \in Nat \ {0}
  BY WorkIsWork, PartCountAssumption
<1>2. f = <<m, 1>> /\ File(i) = <<m, work[i].part>>
  BY DEF Primary, File
<1>3. /\ ipc \in [Importers -> ImportPcs] /\ staged \in [Files -> Contents] /\ dest \in [Files -> Contents]
      /\ temp \in [Files -> Contents] /\ entry \in [Members -> Entries] /\ work \in [Importers -> Works]
  BY DEF ImportTypes, ImportTypeOK, DiskTypeOK
<1>4. Sound(SourceContents)
  BY DEF SourceContents, Sound
<1> HIDE DEF m, f
<1>5. ASSUME UNCHANGED work
      PROVE  work'[i].m = m /\ work'[i].part = work[i].part /\ Primary(work'[i].m) = f
  BY <1>5 DEF m, f
<1>6. \A n : Primary(n)' = Primary(n)
  BY DEF Primary
<1>7. File(i)' = <<work'[i].m, work'[i].part>>
  BY DEF File
<1>8. CASE \/ TransactionResume(i) \/ PlanExecute(i)
           \/ TargetExists(i) \/ HashMismatch(i) \/ ReplaceFails(i) \/ Finish(i) \/ Stop(i)
  <2>1. ipc'[i] \in {"idle", "select"}
    BY <1>3, <1>8 DEF TransactionResume, PlanExecute, TargetExists, HashMismatch, ReplaceFails, Finish, Stop,
                      Exit, Turn
  <2> QED
    BY <2>1 DEF Steady, Busy
<1>9. CASE SelectMember(i)
  <2>1. ipc'[i] = "pending" /\ work'[i].part = 1
    BY <1>3, <1>9 DEF SelectMember, Turn
  <2> QED
    BY <2>1 DEF Steady, Busy, WalkPcs, FileSteps, PlacedPcs, RecordKinds, StagedPcs
<1>10. CASE SaveEntry(i)
  <2>1. /\ ipc[i] \in EntrySteps /\ UNCHANGED <<work, staged, dest, temp>> /\ ipc'[i] = After(ipc[i])
        /\ entry'[m] = [state |-> ipc[i], recorded |-> FALSE]
    BY <1>1, <1>3, <1>10 DEF SaveEntry, Turn, m
  <2>2. ipc[i] # "absent" /\ Busy(i)
    BY <2>1 DEF EntrySteps, Busy
  <2>3. After(ipc[i]) \in WalkPcs => ipc[i] \notin PlacedStates
    BY <2>1 DEF After, WalkPcs, FileSteps, PlacedStates, EntrySteps
  <2>4. After(ipc[i]) \in StagedPcs /\ After(ipc[i]) # "select" => ipc[i] \in StagedPcs
    BY <2>1 DEF After, StagedPcs, EntrySteps
  <2>5. After(ipc[i]) \notin {"hash-temp", "replace", "pending"}
    BY <2>1 DEF After, EntrySteps
  <2>6. After(ipc[i]) \in PlacedPcs => ipc[i] \in PlacedPcs
    BY AfterPlaced
  <2>7. After(ipc[i]) \in PlacedPcs \/ work[i].part > 1 => dest'[f] = staged'[f] /\ Sound(dest'[f])
    BY <2>1, <2>2, <2>6 DEF Steady, f, m
  <2>8. After(ipc[i]) \in StagedPcs => Sound(staged'[File(i)])
    <3>1. "select" \notin StagedPcs
      BY DEF StagedPcs
    <3> QED
      BY <2>1, <2>2, <2>4, <3>1 DEF Steady
  <2>9. /\ entry'[m].state = ipc[i] /\ work'[i].m = m /\ work'[i].part = work[i].part
        /\ Primary(work[i].m)' = f /\ File(i)' = File(i)
    BY <2>1 DEF Primary, File, f, m
  <2> QED
    BY <2>1, <2>2, <2>3, <2>5, <2>7, <2>8, <2>9 DEF Steady, StagedPcs
<1>11. ASSUME NEW pc, ipc'[i] = pc, pc \in WalkPcs, ipc[i] \in WalkPcs, UNCHANGED entry,
              work'[i].m = m,
              work'[i].part > 1 \/ pc \in PlacedPcs => dest'[f] = staged'[f] /\ Sound(dest'[f]),
              pc \in StagedPcs => Sound(staged'[<<m, work'[i].part>>]),
              pc \in {"hash-temp", "replace"} =>
                temp'[<<m, work'[i].part>>] = staged'[<<m, work'[i].part>>]
       PROVE  Steady(i)'
  <2>1. Busy(i) /\ ipc[i] # "pending"
    BY <1>11 DEF WalkPcs, FileSteps, Busy
  <2>2. entry[m].state # "absent" /\ entry[m].state \notin PlacedStates
    BY <1>11, <2>1 DEF Steady, m
  <2>3. Primary(work'[i].m) = f
    BY <1>11 DEF f
  <2> QED
    BY <1>6, <1>7, <1>11, <2>2, <2>3 DEF Steady, StagedPcs
<1>12. \A pc \in WalkPcs : pc \in PlacedPcs <=> pc = "copying"
  BY DEF WalkPcs, FileSteps, PlacedPcs, RecordKinds
<1>13. Busy(i) /\ ipc[i] \in WalkPcs /\ work[i].part > 1 => dest[f] = staged[f] /\ Sound(dest[f]) /\ f # File(i)
  BY <1>1, <1>2 DEF Steady, f, m
<1>14. /\ ipc[i] \in StagedPcs \ {"select"} => Sound(staged[File(i)])
       /\ ipc[i] \in {"hash-temp", "replace"} => temp[File(i)] = staged[File(i)]
  BY DEF Steady, Busy, StagedPcs
<1>15. CASE TruncateStage(i) \/ FillStage(i)
  <2>1. /\ ipc[i] \in {"truncate-stage", "fill-stage"} /\ ipc'[i] = After(ipc[i])
        /\ UNCHANGED <<work, entry, dest, temp>>
        /\ staged' = [staged EXCEPT ![File(i)] = IF ipc[i] = "fill-stage" THEN SourceContents ELSE "torn"]
    BY <1>3, <1>15 DEF TruncateStage, FillStage, Turn
  <2>2. /\ After(ipc[i]) \in WalkPcs \ {"copying", "hash-temp", "replace"} /\ ipc[i] \in WalkPcs /\ Busy(i)
        /\ After(ipc[i]) \in StagedPcs => ipc[i] = "fill-stage"
    BY <2>1 DEF After, WalkPcs, FileSteps, StagedPcs, Busy
  <2>3. ipc[i] = "fill-stage" => Sound(staged'[File(i)])
    BY <1>1, <1>3, <1>4, <2>1
  <2>4. work[i].part > 1 => dest'[f] = staged'[f] /\ Sound(dest'[f])
    BY <1>1, <1>3, <1>13, <2>1, <2>2
  <2> QED
    BY <1>2, <1>5, <1>11, <1>12, <2>1, <2>2, <2>3, <2>4
<1>16. CASE CreateObject(i) \/ CheckTarget(i) \/ HashTemp(i)
  <2>1. /\ ipc[i] \in {"create-object", "check", "hash-temp"} /\ ipc'[i] = After(ipc[i])
        /\ UNCHANGED <<entry, staged, dest, temp>>
        /\ work'[i].m = m /\ work'[i].part = work[i].part
    <3>1. CASE CreateObject(i)
      <4>1. (\E c : work'[i] = [work[i] EXCEPT !.want = c]) /\ ipc'[i] = After(ipc[i])
        BY <1>3, <3>1 DEF CreateObject, Turn
      <4> QED
        BY <1>1, <3>1, <4>1 DEF CreateObject, diskVars, Works, m
    <3>2. CASE CheckTarget(i) \/ HashTemp(i)
      BY <1>3, <3>2 DEF CheckTarget, HashTemp, Turn, diskVars, m
    <3> QED
      BY <1>16, <3>1, <3>2
  <2>2. /\ After(ipc[i]) \in WalkPcs \ {"copying", "hash-temp"} /\ ipc[i] \in WalkPcs /\ Busy(i)
        /\ After(ipc[i]) \in StagedPcs => ipc[i] \in StagedPcs
        /\ After(ipc[i]) = "replace" => ipc[i] = "hash-temp"
    BY <2>1 DEF After, WalkPcs, FileSteps, StagedPcs, Busy
  <2>3. "select" \notin StagedPcs
    BY DEF StagedPcs
  <2> QED
    BY <1>2, <1>11, <1>12, <1>13, <1>14, <2>1, <2>2, <2>3
<1>17. CASE TruncateTemp(i) \/ FillTemp(i)
  <2>1. /\ ipc[i] \in {"truncate-temp", "fill-temp"} /\ ipc'[i] = After(ipc[i])
        /\ UNCHANGED <<work, entry, dest, staged>>
        /\ ipc[i] = "fill-temp" => temp' = [temp EXCEPT ![File(i)] = staged[File(i)]]
    BY <1>3, <1>17 DEF TruncateTemp, FillTemp, Turn, diskVars
  <2>2. /\ After(ipc[i]) \in WalkPcs \ {"copying", "replace"} /\ ipc[i] \in WalkPcs /\ Busy(i)
        /\ After(ipc[i]) = "hash-temp" => ipc[i] = "fill-temp"
    BY <2>1 DEF After, WalkPcs, FileSteps, StagedPcs, Busy
  <2>3. ipc[i] = "fill-temp" => temp'[File(i)] = staged'[File(i)]
    BY <1>1, <1>3, <2>1
  <2>4. Sound(staged[File(i)])
    BY <1>14, <2>1 DEF StagedPcs
  <2>5. work[i].part > 1 => dest'[f] = staged'[f] /\ Sound(dest'[f])
    BY <1>13, <2>1, <2>2
  <2> QED
    BY <1>2, <1>5, <1>11, <1>12, <2>1, <2>2, <2>3, <2>4, <2>5
<1>18. CASE Replace(i)
  <2>1. /\ ipc[i] = "replace" /\ UNCHANGED <<entry, staged>>
        /\ dest' = [dest EXCEPT ![File(i)] = temp[File(i)]]
        /\ "replace" \in WalkPcs /\ "replace" \in StagedPcs \ {"select"} /\ Busy(i)
    BY <1>18 DEF Replace, WalkPcs, FileSteps, StagedPcs, Busy
  <2>2. dest'[File(i)] = staged'[File(i)] /\ Sound(dest'[File(i)])
    BY <1>1, <1>3, <1>14, <2>1
  <2>3. dest'[f] = staged'[f] /\ Sound(dest'[f])
    BY <1>1, <1>2, <1>3, <1>13, <2>1, <2>2
  <2>4. CASE MoreParts(i)
    <3>1. work'[i] = [work[i] EXCEPT !.part = @ + 1] /\ ipc'[i] = After("check")
      BY <1>3, <1>18, <2>4 DEF Replace, Turn
    <3>2. work'[i].m = m
      BY <1>1, <3>1 DEF Works, m
    <3>3. PartCount # 1
      BY <1>1, <2>4 DEF MoreParts
    <3>4. After("check") = "truncate-stage"
      BY <3>3, ArchiveAssumption, KindAssumption DEF After
    <3>5. Kind # "archive"
      BY <3>3, ArchiveAssumption
    <3>6. "truncate-stage" \in WalkPcs /\ "truncate-stage" \notin StagedPcs
      BY <3>5 DEF WalkPcs, FileSteps, StagedPcs
    <3> QED
      BY <1>11, <2>1, <2>3, <3>1, <3>2, <3>4, <3>6
  <2>5. CASE ~MoreParts(i)
    <3>1. UNCHANGED work /\ ipc'[i] = "copying"
      BY <1>3, <1>18, <2>5 DEF Replace, Turn
    <3>2. "copying" \in WalkPcs /\ "copying" \notin StagedPcs
      BY DEF WalkPcs, StagedPcs
    <3> QED
      BY <1>5, <1>11, <2>1, <2>3, <3>1, <3>2
  <2> QED
    BY <2>4, <2>5
<1>19. CASE SaveRecord(i)
  <2>1. /\ ipc[i] \in RecordKinds /\ ipc'[i] = After(ipc[i]) /\ UNCHANGED <<work, entry, staged, dest, temp>>
    BY <1>3, <1>19 DEF SaveRecord, Turn, diskVars
  <2>2. /\ After(ipc[i]) \notin WalkPcs \cup {"pending", "hash-temp", "replace"} \cup StagedPcs
        /\ Busy(i) /\ ipc[i] \in PlacedPcs /\ ipc[i] # "pending"
    BY <2>1 DEF After, RecordKinds, WalkPcs, FileSteps, StagedPcs, PlacedPcs, Busy
  <2> QED
    BY <1>5, <1>6, <2>1, <2>2 DEF Steady, StagedPcs, f, m
<1> QED
  BY <1>8, <1>9, <1>10, <1>15, <1>16, <1>17, <1>18, <1>19 DEF Import

\* What such a step leaves on disk
LEMMA DiskStep ==
  ASSUME ImportTypes, NEW i \in Importers, Steady(i), AfterImport, NoTornContent,
         TransactionResume(i) \/ PlanExecute(i) \/ Import(i) \/ Stop(i)
  PROVE  AfterImport' /\ NoTornContent'
<1> DEFINE m == work[i].m
           f == Primary(m)
<1>1. /\ work[i].part \in 1 .. PartCount /\ m \in Members /\ File(i) \in Files /\ f \in Files
      /\ f = <<m, 1>> /\ File(i) = <<m, work[i].part>> /\ PartCount \in Nat \ {0}
      /\ \A n \in Members : Primary(n) \in Files /\ (n # m => Primary(n) # f /\ Primary(n) # File(i))
  BY WorkIsWork, PartCountAssumption DEF Primary, File, Files
<1>2. /\ staged \in [Files -> Contents] /\ dest \in [Files -> Contents]
      /\ temp \in [Files -> Contents] /\ entry \in [Members -> Entries]
  BY DEF ImportTypes, ImportTypeOK, DiskTypeOK
<1>3. \A n : Primary(n)' = Primary(n)
  BY DEF Primary
<1>4. Busy(i) /\ ipc[i] \in FileSteps =>
        entry[m].state \notin PlacedStates /\ entry[m].state # "absent" /\ ipc[i] # "pending"
  BY DEF Steady, WalkPcs, FileSteps
<1> HIDE DEF m, f
<1>5. CASE SaveEntry(i)
  <2>1. /\ ipc[i] \in EntrySteps /\ UNCHANGED <<staged, dest>> /\ Busy(i)
        /\ entry' = [entry EXCEPT ![m] = [state |-> ipc[i], recorded |-> FALSE]]
    BY <1>5 DEF SaveEntry, EntrySteps, Busy, m
  <2>2. /\ ipc[i] \in ImportStates \ {"absent"}
        /\ ipc[i] \in PlacedStates => ipc[i] \in PlacedPcs
    BY <2>1 DEF EntrySteps, ImportStates, PlacedStates, PlacedPcs
  <2>3. ipc[i] \in PlacedStates => dest[f] = staged[f] /\ dest[f] \notin {"none", "torn"}
    BY <2>1, <2>2 DEF Steady, Sound, f, m
  <2>4. AfterImport'
    BY <1>1, <1>2, <1>3, <2>1, <2>2, <2>3 DEF AfterImport, f
  <2> QED
    BY <2>1, <2>4 DEF NoTornContent
<1>6. CASE TruncateStage(i) \/ FillStage(i)
  <2>1. /\ (\E c : staged' = [staged EXCEPT ![File(i)] = c]) /\ UNCHANGED <<entry, dest>>
        /\ ipc[i] \in FileSteps /\ Busy(i)
    BY <1>6 DEF TruncateStage, FillStage, FileSteps, Busy
  <2>2. \A n \in Members \ {m} : staged'[Primary(n)] = staged[Primary(n)]
    BY <1>1, <1>2, <2>1
  <2>3. AfterImport'
    BY <1>3, <1>4, <2>1, <2>2 DEF AfterImport
  <2> QED
    BY <2>1, <2>3 DEF NoTornContent
<1>7. CASE Replace(i)
  <2>1. /\ dest' = [dest EXCEPT ![File(i)] = temp[File(i)]] /\ UNCHANGED <<entry, staged>>
        /\ ipc[i] = "replace" /\ ipc[i] \in FileSteps /\ Busy(i) /\ ipc[i] \in StagedPcs
    BY <1>7 DEF Replace, FileSteps, Busy, StagedPcs
  <2>2. Sound(temp[File(i)])
    BY <2>1 DEF Steady
  <2>3. \A n \in Members \ {m} : dest'[Primary(n)] = dest[Primary(n)]
    BY <1>1, <1>2, <2>1
  <2>4. AfterImport'
    BY <1>3, <1>4, <2>1, <2>3 DEF AfterImport
  <2>5. NoTornContent'
    BY <1>2, <2>1, <2>2 DEF NoTornContent, Sound
  <2> QED
    BY <2>4, <2>5
<1>8. CASE UNCHANGED <<entry, staged, dest>>
  BY <1>3, <1>8 DEF AfterImport, NoTornContent
<1> QED
  BY <1>5, <1>6, <1>7, <1>8
  DEF TransactionResume, PlanExecute, Import, Stop, SelectMember, CreateObject, CheckTarget, TargetExists,
      TruncateTemp, FillTemp, HashTemp, HashMismatch, ReplaceFails, SaveRecord, Finish, diskVars

Orderly == (\A i \in Importers : Steady(i)) /\ AfterImport /\ NoTornContent

LEMMA OrderlyStep ==
  ASSUME ImportTypes, MembersApart, Orderly, ImportNext
  PROVE  Orderly'
<1>1. PICK i \in Importers : TransactionResume(i) \/ PlanExecute(i) \/ Import(i) \/ Stop(i)
  BY DEF ImportNext
<1>2. Steady(i)' /\ AfterImport' /\ NoTornContent'
  BY <1>1, SteadyStep, DiskStep DEF Orderly
<1>3. ASSUME NEW j \in Importers \ {i}
      PROVE  Steady(j)'
  <2>1. ipc'[j] = ipc[j] /\ work'[j] = work[j]
    BY <1>1, OtherImportersStay
  <2>2. Busy(j) => Untouched(work[j].m)
    <3>1. work[j].m \in Members
      BY WorkIsWork
    <3>2. Busy(j) => ~Busy(i) \/ work[j].m # work[i].m
      BY DEF MembersApart
    <3> QED
      BY <1>1, <3>1, <3>2, OtherMembersUntouched
  <2> QED
    BY <2>1, <2>2, SteadyStays DEF Orderly
<1> QED
  BY <1>2, <1>3 DEF Orderly

LEMMA OrderlyInit ==
  ASSUME DiskInit, ImportInit
  PROVE  Orderly
<1>1. \A i \in Importers : ~Busy(i)
  BY DEF ImportInit, Busy
<1>2. NoTornContent
  BY DEF DiskInit, NoTornContent
<1>3. \A m \in Members : Primary(m) \in Files
  BY PartCountAssumption DEF Primary, Files
<1>4. AfterImport
  BY <1>3 DEF DiskInit, AfterImport, Absent, ImportStates, PlacedStates
<1> QED
  BY <1>1, <1>2, <1>4 DEF Orderly, Steady

LEMMA OrderlyAlways == ImportSpec /\ []MembersApart => [](ImportTypes /\ Orderly)
<1>1. ImportStart => ImportTypes /\ Orderly
  BY ImportTypesInit, OrderlyInit DEF ImportStart
<1>2. ImportTypes /\ Orderly /\ MembersApart /\ [ImportStep]_<<diskVars, importVars>> => Orderly'
  <2> SUFFICES ASSUME ImportTypes, Orderly, MembersApart, [ImportStep]_<<diskVars, importVars>>
               PROVE  Orderly'
    OBVIOUS
  <2>1. CASE (SourceChanges /\ UNCHANGED importVars) \/ UNCHANGED <<diskVars, importVars>>
    <3>1. UNCHANGED <<entry, staged, dest, temp, ipc, work>>
      BY <2>1 DEF SourceChanges, diskVars, importVars
    <3>2. \A i \in Importers : Untouched(work[i].m)
      BY <3>1 DEF Untouched
    <3>3. \A i \in Importers : Steady(i)'
      BY <3>1, <3>2, SteadyStays DEF Orderly
    <3> QED
      BY <3>1, <3>3 DEF Orderly, AfterImport, NoTornContent, Primary
  <2> QED
    BY <2>1, OrderlyStep DEF ImportStep
<1>3. ImportSpec => []ImportTypes
  BY ImportTypesAlways, PTL DEF ImportTypes
<1> QED
  BY <1>1, <1>2, <1>3, PTL DEF ImportSpec

\* What importers leave on disk wherever they stop is what the recovery
\* workflow starts from, when no two have one member in hand
\* (importer.py:142-236).
THEOREM ImportersGuaranteeAfterImport == ImportSpec /\ []MembersApart => []AfterImport
<1>1. Orderly => AfterImport
  BY DEF Orderly
<1> QED
  BY <1>1, OrderlyAlways, PTL

\* And no file cut short gets its collection name (importer.py:196-201).
THEOREM NoTornFileIsPlaced == ImportSpec /\ []MembersApart => []NoTornContent
<1>1. Orderly => NoTornContent
  BY DEF Orderly
<1> QED
  BY <1>1, OrderlyAlways, PTL
-----------------------------------------------------------------------------
(* Nothing in the collection is replaced.  The importer looks for the       *)
(* primary file only, so this needs a collection without stray sidecars,    *)
(* and the walk has to keep it that way.                                    *)

\* After the look at the destination and before the rename
FreePcs == {"truncate-temp", "fill-temp", "hash-temp", "replace"} \cup
  (IF Kind = "directory" THEN {"truncate-stage", "fill-stage"} ELSE {})

Free(i) ==
  ipc[i] \in FreePcs => \A k \in work[i].part .. PartCount : dest[<<work[i].m, k>>] = "none"

\* A sidecar is never without its primary file.
Accompanied ==
  \A m \in Members, k \in 2 .. PartCount : dest[<<m, k>>] # "none" => dest[Primary(m)] # "none"

WrittenOnce == \A f \in Files : dest[f] # "none" => dest'[f] = dest[f]

LEMMA FreeStays ==
  ASSUME ImportTypes, NEW i \in Importers, ipc'[i] = ipc[i], work'[i] = work[i],
         Busy(i) => Untouched(work[i].m), Free(i)
  PROVE  Free(i)'
<1>1. work[i].part \in 1 .. PartCount /\ PartCount \in Nat
  BY WorkIsWork, PartCountAssumption
<1>2. \A k \in work[i].part .. PartCount : k \in 1 .. PartCount
  BY <1>1
<1>3. ipc[i] \in FreePcs => Busy(i)
  BY DEF FreePcs, Busy
<1> QED
  BY <1>2, <1>3 DEF Free, FreePcs, Untouched

LEMMA FreeStep ==
  ASSUME ImportTypes, NEW i \in Importers, Steady(i), Free(i), Accompanied,
         TransactionResume(i) \/ PlanExecute(i) \/ Import(i) \/ Stop(i)
  PROVE  Free(i)' /\ Accompanied' /\ WrittenOnce
<1> DEFINE m == work[i].m
<1>1. /\ work[i] \in Works /\ work[i].part \in 1 .. PartCount /\ m \in Members /\ File(i) \in Files
      /\ File(i) = <<m, work[i].part>> /\ PartCount \in Nat \ {0}
      /\ \A n \in Members : Primary(n) = <<n, 1>> /\ \A k \in 1 .. PartCount : <<n, k>> \in Files
  BY WorkIsWork, PartCountAssumption DEF Primary, File, Files
<1>2. dest \in [Files -> Contents] /\ ipc \in [Importers -> ImportPcs] /\ work \in [Importers -> Works]
  BY DEF ImportTypes, ImportTypeOK, DiskTypeOK
<1> HIDE DEF m
<1>3. ASSUME UNCHANGED dest
      PROVE  Accompanied' /\ WrittenOnce
  BY <1>3 DEF Accompanied, WrittenOnce, Primary
<1>4. CASE \/ TransactionResume(i) \/ PlanExecute(i) \/ SelectMember(i)
           \/ TargetExists(i) \/ HashMismatch(i) \/ ReplaceFails(i) \/ Finish(i) \/ Stop(i)
  <2>1. ipc'[i] \in {"select", "pending", "idle"} /\ UNCHANGED dest
    BY <1>2, <1>4 DEF TransactionResume, PlanExecute, SelectMember, TargetExists, HashMismatch, ReplaceFails,
                      Finish, Stop, Exit, Turn, diskVars
  <2> QED
    BY <1>3, <2>1 DEF Free, FreePcs
<1>5. CASE SaveEntry(i) \/ SaveRecord(i) \/ CreateObject(i)
  <2>1. /\ ipc[i] \in EntrySteps \cup RecordKinds \cup {"create-object"}
        /\ ipc'[i] = After(ipc[i]) /\ UNCHANGED dest
    BY <1>2, <1>5 DEF SaveEntry, SaveRecord, CreateObject, Turn, diskVars
  <2>2. After(ipc[i]) \notin FreePcs
    BY <2>1, KindAssumption DEF After, EntrySteps, RecordKinds, FreePcs
  <2> QED
    BY <1>3, <2>1, <2>2 DEF Free, FreePcs
<1>6. CASE CheckTarget(i)
  <2>1. dest[Primary(m)] = "none" /\ UNCHANGED <<work, dest>>
    BY <1>6 DEF CheckTarget, diskVars, m
  <2>2. \A k \in work[i].part .. PartCount : k = 1 \/ k \in 2 .. PartCount
    BY <1>1
  <2>3. \A k \in work[i].part .. PartCount : dest[<<m, k>>] = "none"
    BY <1>1, <2>1, <2>2 DEF Accompanied
  <2> QED
    BY <1>3, <2>1, <2>3 DEF Free, m
<1>7. CASE TruncateStage(i) \/ FillStage(i) \/ TruncateTemp(i) \/ FillTemp(i) \/ HashTemp(i)
  <2>1. /\ ipc[i] \in {"truncate-stage", "fill-stage", "truncate-temp", "fill-temp", "hash-temp"}
        /\ ipc'[i] = After(ipc[i]) /\ UNCHANGED <<work, dest>>
    BY <1>2, <1>7 DEF TruncateStage, FillStage, TruncateTemp, FillTemp, HashTemp, Turn, diskVars
  <2>2. After(ipc[i]) \in FreePcs => ipc[i] \in FreePcs
    BY <2>1, KindAssumption DEF After, FreePcs
  <2> QED
    BY <1>3, <2>1, <2>2 DEF Free, FreePcs
<1>8. CASE Replace(i)
  <2>1. /\ dest' = [dest EXCEPT ![File(i)] = temp[File(i)]] /\ temp[File(i)] # "none"
        /\ ipc[i] = "replace" /\ ipc[i] \in FreePcs /\ Busy(i)
    BY <1>8 DEF Replace, FreePcs, Busy
  <2>2. \A k \in work[i].part .. PartCount : dest[<<m, k>>] = "none"
    BY <2>1 DEF Free, m
  <2>3. dest[File(i)] = "none"
    BY <1>1, <2>2
  <2>4. WrittenOnce
    BY <1>2, <2>1, <2>3 DEF WrittenOnce
  <2>5. Accompanied'
    <3>1. work[i].part > 1 => dest[<<m, 1>>] # "none"
      BY <1>1, <2>1 DEF Steady, Sound, m
    <3>2. dest'[<<m, 1>>] # "none"
      BY <1>1, <1>2, <2>1, <3>1
    <3>3. \A n \in Members \ {m}, k \in 1 .. PartCount : dest'[<<n, k>>] = dest[<<n, k>>]
      BY <1>1, <1>2, <2>1
    <3>4. \A k \in 2 .. PartCount : k \in 1 .. PartCount
      BY <1>1
    <3>5. 1 \in 1 .. PartCount
      BY <1>1
    <3>6. \A n \in Members : Primary(n)' = <<n, 1>> /\ Primary(n) = <<n, 1>>
      BY DEF Primary
    <3> QED
      BY <3>2, <3>3, <3>4, <3>5, <3>6 DEF Accompanied
  <2>6. CASE MoreParts(i)
    <3>1. work'[i] = [work[i] EXCEPT !.part = @ + 1]
      BY <1>2, <1>8, <2>6 DEF Replace
    <3>2. work'[i].m = m /\ work'[i].part = work[i].part + 1
      BY <1>1, <3>1 DEF Works, m
    <3>3. \A k \in (work[i].part + 1) .. PartCount :
            k \in work[i].part .. PartCount /\ k # work[i].part /\ k \in 1 .. PartCount
      BY <1>1
    <3>4. \A k \in (work[i].part + 1) .. PartCount : dest'[<<m, k>>] = "none"
      BY <1>1, <1>2, <2>1, <2>2, <3>3
    <3> QED
      BY <2>4, <2>5, <3>2, <3>4 DEF Free
  <2>7. CASE ~MoreParts(i)
    <3>1. ipc'[i] = "copying"
      BY <1>2, <1>8, <2>7 DEF Replace, Turn
    <3> QED
      BY <2>4, <2>5, <3>1 DEF Free, FreePcs
  <2> QED
    BY <2>6, <2>7
<1> QED
  BY <1>4, <1>5, <1>6, <1>7, <1>8 DEF Import

Unspoilt == (\A i \in Importers : Free(i)) /\ Accompanied

LEMMA UnspoiltStep ==
  ASSUME ImportTypes, MembersApart, Orderly, Unspoilt, ImportNext
  PROVE  Unspoilt' /\ WrittenOnce
<1>1. PICK i \in Importers : TransactionResume(i) \/ PlanExecute(i) \/ Import(i) \/ Stop(i)
  BY DEF ImportNext
<1>2. Free(i)' /\ Accompanied' /\ WrittenOnce
  BY <1>1, FreeStep DEF Orderly, Unspoilt
<1>3. ASSUME NEW j \in Importers \ {i}
      PROVE  Free(j)'
  <2>1. ipc'[j] = ipc[j] /\ work'[j] = work[j]
    BY <1>1, OtherImportersStay
  <2>2. Busy(j) => Untouched(work[j].m)
    <3>1. work[j].m \in Members
      BY WorkIsWork
    <3>2. Busy(j) => ~Busy(i) \/ work[j].m # work[i].m
      BY DEF MembersApart
    <3> QED
      BY <1>1, <3>1, <3>2, OtherMembersUntouched
  <2> QED
    BY <2>1, <2>2, FreeStays DEF Unspoilt
<1> QED
  BY <1>2, <1>3 DEF Unspoilt

\* No import replaces what is in the collection, not even one that resumes
\* where another was stopped, in a collection without stray sidecars and when
\* no two importers have one member in hand (importer.py:169-201).
THEOREM ImportsWriteOnce == FreeSidecarSpec /\ []MembersApart => DestinationWriteOnce
<1>1. FreeSidecars => ImportStart /\ Unspoilt
  <2> SUFFICES ASSUME FreeSidecars PROVE ImportStart /\ Unspoilt
    OBVIOUS
  <2>1. \A i \in Importers : ipc[i] = "idle"
    BY DEF FreeSidecars, ImportStart, ImportInit
  <2> QED
    BY <2>1 DEF FreeSidecars, Unspoilt, Free, FreePcs, Accompanied
<1>2. ImportTypes /\ Orderly /\ Unspoilt /\ MembersApart /\ [ImportStep]_<<diskVars, importVars>>
        => Unspoilt' /\ [WrittenOnce]_dest
  <2> SUFFICES ASSUME ImportTypes, Orderly, Unspoilt, MembersApart, [ImportStep]_<<diskVars, importVars>>
               PROVE  Unspoilt' /\ [WrittenOnce]_dest
    OBVIOUS
  <2>1. CASE (SourceChanges /\ UNCHANGED importVars) \/ UNCHANGED <<diskVars, importVars>>
    <3>1. UNCHANGED <<dest, ipc, work>>
      BY <2>1 DEF SourceChanges, diskVars, importVars
    <3> QED
      BY <3>1 DEF Unspoilt, Free, Accompanied, FreePcs, Primary
  <2> QED
    BY <2>1, UnspoiltStep DEF ImportStep
<1>3. FreeSidecarSpec => ImportSpec
  BY <1>1, PTL DEF FreeSidecarSpec, ImportSpec
<1> QED
  BY <1>1, <1>2, <1>3, OrderlyAlways, PTL DEF FreeSidecarSpec, DestinationWriteOnce, WrittenOnce
-----------------------------------------------------------------------------
(* Importers and recoverers on one disk *)

\* What a step of the composition is, whoever takes it
LEMMA WhoSteps ==
  ASSUME [Next]_vars
  PROVE  \/ ImportNext /\ UNCHANGED recoveryVars
         \/ RecoveryNext /\ UNCHANGED importVars
         \/ SourceChanges /\ UNCHANGED <<importVars, recoveryVars>>
         \/ UNCHANGED <<diskVars, importVars, recoveryVars>>
BY DEF Next, vars

Composed == ImportTypes /\ Types /\ PlanLockExcludes

LEMMA ComposedStep ==
  ASSUME Composed, [Next]_vars
  PROVE  Composed'
<1>1. CASE ImportNext /\ UNCHANGED recoveryVars
  <2>1. ImportTypes'
    BY <1>1, ImportTypesStep DEF Composed
  <2> QED
    BY <1>1, <2>1 DEF Composed, ImportTypes, Types, RecoveryTypeOK, InHand, PlanLockExcludes, recoveryVars
<1>2. CASE RecoveryNext /\ UNCHANGED importVars
  <2>1. Types' /\ PlanLockExcludes'
    BY <1>2, TypesStep, ExclusionStep DEF Composed, RecoveryStep
  <2> QED
    BY <1>2, <2>1 DEF Composed, ImportTypes, ImportTypeOK, Types, importVars
<1>3. CASE SourceChanges /\ UNCHANGED <<importVars, recoveryVars>>
  BY <1>3 DEF SourceChanges, Composed, ImportTypes, ImportTypeOK, DiskTypeOK, Types, RecoveryTypeOK, InHand,
              PlanLockExcludes, importVars, recoveryVars
<1>4. CASE UNCHANGED <<diskVars, importVars, recoveryVars>>
  BY <1>4 DEF diskVars, Composed, ImportTypes, ImportTypeOK, DiskTypeOK, Types, RecoveryTypeOK, InHand,
              PlanLockExcludes, importVars, recoveryVars
<1> QED
  BY <1>1, <1>2, <1>3, <1>4, WhoSteps

LEMMA ComposedInit ==
  ASSUME Init
  PROVE  Composed
<1>1. ImportTypes
  BY ImportTypesInit DEF Init
<1> QED
  BY <1>1, TypesInit, ExclusionInit DEF Init, Composed, ImportTypes

\* Importers and recoverers together keep the types of disk, documents and
\* memories (importer.py, recovery_workflow.py).
THEOREM TransactionTypesAlways == Spec => []TypeOK
<1>1. Composed => TypeOK
  BY DEF Composed, ImportTypes, Types, TypeOK
<1> QED
  BY <1>1, ComposedInit, ComposedStep, PTL DEF Spec

LEMMA ComposedAlways == Spec => []Composed
BY ComposedInit, ComposedStep, PTL DEF Spec

\* The executor never empties a name in the collection.
LEMMA RecoveryGrows ==
  ASSUME Types, Placed, RecoveryNext
  PROVE  DestGrows
<1>1. CASE \E p \in Recoverers : PlaceDestination(p)
  BY <1>1 DEF PlaceDestination, Placed, DestGrows, Types, DiskTypeOK
<1>2. CASE UNCHANGED dest
  BY <1>2 DEF DestGrows
<1> QED
  BY <1>1, <1>2
  DEF RecoveryNext, WritePlan, Start, Execute, Resume, Proceed, Trouble, ExecutorFails, Interrupt, LockFails,
      Crash, OperatorClearsLock, CreateLock, EnterBlock, LockRefused, ResaveEntry, EntriesResaved,
      CheckpointValidating, SourceStale, CheckpointStale, CheckpointRunning,
      SkipCompleted, CheckpointBlocked, CheckpointStart, NothingToDo, ExecutorRefuses, MoveEntry,
      RecordHashes, MoveRecorded, KeepDestination, DecideToCopy, MovePlaced, VerifyDestination,
      CheckpointComplete, CheckpointFailure, CheckpointTerminal, SaveReport, ReleaseLock, diskVars

\* An importer never empties a staged file.
LEMMA StagingGrows ==
  ASSUME ImportTypes, ImportNext
  PROVE  \A f \in Files : staged[f] # "none" => staged'[f] # "none"
<1>1. PICK i \in Importers : TransactionResume(i) \/ PlanExecute(i) \/ Import(i) \/ Stop(i)
  BY DEF ImportNext
<1>2. CASE TruncateStage(i) \/ FillStage(i)
  <2>1. \E c \in {"torn", SourceContents} : staged' = [staged EXCEPT ![File(i)] = c]
    BY <1>2 DEF TruncateStage, FillStage
  <2> QED
    BY <2>1 DEF ImportTypes, DiskTypeOK, SourceContents
<1>3. CASE UNCHANGED staged
  BY <1>3
<1> QED
  BY <1>1, <1>2, <1>3
  DEF TransactionResume, PlanExecute, Import, Stop, SelectMember, SaveEntry, CreateObject, CheckTarget,
      TargetExists, TruncateTemp, FillTemp, HashTemp, HashMismatch, Replace, ReplaceFails, SaveRecord, Finish,
      diskVars

\* Placed is about recoverers and the entries an importer writes under them.
AllPlaced == Placed /\ \A i \in Importers : Placing(i)

LEMMA AllPlacedStep ==
  ASSUME Composed, AllPlaced, [Next]_vars
  PROVE  AllPlaced'
<1>1. CASE ImportNext /\ UNCHANGED recoveryVars
  <2>1. PICK i \in Importers : TransactionResume(i) \/ PlanExecute(i) \/ Import(i) \/ Stop(i)
    BY <1>1 DEF ImportNext
  <2>2. DestGrows /\ \A f \in Files : staged[f] # "none" => staged'[f] # "none"
    BY <1>1, ImportGrows, StagingGrows DEF Composed
  <2>3. \A j \in Importers : Placing(j)'
    <3>1. Placing(i)'
      BY <2>1, <2>2, PlacingStep DEF Composed, AllPlaced
    <3>2. \A j \in Importers \ {i} : Placing(j)'
      BY <2>1, <2>2, OtherImportersStay, StillPlaced DEF Composed, AllPlaced
    <3> QED
      BY <3>1, <3>2
  <2>4. \A m \in Members : Primary(m) \in Files /\ Primary(m)' = Primary(m)
    BY PartCountAssumption DEF Primary, Files
  <2>5. ASSUME NEW m \in Members
        PROVE  entry'[m].state \in Settled => dest'[Primary(m)] # "none"
    <3>1. CASE entry'[m] = entry[m]
      BY <2>2, <2>4, <3>1 DEF AllPlaced, Placed, HasFile, DestGrows
    <3>2. CASE m = work[i].m /\ entry'[m] = [state |-> ipc[i], recorded |-> FALSE]
      <4>1. ipc[i] \in Settled => dest[Primary(m)] # "none"
        BY <3>2, PartCountAssumption DEF AllPlaced, Placing, PlacedPcs, Settled, Primary
      <4> QED
        BY <2>2, <2>4, <3>2, <4>1 DEF HasFile, DestGrows
    <3> QED
      BY <2>1, <3>1, <3>2, ImportEntries DEF Composed
  <2>6. UNCHANGED <<rpc, job>> /\ \A p \in Recoverers : Current(p)' = Current(p)
    BY <1>1 DEF recoveryVars, Current
  <2>7. \A p \in Recoverers : rpc[p] = "copying" => Current(p) \in Members
    BY CurrentIsMember DEF Composed, Types, InHand, ActingPcs
  <2>8. \A p \in Recoverers, m \in Members :
          job'[p].snap[m].state \in Settled => dest'[Primary(m)] # "none"
    BY <2>2, <2>4, <2>6 DEF AllPlaced, Placed, HasFile, DestGrows
  <2>9. \A p \in Recoverers : rpc'[p] = "copying" => staged'[Primary(Current(p)')] # "none"
    BY <2>2, <2>4, <2>6, <2>7 DEF AllPlaced, Placed
  <2> QED
    BY <2>3, <2>4, <2>5, <2>8, <2>9 DEF AllPlaced, Placed, HasFile, Primary
<1>2. CASE RecoveryNext /\ UNCHANGED importVars
  <2>1. Placed' /\ DestGrows
    BY <1>2, PlacedStep, RecoveryGrows DEF Composed, AllPlaced
  <2>2. \A i \in Importers : Placing(i)'
    BY <1>2, <2>1, StillPlaced DEF Composed, AllPlaced, importVars
  <2> QED
    BY <2>1, <2>2 DEF AllPlaced
<1>3. CASE UNCHANGED <<entry, staged, dest, importVars, recoveryVars>>
  <2>1. \A p \in Recoverers : Current(p)' = Current(p)
    BY <1>3 DEF recoveryVars, Current
  <2> QED
    BY <1>3, <2>1 DEF AllPlaced, Placed, Placing, HasFile, Primary, importVars, recoveryVars
<1> QED
  BY <1>1, <1>2, <1>3, WhoSteps DEF SourceChanges, diskVars

\* With any number of importers and recoverers at work at once, an entry that
\* is called completed has its file in the collection (importer.py:187-233,
\* recovery.py:69-87).
THEOREM CompletedEntriesStayPlaced == Spec => []CompletedEntryIsPlaced
<1>1. Init => AllPlaced
  <2> SUFFICES ASSUME Init PROVE AllPlaced
    OBVIOUS
  <2>1. \A m \in Members : HasFile(entry[m], m)
    BY DEF Init, DiskInit, Absent, HasFile, Settled
  <2> QED
    BY <2>1, PlacedInit, PreservingInit DEF Init, AllPlaced, Preserving
<1>2. AllPlaced => CompletedEntryIsPlaced
  BY DEF AllPlaced, Placed, HasFile, Settled, CompletedEntryIsPlaced
<1> QED
  BY <1>1, <1>2, AllPlacedStep, ComposedAlways, PTL DEF Spec
-----------------------------------------------------------------------------
(* The promise, next to importers: they write no execution document. *)

LEMMA ComposedPromisingStep ==
  ASSUME Composed, Promising, RunsApart, [Next]_vars
  PROVE  Promising' /\ [CompletedStay]_execs
<1>1. CASE RecoveryNext \/ UNCHANGED recoveryVars
  BY <1>1, PromisingStep DEF Composed
<1> QED
  BY <1>1, WhoSteps

LEMMA ComposedPromising == Spec /\ []RunsApart => [](Composed /\ Promising)
<1>1. Init => Promising
  BY PromisingInit DEF Init
<1> QED
  BY <1>1, ComposedAlways, ComposedPromisingStep, PTL DEF Spec

\* What FinishedExecutionsAreFinished says holds next to importers too.
THEOREM FinishedIsFinishedAmongImporters == Spec /\ []RunsApart => []FinishedIsFinished
<1>1. Promising => FinishedIsFinished
  BY DEF Promising
<1> QED
  BY <1>1, ComposedPromising, PTL

\* And what NoCompletedActionIsForgotten says.
THEOREM ActionsAreKeptAmongImporters == Spec /\ []RunsApart => CompletedActionsAreKept
<1>1. Composed /\ Promising /\ RunsApart /\ [Next]_vars => [CompletedStay]_execs
  BY ComposedPromisingStep
<1> QED
  BY <1>1, ComposedPromising, PTL DEF Spec, CompletedActionsAreKept, CompletedStay
-----------------------------------------------------------------------------
(* One command at a time, whoever runs it *)

Alone == Running = {} \/ \E p : Running = {p}

\* Who takes a step
Steps(p) ==
  \/ p \in Importers /\ (TransactionResume(p) \/ PlanExecute(p) \/ Import(p) \/ Stop(p))
                     /\ UNCHANGED recoveryVars
  \/ p \in Recoverers /\ (Start(p) \/ Proceed(p) \/ Trouble(p)) /\ UNCHANGED importVars

Outside ==
  \/ (WritePlan \/ \E pl \in lock : OperatorClearsLock(pl)) /\ UNCHANGED importVars
  \/ SourceChanges /\ UNCHANGED <<importVars, recoveryVars>>
  \/ UNCHANGED <<diskVars, importVars, recoveryVars>>

LEMMA WhoStepsAlone ==
  ASSUME [Next]_vars
  PROVE  Outside \/ \E p : Steps(p)
BY WhoSteps DEF ImportNext, RecoveryNext, Outside, Steps

LEMMA OutsideStays ==
  ASSUME Outside
  PROVE  UNCHANGED <<entry, staged, dest, importVars, rpc, job>>
BY DEF Outside, WritePlan, OperatorClearsLock, SourceChanges, diskVars, recoveryVars

\* Of two processes, one does not move.
LEMMA OthersDoNotMove ==
  ASSUME Composed, NEW p, Steps(p)
  PROVE  /\ \A i \in Importers \ {p} : ipc'[i] = ipc[i] /\ work'[i] = work[i]
         /\ \A r \in Recoverers \ {p} : rpc'[r] = rpc[r] /\ job'[r] = job[r]
<1>1. CASE p \in Importers /\ (TransactionResume(p) \/ PlanExecute(p) \/ Import(p) \/ Stop(p))
                           /\ UNCHANGED recoveryVars
  BY <1>1, OtherImportersStay DEF Composed, recoveryVars
<1>2. CASE p \in Recoverers /\ (Start(p) \/ Proceed(p) \/ Trouble(p)) /\ UNCHANGED importVars
  BY <1>2, OthersStay DEF Composed, importVars
<1> QED
  BY <1>1, <1>2 DEF Steps

\* Whoever moves is running before or after.
LEMMA StepsWhileRunning ==
  ASSUME Composed, NEW p, Steps(p)
  PROVE  p \in Running \cup Running'
<1>1. CASE p \in Importers /\ (TransactionResume(p) \/ PlanExecute(p))
  <2>1. ipc'[p] = "select"
    BY <1>1 DEF TransactionResume, PlanExecute, Turn, Composed, ImportTypes, ImportTypeOK
  <2> QED
    BY <1>1, <2>1 DEF Running
<1>2. CASE p \in Importers /\ (Import(p) \/ Stop(p))
  <2>1. ipc[p] # "idle"
    BY <1>2 DEF Import, Stop, SelectMember, SaveEntry, TruncateStage, FillStage, CreateObject, CheckTarget,
                TargetExists, TruncateTemp, FillTemp, HashTemp, HashMismatch, Replace, ReplaceFails,
                SaveRecord, Finish, EntrySteps, RecordKinds
  <2> QED
    BY <1>2, <2>1 DEF Running
<1>3. CASE p \in Recoverers /\ Start(p)
  <2>1. rpc'[p] = "locking"
    BY <1>3 DEF Start, Execute, Resume, Goto, Composed, Types, RecoveryTypeOK
  <2> QED
    BY <1>3, <2>1 DEF Running
<1>4. CASE p \in Recoverers /\ (Proceed(p) \/ Trouble(p))
  <2>1. rpc[p] # "idle"
    BY <1>4 DEF Proceed, Trouble, ExecutorFails, Trying, Interrupt, LockFails, Crash, CreateLock, EnterBlock,
                LockRefused, ResaveEntry, EntriesResaved, CheckpointValidating,
                SourceStale, CheckpointStale, CheckpointRunning, Scheduled, SkipCompleted, CheckpointBlocked,
                CheckpointStart, NothingToDo, ExecutorRefuses, MoveEntry, RecordHashes, MoveRecorded,
                KeepDestination, DecideToCopy, PlaceDestination, MovePlaced, VerifyDestination,
                CheckpointComplete, CheckpointFailure, CheckpointTerminal, SaveReport, ReleaseLock
  <2> QED
    BY <1>4, <2>1 DEF Running
<1> QED
  BY <1>1, <1>2, <1>3, <1>4 DEF Steps

LEMMA AloneStep ==
  ASSUME OneAtATime, Composed, Alone, [Next]_vars
  PROVE  Alone'
<1>1. CASE UNCHANGED <<ipc, rpc>>
  BY <1>1 DEF Alone, Running
<1>2. ASSUME ~UNCHANGED <<ipc, rpc>>
      PROVE  Alone'
  <2>1. Next
    BY <1>2 DEF vars, importVars, recoveryVars
  <2>2. Cardinality(Running') <= 1
    BY <2>1 DEF Next
  <2>3. PICK p : Steps(p)
    BY <1>2, WhoStepsAlone, OutsideStays DEF importVars
  <2>4. Running' \subseteq Running \cup {p}
    BY <2>3, OthersDoNotMove DEF Running
  <2>5. IsFiniteSet(Running)
    BY FS_EmptySet, FS_Singleton DEF Alone
  <2>6. IsFiniteSet(Running \cup {p})
    BY <2>5, FS_AddElement
  <2>7. IsFiniteSet(Running')
    BY <2>4, <2>6, FS_Subset
  <2>8. Cardinality(Running') \in Nat
    BY <2>7, FS_CardinalityType
  <2>9. Cardinality(Running') = 0 \/ Cardinality(Running') = 1
    BY <2>2, <2>8
  <2> QED
    BY <2>7, <2>9, FS_EmptySet, FS_Singleton DEF Alone
<1> QED
  BY <1>1, <1>2

LEMMA AloneInit ==
  ASSUME Init
  PROVE  Alone
BY DEF Init, ImportInit, RecoveryInit, Alone, Running

\* Everyone else is idle, before and after.
LEMMA AloneMeansOthersIdle ==
  ASSUME OneAtATime, Composed, Alone, [Next]_vars, NEW p, Steps(p)
  PROVE  /\ \A i \in Importers \ {p} : ipc[i] = "idle" /\ ipc'[i] = "idle"
         /\ \A r \in Recoverers \ {p} : rpc[r] = "idle" /\ rpc'[r] = "idle"
<1>1. Alone'
  BY AloneStep
<1>2. p \in Running \cup Running'
  BY StepsWhileRunning
<1>3. \A q : q # p => q \notin Running \/ q \notin Running'
  BY <1>1, <1>2 DEF Alone
<1>4. \A i \in Importers \ {p} : i \in Running <=> i \in Running'
  BY OthersDoNotMove, ProcessesAssumption DEF Running
<1>5. \A r \in Recoverers \ {p} : r \in Running <=> r \in Running'
  BY OthersDoNotMove, ProcessesAssumption DEF Running
<1>6. \A i \in Importers \ {p} : i \notin Running /\ i \notin Running'
  BY <1>3, <1>4
<1>7. \A r \in Recoverers \ {p} : r \notin Running /\ r \notin Running'
  BY <1>3, <1>5
<1> QED
  BY <1>6, <1>7 DEF Running

\* Running one command at a time is one way to keep executions and members
\* apart: what the theorems above ask for is met by an operator who waits.
LEMMA AloneIsApart ==
  ASSUME Alone
  PROVE  RunsApart /\ MembersApart
<1>1. \A p, q \in Running : p = q
  BY DEF Alone
<1>2. /\ \A r \in Recoverers : rpc[r] # "idle" => r \in Running
      /\ \A i \in Importers : Busy(i) => i \in Running
  BY DEF Running, Busy
<1> QED
  BY <1>1, <1>2 DEF RunsApart, MembersApart

LEMMA AloneAlways ==
  ASSUME OneAtATime
  PROVE  Spec => [](Composed /\ Alone)
<1>1. Composed /\ Alone /\ [Next]_vars => Alone'
  BY AloneStep
<1>2. Init => Alone
  BY AloneInit
<1> QED
  BY <1>1, <1>2, ComposedAlways, PTL DEF Spec

\* Commands that are run one at a time are never at one execution or at one
\* member (recovery_workflow.py:291-375, importer.py:131).
THEOREM OneAtATimeKeepsApart ==
  ASSUME OneAtATime
  PROVE  Spec => [](RunsApart /\ MembersApart)
<1>1. Alone => RunsApart /\ MembersApart
  BY AloneIsApart
<1> QED
  BY <1>1, AloneAlways, PTL
-----------------------------------------------------------------------------
(* Entries and files, one command at a time.  A recoverer's copies of the  *)
(* entries are then what is on disk, and an entry that says its file was   *)
(* placed has a file that equals the staged one.                           *)

Match(m) == dest[Primary(m)] = staged[Primary(m)] /\ dest[Primary(m)] # "none"
Matching == \A m \in Members : entry[m].state \in PlacedStates => Match(m)

InSync(p) == rpc[p] # "idle" => job[p].snap = entry

Handling(p) ==
  LET f == Primary(Current(p)) IN
  /\ rpc[p] = "copying" => staged[f] # "none" /\ dest[f] \in {"none", staged[f]}
  /\ rpc[p] = "placed" => Match(Current(p))

\* The state of the entry in hand, by what the importer does next
Behind(pc) ==
  CASE pc = "opening-source" -> "pending"
    [] pc \in {"truncate-stage", "fill-stage"} -> IF Kind = "archive" THEN "opening-source" ELSE "staged"
    [] pc = "create-object" -> IF Kind = "archive" THEN "staged" ELSE "opening-source"
    [] pc = "streaming" -> "opening-source"
    [] pc = "staging" -> "streaming"
    [] pc = "staged" -> "staging"
    [] pc = "verifying" -> "copying"
    [] pc \in RecordKinds \cup {"metadata-writing"} -> "verifying"
    [] pc = "completed" -> "metadata-writing"
    [] OTHER -> "staged"
Following(i) == Busy(i) /\ ipc[i] # "pending" => entry[work[i].m].state = Behind(ipc[i])

\* How an entry may change
Moves ==
  \A m \in Members :
    entry'[m].state # entry[m].state =>
      \/ MayMove(entry[m], entry'[m].state)
      \/ entry'[m].state = "pending"

\* A transition of an entry by a recoverer whose copies are up to date
LEMMA MoveInSync ==
  ASSUME Types, NEW p \in Recoverers, job[p].snap = entry, UNCHANGED <<staged, dest>>, Matching,
         NEW m \in Members, NEW state \in States, MoveHeld(p, m, entry[m], state),
         state \in PlacedStates => Match(m)
  PROVE  job'[p].snap = entry' /\ Moves /\ Matching'
<1>1. entry \in [Members -> Entries]
  BY DEF Types, DiskTypeOK
<1> DEFINE e == [entry[m] EXCEPT !.state = state]
<1>2. e.state = state
  BY <1>1 DEF Entries
<1>3. entry' = [entry EXCEPT ![m] = e] /\ job' = [job EXCEPT ![p] = [job[p] EXCEPT !.snap[m] = e]]
  BY DEF MoveHeld, SaveHeld, Remember
<1>4. MayMove(entry[m], state)
  BY DEF MoveHeld
<1> HIDE DEF e
<1>5. job'[p].snap = [job[p].snap EXCEPT ![m] = e]
  BY <1>3, JobIsJob DEF Types, RecoveryTypeOK, Jobs
<1>6. entry'[m].state = state /\ \A n \in Members \ {m} : entry'[n] = entry[n]
  BY <1>1, <1>2, <1>3
<1>7. \A n : Match(n)' <=> Match(n)
  BY DEF Match, Primary
<1> QED
  BY <1>3, <1>4, <1>5, <1>6, <1>7 DEF Moves, Matching

\* What the executor writes, when nobody else is at it
LEMMA ExecutorInSync ==
  ASSUME Types, NEW p \in Recoverers, InSync(p), Handling(p), Matching, job[p].todo \subseteq Listed,
         \/ ResaveEntry(p) \/ MoveEntry(p) \/ RecordHashes(p) \/ MoveRecorded(p)
         \/ DecideToCopy(p) \/ MovePlaced(p) \/ VerifyDestination(p)
  PROVE  job'[p].snap = entry' /\ UNCHANGED dest /\ Moves /\ Matching' /\ Handling(p)'
<1> DEFINE m == Current(p)
<1>1. /\ job[p].snap = entry /\ UNCHANGED <<staged, dest>>
      /\ rpc \in [Recoverers -> RecoveryPcs] /\ job \in [Recoverers -> Jobs]
      /\ entry \in [Members -> Entries]
  BY DEF InSync, ResaveEntry, MoveEntry, RecordHashes, MoveRecorded, DecideToCopy, MovePlaced,
         VerifyDestination, Types, RecoveryTypeOK, DiskTypeOK, diskVars
<1>2. rpc[p] \in ActingPcs => m \in Members /\ Held(p) = entry[m] /\ Held(p) \in Entries
  BY <1>1, CurrentIsMember DEF Types, InHand, Held
<1>3. ASSUME rpc'[p] \notin {"copying", "placed"}
      PROVE  Handling(p)'
  BY <1>3 DEF Handling
<1>4. \A n : Match(n)' <=> Match(n)
  BY <1>1 DEF Match, Primary
<1>5. CASE ResaveEntry(p)
  <2>1. m \in Members /\ Held(p) = entry[m]
    BY <1>1, <1>5, CurrentIsMember DEF ResaveEntry, Held
  <2>2. entry' = entry
    BY <1>1, <1>5, <2>1 DEF ResaveEntry
  <2>3. rpc'[p] = "resaving" /\ job'[p] = [job[p] EXCEPT !.todo = @ \ {m}]
    BY <1>1, <1>5 DEF ResaveEntry, Remember
  <2>4. job'[p].snap = job[p].snap
    BY <2>3, JobIsJob DEF Jobs
  <2> QED
    BY <1>1, <1>3, <1>4, <2>2, <2>3, <2>4 DEF Moves, Matching
<1>6. CASE MoveEntry(p)
  <2>1. /\ rpc[p] \in ActingPcs /\ rpc'[p] = "completing"
        /\ TailTarget(Action(p)) \in States
        /\ MoveHeld(p, m, Held(p), TailTarget(Action(p)))
    BY <1>1, <1>6 DEF MoveEntry, ActingPcs, Goto, TailActions, TailTarget, States, SuccessStates
  <2>2. Held(p).state \in States \cup {"absent"}
    BY <1>2, <2>1 DEF Entries
  <2>3. TailTarget(Action(p)) \in PlacedStates => Held(p).state = "metadata-writing"
    BY <1>6, <2>1, <2>2
    DEF MoveEntry, TailActions, TailTarget, PlacedStates, Action, RecoveryActions, States, MoveHeld, MayMove
  <2>4. TailTarget(Action(p)) \in PlacedStates => Match(m)
    BY <1>2, <2>1, <2>3 DEF Matching, PlacedStates
  <2> HIDE DEF m
  <2> QED
    BY <1>1, <1>2, <1>3, <2>1, <2>4, MoveInSync
<1>7. CASE RecordHashes(p)
  <2> DEFINE e == [Held(p) EXCEPT !.recorded = TRUE]
  <2>1. rpc[p] \in ActingPcs /\ rpc'[p] = "recorded" /\ SaveHeld(p, m, e)
    BY <1>1, <1>7 DEF RecordHashes, ActingPcs, Goto
  <2>2. e.state = entry[m].state
    BY <1>2, <2>1 DEF Entries
  <2> HIDE DEF e, m
  <2>3. entry' = [entry EXCEPT ![m] = e] /\ job' = [job EXCEPT ![p] = [job[p] EXCEPT !.snap[m] = e]]
    BY <2>1 DEF SaveHeld, Remember
  <2>4. job'[p].snap = [job[p].snap EXCEPT ![m] = e]
    BY <1>1, <2>3 DEF Jobs
  <2>5. \A n \in Members : entry'[n].state = entry[n].state
    BY <1>1, <1>2, <2>1, <2>2, <2>3
  <2>6. rpc'[p] \notin {"copying", "placed"}
    BY <2>1
  <2> QED
    BY <1>1, <1>3, <1>4, <2>3, <2>4, <2>5, <2>6 DEF Moves, Matching
<1>8. CASE MoveRecorded(p)
  <2>1. /\ rpc[p] \in ActingPcs /\ rpc'[p] = "completing"
        /\ \E state \in {"ready-to-copy", "staged"} : MoveHeld(p, m, Held(p), state)
    BY <1>1, <1>8 DEF MoveRecorded, ActingPcs, Goto
  <2>2. {"ready-to-copy", "staged"} \subseteq States \ PlacedStates
    BY DEF States, PlacedStates
  <2> HIDE DEF m
  <2> QED
    BY <1>1, <1>2, <1>3, <2>1, <2>2, MoveInSync
<1>9. CASE DecideToCopy(p)
  <2>1. /\ rpc[p] \in ActingPcs /\ rpc'[p] = "copying" /\ UNCHANGED <<job, entry>>
        /\ staged[Primary(m)] # "none"
        /\ Action(p) \in CopyActions
        /\ Action(p) = "copy-from-staging" => dest[Primary(m)] = "none"
    BY <1>1, <1>9 DEF DecideToCopy, ActingPcs, Goto, StagingValid, diskVars
  <2>2. Action(p) = "finalize-temporary-destination" => Match(m)
    <3>1. Held(p).state \in States \cup {"absent"}
      BY <1>2, <2>1 DEF Entries
    <3>2. Action(p) = "finalize-temporary-destination" /\ Held(p).state \in States => Held(p).state = "copying"
      BY DEF Action, RecoveryActions
    <3>3. Held(p).state # "absent"
      BY <1>2, <2>1, CurrentIsMember DEF Listed, Types, InHand
    <3> QED
      BY <1>2, <2>1, <3>1, <3>2, <3>3 DEF Matching, PlacedStates
  <2>3. dest[Primary(m)] \in {"none", staged[Primary(m)]}
    BY <2>1, <2>2 DEF CopyActions, Match
  <2>4. Current(p)' = m
    BY <2>1 DEF Current
  <2>5. Handling(p)'
    BY <1>1, <2>1, <2>3, <2>4 DEF Handling, Primary
  <2> QED
    BY <1>1, <1>4, <2>1, <2>5 DEF Moves, Matching
<1>10. CASE MovePlaced(p)
  <2>1. rpc[p] = "placed" /\ rpc[p] \in ActingPcs /\ Match(m)
    BY <1>10 DEF MovePlaced, ActingPcs, Handling
  <2>2. /\ rpc'[p] \in {"placed", "verifying"}
        /\ \E state \in {"copying", "verifying"} : MoveHeld(p, m, Held(p), state)
    BY <1>1, <1>10, <2>1 DEF MovePlaced, Goto
  <2>3. {"copying", "verifying"} \subseteq States
    BY DEF States
  <2>4. Current(p)' = m
    <3>1. \E n, e : job' = [job EXCEPT ![p] = [job[p] EXCEPT !.snap[n] = e]]
      BY <2>2 DEF MoveHeld, SaveHeld, Remember
    <3>2. job'[p].todo = job[p].todo
      BY <1>1, <3>1 DEF Jobs
    <3> QED
      BY <3>2 DEF Current
  <2>5. Handling(p)'
    BY <1>4, <2>1, <2>2, <2>4 DEF Handling
  <2> HIDE DEF m
  <2> QED
    BY <1>1, <1>2, <2>1, <2>2, <2>3, <2>5, MoveInSync
<1>11. CASE VerifyDestination(p)
  <2>1. rpc[p] \in ActingPcs /\ rpc'[p] = "completing"
    BY <1>1, <1>11 DEF VerifyDestination, ActingPcs, Goto
  <2>2. IF entry[m].state = "verifying" THEN MoveHeld(p, m, entry[m], "metadata-writing")
                                         ELSE UNCHANGED <<entry, job>>
    BY <1>2, <1>11, <2>1 DEF VerifyDestination
  <2>3. entry[m].state = "verifying" => Match(m)
    BY <1>2, <2>1 DEF Matching, PlacedStates
  <2>4. "metadata-writing" \in States
    BY DEF States
  <2>5. Handling(p)'
    BY <1>3, <2>1
  <2> HIDE DEF m
  <2>6. CASE entry[m].state = "verifying"
    BY <1>1, <1>2, <2>1, <2>2, <2>3, <2>4, <2>5, <2>6, MoveInSync
  <2>7. CASE entry[m].state # "verifying"
    BY <1>1, <1>4, <2>2, <2>5, <2>7 DEF Moves, Matching
  <2> QED
    BY <2>6, <2>7
<1> QED
  BY <1>5, <1>6, <1>7, <1>8, <1>9, <1>10, <1>11

\* Plans, executions and commands are about entries that are there.
Known ==
  /\ \A pl \in plans : pl.members \subseteq Listed
  /\ \A x \in Executions : execs[x].plan.members \subseteq Listed
  /\ \A p \in Recoverers : job[p].doc.plan.members \subseteq Listed /\ job[p].todo \subseteq Listed

LEMMA MovesKeepListed ==
  ASSUME DiskTypeOK, Moves
  PROVE  Listed \subseteq Listed'
<1>1. \A s \in States : "absent" \notin ValidTransitions[s]
  BY DEF ValidTransitions
<1> QED
  BY <1>1 DEF Listed, Moves, MayMove

LEMMA CommandsKeepKnown ==
  ASSUME Types, Known, NEW p \in Recoverers, Listed \subseteq Listed',
         \/ Start(p) \/ CreateLock(p) \/ EnterBlock(p) \/ LockRefused(p) \/ ReleaseLock(p)
         \/ Interrupt(p) \/ LockFails(p) \/ Crash(p) \/ EntriesResaved(p) \/ SourceStale(p)
         \/ SaveReport(p) \/ NothingToDo(p) \/ ExecutorRefuses(p) \/ ExecutorFails(p)
         \/ KeepDestination(p)
  PROVE  Known'
<1>1. UNCHANGED <<plans, execs>>
  BY DEF Start, Execute, Resume, CreateLock, EnterBlock, LockRefused, ReleaseLock, Interrupt, LockFails, Crash,
         EntriesResaved, SourceStale, SaveReport, NothingToDo, ExecutorRefuses, ExecutorFails, KeepDestination
<1>2. \A q \in Recoverers \ {p} : job'[q] = job[q]
  BY CommandKeepsEntries
<1>3. job'[p].doc.plan.members \subseteq Listed /\ job'[p].todo \subseteq Listed
  <2>1. CASE \E pl \in plans, x \in Executions : Execute(p, pl, x)
    <3>1. PICK pl \in plans, x \in Executions : job'[p] = Listing(x, NewDocument(pl))
      BY <2>1 DEF Execute, Remember, Types, RecoveryTypeOK
    <3> QED
      BY <3>1 DEF Listing, Listed, NoJob, NewDocument, Known
  <2>2. CASE \E x \in Executions : Resume(p, x)
    <3>1. PICK x \in Executions : job'[p] = Listing(x, execs[x])
      BY <2>2 DEF Resume, Remember, Types, RecoveryTypeOK
    <3> QED
      BY <3>1 DEF Listing, Listed, NoJob, Known
  <2>3. CASE LockRefused(p) \/ ReleaseLock(p) \/ Interrupt(p) \/ LockFails(p) \/ Crash(p)
    <3>1. job'[p] = NoJob
      BY <2>3, LeaveTypes DEF LockRefused, ReleaseLock, Interrupt, LockFails, Crash
    <3> QED
      BY <3>1, NoJobIsJob DEF NoJob, NoDocument, NewDocument, NoPlan
  <2>4. CASE UNCHANGED job
    BY <2>4 DEF Known
  <2> QED
    BY <2>1, <2>2, <2>3, <2>4 DEF Start, CreateLock, EnterBlock, EntriesResaved, SourceStale, SaveReport,
                                  NothingToDo, ExecutorRefuses, ExecutorFails, KeepDestination
<1> QED
  BY <1>1, <1>2, <1>3 DEF Known

LEMMA CheckpointsKeepKnown ==
  ASSUME Types, Known, NEW p \in Recoverers, Listed \subseteq Listed',
         \/ CheckpointValidating(p) \/ CheckpointStale(p) \/ CheckpointRunning(p)
         \/ CheckpointTerminal(p) \/ SkipCompleted(p) \/ CheckpointBlocked(p)
         \/ CheckpointStart(p) \/ CheckpointComplete(p) \/ CheckpointFailure(p)
  PROVE  Known'
<1>1. /\ execs \in [Executions -> Documents] /\ job \in [Recoverers -> Jobs] /\ job[p] \in Jobs
      /\ plans' = plans /\ \A q \in Recoverers \ {p} : job'[q] = job[q]
  BY CheckpointKeepsEntries
  DEF Types, RecoveryTypeOK, CheckpointValidating, CheckpointStale, CheckpointRunning, CheckpointTerminal,
      SkipCompleted, CheckpointBlocked, CheckpointStart, CheckpointComplete, CheckpointFailure
<1>2. ASSUME NEW j, NEW doc, Checkpoint(p, doc, j), doc.plan = job[p].doc.plan, DOMAIN j = DOMAIN job[p],
             j.todo \subseteq Listed
      PROVE  Known'
  <2>1. job'[p] = [j EXCEPT !.doc = doc] /\ execs' = [execs EXCEPT ![j.id] = doc]
    BY <1>1, <1>2 DEF Checkpoint, Remember
  <2>2. job'[p].doc = doc /\ job'[p].todo = j.todo
    BY <1>1, <1>2, <2>1 DEF Jobs
  <2>3. \A x \in Executions : execs'[x] = execs[x] \/ execs'[x] = doc
    BY <1>1, <2>1
  <2> QED
    BY <1>1, <1>2, <2>2, <2>3 DEF Known
<1>3. CASE CheckpointValidating(p) \/ CheckpointStale(p) \/ CheckpointTerminal(p)
  <2>1. \E status : Checkpoint(p, [job[p].doc EXCEPT !.status = status], job[p])
    BY <1>3 DEF CheckpointValidating, CheckpointStale, CheckpointTerminal
  <2>2. \A status : [job[p].doc EXCEPT !.status = status].plan = job[p].doc.plan
    BY <1>1 DEF Jobs, Documents
  <2> QED
    BY <1>2, <2>1, <2>2 DEF Known
<1>4. CASE CheckpointStart(p)
  <2>1. Checkpoint(p, [job[p].doc EXCEPT !.actions[Current(p)] = "running"], job[p])
    BY <1>4 DEF CheckpointStart
  <2>2. [job[p].doc EXCEPT !.actions[Current(p)] = "running"].plan = job[p].doc.plan
    BY <1>1 DEF Jobs, Documents
  <2> QED
    BY <1>2, <2>1, <2>2 DEF Known
<1>5. CASE CheckpointRunning(p)
  <2> DEFINE j == [job[p] EXCEPT !.todo = job[p].doc.plan.members]
             d == [job[p].doc EXCEPT !.status = "running"]
  <2>1. Checkpoint(p, d, j)
    BY <1>5 DEF CheckpointRunning
  <2>2. d.plan = job[p].doc.plan /\ DOMAIN j = DOMAIN job[p] /\ j.todo = job[p].doc.plan.members
    BY <1>1 DEF Jobs, Documents
  <2> HIDE DEF j, d
  <2> QED
    BY <1>2, <2>1, <2>2 DEF Known
<1>6. CASE CheckpointBlocked(p)
  <2> DEFINE j == [Done(p) EXCEPT !.tally = @ \cup {"blocked"}]
             d == [job[p].doc EXCEPT !.actions[Current(p)] = "blocked"]
  <2>1. Checkpoint(p, d, j)
    BY <1>6 DEF CheckpointBlocked
  <2>2. d.plan = job[p].doc.plan /\ DOMAIN j = DOMAIN job[p] /\ j.todo \subseteq job[p].todo
    BY <1>1 DEF Jobs, Documents, Done
  <2> HIDE DEF j, d
  <2> QED
    BY <1>2, <2>1, <2>2 DEF Known
<1>7. CASE CheckpointComplete(p)
  <2> DEFINE j == [Done(p) EXCEPT !.copied = @ \cup {Current(p)}]
             d == [job[p].doc EXCEPT !.actions[Current(p)] = "completed"]
  <2>1. Checkpoint(p, d, j)
    BY <1>7 DEF CheckpointComplete
  <2>2. d.plan = job[p].doc.plan /\ DOMAIN j = DOMAIN job[p] /\ j.todo \subseteq job[p].todo
    BY <1>1 DEF Jobs, Documents, Done
  <2> HIDE DEF j, d
  <2> QED
    BY <1>2, <2>1, <2>2 DEF Known
<1>8. CASE CheckpointFailure(p)
  <2> DEFINE j == [job[p] EXCEPT !.todo = {}, !.tally = @ \cup {"failed"}]
             d == [job[p].doc EXCEPT !.status = "failed", !.actions[Current(p)] = "failed"]
  <2>1. Checkpoint(p, d, j)
    BY <1>8 DEF CheckpointFailure
  <2>2. d.plan = job[p].doc.plan /\ DOMAIN j = DOMAIN job[p] /\ j.todo = {}
    BY <1>1 DEF Jobs, Documents
  <2> HIDE DEF j, d
  <2> QED
    BY <1>2, <2>1, <2>2 DEF Known
<1>9. CASE SkipCompleted(p)
  <2> DEFINE j == [Done(p) EXCEPT !.tally = @ \cup {"skipped"}]
  <2>1. job'[p] = j /\ UNCHANGED execs
    BY <1>1, <1>9 DEF SkipCompleted, Remember
  <2>2. j.doc = job[p].doc /\ j.todo \subseteq job[p].todo
    BY <1>1 DEF Jobs, Done
  <2> HIDE DEF j
  <2> QED
    BY <1>1, <2>1, <2>2 DEF Known
<1> QED
  BY <1>3, <1>4, <1>5, <1>6, <1>7, <1>8, <1>9

LEMMA ExecutorKeepsKnown ==
  ASSUME Types, Known, NEW p \in Recoverers, Listed \subseteq Listed',
         \/ ResaveEntry(p) \/ MoveEntry(p) \/ RecordHashes(p) \/ MoveRecorded(p)
         \/ DecideToCopy(p) \/ PlaceDestination(p) \/ MovePlaced(p) \/ VerifyDestination(p)
  PROVE  Known'
<1>1. UNCHANGED <<plans, execs>> /\ job[p] \in Jobs
  BY JobIsJob DEF ResaveEntry, MoveEntry, RecordHashes, MoveRecorded, DecideToCopy, PlaceDestination, MovePlaced,
         VerifyDestination
<1>2. \/ UNCHANGED job
      \/ \E n, e : job' = [job EXCEPT ![p] = [job[p] EXCEPT !.snap[n] = e]]
      \/ job' = [job EXCEPT ![p] = [job[p] EXCEPT !.todo = @ \ {Current(p)}]]
  BY DEF ResaveEntry, MoveEntry, RecordHashes, MoveRecorded, DecideToCopy, PlaceDestination, MovePlaced,
         VerifyDestination, MoveHeld, SaveHeld, Remember, diskVars
<1>3. job'[p].doc = job[p].doc /\ job'[p].todo \subseteq job[p].todo
  <2>1. CASE UNCHANGED job
    BY <2>1
  <2>2. CASE \E n, e : job' = [job EXCEPT ![p] = [job[p] EXCEPT !.snap[n] = e]]
    <3>1. PICK n, e : job' = [job EXCEPT ![p] = [job[p] EXCEPT !.snap[n] = e]]
      BY <2>2
    <3>2. job'[p] = [job[p] EXCEPT !.snap[n] = e]
      BY <3>1 DEF Types, RecoveryTypeOK
    <3> QED
      BY <1>1, <3>2 DEF Jobs
  <2>3. CASE job' = [job EXCEPT ![p] = [job[p] EXCEPT !.todo = @ \ {Current(p)}]]
    <3>1. job'[p] = [job[p] EXCEPT !.todo = @ \ {Current(p)}]
      BY <2>3 DEF Types, RecoveryTypeOK
    <3> QED
      BY <1>1, <3>1 DEF Jobs
  <2> QED
    BY <1>2, <2>1, <2>2, <2>3
<1>4. \A q \in Recoverers \ {p} : job'[q] = job[q]
  BY <1>2 DEF Types, RecoveryTypeOK
<1> QED
  BY <1>1, <1>3, <1>4 DEF Known

\* An importer walks an entry along the table.
LEMMA FollowingStep ==
  ASSUME ImportTypes, NEW i \in Importers, Following(i),
         TransactionResume(i) \/ PlanExecute(i) \/ Import(i) \/ Stop(i)
  PROVE  Following(i)' /\ Moves
<1>1. /\ ipc \in [Importers -> ImportPcs] /\ work \in [Importers -> Works]
      /\ work[i] \in Works /\ work[i].m \in Members /\ entry \in [Members -> Entries]
  BY WorkIsWork DEF ImportTypes, ImportTypeOK, DiskTypeOK
<1>2. ASSUME UNCHANGED entry
      PROVE  Moves
  BY <1>2 DEF Moves
<1>3. CASE \/ TransactionResume(i) \/ PlanExecute(i) \/ SelectMember(i)
           \/ TargetExists(i) \/ HashMismatch(i) \/ ReplaceFails(i) \/ Finish(i) \/ Stop(i)
  <2>1. ipc'[i] \in {"idle", "select", "pending"} /\ UNCHANGED entry
    BY <1>1, <1>3 DEF TransactionResume, PlanExecute, SelectMember, TargetExists, HashMismatch, ReplaceFails,
                      Finish, Stop, Exit, Turn, diskVars
  <2> QED
    BY <1>2, <2>1 DEF Following, Busy
<1>4. CASE SaveEntry(i)
  <2>1. /\ ipc[i] \in EntrySteps /\ UNCHANGED work /\ ipc'[i] = After(ipc[i])
        /\ entry' = [entry EXCEPT ![work[i].m] = [state |-> ipc[i], recorded |-> FALSE]]
    BY <1>1, <1>4 DEF SaveEntry, Turn
  <2>2. entry'[work[i].m].state = ipc[i] /\ \A n \in Members \ {work[i].m} : entry'[n] = entry[n]
    BY <1>1, <2>1
  <2>3. ipc[i] # "completed" => Behind(After(ipc[i])) = ipc[i]
    BY <2>1, KindAssumption DEF EntrySteps, After, Behind, RecordKinds
  <2>4. ipc[i] = "completed" => After(ipc[i]) = "select"
    BY DEF After
  <2>5. Following(i)'
    BY <2>1, <2>2, <2>3, <2>4 DEF Following, Busy, Behind
  <2>6. ipc[i] # "pending" => entry[work[i].m].state = Behind(ipc[i])
    BY <2>1 DEF Following, Busy, EntrySteps
  <2>7. ipc[i] # "pending" => Behind(ipc[i]) \in States /\ ipc[i] \in ValidTransitions[Behind(ipc[i])]
    BY <2>1 DEF EntrySteps, Behind, ValidTransitions, States, SuccessStates, RecordKinds
  <2>8. Moves
    BY <2>2, <2>6, <2>7 DEF Moves, MayMove
  <2> QED
    BY <2>5, <2>8
<1>5. CASE SaveRecord(i) \/ TruncateStage(i) \/ FillStage(i) \/ CreateObject(i) \/ CheckTarget(i)
           \/ TruncateTemp(i) \/ FillTemp(i) \/ HashTemp(i)
  <2>1. /\ ipc[i] \in RecordKinds \cup {"truncate-stage", "fill-stage", "create-object", "check",
                                        "truncate-temp", "fill-temp", "hash-temp"}
        /\ ipc'[i] = After(ipc[i]) /\ UNCHANGED entry
    BY <1>1, <1>5 DEF SaveRecord, TruncateStage, FillStage, CreateObject, CheckTarget, TruncateTemp, FillTemp,
                      HashTemp, Turn, diskVars
  <2>2. work'[i].m = work[i].m
    <3>1. UNCHANGED work \/ \E c : work'[i] = [work[i] EXCEPT !.want = c]
      BY <1>1, <1>5 DEF SaveRecord, TruncateStage, FillStage, CreateObject, CheckTarget, TruncateTemp, FillTemp,
                        HashTemp
    <3> QED
      BY <1>1, <3>1 DEF Works
  <2>3. Behind(After(ipc[i])) = Behind(ipc[i]) /\ After(ipc[i]) # "pending"
    <3>1. CASE ipc[i] \in RecordKinds
      BY <3>1 DEF After, Behind, RecordKinds
    <3>2. CASE ipc[i] \in {"truncate-stage", "fill-stage", "create-object"}
      BY <3>2, KindAssumption DEF After, Behind, RecordKinds
    <3>3. CASE ipc[i] \in {"check", "truncate-temp", "fill-temp", "hash-temp"}
      BY <3>3, KindAssumption DEF After, Behind, RecordKinds
    <3> QED
      BY <2>1, <3>1, <3>2, <3>3
  <2>4. Busy(i) /\ ipc[i] # "pending"
    BY <2>1 DEF Busy, RecordKinds
  <2> QED
    BY <1>2, <2>1, <2>2, <2>3, <2>4 DEF Following, Behind
<1>6. CASE Replace(i)
  <2>1. ipc[i] = "replace" /\ ipc'[i] \in {After("check"), "copying"} /\ UNCHANGED entry
    BY <1>1, <1>6 DEF Replace, Turn
  <2>2. work'[i].m = work[i].m
    <3>1. UNCHANGED work \/ work'[i] = [work[i] EXCEPT !.part = @ + 1]
      BY <1>1, <1>6 DEF Replace
    <3> QED
      BY <1>1, <3>1 DEF Works
  <2>3. Behind("replace") = "staged" /\ Behind("copying") = "staged" /\ Behind(After("check")) = "staged"
    BY KindAssumption DEF After, Behind, RecordKinds
  <2>4. Busy(i)
    BY <2>1 DEF Busy
  <2> QED
    BY <1>2, <2>1, <2>2, <2>3, <2>4 DEF Following, Behind
<1> QED
  BY <1>3, <1>4, <1>5, <1>6 DEF Import

\* And its entry says no sooner than the file is there that it is.
LEMMA MatchingStep ==
  ASSUME ImportTypes, NEW i \in Importers, Steady(i), Matching,
         TransactionResume(i) \/ PlanExecute(i) \/ Import(i) \/ Stop(i)
  PROVE  Matching'
<1> DEFINE m == work[i].m
<1>1. /\ m \in Members /\ File(i) \in Files /\ File(i) = <<m, work[i].part>>
      /\ \A n \in Members : Primary(n) \in Files /\ (n # m => Primary(n) # Primary(m) /\ Primary(n) # File(i))
  BY WorkIsWork, PartCountAssumption DEF Primary, File, Files
<1>2. /\ staged \in [Files -> Contents] /\ dest \in [Files -> Contents] /\ entry \in [Members -> Entries]
  BY DEF ImportTypes, DiskTypeOK
<1>3. Busy(i) /\ ipc[i] \in FileSteps => entry[m].state \notin PlacedStates
  BY DEF Steady, WalkPcs
<1>4. \A n : Primary(n)' = Primary(n)
  BY DEF Primary
<1> HIDE DEF m
<1>5. CASE SaveEntry(i)
  <2>1. /\ ipc[i] \in EntrySteps /\ UNCHANGED <<staged, dest>> /\ Busy(i)
        /\ entry' = [entry EXCEPT ![m] = [state |-> ipc[i], recorded |-> FALSE]]
    BY <1>5 DEF SaveEntry, EntrySteps, Busy, m
  <2>2. ipc[i] \in PlacedStates => Match(m)
    BY <2>1 DEF Steady, PlacedStates, PlacedPcs, Match, Sound, m
  <2>3. entry'[m].state = ipc[i] /\ \A n \in Members \ {m} : entry'[n] = entry[n]
    BY <1>1, <1>2, <2>1
  <2> QED
    BY <1>4, <2>1, <2>2, <2>3 DEF Matching, Match
<1>6. CASE TruncateStage(i) \/ FillStage(i) \/ Replace(i)
  <2>1. /\ ipc[i] \in FileSteps /\ Busy(i) /\ UNCHANGED entry
        /\ UNCHANGED staged \/ \E c : staged' = [staged EXCEPT ![File(i)] = c]
        /\ UNCHANGED dest \/ \E c : dest' = [dest EXCEPT ![File(i)] = c]
    BY <1>6 DEF TruncateStage, FillStage, Replace, FileSteps, Busy
  <2>2. \A n \in Members \ {m} : staged'[Primary(n)] = staged[Primary(n)]
    BY <1>1, <1>2, <2>1
  <2>3. \A n \in Members \ {m} : dest'[Primary(n)] = dest[Primary(n)]
    BY <1>1, <1>2, <2>1
  <2> QED
    BY <1>3, <1>4, <2>1, <2>2, <2>3 DEF Matching, Match
<1>7. CASE UNCHANGED <<entry, staged, dest>>
  BY <1>4, <1>7 DEF Matching, Match
<1> QED
  BY <1>5, <1>6, <1>7
  DEF TransactionResume, PlanExecute, Import, Stop, SelectMember, CreateObject, CheckTarget, TargetExists,
      TruncateTemp, FillTemp, HashTemp, HashMismatch, ReplaceFails, SaveRecord, Finish, diskVars

\* The inductive invariant of one command at a time
Sole ==
  /\ Matching /\ Known
  /\ \A p \in Recoverers : InSync(p) /\ Handling(p)
  /\ \A i \in Importers : Steady(i) /\ Following(i)

LEMMA SoleImporterStep ==
  ASSUME Composed, Sole, NEW i \in Importers,
         TransactionResume(i) \/ PlanExecute(i) \/ Import(i) \/ Stop(i), UNCHANGED recoveryVars,
         \A j \in Importers \ {i} : ipc'[j] = "idle", \A r \in Recoverers : rpc'[r] = "idle"
  PROVE  Sole' /\ Moves
<1>1. Matching' /\ Steady(i)' /\ Following(i)' /\ Moves
  BY SteadyStep, MatchingStep, FollowingStep DEF Composed, Sole
<1>2. \A j \in Importers \ {i} : Steady(j)' /\ Following(j)'
  BY DEF Steady, Following, Busy
<1>3. \A r \in Recoverers : InSync(r)' /\ Handling(r)'
  BY DEF InSync, Handling
<1>4. Listed \subseteq Listed'
  BY <1>1, MovesKeepListed DEF Composed, ImportTypes
<1>5. Known'
  BY <1>4 DEF Sole, Known, recoveryVars
<1> QED
  BY <1>1, <1>2, <1>3, <1>5 DEF Sole

\* The steps of a recoverer that leave the entries and the files
LEMMA SoleQuietStep ==
  ASSUME Composed, Sole, NEW p \in Recoverers,
         \/ Start(p) \/ CreateLock(p) \/ EnterBlock(p) \/ LockRefused(p) \/ ReleaseLock(p)
         \/ Interrupt(p) \/ LockFails(p) \/ Crash(p) \/ EntriesResaved(p) \/ SourceStale(p)
         \/ SaveReport(p) \/ NothingToDo(p) \/ ExecutorRefuses(p) \/ ExecutorFails(p)
         \/ KeepDestination(p)
         \/ CheckpointValidating(p) \/ CheckpointStale(p) \/ CheckpointRunning(p)
         \/ CheckpointTerminal(p) \/ SkipCompleted(p) \/ CheckpointBlocked(p)
         \/ CheckpointStart(p) \/ CheckpointComplete(p) \/ CheckpointFailure(p)
  PROVE  UNCHANGED <<entry, dest>> /\ Matching' /\ Known' /\ InSync(p)' /\ Handling(p)'
<1>1. /\ UNCHANGED diskVars
      /\ rpc'[p] # "copying" /\ (rpc'[p] = "placed" => KeepDestination(p))
      /\ \/ rpc'[p] = "idle" \/ job'[p].snap = entry
         \/ rpc[p] # "idle" /\ job'[p].snap = job[p].snap
  BY CommandKeepsEntries, CheckpointKeepsEntries DEF Composed
<1>2. UNCHANGED <<entry, staged, dest>> /\ Listed' = Listed /\ \A m : Match(m)' <=> Match(m)
  BY <1>1 DEF diskVars, Listed, Match, Primary
<1>3. Matching'
  BY <1>2 DEF Sole, Matching
<1>4. Known'
  BY <1>2, CommandsKeepKnown, CheckpointsKeepKnown DEF Composed, Sole
<1>5. InSync(p)'
  BY <1>1, <1>2 DEF Sole, InSync
<1>6. Handling(p)'
  <2>1. CASE KeepDestination(p)
    <3>1. Match(Current(p)) /\ UNCHANGED job
      BY <2>1 DEF KeepDestination, StagingValid, Match
    <3>2. Current(p)' = Current(p)
      BY <3>1 DEF Current
    <3> QED
      BY <1>1, <1>2, <3>1, <3>2 DEF Handling
  <2>2. CASE ~KeepDestination(p)
    BY <1>1, <2>2 DEF Handling
  <2> QED
    BY <2>1, <2>2
<1> QED
  BY <1>2, <1>3, <1>4, <1>5, <1>6

LEMMA SolePlacing ==
  ASSUME Composed, Sole, NEW p \in Recoverers, PlaceDestination(p)
  PROVE  /\ UNCHANGED entry /\ Matching' /\ Known' /\ InSync(p)' /\ Handling(p)'
         /\ WrittenOnce /\ (Accompanied => Accompanied')
<1>1. PICK m \in Members : m = Current(p)
  BY CurrentIsMember DEF PlaceDestination, Composed, Types, InHand, ActingPcs
<1>2. /\ dest \in [Files -> Contents] /\ rpc \in [Recoverers -> RecoveryPcs] /\ PartCount \in Nat \ {0}
      /\ \A n \in Members : Primary(n) = <<n, 1>> /\ Primary(n) \in Files
  BY PartCountAssumption DEF Composed, Types, DiskTypeOK, RecoveryTypeOK, Primary, Files
<1>3. /\ dest' = [dest EXCEPT ![Primary(m)] = staged[Primary(m)]] /\ rpc[p] = "copying" /\ rpc'[p] = "placed"
      /\ UNCHANGED <<plans, execs, job, entry, staged>>
  BY <1>1, <1>2 DEF PlaceDestination, Goto
<1>4. staged[Primary(m)] # "none" /\ dest[Primary(m)] \in {"none", staged[Primary(m)]}
  BY <1>1, <1>3 DEF Sole, Handling
<1>5. /\ Current(p)' = m /\ Listed' = Listed
      /\ \A n : Primary(n)' = Primary(n)
  BY <1>1, <1>3 DEF Current, Listed, Primary
<1>6. \A f \in Files : dest'[f] = dest[f] \/ f = Primary(m)
  BY <1>2, <1>3
<1>7. dest'[Primary(m)] = staged[Primary(m)]
  BY <1>1, <1>2, <1>3
<1>8. Match(m)'
  BY <1>3, <1>4, <1>5, <1>7 DEF Match
<1>9. \A n \in Members \ {m} : Match(n) => Match(n)'
  BY <1>1, <1>2, <1>3, <1>5, <1>6 DEF Match
<1>10. Matching'
  BY <1>3, <1>8, <1>9 DEF Sole, Matching
<1>11. Known' /\ InSync(p)'
  BY <1>3, <1>5 DEF Sole, Known, InSync
<1>12. Handling(p)'
  BY <1>3, <1>5, <1>8 DEF Handling
<1>13. WrittenOnce
  BY <1>4, <1>6, <1>7 DEF WrittenOnce
<1>14. Accompanied => Accompanied'
  <2>1. \A n \in Members, k \in 2 .. PartCount : <<n, k>> \in Files /\ <<n, k>> # Primary(m)
    BY <1>1, <1>2 DEF Files
  <2>2. \A n \in Members, k \in 2 .. PartCount : dest'[<<n, k>>] = dest[<<n, k>>]
    BY <1>6, <2>1
  <2>3. \A n \in Members : dest[Primary(n)] # "none" => dest'[Primary(n)] # "none"
    BY <1>2, <1>4, <1>6, <1>7
  <2> QED
    BY <1>5, <2>2, <2>3 DEF Accompanied
<1> QED
  BY <1>3, <1>10, <1>11, <1>12, <1>13, <1>14

LEMMA SoleRecovererStep ==
  ASSUME Composed, Sole, NEW p \in Recoverers,
         Start(p) \/ Proceed(p) \/ Trouble(p), UNCHANGED importVars,
         \A i \in Importers : ipc'[i] = "idle", \A r \in Recoverers \ {p} : rpc'[r] = "idle"
  PROVE  Sole' /\ Moves /\ WrittenOnce /\ (Accompanied => Accompanied')
<1>1. \A i \in Importers : Steady(i)' /\ Following(i)'
  BY DEF Steady, Following, Busy
<1>2. \A r \in Recoverers \ {p} : InSync(r)' /\ Handling(r)'
  BY DEF InSync, Handling
<1>3. ASSUME UNCHANGED dest
      PROVE  WrittenOnce /\ (Accompanied => Accompanied')
  BY <1>3 DEF WrittenOnce, Accompanied, Primary
<1>4. CASE PlaceDestination(p)
  <2>1. Moves
    BY <1>4 DEF PlaceDestination, Moves
  <2> QED
    BY <1>1, <1>2, <1>4, <2>1, SolePlacing DEF Sole
<1>5. CASE \/ ResaveEntry(p) \/ MoveEntry(p) \/ RecordHashes(p) \/ MoveRecorded(p)
           \/ DecideToCopy(p) \/ MovePlaced(p) \/ VerifyDestination(p)
  <2>1. job'[p].snap = entry' /\ UNCHANGED dest /\ Moves /\ Matching' /\ Handling(p)'
    BY <1>5, ExecutorInSync DEF Composed, Sole, Known
  <2>2. Listed \subseteq Listed'
    BY <2>1, MovesKeepListed DEF Composed, ImportTypes
  <2>3. Known'
    BY <1>5, <2>2, ExecutorKeepsKnown DEF Composed, Sole
  <2> QED
    BY <1>1, <1>2, <1>3, <2>1, <2>3 DEF Sole, InSync
<1>6. CASE ~(\/ PlaceDestination(p) \/ ResaveEntry(p) \/ MoveEntry(p) \/ RecordHashes(p) \/ MoveRecorded(p)
             \/ DecideToCopy(p) \/ MovePlaced(p) \/ VerifyDestination(p))
  <2>1. UNCHANGED <<entry, dest>> /\ Matching' /\ Known' /\ InSync(p)' /\ Handling(p)'
    BY <1>6, SoleQuietStep DEF Proceed, Trouble
  <2>2. Moves
    BY <2>1 DEF Moves
  <2> QED
    BY <1>1, <1>2, <1>3, <2>1, <2>2 DEF Sole
<1> QED
  BY <1>4, <1>5, <1>6

LEMMA SoleOutside ==
  ASSUME Composed, Sole, Outside
  PROVE  Sole' /\ Moves
<1>1. UNCHANGED <<entry, staged, dest, importVars, rpc, job>>
  BY OutsideStays
<1>2. /\ Listed' = Listed /\ (\A m : Match(m)' <=> Match(m)) /\ \A p : Current(p)' = Current(p)
      /\ \A n : Primary(n)' = Primary(n)
  BY <1>1 DEF Listed, Match, Primary, Current
<1>3. UNCHANGED execs /\ (UNCHANGED plans \/ plans' = plans \cup {PlanOf(entry)})
  BY DEF Outside, WritePlan, OperatorClearsLock, recoveryVars
<1>4. Known'
  BY <1>1, <1>2, <1>3 DEF Sole, Known, PlanOf, Listed
<1>5. Matching' /\ \A p \in Recoverers : InSync(p)' /\ Handling(p)'
  BY <1>1, <1>2 DEF Sole, Matching, InSync, Handling
<1>6. \A i \in Importers : Steady(i)' /\ Following(i)'
  <2>1. \A i : File(i)' = File(i)
    BY <1>1 DEF File, importVars
  <2> QED
    BY <1>1, <1>2, <2>1 DEF Sole, Steady, Following, Busy, importVars, Behind, StagedPcs
<1>7. Moves
  BY <1>1 DEF Moves
<1> QED
  BY <1>4, <1>5, <1>6, <1>7 DEF Sole

LEMMA SoleStep ==
  ASSUME OneAtATime, Composed, Alone, Sole, [Next]_vars
  PROVE  Sole' /\ Moves
<1>1. ASSUME NEW p, Steps(p)
      PROVE  Sole' /\ Moves
  <2>1. /\ \A i \in Importers \ {p} : ipc'[i] = "idle"
        /\ \A r \in Recoverers \ {p} : rpc'[r] = "idle"
    BY <1>1, AloneMeansOthersIdle
  <2>2. ~(p \in Importers /\ p \in Recoverers)
    BY ProcessesAssumption
  <2> QED
    BY <1>1, <2>1, <2>2, SoleImporterStep, SoleRecovererStep DEF Steps
<1> QED
  BY <1>1, SoleOutside, WhoStepsAlone

LEMMA SoleInit ==
  ASSUME Init
  PROVE  Sole
<1>1. (\A i \in Importers : ipc[i] = "idle") /\ \A p \in Recoverers : rpc[p] = "idle" /\ job[p] = NoJob
  BY DEF Init, ImportInit, RecoveryInit
<1>2. \A x \in Executions : execs[x] = NoDocument
  BY DEF Init, RecoveryInit
<1>3. NoDocument.plan.members = {} /\ NoJob.doc = NoDocument /\ NoJob.todo = {}
  BY DEF NoDocument, NewDocument, NoPlan, NoJob
<1>4. Known
  BY <1>1, <1>2, <1>3 DEF Init, RecoveryInit, Known
<1>5. Matching
  BY DEF Init, DiskInit, Absent, Matching, PlacedStates
<1> QED
  BY <1>1, <1>4, <1>5 DEF Sole, InSync, Handling, Steady, Following, Busy

LEMMA SoleAlways ==
  ASSUME OneAtATime
  PROVE  Spec => [](Composed /\ Alone /\ Sole)
<1>1. Composed /\ Alone /\ Sole /\ [Next]_vars => Sole'
  BY SoleStep
<1>2. Init => Sole
  BY SoleInit
<1> QED
  BY <1>1, <1>2, AloneAlways, PTL DEF Spec

\* When the operator waits for a command to end, crash or not, before starting
\* the next, every change of an entry is one the table allows, or an importer
\* starting it over: recoverers write whole entries back without looking, but
\* what they write is up to date (recovery_workflow.py:302-344,
\* transactions.py:14-39, :110-118).
THEOREM EntriesAlwaysFollowTable ==
  ASSUME OneAtATime
  PROVE  Spec => EntriesFollowTable
<1>1. Composed /\ Alone /\ Sole /\ [Next]_vars => [Moves]_entry
  BY SoleStep
<1> QED
  BY <1>1, SoleAlways, PTL DEF Spec, EntriesFollowTable, Moves

LEMMA SoleUnspoiltStep ==
  ASSUME OneAtATime, Composed, Alone, Sole, Unspoilt, [Next]_vars
  PROVE  Unspoilt' /\ [WrittenOnce]_dest
<1>1. CASE Outside
  <2>1. UNCHANGED <<dest, ipc, work>>
    BY <1>1, OutsideStays DEF importVars
  <2> QED
    BY <2>1 DEF Unspoilt, Free, Accompanied, FreePcs, Primary
<1>2. ASSUME NEW p, Steps(p)
      PROVE  Unspoilt' /\ WrittenOnce
  <2>1. /\ \A i \in Importers \ {p} : ipc'[i] = "idle"
        /\ \A r \in Recoverers \ {p} : rpc'[r] = "idle"
    BY <1>2, AloneMeansOthersIdle
  <2>2. \A i \in Importers : ipc'[i] = "idle" => Free(i)'
    BY DEF Free, FreePcs
  <2>3. CASE p \in Importers /\ (TransactionResume(p) \/ PlanExecute(p) \/ Import(p) \/ Stop(p))
    <3>1. Free(p)' /\ Accompanied' /\ WrittenOnce
      BY <2>3, FreeStep DEF Composed, Sole, Unspoilt
    <3> QED
      BY <2>1, <2>2, <3>1 DEF Unspoilt
  <2>4. CASE /\ p \in Recoverers /\ (Start(p) \/ Proceed(p) \/ Trouble(p))
             /\ UNCHANGED importVars
    <3>1. p \notin Importers
      BY <2>4, ProcessesAssumption
    <3>2. WrittenOnce /\ Accompanied'
      BY <2>1, <2>4, <3>1, SoleRecovererStep DEF Unspoilt
    <3> QED
      BY <2>1, <2>2, <3>1, <3>2 DEF Unspoilt
  <2> QED
    BY <1>2, <2>3, <2>4 DEF Steps
<1> QED
  BY <1>1, <1>2, WhoStepsAlone

\* And nothing in the collection is replaced with different content, by an
\* import or a recovery, first or repeated, in a collection without stray
\* sidecars (importer.py:169-201, recovery.py:69-82).
THEOREM NothingIsWrittenTwice ==
  ASSUME OneAtATime
  PROVE  Spec /\ FreeSidecars => DestinationWriteOnce
<1>1. Init /\ FreeSidecars => Unspoilt
  <2> SUFFICES ASSUME Init, FreeSidecars PROVE Unspoilt
    OBVIOUS
  <2>1. \A i \in Importers : ipc[i] = "idle"
    BY DEF Init, ImportInit
  <2> QED
    BY <2>1 DEF FreeSidecars, Unspoilt, Free, FreePcs, Accompanied
<1>2. Composed /\ Alone /\ Sole /\ Unspoilt /\ [Next]_vars => Unspoilt' /\ [WrittenOnce]_dest
  BY SoleUnspoiltStep
<1> QED
  BY <1>1, <1>2, SoleAlways, PTL DEF Spec, DestinationWriteOnce, WrittenOnce
=============================================================================
