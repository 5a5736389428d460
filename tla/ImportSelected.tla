--------------------------- MODULE ImportSelected ---------------------------
(***************************************************************************)
(* import_selected of importer.py, as transaction-resume and plan-execute  *)
(* run it: member by member, an entry document is walked through its       *)
(* states while the files are staged, copied under a temporary name,       *)
(* hashed, renamed into the collection, and recorded as preserved.         *)
(*                                                                         *)
(* An importer is one command line process; each durable write is an       *)
(* action.  The temporary name does not name the process, so importers of  *)
(* one collection share it.                                                *)
(***************************************************************************)
EXTENDS TransactionStore

CONSTANTS
  Importers,  \* import command processes
  Kind,       \* "directory": files are read where they are; "archive": streamed out
  Command     \* "transaction-resume" or "plan-execute"

ASSUME KindAssumption == Kind \in {"directory", "archive"}
\* an empty selection has no entries and no files to say anything about
ASSUME MembersAssumption == Members # {}
ASSUME CommandAssumption == Command \in {"transaction-resume", "plan-execute"}
\* an archive member is streamed out on its own, its sidecars are not
ASSUME ArchiveAssumption == Kind = "archive" => PartCount = 1

VARIABLES
  temp,     \* contents of each destination's .amigalab-partial file
  records,  \* canonical records each member has
  phase,    \* phase of the transaction document
  ipc,      \* what each importer does next
  work      \* its memory

importVars == <<temp, records, phase, ipc, work>>

RecordKinds == {"import-event", "object", "verification", "relationship"}

EntrySteps == {"pending", "opening-source", "streaming", "staging", "staged",
               "copying", "verifying", "metadata-writing", "completed"}
FileSteps == {"truncate-stage", "fill-stage", "truncate-temp", "fill-temp", "hash-temp", "replace"}
ImportPcs == {"idle", "select", "create-object", "check"} \cup EntrySteps \cup FileSteps \cup RecordKinds

Works ==
  [todo : SUBSET Members,   \* selected members not finished
   m    : Members,          \* the member in hand
   part : 1 .. PartCount,   \* and its file in hand
   want : Contents]         \* what create_object hashed

NoWork == [todo |-> {}, m |-> CHOOSE m \in Members : TRUE, part |-> 1, want |-> "none"]

ImportTypeOK ==
  /\ temp \in [Files -> Contents]
  /\ records \in [Members -> SUBSET RecordKinds]
  /\ phase \in {"planned", "completed"}
  /\ ipc \in [Importers -> ImportPcs]
  /\ work \in [Importers -> Works]

ImportInit ==
  /\ temp = [f \in Files |-> "none"]
  /\ records = [m \in Members |-> {}]
  /\ phase = "planned"
  /\ ipc = [i \in Importers |-> "idle"]
  /\ work = [i \in Importers |-> NoWork]

-----------------------------------------------------------------------------
Turn(i, pc) == ipc' = [ipc EXCEPT ![i] = pc]
File(i) == <<work[i].m, work[i].part>>
Exit(i) == Turn(i, "idle") /\ work' = [work EXCEPT ![i] = NoWork]

\* What a copy of the source yields now
SourceContents == IF source = "fresh" THEN "whole" ELSE "other"

\* Where the walk goes after a step; archives are streamed into staging before
\* the entry is called streaming, directories are staged once it is staged.
After(pc) ==
  CASE pc = "pending"          -> "opening-source"
    [] pc = "opening-source"   -> IF Kind = "archive" THEN "truncate-stage" ELSE "create-object"
    [] pc = "truncate-stage"   -> "fill-stage"
    [] pc = "fill-stage"       -> IF Kind = "archive" THEN "streaming" ELSE "truncate-temp"
    [] pc = "streaming"        -> "staging"
    [] pc = "staging"          -> "staged"
    [] pc = "staged"           -> IF Kind = "archive" THEN "create-object" ELSE "check"
    [] pc = "create-object"    -> IF Kind = "archive" THEN "check" ELSE "streaming"
    [] pc = "check"            -> IF Kind = "archive" THEN "truncate-temp" ELSE "truncate-stage"
    [] pc = "truncate-temp"    -> "fill-temp"
    [] pc = "fill-temp"        -> "hash-temp"
    [] pc = "hash-temp"        -> "replace"
    [] pc = "copying"          -> "verifying"
    [] pc = "verifying"        -> "import-event"
    [] pc = "import-event"     -> "object"
    [] pc = "object"           -> "verification"
    [] pc = "verification"     -> IF Kind = "archive" THEN "relationship" ELSE "metadata-writing"
    [] pc = "relationship"     -> "metadata-writing"
    [] pc = "metadata-writing" -> "completed"
    [] OTHER                   -> "select"

\* source_fingerprint covers the files below a directory: of an archive, none
SourceUnchanged == Kind = "directory" => source = "fresh"

\* transaction-resume selects the entries that are not successful, or, when
\* there is none, every pending member; a changed source is refused.
TransactionResume(i) ==
  LET unfinished == {m \in Listed : entry[m].state \notin SuccessStates} IN
  /\ Command = "transaction-resume"
  /\ ipc[i] = "idle"
  /\ SourceUnchanged
  /\ work' = [work EXCEPT ![i].todo = IF unfinished # {} THEN unfinished ELSE Members]
  /\ Turn(i, "select")
  /\ UNCHANGED <<temp, records, phase, diskVars>>

\* plan-execute imports every path of an approved plan, however often it runs.
PlanExecute(i) ==
  /\ Command = "plan-execute"
  /\ ipc[i] = "idle"
  /\ SourceUnchanged
  /\ work' = [work EXCEPT ![i].todo = Members]
  /\ Turn(i, "select")
  /\ UNCHANGED <<temp, records, phase, diskVars>>

\* Entries are listed by the hash in their name: any order of members.
SelectMember(i) ==
  /\ ipc[i] = "select"
  /\ \E m \in work[i].todo :
       work' = [work EXCEPT ![i] = [todo |-> @.todo \ {m}, m |-> m, part |-> 1, want |-> "none"]]
  /\ Turn(i, "pending")
  /\ UNCHANGED <<temp, records, phase, diskVars>>

\* save_entry of a new document, then one transition per state
SaveEntry(i) ==
  LET m == work[i].m
      state == ipc[i]
  IN
  /\ state \in EntrySteps
  /\ entry' = [entry EXCEPT ![m] = [state |-> state, recorded |-> FALSE]]
  /\ Turn(i, After(state))
  /\ UNCHANGED <<temp, records, phase, work, staged, dest, source>>

TruncateStage(i) ==
  /\ ipc[i] = "truncate-stage"
  /\ staged' = [staged EXCEPT ![File(i)] = "torn"]
  /\ Turn(i, After(ipc[i]))
  /\ UNCHANGED <<temp, records, phase, work, entry, dest, source>>

FillStage(i) ==
  /\ ipc[i] = "fill-stage"
  /\ staged' = [staged EXCEPT ![File(i)] = SourceContents]
  /\ Turn(i, After(ipc[i]))
  /\ UNCHANGED <<temp, records, phase, work, entry, dest, source>>

\* create_object hashes the files it will copy: an archive's from staging
CreateObject(i) ==
  /\ ipc[i] = "create-object"
  /\ work' = [work EXCEPT ![i].want =
                IF Kind = "archive" THEN staged[Primary(work[i].m)] ELSE SourceContents]
  /\ Turn(i, After(ipc[i]))
  /\ UNCHANGED <<temp, records, phase, diskVars>>

\* mutant: an existing target is not looked for
CheckNothing(i) ==
  /\ ipc[i] = "check"
  /\ Turn(i, After(ipc[i]))
  /\ UNCHANGED <<temp, records, phase, work, diskVars>>

CheckTarget(i) ==
  /\ ipc[i] = "check"
  /\ dest[Primary(work[i].m)] = "none"
  /\ Turn(i, After(ipc[i]))
  /\ UNCHANGED <<temp, records, phase, work, diskVars>>

\* The branch for an existing target names preserved_file, which the module
\* does not import: whatever the target holds, the command dies there.
TargetExists(i) ==
  /\ ipc[i] = "check"
  /\ dest[Primary(work[i].m)] # "none"
  /\ Exit(i)
  /\ UNCHANGED <<temp, records, phase, diskVars>>

\* mutant: copied in place, without a temporary name
TruncateDestination(i) ==
  /\ ipc[i] = "truncate-temp"
  /\ temp' = [temp EXCEPT ![File(i)] = "torn"]
  /\ dest' = [dest EXCEPT ![File(i)] = "torn"]
  /\ Turn(i, After(ipc[i]))
  /\ UNCHANGED <<records, phase, work, entry, staged, source>>

TruncateTemp(i) ==
  /\ ipc[i] = "truncate-temp"
  /\ temp' = [temp EXCEPT ![File(i)] = "torn"]
  /\ Turn(i, After(ipc[i]))
  /\ UNCHANGED <<records, phase, work, diskVars>>

FillTemp(i) ==
  /\ ipc[i] = "fill-temp"
  /\ temp' = [temp EXCEPT ![File(i)] = staged[File(i)]]
  /\ Turn(i, After(ipc[i]))
  /\ UNCHANGED <<records, phase, work, diskVars>>

\* mutant: the entry is called copying before the rename
HashAndForget(i) ==
  /\ ipc[i] = "hash-temp"
  /\ temp[File(i)] = work[i].want
  /\ Turn(i, "copying")
  /\ UNCHANGED <<temp, records, phase, work, diskVars>>

HashTemp(i) ==
  /\ ipc[i] = "hash-temp"
  /\ temp[File(i)] = work[i].want
  /\ Turn(i, After(ipc[i]))
  /\ UNCHANGED <<temp, records, phase, work, diskVars>>

HashMismatch(i) ==
  /\ ipc[i] = "hash-temp"
  /\ temp[File(i)] # work[i].want
  /\ temp' = [temp EXCEPT ![File(i)] = "none"]
  /\ Exit(i)
  /\ UNCHANGED <<records, phase, diskVars>>

\* mutants: the sidecars are left out; one file too many
NoMoreParts(i) == FALSE
OnePartMore(i) == work[i].part <= PartCount

MoreParts(i) == work[i].part < PartCount

\* os.replace, then the next file of the object or the entry's next state
Replace(i) ==
  /\ ipc[i] = "replace"
  /\ temp[File(i)] # "none"
  /\ dest' = [dest EXCEPT ![File(i)] = temp[File(i)]]
  /\ temp' = [temp EXCEPT ![File(i)] = "none"]
  /\ IF MoreParts(i)
       THEN /\ work' = [work EXCEPT ![i].part = @ + 1]
            /\ Turn(i, After("check"))
       ELSE /\ UNCHANGED work
            /\ Turn(i, "copying")
  /\ UNCHANGED <<records, phase, entry, staged, source>>

\* Another importer renamed or removed the temporary file first.
ReplaceFails(i) ==
  /\ ipc[i] = "replace"
  /\ temp[File(i)] = "none"
  /\ Exit(i)
  /\ UNCHANGED <<temp, records, phase, diskVars>>

\* mutant: an archive member's relationship to its medium is not recorded
SaveRecordButRelationship(i) ==
  /\ ipc[i] \in RecordKinds
  /\ records' = [records EXCEPT ![work[i].m] = @ \cup {ipc[i]}]
  /\ Turn(i, IF ipc[i] = "verification" THEN "metadata-writing" ELSE After(ipc[i]))
  /\ UNCHANGED <<temp, phase, work, diskVars>>

SaveRecord(i) ==
  /\ ipc[i] \in RecordKinds
  /\ records' = [records EXCEPT ![work[i].m] = @ \cup {ipc[i]}]
  /\ Turn(i, After(ipc[i]))
  /\ UNCHANGED <<temp, phase, work, diskVars>>

\* transaction-resume declares the transaction completed; plan-execute does so
\* with a document of its own that has no entries.
Finish(i) ==
  /\ ipc[i] = "select"
  /\ work[i].todo = {}
  /\ phase' = IF Command = "transaction-resume" THEN "completed" ELSE phase
  /\ Exit(i)
  /\ UNCHANGED <<temp, records, diskVars>>

\* Killed, interrupted, or stopped by an OSError: what is on disk stays.
Stop(i) ==
  /\ ipc[i] # "idle"
  /\ Exit(i)
  /\ UNCHANGED <<temp, records, phase, diskVars>>

Import(i) ==
  \/ SelectMember(i) \/ SaveEntry(i) \/ TruncateStage(i) \/ FillStage(i)
  \/ CreateObject(i) \/ CheckTarget(i) \/ TargetExists(i)
  \/ TruncateTemp(i) \/ FillTemp(i) \/ HashTemp(i) \/ HashMismatch(i)
  \/ Replace(i) \/ ReplaceFails(i) \/ SaveRecord(i) \/ Finish(i)

ImportNext ==
  \E i \in Importers : TransactionResume(i) \/ PlanExecute(i) \/ Import(i) \/ Stop(i)

\* The importers on their own
ImportStart == DiskInit /\ ImportInit
ImportStep == ImportNext \/ (SourceChanges /\ UNCHANGED importVars)
ImportSpec == ImportStart /\ [][ImportStep]_<<diskVars, importVars>>

\* The collection may hold a file where a primary file goes, and none where a
\* sidecar goes: the importer replaces the latter without a look.
FreeSidecars ==
  ImportStart /\ \A m \in Members, k \in 2 .. PartCount : dest[<<m, k>>] = "none"
FreeSidecarSpec == FreeSidecars /\ [][ImportStep]_<<diskVars, importVars>>

-----------------------------------------------------------------------------
(* Properties of the importers *)

\* A file cut short never gets a collection name, whenever the copy stops.
NoTornContent == \A f \in Files : dest[f] # "torn"

\* An entry is called completed after every file of the object is in place
\* and every record of it is written.
RecordsNeeded == RecordKinds \ (IF Kind = "archive" THEN {} ELSE {"relationship"})
CompletedIsPreserved ==
  \A m \in Members : entry[m].state = "completed" =>
    /\ RecordsNeeded \subseteq records[m]
    /\ \A k \in 1 .. PartCount : dest[<<m, k>>] # "none"

\* Once a file is in the collection no later import, recovery, crash or retry
\* replaces it with different content.
DestinationWriteOnce ==
  [][\A f \in Files : dest[f] # "none" => dest'[f] = dest[f]]_dest

\* Having looked for the file at its destination and found none
Looked(i, f) ==
  /\ work[i].m = f[1]
  /\ ipc[i] \in {"truncate-stage", "fill-stage", "truncate-temp", "fill-temp", "hash-temp", "replace"}

\* A file that is in the collection while no importer already counts on its
\* place being free stays as it is for ever, however many importers race.
SettledFilesStay ==
  \A m \in Members, c \in Contents \ {"none"} :
    [](dest[Primary(m)] = c /\ (\A i \in Importers : ~Looked(i, Primary(m)))
         => [](dest[Primary(m)] = c))

\* The transaction is called completed when every pending member was imported.
CompletedTransactionIsComplete ==
  phase = "completed" => \A m \in Members : entry[m].state \in SuccessStates
=============================================================================
