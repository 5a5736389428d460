-------------------------- MODULE TransactionStore --------------------------
(***************************************************************************)
(* The disk an import transaction lives on, shared by the importer that    *)
(* fills it (ImportSelected) and the recovery workflow that repairs it     *)
(* (RecoveryWorkflow): one JSON document per transaction entry, the        *)
(* staging area and the destination collection.  Also the two tables of    *)
(* scripts/preservation/transactions.py every writer consults: which state *)
(* changes an entry may make and what recovery does in each state.         *)
(*                                                                         *)
(* File contents are abstracted to what the code can tell apart: absent    *)
(* ("none"), cut short by a crash ("torn"), equal to the source ("whole")  *)
(* or something else ("other").                                            *)
(***************************************************************************)
EXTENDS Naturals, FiniteSets

CONSTANTS
  Members,   \* selected source members
  PartCount  \* files of one logical object: 1, or 2 with a sidecar

ASSUME PartCountAssumption == PartCount \in Nat \ {0}

VARIABLES
  entry,   \* entry document of each member, as it is on disk
  staged,  \* contents of each file in the staging area
  dest,    \* contents of each file in the collection
  source   \* "fresh", or "changed" since the transaction was scanned

diskVars == <<entry, staged, dest, source>>

Files == Members \X (1 .. PartCount)
Primary(m) == <<m, 1>>  \* the file an entry's target_path names

Contents == {"none", "torn", "whole", "other"}

-----------------------------------------------------------------------------
(* Entry states *)

SuccessStates == {"completed", "reused", "skipped"}

States == SuccessStates \cup
  {"pending", "opening-source", "streaming", "staging", "staged", "hashing",
   "ready-to-copy", "copying", "verifying", "metadata-writing",
   "provenance-only", "blocked", "failed"}

ValidTransitions ==
  [s \in States |->
    CASE s = "pending"          -> {"opening-source", "reused", "provenance-only",
                                    "skipped", "blocked", "failed"}
      [] s = "opening-source"   -> {"streaming", "failed"}
      [] s = "streaming"        -> {"staging", "failed"}
      [] s = "staging"          -> {"staged", "failed"}
      [] s = "staged"           -> {"hashing", "copying", "failed"}
      [] s = "hashing"          -> {"ready-to-copy", "failed"}
      [] s = "ready-to-copy"    -> {"copying", "failed"}
      [] s = "copying"          -> {"verifying", "failed"}
      [] s = "verifying"        -> {"metadata-writing", "completed", "reused", "failed"}
      [] s = "metadata-writing" -> {"completed", "failed"}
      [] s = "blocked"          -> {"pending", "failed"}
      [] s = "failed"           -> {"pending", "opening-source"}
      [] OTHER                  -> {}]

RecoveryActions ==
  [s \in States |->
    CASE s = "pending"                                      -> "start-entry"
      [] s \in {"opening-source", "streaming", "failed"}    -> "restart-stream"
      [] s = "staging"                                      -> "validate-staging"
      [] s \in {"staged", "ready-to-copy"}                  -> "copy-from-staging"
      [] s = "hashing"                                      -> "rehash-staging"
      [] s = "copying"                                      -> "finalize-temporary-destination"
      [] s = "verifying"                                    -> "verify-destination"
      [] s = "metadata-writing"                             -> "complete-metadata"
      [] s = "provenance-only"                              -> "complete-provenance"
      [] s = "blocked"                                      -> "wait-for-conflict"
      [] OTHER                                              -> "skip-completed"]

\* `recorded` says that observed_hashes was saved.  Reloaded from JSON it is a
\* dict, and a dict never equals the Hashes that hash_file returns.
Entries == [state : States \cup {"absent"}, recorded : BOOLEAN]
Absent == [state |-> "absent", recorded |-> FALSE]

Listed == {m \in Members : entry[m].state # "absent"}

\* transition refuses a change the table does not allow
MayMove(e, new) == e.state \in States /\ new \in ValidTransitions[e.state]

-----------------------------------------------------------------------------
DiskTypeOK ==
  /\ entry \in [Members -> Entries]
  /\ staged \in [Files -> Contents]
  /\ dest \in [Files -> Contents]
  /\ source \in {"fresh", "changed"}

\* Before the first command on the transaction: nothing is staged, and a
\* destination may already hold the same file or another one.
DiskInit ==
  /\ entry = [m \in Members |-> Absent]
  /\ staged = [f \in Files |-> "none"]
  /\ dest \in [Files -> {"none", "whole", "other"}]
  /\ source = "fresh"

\* The states in which the file has already been renamed into the collection
PlacedStates == {"copying", "verifying", "metadata-writing", "completed"}
ImportStates == PlacedStates \cup
  {"absent", "pending", "opening-source", "streaming", "staging", "staged"}

\* What an importer that stopped at any point leaves for a recovery to find:
\* ImportSelected guarantees it, RecoveryWorkflow starts from it.
AfterImport ==
  \A m \in Members :
    LET f == Primary(m) IN
    /\ entry[m].state \in ImportStates /\ ~entry[m].recorded
    /\ entry[m].state = "absent" => staged[f] = "none"
    /\ entry[m].state \in PlacedStates => dest[f] = staged[f] /\ dest[f] \notin {"none", "torn"}

\* The source tree changes after the transaction was scanned.
SourceChanges ==
  /\ source = "fresh"
  /\ source' = "changed"
  /\ UNCHANGED <<entry, staged, dest>>
=============================================================================
