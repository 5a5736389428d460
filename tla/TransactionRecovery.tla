------------------------ MODULE TransactionRecovery ------------------------
(***************************************************************************)
(* One transaction over a directory source from its first import to its    *)
(* last recovery: importers running transaction-resume and recoverers      *)
(* running recovery-execute and recovery-resume on the same disk.  The     *)
(* plan lock keeps recoverers of one plan apart and nothing keeps an       *)
(* importer and a recoverer apart, so OneAtATime says whether the operator *)
(* waits for a command to end before starting the next.                    *)
(***************************************************************************)
EXTENDS ImportSelected, RecoveryWorkflow

CONSTANT OneAtATime
ASSUME OneAtATimeAssumption == OneAtATime \in BOOLEAN
\* a process runs one command
ASSUME ProcessesAssumption == Importers \cap Recoverers = {}

vars == <<diskVars, importVars, recoveryVars>>

Running ==
  {p \in Recoverers : rpc[p] # "idle"} \cup {i \in Importers : ipc[i] # "idle"}

Init == DiskInit /\ ImportInit /\ RecoveryInit

Next ==
  /\ \/ ImportNext /\ UNCHANGED recoveryVars
     \/ RecoveryNext /\ UNCHANGED importVars
     \/ SourceChanges /\ UNCHANGED <<importVars, recoveryVars>>
  /\ OneAtATime => Cardinality(Running') <= 1

Spec == Init /\ [][Next]_vars

TypeOK == DiskTypeOK /\ ImportTypeOK /\ RecoveryTypeOK

-----------------------------------------------------------------------------
(* Properties.  DestinationWriteOnce, CompletedEntryIsPlaced and the others of *)
(* ImportSelected and RecoveryWorkflow are checked here too, on the composed   *)
(* system.                                                                     *)

\* Whoever writes, an entry document changes along the transition table, or is
\* started over by an importer.
EntriesFollowTable ==
  [][\A m \in Members :
       entry'[m].state # entry[m].state =>
         \/ MayMove(entry[m], entry'[m].state)
         \/ entry'[m].state = "pending"]_entry
=============================================================================
