------------------------- MODULE MCRecoveryWorkflow -------------------------
(* Small instances of RecoveryWorkflow for TLC. *)
EXTENDS RecoveryWorkflow

\* For the races between processes one kind of disk is enough: a member the
\* importer staged and did not place, its destination free or taken.
StagedMember ==
  /\ RecoveryStart
  /\ \A m \in Members : entry[m].state = "staged"
  /\ \A f \in Files : staged[f] = "whole" /\ dest[f] \in {"none", "other"}
RaceSpec == StagedMember /\ [][RecoveryStep]_<<diskVars, recoveryVars>>
FairRaceSpec == RaceSpec /\ Fairness

\* What one importer leaves of a source that has not changed: no torn file under
\* a collection name, nothing staged but what the source holds
OneImporterWas ==
  /\ RecoveryStart
  /\ \A f \in Files : dest[f] # "torn" /\ staged[f] # "other"
PromiseSpec == OneImporterWas /\ [][RecoveryStep]_<<diskVars, recoveryVars>>

NoDependencies == [m \in Members |-> {}]

\* An action that waits for a later one: the first run blocks it, a resume
\* runs it.
ForwardDependency == [m \in Members |-> {n \in Members : n > m}]
=============================================================================
