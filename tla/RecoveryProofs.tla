--------------------------- MODULE RecoveryProofs ---------------------------
(***************************************************************************)
(* What holds of the recovery workflow for every set of members, processes *)
(* and execution ids: its types, the exclusion its plan lock gives, who    *)
(* can orphan a lock, and that completed entries have their file; for      *)
(* commands at executions of their own, also the promise of                *)
(* CheckpointedExecution.                                                  *)
(***************************************************************************)
EXTENDS RecoveryWorkflow, TLAPS

ActingPcs == {"acting", "recorded", "copying", "placed", "verifying", "completing", "failing"}

\* While an action is in hand, the list of actions is not empty.
InHand == \A p \in Recoverers : rpc[p] \in ActingPcs => job[p].todo # {}

Types == DiskTypeOK /\ RecoveryTypeOK /\ InHand

\* The member whose action is in hand
LEMMA CurrentIsMember ==
  ASSUME Types, NEW p \in Recoverers, job[p].todo # {}
  PROVE  Current(p) \in Members /\ Current(p) \in job[p].todo
<1>1. Current(p) \in job[p].todo
  BY DEF Current
<1>2. job[p].todo \subseteq Members
  BY DEF Types, RecoveryTypeOK, Jobs
<1> QED
  BY <1>1, <1>2

LEMMA HeldIsEntry ==
  ASSUME Types, NEW p \in Recoverers, job[p].todo # {}
  PROVE  Held(p) \in Entries
BY CurrentIsMember DEF Held, Types, RecoveryTypeOK, Jobs

LEMMA JobIsJob ==
  ASSUME Types, NEW p \in Recoverers
  PROVE  job[p] \in Jobs /\ job[p].doc \in Documents
BY DEF Types, RecoveryTypeOK, Jobs

\* Where a process goes and what it keeps in memory
LEMMA GotoTypes ==
  ASSUME Types, NEW p \in Recoverers, NEW pc \in RecoveryPcs, Goto(p, pc)
  PROVE  /\ rpc' \in [Recoverers -> RecoveryPcs]
         /\ rpc'[p] = pc
         /\ \A q \in Recoverers \ {p} : rpc'[q] = rpc[q]
BY DEF Types, RecoveryTypeOK, Goto

LEMMA RememberTypes ==
  ASSUME Types, NEW p \in Recoverers, NEW j \in Jobs, Remember(p, j)
  PROVE  /\ job' \in [Recoverers -> Jobs]
         /\ job'[p] = j
         /\ \A q \in Recoverers \ {p} : job'[q] = job[q]
BY DEF Types, RecoveryTypeOK, Remember

LEMMA CheckpointTypes ==
  ASSUME Types, NEW p \in Recoverers, NEW doc \in Documents, NEW j \in Jobs,
         Checkpoint(p, doc, j)
  PROVE  /\ execs' \in [Executions -> Documents]
         /\ job' \in [Recoverers -> Jobs]
         /\ job'[p] = [j EXCEPT !.doc = doc]
         /\ \A q \in Recoverers \ {p} : job'[q] = job[q]
<1>1. execs' \in [Executions -> Documents]
  BY DEF Types, RecoveryTypeOK, Checkpoint
<1>2. [j EXCEPT !.doc = doc] \in Jobs
  BY DEF Jobs
<1> QED
  BY <1>1, <1>2, RememberTypes DEF Checkpoint

LEMMA SaveHeldTypes ==
  ASSUME Types, NEW p \in Recoverers, NEW m \in Members, NEW e \in Entries, SaveHeld(p, m, e)
  PROVE  /\ entry' \in [Members -> Entries]
         /\ job' \in [Recoverers -> Jobs]
         /\ job'[p] = [job[p] EXCEPT !.snap[m] = e]
         /\ \A q \in Recoverers \ {p} : job'[q] = job[q]
<1>1. entry' \in [Members -> Entries]
  BY DEF Types, DiskTypeOK, SaveHeld
<1>2. [job[p] EXCEPT !.snap[m] = e] \in Jobs
  BY JobIsJob DEF Jobs
<1> QED
  BY <1>1, <1>2, RememberTypes DEF SaveHeld

\* A change of state the table allows leads to a state.
LEMMA MoveIsEntry ==
  ASSUME NEW e \in Entries, NEW state, MayMove(e, state)
  PROVE  [e EXCEPT !.state = state] \in Entries
<1>1. state \in ValidTransitions[e.state] /\ e.state \in States
  BY DEF MayMove
<1>2. ValidTransitions[e.state] \subseteq States
  BY <1>1 DEF ValidTransitions, States, SuccessStates
<1> QED
  BY <1>1, <1>2 DEF Entries

LEMMA NoJobIsJob == NoJob \in Jobs /\ NoJob.doc = NoDocument
BY DEF NoJob, Jobs, NoDocument, NewDocument, NoPlan, Plans, Documents, Statuses,
       FinishedStatuses, ActionStatuses, Absent, Entries

\* A step of one process keeps the types when what it changes has its type.
LEMMA TypesKept ==
  ASSUME Types, NEW p \in Recoverers,
         DiskTypeOK', plans' \subseteq Plans, lock' \subseteq Plans,
         execs' \in [Executions -> Documents], reports' \in [Executions -> Reports],
         rpc' \in [Recoverers -> RecoveryPcs], job' \in [Recoverers -> Jobs],
         \A q \in Recoverers \ {p} : rpc'[q] = rpc[q] /\ job'[q] = job[q],
         rpc'[p] \in ActingPcs => job'[p].todo # {}
  PROVE  Types'
BY DEF Types, RecoveryTypeOK, InHand

LEMMA LeaveTypes ==
  ASSUME Types, NEW p \in Recoverers, Leave(p)
  PROVE  /\ rpc' \in [Recoverers -> RecoveryPcs] /\ rpc'[p] = "idle"
         /\ job' \in [Recoverers -> Jobs] /\ job'[p] = NoJob
         /\ \A q \in Recoverers \ {p} : rpc'[q] = rpc[q] /\ job'[q] = job[q]
<1>1. "idle" \in RecoveryPcs
  BY DEF RecoveryPcs
<1> QED
  BY <1>1, NoJobIsJob, GotoTypes, RememberTypes DEF Leave

\* Commands start, take the lock or are refused, and end.
LEMMA TypesCommand ==
  ASSUME Types, NEW p \in Recoverers,
         Start(p) \/ CreateLock(p) \/ LockRefused(p) \/ ReleaseLock(p) \/ Interrupt(p) \/ LockFails(p) \/ Crash(p)
  PROVE  Types'
<1>1. CASE \E pl \in plans, x \in Executions : Execute(p, pl, x)
  <2>1. PICK pl \in plans, x \in Executions : Execute(p, pl, x)
    BY <1>1
  <2>2. pl \in Plans
    BY DEF Types, RecoveryTypeOK
  <2>3. NewDocument(pl) \in Documents
    BY <2>2 DEF NewDocument, Documents, Statuses, FinishedStatuses, ActionStatuses
  <2>4. Listing(x, NewDocument(pl)) \in Jobs
    BY <2>3, NoJobIsJob DEF Listing, Listed, Jobs, Types, DiskTypeOK
  <2>5. "locking" \in RecoveryPcs \ ActingPcs
    BY DEF RecoveryPcs, ActingPcs
  <2> QED
    BY <2>1, <2>4, <2>5, GotoTypes, RememberTypes, TypesKept
    DEF Execute, Types, DiskTypeOK, RecoveryTypeOK, diskVars
<1>2. CASE \E x \in Executions : Resume(p, x)
  <2>1. PICK x \in Executions : Resume(p, x)
    BY <1>2
  <2>2. Listing(x, execs[x]) \in Jobs
    BY NoJobIsJob DEF Listing, Listed, Jobs, Types, DiskTypeOK, RecoveryTypeOK
  <2>3. "locking" \in RecoveryPcs \ ActingPcs
    BY DEF RecoveryPcs, ActingPcs
  <2> QED
    BY <2>1, <2>2, <2>3, GotoTypes, RememberTypes, TypesKept
    DEF Resume, Types, DiskTypeOK, RecoveryTypeOK, diskVars
<1>3. CASE CreateLock(p)
  <2>1. job[p].doc.plan \in Plans
    BY JobIsJob DEF Documents
  <2>2. "entering" \in RecoveryPcs \ ActingPcs
    BY DEF RecoveryPcs, Locked, ActingPcs
  <2> QED
    BY <1>3, <2>1, <2>2, GotoTypes, TypesKept
    DEF CreateLock, Types, DiskTypeOK, RecoveryTypeOK, diskVars
<1>4. CASE LockRefused(p) \/ ReleaseLock(p) \/ Interrupt(p) \/ LockFails(p) \/ Crash(p)
  <2>1. Leave(p) /\ lock' \subseteq lock /\ UNCHANGED <<plans, execs, reports, diskVars>>
    BY <1>4 DEF LockRefused, ReleaseLock, Interrupt, LockFails, Crash
  <2>2. "idle" \notin ActingPcs
    BY DEF ActingPcs
  <2> QED
    BY <2>1, <2>2, LeaveTypes, TypesKept DEF Types, DiskTypeOK, RecoveryTypeOK, diskVars
<1> QED
  BY <1>1, <1>2, <1>3, <1>4 DEF Start

\* Documents the orchestrator replaces
LEMMA DocumentTypes ==
  ASSUME Types, NEW p \in Recoverers
  PROVE  /\ \A s \in Statuses : [job[p].doc EXCEPT !.status = s] \in Documents
         /\ \A a \in ActionStatuses, m \in Members :
              [job[p].doc EXCEPT !.actions[m] = a] \in Documents
         /\ \A s \in Statuses, a \in ActionStatuses, m \in Members :
              [job[p].doc EXCEPT !.status = s, !.actions[m] = a] \in Documents
BY JobIsJob DEF Documents

LEMMA OutcomeIsStatus == ASSUME NEW p PROVE Outcome(p) \in Statuses
BY DEF Outcome, Statuses, FinishedStatuses

\* A checkpoint, then on to pc
LEMMA CheckpointKeepsTypes ==
  ASSUME Types, NEW p \in Recoverers, NEW doc \in Documents, NEW j \in Jobs,
         NEW pc \in RecoveryPcs, Checkpoint(p, doc, j), Goto(p, pc),
         pc \in ActingPcs => j.todo # {}, UNCHANGED <<plans, lock, reports, diskVars>>
  PROVE  Types'
<1>1. /\ execs' \in [Executions -> Documents]
      /\ job' \in [Recoverers -> Jobs]
      /\ job'[p] = [j EXCEPT !.doc = doc]
      /\ \A q \in Recoverers \ {p} : job'[q] = job[q]
  BY CheckpointTypes
<1>2. job'[p].todo = j.todo
  BY <1>1 DEF Jobs
<1>3. /\ rpc' \in [Recoverers -> RecoveryPcs]
      /\ rpc'[p] = pc
      /\ \A q \in Recoverers \ {p} : rpc'[q] = rpc[q]
  BY GotoTypes
<1>4. DiskTypeOK' /\ plans' \subseteq Plans /\ lock' \subseteq Plans /\ reports' \in [Executions -> Reports]
  BY DEF Types, DiskTypeOK, RecoveryTypeOK, diskVars
<1> QED
  BY <1>1, <1>2, <1>3, <1>4, TypesKept

\* An entry saved, then on to pc
LEMMA SaveHeldKeepsTypes ==
  ASSUME Types, NEW p \in Recoverers, NEW m \in Members, NEW e \in Entries,
         NEW pc \in RecoveryPcs, SaveHeld(p, m, e), Goto(p, pc), job[p].todo # {},
         UNCHANGED <<plans, lock, execs, reports, staged, dest, source>>
  PROVE  Types'
<1>1. /\ entry' \in [Members -> Entries]
      /\ job' \in [Recoverers -> Jobs]
      /\ job'[p] = [job[p] EXCEPT !.snap[m] = e]
      /\ \A q \in Recoverers \ {p} : job'[q] = job[q]
  BY SaveHeldTypes
<1>2. job'[p].todo = job[p].todo
  BY <1>1, JobIsJob DEF Jobs
<1>3. /\ rpc' \in [Recoverers -> RecoveryPcs]
      /\ \A q \in Recoverers \ {p} : rpc'[q] = rpc[q]
  BY GotoTypes
<1>4. /\ DiskTypeOK' /\ plans' \subseteq Plans /\ lock' \subseteq Plans
      /\ execs' \in [Executions -> Documents] /\ reports' \in [Executions -> Reports]
  BY <1>1 DEF Types, DiskTypeOK, RecoveryTypeOK
<1> QED
  BY <1>1, <1>2, <1>3, <1>4, TypesKept

\* Only the disk changes, or nothing, then on to pc
LEMMA GotoKeepsTypes ==
  ASSUME Types, NEW p \in Recoverers, NEW pc \in RecoveryPcs, Goto(p, pc),
         DiskTypeOK', pc \in ActingPcs => job[p].todo # {},
         UNCHANGED <<plans, lock, execs, job>>, reports' \in [Executions -> Reports]
  PROVE  Types'
<1>1. /\ rpc' \in [Recoverers -> RecoveryPcs]
      /\ rpc'[p] = pc
      /\ \A q \in Recoverers \ {p} : rpc'[q] = rpc[q]
  BY GotoTypes
<1>2. /\ plans' \subseteq Plans /\ lock' \subseteq Plans
      /\ execs' \in [Executions -> Documents] /\ job' \in [Recoverers -> Jobs]
  BY DEF Types, RecoveryTypeOK
<1> QED
  BY <1>1, <1>2, TypesKept

\* Checkpoints outside the action loop
LEMMA TypesCheckpoint ==
  ASSUME Types, NEW p \in Recoverers,
         \/ CheckpointValidating(p) \/ CheckpointStale(p) \/ CheckpointRunning(p)
         \/ CheckpointTerminal(p)
  PROVE  Types'
<1>1. {"checking", "unlocking", "scheduling", "reporting"} \subseteq RecoveryPcs \ ActingPcs
  BY DEF RecoveryPcs, Locked, ActingPcs
<1>2. {"validating", "blocked", "running"} \subseteq Statuses
  BY DEF Statuses
<1>3. CASE CheckpointValidating(p)
  BY <1>1, <1>2, <1>3, JobIsJob, DocumentTypes, CheckpointKeepsTypes DEF CheckpointValidating
<1>4. CASE CheckpointStale(p)
  BY <1>1, <1>2, <1>4, JobIsJob, DocumentTypes, CheckpointKeepsTypes DEF CheckpointStale
<1>5. CASE CheckpointRunning(p)
  <2>1. [job[p] EXCEPT !.todo = job[p].doc.plan.members] \in Jobs
    BY JobIsJob DEF Jobs, Documents, Plans
  <2> QED
    BY <1>1, <1>2, <1>5, <2>1, DocumentTypes, CheckpointKeepsTypes DEF CheckpointRunning
<1>6. CASE CheckpointTerminal(p)
  BY <1>1, <1>6, OutcomeIsStatus, JobIsJob, DocumentTypes, CheckpointKeepsTypes
  DEF CheckpointTerminal
<1> QED
  BY <1>3, <1>4, <1>5, <1>6

\* Checkpoints of the action loop
LEMMA TypesLoop ==
  ASSUME Types, NEW p \in Recoverers,
         \/ SkipCompleted(p) \/ CheckpointBlocked(p) \/ CheckpointStart(p)
         \/ CheckpointComplete(p) \/ CheckpointFailure(p)
  PROVE  Types'
<1>1. /\ {"scheduling", "acting"} \subseteq RecoveryPcs
      /\ "scheduling" \notin ActingPcs /\ {"completing", "failing"} \subseteq ActingPcs
  BY DEF RecoveryPcs, Locked, ActingPcs
<1>2. {"running", "blocked", "completed", "failed"} \subseteq ActionStatuses /\ "failed" \in Statuses
  BY DEF ActionStatuses, Statuses
<1>3. job[p].todo # {}
  BY <1>1 DEF SkipCompleted, CheckpointBlocked, CheckpointStart, CheckpointComplete,
              CheckpointFailure, Scheduled, Types, InHand
<1>4. Current(p) \in Members
  BY <1>3, CurrentIsMember
<1>5. CASE SkipCompleted(p)
  <2>1. [Done(p) EXCEPT !.tally = @ \cup {"skipped"}] \in Jobs
    BY JobIsJob DEF Jobs, Done
  <2>2. rpc[p] \notin ActingPcs
    BY <1>1, <1>5 DEF SkipCompleted, Scheduled
  <2> QED
    BY <1>5, <2>1, <2>2, RememberTypes, TypesKept
    DEF SkipCompleted, Types, DiskTypeOK, RecoveryTypeOK, diskVars
<1>6. CASE CheckpointBlocked(p)
  <2>1. [Done(p) EXCEPT !.tally = @ \cup {"blocked"}] \in Jobs
    BY JobIsJob DEF Jobs, Done
  <2>2. Goto(p, "scheduling")
    BY <1>6 DEF CheckpointBlocked, Scheduled, Goto, Types, RecoveryTypeOK
  <2> QED
    BY <1>1, <1>2, <1>4, <1>6, <2>1, <2>2, DocumentTypes, CheckpointKeepsTypes
    DEF CheckpointBlocked
<1>7. CASE CheckpointStart(p)
  BY <1>1, <1>2, <1>3, <1>4, <1>7, JobIsJob, DocumentTypes, CheckpointKeepsTypes
  DEF CheckpointStart
<1>8. CASE CheckpointComplete(p)
  <2>1. [Done(p) EXCEPT !.copied = @ \cup {Current(p)}] \in Jobs
    BY <1>4, JobIsJob DEF Jobs, Done
  <2> QED
    BY <1>1, <1>2, <1>4, <1>8, <2>1, DocumentTypes, CheckpointKeepsTypes DEF CheckpointComplete
<1>9. CASE CheckpointFailure(p)
  <2>1. [job[p] EXCEPT !.todo = {}, !.tally = @ \cup {"failed"}] \in Jobs
    BY JobIsJob DEF Jobs
  <2> QED
    BY <1>1, <1>2, <1>4, <1>9, <2>1, DocumentTypes, CheckpointKeepsTypes DEF CheckpointFailure
<1> QED
  BY <1>5, <1>6, <1>7, <1>8, <1>9

\* What the executor does to the entry in hand
LEMMA TypesExecutor ==
  ASSUME Types, NEW p \in Recoverers,
         \/ NothingToDo(p) \/ ExecutorRefuses(p) \/ ExecutorFails(p) \/ MoveEntry(p)
         \/ RecordHashes(p) \/ MoveRecorded(p)
         \/ KeepDestination(p) \/ DecideToCopy(p) \/ PlaceDestination(p)
         \/ MovePlaced(p) \/ VerifyDestination(p)
  PROVE  Types'
<1>1. ActingPcs \subseteq RecoveryPcs
  BY DEF RecoveryPcs, Locked, ActingPcs
<1>2. /\ {"completing", "failing", "recorded", "placed", "copying", "verifying"} \subseteq ActingPcs
      /\ "acting" \in ActingPcs /\ Trying \subseteq ActingPcs
  BY DEF ActingPcs, Trying
<1>3. job[p].todo # {}
  BY <1>2 DEF NothingToDo, ExecutorRefuses, ExecutorFails, MoveEntry, RecordHashes, MoveRecorded, KeepDestination,
              DecideToCopy, PlaceDestination, MovePlaced, VerifyDestination, Types, InHand
<1>4. Current(p) \in Members /\ Held(p) \in Entries /\ entry[Current(p)] \in Entries
  BY <1>3, CurrentIsMember, HeldIsEntry DEF Types, DiskTypeOK
<1>5. rpc[p] \in RecoveryPcs /\ Types /\ reports \in [Executions -> Reports]
  BY DEF Types, RecoveryTypeOK
<1>6. CASE NothingToDo(p) \/ ExecutorRefuses(p) \/ ExecutorFails(p) \/ KeepDestination(p) \/ DecideToCopy(p)
  <2>1. /\ UNCHANGED <<plans, lock, execs, reports, job, diskVars>>
        /\ \E pc \in ActingPcs : Goto(p, pc)
    BY <1>2, <1>6 DEF NothingToDo, ExecutorRefuses, ExecutorFails, KeepDestination, DecideToCopy
  <2>2. DiskTypeOK'
    BY <2>1 DEF Types, DiskTypeOK, diskVars
  <2> QED
    BY <1>1, <1>3, <1>5, <2>1, <2>2, GotoKeepsTypes
<1>7. CASE PlaceDestination(p)
  <2>1. Primary(Current(p)) \in Files
    BY <1>4, PartCountAssumption DEF Primary, Files
  <2>2. DiskTypeOK'
    BY <1>7, <2>1 DEF PlaceDestination, Types, DiskTypeOK
  <2> QED
    BY <1>1, <1>2, <1>3, <1>5, <1>7, <2>2, GotoKeepsTypes DEF PlaceDestination
<1>8. CASE MoveEntry(p)
  <2>1. [Held(p) EXCEPT !.state = TailTarget(Action(p))] \in Entries
    BY <1>4, <1>8, MoveIsEntry DEF MoveEntry, MoveHeld
  <2> QED
    BY <1>1, <1>2, <1>3, <1>4, <1>8, <2>1, SaveHeldKeepsTypes DEF MoveEntry, MoveHeld
<1>9. CASE RecordHashes(p)
  <2>1. [Held(p) EXCEPT !.recorded = TRUE] \in Entries
    BY <1>4 DEF Entries
  <2> QED
    BY <1>1, <1>2, <1>3, <1>4, <1>9, <2>1, SaveHeldKeepsTypes DEF RecordHashes
<1>10. CASE MoveRecorded(p)
  <2> DEFINE state == IF Action(p) = "rehash-staging" THEN "ready-to-copy" ELSE "staged"
  <2>1. [Held(p) EXCEPT !.state = state] \in Entries
    BY <1>4, <1>10, MoveIsEntry DEF MoveRecorded, MoveHeld
  <2> QED
    BY <1>1, <1>2, <1>3, <1>4, <1>10, <2>1, SaveHeldKeepsTypes DEF MoveRecorded, MoveHeld
<1>11. CASE MovePlaced(p)
  <2>1. \E state \in {"copying", "verifying"}, pc \in ActingPcs :
          MoveHeld(p, Current(p), Held(p), state) /\ Goto(p, pc)
    BY <1>2, <1>11 DEF MovePlaced, Goto, Types, RecoveryTypeOK, ActingPcs
  <2>2. PICK state \in {"copying", "verifying"}, pc \in ActingPcs : MoveHeld(p, Current(p), Held(p), state) /\ Goto(p, pc)
    BY <2>1
  <2>3. [Held(p) EXCEPT !.state = state] \in Entries
    BY <1>4, <2>2, MoveIsEntry DEF MoveHeld
  <2> QED
    BY <1>1, <1>3, <1>4, <1>11, <2>2, <2>3, SaveHeldKeepsTypes DEF MovePlaced, MoveHeld
<1>12. CASE VerifyDestination(p)
  <2> DEFINE e == IF rpc[p] = "acting" THEN Held(p) ELSE entry[Current(p)]
  <2>1. CASE e.state = "verifying"
    <3>1. MoveHeld(p, Current(p), e, "metadata-writing")
      BY <1>12, <2>1 DEF VerifyDestination
    <3>2. [e EXCEPT !.state = "metadata-writing"] \in Entries
      BY <1>4, <3>1, MoveIsEntry DEF MoveHeld
    <3> QED
      BY <1>1, <1>2, <1>3, <1>4, <1>12, <3>1, <3>2, SaveHeldKeepsTypes
      DEF VerifyDestination, MoveHeld
  <2>2. CASE e.state # "verifying"
    <3>1. UNCHANGED <<plans, lock, execs, reports, job, entry, staged, dest, source>> /\ Goto(p, "completing")
      BY <1>12, <2>2 DEF VerifyDestination
    <3>2. DiskTypeOK'
      BY <3>1 DEF Types, DiskTypeOK
    <3> QED
      BY <1>1, <1>2, <1>3, <1>5, <3>1, <3>2, GotoKeepsTypes
  <2> QED
    BY <2>1, <2>2
<1> QED
  BY <1>6, <1>7, <1>8, <1>9, <1>10, <1>11, <1>12

\* Entries saved again, and reports
LEMMA TypesReport ==
  ASSUME Types, NEW p \in Recoverers,
         \/ EnterBlock(p) \/ ResaveEntry(p) \/ EntriesResaved(p) \/ SourceStale(p) \/ SaveReport(p)
  PROVE  Types'
<1>1. {"resaving", "validating", "stale", "unlocking"} \subseteq RecoveryPcs \ ActingPcs
  BY DEF RecoveryPcs, Locked, ActingPcs
<1>2. CASE ResaveEntry(p)
  <2>1. Current(p) \in Members /\ Held(p) \in Entries
    BY <1>2, CurrentIsMember, HeldIsEntry DEF ResaveEntry
  <2>2. DiskTypeOK'
    BY <1>2, <2>1 DEF ResaveEntry, Types, DiskTypeOK
  <2>3. [job[p] EXCEPT !.todo = @ \ {Current(p)}] \in Jobs
    BY JobIsJob DEF Jobs
  <2>4. rpc[p] \notin ActingPcs
    BY <1>1, <1>2 DEF ResaveEntry
  <2> QED
    BY <1>2, <2>2, <2>3, <2>4, RememberTypes, TypesKept DEF ResaveEntry, Types, RecoveryTypeOK
<1>5. CASE EnterBlock(p) \/ EntriesResaved(p)
  <2>1. DiskTypeOK'
    BY <1>5 DEF EnterBlock, EntriesResaved, Types, DiskTypeOK, diskVars
  <2> QED
    BY <1>1, <1>5, <2>1, GotoKeepsTypes DEF EnterBlock, EntriesResaved, Types, RecoveryTypeOK
<1>3. CASE SourceStale(p)
  <2>1. [result |-> "stale", copied |-> {}] \in Reports
    BY DEF Reports
  <2>2. reports' \in [Executions -> Reports] /\ DiskTypeOK'
    BY <1>3, <2>1 DEF SourceStale, Types, DiskTypeOK, RecoveryTypeOK, diskVars
  <2> QED
    BY <1>1, <1>3, <2>2, GotoKeepsTypes DEF SourceStale
<1>4. CASE SaveReport(p)
  <2>1. [result |-> job[p].doc.status, copied |-> job[p].copied] \in Reports
    BY JobIsJob DEF Reports, Jobs, Documents
  <2>2. reports' \in [Executions -> Reports] /\ DiskTypeOK'
    BY <1>4, <2>1 DEF SaveReport, Types, DiskTypeOK, RecoveryTypeOK, diskVars
  <2> QED
    BY <1>1, <1>4, <2>2, GotoKeepsTypes DEF SaveReport
<1> QED
  BY <1>2, <1>3, <1>4, <1>5

\* The operator and the outside world
LEMMA TypesOutside ==
  ASSUME Types, \/ WritePlan \/ \E pl \in lock : OperatorClearsLock(pl)
                \/ SourceChanges /\ UNCHANGED recoveryVars
                \/ UNCHANGED <<diskVars, recoveryVars>>
  PROVE  Types'
<1>1. CASE WritePlan
  <2>1. PlanOf(entry) \in Plans
    BY DEF PlanOf, Plans
  <2> QED
    BY <1>1, <2>1 DEF WritePlan, Types, DiskTypeOK, RecoveryTypeOK, InHand, diskVars
<1>2. CASE \E pl \in lock : OperatorClearsLock(pl)
  BY <1>2 DEF OperatorClearsLock, Types, DiskTypeOK, RecoveryTypeOK, InHand, diskVars
<1>3. CASE SourceChanges /\ UNCHANGED recoveryVars
  BY <1>3 DEF SourceChanges, Types, DiskTypeOK, RecoveryTypeOK, InHand, recoveryVars
<1>4. CASE UNCHANGED <<diskVars, recoveryVars>>
  BY <1>4 DEF Types, DiskTypeOK, RecoveryTypeOK, InHand, diskVars, recoveryVars
<1> QED
  BY <1>1, <1>2, <1>3, <1>4

World == ChecksSource /\ SourceChanges /\ UNCHANGED recoveryVars

LEMMA TypesStep ==
  ASSUME Types, [RecoveryStep]_<<diskVars, recoveryVars>>
  PROVE  Types'
<1>1. ASSUME NEW p \in Recoverers, Start(p) \/ Proceed(p) \/ Trouble(p)
      PROVE  Types'
  BY <1>1, TypesCommand, TypesCheckpoint, TypesLoop, TypesExecutor, TypesReport DEF Proceed, Trouble
<1> QED
  BY <1>1, TypesOutside DEF RecoveryStep, RecoveryNext, World

LEMMA TypesInit ==
  ASSUME DiskTypeOK, RecoveryInit
  PROVE  Types
BY NoJobIsJob DEF RecoveryInit, Types, RecoveryTypeOK, InHand, ActingPcs, RecoveryPcs, NoDocument,
   NewDocument, NoPlan, Documents, Plans, Statuses, FinishedStatuses, ActionStatuses, NoReport, Reports

\* Every document, report, plan, lock and memory is of its type in every
\* state, whatever the number of recoverers.
THEOREM TypesAlways == RecoverySpec => [](DiskTypeOK /\ RecoveryTypeOK)
<1>1. RecoverySpec => []Types
  BY TypesInit, TypesStep, PTL DEF RecoverySpec, RecoveryStart
<1>2. Types => DiskTypeOK /\ RecoveryTypeOK
  BY DEF Types
<1> QED
  BY <1>1, <1>2, PTL

-----------------------------------------------------------------------------
(* The plan lock *)

\* A step with the lock held keeps the lock, the plan and every other process.
StaysLocked(p) ==
  /\ rpc[p] \in Locked /\ rpc'[p] \in Locked
  /\ lock' = lock
  /\ job'[p].doc.plan = job[p].doc.plan
  /\ \A q \in Recoverers \ {p} : rpc'[q] = rpc[q] /\ job'[q] = job[q]

LEMMA CheckpointStaysLocked ==
  ASSUME Types, NEW p \in Recoverers, rpc[p] \in Locked, lock' = lock,
         NEW pc \in Locked, Goto(p, pc) \/ UNCHANGED rpc,
         NEW doc \in Documents, NEW j \in Jobs, Checkpoint(p, doc, j),
         doc.plan = job[p].doc.plan
  PROVE  StaysLocked(p)
<1>1. job'[p] = [j EXCEPT !.doc = doc] /\ \A q \in Recoverers \ {p} : job'[q] = job[q]
  BY CheckpointTypes
<1>2. job'[p].doc = doc
  BY <1>1 DEF Jobs
<1>3. rpc'[p] \in Locked /\ \A q \in Recoverers \ {p} : rpc'[q] = rpc[q]
  BY DEF Goto, Types, RecoveryTypeOK
<1> QED
  BY <1>1, <1>2, <1>3 DEF StaysLocked

LEMMA SaveStaysLocked ==
  ASSUME Types, NEW p \in Recoverers, rpc[p] \in Locked, lock' = lock,
         NEW pc \in Locked, Goto(p, pc) \/ UNCHANGED rpc, NEW m, NEW e, SaveHeld(p, m, e)
  PROVE  StaysLocked(p)
<1>1. job'[p] = [job[p] EXCEPT !.snap[m] = e] /\ \A q \in Recoverers \ {p} : job'[q] = job[q]
  BY DEF SaveHeld, Remember, Types, RecoveryTypeOK
<1>2. job'[p].doc = job[p].doc
  BY <1>1, JobIsJob DEF Jobs
<1>3. rpc'[p] \in Locked /\ \A q \in Recoverers \ {p} : rpc'[q] = rpc[q]
  BY DEF Goto, Types, RecoveryTypeOK
<1> QED
  BY <1>1, <1>2, <1>3 DEF StaysLocked

LEMMA CheckpointsStayLocked ==
  ASSUME Types, NEW p \in Recoverers,
         \/ CheckpointValidating(p) \/ CheckpointStale(p) \/ CheckpointRunning(p)
         \/ CheckpointTerminal(p) \/ SkipCompleted(p) \/ CheckpointBlocked(p)
         \/ CheckpointStart(p) \/ CheckpointComplete(p) \/ CheckpointFailure(p)
  PROVE  StaysLocked(p)
<1>1. /\ \A s \in Statuses : [job[p].doc EXCEPT !.status = s].plan = job[p].doc.plan
      /\ \A a \in ActionStatuses, m \in Members :
           [job[p].doc EXCEPT !.actions[m] = a].plan = job[p].doc.plan
      /\ \A s \in Statuses, a \in ActionStatuses, m \in Members :
           [job[p].doc EXCEPT !.status = s, !.actions[m] = a].plan = job[p].doc.plan
  BY JobIsJob DEF Documents
<1>2. /\ {"running", "blocked", "completed", "failed"} \subseteq ActionStatuses
      /\ {"validating", "blocked", "running", "failed"} \subseteq Statuses
  BY DEF ActionStatuses, Statuses
<1>3. {"validating", "stale", "checking", "scheduling", "acting", "completing", "failing",
       "reporting", "unlocking"} \subseteq Locked
  BY DEF Locked
<1>4. rpc[p] \in {"scheduling", "completing", "failing"} /\ rpc[p] # "scheduling"
        => job[p].todo # {}
  BY DEF Types, InHand, ActingPcs
<1>5. CASE CheckpointValidating(p)
  BY <1>1, <1>2, <1>3, <1>5, JobIsJob, DocumentTypes, CheckpointStaysLocked DEF CheckpointValidating
<1>6. CASE CheckpointStale(p)
  BY <1>1, <1>2, <1>3, <1>6, JobIsJob, DocumentTypes, CheckpointStaysLocked DEF CheckpointStale
<1>7. CASE CheckpointRunning(p)
  <2>1. [job[p] EXCEPT !.todo = job[p].doc.plan.members] \in Jobs
    BY JobIsJob DEF Jobs, Documents, Plans
  <2> QED
    BY <1>1, <1>2, <1>3, <1>7, <2>1, DocumentTypes, CheckpointStaysLocked DEF CheckpointRunning
<1>8. CASE CheckpointTerminal(p)
  BY <1>1, <1>3, <1>8, OutcomeIsStatus, JobIsJob, DocumentTypes, CheckpointStaysLocked
  DEF CheckpointTerminal
<1>9. CASE SkipCompleted(p)
  <2>1. /\ job'[p] = [Done(p) EXCEPT !.tally = @ \cup {"skipped"}]
        /\ \A q \in Recoverers \ {p} : job'[q] = job[q]
    BY <1>9 DEF SkipCompleted, Remember, Types, RecoveryTypeOK
  <2>2. job'[p].doc = job[p].doc
    BY <2>1, JobIsJob DEF Done, Jobs
  <2> QED
    BY <1>3, <1>9, <2>1, <2>2 DEF SkipCompleted, Scheduled, StaysLocked
<1>10. CASE CheckpointBlocked(p)
  <2>1. [Done(p) EXCEPT !.tally = @ \cup {"blocked"}] \in Jobs
    BY JobIsJob DEF Jobs, Done
  <2>2. Current(p) \in Members
    BY <1>10, CurrentIsMember DEF CheckpointBlocked, Scheduled
  <2> QED
    BY <1>1, <1>2, <1>3, <1>10, <2>1, <2>2, DocumentTypes, CheckpointStaysLocked
    DEF CheckpointBlocked, Scheduled
<1>11. CASE CheckpointStart(p)
  <2>1. Current(p) \in Members
    BY <1>11, CurrentIsMember DEF CheckpointStart, Scheduled
  <2> QED
    BY <1>1, <1>2, <1>3, <1>11, <2>1, JobIsJob, DocumentTypes, CheckpointStaysLocked
    DEF CheckpointStart, Scheduled
<1>12. CASE CheckpointComplete(p)
  <2>1. Current(p) \in Members
    BY <1>4, <1>12, CurrentIsMember DEF CheckpointComplete
  <2>2. [Done(p) EXCEPT !.copied = @ \cup {Current(p)}] \in Jobs
    BY <2>1, JobIsJob DEF Jobs, Done
  <2> QED
    BY <1>1, <1>2, <1>3, <1>12, <2>1, <2>2, DocumentTypes, CheckpointStaysLocked
    DEF CheckpointComplete
<1>13. CASE CheckpointFailure(p)
  <2>1. Current(p) \in Members
    BY <1>4, <1>13, CurrentIsMember DEF CheckpointFailure
  <2>2. [job[p] EXCEPT !.todo = {}, !.tally = @ \cup {"failed"}] \in Jobs
    BY JobIsJob DEF Jobs
  <2> DEFINE doc == [job[p].doc EXCEPT !.status = "failed", !.actions[Current(p)] = "failed"]
  <2>3. doc \in Documents /\ doc.plan = job[p].doc.plan
    BY <1>1, <1>2, <2>1, DocumentTypes
  <2>4. /\ Checkpoint(p, doc, [job[p] EXCEPT !.todo = {}, !.tally = @ \cup {"failed"}])
        /\ rpc[p] \in Locked /\ lock' = lock /\ Goto(p, "scheduling")
    BY <1>3, <1>13 DEF CheckpointFailure
  <2> HIDE DEF doc
  <2> QED
    BY <1>3, <2>2, <2>3, <2>4, CheckpointStaysLocked
<1> QED
  BY <1>5, <1>6, <1>7, <1>8, <1>9, <1>10, <1>11, <1>12, <1>13

LEMMA ExecutorStaysLocked ==
  ASSUME Types, NEW p \in Recoverers,
         \/ EnterBlock(p) \/ ResaveEntry(p) \/ EntriesResaved(p) \/ SourceStale(p) \/ SaveReport(p)
         \/ NothingToDo(p) \/ ExecutorRefuses(p) \/ ExecutorFails(p) \/ MoveEntry(p)
         \/ RecordHashes(p) \/ MoveRecorded(p)
         \/ KeepDestination(p) \/ DecideToCopy(p) \/ PlaceDestination(p)
         \/ MovePlaced(p) \/ VerifyDestination(p)
  PROVE  StaysLocked(p)
<1>1. /\ {"entering", "resaving", "checking", "reporting", "acting", "recorded", "copying", "placed",
          "verifying", "completing", "failing", "validating", "stale", "unlocking"} \subseteq Locked
      /\ Trying \subseteq Locked
  BY DEF Locked, Trying
<1>2. CASE \/ EnterBlock(p) \/ EntriesResaved(p) \/ SourceStale(p) \/ SaveReport(p)
           \/ NothingToDo(p) \/ ExecutorRefuses(p) \/ ExecutorFails(p) \/ KeepDestination(p)
           \/ DecideToCopy(p) \/ PlaceDestination(p)
  <2>1. rpc[p] \in Locked /\ UNCHANGED <<lock, job>> /\ \E pc \in Locked : Goto(p, pc)
    BY <1>1, <1>2 DEF EnterBlock, EntriesResaved, SourceStale, SaveReport, NothingToDo,
                      ExecutorRefuses, ExecutorFails, KeepDestination, DecideToCopy, PlaceDestination
  <2> QED
    BY <2>1 DEF StaysLocked, Goto, Types, RecoveryTypeOK
<1>3. CASE MoveEntry(p) \/ RecordHashes(p) \/ MoveRecorded(p)
  <2>1. /\ rpc[p] \in Locked /\ lock' = lock
        /\ \E pc \in Locked : Goto(p, pc)
        /\ \E e : SaveHeld(p, Current(p), e)
    BY <1>1, <1>3 DEF MoveEntry, RecordHashes, MoveRecorded, MoveHeld
  <2> QED
    BY <2>1, SaveStaysLocked
<1>4. CASE MovePlaced(p)
  <2>1. /\ rpc[p] \in Locked /\ lock' = lock
        /\ Goto(p, "verifying") \/ UNCHANGED rpc
        /\ \E e : SaveHeld(p, Current(p), e)
    BY <1>1, <1>4 DEF MovePlaced, MoveHeld
  <2> QED
    BY <1>1, <2>1, SaveStaysLocked
<1>5. CASE VerifyDestination(p)
  <2>1. /\ rpc[p] \in Locked /\ lock' = lock /\ Goto(p, "completing")
        /\ (\E e : SaveHeld(p, Current(p), e)) \/ UNCHANGED job
    BY <1>1, <1>5 DEF VerifyDestination, MoveHeld
  <2>2. CASE UNCHANGED job
    BY <1>1, <2>1, <2>2 DEF StaysLocked, Goto, Types, RecoveryTypeOK
  <2> QED
    BY <1>1, <2>1, <2>2, SaveStaysLocked
<1>6. CASE ResaveEntry(p)
  <2>1. /\ job'[p] = [job[p] EXCEPT !.todo = @ \ {Current(p)}] /\ UNCHANGED <<lock, rpc>>
        /\ \A q \in Recoverers \ {p} : job'[q] = job[q]
    BY <1>6 DEF ResaveEntry, Remember, Types, RecoveryTypeOK
  <2>2. job'[p].doc = job[p].doc
    BY <2>1, JobIsJob DEF Jobs
  <2> QED
    BY <1>1, <1>6, <2>1, <2>2 DEF StaysLocked, ResaveEntry
<1> QED
  BY <1>2, <1>3, <1>4, <1>5, <1>6

\* A step that is or ends outside the lock, and leaves the others their locks
StaysOut(p) ==
  /\ rpc'[p] \notin Locked
  /\ \A q \in Recoverers \ {p} :
       /\ rpc'[q] = rpc[q] /\ job'[q] = job[q]
       /\ rpc[q] \in Locked => job[q].doc.plan \in lock'

LEMMA CommandsStayOut ==
  ASSUME Types, PlanLockExcludes, NEW p \in Recoverers,
         Start(p) \/ LockRefused(p) \/ ReleaseLock(p) \/ Interrupt(p) \/ LockFails(p) \/ Crash(p)
  PROVE  StaysOut(p)
<1>1. "idle" \notin Locked /\ "locking" \notin Locked /\ "unlocking" \in Locked
  BY DEF Locked
<1>2. \A q \in Recoverers \ {p} : rpc[q] \in Locked => job[q].doc.plan \in lock
  BY DEF PlanLockExcludes
<1>3. CASE Start(p)
  BY <1>1, <1>2, <1>3
  DEF Start, Execute, Resume, Goto, Remember, StaysOut, Types, RecoveryTypeOK
<1>4. CASE LockRefused(p) \/ LockFails(p) \/ Crash(p)
  BY <1>1, <1>2, <1>4, LeaveTypes DEF LockRefused, LockFails, Crash, StaysOut
<1>5. CASE ReleaseLock(p) \/ Interrupt(p)
  <2>1. Leave(p) /\ (lock' = lock \/ (rpc[p] \in Locked /\ lock' = lock \ {job[p].doc.plan}))
    BY <1>1, <1>5 DEF ReleaseLock, Interrupt
  <2>2. rpc[p] \in Locked =>
          \A q \in Recoverers \ {p} : rpc[q] \in Locked => job[q].doc.plan # job[p].doc.plan
    BY DEF PlanLockExcludes
  <2> QED
    BY <1>1, <1>2, <2>1, <2>2, LeaveTypes DEF StaysOut
<1> QED
  BY <1>3, <1>4, <1>5

LEMMA ExclusionStep ==
  ASSUME Types, PlanLockExcludes, [RecoveryStep]_<<diskVars, recoveryVars>>
  PROVE  PlanLockExcludes'
<1>1. ASSUME NEW p \in Recoverers, StaysLocked(p)
      PROVE  PlanLockExcludes'
  BY <1>1 DEF StaysLocked, PlanLockExcludes
<1>2. ASSUME NEW p \in Recoverers, StaysOut(p)
      PROVE  PlanLockExcludes'
  BY <1>2 DEF StaysOut, PlanLockExcludes
<1>3. ASSUME NEW p \in Recoverers, CreateLock(p)
      PROVE  PlanLockExcludes'
  <2>1. /\ \A q \in Recoverers \ {p} : rpc'[q] = rpc[q]
        /\ job' = job /\ lock' = lock \cup {job[p].doc.plan} /\ job[p].doc.plan \notin lock
    BY <1>3 DEF CreateLock, Goto, Types, RecoveryTypeOK
  <2> QED
    BY <2>1 DEF PlanLockExcludes
<1>4. CASE \E p \in Recoverers : Start(p) \/ Proceed(p) \/ Trouble(p)
  BY <1>1, <1>2, <1>3, <1>4, CommandsStayOut, CheckpointsStayLocked, ExecutorStaysLocked DEF Proceed, Trouble
<1>5. CASE WritePlan \/ World \/ UNCHANGED <<diskVars, recoveryVars>>
  BY <1>5 DEF WritePlan, World, recoveryVars, PlanLockExcludes
<1>6. CASE \E pl \in lock : OperatorClearsLock(pl)
  BY <1>6 DEF OperatorClearsLock, PlanLockExcludes
<1> QED
  BY <1>4, <1>5, <1>6 DEF RecoveryStep, RecoveryNext, World

LEMMA ExclusionInit ==
  ASSUME RecoveryInit
  PROVE  PlanLockExcludes
BY DEF RecoveryInit, PlanLockExcludes, Locked

\* However many recoverers run, crash, resume and have their lock cleared by
\* the operator, one plan is never executed by two of them at a time.
THEOREM PlanLockAlwaysExcludes == RecoverySpec => []PlanLockExcludes
<1>1. DiskTypeOK /\ RecoveryInit => Types /\ PlanLockExcludes
  BY TypesInit, ExclusionInit
<1>2. Types /\ PlanLockExcludes /\ [RecoveryStep]_<<diskVars, recoveryVars>>
        => Types' /\ PlanLockExcludes'
  BY TypesStep, ExclusionStep
<1> QED
  BY <1>1, <1>2, PTL DEF RecoverySpec, RecoveryStart

LEMMA OrphansStep ==
  ASSUME Types, PlanLockExcludes, [RecoveryStep]_<<diskVars, recoveryVars>>
  PROVE  Orphans' \subseteq Orphans \/ \E p \in Recoverers : LockFails(p) \/ Crash(p)
<1>1. ASSUME NEW p \in Recoverers, StaysLocked(p)
      PROVE  Orphans' \subseteq Orphans
  BY <1>1 DEF StaysLocked, Orphans
<1>2. ASSUME NEW p \in Recoverers, CreateLock(p)
      PROVE  Orphans' \subseteq Orphans
  <2>1. /\ rpc'[p] \in Locked /\ rpc[p] \notin Locked
        /\ \A q \in Recoverers \ {p} : rpc'[q] = rpc[q]
        /\ job' = job /\ lock' = lock \cup {job[p].doc.plan}
    BY <1>2 DEF CreateLock, Goto, Locked, Types, RecoveryTypeOK
  <2> QED
    BY <2>1 DEF Orphans
<1>3. ASSUME NEW p \in Recoverers, Start(p) \/ LockRefused(p)
      PROVE  Orphans' \subseteq Orphans
  <2>1. rpc[p] \notin Locked /\ lock' = lock
    BY <1>3 DEF Start, Execute, Resume, LockRefused, Locked
  <2>2. \A q \in Recoverers \ {p} : rpc'[q] = rpc[q] /\ job'[q] = job[q]
    BY <1>3, CommandsStayOut DEF StaysOut
  <2> QED
    BY <2>1, <2>2 DEF Orphans
<1>4. ASSUME NEW p \in Recoverers, ReleaseLock(p) \/ Interrupt(p)
      PROVE  Orphans' \subseteq Orphans
  <2>1. lock' = IF rpc[p] \in Locked THEN lock \ {job[p].doc.plan} ELSE lock
    BY <1>4 DEF ReleaseLock, Interrupt, Locked
  <2>2. \A q \in Recoverers \ {p} : rpc'[q] = rpc[q] /\ job'[q] = job[q]
    BY <1>4, CommandsStayOut DEF StaysOut
  <2> QED
    BY <2>1, <2>2 DEF Orphans
<1>5. CASE \E p \in Recoverers : Start(p) \/ Proceed(p) \/ Trouble(p)
  BY <1>1, <1>2, <1>3, <1>4, <1>5, CheckpointsStayLocked, ExecutorStaysLocked DEF Proceed, Trouble
<1>6. CASE \/ WritePlan \/ World \/ UNCHANGED <<diskVars, recoveryVars>>
           \/ \E pl \in lock : OperatorClearsLock(pl)
  BY <1>6 DEF WritePlan, World, OperatorClearsLock, recoveryVars, Orphans
<1> QED
  BY <1>5, <1>6 DEF RecoveryStep, RecoveryNext, World

\* Only a killed process, or one that failed inside PlanLock itself, leaves a plan
\* locked for ever: a refusal, a failure, an interrupt at work or a stale plan
\* does not (recovery_workflow.py:252-265).
THEOREM EveryOtherEndAlwaysUnlocks == RecoverySpec => EveryOtherEndUnlocks
<1>1. DiskTypeOK /\ RecoveryInit => Types /\ PlanLockExcludes
  BY TypesInit, ExclusionInit
<1>2. Types /\ PlanLockExcludes /\ [RecoveryStep]_<<diskVars, recoveryVars>>
        => Types' /\ PlanLockExcludes'
  BY TypesStep, ExclusionStep
<1>3. Types /\ PlanLockExcludes /\ [RecoveryStep]_<<diskVars, recoveryVars>>
        => [Orphans' \subseteq Orphans \/ \E p \in Recoverers : LockFails(p) \/ Crash(p)]_<<lock, rpc, job>>
  BY OrphansStep
<1> QED
  BY <1>1, <1>2, <1>3, PTL DEF RecoverySpec, RecoveryStart, EveryOtherEndUnlocks
-----------------------------------------------------------------------------
(* Completed entries have their file.  Recoverers carry old copies of the   *)
(* entries and write them back, so the invariant speaks of the copies too:  *)
(* a file that is in the collection stays there, whoever still holds an     *)
(* entry that says so.                                                      *)

Settled == {"metadata-writing", "completed"}
HasFile(e, m) == e.state \in Settled => dest[Primary(m)] # "none"

Placed ==
  /\ \A m \in Members : HasFile(entry[m], m)
  /\ \A p \in Recoverers, m \in Members : HasFile(job[p].snap[m], m)
  /\ \A p \in Recoverers : rpc[p] = "copying" => staged[Primary(Current(p))] # "none"

\* A step of p that may change entries, of its own copies as well.
LEMMA EntriesKeepPlaced ==
  ASSUME Placed, NEW p \in Recoverers, UNCHANGED <<staged, dest>>,
         \A m \in Members : HasFile(entry'[m], m) /\ HasFile(job'[p].snap[m], m),
         \A q \in Recoverers \ {p} : rpc'[q] = rpc[q] /\ job'[q] = job[q],
         rpc'[p] # "copying"
  PROVE  Placed'
<1>1. \A q \in Recoverers \ {p} : Current(q)' = Current(q)
  BY DEF Current
<1> QED
  BY <1>1 DEF Placed, HasFile, Primary

\* One that changes neither, but for the end of a command.
LEMMA SameEntriesKeepPlaced ==
  ASSUME Placed, NEW p \in Recoverers, UNCHANGED <<entry, staged, dest>>,
         job'[p].snap \in {job[p].snap, entry, NoJob.snap},
         \A q \in Recoverers \ {p} : rpc'[q] = rpc[q] /\ job'[q] = job[q],
         rpc'[p] # "copying"
  PROVE  Placed'
<1>1. \A m \in Members : HasFile(NoJob.snap[m], m)
  BY DEF NoJob, Absent, HasFile, Settled
<1>2. \A m \in Members : HasFile(entry'[m], m) /\ HasFile(job'[p].snap[m], m)
  BY <1>1 DEF Placed
<1> QED
  BY <1>2, EntriesKeepPlaced

LEMMA SaveHeldKeepsPlaced ==
  ASSUME Types, Placed, NEW p \in Recoverers, NEW m \in Members, NEW e \in Entries,
         SaveHeld(p, m, e), HasFile(e, m), UNCHANGED <<staged, dest>>,
         NEW pc \in RecoveryPcs, Goto(p, pc), pc # "copying"
  PROVE  Placed'
<1>1. entry' = [entry EXCEPT ![m] = e] /\ entry \in [Members -> Entries]
  BY DEF SaveHeld, Types, DiskTypeOK
<1>5. /\ job'[p] = [job[p] EXCEPT !.snap[m] = e]
      /\ \A q \in Recoverers \ {p} : job'[q] = job[q]
  BY SaveHeldTypes
<1>2. job'[p].snap = [job[p].snap EXCEPT ![m] = e] /\ job[p].snap \in [Members -> Entries]
  BY <1>5, JobIsJob DEF Jobs
<1>3. \A n \in Members : HasFile(entry'[n], n) /\ HasFile(job'[p].snap[n], n)
  BY <1>1, <1>2 DEF Placed
<1>4. rpc'[p] = pc /\ \A q \in Recoverers \ {p} : rpc'[q] = rpc[q]
  BY GotoTypes
<1> QED
  BY <1>3, <1>4, <1>5, EntriesKeepPlaced

\* Commands and reports leave the disk as it is, and the copies of a process
\* that goes on.
LEMMA CommandKeepsEntries ==
  ASSUME Types, NEW p \in Recoverers,
         \/ Start(p) \/ CreateLock(p) \/ EnterBlock(p) \/ LockRefused(p) \/ ReleaseLock(p)
         \/ Interrupt(p) \/ LockFails(p) \/ Crash(p) \/ EntriesResaved(p) \/ SourceStale(p)
         \/ SaveReport(p) \/ NothingToDo(p) \/ ExecutorRefuses(p) \/ ExecutorFails(p)
         \/ KeepDestination(p)
  PROVE  /\ UNCHANGED diskVars
         /\ \A q \in Recoverers \ {p} : rpc'[q] = rpc[q] /\ job'[q] = job[q]
         /\ rpc'[p] # "copying" /\ (rpc'[p] = "placed" => KeepDestination(p))
         /\ \/ rpc'[p] = "idle" /\ job'[p].snap = NoJob.snap
            \/ job'[p].snap = entry /\ Start(p)
            \/ rpc[p] # "idle" /\ UNCHANGED job
<1>1. CASE Start(p)
  <2>1. /\ job'[p].snap = entry /\ rpc'[p] = "locking" /\ UNCHANGED diskVars
        /\ \A q \in Recoverers \ {p} : rpc'[q] = rpc[q] /\ job'[q] = job[q]
    BY <1>1 DEF Start, Execute, Resume, Listing, Goto, Remember, Types, RecoveryTypeOK, NoJob
  <2> QED
    BY <1>1, <2>1
<1>2. CASE LockRefused(p) \/ ReleaseLock(p) \/ Interrupt(p) \/ LockFails(p) \/ Crash(p)
  <2>1. Leave(p) /\ UNCHANGED diskVars
    BY <1>2 DEF LockRefused, ReleaseLock, Interrupt, LockFails, Crash
  <2> QED
    BY <2>1, LeaveTypes
<1>3. CASE \/ CreateLock(p) \/ EnterBlock(p) \/ EntriesResaved(p) \/ SourceStale(p) \/ SaveReport(p)
           \/ NothingToDo(p) \/ ExecutorRefuses(p) \/ ExecutorFails(p) \/ KeepDestination(p)
  <2>1. /\ UNCHANGED <<job, diskVars>> /\ rpc[p] # "idle"
        /\ \E pc \in RecoveryPcs \ {"copying"} : Goto(p, pc) /\ (pc = "placed" => KeepDestination(p))
    BY <1>3 DEF CreateLock, EnterBlock, EntriesResaved, SourceStale, SaveReport, NothingToDo,
                ExecutorRefuses, ExecutorFails, KeepDestination, RecoveryPcs, Locked, Trying
  <2> QED
    BY <2>1, GotoTypes
<1> QED
  BY <1>1, <1>2, <1>3

LEMMA PlacedCommand ==
  ASSUME Types, Placed, NEW p \in Recoverers,
         \/ Start(p) \/ CreateLock(p) \/ EnterBlock(p) \/ LockRefused(p) \/ ReleaseLock(p)
         \/ Interrupt(p) \/ LockFails(p) \/ Crash(p) \/ EntriesResaved(p) \/ SourceStale(p)
         \/ SaveReport(p) \/ NothingToDo(p) \/ ExecutorRefuses(p) \/ ExecutorFails(p)
         \/ KeepDestination(p)
  PROVE  Placed'
<1>1. /\ UNCHANGED diskVars
      /\ \A q \in Recoverers \ {p} : rpc'[q] = rpc[q] /\ job'[q] = job[q]
      /\ rpc'[p] # "copying" /\ job'[p].snap \in {job[p].snap, entry, NoJob.snap}
  BY CommandKeepsEntries
<1> QED
  BY <1>1, SameEntriesKeepPlaced DEF diskVars

\* So do checkpoints.
LEMMA CheckpointKeepsEntries ==
  ASSUME Types, NEW p \in Recoverers,
         \/ CheckpointValidating(p) \/ CheckpointStale(p) \/ CheckpointRunning(p)
         \/ CheckpointTerminal(p) \/ SkipCompleted(p) \/ CheckpointBlocked(p)
         \/ CheckpointStart(p) \/ CheckpointComplete(p) \/ CheckpointFailure(p)
  PROVE  /\ UNCHANGED diskVars /\ job'[p].snap = job[p].snap
         /\ rpc[p] # "idle" /\ rpc'[p] \notin {"copying", "placed"}
         /\ \A q \in Recoverers \ {p} : rpc'[q] = rpc[q] /\ job'[q] = job[q]
<1>1. PICK pc \in RecoveryPcs \ {"copying", "placed"} : rpc' = [rpc EXCEPT ![p] = pc]
  <2>1. rpc = [rpc EXCEPT ![p] = rpc[p]] /\ rpc[p] \in RecoveryPcs
    BY DEF Types, RecoveryTypeOK
  <2> QED
    BY <2>1 DEF CheckpointValidating, CheckpointStale, CheckpointRunning, CheckpointTerminal,
                SkipCompleted, CheckpointBlocked, CheckpointStart, CheckpointComplete, CheckpointFailure,
                Scheduled, Goto, RecoveryPcs, Locked
<1>2. UNCHANGED diskVars
  BY DEF CheckpointValidating, CheckpointStale, CheckpointRunning, CheckpointTerminal,
         SkipCompleted, CheckpointBlocked, CheckpointStart, CheckpointComplete, CheckpointFailure
<1>3. ASSUME NEW j, NEW doc, Checkpoint(p, doc, j) \/ Remember(p, j),
             j.snap = job[p].snap, DOMAIN j = DOMAIN job[p]
      PROVE  job'[p].snap = job[p].snap /\ \A q \in Recoverers \ {p} : job'[q] = job[q]
  <2>1. [j EXCEPT !.doc = doc].snap = j.snap
    BY <1>3, JobIsJob DEF Jobs
  <2> QED
    BY <1>3, <2>1 DEF Checkpoint, Remember, Types, RecoveryTypeOK
<1>4. job'[p].snap = job[p].snap /\ \A q \in Recoverers \ {p} : job'[q] = job[q]
  <2>1. CASE CheckpointValidating(p) \/ CheckpointStale(p) \/ CheckpointStart(p) \/ CheckpointTerminal(p)
    BY <1>3, <2>1 DEF CheckpointValidating, CheckpointStale, CheckpointStart, CheckpointTerminal
  <2>2. CASE CheckpointRunning(p)
    <3> DEFINE j == [job[p] EXCEPT !.todo = job[p].doc.plan.members]
    <3>1. j.snap = job[p].snap /\ DOMAIN j = DOMAIN job[p]
      BY JobIsJob DEF Jobs
    <3>2. Checkpoint(p, [job[p].doc EXCEPT !.status = "running"], j)
      BY <2>2 DEF CheckpointRunning
    <3> HIDE DEF j
    <3> QED
      BY <1>3, <3>1, <3>2
  <2>3. CASE SkipCompleted(p)
    <3> DEFINE j == [Done(p) EXCEPT !.tally = @ \cup {"skipped"}]
    <3>1. j.snap = job[p].snap /\ DOMAIN j = DOMAIN job[p]
      BY JobIsJob DEF Jobs, Done
    <3>2. Remember(p, j)
      BY <2>3 DEF SkipCompleted
    <3> HIDE DEF j
    <3> QED
      BY <1>3, <3>1, <3>2
  <2>4. CASE CheckpointBlocked(p)
    <3> DEFINE j == [Done(p) EXCEPT !.tally = @ \cup {"blocked"}]
    <3>1. j.snap = job[p].snap /\ DOMAIN j = DOMAIN job[p]
      BY JobIsJob DEF Jobs, Done
    <3>2. Checkpoint(p, [job[p].doc EXCEPT !.actions[Current(p)] = "blocked"], j)
      BY <2>4 DEF CheckpointBlocked
    <3> HIDE DEF j
    <3> QED
      BY <1>3, <3>1, <3>2
  <2>5. CASE CheckpointComplete(p)
    <3> DEFINE j == [Done(p) EXCEPT !.copied = @ \cup {Current(p)}]
    <3>1. j.snap = job[p].snap /\ DOMAIN j = DOMAIN job[p]
      BY JobIsJob DEF Jobs, Done
    <3>2. Checkpoint(p, [job[p].doc EXCEPT !.actions[Current(p)] = "completed"], j)
      BY <2>5 DEF CheckpointComplete
    <3> HIDE DEF j
    <3> QED
      BY <1>3, <3>1, <3>2
  <2>6. CASE CheckpointFailure(p)
    <3> DEFINE j == [job[p] EXCEPT !.todo = {}, !.tally = @ \cup {"failed"}]
    <3>1. j.snap = job[p].snap /\ DOMAIN j = DOMAIN job[p]
      BY JobIsJob DEF Jobs
    <3>2. Checkpoint(p, [job[p].doc EXCEPT !.status = "failed", !.actions[Current(p)] = "failed"], j)
      BY <2>6 DEF CheckpointFailure
    <3> HIDE DEF j
    <3> QED
      BY <1>3, <3>1, <3>2
  <2> QED
    BY <2>1, <2>2, <2>3, <2>4, <2>5, <2>6
<1>5. rpc'[p] \notin {"copying", "placed"} /\ \A q \in Recoverers \ {p} : rpc'[q] = rpc[q]
  BY <1>1 DEF Types, RecoveryTypeOK
<1>6. rpc[p] # "idle"
  BY DEF CheckpointValidating, CheckpointStale, CheckpointRunning, CheckpointTerminal,
         SkipCompleted, CheckpointBlocked, CheckpointStart, CheckpointComplete, CheckpointFailure, Scheduled
<1> QED
  BY <1>2, <1>4, <1>5, <1>6

LEMMA PlacedCheckpoint ==
  ASSUME Types, Placed, NEW p \in Recoverers,
         \/ CheckpointValidating(p) \/ CheckpointStale(p) \/ CheckpointRunning(p)
         \/ CheckpointTerminal(p) \/ SkipCompleted(p) \/ CheckpointBlocked(p)
         \/ CheckpointStart(p) \/ CheckpointComplete(p) \/ CheckpointFailure(p)
  PROVE  Placed'
<1>1. /\ UNCHANGED diskVars /\ job'[p].snap = job[p].snap /\ rpc'[p] # "copying"
      /\ \A q \in Recoverers \ {p} : rpc'[q] = rpc[q] /\ job'[q] = job[q]
  BY CheckpointKeepsEntries
<1> QED
  BY <1>1, SameEntriesKeepPlaced DEF diskVars

\* What the executor does to files and entries
LEMMA PlacedExecutor ==
  ASSUME Types, Placed, NEW p \in Recoverers,
         \/ ResaveEntry(p) \/ MoveEntry(p) \/ RecordHashes(p) \/ MoveRecorded(p)
         \/ DecideToCopy(p) \/ PlaceDestination(p) \/ MovePlaced(p) \/ VerifyDestination(p)
  PROVE  Placed'
<1> DEFINE m == Current(p)
<1>1. ASSUME rpc[p] \in ActingPcs
      PROVE  /\ m \in Members /\ Held(p) \in Entries /\ HasFile(Held(p), m)
             /\ Held(p).state \in States \cup {"absent"}
  BY <1>1, CurrentIsMember, HeldIsEntry DEF Types, InHand, Placed, Held, Entries
<1>2. ASSUME NEW state \in States, NEW pc \in RecoveryPcs \ {"copying"}, rpc[p] \in ActingPcs,
             NEW e \in Entries, MoveHeld(p, m, e, state), Goto(p, pc), UNCHANGED <<staged, dest>>,
             state \in Settled => dest[Primary(m)] # "none"
      PROVE  Placed'
  <2>1. [e EXCEPT !.state = state] \in Entries /\ [e EXCEPT !.state = state].state = state
    BY <1>2 DEF Entries
  <2> QED
    BY <1>1, <1>2, <2>1, SaveHeldKeepsPlaced DEF MoveHeld, HasFile
<1>3. CASE ResaveEntry(p)
  <2>1. /\ \A n \in Members : entry'[n] \in {entry[n], job[p].snap[n]}
        /\ UNCHANGED <<rpc, staged, dest>> /\ rpc'[p] # "copying"
        /\ job'[p] = [job[p] EXCEPT !.todo = @ \ {m}]
        /\ \A q \in Recoverers \ {p} : job'[q] = job[q]
    BY <1>3 DEF ResaveEntry, Held, Remember, Types, DiskTypeOK, RecoveryTypeOK
  <2>2. job'[p].snap = job[p].snap
    BY <2>1, JobIsJob DEF Jobs
  <2> QED
    BY <2>1, <2>2, EntriesKeepPlaced DEF Placed
<1>4. CASE MoveEntry(p)
  <2>1. rpc[p] \in ActingPcs /\ "completing" \in RecoveryPcs /\ TailTarget(Action(p)) \in States
    BY <1>4 DEF MoveEntry, ActingPcs, RecoveryPcs, Locked, TailActions, TailTarget, States, SuccessStates
  <2>2. TailTarget(Action(p)) \in Settled => Held(p).state = "metadata-writing"
    BY <1>1, <1>4, <2>1
    DEF MoveEntry, TailActions, TailTarget, Settled, Action, RecoveryActions, States, MoveHeld, MayMove
  <2>3. TailTarget(Action(p)) \in Settled => dest[Primary(m)] # "none"
    BY <1>1, <2>1, <2>2 DEF HasFile, Settled
  <2> QED
    BY <1>1, <1>2, <1>4, <2>1, <2>3 DEF MoveEntry
<1>5. CASE RecordHashes(p)
  <2>1. rpc[p] \in ActingPcs /\ "recorded" \in RecoveryPcs
    BY <1>5 DEF RecordHashes, ActingPcs, RecoveryPcs, Locked
  <2>2. /\ [Held(p) EXCEPT !.recorded = TRUE] \in Entries
        /\ [Held(p) EXCEPT !.recorded = TRUE].state = Held(p).state
    BY <1>1, <2>1 DEF Entries
  <2>3. HasFile([Held(p) EXCEPT !.recorded = TRUE], m)
    BY <1>1, <2>1, <2>2 DEF HasFile
  <2> QED
    BY <1>1, <1>5, <2>1, <2>2, <2>3, SaveHeldKeepsPlaced DEF RecordHashes
<1>6. CASE MoveRecorded(p)
  <2>1. rpc[p] \in ActingPcs /\ "completing" \in RecoveryPcs
    BY <1>6 DEF MoveRecorded, ActingPcs, RecoveryPcs, Locked
  <2>2. {"ready-to-copy", "staged"} \subseteq States \ Settled
    BY DEF States, Settled
  <2> QED
    BY <1>1, <1>2, <1>6, <2>1, <2>2 DEF MoveRecorded
<1>7. CASE DecideToCopy(p)
  <2>1. /\ staged[Primary(m)] # "none" /\ UNCHANGED <<job, diskVars>>
        /\ \A q \in Recoverers \ {p} : rpc'[q] = rpc[q]
    BY <1>7 DEF DecideToCopy, StagingValid, Goto, Types, RecoveryTypeOK
  <2>2. \A q \in Recoverers : Current(q)' = Current(q)
    BY <2>1 DEF Current
  <2> QED
    BY <2>1, <2>2 DEF Placed, HasFile, Primary, diskVars
<1>8. CASE PlaceDestination(p)
  <2>1. staged[Primary(m)] # "none"
    BY <1>8 DEF PlaceDestination, Placed
  <2>2. \A f \in Files : dest[f] # "none" => dest'[f] # "none"
    BY <1>8, <2>1 DEF PlaceDestination, Types, DiskTypeOK
  <2>3. \A n \in Members : Primary(n) \in Files
    BY PartCountAssumption DEF Primary, Files
  <2>4. /\ UNCHANGED <<job, entry, staged>> /\ rpc'[p] # "copying"
        /\ \A q \in Recoverers \ {p} : rpc'[q] = rpc[q]
    BY <1>8 DEF PlaceDestination, Goto, Types, RecoveryTypeOK
  <2>5. \A q \in Recoverers : Current(q)' = Current(q)
    BY <2>4 DEF Current
  <2>6. \A n \in Members : Primary(n)' = Primary(n)
    BY DEF Primary
  <2> QED
    BY <2>2, <2>3, <2>4, <2>5, <2>6 DEF Placed, HasFile
<1>9. CASE MovePlaced(p)
  <2>1. rpc[p] \in ActingPcs /\ {"placed", "verifying"} \subseteq RecoveryPcs \ {"copying"}
    BY <1>9 DEF MovePlaced, ActingPcs, RecoveryPcs, Locked
  <2>2. {"copying", "verifying"} \subseteq States \ Settled
    BY DEF States, Settled
  <2>3. CASE Held(p).state = "copying"
    BY <1>1, <1>2, <1>9, <2>1, <2>2, <2>3 DEF MovePlaced
  <2>4. CASE Held(p).state # "copying"
    <3>1. MoveHeld(p, m, Held(p), "copying") /\ Goto(p, "placed") /\ UNCHANGED <<staged, dest>>
      BY <1>9, <2>4 DEF MovePlaced, Goto, Types, RecoveryTypeOK
    <3> QED
      BY <1>1, <1>2, <2>1, <2>2, <3>1
  <2> QED
    BY <2>3, <2>4
<1>10. CASE VerifyDestination(p)
  <2> DEFINE e == IF rpc[p] = "acting" THEN Held(p) ELSE entry[m]
  <2>1. rpc[p] \in ActingPcs /\ "completing" \in RecoveryPcs \ {"copying"}
    BY <1>10 DEF VerifyDestination, ActingPcs, RecoveryPcs, Locked
  <2>2. e \in Entries /\ dest[Primary(m)] # "none" /\ UNCHANGED <<staged, dest>> /\ Goto(p, "completing")
    BY <1>1, <1>10, <2>1 DEF VerifyDestination, DestinationValid, Types, DiskTypeOK
  <2>3. CASE e.state = "verifying"
    <3>1. MoveHeld(p, m, e, "metadata-writing")
      BY <1>10, <2>3 DEF VerifyDestination
    <3>2. "metadata-writing" \in States
      BY DEF States
    <3> HIDE DEF e
    <3> QED
      BY <1>2, <2>1, <2>2, <3>1, <3>2
  <2>4. CASE e.state # "verifying"
    <3>1. UNCHANGED <<entry, job>>
      BY <1>10, <2>4 DEF VerifyDestination
    <3> QED
      BY <2>1, <2>2, <3>1, GotoTypes, SameEntriesKeepPlaced
  <2> QED
    BY <2>3, <2>4
<1> QED
  BY <1>3, <1>4, <1>5, <1>6, <1>7, <1>8, <1>9, <1>10

LEMMA PlacedStep ==
  ASSUME Types, Placed, RecoveryNext \/ (SourceChanges /\ UNCHANGED recoveryVars)
  PROVE  Placed'
<1>1. ASSUME NEW p \in Recoverers, Start(p) \/ Proceed(p) \/ Trouble(p)
      PROVE  Placed'
  BY <1>1, PlacedCommand, PlacedCheckpoint, PlacedExecutor DEF Proceed, Trouble
<1>2. CASE UNCHANGED <<entry, staged, dest, rpc, job>>
  <2>1. \A p \in Recoverers : Current(p)' = Current(p)
    BY <1>2 DEF Current
  <2> QED
    BY <1>2, <2>1 DEF Placed, HasFile, Primary
<1>3. CASE WritePlan \/ (\E pl \in lock : OperatorClearsLock(pl)) \/ (SourceChanges /\ UNCHANGED recoveryVars)
  BY <1>2, <1>3 DEF WritePlan, OperatorClearsLock, SourceChanges, diskVars, recoveryVars
<1> QED
  BY <1>1, <1>3 DEF RecoveryNext

LEMMA PlacedInit ==
  ASSUME RecoveryInit, \A m \in Members : HasFile(entry[m], m)
  PROVE  Placed
BY DEF RecoveryInit, Placed, HasFile, NoJob, Absent, Settled

\* However many recoverers write back whatever copies they hold: an entry that
\* is called completed has its file in the collection (recovery.py:41-95,
\* recovery_workflow.py:302-344).
THEOREM CompletedEntriesArePlaced == RecoverySpec => []CompletedEntryIsPlaced
<1>1. RecoveryStart => Types /\ Placed
  <2> SUFFICES ASSUME RecoveryStart PROVE Types /\ Placed
    OBVIOUS
  <2>1. \A m \in Members : HasFile(entry[m], m)
    BY DEF RecoveryStart, AfterImport, HasFile, Settled, PlacedStates
  <2> QED
    BY <2>1, TypesInit, PlacedInit DEF RecoveryStart
<1>2. Types /\ Placed /\ [RecoveryStep]_<<diskVars, recoveryVars>> => Types' /\ Placed'
  <2> SUFFICES ASSUME Types, Placed, [RecoveryStep]_<<diskVars, recoveryVars>> PROVE Types' /\ Placed'
    OBVIOUS
  <2>1. CASE UNCHANGED <<diskVars, recoveryVars>>
    <3>1. \A p \in Recoverers : Current(p)' = Current(p)
      BY <2>1 DEF Current, recoveryVars
    <3> QED
      BY <2>1, <3>1, TypesStep DEF Placed, HasFile, Primary, diskVars, recoveryVars
  <2> QED
    BY <2>1, TypesStep, PlacedStep DEF RecoveryStep
<1>3. Placed => CompletedEntryIsPlaced
  BY DEF Placed, HasFile, Settled, CompletedEntryIsPlaced
<1> QED
  BY <1>1, <1>2, <1>3, PTL DEF RecoverySpec
-----------------------------------------------------------------------------
(* The promise of CheckpointedExecution.  Each command carries its own copy *)
(* of the execution document, read before the plan lock was taken, and      *)
(* every checkpoint replaces the document with that copy: what follows      *)
(* needs two commands never to be at one execution.                         *)

\* No execution is resumed while another command is at it.  The code does not
\* see to it: the second command reads its copy while the first one runs.
RunsApart ==
  \A p, q \in Recoverers :
    rpc[p] # "idle" /\ rpc[q] # "idle" /\ job[p].id = job[q].id => p = q

OpenStatuses == Statuses \ (FinishedStatuses \cup {"none"})
Open(d) == d.status \in OpenStatuses
CompletedOf(d) == {m \in Members : d.actions[m] = "completed"}

Reading == {"locking", "entering", "resaving", "validating"}
Looping == {"scheduling"} \cup ActingPcs

\* An action the loop is past was completed, or the run is not a success.
Accounted(j) ==
  /\ j.todo \subseteq j.doc.plan.members
  /\ j.tally \cap {"failed", "blocked"} = {} => j.doc.plan.members \ j.todo \subseteq CompletedOf(j.doc)

\* The action in hand may be completed.
MayComplete(j) ==
  LET m == CHOOSE n \in j.todo : TRUE IN
  m \notin CompletedOf(j.doc) /\ Dependencies[m] \subseteq CompletedOf(j.doc)

\* What a command at pc with memory j knows of the execution document d
Fits(pc, j, d) ==
  /\ pc \in Reading =>
       \/ d = NoDocument /\ Open(j.doc) /\ CompletedOf(j.doc) = {}
       \/ d = j.doc /\ Open(d)
  /\ pc \notin Reading => d = j.doc
  /\ pc \in {"checking", "stale"} \cup Looping => Open(j.doc)
  /\ pc \in Looping => Accounted(j)
  /\ pc \in ActingPcs => MayComplete(j)

Progress(p) ==
  rpc[p] # "idle" => job[p].id \in Executions /\ Fits(rpc[p], job[p], execs[job[p].id])

Promising ==
  /\ \A p \in Recoverers : Progress(p)
  /\ FinishedIsFinished
  /\ \A x \in Executions : execs[x].status = "none" => execs[x] = NoDocument

\* How one document may follow another
Advance(d, doc) ==
  \/ d = NoDocument /\ Open(doc) /\ CompletedOf(doc) = {}
  \/ /\ Open(d) /\ doc.plan = d.plan /\ doc.status \in Statuses \ {"none"}
     /\ \/ CompletedOf(doc) = CompletedOf(d) /\ (Open(doc) \/ d.plan.members \subseteq CompletedOf(d))
        \/ \E m \in d.plan.members \ CompletedOf(d) :
             /\ Dependencies[m] \subseteq CompletedOf(d)
             /\ CompletedOf(doc) = CompletedOf(d) \cup {m}
             /\ Open(doc)

LEMMA OpenIsNotFinished ==
  ASSUME NEW d, Open(d)
  PROVE  d.status \in Statuses /\ d.status \notin FinishedStatuses /\ d.status # "none"
BY DEF Open, OpenStatuses

LEMMA NoDocumentIsBlank ==
  /\ NoDocument \in Documents /\ NoDocument.status = "none" /\ ~Open(NoDocument)
  /\ CompletedOf(NoDocument) = {} /\ NoDocument.plan.members = {}
BY NoJobIsJob DEF NoDocument, NewDocument, NoPlan, CompletedOf, Open, OpenStatuses, Jobs,
                  Documents, Plans, Statuses, ActionStatuses

LEMMA CompletedOfIs ==
  ASSUME NEW d \in Documents, NEW m \in Members
  PROVE  /\ \A s : CompletedOf([d EXCEPT !.status = s]) = CompletedOf(d)
         /\ CompletedOf([d EXCEPT !.actions[m] = "completed"]) = CompletedOf(d) \cup {m}
<1>1. \A s : [d EXCEPT !.status = s].actions = d.actions
  BY DEF Documents
<1>2. [d EXCEPT !.actions[m] = "completed"].actions = [d.actions EXCEPT ![m] = "completed"]
  BY DEF Documents
<1>3. d.actions \in [Members -> ActionStatuses]
  BY DEF Documents
<1> QED
  BY <1>1, <1>2, <1>3 DEF CompletedOf

\* A document that advances keeps what is known of documents and reports, and
\* is a step of the promise.
LEMMA AdvanceKeepsDocuments ==
  ASSUME Types, NEW x \in Executions, NEW doc \in Documents, Advance(execs[x], doc),
         execs' = [execs EXCEPT ![x] = doc], UNCHANGED reports,
         FinishedIsFinished, \A y \in Executions : execs[y].status = "none" => execs[y] = NoDocument
  PROVE  /\ FinishedIsFinished'
         /\ \A y \in Executions : execs'[y].status = "none" => execs'[y] = NoDocument
<1>1. execs'[x] = doc /\ \A y \in Executions \ {x} : execs'[y] = execs[y]
  BY DEF Types, RecoveryTypeOK
<1>2. doc.status # "none" /\ execs[x].status \notin FinishedStatuses
  BY NoDocumentIsBlank, OpenIsNotFinished DEF Advance, FinishedStatuses
<1>3. ASSUME doc.status \in FinishedStatuses
      PROVE  \A m \in doc.plan.members : doc.actions[m] = "completed"
  <2>1. doc.plan.members \subseteq CompletedOf(doc)
    BY <1>3, OpenIsNotFinished DEF Advance
  <2> QED
    BY <2>1 DEF CompletedOf
<1>4. reports[x].result \notin FinishedStatuses
  BY <1>2 DEF FinishedIsFinished
<1> QED
  BY <1>1, <1>2, <1>3, <1>4 DEF FinishedIsFinished

LEMMA AdvanceKeepsCompleted ==
  ASSUME Types, NEW x \in Executions, NEW doc \in Documents, Advance(execs[x], doc),
         execs' = [execs EXCEPT ![x] = doc], NEW y \in Executions, NEW m \in Members,
         execs[y].actions[m] = "completed"
  PROVE  execs'[y].actions[m] = "completed"
<1>1. execs'[x] = doc /\ \A z \in Executions \ {x} : execs'[z] = execs[z]
  BY DEF Types, RecoveryTypeOK
<1>2. CompletedOf(execs[x]) \subseteq CompletedOf(doc)
  BY NoDocumentIsBlank DEF Advance
<1> QED
  BY <1>1, <1>2 DEF CompletedOf

LEMMA AdvanceIsPromised ==
  ASSUME Types, NEW x \in Executions, NEW doc \in Documents, Advance(execs[x], doc),
         execs' = [execs EXCEPT ![x] = doc]
  PROVE  [Promised!Next]_(Promised!vars)
<1> DEFINE d == execs[x]
<1>1. d \in Documents /\ execs'[x] = doc /\ \A y \in Executions \ {x} : execs'[y] = execs[y]
  BY DEF Types, RecoveryTypeOK
<1>2. /\ Begun' = IF doc.status # "none" THEN Begun \cup {x} ELSE Begun \ {x}
      /\ Finished' = IF doc.status \in FinishedStatuses THEN Finished \cup {x} ELSE Finished \ {x}
  BY <1>1 DEF Begun, Finished
<1>3. /\ Goal' = [Goal EXCEPT ![x] = doc.plan.members]
      /\ CompletedActions' = [CompletedActions EXCEPT ![x] = CompletedOf(doc)]
  <2>1. /\ CompletedActions = [y \in Executions |-> CompletedOf(execs[y])]
        /\ CompletedActions' = [y \in Executions |-> CompletedOf(execs'[y])]
    BY DEF CompletedActions, CompletedOf
  <2>2. \A y \in Executions :
          CompletedOf(execs'[y]) = IF y = x THEN CompletedOf(doc) ELSE CompletedOf(execs[y])
    BY <1>1
  <2>3. CompletedActions' = [CompletedActions EXCEPT ![x] = CompletedOf(doc)]
    BY <2>1, <2>2, Zenon
  <2>4. Goal' = [Goal EXCEPT ![x] = doc.plan.members]
    <3>1. \A y \in Executions :
            execs'[y].plan.members = IF y = x THEN doc.plan.members ELSE execs[y].plan.members
      BY <1>1
    <3> QED
      BY <3>1, Zenon DEF Goal
  <2> QED
    BY <2>3, <2>4
<1>4. /\ Goal = [Goal EXCEPT ![x] = d.plan.members] /\ Goal[x] = d.plan.members
      /\ CompletedActions = [CompletedActions EXCEPT ![x] = CompletedOf(d)]
      /\ CompletedActions[x] = CompletedOf(d)
  BY DEF Goal, CompletedActions, CompletedOf
<1>5. (x \in Begun <=> d.status # "none") /\ (x \in Finished <=> d.status \in FinishedStatuses)
  BY DEF Begun, Finished
<1> HIDE DEF d
<1>6. CASE d = NoDocument /\ Open(doc) /\ CompletedOf(doc) = {}
  <2>1. doc.plan.members \in SUBSET Members
    BY DEF Documents, Plans
  <2>2. Promised!Begin(x, doc.plan.members)
    BY <1>2, <1>3, <1>4, <1>5, <1>6, NoDocumentIsBlank, OpenIsNotFinished
    DEF Promised!Begin, FinishedStatuses
  <2> QED
    BY <2>1, <2>2 DEF Promised!Next
<1>7. CASE Open(d) /\ doc.plan = d.plan /\ Open(doc) /\ CompletedOf(doc) = CompletedOf(d)
  <2>1. UNCHANGED <<Begun, Goal, CompletedActions, Finished>>
    BY <1>2, <1>3, <1>4, <1>5, <1>7, OpenIsNotFinished
  <2> QED
    BY <2>1 DEF Promised!vars
<1>8. CASE /\ Open(d) /\ doc.plan = d.plan /\ doc.status \in Statuses \ {"none"} /\ ~Open(doc)
           /\ CompletedOf(doc) = CompletedOf(d) /\ d.plan.members \subseteq CompletedOf(d)
  <2>1. doc.status \in FinishedStatuses
    BY <1>8 DEF Open, OpenStatuses
  <2>2. Promised!Finish(x)
    BY <1>2, <1>3, <1>4, <1>5, <1>8, <2>1, OpenIsNotFinished DEF Promised!Finish
  <2> QED
    BY <2>2 DEF Promised!Next
<1>9. CASE /\ Open(d) /\ doc.plan = d.plan /\ Open(doc)
           /\ \E m \in d.plan.members \ CompletedOf(d) :
                /\ Dependencies[m] \subseteq CompletedOf(d)
                /\ CompletedOf(doc) = CompletedOf(d) \cup {m}
  <2>1. PICK m \in d.plan.members \ CompletedOf(d) :
          Dependencies[m] \subseteq CompletedOf(d) /\ CompletedOf(doc) = CompletedOf(d) \cup {m}
    BY <1>9
  <2>2. m \in Members
    BY <1>1, <2>1 DEF Documents, Plans, d
  <2>3. CompletedActions' = [CompletedActions EXCEPT ![x] = @ \cup {m}]
    BY <1>3, <1>4, <2>1
  <2>4. UNCHANGED <<Begun, Goal, Finished>>
    BY <1>2, <1>3, <1>4, <1>5, <1>9, OpenIsNotFinished
  <2>5. Promised!Complete(x, m)
    BY <1>4, <1>5, <1>9, <2>1, <2>3, <2>4, OpenIsNotFinished DEF Promised!Complete
  <2> QED
    BY <2>2, <2>5 DEF Promised!Next
<1> QED
  BY <1>6, <1>7, <1>8, <1>9 DEF Advance, d

-----------------------------------------------------------------------------
(* What a step does to the command that takes it *)

\* It leaves the execution document alone.
Quietly(p) ==
  /\ UNCHANGED execs
  /\ job'[p].id = job[p].id /\ job'[p].doc = job[p].doc
  /\ {rpc[p], rpc'[p]} \subseteq Reading \/ (job'[p].todo = job[p].todo /\ job'[p].tally = job[p].tally)
  /\ \/ {rpc[p], rpc'[p]} \subseteq Reading
     \/ {rpc[p], rpc'[p]} \subseteq ActingPcs
     \/ rpc[p] = "checking" /\ rpc'[p] = "stale"
     \/ rpc[p] = "reporting" /\ rpc'[p] = "unlocking"

LEMMA QuietlyKeepsProgress ==
  ASSUME NEW p \in Recoverers, Progress(p), Quietly(p)
  PROVE  Progress(p)'
<1>1. "idle" \notin Reading \cup ActingPcs
  BY DEF Reading, ActingPcs
<1>2. rpc[p] # "idle"
  BY <1>1 DEF Quietly
<1>3. job[p].id \in Executions /\ Fits(rpc[p], job[p], execs[job[p].id])
  BY <1>2 DEF Progress
<1>4. ASSUME job'[p].todo = job[p].todo, job'[p].tally = job[p].tally
      PROVE  /\ Accounted(job'[p]) <=> Accounted(job[p])
             /\ MayComplete(job'[p]) <=> MayComplete(job[p])
  BY <1>4 DEF Quietly, Accounted, MayComplete
<1>5. Fits(rpc'[p], job'[p], execs[job[p].id])
  BY <1>3, <1>4 DEF Quietly, Fits, Reading, Looping, ActingPcs
<1> QED
  BY <1>3, <1>5 DEF Quietly, Progress

\* It replaces the document with one that may follow it.
Advances(p) ==
  \E doc \in Documents :
    /\ Advance(execs[job[p].id], doc)
    /\ execs' = [execs EXCEPT ![job[p].id] = doc]

LEMMA CheckpointAdvances ==
  ASSUME Types, NEW p \in Recoverers, job[p].id \in Executions,
         NEW doc \in Documents, NEW j \in Jobs, j.id = job[p].id, Checkpoint(p, doc, j),
         Advance(execs[job[p].id], doc),
         Fits(rpc'[p], [j EXCEPT !.doc = doc], doc)
  PROVE  Advances(p) /\ Progress(p)' /\ job'[p].id = job[p].id
<1>1. job'[p] = [j EXCEPT !.doc = doc]
  BY CheckpointTypes
<1>2. job'[p].id = job[p].id
  BY <1>1 DEF Jobs
<1>3. execs' = [execs EXCEPT ![job[p].id] = doc] /\ execs'[job[p].id] = doc
  BY DEF Checkpoint, Types, RecoveryTypeOK
<1> QED
  BY <1>1, <1>2, <1>3 DEF Advances, Progress

\* The checkpoints before the action loop and after it
LEMMA ProgressCheckpoint ==
  ASSUME Types, NEW p \in Recoverers, Progress(p),
         \/ CheckpointValidating(p) \/ CheckpointStale(p) \/ CheckpointRunning(p)
         \/ CheckpointTerminal(p)
  PROVE  Advances(p) /\ Progress(p)' /\ job'[p].id = job[p].id
<1> DEFINE d == job[p].doc
           x == job[p].id
<1>1. rpc[p] \in {"validating", "stale", "checking", "scheduling"}
  BY DEF CheckpointValidating, CheckpointStale, CheckpointRunning, CheckpointTerminal
<1>2. x \in Executions /\ Fits(rpc[p], job[p], execs[x])
  BY <1>1 DEF Progress
<1>3. job[p] \in Jobs /\ d \in Documents
  BY JobIsJob
<1>4. \A s \in Statuses : /\ [d EXCEPT !.status = s] \in Documents
                          /\ [d EXCEPT !.status = s].status = s
                          /\ [d EXCEPT !.status = s].plan = d.plan
                          /\ CompletedOf([d EXCEPT !.status = s]) = CompletedOf(d)
  BY <1>3 DEF Documents, CompletedOf
<1>5. {"validating", "blocked", "running"} \subseteq OpenStatuses /\ OpenStatuses \subseteq Statuses
  BY DEF OpenStatuses, Statuses, FinishedStatuses
<1>6. \A doc \in Documents :
        LET j == [job[p] EXCEPT !.doc = doc] IN
        j.doc = doc /\ j.todo = job[p].todo /\ j.tally = job[p].tally /\ j.id = x
  BY <1>3 DEF Jobs
<1> HIDE DEF d, x
<1>7. CASE CheckpointValidating(p)
  <2> DEFINE doc == [d EXCEPT !.status = "validating"]
  <2>1. /\ doc \in Documents /\ Open(doc) /\ doc.plan = d.plan /\ CompletedOf(doc) = CompletedOf(d)
        /\ doc.status \in Statuses \ {"none"}
    BY <1>4, <1>5 DEF Open
  <2>2. Checkpoint(p, doc, job[p]) /\ rpc'[p] = "checking" /\ rpc[p] = "validating"
    BY <1>7 DEF CheckpointValidating, Goto, Types, RecoveryTypeOK, d
  <2> HIDE DEF doc
  <2>3. Advance(execs[x], doc)
    BY <1>2, <2>1, <2>2 DEF Fits, Reading, Advance, d
  <2>4. Fits("checking", [job[p] EXCEPT !.doc = doc], doc)
    BY <1>6, <2>1 DEF Fits, Reading, Looping, ActingPcs
  <2> QED
    BY <1>2, <1>3, <2>1, <2>2, <2>3, <2>4, CheckpointAdvances DEF x
<1>8. CASE CheckpointStale(p)
  <2> DEFINE doc == [d EXCEPT !.status = "blocked"]
  <2>1. /\ doc \in Documents /\ Open(doc) /\ doc.plan = d.plan /\ CompletedOf(doc) = CompletedOf(d)
        /\ doc.status \in Statuses \ {"none"}
    BY <1>4, <1>5 DEF Open, OpenStatuses
  <2>2. Checkpoint(p, doc, job[p]) /\ rpc'[p] = "unlocking" /\ rpc[p] = "stale"
    BY <1>8 DEF CheckpointStale, Goto, Types, RecoveryTypeOK, d
  <2> HIDE DEF doc
  <2>3. Advance(execs[x], doc)
    BY <1>2, <2>1, <2>2 DEF Fits, Reading, Advance, d
  <2>4. Fits("unlocking", [job[p] EXCEPT !.doc = doc], doc)
    BY <1>6, <2>1 DEF Fits, Reading, Looping, ActingPcs
  <2> QED
    BY <1>2, <1>3, <2>1, <2>2, <2>3, <2>4, CheckpointAdvances DEF x
<1>9. CASE CheckpointRunning(p)
  <2> DEFINE doc == [d EXCEPT !.status = "running"]
             j == [job[p] EXCEPT !.todo = d.plan.members]
  <2>1. /\ doc \in Documents /\ Open(doc) /\ doc.plan = d.plan /\ CompletedOf(doc) = CompletedOf(d)
        /\ doc.status \in Statuses \ {"none"}
    BY <1>4, <1>5 DEF Open, OpenStatuses
  <2>2. /\ j \in Jobs /\ j.id = x
        /\ [j EXCEPT !.doc = doc].todo = d.plan.members /\ [j EXCEPT !.doc = doc].doc = doc
    BY <1>3 DEF Jobs, Documents, Plans, x
  <2>3. Checkpoint(p, doc, j) /\ rpc'[p] = "scheduling" /\ rpc[p] = "checking"
    BY <1>9 DEF CheckpointRunning, Goto, Types, RecoveryTypeOK, d
  <2> HIDE DEF doc, j
  <2>4. Advance(execs[x], doc)
    BY <1>2, <2>1, <2>3 DEF Fits, Reading, Advance, d
  <2>5. Fits("scheduling", [j EXCEPT !.doc = doc], doc)
    BY <2>1, <2>2 DEF Fits, Reading, Looping, ActingPcs, Accounted
  <2> QED
    BY <1>2, <2>1, <2>2, <2>3, <2>4, <2>5, CheckpointAdvances DEF x
<1>10. CASE CheckpointTerminal(p)
  <2> DEFINE doc == [d EXCEPT !.status = Outcome(p)]
  <2>1. /\ doc \in Documents /\ doc.plan = d.plan /\ CompletedOf(doc) = CompletedOf(d)
        /\ doc.status = Outcome(p)
    BY <1>4, OutcomeIsStatus
  <2>2. /\ Checkpoint(p, doc, job[p]) /\ rpc'[p] = "reporting" /\ rpc[p] = "scheduling"
        /\ job[p].todo = {}
    BY <1>10 DEF CheckpointTerminal, Goto, Types, RecoveryTypeOK, d
  <2> HIDE DEF doc
  <2>3. /\ Outcome(p) \in Statuses \ {"none"}
        /\ Outcome(p) \in OpenStatuses \/ job[p].tally \cap {"failed", "blocked"} = {}
    BY DEF Outcome, Statuses, FinishedStatuses, OpenStatuses
  <2>4. execs[x] = d /\ Open(d) /\ Accounted(job[p])
    BY <1>2, <2>2 DEF Fits, Reading, Looping, d
  <2>5. Open(doc) \/ d.plan.members \subseteq CompletedOf(d)
    BY <2>1, <2>2, <2>3, <2>4 DEF Accounted, Open, d
  <2>6. Advance(execs[x], doc)
    BY <2>1, <2>3, <2>4, <2>5 DEF Advance
  <2>7. Fits("reporting", [job[p] EXCEPT !.doc = doc], doc)
    BY <1>6, <2>1 DEF Fits, Reading, Looping, ActingPcs
  <2> QED
    BY <1>2, <1>3, <2>1, <2>2, <2>6, <2>7, CheckpointAdvances DEF x
<1> QED
  BY <1>7, <1>8, <1>9, <1>10

\* Those of the action loop
LEMMA ProgressLoop ==
  ASSUME Types, NEW p \in Recoverers, Progress(p),
         CheckpointBlocked(p) \/ CheckpointStart(p) \/ CheckpointComplete(p) \/ CheckpointFailure(p)
  PROVE  Advances(p) /\ Progress(p)' /\ job'[p].id = job[p].id
<1> DEFINE d == job[p].doc
           x == job[p].id
           m == Current(p)
<1>1. rpc[p] \in {"scheduling", "completing", "failing"}
  BY DEF CheckpointBlocked, CheckpointStart, CheckpointComplete, CheckpointFailure, Scheduled
<1>2. /\ x \in Executions /\ execs[x] = d /\ Open(d) /\ Accounted(job[p])
      /\ rpc[p] # "scheduling" => MayComplete(job[p])
  BY <1>1 DEF Progress, Fits, Reading, Looping, ActingPcs
<1>3. job[p] \in Jobs /\ d \in Documents
  BY JobIsJob
<1>4. job[p].todo # {}
  BY <1>1 DEF CheckpointBlocked, CheckpointStart, CheckpointComplete, CheckpointFailure, Scheduled,
              Types, InHand, ActingPcs
<1>5. m \in Members /\ m \in job[p].todo /\ m \in d.plan.members
  BY <1>2, <1>4, CurrentIsMember DEF Accounted
<1>6. /\ {"running", "blocked", "completed", "failed"} \subseteq ActionStatuses
      /\ "failed" \in Statuses /\ "failed" \in OpenStatuses /\ OpenStatuses \subseteq Statuses \ {"none"}
  BY DEF ActionStatuses, Statuses, OpenStatuses, FinishedStatuses
<1>7. \A a \in ActionStatuses :
        /\ [d EXCEPT !.actions[m] = a] \in Documents
        /\ [d EXCEPT !.actions[m] = a].status = d.status
        /\ [d EXCEPT !.actions[m] = a].plan = d.plan
  BY <1>3, <1>5 DEF Documents
<1>8. \A doc \in Documents, j \in Jobs :
        LET k == [j EXCEPT !.doc = doc] IN
        k.doc = doc /\ k.todo = j.todo /\ k.tally = j.tally /\ k.id = j.id
  BY DEF Jobs
<1>9. /\ m \in CompletedOf(d) <=> d.actions[m] = "completed"
      /\ m = CHOOSE n \in job[p].todo : TRUE
      /\ ActionStatus(p) = d.actions[m]
      /\ Ready(p) => Dependencies[m] \subseteq CompletedOf(d)
  <2>1. Dependencies[m] \subseteq Members
    BY <1>5, DependenciesAssumption
  <2> QED
    BY <1>5, <2>1 DEF CompletedOf, Current, ActionStatus, Ready
<1>10. Done(p) \in Jobs /\ Done(p).todo = job[p].todo \ {m} /\ Done(p).id = x
       /\ Done(p).tally = job[p].tally /\ Done(p).copied = job[p].copied
  BY <1>3 DEF Done, Jobs
<1> HIDE DEF d, x, m
<1>15. ASSUME m \notin CompletedOf(d)
       PROVE  /\ CompletedOf([d EXCEPT !.actions[m] = "blocked"]) = CompletedOf(d)
              /\ CompletedOf([d EXCEPT !.actions[m] = "running"]) = CompletedOf(d)
              /\ CompletedOf([d EXCEPT !.status = "failed", !.actions[m] = "failed"]) = CompletedOf(d)
  <2>1. ASSUME NEW a, a # "completed", NEW doc, doc.actions = [d.actions EXCEPT ![m] = a]
        PROVE  CompletedOf(doc) = CompletedOf(d)
    BY <1>3, <1>15, <2>1 DEF CompletedOf, Documents
  <2>2. /\ \A a : [d EXCEPT !.actions[m] = a].actions = [d.actions EXCEPT ![m] = a]
        /\ [d EXCEPT !.status = "failed", !.actions[m] = "failed"].actions = [d.actions EXCEPT ![m] = "failed"]
    BY <1>3 DEF Documents
  <2> QED
    BY <2>1, <2>2
<1>11. CASE CheckpointBlocked(p)
  <2> DEFINE doc == [d EXCEPT !.actions[m] = "blocked"]
             j == [Done(p) EXCEPT !.tally = @ \cup {"blocked"}]
  <2>1. Checkpoint(p, doc, j) /\ rpc'[p] = "scheduling" /\ ActionStatus(p) # "completed"
    BY <1>11 DEF CheckpointBlocked, Scheduled, d, m
  <2>2. CompletedOf(doc) = CompletedOf(d)
    BY <1>9, <1>15, <2>1
  <2>3. /\ doc \in Documents /\ doc.plan = d.plan /\ doc.status = d.status
    BY <1>6, <1>7
  <2>4. j \in Jobs /\ j.id = x /\ j.todo = job[p].todo \ {m} /\ "blocked" \in j.tally
    BY <1>10 DEF Jobs
  <2> HIDE DEF doc, j
  <2>5. Advance(execs[x], doc)
    BY <1>2, <1>6, <2>2, <2>3 DEF Advance, Open
  <2>6. Fits("scheduling", [j EXCEPT !.doc = doc], doc)
    <3>1. Accounted([j EXCEPT !.doc = doc])
      BY <1>2, <1>8, <2>3, <2>4 DEF Accounted, d
    <3> QED
      BY <1>2, <1>8, <2>3, <2>4, <3>1 DEF Fits, Reading, Looping, ActingPcs, Open
  <2> QED
    BY <1>2, <2>1, <2>3, <2>4, <2>5, <2>6, CheckpointAdvances DEF x
<1>12. CASE CheckpointStart(p)
  <2> DEFINE doc == [d EXCEPT !.actions[m] = "running"]
  <2>1. /\ Checkpoint(p, doc, job[p]) /\ rpc'[p] = "acting"
        /\ ActionStatus(p) # "completed" /\ Ready(p)
    BY <1>12 DEF CheckpointStart, Goto, Types, RecoveryTypeOK, d, m
  <2>2. CompletedOf(doc) = CompletedOf(d)
    BY <1>9, <1>15, <2>1
  <2>3. /\ doc \in Documents /\ doc.plan = d.plan /\ doc.status = d.status
    BY <1>6, <1>7
  <2> HIDE DEF doc
  <2>4. Advance(execs[x], doc)
    BY <1>2, <1>6, <2>2, <2>3 DEF Advance, Open
  <2>5. Fits("acting", [job[p] EXCEPT !.doc = doc], doc)
    <3>1. Accounted([job[p] EXCEPT !.doc = doc])
      BY <1>2, <1>3, <1>8, <2>2, <2>3 DEF Accounted, d
    <3>2. MayComplete([job[p] EXCEPT !.doc = doc])
      BY <1>3, <1>8, <1>9, <2>1, <2>2, <2>3 DEF MayComplete
    <3> QED
      BY <1>2, <1>3, <1>8, <2>3, <3>1, <3>2 DEF Fits, Reading, Looping, ActingPcs, Open
  <2> QED
    BY <1>2, <1>3, <2>1, <2>3, <2>4, <2>5, CheckpointAdvances DEF x
<1>13. CASE CheckpointComplete(p)
  <2> DEFINE doc == [d EXCEPT !.actions[m] = "completed"]
             j == [Done(p) EXCEPT !.copied = @ \cup {m}]
  <2>1. Checkpoint(p, doc, j) /\ rpc'[p] = "scheduling" /\ rpc[p] = "completing"
    BY <1>13 DEF CheckpointComplete, Goto, Types, RecoveryTypeOK, d, m
  <2>2. CompletedOf(doc) = CompletedOf(d) \cup {m}
    BY <1>3, <1>5, CompletedOfIs
  <2>3. /\ doc \in Documents /\ doc.plan = d.plan /\ doc.status = d.status
    BY <1>6, <1>7
  <2>4. j \in Jobs /\ j.id = x /\ j.todo = job[p].todo \ {m} /\ j.tally = job[p].tally
    BY <1>5, <1>10 DEF Jobs
  <2>5. m \notin CompletedOf(d) /\ Dependencies[m] \subseteq CompletedOf(d)
    BY <1>2, <1>9, <2>1 DEF MayComplete, d
  <2> HIDE DEF doc, j
  <2>6. Advance(execs[x], doc)
    BY <1>2, <1>5, <1>6, <2>2, <2>3, <2>5 DEF Advance, Open
  <2>7. Fits("scheduling", [j EXCEPT !.doc = doc], doc)
    <3>1. Accounted([j EXCEPT !.doc = doc])
      BY <1>2, <1>8, <2>2, <2>3, <2>4 DEF Accounted, d
    <3> QED
      BY <1>2, <1>8, <2>3, <2>4, <3>1 DEF Fits, Reading, Looping, ActingPcs, Open
  <2> QED
    BY <1>2, <2>1, <2>3, <2>4, <2>6, <2>7, CheckpointAdvances DEF x
<1>14. CASE CheckpointFailure(p)
  <2> DEFINE doc == [d EXCEPT !.status = "failed", !.actions[m] = "failed"]
             j == [job[p] EXCEPT !.todo = {}, !.tally = @ \cup {"failed"}]
  <2>1. Checkpoint(p, doc, j) /\ rpc'[p] = "scheduling" /\ rpc[p] = "failing"
    BY <1>14 DEF CheckpointFailure, Goto, Types, RecoveryTypeOK, d, m
  <2>2. m \notin CompletedOf(d)
    BY <1>2, <1>9, <2>1 DEF MayComplete, d
  <2>3. CompletedOf(doc) = CompletedOf(d)
    BY <1>15, <2>2
  <2>4. /\ doc \in Documents /\ doc.plan = d.plan /\ doc.status = "failed"
    BY <1>3, <1>5, <1>6 DEF Documents
  <2>5. j \in Jobs /\ j.id = x /\ j.todo = {} /\ "failed" \in j.tally
    BY <1>3 DEF Jobs, x
  <2> HIDE DEF doc, j
  <2>6. Advance(execs[x], doc)
    BY <1>2, <1>6, <2>3, <2>4 DEF Advance, Open
  <2>7. Fits("scheduling", [j EXCEPT !.doc = doc], doc)
    <3>1. Accounted([j EXCEPT !.doc = doc])
      BY <1>8, <2>4, <2>5 DEF Accounted
    <3> QED
      BY <1>6, <1>8, <2>4, <2>5, <3>1 DEF Fits, Reading, Looping, ActingPcs, Open
  <2> QED
    BY <1>2, <2>1, <2>4, <2>5, <2>6, <2>7, CheckpointAdvances DEF x
<1> QED
  BY <1>11, <1>12, <1>13, <1>14

\* An action already completed is passed by.
LEMMA ProgressSkip ==
  ASSUME Types, NEW p \in Recoverers, Progress(p), SkipCompleted(p)
  PROVE  Progress(p)' /\ UNCHANGED <<execs, reports>>
<1> DEFINE m == Current(p)
           j == [Done(p) EXCEPT !.tally = @ \cup {"skipped"}]
<1>1. /\ rpc[p] = "scheduling" /\ rpc'[p] = "scheduling" /\ m \in job[p].todo
      /\ job[p].doc.actions[m] = "completed" /\ m \in Members
      /\ UNCHANGED <<execs, reports>> /\ job'[p] = j
  BY CurrentIsMember DEF SkipCompleted, Scheduled, ActionStatus, Remember, Types, RecoveryTypeOK
<1>2. /\ j.id = job[p].id /\ j.doc = job[p].doc /\ j.todo = job[p].todo \ {m}
      /\ j.tally = job[p].tally \cup {"skipped"}
  BY JobIsJob DEF Done, Jobs
<1> HIDE DEF m, j
<1>3. job[p].id \in Executions /\ Fits("scheduling", job[p], execs[job[p].id])
  BY <1>1 DEF Progress
<1>4. Accounted(j)
  BY <1>1, <1>2, <1>3 DEF Fits, Looping, Accounted, CompletedOf
<1>5. Fits("scheduling", j, execs[job[p].id])
  BY <1>2, <1>3, <1>4 DEF Fits, Reading, Looping, ActingPcs
<1> QED
  BY <1>1, <1>2, <1>3, <1>5 DEF Progress

\* A new command holds a new document, or the one on disk.
LEMMA ProgressStart ==
  ASSUME Types, Promising, NEW p \in Recoverers, Start(p)
  PROVE  Progress(p)' /\ UNCHANGED <<execs, reports>>
<1>1. CASE \E pl \in plans, x \in Executions : Execute(p, pl, x)
  <2>1. PICK pl \in plans, x \in Executions : Execute(p, pl, x)
    BY <1>1
  <2> DEFINE j == Listing(x, NewDocument(pl))
  <2>2. rpc'[p] = "locking" /\ job'[p] = j /\ execs[x] = NoDocument /\ UNCHANGED <<execs, reports>>
    BY <2>1 DEF Execute, InUse, Goto, Remember, Promising, Types, RecoveryTypeOK
  <2>3. j.id = x /\ j.doc = NewDocument(pl)
    BY DEF Listing, NoJob
  <2>4. Open(NewDocument(pl)) /\ CompletedOf(NewDocument(pl)) = {}
    BY DEF NewDocument, Open, OpenStatuses, CompletedOf, Statuses, FinishedStatuses
  <2> HIDE DEF j
  <2> QED
    BY <2>2, <2>3, <2>4 DEF Progress, Fits, Reading, Looping, ActingPcs
<1>2. CASE \E x \in Executions : Resume(p, x)
  <2>1. PICK x \in Executions : Resume(p, x)
    BY <1>2
  <2> DEFINE j == Listing(x, execs[x])
  <2>2. /\ rpc'[p] = "locking" /\ job'[p] = j /\ UNCHANGED <<execs, reports>>
        /\ execs[x].status \notin FinishedStatuses \cup {"none"}
    BY <2>1 DEF Resume, Goto, Remember, Types, RecoveryTypeOK
  <2>3. j.id = x /\ j.doc = execs[x]
    BY DEF Listing, NoJob
  <2>4. Open(execs[x])
    BY <2>2 DEF Open, OpenStatuses, Types, RecoveryTypeOK, Documents
  <2> HIDE DEF j
  <2> QED
    BY <2>2, <2>3, <2>4 DEF Progress, Fits, Reading, Looping, ActingPcs
<1> QED
  BY <1>1, <1>2 DEF Start

\* Locks, reports, files and entries
LEMMA QuietSteps ==
  ASSUME Types, NEW p \in Recoverers,
         \/ CreateLock(p) \/ EnterBlock(p) \/ ResaveEntry(p) \/ EntriesResaved(p)
         \/ SourceStale(p) \/ SaveReport(p)
         \/ NothingToDo(p) \/ ExecutorRefuses(p) \/ ExecutorFails(p) \/ MoveEntry(p)
         \/ RecordHashes(p) \/ MoveRecorded(p)
         \/ KeepDestination(p) \/ DecideToCopy(p) \/ PlaceDestination(p)
         \/ MovePlaced(p) \/ VerifyDestination(p)
  PROVE  Quietly(p)
<1>1. CASE \/ CreateLock(p) \/ EnterBlock(p) \/ EntriesResaved(p) \/ SourceStale(p) \/ SaveReport(p)
           \/ NothingToDo(p) \/ ExecutorRefuses(p) \/ ExecutorFails(p) \/ KeepDestination(p)
           \/ DecideToCopy(p) \/ PlaceDestination(p)
  BY <1>1 DEF CreateLock, EnterBlock, EntriesResaved, SourceStale, SaveReport, NothingToDo,
              ExecutorRefuses, ExecutorFails, KeepDestination, DecideToCopy, PlaceDestination, Goto,
              Quietly, Reading, ActingPcs, Trying, Types, RecoveryTypeOK
<1>2. ASSUME NEW m, NEW e, SaveHeld(p, m, e) \/ UNCHANGED job, UNCHANGED execs,
             {rpc[p], rpc'[p]} \subseteq ActingPcs
      PROVE  Quietly(p)
  <2>1. job'[p] = [job[p] EXCEPT !.snap[m] = e] \/ job'[p] = job[p]
    BY <1>2 DEF SaveHeld, Remember, Types, RecoveryTypeOK
  <2>2. /\ job'[p].id = job[p].id /\ job'[p].doc = job[p].doc
        /\ job'[p].todo = job[p].todo /\ job'[p].tally = job[p].tally
    BY <2>1, JobIsJob DEF Jobs
  <2> QED
    BY <1>2, <2>2 DEF Quietly
<1>3. CASE MoveEntry(p) \/ RecordHashes(p) \/ MoveRecorded(p) \/ MovePlaced(p) \/ VerifyDestination(p)
  <2>1. UNCHANGED execs /\ {rpc[p], rpc'[p]} \subseteq ActingPcs
    BY <1>3 DEF MoveEntry, RecordHashes, MoveRecorded, MovePlaced, VerifyDestination, Goto, ActingPcs,
                Types, RecoveryTypeOK
  <2>2. \E m, e : SaveHeld(p, m, e) \/ UNCHANGED job
    BY <1>3 DEF MoveEntry, RecordHashes, MoveRecorded, MovePlaced, VerifyDestination, MoveHeld
  <2> QED
    BY <1>2, <2>1, <2>2
<1>4. CASE ResaveEntry(p)
  <2>1. job'[p] = [job[p] EXCEPT !.todo = @ \ {Current(p)}] /\ UNCHANGED <<execs, rpc>>
    BY <1>4 DEF ResaveEntry, Remember, Types, RecoveryTypeOK
  <2>2. job'[p].id = job[p].id /\ job'[p].doc = job[p].doc
    BY <2>1, JobIsJob DEF Jobs
  <2> QED
    BY <1>4, <2>1, <2>2 DEF ResaveEntry, Quietly, Reading
<1> QED
  BY <1>1, <1>3, <1>4

\* Every step of a command: it keeps what the command knows, and the documents
\* and reports stay or follow those before.
LEMMA ProgressStep ==
  ASSUME Types, Promising, NEW p \in Recoverers,
         Start(p) \/ Proceed(p) \/ Trouble(p)
  PROVE  /\ Progress(p)'
         /\ \/ UNCHANGED <<execs, reports>>
            \/ UNCHANGED execs /\ (SourceStale(p) \/ SaveReport(p))
            \/ Advances(p) /\ UNCHANGED reports /\ rpc[p] # "idle"
<1>1. Progress(p)
  BY DEF Promising
<1>2. CASE Start(p) \/ SkipCompleted(p)
  BY <1>1, <1>2, ProgressStart, ProgressSkip
<1>3. CASE LockRefused(p) \/ ReleaseLock(p) \/ Interrupt(p) \/ LockFails(p) \/ Crash(p)
  <2>1. Leave(p) /\ UNCHANGED <<execs, reports>>
    BY <1>3 DEF LockRefused, ReleaseLock, Interrupt, LockFails, Crash
  <2> QED
    BY <2>1, LeaveTypes DEF Progress
<1>4. CASE \/ CreateLock(p) \/ EnterBlock(p) \/ ResaveEntry(p) \/ EntriesResaved(p)
           \/ SourceStale(p) \/ SaveReport(p)
           \/ NothingToDo(p) \/ ExecutorRefuses(p) \/ ExecutorFails(p) \/ MoveEntry(p)
           \/ RecordHashes(p) \/ MoveRecorded(p)
           \/ KeepDestination(p) \/ DecideToCopy(p) \/ PlaceDestination(p)
           \/ MovePlaced(p) \/ VerifyDestination(p)
  <2>1. UNCHANGED execs /\ Progress(p)'
    BY <1>1, <1>4, QuietSteps, QuietlyKeepsProgress DEF Quietly
  <2>2. UNCHANGED reports \/ SourceStale(p) \/ SaveReport(p)
    BY <1>4 DEF CreateLock, EnterBlock, ResaveEntry, EntriesResaved, NothingToDo, ExecutorRefuses,
                ExecutorFails, MoveEntry, RecordHashes, MoveRecorded, KeepDestination, DecideToCopy, PlaceDestination, MovePlaced,
                VerifyDestination
  <2> QED
    BY <2>1, <2>2
<1>5. CASE \/ CheckpointValidating(p) \/ CheckpointStale(p) \/ CheckpointRunning(p)
           \/ CheckpointTerminal(p) \/ CheckpointBlocked(p) \/ CheckpointStart(p)
           \/ CheckpointComplete(p) \/ CheckpointFailure(p)
  <2>1. UNCHANGED reports /\ rpc[p] # "idle"
    BY <1>5 DEF CheckpointValidating, CheckpointStale, CheckpointRunning, CheckpointTerminal,
                CheckpointBlocked, CheckpointStart, CheckpointComplete, CheckpointFailure, Scheduled
  <2> QED
    BY <1>1, <1>5, <2>1, ProgressCheckpoint, ProgressLoop
<1> QED
  BY <1>2, <1>3, <1>4, <1>5 DEF Proceed, Trouble

\* What a step of p leaves of the others
LEMMA OthersStay ==
  ASSUME Types, PlanLockExcludes, NEW p \in Recoverers,
         Start(p) \/ Proceed(p) \/ Trouble(p)
  PROVE  \A q \in Recoverers \ {p} : rpc'[q] = rpc[q] /\ job'[q] = job[q]
<1>1. CASE CreateLock(p)
  BY <1>1 DEF CreateLock, Goto, Types, RecoveryTypeOK
<1>2. CASE StaysLocked(p) \/ StaysOut(p)
  BY <1>2 DEF StaysLocked, StaysOut
<1> QED
  BY <1>1, <1>2, CommandsStayOut, CheckpointsStayLocked, ExecutorStaysLocked DEF Proceed, Trouble

\* A report says what the execution document says.
LEMMA ReportsStayTrue ==
  ASSUME Types, Promising, NEW p \in Recoverers, SourceStale(p) \/ SaveReport(p), UNCHANGED execs
  PROVE  FinishedIsFinished'
<1> DEFINE x == job[p].id
<1>1. x \in Executions /\ execs[x] = job[p].doc
  BY DEF Promising, Progress, Fits, Reading, SourceStale, SaveReport
<1>2. PICK r : /\ reports' = [reports EXCEPT ![x] = r]
               /\ r.result = "stale" \/ r.result = job[p].doc.status
  BY DEF SourceStale, SaveReport
<1>3. reports'[x] = r /\ \A y \in Executions \ {x} : reports'[y] = reports[y]
  BY <1>1, <1>2 DEF Types, RecoveryTypeOK
<1> HIDE DEF x
<1> QED
  BY <1>1, <1>2, <1>3 DEF Promising, FinishedIsFinished, FinishedStatuses

CompletedStay ==
  \A x \in Executions, m \in Members :
    execs[x].actions[m] = "completed" => execs'[x].actions[m] = "completed"

\* Commands that are apart keep the promise, step by step.  Nothing else
\* touches execution documents.
LEMMA PromisingStep ==
  ASSUME Types, PlanLockExcludes, Promising, RunsApart, RecoveryNext \/ UNCHANGED recoveryVars
  PROVE  Promising' /\ CompletedStay /\ [Promised!Next]_(Promised!vars)
<1>1. ASSUME UNCHANGED execs
      PROVE  CompletedStay /\ [Promised!Next]_(Promised!vars)
  BY <1>1 DEF CompletedStay, Promised!vars, Begun, Goal, CompletedActions, Finished
<1>2. ASSUME NEW p \in Recoverers, Start(p) \/ Proceed(p) \/ Trouble(p)
      PROVE  Promising' /\ CompletedStay /\ [Promised!Next]_(Promised!vars)
  <2>1. \A q \in Recoverers \ {p} : rpc'[q] = rpc[q] /\ job'[q] = job[q]
    BY <1>2, OthersStay
  <2>2. Progress(p)'
    BY <1>2, ProgressStep
  <2>3. ASSUME UNCHANGED execs
        PROVE  \A q \in Recoverers : Progress(q)'
    BY <2>1, <2>2, <2>3 DEF Promising, Progress
  <2>4. CASE UNCHANGED <<execs, reports>>
    BY <1>1, <2>3, <2>4 DEF Promising, FinishedIsFinished
  <2>5. CASE UNCHANGED execs /\ (SourceStale(p) \/ SaveReport(p))
    BY <1>1, <2>3, <2>5, ReportsStayTrue DEF Promising
  <2>6. CASE Advances(p) /\ UNCHANGED reports /\ rpc[p] # "idle"
    <3>1. job[p].id \in Executions
      BY <2>6 DEF Promising, Progress
    <3>2. PICK doc \in Documents : /\ Advance(execs[job[p].id], doc)
                                   /\ execs' = [execs EXCEPT ![job[p].id] = doc]
      BY <2>6 DEF Advances
    <3>3. ASSUME NEW q \in Recoverers \ {p}
          PROVE  Progress(q)'
      <4>1. rpc[q] # "idle" => job[q].id \in Executions /\ job[q].id # job[p].id
        BY <2>6 DEF RunsApart, Promising, Progress
      <4>2. rpc[q] # "idle" => execs'[job[q].id] = execs[job[q].id]
        BY <3>2, <4>1 DEF Types, RecoveryTypeOK
      <4> QED
        BY <2>1, <4>1, <4>2 DEF Promising, Progress
    <3>4. Promising'
      BY <2>2, <2>6, <3>1, <3>2, <3>3, AdvanceKeepsDocuments DEF Promising
    <3>5. CompletedStay
      BY <3>1, <3>2, AdvanceKeepsCompleted DEF CompletedStay
    <3>6. [Promised!Next]_(Promised!vars)
      BY <3>1, <3>2, AdvanceIsPromised
    <3> QED
      BY <3>4, <3>5, <3>6
  <2> QED
    BY <1>2, <2>4, <2>5, <2>6, ProgressStep
<1>3. CASE UNCHANGED <<execs, reports, rpc, job>>
  BY <1>1, <1>3 DEF Promising, Progress, FinishedIsFinished
<1>4. CASE WritePlan \/ (\E pl \in lock : OperatorClearsLock(pl)) \/ UNCHANGED recoveryVars
  BY <1>3, <1>4 DEF WritePlan, OperatorClearsLock, recoveryVars
<1> QED
  BY <1>2, <1>4 DEF RecoveryNext

LEMMA PromisingInit ==
  ASSUME RecoveryInit
  PROVE  Promising /\ Promised!Init
<1>1. execs = [x \in Executions |-> NoDocument] /\ \A x \in Executions : reports[x].result = "none"
  BY DEF RecoveryInit, NoReport
<1>2. "none" \notin FinishedStatuses
  BY DEF FinishedStatuses
<1>3. Promising
  BY <1>1, <1>2, NoDocumentIsBlank DEF RecoveryInit, Promising, Progress, FinishedIsFinished
<1>4. Begun = {} /\ Finished = {} /\ Goal = [x \in Executions |-> {}]
  BY <1>1, <1>2, NoDocumentIsBlank DEF Begun, Finished, Goal
<1>5. CompletedActions = [x \in Executions |-> {}]
  BY <1>1, NoDocumentIsBlank DEF CompletedActions, CompletedOf
<1> QED
  BY <1>3, <1>4, <1>5 DEF Promised!Init

\* The facts every theorem of this section rests on
LEMMA PromisingAlways ==
  RecoverySpec /\ []RunsApart => [](Types /\ PlanLockExcludes /\ Promising)
<1>1. RecoveryStart => Types /\ PlanLockExcludes /\ Promising
  BY TypesInit, ExclusionInit, PromisingInit DEF RecoveryStart
<1>2. Types /\ PlanLockExcludes /\ Promising /\ RunsApart /\ [RecoveryStep]_<<diskVars, recoveryVars>>
        => Types' /\ PlanLockExcludes' /\ Promising'
  BY TypesStep, ExclusionStep, PromisingStep DEF RecoveryStep, recoveryVars
<1> QED
  BY <1>1, <1>2, PTL DEF RecoverySpec

\* An execution that says it is finished finished every action of its plan,
\* and so says its report, when no two commands are at one execution
\* (recovery_workflow.py:291-368).
THEOREM FinishedExecutionsAreFinished == RecoverySpec /\ []RunsApart => []FinishedIsFinished
<1>1. Promising => FinishedIsFinished
  BY DEF Promising
<1> QED
  BY <1>1, PromisingAlways, PTL

\* Under the same condition no crash, resume or later run forgets an action
\* that was completed (recovery_workflow.py:285-375).
THEOREM NoCompletedActionIsForgotten == RecoverySpec /\ []RunsApart => CompletedActionsAreKept
<1>1. Types /\ PlanLockExcludes /\ Promising /\ RunsApart /\ [RecoveryStep]_<<diskVars, recoveryVars>>
        => [CompletedStay]_execs
  BY PromisingStep DEF RecoveryStep, recoveryVars
<1> QED
  BY <1>1, PromisingAlways, PTL DEF RecoverySpec, CompletedActionsAreKept, CompletedStay

\* And it implements CheckpointedExecution: every step of the workflow begins,
\* completes or finishes one execution, or is none of the promise's business.
THEOREM WorkflowKeepsPromise == RecoverySpec /\ []RunsApart => KeepsPromise
<1>1. RecoveryStart => Promised!Init
  BY PromisingInit DEF RecoveryStart
<1>2. Types /\ PlanLockExcludes /\ Promising /\ RunsApart /\ [RecoveryStep]_<<diskVars, recoveryVars>>
        => [Promised!Next]_(Promised!vars)
  BY PromisingStep DEF RecoveryStep, recoveryVars
<1> QED
  BY <1>1, <1>2, PromisingAlways, PTL DEF RecoverySpec, KeepsPromise, Promised!Spec
=============================================================================
