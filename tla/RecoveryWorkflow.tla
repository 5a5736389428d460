-------------------------- MODULE RecoveryWorkflow --------------------------
(***************************************************************************)
(* recovery-plan, recovery-execute and recovery-resume: the checkpointed   *)
(* RecoveryOrchestrator of recovery_workflow.py driving the executor of    *)
(* recovery.py over the entries of one transaction.                        *)
(*                                                                         *)
(* A recoverer is one command line process.  Every durable write (entry    *)
(* document, execution document, report, lock file, destination file) is   *)
(* an action of its own, so a crash or another process can come between    *)
(* any two of them.  What the process holds in memory is job[p].           *)
(* Transition events are an append-only log nothing reads back, and        *)
(* revisions and timestamps are never compared: both are left out.         *)
(***************************************************************************)
EXTENDS TransactionStore

CONSTANTS
  Recoverers,    \* recovery command processes
  Executions,    \* execution ids (uuid4) that may be drawn: bounds fresh runs
  NoExecution,   \* no execution id: an idle process
  MaxPlans,      \* bound on the plans an operator writes
  ChecksSource,  \* execute is passed a source: by the commands always, by tests not
  Dependencies   \* actions each member's action depends on

ASSUME ChecksSourceAssumption == ChecksSource \in BOOLEAN
ASSUME NoExecutionAssumption == NoExecution \notin Executions
ASSUME MaxPlansAssumption == MaxPlans \in Nat
ASSUME DependenciesAssumption == Dependencies \in [Members -> SUBSET Members]

VARIABLES
  plans,    \* saved recovery plans
  lock,     \* plans whose .lock file exists
  execs,    \* execution-state document of each execution id
  reports,  \* audit report of each execution id
  rpc,      \* where each recoverer is
  job       \* its memory

recoveryVars == <<plans, lock, execs, reports, rpc, job>>

\* A plan id hashes the entries it lists and which were satisfied already.
Plans == [members : SUBSET Members, satisfied : SUBSET Members]
NoPlan == [members |-> {}, satisfied |-> {}]
PlanOf(e) ==
  [members   |-> {m \in Members : e[m].state # "absent"},
   satisfied |-> {m \in Members : e[m].state \in SuccessStates}]

FinishedStatuses == {"completed", "completed_with_skips"}
Statuses == FinishedStatuses \cup
  {"none", "created", "validating", "running", "blocked", "failed"}
ActionStatuses == {"none", "blocked", "running", "completed", "failed"}

Documents == [plan : Plans, status : Statuses, actions : [Members -> ActionStatuses]]
NewDocument(pl) ==
  [plan |-> pl, status |-> "created", actions |-> [m \in Members |-> "none"]]
NoDocument == [NewDocument(NoPlan) EXCEPT !.status = "none"]

Reports == [result : Statuses \cup {"stale"}, copied : SUBSET Members]
NoReport == [result |-> "none", copied |-> {}]

\* Between PlanLock.__enter__ creating the file and __exit__ removing it
Locked == {"entering", "resaving", "validating", "checking", "stale", "scheduling",
           "acting", "recorded", "copying", "placed", "verifying", "completing",
           "failing", "reporting", "unlocking"}
RecoveryPcs == {"idle", "locking"} \cup Locked

\* Where the executor is at work on an action, inside the try of the loop
Trying == {"acting", "recorded", "copying", "placed", "verifying", "completing"}

Jobs ==
  [id     : Executions \cup {NoExecution},
   snap   : [Members -> Entries],      \* entries as the process holds them
   doc    : Documents,                 \* execution state as it holds it
   todo   : SUBSET Members,            \* entries to write back, then actions to reach
   tally  : SUBSET {"failed", "blocked", "skipped"},
   copied : SUBSET Members]            \* members it will report as copied

\* In memory of a process that runs no command
NoJob == [id     |-> NoExecution,
          snap   |-> [m \in Members |-> Absent],
          doc    |-> NoDocument,
          todo   |-> {},
          tally  |-> {},
          copied |-> {}]

RecoveryTypeOK ==
  /\ plans \subseteq Plans
  /\ lock \subseteq Plans
  /\ execs \in [Executions -> Documents]
  /\ reports \in [Executions -> Reports]
  /\ rpc \in [Recoverers -> RecoveryPcs]
  /\ job \in [Recoverers -> Jobs]

RecoveryInit ==
  /\ plans = {}
  /\ lock = {}
  /\ execs = [x \in Executions |-> NoDocument]
  /\ reports = [x \in Executions |-> NoReport]
  /\ rpc = [p \in Recoverers |-> "idle"]
  /\ job = [p \in Recoverers |-> NoJob]

-----------------------------------------------------------------------------
(* What the executor reads *)

\* A plan lists its actions by target path: some fixed order of members.
Current(p) == CHOOSE m \in job[p].todo : TRUE
Held(p) == job[p].snap[Current(p)]
Action(p) == RecoveryActions[Held(p).state]

\* validate_staging: the file exists and no recorded hashes contradict it
StagingValid(e, m) == staged[Primary(m)] # "none" /\ ~e.recorded

\* verify_destination, called with the entry's own hashes or none
DestinationValid(e, m) == dest[Primary(m)] # "none" /\ ~e.recorded

CopyActions == {"copy-from-staging", "finalize-temporary-destination"}
StagingActions == {"validate-staging", "rehash-staging"}

\* The state each remaining action moves an entry to
TailTarget(a) ==
  CASE a = "start-entry"         -> "opening-source"
    [] a = "restart-stream"      -> "opening-source"
    [] a = "complete-metadata"   -> "completed"
    [] a = "complete-provenance" -> "provenance-only"
    [] OTHER                     -> "none"
TailActions == {"start-entry", "restart-stream", "complete-metadata", "complete-provenance"}

\* copy-from-staging refuses a destination that differs from the staged file
Conflicting(p) ==
  LET f == Primary(Current(p))
  IN Action(p) = "copy-from-staging" /\ dest[f] \notin {"none", staged[f]}

-----------------------------------------------------------------------------
(* Steps of a process *)

Goto(p, pc) == rpc' = [rpc EXCEPT ![p] = pc]
Remember(p, j) == job' = [job EXCEPT ![p] = j]

\* _checkpoint: replace the execution document, in memory and on disk
Checkpoint(p, doc, j) ==
  /\ execs' = [execs EXCEPT ![j.id] = doc]
  /\ Remember(p, [j EXCEPT !.doc = doc])

\* save_entry: the process's own copy and the document on disk
SaveHeld(p, m, e) ==
  /\ entry' = [entry EXCEPT ![m] = e]
  /\ Remember(p, [job[p] EXCEPT !.snap[m] = e])

\* mutant: the transition table is not consulted
MoveHeldUnchecked(p, m, e, state) == SaveHeld(p, m, [e EXCEPT !.state = state])

MoveHeld(p, m, e, state) ==
  /\ MayMove(e, state)
  /\ SaveHeld(p, m, [e EXCEPT !.state = state])

\* recovery-plan --write
WritePlan ==
  /\ Cardinality(plans) < MaxPlans
  /\ plans' = plans \cup {PlanOf(entry)}
  /\ UNCHANGED <<lock, execs, reports, rpc, job, diskVars>>

InUse(x) == execs[x].status # "none" \/ \E p \in Recoverers : job[p].id = x

\* What a command holds of the entries it lists, all of them to be written back
Listing(x, doc) ==
  [NoJob EXCEPT !.id = x, !.doc = doc, !.snap = entry, !.todo = Listed]

\* recovery-execute: read the plan and the entries, before taking the lock
Execute(p, pl, x) ==
  /\ rpc[p] = "idle"
  /\ ~InUse(x)
  /\ Goto(p, "locking")
  /\ Remember(p, Listing(x, NewDocument(pl)))
  /\ UNCHANGED <<plans, lock, execs, reports, diskVars>>

\* mutant: the execution document is started over
ResumeAfresh(p, x) ==
  /\ rpc[p] = "idle"
  /\ execs[x].status \notin FinishedStatuses \cup {"none"}
  /\ Goto(p, "locking")
  /\ Remember(p, Listing(x, NewDocument(execs[x].plan)))
  /\ UNCHANGED <<plans, lock, execs, reports, diskVars>>

\* recovery-resume: read the entries and the execution document, before taking
\* the lock.  A finished execution only has its report loaded and printed.
Resume(p, x) ==
  /\ rpc[p] = "idle"
  /\ execs[x].status \notin FinishedStatuses \cup {"none"}
  /\ Goto(p, "locking")
  /\ Remember(p, Listing(x, execs[x]))
  /\ UNCHANGED <<plans, lock, execs, reports, diskVars>>

Leave(p) == Goto(p, "idle") /\ Remember(p, NoJob)

\* mutant: the lock file is opened without O_EXCL
CreateLockShared(p) ==
  /\ rpc[p] = "locking"
  /\ lock' = lock \cup {job[p].doc.plan}
  /\ Goto(p, "entering")
  /\ UNCHANGED <<plans, execs, reports, job, diskVars>>

\* mutant: wait until the lock is free
WaitForLock(p) == FALSE

\* PlanLock.__enter__ opens the file with O_CREAT | O_EXCL.
CreateLock(p) ==
  /\ rpc[p] = "locking"
  /\ job[p].doc.plan \notin lock
  /\ lock' = lock \cup {job[p].doc.plan}
  /\ Goto(p, "entering")
  /\ UNCHANGED <<plans, execs, reports, job, diskVars>>

\* It writes the owner into the file, and the with block is entered.
EnterBlock(p) ==
  /\ rpc[p] = "entering"
  /\ Goto(p, "resaving")
  /\ UNCHANGED <<plans, lock, execs, reports, job, diskVars>>

LockRefused(p) ==
  /\ rpc[p] = "locking"
  /\ job[p].doc.plan \in lock
  /\ Leave(p)
  /\ UNCHANGED <<plans, lock, execs, reports, diskVars>>

\* Every entry the caller passed in is written back as it was read.
ResaveEntry(p) ==
  /\ rpc[p] = "resaving" /\ job[p].todo # {}
  /\ entry' = [entry EXCEPT ![Current(p)] = Held(p)]
  /\ Remember(p, [job[p] EXCEPT !.todo = @ \ {Current(p)}])
  /\ UNCHANGED <<plans, lock, execs, reports, rpc, staged, dest, source>>

EntriesResaved(p) ==
  /\ rpc[p] = "resaving" /\ job[p].todo = {}
  /\ Goto(p, "validating")
  /\ UNCHANGED <<plans, lock, execs, reports, job, diskVars>>

CheckpointValidating(p) ==
  /\ rpc[p] = "validating"
  /\ Checkpoint(p, [job[p].doc EXCEPT !.status = "validating"], job[p])
  /\ Goto(p, "checking")
  /\ UNCHANGED <<plans, lock, reports, diskVars>>

SourceStale(p) ==
  /\ rpc[p] = "checking"
  /\ ChecksSource /\ source = "changed"
  /\ reports' = [reports EXCEPT ![job[p].id] = [result |-> "stale", copied |-> {}]]
  /\ Goto(p, "stale")
  /\ UNCHANGED <<plans, lock, execs, job, diskVars>>

\* mutant: the early return does not unlock
CheckpointStaleAndReturn(p) ==
  /\ rpc[p] = "stale"
  /\ execs' = [execs EXCEPT ![job[p].id] = [job[p].doc EXCEPT !.status = "blocked"]]
  /\ Leave(p)
  /\ UNCHANGED <<plans, lock, reports, diskVars>>

CheckpointStale(p) ==
  /\ rpc[p] = "stale"
  /\ Checkpoint(p, [job[p].doc EXCEPT !.status = "blocked"], job[p])
  /\ Goto(p, "unlocking")
  /\ UNCHANGED <<plans, lock, reports, diskVars>>

CheckpointRunning(p) ==
  /\ rpc[p] = "checking"
  /\ ~(ChecksSource /\ source = "changed")
  /\ Checkpoint(p, [job[p].doc EXCEPT !.status = "running"],
                [job[p] EXCEPT !.todo = job[p].doc.plan.members])
  /\ Goto(p, "scheduling")
  /\ UNCHANGED <<plans, lock, reports, diskVars>>

-----------------------------------------------------------------------------
(* The action loop *)

ActionStatus(p) == job[p].doc.actions[Current(p)]
\* mutant: a dependency that did not fail will do
ReadyUnlessFailed(p) == \A m \in Dependencies[Current(p)] : job[p].doc.actions[m] # "failed"

Ready(p) == \A m \in Dependencies[Current(p)] : job[p].doc.actions[m] = "completed"

Scheduled(p) == rpc[p] = "scheduling" /\ job[p].todo # {}
Done(p) == [job[p] EXCEPT !.todo = @ \ {Current(p)}]

\* An action an earlier run of this execution completed is not looked at again.
SkipCompleted(p) ==
  /\ Scheduled(p)
  /\ ActionStatus(p) = "completed"
  /\ Remember(p, [Done(p) EXCEPT !.tally = @ \cup {"skipped"}])
  /\ UNCHANGED <<plans, lock, execs, reports, rpc, diskVars>>

CheckpointBlocked(p) ==
  /\ Scheduled(p)
  /\ ActionStatus(p) # "completed" /\ ~Ready(p)
  /\ Checkpoint(p, [job[p].doc EXCEPT !.actions[Current(p)] = "blocked"],
                [Done(p) EXCEPT !.tally = @ \cup {"blocked"}])
  /\ UNCHANGED <<plans, lock, reports, rpc, diskVars>>

CheckpointStart(p) ==
  /\ Scheduled(p)
  /\ ActionStatus(p) # "completed" /\ Ready(p)
  /\ Checkpoint(p, [job[p].doc EXCEPT !.actions[Current(p)] = "running"], job[p])
  /\ Goto(p, "acting")
  /\ UNCHANGED <<plans, lock, reports, diskVars>>

\* Nothing to do in this state, which the orchestrator takes for success
NothingToDo(p) ==
  /\ rpc[p] = "acting"
  /\ \/ Action(p) = "skip-completed"
     \/ Action(p) \in TailActions /\ TailTarget(Action(p)) = Held(p).state
  /\ Goto(p, "completing")
  /\ UNCHANGED <<plans, lock, execs, reports, job, diskVars>>

\* A diagnostic without a change, or a transition the table refuses
ExecutorRefuses(p) ==
  /\ \/ /\ rpc[p] = "acting"
        /\ \/ Action(p) = "wait-for-conflict"
           \/ Action(p) \in StagingActions \cup CopyActions /\ ~StagingValid(Held(p), Current(p))
           \/ Action(p) \in CopyActions /\ Conflicting(p)
           \/ Action(p) = "verify-destination" /\ ~DestinationValid(Held(p), Current(p))
           \/ /\ Action(p) \in TailActions
              /\ TailTarget(Action(p)) # Held(p).state
              /\ ~MayMove(Held(p), TailTarget(Action(p)))
     \/ rpc[p] = "verifying" /\ ~DestinationValid(entry[Current(p)], Current(p))
  /\ Goto(p, "failing")
  /\ UNCHANGED <<plans, lock, execs, reports, job, diskVars>>

\* except Exception: a document or a file could not be read or written.
ExecutorFails(p) ==
  /\ rpc[p] \in Trying
  /\ Goto(p, "failing")
  /\ UNCHANGED <<plans, lock, execs, reports, job, diskVars>>

\* start-entry, restart-stream, complete-metadata, complete-provenance
MoveEntry(p) ==
  /\ rpc[p] = "acting"
  /\ Action(p) \in TailActions
  /\ TailTarget(Action(p)) # Held(p).state
  /\ MoveHeld(p, Current(p), Held(p), TailTarget(Action(p)))
  /\ Goto(p, "completing")
  /\ UNCHANGED <<plans, lock, execs, reports, staged, dest, source>>

\* validate-staging and rehash-staging save the hashes, then move the entry
RecordHashes(p) ==
  /\ rpc[p] = "acting"
  /\ Action(p) \in StagingActions
  /\ StagingValid(Held(p), Current(p))
  /\ SaveHeld(p, Current(p), [Held(p) EXCEPT !.recorded = TRUE])
  /\ Goto(p, "recorded")
  /\ UNCHANGED <<plans, lock, execs, reports, staged, dest, source>>

MoveRecorded(p) ==
  /\ rpc[p] = "recorded"
  /\ MoveHeld(p, Current(p), Held(p),
              IF Action(p) = "rehash-staging" THEN "ready-to-copy" ELSE "staged")
  /\ Goto(p, "completing")
  /\ UNCHANGED <<plans, lock, execs, reports, staged, dest, source>>

\* copy-from-staging keeps a destination that equals the staged file.
KeepDestination(p) ==
  LET f == Primary(Current(p)) IN
  /\ rpc[p] = "acting"
  /\ Action(p) = "copy-from-staging"
  /\ StagingValid(Held(p), Current(p))
  /\ dest[f] = staged[f]
  /\ Goto(p, "placed")
  /\ UNCHANGED <<plans, lock, execs, reports, job, diskVars>>

\* It copies to a free destination; finalize-temporary-destination to any.
DecideToCopy(p) ==
  /\ rpc[p] = "acting"
  /\ Action(p) \in CopyActions
  /\ StagingValid(Held(p), Current(p))
  /\ Action(p) = "copy-from-staging" => dest[Primary(Current(p))] = "none"
  /\ Goto(p, "copying")
  /\ UNCHANGED <<plans, lock, execs, reports, job, diskVars>>

\* mutant: copies from the source again
PlaceFromSource(p) ==
  LET f == Primary(Current(p)) IN
  /\ rpc[p] = "copying"
  /\ dest' = [dest EXCEPT ![f] = IF source = "fresh" THEN "whole" ELSE "other"]
  /\ Goto(p, "placed")
  /\ UNCHANGED <<plans, lock, execs, reports, job, entry, staged, source>>

\* atomic_copy: its partial file is private to the process, the replace is
\* atomic and takes whatever is there.
PlaceDestination(p) ==
  LET f == Primary(Current(p)) IN
  /\ rpc[p] = "copying"
  /\ dest' = [dest EXCEPT ![f] = staged[f]]
  /\ Goto(p, "placed")
  /\ UNCHANGED <<plans, lock, execs, reports, job, entry, staged, source>>

\* staged -> copying -> verifying, one document write each
MovePlaced(p) ==
  /\ rpc[p] = "placed"
  /\ IF Held(p).state = "copying"
       THEN /\ MoveHeld(p, Current(p), Held(p), "verifying")
            /\ Goto(p, "verifying")
       ELSE /\ MoveHeld(p, Current(p), Held(p), "copying")
            /\ UNCHANGED rpc
  /\ UNCHANGED <<plans, lock, execs, reports, staged, dest, source>>

\* verify-destination on entry e: as listed, or as read back after a copy
VerifyDestination(p) ==
  LET e == IF rpc[p] = "acting" THEN Held(p) ELSE entry[Current(p)] IN
  /\ \/ rpc[p] = "acting" /\ Action(p) = "verify-destination"
     \/ rpc[p] = "verifying"
  /\ DestinationValid(e, Current(p))
  /\ IF e.state = "verifying"
       THEN MoveHeld(p, Current(p), e, "metadata-writing")
       ELSE UNCHANGED <<entry, job>>
  /\ Goto(p, "completing")
  /\ UNCHANGED <<plans, lock, execs, reports, staged, dest, source>>

CheckpointComplete(p) ==
  /\ rpc[p] = "completing"
  /\ Checkpoint(p, [job[p].doc EXCEPT !.actions[Current(p)] = "completed"],
                [Done(p) EXCEPT !.copied = @ \cup {Current(p)}])
  /\ Goto(p, "scheduling")
  /\ UNCHANGED <<plans, lock, reports, diskVars>>

\* The first failure ends the loop.
CheckpointFailure(p) ==
  /\ rpc[p] = "failing"
  /\ Checkpoint(p, [job[p].doc EXCEPT !.status = "failed", !.actions[Current(p)] = "failed"],
                [job[p] EXCEPT !.todo = {}, !.tally = @ \cup {"failed"}])
  /\ Goto(p, "scheduling")
  /\ UNCHANGED <<plans, lock, reports, diskVars>>

-----------------------------------------------------------------------------
(* The end of a run *)

\* mutants: failures are not counted; a failed run ends in an unknown status
OutcomeOfSkips(p) == IF "skipped" \in job[p].tally THEN "completed_with_skips" ELSE "completed"
OutcomeUnknown(p) ==
  CASE "failed" \in job[p].tally -> "partial"
    [] job[p].tally = {"skipped"} -> "completed_with_skips"
    [] OTHER -> "completed"

Outcome(p) ==
  CASE "failed"  \in job[p].tally -> "failed"
    [] "blocked" \in job[p].tally /\ "failed" \notin job[p].tally -> "blocked"
    [] job[p].tally = {"skipped"} -> "completed_with_skips"
    [] OTHER -> "completed"

CheckpointTerminal(p) ==
  /\ rpc[p] = "scheduling" /\ job[p].todo = {}
  /\ Checkpoint(p, [job[p].doc EXCEPT !.status = Outcome(p)], job[p])
  /\ Goto(p, "reporting")
  /\ UNCHANGED <<plans, lock, reports, diskVars>>

SaveReport(p) ==
  /\ rpc[p] = "reporting"
  /\ reports' = [reports EXCEPT ![job[p].id] =
                   [result |-> job[p].doc.status, copied |-> job[p].copied]]
  /\ Goto(p, "unlocking")
  /\ UNCHANGED <<plans, lock, execs, job, diskVars>>

\* PlanLock.__exit__
ReleaseLock(p) ==
  /\ rpc[p] = "unlocking"
  /\ lock' = lock \ {job[p].doc.plan}
  /\ Leave(p)
  /\ UNCHANGED <<plans, execs, reports, diskVars>>

\* Ctrl-C, or an OSError outside the action loop: the with block unlocks.
Interrupt(p) ==
  /\ rpc[p] \notin {"idle", "entering"}
  /\ lock' = IF rpc[p] \in Locked THEN lock \ {job[p].doc.plan} ELSE lock
  /\ Leave(p)
  /\ UNCHANGED <<plans, execs, reports, diskVars>>

\* The same inside PlanLock itself, where nothing unlocks: the file was created
\* and the block not entered, or the file could not be removed.
LockFails(p) ==
  /\ rpc[p] \in {"entering", "unlocking"}
  /\ Leave(p)
  /\ UNCHANGED <<plans, lock, execs, reports, diskVars>>

\* The process is killed (or interrupted again while it unlocks), or the machine
\* goes down: the lock file stays.
Crash(p) ==
  /\ rpc[p] # "idle"
  /\ Leave(p)
  /\ UNCHANGED <<plans, lock, execs, reports, diskVars>>

\* The operator deletes a lock file whose owner is gone.
OperatorClearsLock(pl) ==
  /\ pl \in lock
  /\ \A p \in Recoverers : rpc[p] \in Locked => job[p].doc.plan # pl
  /\ lock' = lock \ {pl}
  /\ UNCHANGED <<plans, execs, reports, rpc, job, diskVars>>

-----------------------------------------------------------------------------
Start(p) ==
  \/ \E pl \in plans, x \in Executions : Execute(p, pl, x)
  \/ \E x \in Executions : Resume(p, x)

\* What a running command does of itself
Proceed(p) ==
  \/ CreateLock(p) \/ EnterBlock(p) \/ LockRefused(p) \/ ResaveEntry(p) \/ EntriesResaved(p)
  \/ CheckpointValidating(p) \/ SourceStale(p) \/ CheckpointStale(p) \/ CheckpointRunning(p)
  \/ SkipCompleted(p) \/ CheckpointBlocked(p) \/ CheckpointStart(p)
  \/ NothingToDo(p) \/ ExecutorRefuses(p) \/ MoveEntry(p)
  \/ RecordHashes(p) \/ MoveRecorded(p)
  \/ KeepDestination(p) \/ DecideToCopy(p) \/ PlaceDestination(p) \/ MovePlaced(p) \/ VerifyDestination(p)
  \/ CheckpointComplete(p) \/ CheckpointFailure(p)
  \/ CheckpointTerminal(p) \/ SaveReport(p) \/ ReleaseLock(p)

\* What ends it, or its action, from outside
Trouble(p) == ExecutorFails(p) \/ Interrupt(p) \/ LockFails(p) \/ Crash(p)

RecoveryNext ==
  \/ WritePlan
  \/ \E p \in Recoverers : Start(p) \/ Proceed(p) \/ Trouble(p)
  \/ \E pl \in lock : OperatorClearsLock(pl)

\* The workflow on its own, from whatever an importer left behind
RecoveryStart == DiskTypeOK /\ AfterImport /\ source = "fresh" /\ RecoveryInit
RecoveryStep == RecoveryNext \/ (ChecksSource /\ SourceChanges /\ UNCHANGED recoveryVars)
RecoverySpec == RecoveryStart /\ [][RecoveryStep]_<<diskVars, recoveryVars>>

-----------------------------------------------------------------------------
(* Properties of the workflow *)

\* A .lock file keeps two recoverers from running one plan at a time: whoever
\* has created the file owns it, alone, until it has removed it.
PlanLockExcludes ==
  \A p \in Recoverers : rpc[p] \in Locked =>
    /\ job[p].doc.plan \in lock
    /\ \A q \in Recoverers \ {p} : rpc[q] \in Locked => job[q].doc.plan # job[p].doc.plan

\* An entry called completed has its primary file in the collection, whether
\* an importer or a chain of recoveries brought it there.
CompletedEntryIsPlaced ==
  \A m \in Members : entry[m].state = "completed" => dest[Primary(m)] # "none"

\* A finished execution finished every action of its plan, and a report that
\* says so never outruns the execution document.
FinishedIsFinished ==
  \A x \in Executions :
    /\ execs[x].status \in FinishedStatuses =>
         \A m \in execs[x].plan.members : execs[x].actions[m] = "completed"
    /\ reports[x].result \in FinishedStatuses => execs[x].status = reports[x].result

\* A crash, a resume or a later run never forgets a completed action.
CompletedActionsAreKept ==
  [][\A x \in Executions, m \in Members :
       execs[x].actions[m] = "completed" => execs'[x].actions[m] = "completed"]_execs

\* A lock file outlives its owner only when the owner was killed, or PlanLock
\* failed between creating it and the block, or at removing it: not when a command
\* is refused, finds its source changed, fails, is blocked or is interrupted at
\* work, and not because another command ended.
Orphans == lock \ {job[p].doc.plan : p \in {q \in Recoverers : rpc[q] \in Locked}}
EveryOtherEndUnlocks ==
  [][Orphans' \subseteq Orphans \/ \E p \in Recoverers : LockFails(p) \/ Crash(p)]_<<lock, rpc, job>>

\* An execution keeps the promise of CheckpointedExecution: progress is never
\* lost, dependencies come first, and finished means finished.
Begun == {x \in Executions : execs[x].status # "none"}
Goal == [x \in Executions |-> execs[x].plan.members]
CompletedActions == [x \in Executions |-> {m \in Members : execs[x].actions[m] = "completed"}]
Finished == {x \in Executions : execs[x].status \in FinishedStatuses}
Promised == INSTANCE CheckpointedExecution
              WITH begun <- Begun, goal <- Goal, done <- CompletedActions, finished <- Finished
KeepsPromise == Promised!Spec

\* A command that is not killed ends: it never waits for a lock or a peer.
Fairness == \A p \in Recoverers : WF_<<diskVars, recoveryVars>>(Proceed(p))
CommandsEnd == \A p \in Recoverers : rpc[p] # "idle" ~> rpc[p] = "idle"
=============================================================================
