------------------------------ MODULE Operations ------------------------------
(***************************************************************************)
(* Scheduled operations beside the operator's commands (scripts/           *)
(* preservation/operations.py, verification_reports.py and the scheduled-  *)
(* commands of amigalab-import.py).  A job is one scheduled run: its       *)
(* document, its lock file when it takes one, and where it is.             *)
(***************************************************************************)
EXTENDS Records

CONSTANTS
  Jobs,   \* scheduled runs
  NoJob   \* the lock file does not exist

ASSUME OperationsAssumption == NoJob \notin Jobs

VARIABLES
  kind,  \* what each job does, once it has started
  run,   \* the run document: "none" before it starts
  step,  \* where the job is
  lock   \* lock files, each with the job that made it

jobs == <<kind, run, step, lock>>
vars == <<records, jobs>>

Kinds == {"verification", "source-check", "reconciliation", "retention"}
\* OperationsLock: verify-<collection> and external-source-<id>
Locks == {"verification", "source-check"}
\* the body of the with statement
Inside == {"inside", "saved"}
\* the lock file is of its making, and still there
Holding == Inside \cup {"created"}

TypeOK ==
  /\ OpTypeOK
  /\ kind \in [Jobs -> Kinds \cup {"none"}]
  /\ run \in [Jobs -> {"none", "running", "completed", "completed-with-warnings", "blocked", "failed"}]
  /\ step \in [Jobs -> Holding \cup {"new", "started", "ended", "killed", "stranded"}]
  /\ lock \in [Locks -> Jobs \cup {NoJob}]

Init ==
  /\ OpInit
  /\ kind = [j \in Jobs |-> "none"] /\ run = kind
  /\ step = [j \in Jobs |-> "new"]
  /\ lock = [name \in Locks |-> NoJob]

Move(j, from, to) == step[j] = from /\ step' = [step EXCEPT ![j] = to]
SaveRun(j, state) == run' = [run EXCEPT ![j] = state]
\* mutant: __exit__ does not ask whether the lock is its own
UnlockByName(j) == lock' = [name \in Locks |-> IF name = kind[j] THEN NoJob ELSE lock[name]]
\* OperationsLock.__exit__: the lock it made, when it made one
Unlock(j) == lock' = [name \in Locks |-> IF step[j] \in Inside /\ name = kind[j] THEN NoJob ELSE lock[name]]

-----------------------------------------------------------------------------
\* _run_record
RunRecord(j) ==
  /\ Move(j, "new", "started") /\ SaveRun(j, "running")
  /\ \E k \in Kinds : kind' = [kind EXCEPT ![j] = k]
  /\ UNCHANGED lock

\* OperationsLock.__enter__: the file is opened with O_CREAT | O_EXCL.
CreateLock(j) ==
  /\ Move(j, "started", "created") /\ kind[j] \in Locks
  /\ lock[kind[j]] = NoJob /\ lock' = [lock EXCEPT ![kind[j]] = j]
  /\ UNCHANGED <<kind, run>>

\* The owner is written, acquired set, the body entered.
EnterLock(j) == Move(j, "created", "inside") /\ UNCHANGED <<kind, run, lock>>

\* An OSError or Ctrl-C after the file was created and before acquired was set,
\* or when it is removed: the file stays, and the job is over.  Only the source
\* check catches the error.
LockFails(j) ==
  /\ \E from \in Holding : Move(j, from, "stranded")
  /\ UNCHANGED run \/ (kind[j] = "source-check" /\ SaveRun(j, "failed"))
  /\ UNCHANGED <<kind, lock>>

\* The file could not be created, though nobody holds the lock.
CannotLock(j) ==
  /\ Move(j, "started", "ended") /\ kind[j] = "source-check" /\ SaveRun(j, "failed")
  /\ UNCHANGED <<kind, lock>>

\* mutant: a state no reader of run documents knows
LockIsHeldState(j) ==
  /\ Move(j, "started", "ended") /\ kind[j] \in Locks
  /\ lock[kind[j]] # NoJob
  /\ SaveRun(j, "held")
  /\ UNCHANGED <<kind, lock>>

\* RuntimeError: the verification is blocked, the source check failed.
LockIsHeld(j) ==
  /\ Move(j, "started", "ended") /\ kind[j] \in Locks
  /\ lock[kind[j]] # NoJob
  /\ SaveRun(j, IF kind[j] = "verification" THEN "blocked" ELSE "failed")
  /\ UNCHANGED <<kind, lock>>

\* verify_collection: recorded files that are missing or differ
Findings == {o \in Recorded : archive[o] # record[o].hash}

\* the report and the run document, which states its result
VerifyCollection(j) ==
  /\ Move(j, "inside", "saved") /\ kind[j] = "verification" /\ Listable
  /\ SaveRun(j, IF Findings = {} THEN "completed" ELSE "completed-with-warnings")
  /\ UNCHANGED <<kind, lock>>

\* command_external_source_check, against a source that may not answer
SourceCheck(j) ==
  /\ kind[j] = "source-check" /\ UNCHANGED kind
  /\ \/ Move(j, "inside", "saved") /\ SaveRun(j, "completed") /\ UNCHANGED lock
     \/ Move(j, "inside", "ended") /\ SaveRun(j, "failed") /\ Unlock(j)

Exit(j) == Move(j, "saved", "ended") /\ Unlock(j) /\ UNCHANGED <<kind, run>>

\* No lock is taken: a reconciliation beside an import reads what is there.
Reconcile(j) ==
  /\ Move(j, "started", "ended") /\ kind[j] = "reconciliation" /\ Listable
  /\ SaveRun(j, "completed")
  /\ UNCHANGED <<kind, lock>>

\* retention_plan is called without a policy, so it proposes nothing.
RetentionExecute(j) ==
  /\ Move(j, "started", "ended") /\ kind[j] = "retention" /\ SaveRun(j, "completed")
  /\ UNCHANGED <<kind, lock>>

\* A record that does not parse (ValueError) or Ctrl-C: the lock is released,
\* and the document says running for good.
Unhandled(j) ==
  /\ \E from \in Inside \cup {"started"} : Move(j, from, "ended")
  /\ Unlock(j)
  /\ UNCHANGED <<kind, run>>

\* elsewhere, being killed leaves what Unhandled does
Kill(j) ==
  /\ \E from \in Holding : Move(j, from, "killed")
  /\ UNCHANGED <<kind, run, lock>>

\* the operator, of a lock whose process is gone
RemoveStaleLock(name) ==
  /\ lock[name] \in Jobs /\ step[lock[name]] \in {"killed", "stranded"}
  /\ lock' = [lock EXCEPT ![name] = NoJob]
  /\ UNCHANGED <<kind, run, step>>

JobNext ==
  \/ \E j \in Jobs :
       \/ RunRecord(j) \/ CreateLock(j) \/ EnterLock(j) \/ LockFails(j) \/ CannotLock(j) \/ LockIsHeld(j)
       \/ VerifyCollection(j) \/ SourceCheck(j) \/ Exit(j) \/ Reconcile(j) \/ RetentionExecute(j)
       \/ Unhandled(j) \/ Kill(j)
  \/ \E name \in Locks : RemoveStaleLock(name)

Next == (OpNext /\ UNCHANGED jobs) \/ (JobNext /\ UNCHANGED records)

Spec == Init /\ [][Next]_vars

-----------------------------------------------------------------------------
(* Properties.                                                             *)

\* A lock file is of the one job that is entering or inside, of one that was
\* killed there, or of one whose lock itself failed, in being written or removed:
\* no other end of a run, and no run that finds the lock held, leaves or takes
\* one.  Every job inside a guarded operation holds its lock.
LocksAreOwned ==
  /\ \A name \in Locks : lock[name] # NoJob =>
       kind[lock[name]] = name /\ step[lock[name]] \in Holding \cup {"killed", "stranded"}
  /\ \A j \in Jobs : step[j] \in Holding => lock[kind[j]] = j
=============================================================================
