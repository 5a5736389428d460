# AmigaLab preservation workflows in TLA+

AmigaLab imports, mirrors, verifies and repairs collections of files with
command line programs that share nothing but a directory tree of JSON
documents, a staging area and a collection. There is no daemon and no database
transaction: a command is one process, each document and each file it writes
is one step, and the process may be killed between any two of them. What makes
the system correct is therefore what a *later* command finds on disk and makes
of it. These modules model that, in the code's own order of writes.

Paths below are relative to `scripts/preservation/` unless they start with
`docs/`, `tests/`, `scripts/` or `amigalab-import.py`.

## 1. Inventory

| component | state it keeps | operations | what is hard | correct when |
|---|---|---|---|---|
| **Transaction store** `transactions.py` | transaction document, one document per entry, append-only transition events | `save`, `save_entry`, `transition`, `list_entries`, `source_fingerprint` | entries appear one by one; a document read is old when it is written back | entries follow the transition table; a completed entry is on disk |
| **Selected importer** `importer.py`, `manifest.py`, `events.py`, `storage.py` | staging files, temporary and final collection files, import events, objects, verification and relationship records | `import_selected` (from `transaction-resume` and `plan-execute`), `scan`, `import_source` | a kill between any two writes; shared temporary names; several files per object | no truncated file gets a collection name, nothing is replaced, completed means every file and record is there |
| **Recovery** `recovery.py`, `recovery_workflow.py`, `services.py` | recovery plans, lock files, execution documents, audit reports; entries and collection files | `recovery-plan`, `-execute`, `-resume`, `-dry-run` | stale memory across the lock, crashes between checkpoint and effect, dependencies over several runs | one run of a plan at a time, progress is never lost, finished means finished |
| **Import plans** `plans.py` | plan documents, approval, cancellation and execution events | `plan-create`, `-approve`, `-cancel`, `-validate`, `-execute` | each command saves the copy it loaded; approve, cancel and execute race | nothing is imported that was not approved |
| **Policies, traces** `policy.py`, `obligations.py`, `traces.py` | reports | compute | nothing decides by them | - |
| **Media plans** `media_analysis.py`, `media_import_plans.py`, `aminet_import.py` | analyses, plans, links | analyse, plan from medium, validate, execute | medium altered after the analysis, plan without its link, members that escape the tree | only safe members are imported, to the right collection, traceably |
| **Mirror** `external/mirror_plans.py`, `external/mirror_execution.py` | mirror plan, execution document, acquisition entries, partial files, media, provenance | plan create, approve, cancel; execute, resume, cancel | downloads cut short, resumed by range; kill between file, entry and execution | nothing unverified becomes media; the books agree with the files |
| **Inspection** `external/checks.py`, `snapshots.py`, `changes.py`, `registry.py` | checks with checkpoints, snapshots, change reports, source registry | check, resume, cancel | counters and checkpoints across resumes, cancel during a run | a snapshot is complete or absent |
| **Records and verification** `storage.py`, `manifest.py`, `verification.py`, `verification_reports.py` | object records with their history, import and verification events | list, save, append; `import`, `verify`, scheduled verification | records written in place and before their file; the copy appended to is the one listed | a file has its record, a record its events, history is not lost |
| **Index** `index.py`, `relationship_backfill.py` | derived index | rebuild, backfill | - | derived data equal what they derive from |
| **Operations** `operations.py` | run documents, lock files | four `scheduled-` commands | lock and run document left by a killed run; jobs beside imports | a lock belongs to a job inside, to a killed one, or to one that failed while locking |
| **Catalog, search, web** `catalog/`, `web/app.py` | SQLite catalog, search index | build, query, render | swap of the catalog under readers | readers see one whole catalog |
| **Emulation sessions** `scripts/emulation/sessions.py` | lock file and flock, session documents, emulator process | launch, status | signals at any line, deaf emulators, kills, a probe that locks | one supervisor per runtime; ended means stopped; an abandoned session is reported; a stop ends |
| **Profiles, qualification, appliance** `profiles.py`, `qualification.py`, `appliance.py`, `scripts/amigalab.py` | profile, inventory, appliance configuration | validate, preflight, render, enable, qualify, launch | many conditions checked apart that have to add up | nothing read-only is ever writable; no drive assigned twice |
| **Archive manifests** `scripts/archive_lib.py`, `build-manifest.py`, `verify-archive.py` | manifest file | build, verify | change during the walk | manifest and archive agree |

Components meet on disk only: the importer fills the entries recovery reads,
recovery moves them on, mirror media feed the analysis and the media plans, and
everything derived is rebuilt from the canonical documents. One lock exists per
recovery plan, one per kind of scheduled operation, one per emulator runtime;
importers, plan, mirror and inspection commands take none.

## 2. Plan

1. `TransactionStore` - disk, entry states, the two tables (done).
2. `ImportSelected` - the importers over it (done).
3. `RecoveryWorkflow` - recovery over it, with `CheckpointedExecution`, what it
   promises (done); `TransactionRecovery` composes 2 and 3 (done).
4. `RecoveryProofs` - types, lock exclusion, lock orphans and placed entries for
   every instance; the promise, finished executions and kept actions for commands
   that are not at one execution (done).
5. `MirrorExecution` (done) and `MirrorProofs`: types, `OnlyVerifiedMedia`,
   `DoneIsThere`, `BooksAgree` for one command at a time (done).
6. `Sessions` - lock, session document, signals, emulator (done), `SessionsProofs`
   (done).
7. `Profiles` - what preflight accepts and what the emulator may then write
   (done), `ProfilesProofs` (done).
8. `Inspection` - checkpoints, resume, cancel (done), `InspectionProofs` (done).
9. `PlanLifecycle` - analysis, plans, approval, execution (done),
   `PlanLifecycleProofs` (done).
10. `Records` - the unattended importer and `verify` over canonical records;
    `Operations` composes it with the scheduled jobs; `OperationsProofs` (done).
11. `TransactionProofs` - the importers alone, and importers and recoverers on one
    disk (done).
12. Next: two recovery plans over the same entries, the rehashing that never
    matches (`services.py:59`), and inspections of a collection from which items
    are removed.

## 3. Modules and the code

**TransactionStore** declares the disk: `entry[m]` (a `TransactionEntry`:
its state, and whether `observed_hashes` was saved), `staged` and `dest` (file
contents, per member and part: 1 is the primary file, 2 a sidecar), `source`
(whether the source still has the scanned fingerprint). Contents are what the
code can tell apart: `none`, `torn`, `whole`, `other`. `ValidTransitions` and
`RecoveryActions` are the tables of `transactions.py` line by line.
`AfterImport` is the interface between the importer and recovery: an invariant of
the importer (checked, and proved in `TransactionProofs`), assumed as the initial
states of recovery.

**ImportSelected** is `import_selected`. `After` is the order of its steps,
which differs between directories (entry called staged, then staging filled)
and archives (streamed first). An importer's program counter names the document
or file it writes next, so `Stop` (kill, Ctrl-C, OSError) can come anywhere.
`TargetExists` ends the command whatever the target holds: the branch for an
existing target names `preserved_file`, which the function does not import.
`FreeSidecars` starts from a collection that holds no file where a sidecar goes,
`ImportSpec` from any.

**RecoveryWorkflow** is `RecoveryOrchestrator` and `RecoveryExecutor`:
`Execute`/`Resume` read plan, entries and document *before* `CreateLock`, as the
code does; then every entry is written back, one at a time (`ResaveEntry`), the
document is checkpointed, and the loop goes through the plan's actions. `job[p]`
is the process's memory (`snap` its entries, `doc` its document). The lock is
taken in two steps, because between creating the file (`CreateLock`) and entering
the block (`EnterBlock`) nothing unlocks: an error or Ctrl-C there, or in
removing the file, is `LockFails` and leaves it. Inside the block `Interrupt`
unlocks; `Crash` never does. An error anywhere in an executor step
(`ExecutorFails`) is a failed action, as is a refusal. **CheckpointedExecution** says in four
variables and three actions what docs/recovery.md promises of an execution;
`KeepsPromise` is the refinement.

**TransactionRecovery** is both on one disk. `OneAtATime` says whether the
operator waits for a command to end before starting another, which nothing in
the code enforces. A process runs one command: importers and recoverers are
disjoint (`ProcessesAssumption`).

**MirrorExecution** is the mirror plan and its one execution (the id is a hash
of the plan): entries, `content.partial` files, temporary files, media,
provenance, and one action per write of `execute_mirror` and `resume_mirror`.
The server (`Received`, external) may serve a file whole, cut short or
different. `Described` files have size and hashes in the snapshot; of the others
the code accepts anything, and so does the model. A file's own name stands for
its whole contents. `Target` gives a file's destination, which the code names by
category, plan and filename without the item: files of two items may share one,
with its temporary file. Every step inside the `try` may fail (`StepFails`), the
saves after the placement included: the entry is then saved as failed and the
execution after it, whatever either said before.

**Sessions** is `launch_session` and `session_status`. `pc[s]` is where a
supervisor is: in the outer `try` (`Trying`), in the inner one (`Waiting`), or on
its way out (`Leaving`). `lock` is the flock, which the kernel takes back,
`metadata` what the file says, which it does not. An interrupt, an error and a
kill are actions of their own, each with the guard of the block that catches it:
Ctrl-C in the inner `try` stops the emulator (`Interrupt`), elsewhere it runs into
`finally` (`InterruptElsewhere`), and before the handler is installed SIGTERM
kills (`Crash`). `SaveInterrupted` checks the transition against the supervisor's
variable as the code does, not against the document.

**Profiles** is a conjunction per validator: `ProfileValid` (`load_profile`),
`InventoryValid`, `AssetReady`, `KindsMatch`, `ZonesMatch` (`preflight`).
`Config` and `Written` are what `render_fs_uae` makes of a profile, the global
floppy write protection included. The operator edits profile, inventory and files
between commands; `launched` is the configuration last started, with the zones its
preflight saw. `Checks`, `Verdict` and `AutomatedReady` are the qualification
report over observations of a host.

**Inspection** is `inspect_resumable` with one action per document or checkpoint
written; nothing locks a check, so two commands interleave at every write. A page
holds one item; `total` grows while the inspection runs.

**PlanLifecycle** goes from the analysis of a medium or a registered source to
the import. A command loads a plan into `cmd[c].copy`, appends its event and
saves the copy, three steps apart. `MediaPlanValid` is `validate_media_plan`;
executing a plan imports any part of what it selects (what the import does to the
disk is `ImportSelected`).

**Records** is `import_source` and `verify` on canonical records. `known` is the
listing a command made when it began; every document it writes is made of it.
`MetadataStore` writes in place: `OpenRecord` empties the document, so that its
history is in the command's memory only until `FillRecord`, and a kill in between
leaves it `Emptied`. `Listable` asks for no such record, so every command that
lists fails from then on; nothing in the code repairs it, and nothing in the
model does. A collection file is `absent`,
`torn`, `foreign` (put there by something else) or holds a content.
**Operations** extends it with the scheduled jobs: run document, lock file
(`CreateLock`, `EnterLock`, and `LockFails`, which leaves a job `stranded`: over,
with its lock file still there), verification over the records, source check,
reconciliation, retention.

Operators preceded by a comment that starts with `mutant:` are what a plausible
bug would make of the definition they stand before; no specification uses them.

## 4. Runs

| run | instance | shows |
|---|---|---|
| `ImportDirectory` | 1 importer, 2 objects of 2 files | `AfterImport`, `NoTornContent`, `CompletedIsPreserved`, `DestinationWriteOnce` under stops and repeats |
| `ImportArchiveRace` | 2 importers, 1 archive member | `SettledFilesStay`: no race replaces a file that nobody had found missing |
| `RecoverySolo` | 1 importer, 1 recoverer, 2 members, one at a time | content, entries and documents stay consistent over any chain of imports, stops, recoveries |
| `RecoveryRace` | 2 recoverers, 1 member, source may change | `PlanLockExcludes`, `EveryOtherEndUnlocks`, `CommandsEnd`: the lock excludes, only a crash or a failure of the lock itself leaves it behind, commands end |
| `RecoveryPromise` | 1 recoverer, 2 members, first depends on second, any disk an importer leaves | `KeepsPromise` |
| `Mirror` | 1 command at a time, a described and an undescribed file, a destination each | `OnlyVerifiedMedia`, `DoneIsThere`, `BooksAgree` |
| `Sessions` | 2 supervisors, a status probe | `Exclusion`, `EndedMeansStopped`, `AbandonedIsReported`, `StopFreesTheLock` |
| `Profiles` | profiles of up to one disk, and two media and one mount or one medium and two mounts, each with an asset of its own, zones and permissions mixed, edited between launches | `WritesOnlyMutable`, `NothingIsReplaced`, `QualifiedIsSafe` |
| `Inspection` | 2 commands, limit of 2 pages, a collection growing to 3 | `CountedOnce`, `CompletedIsWhole`, `CommandsEnd` |
| `PlanLifecycle` | 3 media (Aminet, commercial, one with an unsafe member), 1 plan, 2 commands | `ImportedWasApproved`, `OnlySafeMembers`, `ImportedIsLinked` |
| `Operations` | 2 jobs, 1 import or verify command, 1 object, 2 contents, 3 events | `RecordsAreBacked`, `ListedHistoryIsKept`, `LocksAreOwned` |
| `HistoryLost` | 1 command, 2 objects of one content | a deviation, as a counterexample (section 7) |

**Bounds.** Two members are enough for every effect of order: a member before
and after the one in hand, a dependency that is met late, a failure that leaves
another action unreached. `MaxPlans = 1`: the lock and the execution are per
plan, and a plan's members are chosen in every combination by when it is
written. One or two execution ids: a second shows interference between runs,
`CompletedActionsAreKept` and the proofs cover more. Two files per object show
every partly placed object. `FreeSidecars` leaves sidecar destinations free
(section 7 says why); `StagedMember` starts the races between recoverers from a
member that was staged and not placed, where the executor has most to do.
Two supervisors are one that holds and one that is
refused or comes after; a session's identity enters only by its order, for the
most recent document. Two pages and a limit of two meet the end of the
collection before, at and beyond the limit. The three media take every branch of
the recommendation that the plan depends on, and one plan is enough because plans
meet nowhere. `Operations` has one object: objects meet only when one is a
duplicate of the other, which `HistoryLost` has and the proofs cover for any
number; three events are an import and two checks, or two imports and a check.
`Mirror` gives its two files a destination each (`Apart` in `MCMirror`), so that
one execution can finish both; the theorems hold for any sharing of destinations,
and `Shared` is the other instance, where two described files never are both in
place and the deviation of section 7 shows. `ImportArchiveRace` has one member:
two importers meet over the files of one, and a second only adds commands that
are elsewhere. The archive's order of steps is met there and, for one importer at
a time, in the theorems, which hold for both kinds.
Deadlock is not checked: when every command has ended and ids are used up,
nothing has to happen.

**Fairness.** `Fairness` has weak fairness of `Proceed(p)` alone: a
process that runs is scheduled, and nothing it does waits for anything but its
own I/O. Starting commands, crashes, interruptions and the operator are not
fair. `CommandsEnd` says a command ends; that a transaction ends in success is
promised nowhere and does not hold (section 7). `Inspection` has the same for
`Work(c)`. `Sessions` has weak fairness of a supervisor's own steps and of the
death of a process that was sent SIGKILL; an emulator that is merely asked need
never exit, so `StopFreesTheLock` rests on the time-out and the kill after it.

## 5. Proofs

`RecoveryProofs` proves, for every set of members, processes and execution ids,
any number of plans and any dependencies (assumptions: the four ASSUMEs of
`RecoveryWorkflow` and the one of `TransactionStore`):

- `TypesAlways`: `RecoverySpec => [](DiskTypeOK /\ RecoveryTypeOK)`. The
  invariant is strengthened with `InHand` (while an action is in hand the list
  of actions is not empty), without which `Current(p)` is no member. One lemma
  per kind of step; `TypesKept` collects what a step of one process must give.
- `PlanLockAlwaysExcludes`: `[]PlanLockExcludes`. Exclusion alone is not
  inductive - a process could enter while the file is missing - so the property
  itself says that whoever is past the lock owns the file. `OperatorClearsLock`
  is harmless because its guard asks for an owner. The lemmas say which steps
  stay inside the lock with the plan unchanged (`...StaysLocked`) and which
  stay out (`CommandsStayOut`).
- `EveryOtherEndAlwaysUnlocks`: the action property, from exclusion: releasing or
  interrupting removes the file of the process itself and of nobody else. It names
  the two ends that leave the file: a crash, and `LockFails`, an error or Ctrl-C
  between creating the file and entering the block or in removing the file.
- `CompletedEntriesArePlaced`: a recoverer writes back entries it read before it
  took the lock, so the property has to hold of every copy too. `Placed` says of
  each entry, on disk or in a process's memory, that it has its file in the
  collection if it is completed or about to be; recovery removes no file, so an
  old copy is still true when it is written.
- `FinishedExecutionsAreFinished`, `NoCompletedActionIsForgotten` and
  `WorkflowKeepsPromise` (the refinement of `CheckpointedExecution`), under
  `[]RunsApart`: no two commands are at one execution. Executions get an id of
  their own (a uuid), so this is about `recovery-resume`: resuming an execution
  that runs, or resuming it twice at once. The code does not prevent it: a resume
  reads the execution document before it asks for the lock, and TLC finds
  `CompletedActionsAreKept` violated without the hypothesis (section 7). Crashes,
  orphaned locks, other executions of the same plan and any number of resumes one
  after the other are all allowed. `Promising` relates the document on disk to the
  copy of the process at work on it: the same, but for the time before the first
  checkpoint, so that a checkpoint adds to what is there; an action the loop is
  past is completed or the run is no success; the action in hand has its
  dependencies completed. `Advance` says how one document may follow another, which
  is a step of the promise.

`TransactionProofs` treats the importers alone first (assumptions: those of
`ImportSelected`, of which `MembersAssumption` says that a transaction has a
member, and `TransactionStore`), for any members, parts and number of importers:

- `ImportTypesAlways` and `CompletedEntriesArePreserved` without restriction. What
  an importer has done for its member is recorded in no variable, so `Preserving`
  reads it off the program counter (`Placing`, `Recording`): past the placing the
  files exist, past each record that record is stored. No importer takes either
  away, so importers that race for one member do no harm to this.
- `ImportersGuaranteeAfterImport`, `NoTornFileIsPlaced`, `ImportsWriteOnce` under
  `[]MembersApart`: no two importers have one member in hand. The code does not
  enforce it, and with two importers at one member TLC finds each of the three
  violated (the temporary name is shared). One importer satisfies it trivially,
  with any number of stops and repeats. `Steady` follows the file in hand from
  staging through the temporary file to its name. `ImportsWriteOnce` starts from
  `FreeSidecars` and adds `Unspoilt`: once the target was found free, the
  destinations not yet placed are free, sidecars included, because no sidecar is
  in the collection without its primary file (`Accompanied`).

Then the two on one disk (assumptions: those of both and `ProcessesAssumption`):

- `TransactionTypesAlways` and `CompletedEntriesStayPlaced` for any number of
  importers and recoverers at work at once. `AllPlaced` is `Placed` with what the
  importers know, and neither side removes a file of the collection.
- `FinishedIsFinishedAmongImporters` and `ActionsAreKeptAmongImporters`, under
  `[]RunsApart`: importers write no execution documents.
- `EntriesAlwaysFollowTable` and `NothingIsWrittenTwice` assume `OneAtATime`.
  `Alone` says that at most one process is at work, from the cardinality of
  `Running`. The table is the hard one: a recoverer writes whole entries back
  without looking at what is there. It is right because its copies are those on
  disk (`InSync`), because what is on disk is as far as the command in hand has
  got (`Handling` for a recoverer, `Following` for an importer), and because an
  entry in a state after placing has the staged file as its destination
  (`Matching`), so that a copy repeated by a recovery changes nothing. `Sole` is
  their conjunction. `OneAtATimeKeepsApart` shows that such an operator keeps
  executions and members apart, so the hypotheses above can be met.

`MirrorProofs` proves, for every set of files, described or not, and any
assignment of destinations to them (assumptions: `DescribedAssumption`,
`NamesAssumption`), `TypesAlways` for any number of commands, and the rest
under `Solo` (two commands are one: the set `Commands` has at most one member).
`Solo` is a hypothesis of the theorems and not of the model, because the code
does not enforce it and without it the three properties fail (section 7, last
item):

- `DoneIsAlwaysThere` and `MediaAreVerified`. Not inductive on their own: the
  command checks the partial file and renames a copy of it four steps later.
  `Placement` adds what it knows in between (`Verified`): from the check to the
  copy the partial file is acceptable, from the copy to the rename the temporary
  one is, and after the rename the destination is. A killed command forgets, and
  the next one starts with the check again. `OnlyRename` says that no other step
  touches media, which turns the invariant into the action property. `InPlace`
  allows for files that share a destination: what is there is one of them, since
  the rename of one may replace another. `OwnFileIsAlwaysThere` adds the
  hypothesis that no two do, and then it is the file itself.
- `BooksAlwaysAgree`. A failing save marks an entry failed whatever the execution
  on disk says of it, so what a listed entry guarantees is its file (`InPlace`),
  and what its state guarantees holds of a completed execution. The document on
  disk lags behind the entries, so `Books` says how far: `AtWork` keeps that the
  process holds the state that is on disk, that no entry still to be reached is
  listed as completed (but the one whose provenance is being recorded), that this
  holds until a save fails - after which the execution is no longer acquiring and
  never completed by this command - and that while it is acquiring every entry
  already passed is done, which is what `FinishExecute` relies on when it counts
  instead of looking.

`SessionsProofs`, for any set of sessions (no assumption but the model's own):
`OneSupervisor`, `EndedSessionsAreStopped`, `TypesAlways`. `IInv` adds to the three
what makes them inductive: which documents and emulators go with which program
counter - in particular that a supervisor which is past the wait has a dead
emulator, unless it left by an error or an interrupt elsewhere.
`AbandonedSessionsAreReported` needs `Named` besides: while the document of the
last session to hold the lock is active, the metadata names it. It is written
before the document and cleared after the document is final, and a launch that is
refused does not touch it, however recent its own document is.

`ProfilesProofs`: `LaunchesAreSafe`, for any profiles, inventories and files. The
argument has no induction to speak of: a launch is guarded by preflight, so the
work is that the validators *add up* - every image a configuration makes writable
is a profile image with permission, in a zone that allows it, that the inventory
calls by the same zone - and that the one switch for all floppies follows from
`FloppiesUniform`. `LaunchesAreComplete`: the validators also leave no slot to two
assets, so what is rendered loses none of them: every disk, medium and mount has
its own image in its own slot and may be written exactly as the profile says. For
mounts that is by their place in the list, for drives because no two are the
same. `QualifiedHostsAreSafe` is about
what is checked where: the appliance's check of the zones looks at mounts and the
system disk only, and the report is safe because it runs preflight, which looks at
the media too.

`PlanLifecycleProofs`, for any plans, commands, media and selections (assumptions:
`PlanAssumption`, `NoPlanAssumption`): `TypesAlways`, `ApprovalComesFirst`,
`OnlySafeMembersLeave`, `ImportsAreTraceable`. A command acts on its copy, so the
invariant speaks of the copies: a copy agrees with the plan's document but for
its status, an approved document or copy has its approval event, and a command
that passed validation of a media plan has its link, and a safe selection.

`OperationsProofs`, for any objects, contents, commands and jobs (assumptions:
`RecordsAssumption`, `OperationsAssumption`): `TypesAlways` and `LocksAlwaysOwned`
without restriction; `RecordsAlwaysBacked` and `ListedHistoryAlwaysKept` under
`Solo` (two import or verify commands are one), since both fail for two at a time.
The invariant `Books` adds `Kept(op[c])`, what the command holds at each step: the
document it is about to write contains the listed history, its events are stored
once it has announced them, and the record of the file it copies is there and not
yet a success. An emptied record has no history: `ListedHistoryIsKept` excepts the
one the command is filling, and `OneLost` says that there is at most one, because
once it is left behind nothing lists any more. `LocksAreOwned` names the jobs whose
lock outlives them: killed, or stranded by a failure of the lock itself. The jobs disturb none of it: they write run documents and locks
only.

`InspectionProofs`, for any number of commands, any page limit and any growth of
the collection (assumptions: `InspectionAssumption`, `NoCheckAssumption`):
`TypesAlways`, `PagesCountOnce`, `CompletedInspectionsAreWhole`. Commands share
nothing but the files, so the invariant relates each command to them: for some
`n` the stored pages are exactly the first `n`, every command's page is at most
`n + 1`, and what it has counted is less than the page it is about to count
(`Sound`). A command that works behind the others therefore stores pages that are
there already and counts less than is stored, never more; and one that was told
"last page" has reached the page the collection ended with when it was planned.

Model-checked only: liveness (`CommandsEnd` of recovery and of inspection,
`StopFreesTheLock`), which rests on fairness the prover does not treat, and
`SettledFilesStay`, a formula of temporal operators nested. Every other
property of a passing run is stated by a theorem. `HistoryGrows` fails and is not
a candidate.

## 6. What is left out

- Transition events and reports' wording: append-only, nothing reads them back.
  Revisions and timestamps: never compared.
- The "missing entry" branch of the orchestrator: entries are never deleted.
- Listing the entries and loading the document at the start of a recovery is
  one read: both precede the lock and nothing is decided between them.
- The transaction document is reduced to its phase; in `ImportSelected` its
  in-place write and those of canonical records (`storage.py:21`) are not cut in
  two (`Records` does cut the latter).
- Archive members have no sidecars here (`ArchiveAssumption`); in the code two
  members of one stem share a sidecar's file (`importer.py:162`, `:221`).
- Saving an entry is one step. Its temporary file is named after the entry alone
  (`transactions.py:78`), so two importers of one transaction may write the same
  one, and the second rename fails; the model of their race has files only.
- `ChecksSource = FALSE` is for direct use of `RecoveryOrchestrator`: the command
  line passes the path of the plan, which is never empty (`amigalab-import.py:323`).
- Dependencies are those of a plan made by hand: `generate_plan` sets none
  (`recovery_workflow.py:83`). `RecoveryPromise` has one, `RecoverySolo` none.
- A resume loads the execution document twice (`recovery_workflow.py:371`,
  `:295`), both times before the lock; the model reads it once.
- An operator who repairs or deletes an emptied record by hand.
- Mirror: byte counts, attempts, URL policy, `downloaded_bytes`; the shared
  `.tmp` name of `atomic_write`; what goes into a plan, and a plan blocked by
  warnings (they concern files it does not select). Files are downloaded in some
  fixed order.
- A power failure that loses a rename already done: nothing in the code syncs.
- `Sessions`: logs, the session directory, the check that the runtime is not in a
  read-only zone, and the preflight of the profile (`Profiles` has it). A
  supervisor is started once.
- `Profiles`: fields that are only compared with a list are one flag;
  identifiers are distinct values; parsing YAML, hashing and probing the host are
  external. Two paths: an image and a directory.
- `Inspection`: the collection only grows. docs/external-sources.md:20 speaks of
  items that are removed; then a page may be shorter when it is read again, which
  is not modelled. Events appended beside the checkpoints; retries inside the HTTP
  client. `external-source-check` writes a document of the same directory that
  `inspect_resumable` cannot load (`amigalab-import.py:394`), so it never meets it.
- `PlanLifecycle`: conflicts and supersession are never written by any command.
- `Records`: relationships, sources, sidecars (an object is one file), and the
  transaction document of the `import` command. Import and verification events
  share one history; events are written in one step because nothing reads them
  back. `Operations`: the report document; relationship findings.
- Not modelled: the catalog, search and web application (derived data, read only);
  the derived index and backfill (rebuilt as a whole by one command); snapshots,
  changes and the source registry (one document computed from another); policies,
  obligations and traces (advisory reports); archive manifests (a pure comparison
  in one process); source adapters (formats).

## 7. Known deviations

Shown by a run:

- `HistoryLost`: two files of one import that hold what a listed object holds both
  append to the record as it was listed, so the second drops the event of the
  first (`importer.py:102`), while docs/preservation-model.md:32 and the docstring
  at `manifest.py:64` say that history is retained.

Reachable in the models, not kept as runs. Some have the property that says
otherwise beside the others in the module, for anyone who wants the trace: a
directory entry is called staged before its file is staged, so a recovery places
the truncated file (`TransactionRecovery` with `NoTornContent`,
`importer.py:168`, docs/import-workflow.md:89); a recovered entry is completed
without import event, object and verification records (`CompletedIsPreserved`,
`recovery.py:91`, docs/import-workflow.md:77); a resume reads the execution document
before it takes the lock and writes its older copy back
(`CompletedActionsAreKept` with two recoverers, `recovery_workflow.py:295`,
docs/recovery.md:32); `transaction-resume` after a stop imports the entries that
exist and calls the transaction completed (`CompletedTransactionIsComplete`,
`amigalab-import.py:135`); `mirror-resume` replaces a differing destination
(`NeverOverwritten`, `external/mirror_execution.py:220`, docs/mirror-execution.md:25),
which may be another item's file, because a destination is named without the item
(`external/mirror_execution.py:147`; `MCMirror` with `Target <- Shared`);
a mirror execution killed before its entries were saved is completed by a resume
with nothing acquired (`external/mirror_execution.py:225`);
members of a medium whose plan says media-only are imported all the same
(`MediaOnlyStaysMedia`, docs/import-workflow.md:60); a session whose outcome is saved
may be rewritten as interrupted, and so moves from one final state to another
(`MovesAsDocumented`, docs/emulator-profiles.md); a path the inventory names twice,
once as an original and once as mutable, is mounted writable
(`OriginalsStayReadOnly`, docs/emulator-profiles.md); a running inspection saves its
copy over a cancellation (`CancelledStays`, docs/external-sources.md).

Further: a plan cancelled while it is being approved is approved again
(`amigalab-import.py:225`); an approved plan can be executed any number of times; a
session killed by SIGKILL leaves an emulator without a supervisor; the error path
of a session does not wait for the emulator (`sessions.py:284`); a failed copy
leaves a record whose file later imports never bring (`importer.py:115`); one
record killed between open and write loses its history and makes every command
that lists records fail until somebody repairs it (`storage.py:24`); an error or
Ctrl-C after a lock file was created and before its block is entered leaves the
lock with no process killed (`recovery_workflow.py:255`, `operations.py:68`); a
failing save after a mirrored file was placed marks its entry failed, though the
execution may list it as completed, and a resume downloads it again
(`external/mirror_execution.py:191`); a recovery skips an action that its document
calls completed without a look at destination or records
(`recovery_workflow.py:327`), where docs/recovery.md:26 says that it skips those
that still verify; a killed scheduled run says running for ever; registering
two media of one file name and licence overwrites the first
(`amigalab-import.py:181`, not in a model);
an identical destination stops the
import with a NameError (`importer.py:171`); a sidecar's destination is
replaced without a look (`importer.py:200`); `transaction-resume` of a completed
transaction starts its entries over (`amigalab-import.py:135`); two importers
share a temporary name, so one renames what the other truncated
(`importer.py:195`; `ImportArchiveRace` with `NoTornContent`,
docs/import-workflow.md:89); an importer and a recoverer of one transaction at a time
replace each other's file (`importer.py:170`, `recovery.py:73`); a recovery
action of an entry that was never staged is completed with nothing copied
(`recovery_workflow.py:345`); a finished execution stopped before its report has
none for ever (`recovery_workflow.py:367`, `:373`); recorded hashes read back
from JSON never equal computed ones, so a rehashed entry cannot be copied
(`services.py:59`); two mirror commands on one execution append to one partial
file and rename each other's temporary file, so unverified content can become
media (`external/mirror_execution.py:184`).
