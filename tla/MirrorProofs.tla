---------------------------- MODULE MirrorProofs ----------------------------
(***************************************************************************)
(* What holds of mirror executions for every set of files, described or    *)
(* not, with destinations shared or not, when one command runs at a time:  *)
(* nothing unverified becomes media, what is called done is there, and the *)
(* execution document agrees with files and entries.  The types hold for   *)
(* any number of commands.                                                 *)
(***************************************************************************)
EXTENDS MirrorExecution, TLAPS

\* One command at a time
Solo == \A p, q \in Commands : p = q

\* A file is in hand
HandPcs == {"reused", "blocked", "streaming", "checking", "ready", "copying", "filling",
            "renaming", "placed", "booking", "recording", "failing", "failed"}

InHand == \A p \in Commands : pc[p] \in HandPcs => job[p].todo # {}

Types == TypeOK /\ InHand

-----------------------------------------------------------------------------
(* Types *)

LEMMA FirstIsIn == ASSUME NEW S, S # {} PROVE First(S) \in S
BY DEF First

LEMMA CurrentIsName ==
  ASSUME Types, NEW p \in Commands, job[p].todo # {}
  PROVE  Current(p) \in job[p].todo /\ Current(p) \in Names /\ Target(Current(p)) \in Targets
<1>1. Current(p) \in job[p].todo
  BY FirstIsIn DEF Current
<1> QED
  BY <1>1 DEF Types, TypeOK, Jobs, Targets

LEMMA NewIsExecution ==
  ASSUME NEW s \in ExecutionStates PROVE NewExecution(s) \in Executions
BY DEF NewExecution, Executions

LEMMA NoJobIsJob == NoJob \in Jobs
<1>1. "none" \in ExecutionStates /\ "none" \in Contents
  BY DEF ExecutionStates, Contents
<1> QED
  BY <1>1, NewIsExecution DEF NoJob, Jobs

LEMMA JobIsJob ==
  ASSUME Types, NEW p \in Commands
  PROVE  job[p] \in Jobs /\ job[p].doc \in Executions /\ pc[p] \in Pcs
BY DEF Types, TypeOK, Jobs

LEMMA DoneIsJob ==
  ASSUME Types, NEW p \in Commands
  PROVE  Done(p) \in Jobs /\ Done(p) = [job[p] EXCEPT !.todo = job[p].todo \ {Current(p)}]
BY JobIsJob DEF Done, Jobs

\* What a process changes of itself
LEMMA Unmoved ==
  ASSUME Types, NEW p \in Commands
  PROVE  /\ UNCHANGED pc => Goto(p, pc[p])
         /\ UNCHANGED job => Remember(p, job[p])
BY DEF Types, TypeOK, Goto, Remember

LEMMA Moved ==
  ASSUME Types, NEW p \in Commands, NEW at \in Pcs, NEW j \in Jobs, Goto(p, at), Remember(p, j)
  PROVE  /\ pc' \in [Commands -> Pcs] /\ pc'[p] = at
         /\ job' \in [Commands -> Jobs] /\ job'[p] = j
         /\ \A q \in Commands \ {p} : pc'[q] = pc[q] /\ job'[q] = job[q]
BY DEF Types, TypeOK, Goto, Remember

\* The files and documents a step leaves well typed
World == plan' \in Plans /\ partial' \in [Names -> Contents] /\ temp' \in [Targets -> Contents]
         /\ media' \in [Targets -> Contents] /\ provenance' \subseteq Names
         /\ exec' \in Executions /\ acquired' \in [Names -> EntryStates]

LEMMA TypesKept ==
  ASSUME Types, World, NEW p \in Commands, NEW at \in Pcs, NEW j \in Jobs,
         Goto(p, at), Remember(p, j), at \in HandPcs => j.todo # {}
  PROVE  Types'
<1>1. /\ pc' \in [Commands -> Pcs] /\ pc'[p] = at
      /\ job' \in [Commands -> Jobs] /\ job'[p] = j
      /\ \A q \in Commands \ {p} : pc'[q] = pc[q] /\ job'[q] = job[q]
  BY Moved
<1> QED
  BY <1>1 DEF Types, TypeOK, InHand, World

\* A document saved
LEMMA SaveExecutionTypes ==
  ASSUME Types, NEW p \in Commands, NEW at \in Pcs, NEW doc \in Executions, NEW j \in Jobs,
         SaveExecution(p, doc, j), Goto(p, at), at \in HandPcs => j.todo # {},
         UNCHANGED <<plan, acquired, partial, temp, media>>, provenance' \subseteq Names
  PROVE  Types'
<1>1. [j EXCEPT !.doc = doc] \in Jobs /\ [j EXCEPT !.doc = doc].todo = j.todo
  BY DEF Jobs
<1>2. World
  BY DEF World, Types, TypeOK, SaveExecution
<1> QED
  BY <1>1, <1>2, TypesKept DEF SaveExecution

\* An entry saved
LEMMA SaveEntryTypes ==
  ASSUME Types, NEW p \in Commands, NEW at \in Pcs, NEW s \in EntryStates, NEW j \in Jobs,
         SaveEntry(p, s), Goto(p, at), Remember(p, j), at \in HandPcs => j.todo # {},
         UNCHANGED <<plan, exec, partial, temp, media, provenance>>
  PROVE  Types'
<1>1. World
  BY DEF World, Types, TypeOK, SaveEntry
<1> QED
  BY <1>1, TypesKept

\* Only the process moves
LEMMA GotoTypes ==
  ASSUME Types, NEW p \in Commands, NEW at \in Pcs, NEW j \in Jobs, Goto(p, at), Remember(p, j),
         at \in HandPcs => j.todo # {},
         UNCHANGED <<plan, exec, acquired, partial, temp, media, provenance>>
  PROVE  Types'
<1>1. World
  BY DEF World, Types, TypeOK
<1> QED
  BY <1>1, TypesKept

\* A process ends with an execution document saved, or none.
LEMMA LeaveTypes ==
  ASSUME Types, NEW p \in Commands, Leave(p), exec' \in Executions,
         UNCHANGED <<plan, acquired, partial, temp, media, provenance>>
  PROVE  Types'
<1>1. World
  BY DEF World, Types, TypeOK
<1>2. "idle" \in Pcs /\ "idle" \notin HandPcs
  BY DEF Pcs, HandPcs
<1> QED
  BY <1>1, <1>2, NoJobIsJob, TypesKept DEF Leave

\* Commands start and end.
LEMMA TypesCommand ==
  ASSUME Types, NEW p \in Commands,
         \/ ExecuteStart(p) \/ ResumeStart(p) \/ CancelStart(p) \/ Crash(p)
         \/ FinishExecute(p) \/ FinishResume(p) \/ CancelSave(p)
  PROVE  Types'
<1>1. /\ {"planned", "next", "cancelling"} \subseteq Pcs
      /\ "planned" \notin HandPcs /\ "next" \notin HandPcs /\ "cancelling" \notin HandPcs
  BY DEF Pcs, HandPcs
<1>2. exec \in Executions /\ job[p].doc \in Executions
  BY JobIsJob DEF Types, TypeOK
<1>3. CASE ExecuteStart(p)
  <2>1. NewExecution("planned") \in Executions
    BY NewIsExecution DEF ExecutionStates
  <2>2. [NoJob EXCEPT !.doc = NewExecution("planned"), !.todo = Names] \in Jobs
    BY <2>1, NoJobIsJob DEF Jobs
  <2> QED
    BY <1>1, <1>3, <2>2, GotoTypes DEF ExecuteStart
<1>4. CASE ResumeStart(p)
  <2> DEFINE todo == {f \in Names : acquired[f] \notin DoneStates \cup {"none"}}
             j == [NoJob EXCEPT !.mode = "resume", !.doc = exec, !.todo = todo]
  <2>1. j \in Jobs
    BY <1>2, NoJobIsJob DEF Jobs
  <2> HIDE DEF j
  <2>2. Remember(p, j) /\ Goto(p, "next") /\ UNCHANGED <<plan, exec, acquired, partial, temp, media, provenance>>
    BY <1>4 DEF ResumeStart, j
  <2> QED
    BY <1>1, <2>1, <2>2, GotoTypes
<1>5. CASE CancelStart(p)
  <2>1. [NoJob EXCEPT !.mode = "cancel", !.doc = exec] \in Jobs
    BY <1>2, NoJobIsJob DEF Jobs
  <2> QED
    BY <1>1, <1>5, <2>1, GotoTypes DEF CancelStart
<1>6. CASE Crash(p)
  BY <1>2, <1>6, LeaveTypes DEF Crash
<1>7. CASE FinishExecute(p)
  <2>1. EndState(job[p].doc) \in ExecutionStates
    BY DEF EndState, ExecutionStates
  <2>2. exec' \in Executions
    BY <1>2, <1>7, <2>1 DEF FinishExecute, Executions
  <2> QED
    BY <1>7, <2>2, LeaveTypes DEF FinishExecute
<1>8. CASE FinishResume(p)
  <2>1. {"completed", "failed"} \subseteq ExecutionStates
    BY DEF ExecutionStates
  <2>2. exec' \in Executions
    BY <1>2, <1>8, <2>1 DEF FinishResume, Executions
  <2> QED
    BY <1>8, <2>2, LeaveTypes DEF FinishResume
<1>9. CASE CancelSave(p)
  <2>1. exec' \in Executions
    BY <1>2, <1>9 DEF CancelSave, Executions, ExecutionStates
  <2> QED
    BY <1>9, <2>1, LeaveTypes DEF CancelSave
<1> QED
  BY <1>3, <1>4, <1>5, <1>6, <1>7, <1>8, <1>9

\* mirror-execute sets out and passes over files that are there.
LEMMA TypesExecute ==
  ASSUME Types, NEW p \in Commands,
         \/ SavePlanned(p) \/ ResetEntry(p) \/ SaveAcquiring(p)
         \/ Reuse(p) \/ SaveReused(p) \/ Block(p) \/ SaveBlocked(p)
  PROVE  Types'
<1>1. /\ {"resetting", "next", "reused", "blocked"} \subseteq Pcs
      /\ "resetting" \notin HandPcs /\ "next" \notin HandPcs
      /\ {"reused", "blocked"} \subseteq HandPcs
  BY DEF Pcs, HandPcs
<1>2. {"pending", "reused", "blocked"} \subseteq EntryStates
  BY DEF EntryStates, DoneStates
<1>3. /\ job[p] \in Jobs /\ job[p].doc \in Executions /\ pc[p] \in Pcs
      /\ Done(p) \in Jobs
  BY JobIsJob, DoneIsJob
<1>4. provenance \subseteq Names
  BY DEF Types, TypeOK
<1>5. CASE SavePlanned(p)
  BY <1>1, <1>3, <1>4, <1>5, SaveExecutionTypes DEF SavePlanned
<1>6. CASE ResetEntry(p)
  <2>1. Goto(p, pc[p]) /\ pc[p] \notin HandPcs
    BY <1>1, <1>6, Unmoved DEF ResetEntry
  <2> QED
    BY <1>2, <1>3, <1>6, <2>1, SaveEntryTypes DEF ResetEntry
<1>7. CASE SaveAcquiring(p)
  <2>1. [job[p] EXCEPT !.todo = Names] \in Jobs
    BY <1>3 DEF Jobs
  <2>2. [job[p].doc EXCEPT !.state = "acquiring"] \in Executions
    BY <1>3 DEF Executions, ExecutionStates
  <2> QED
    BY <1>1, <1>4, <1>7, <2>1, <2>2, SaveExecutionTypes DEF SaveAcquiring
<1>8. CASE Reuse(p) \/ Block(p)
  <2>1. Remember(p, job[p]) /\ job[p].todo # {}
    BY <1>8, Unmoved DEF Reuse, Block, At
  <2> QED
    BY <1>1, <1>2, <1>3, <1>8, <2>1, SaveEntryTypes DEF Reuse, Block
<1>9. CASE SaveReused(p) \/ SaveBlocked(p)
  <2>1. Current(p) \in Names
    BY <1>1, <1>9, CurrentIsName DEF SaveReused, SaveBlocked, Types, InHand
  <2>2. /\ [job[p].doc EXCEPT !.reused = @ \cup {Current(p)}] \in Executions
        /\ [job[p].doc EXCEPT !.blocked = @ \cup {Current(p)}, !.state = "blocked"] \in Executions
    BY <1>3, <2>1 DEF Executions, ExecutionStates
  <2> QED
    BY <1>1, <1>3, <1>4, <1>9, <2>2, SaveExecutionTypes DEF SaveReused, SaveBlocked
<1> QED
  BY <1>5, <1>6, <1>7, <1>8, <1>9

\* A file is downloaded and checked.
LEMMA TypesDownload ==
  ASSUME Types, NEW p \in Commands,
         \/ Begin(p) \/ Stream(p) \/ StreamBreaks(p) \/ StepFails(p) \/ Check(p) \/ SaveReady(p)
  PROVE  Types'
<1>1. /\ {"streaming", "checking", "failing", "ready", "copying"} \subseteq Pcs
      /\ {"streaming", "checking", "ready"} \subseteq HandPcs
  BY DEF Pcs, HandPcs
<1>2. {"downloading", "ready-to-finalize"} \subseteq EntryStates
  BY DEF EntryStates
<1>3. job[p].todo # {}
  BY <1>1 DEF Begin, Stream, StreamBreaks, StepFails, Trying, Check, SaveReady, At, Types, InHand, HandPcs
<1>4. Current(p) \in Names /\ job[p] \in Jobs
  BY <1>3, CurrentIsName, JobIsJob
<1>5. CASE Begin(p)
  <2>1. [job[p] EXCEPT !.offset = partial[Current(p)]] \in Jobs
    BY <1>4 DEF Jobs, Types, TypeOK
  <2>2. [job[p] EXCEPT !.offset = partial[Current(p)]].todo = job[p].todo
    BY <1>4 DEF Jobs
  <2> QED
    BY <1>1, <1>2, <1>3, <1>5, <2>1, <2>2, SaveEntryTypes DEF Begin
<1>6. CASE Stream(p) \/ StreamBreaks(p)
  <2>1. Received(Current(p), job[p].offset, partial[Current(p)]) \subseteq Contents
    BY <1>4 DEF Received, Contents
  <2>2. World
    BY <1>4, <1>6, <2>1 DEF Stream, StreamBreaks, World, Types, TypeOK
  <2>3. Remember(p, job[p])
    BY <1>6, Unmoved DEF Stream, StreamBreaks
  <2> QED
    BY <1>1, <1>3, <1>4, <1>6, <2>2, <2>3, TypesKept DEF Stream, StreamBreaks
<1>7. CASE Check(p)
  <2>1. Remember(p, job[p])
    BY <1>7, Unmoved DEF Check
  <2> QED
    BY <1>1, <1>3, <1>4, <1>7, <2>1, GotoTypes DEF Check
<1>8. CASE SaveReady(p)
  <2>1. Remember(p, job[p])
    BY <1>8, Unmoved DEF SaveReady
  <2> QED
    BY <1>1, <1>2, <1>3, <1>4, <1>8, <2>1, SaveEntryTypes DEF SaveReady
<1>9. CASE StepFails(p)
  <2> DEFINE j == IF pc[p] = "booking" THEN [job[p] EXCEPT !.doc.completed = @ \cup {Current(p)}] ELSE job[p]
  <2>1. j \in Jobs /\ j.todo = job[p].todo
    BY <1>4 DEF Jobs, Executions
  <2>2. Remember(p, j) /\ Goto(p, "failing")
        /\ UNCHANGED <<plan, exec, acquired, partial, temp, media, provenance>>
    BY <1>9 DEF StepFails
  <2> HIDE DEF j
  <2> QED
    BY <1>1, <1>3, <2>1, <2>2, GotoTypes
<1> QED
  BY <1>5, <1>6, <1>7, <1>8, <1>9

\* A file is placed and recorded, or fails.
LEMMA TypesPlace ==
  ASSUME Types, NEW p \in Commands,
         \/ TruncateTemp(p) \/ FillTemp(p) \/ Rename(p) \/ SavePlaced(p) \/ SaveBooked(p)
         \/ SaveProvenance(p) \/ FailEntry(p) \/ SaveFailed(p)
  PROVE  Types'
<1>1. /\ {"filling", "renaming", "placed", "booking", "recording", "failing", "failed", "next"} \subseteq Pcs
      /\ {"copying", "filling", "renaming", "placed", "booking", "recording", "failing", "failed"} \subseteq HandPcs
      /\ "next" \notin HandPcs
  BY DEF Pcs, HandPcs
<1>2. {"completed", "failed"} \subseteq EntryStates /\ {"none", "short"} \subseteq Contents
  BY DEF EntryStates, DoneStates, Contents
<1>3. job[p].todo # {}
  BY <1>1 DEF TruncateTemp, FillTemp, Rename, SavePlaced, SaveBooked, SaveProvenance, FailEntry,
              SaveFailed, Types, InHand
<1>4. /\ Current(p) \in Names /\ Target(Current(p)) \in Targets
      /\ job[p] \in Jobs /\ job[p].doc \in Executions /\ Done(p) \in Jobs
  BY <1>3, CurrentIsName, JobIsJob, DoneIsJob
<1>5. CASE TruncateTemp(p) \/ FillTemp(p) \/ Rename(p)
  <2>1. World
    BY <1>2, <1>4, <1>5 DEF TruncateTemp, FillTemp, Rename, World, Types, TypeOK
  <2>2. Remember(p, job[p]) /\ \E at \in Pcs : Goto(p, at)
    BY <1>1, <1>5, Unmoved DEF TruncateTemp, FillTemp, Rename
  <2> QED
    BY <1>3, <1>4, <2>1, <2>2, TypesKept
<1>6. CASE SavePlaced(p) \/ FailEntry(p)
  <2>1. /\ \E s \in EntryStates : SaveEntry(p, s)
        /\ UNCHANGED <<plan, exec, partial, temp, media, provenance>>
    BY <1>2, <1>6 DEF SavePlaced, FailEntry
  <2>2. \/ Goto(p, "next") /\ Remember(p, Done(p))
        \/ Remember(p, job[p]) /\ \E at \in Pcs : Goto(p, at)
    BY <1>1, <1>6, Unmoved DEF SavePlaced, FailEntry
  <2> QED
    BY <1>1, <1>3, <1>4, <2>1, <2>2, SaveEntryTypes
<1>7. CASE SaveBooked(p)
  <2>1. [job[p].doc EXCEPT !.completed = @ \cup {Current(p)}] \in Executions
    BY <1>4 DEF Executions
  <2>2. provenance \subseteq Names
    BY DEF Types, TypeOK
  <2> QED
    BY <1>1, <1>3, <1>4, <1>7, <2>1, <2>2, SaveExecutionTypes DEF SaveBooked
<1>8. CASE SaveProvenance(p)
  <2>1. World
    BY <1>4, <1>8 DEF SaveProvenance, World, Types, TypeOK
  <2> QED
    BY <1>1, <1>4, <1>8, <2>1, TypesKept DEF SaveProvenance
<1>9. CASE SaveFailed(p)
  <2>1. [job[p].doc EXCEPT !.failed = @ \cup {Current(p)}, !.state = "failed"] \in Executions
    BY <1>4 DEF Executions, ExecutionStates
  <2>2. [job[p] EXCEPT !.todo = {}] \in Jobs /\ provenance \subseteq Names
    BY <1>4 DEF Jobs, Types, TypeOK
  <2> QED
    BY <1>1, <1>9, <2>1, <2>2, SaveExecutionTypes DEF SaveFailed
<1> QED
  BY <1>5, <1>6, <1>7, <1>8, <1>9

LEMMA TypesPlan ==
  ASSUME Types, PlanCreate \/ PlanApprove \/ PlanCancel \/ UNCHANGED vars
  PROVE  Types'
<1>1. ASSUME NEW s \in {"draft", "approved", "cancelled"}, NEW b \in BOOLEAN
      PROVE  [status |-> s, approvals |-> b] \in Plans
  BY <1>1 DEF Plans
<1>2. plan \in Plans /\ plan.approvals \in BOOLEAN /\ plan = [status |-> plan.status, approvals |-> plan.approvals]
  BY DEF Types, TypeOK, Plans
<1>3. [plan EXCEPT !.status = "cancelled"] = [status |-> "cancelled", approvals |-> plan.approvals]
  BY <1>2
<1>4. [plan EXCEPT !.status = "cancelled"] \in Plans
  BY <1>1, <1>2, <1>3
<1>5. /\ [status |-> "draft", approvals |-> FALSE] \in Plans
      /\ [status |-> "approved", approvals |-> TRUE] \in Plans
  BY <1>1
<1>6. plan' \in Plans
  BY <1>2, <1>4, <1>5 DEF PlanCreate, PlanApprove, PlanCancel, vars
<1> QED
  BY <1>6 DEF PlanCreate, PlanApprove, PlanCancel, vars, Types, TypeOK, InHand

LEMMA TypesStep ==
  ASSUME Types, [Next]_vars
  PROVE  Types'
<1>1. ASSUME NEW p \in Commands,
             ExecuteStart(p) \/ ResumeStart(p) \/ CancelStart(p) \/ Step(p) \/ Crash(p)
      PROVE  Types'
  BY <1>1, TypesCommand, TypesExecute, TypesDownload, TypesPlace DEF Step
<1> QED
  BY <1>1, TypesPlan DEF Next

LEMMA TypesInit == ASSUME Init PROVE Types
<1>1. "none" \in ExecutionStates /\ "none" \in Contents /\ "none" \in EntryStates /\ "idle" \in Pcs
      /\ "idle" \notin HandPcs
  BY DEF ExecutionStates, Contents, EntryStates, Pcs, HandPcs
<1> QED
  BY <1>1, NewIsExecution, NoJobIsJob DEF Init, Types, TypeOK, InHand, Plans

\* Plans, documents, entries, files and memory are of their types in every
\* state, however many mirror commands run at a time.
THEOREM TypesAlways == Spec => []TypeOK
<1>1. Spec => []Types
  BY TypesInit, TypesStep, PTL DEF Spec
<1> QED
  BY <1>1, PTL DEF Types

-----------------------------------------------------------------------------
(* What becomes media *)

\* What a command knows of the file in hand
Verified(p) ==
  /\ pc[p] \in {"ready", "copying", "filling"} => Acceptable(Current(p), partial[Current(p)])
  /\ pc[p] = "renaming" => Acceptable(Current(p), temp[Target(Current(p))])
  /\ pc[p] \in {"placed", "booking"} => InPlace(Current(p))
  /\ pc[p] # "idle" => \A f \in job[p].doc.completed : InPlace(f)

Placed == DoneIsThere /\ \A f \in exec.completed : InPlace(f)

Placement == Placed /\ \A p \in Commands : Verified(p)

\* A step of the one command leaves the others alone: there are none.
LEMMA SoloPlacement ==
  ASSUME Solo, NEW p \in Commands, Verified(p)', Placed'
  PROVE  Placement'
BY DEF Solo, Placement

LEMMA InPlaceKept ==
  ASSUME UNCHANGED media, NEW f
  PROVE  InPlace(f) <=> InPlace(f)'
BY DEF InPlace

\* Steps that touch no media and record nothing new as done or completed
LEMMA PlacementKept ==
  ASSUME Solo, Types, Placement, NEW p \in Commands, UNCHANGED media,
         \A f \in Names : acquired'[f] \in DoneStates => acquired[f] \in DoneStates \/ InPlace(f),
         \A f \in exec'.completed : InPlace(f),
         pc'[p] # "idle" => \A f \in job'[p].doc.completed : InPlace(f),
         pc'[p] \in {"ready", "copying", "filling"} => Acceptable(Current(p), partial[Current(p)])',
         pc'[p] = "renaming" => Acceptable(Current(p), temp[Target(Current(p))])',
         pc'[p] \in {"placed", "booking"} => InPlace(Current(p)')
  PROVE  Placement'
<1>1. DoneIsThere'
  BY InPlaceKept DEF Placement, Placed, DoneIsThere
<1>2. Placed'
  BY <1>1, InPlaceKept DEF Placed
<1>3. Verified(p)'
  BY InPlaceKept DEF Verified
<1> QED
  BY <1>2, <1>3, SoloPlacement

\* Places where nothing is known of the file in hand
QuietPcs == {"idle", "planned", "resetting", "next", "reused", "blocked", "streaming",
             "checking", "recording", "failing", "failed", "cancelling"}

\* Where a step leaves the one command, and what it then remembers
LEMMA QuietKept ==
  ASSUME Solo, Types, Placement, NEW p \in Commands, UNCHANGED media, pc'[p] \in QuietPcs,
         \A f \in Names : acquired'[f] \in DoneStates => acquired[f] \in DoneStates \/ InPlace(f),
         \A f \in exec'.completed : InPlace(f),
         pc'[p] # "idle" => \A f \in job'[p].doc.completed : InPlace(f)
  PROVE  Placement'
<1>1. QuietPcs \cap {"ready", "copying", "filling", "renaming", "placed", "booking"} = {}
  BY DEF QuietPcs
<1> QED
  BY <1>1, PlacementKept

\* Commands start and end.
LEMMA PlacementCommand ==
  ASSUME Solo, Types, Placement, NEW p \in Commands,
         \/ ExecuteStart(p) \/ ResumeStart(p) \/ CancelStart(p) \/ Crash(p)
         \/ FinishExecute(p) \/ FinishResume(p) \/ CancelSave(p)
  PROVE  Placement'
<1>1. UNCHANGED <<media, acquired>> /\ job[p].doc \in Executions /\ exec \in Executions
  BY JobIsJob DEF ExecuteStart, ResumeStart, CancelStart, Crash, FinishExecute, FinishResume, CancelSave, Types, TypeOK
<1>2. ASSUME NEW at, Goto(p, at) PROVE pc'[p] = at
  BY <1>2 DEF Goto, Types, TypeOK
<1>3. ASSUME NEW j, Remember(p, j) PROVE job'[p] = j
  BY <1>3 DEF Remember, Types, TypeOK
<1>4. /\ \A f \in exec.completed : InPlace(f)
      /\ pc[p] # "idle" => \A f \in job[p].doc.completed : InPlace(f)
  BY DEF Placement, Placed, Verified
<1>5. pc'[p] \in QuietPcs
  BY <1>2 DEF ExecuteStart, ResumeStart, CancelStart, Crash, FinishExecute, FinishResume, CancelSave,
              Leave, QuietPcs
<1>6. \A f \in exec'.completed : InPlace(f)
  <2>1. CASE ExecuteStart(p) \/ ResumeStart(p) \/ CancelStart(p) \/ Crash(p)
    BY <1>4, <2>1 DEF ExecuteStart, ResumeStart, CancelStart, Crash
  <2>2. CASE FinishExecute(p)
    <3>1. exec'.completed \in {exec.completed, job[p].doc.completed} /\ pc[p] # "idle"
      BY <1>1, <2>2 DEF FinishExecute, AtEnd, Executions
    <3> QED
      BY <1>4, <3>1
  <2>3. CASE CancelSave(p)
    <3>1. exec'.completed = job[p].doc.completed /\ pc[p] # "idle"
      BY <1>1, <2>3 DEF CancelSave, Executions
    <3> QED
      BY <1>4, <3>1
  <2>4. CASE FinishResume(p)
    <3>1. exec'.completed = {f \in Names : acquired[f] = "completed"}
      BY <1>1, <2>4 DEF FinishResume, Executions
    <3> QED
      BY <3>1 DEF Placement, Placed, DoneIsThere, DoneStates
  <2> QED
    BY <2>1, <2>2, <2>3, <2>4
<1>7. pc'[p] # "idle" => \A f \in job'[p].doc.completed : InPlace(f)
  <2>1. CASE ExecuteStart(p)
    <3>1. job'[p] = [NoJob EXCEPT !.doc = NewExecution("planned"), !.todo = Names]
      BY <1>3, <2>1 DEF ExecuteStart
    <3>2. job'[p].doc = NewExecution("planned")
      BY <3>1 DEF NoJob
    <3>3. job'[p].doc.completed = {}
      BY <3>2 DEF NewExecution
    <3> QED
      BY <3>3
  <2>2. CASE ResumeStart(p) \/ CancelStart(p)
    <3>1. job'[p].doc = exec
      BY <1>3, <2>2 DEF ResumeStart, CancelStart, NoJob
    <3> QED
      BY <1>4, <3>1
  <2>3. CASE Crash(p) \/ FinishExecute(p) \/ FinishResume(p) \/ CancelSave(p)
    BY <1>2, <2>3 DEF Crash, FinishExecute, FinishResume, CancelSave, Leave
  <2> QED
    BY <2>1, <2>2, <2>3
<1> QED
  BY <1>1, <1>5, <1>6, <1>7, QuietKept

\* Documents and entries are saved on the way.
LEMMA PlacementSave ==
  ASSUME Solo, Types, Placement, NEW p \in Commands,
         \/ SavePlanned(p) \/ ResetEntry(p) \/ SaveAcquiring(p)
         \/ Reuse(p) \/ SaveReused(p) \/ Block(p) \/ SaveBlocked(p) \/ Begin(p)
         \/ SavePlaced(p) \/ SaveBooked(p) \/ SaveProvenance(p) \/ FailEntry(p) \/ SaveFailed(p)
  PROVE  Placement'
<1>1. /\ UNCHANGED media /\ job[p] \in Jobs /\ job[p].doc \in Executions /\ pc[p] # "idle"
      /\ Done(p) \in Jobs /\ Done(p).doc = job[p].doc
  <2>1. Done(p).doc = job[p].doc
    BY JobIsJob, DoneIsJob DEF Jobs
  <2> QED
    BY <2>1, JobIsJob, DoneIsJob
    DEF SavePlanned, ResetEntry, SaveAcquiring, Reuse, SaveReused, Block, SaveBlocked, Begin,
        SavePlaced, SaveBooked, SaveProvenance, FailEntry, SaveFailed, At
<1>2. ASSUME NEW at, Goto(p, at) PROVE pc'[p] = at
  BY <1>2 DEF Goto, Types, TypeOK
<1>3. ASSUME NEW j, Remember(p, j) PROVE job'[p] = j
  BY <1>3 DEF Remember, Types, TypeOK
<1>4. /\ \A f \in exec.completed : InPlace(f)
      /\ \A f \in job[p].doc.completed : InPlace(f)
  BY <1>1 DEF Placement, Placed, Verified
<1>5. {"pending", "blocked", "downloading", "failed"} \cap DoneStates = {}
  BY DEF DoneStates
<1>6. CASE \/ SavePlanned(p) \/ SaveAcquiring(p) \/ SaveReused(p) \/ SaveBlocked(p)
           \/ SaveBooked(p) \/ SaveFailed(p)
  <2>1. PICK doc \in Executions, j \in Jobs :
          SaveExecution(p, doc, j) /\ \A f \in doc.completed : InPlace(f)
    <3>1. CASE SavePlanned(p)
      BY <1>1, <1>4, <3>1 DEF SavePlanned
    <3>2. CASE SaveAcquiring(p)
      <4>1. [job[p] EXCEPT !.todo = Names] \in Jobs
        BY <1>1 DEF Jobs
      <4>2. /\ [job[p].doc EXCEPT !.state = "acquiring"] \in Executions
            /\ [job[p].doc EXCEPT !.state = "acquiring"].completed = job[p].doc.completed
        BY <1>1 DEF Executions, ExecutionStates
      <4> QED
        BY <1>4, <3>2, <4>1, <4>2 DEF SaveAcquiring
    <3>3. CASE SaveReused(p) \/ SaveBlocked(p)
      <4>1. Current(p) \in Names
        BY <3>3, CurrentIsName DEF SaveReused, SaveBlocked, Types, InHand, HandPcs
      <4> DEFINE r == [job[p].doc EXCEPT !.reused = @ \cup {Current(p)}]
                 b == [job[p].doc EXCEPT !.blocked = @ \cup {Current(p)}, !.state = "blocked"]
      <4>2. /\ r \in Executions /\ r.completed = job[p].doc.completed
            /\ b \in Executions /\ b.completed = job[p].doc.completed
        BY <1>1, <4>1 DEF Executions, ExecutionStates
      <4> QED
        BY <1>1, <1>4, <3>3, <4>2 DEF SaveReused, SaveBlocked
    <3>4. CASE SaveBooked(p)
      <4>1. Current(p) \in Names /\ InPlace(Current(p))
        BY <3>4, CurrentIsName DEF SaveBooked, Types, InHand, HandPcs, Placement, Verified
      <4> DEFINE c == [job[p].doc EXCEPT !.completed = @ \cup {Current(p)}]
      <4>2. c \in Executions /\ c.completed = job[p].doc.completed \cup {Current(p)}
        BY <1>1, <4>1 DEF Executions
      <4> QED
        BY <1>1, <1>4, <3>4, <4>1, <4>2 DEF SaveBooked
    <3>5. CASE SaveFailed(p)
      <4>1. Current(p) \in Names
        BY <3>5, CurrentIsName DEF SaveFailed, Types, InHand, HandPcs
      <4> DEFINE e == [job[p].doc EXCEPT !.failed = @ \cup {Current(p)}, !.state = "failed"]
      <4>2. e \in Executions /\ e.completed = job[p].doc.completed
        BY <1>1, <4>1 DEF Executions, ExecutionStates
      <4>3. [job[p] EXCEPT !.todo = {}] \in Jobs
        BY <1>1 DEF Jobs
      <4> QED
        BY <1>4, <3>5, <4>2, <4>3 DEF SaveFailed
    <3> QED
      BY <1>6, <3>1, <3>2, <3>3, <3>4, <3>5
  <2>2. exec' = doc /\ job'[p] = [j EXCEPT !.doc = doc]
    BY <1>3, <2>1 DEF SaveExecution
  <2>3. job'[p].doc = doc
    BY <2>2 DEF Jobs
  <2>4. UNCHANGED acquired /\ pc'[p] \in QuietPcs
    BY <1>2, <1>6 DEF SavePlanned, SaveAcquiring, SaveReused, SaveBlocked, SaveBooked, SaveFailed, QuietPcs
  <2> QED
    BY <1>1, <2>1, <2>2, <2>3, <2>4, QuietKept
<1>7. CASE ResetEntry(p) \/ Block(p) \/ Begin(p) \/ FailEntry(p) \/ SaveProvenance(p) \/ Reuse(p)
  <2>1. UNCHANGED exec /\ pc'[p] \in QuietPcs
    <3>1. CASE ResetEntry(p)
      BY <3>1 DEF ResetEntry, QuietPcs
    <3> QED
      BY <1>2, <1>7, <3>1 DEF Block, Begin, FailEntry, SaveProvenance, Reuse, QuietPcs
  <2>2. job'[p].doc = job[p].doc
    <3>1. CASE Begin(p)
      <4>1. job'[p] = [job[p] EXCEPT !.offset = partial[Current(p)]]
        BY <1>3, <3>1 DEF Begin
      <4> QED
        BY <1>1, <4>1 DEF Jobs
    <3> QED
      BY <1>1, <1>3, <1>7, <3>1 DEF ResetEntry, Block, FailEntry, SaveProvenance, Reuse
  <2>3. \A f \in Names : acquired'[f] \in DoneStates => acquired[f] \in DoneStates \/ InPlace(f)
    <3>1. CASE Reuse(p)
      <4>1. Current(p) \in Names /\ Matches(Current(p)) /\ media[Target(Current(p))] # "none"
        BY <3>1, CurrentIsName DEF Reuse, At, Occupied
      <4>2. InPlace(Current(p))
        BY <4>1 DEF Matches, Acceptable, InPlace, Sharers
      <4> QED
        BY <3>1, <4>2 DEF Reuse, SaveEntry, Types, TypeOK
    <3> QED
      BY <1>5, <1>7, <3>1 DEF ResetEntry, Block, Begin, FailEntry, SaveProvenance, SaveEntry, Types, TypeOK
  <2> QED
    BY <1>1, <1>4, <2>1, <2>2, <2>3, QuietKept
<1>8. CASE SavePlaced(p)
  <2>1. Current(p) \in Names /\ InPlace(Current(p)) /\ UNCHANGED exec
    BY <1>8, CurrentIsName DEF SavePlaced, Types, InHand, HandPcs, Placement, Verified
  <2>2. \A f \in Names : acquired'[f] \in DoneStates => acquired[f] \in DoneStates \/ InPlace(f)
    BY <1>8, <2>1 DEF SavePlaced, SaveEntry, Types, TypeOK
  <2>3. job'[p].doc = job[p].doc
    BY <1>1, <1>3, <1>8 DEF SavePlaced
  <2>4. \/ pc'[p] = "next"
        \/ pc'[p] = "booking" /\ Current(p)' = Current(p)
    BY <1>2, <1>8 DEF SavePlaced, Current
  <2> QED
    BY <1>1, <1>4, <2>1, <2>2, <2>3, <2>4, PlacementKept
<1> QED
  BY <1>6, <1>7, <1>8

\* A file is downloaded, checked, copied next to its destination and renamed.
LEMMA PlacementFile ==
  ASSUME Solo, Types, Placement, NEW p \in Commands,
         \/ Stream(p) \/ StreamBreaks(p) \/ StepFails(p) \/ Check(p) \/ SaveReady(p)
         \/ TruncateTemp(p) \/ FillTemp(p) \/ Rename(p)
  PROVE  Placement'
<1>1. /\ job[p] \in Jobs /\ job[p].doc \in Executions /\ pc[p] # "idle" /\ UNCHANGED exec
      /\ Current(p) \in Names /\ Target(Current(p)) \in Targets
  <2>1. job[p].todo # {} /\ pc[p] # "idle" /\ UNCHANGED exec
    BY DEF Stream, StreamBreaks, StepFails, Trying, At, Check, SaveReady, TruncateTemp, FillTemp, Rename,
           Types, InHand, HandPcs
  <2> QED
    BY <2>1, JobIsJob, CurrentIsName
<1>2. ASSUME NEW at, Goto(p, at) PROVE pc'[p] = at
  BY <1>2 DEF Goto, Types, TypeOK
<1>3. /\ \A f \in exec.completed : InPlace(f)
      /\ \A f \in job[p].doc.completed : InPlace(f)
      /\ \A f \in Names : acquired[f] \in DoneStates => InPlace(f)
  BY <1>1 DEF Placement, Placed, DoneIsThere, Verified
<1>4. \A f \in Names : acquired'[f] \in DoneStates => acquired[f] \in DoneStates
  BY DEF Stream, StreamBreaks, StepFails, Check, SaveReady, TruncateTemp, FillTemp, Rename,
         SaveEntry, Types, TypeOK, DoneStates
<1>5. CASE StepFails(p)
  <2>1. UNCHANGED media /\ pc'[p] = "failing"
    BY <1>2, <1>5 DEF StepFails
  <2>2. \A f \in job'[p].doc.completed : InPlace(f)
    <3>1. CASE pc[p] = "booking"
      <4>1. job'[p] = [job[p] EXCEPT !.doc.completed = @ \cup {Current(p)}]
        BY <1>5, <3>1 DEF StepFails, Remember, Types, TypeOK
      <4>2. job'[p].doc.completed = job[p].doc.completed \cup {Current(p)}
        BY <1>1, <4>1 DEF Jobs, Executions
      <4>3. InPlace(Current(p))
        BY <3>1 DEF Placement, Verified
      <4> QED
        BY <1>3, <4>2, <4>3
    <3>2. CASE pc[p] # "booking"
      <4>1. job'[p] = job[p]
        BY <1>5, <3>2 DEF StepFails, Remember, Types, TypeOK
      <4> QED
        BY <1>3, <4>1
    <3> QED
      BY <3>1, <3>2
  <2> QED
    BY <1>1, <1>3, <1>4, <2>1, <2>2, QuietKept DEF QuietPcs
<1>6. CASE Stream(p) \/ StreamBreaks(p)
  <2>1. pc'[p] \in {"checking", "failing"} /\ UNCHANGED <<media, job>>
    BY <1>2, <1>6 DEF Stream, StreamBreaks
  <2> QED
    BY <1>1, <1>3, <1>4, <2>1, QuietKept DEF QuietPcs
<1>7. CASE Check(p) \/ SaveReady(p)
  <2>1. Current(p)' = Current(p) /\ UNCHANGED <<partial, temp, media, job>>
    BY <1>7 DEF Check, SaveReady, Current
  <2>2. /\ pc'[p] \in {"failing", "ready", "copying"}
        /\ pc'[p] # "failing" => Acceptable(Current(p), partial[Current(p)])
    BY <1>2, <1>7 DEF Check, SaveReady, Placement, Verified
  <2> QED
    BY <1>1, <1>3, <1>4, <2>1, <2>2, PlacementKept DEF Acceptable
<1>8. CASE TruncateTemp(p) \/ FillTemp(p)
  <2>1. Current(p)' = Current(p) /\ UNCHANGED <<partial, media, job>>
    BY <1>8 DEF TruncateTemp, FillTemp, Current
  <2>2. Acceptable(Current(p), partial[Current(p)])
    BY <1>8 DEF TruncateTemp, FillTemp, Placement, Verified
  <2>3. \/ pc'[p] = "filling"
        \/ pc'[p] = "renaming" /\ temp'[Target(Current(p))] = partial[Current(p)]
    BY <1>1, <1>2, <1>8 DEF TruncateTemp, FillTemp, Types, TypeOK
  <2> QED
    BY <1>1, <1>3, <1>4, <2>1, <2>2, <2>3, PlacementKept DEF Acceptable
<1>9. CASE Rename(p)
  <2> DEFINE t == Target(Current(p))
  <2>1. CASE temp[t] = "none"
    <3>1. pc'[p] = "failing" /\ UNCHANGED <<media, job>>
      BY <1>2, <1>9, <2>1 DEF Rename
    <3> QED
      BY <1>1, <1>3, <1>4, <3>1, QuietKept DEF QuietPcs
  <2>2. CASE temp[t] # "none"
    <3>1. /\ pc'[p] = "placed" /\ UNCHANGED <<job, acquired>> /\ Current(p)' = Current(p)
          /\ media'[t] = temp[t] /\ \A u \in Targets \ {t} : media'[u] = media[u]
      BY <1>1, <1>2, <1>9, <2>2 DEF Rename, Types, TypeOK, Current
    <3>2. Acceptable(Current(p), temp[t])
      BY <1>9 DEF Rename, Placement, Verified
    <3>3. \A f \in Names : InPlace(f) => InPlace(f)'
      BY <1>1, <2>2, <3>1, <3>2 DEF InPlace, Sharers, Acceptable, Targets
    <3>4. InPlace(Current(p))'
      BY <1>1, <2>2, <3>1, <3>2 DEF InPlace, Sharers, Acceptable
    <3>5. exec.completed \subseteq Names /\ job[p].doc.completed \subseteq Names
      BY <1>1 DEF Types, TypeOK, Executions
    <3>6. Placed'
      BY <1>1, <1>3, <3>1, <3>3, <3>5 DEF Placed, DoneIsThere
    <3>7. Verified(p)'
      BY <1>3, <3>1, <3>3, <3>4, <3>5 DEF Verified
    <3> QED
      BY <3>6, <3>7, SoloPlacement
  <2> QED
    BY <2>1, <2>2
<1> QED
  BY <1>5, <1>6, <1>7, <1>8, <1>9

LEMMA PlacementNext == ASSUME Solo, Types, Placement, [Next]_vars PROVE Placement'
<1>1. CASE PlanCreate \/ PlanApprove \/ PlanCancel \/ UNCHANGED vars
  <2>1. UNCHANGED <<exec, acquired, partial, temp, media, pc, job>>
    BY <1>1 DEF PlanCreate, PlanApprove, PlanCancel, vars
  <2> QED
    BY <2>1 DEF Placement, Placed, DoneIsThere, Verified, Current, InPlace
<1> QED
  BY <1>1, PlacementCommand, PlacementSave, PlacementFile DEF Next, Step

LEMMA PlacementInit == ASSUME Init PROVE Placement
<1>1. exec.completed = {}
  BY DEF Init, NewExecution
<1> QED
  BY <1>1 DEF Init, Placement, Placed, DoneIsThere, DoneStates, Verified

\* When one command runs at a time, an entry that is done has a file at its
\* destination, its own or that of another file of the plan that shares it.
THEOREM DoneIsAlwaysThere == ASSUME Solo PROVE Spec => []DoneIsThere
<1>1. Init => Types /\ Placement
  BY TypesInit, PlacementInit
<1>2. Types /\ Placement /\ [Next]_vars => Types' /\ Placement'
  BY TypesStep, PlacementNext
<1>3. Placement => DoneIsThere
  BY DEF Placement, Placed
<1> QED
  BY <1>1, <1>2, <1>3, PTL DEF Spec

\* Where no two files of the plan share a destination, it is its own: the
\* approved file whole where the plan can tell.
OwnIsThere ==
  \A f \in Names : acquired[f] \in DoneStates =>
    media[Target(f)] # "none" /\ (f \in Described => media[Target(f)] = f)

THEOREM OwnFileIsAlwaysThere ==
  ASSUME Solo, \A f, g \in Names : Target(f) = Target(g) => f = g
  PROVE  Spec => []OwnIsThere
<1>1. DoneIsThere => OwnIsThere
  BY DEF DoneIsThere, OwnIsThere, InPlace, Sharers
<1> QED
  BY <1>1, DoneIsAlwaysThere, PTL

\* Only the rename changes media.
LEMMA OnlyRename ==
  ASSUME [Next]_vars, media' # media
  PROVE  \E p \in Commands : Rename(p)
BY DEF Next, vars, PlanCreate, PlanApprove, PlanCancel, ExecuteStart, ResumeStart, CancelStart, Crash,
   Step, SavePlanned, ResetEntry, SaveAcquiring, Reuse, SaveReused, Block, SaveBlocked, Begin, Stream,
   StreamBreaks, StepFails, Check, SaveReady, TruncateTemp, FillTemp, SavePlaced, SaveBooked,
   SaveProvenance, FailEntry, SaveFailed, FinishExecute, FinishResume, CancelSave

\* When one command runs at a time, nothing becomes media but a file that the
\* plan selects for that destination, whole where its size and hashes are
\* known, whatever the server sent and however often a download was cut short.
THEOREM MediaAreVerified == ASSUME Solo PROVE Spec => OnlyVerifiedMedia
<1>1. Init => Types /\ Placement
  BY TypesInit, PlacementInit
<1>2. Types /\ Placement /\ [Next]_vars => Types' /\ Placement'
  BY TypesStep, PlacementNext
<1>3. Types /\ Placement /\ [Next]_vars
        => [\A t \in Targets : media'[t] # media[t] =>
              \E f \in Names : Target(f) = t /\ (f \in Described => media'[t] = f)]_media
  <2> SUFFICES ASSUME Types, Placement, [Next]_vars, media' # media,
                      NEW t \in Targets, media'[t] # media[t]
               PROVE  \E f \in Names : Target(f) = t /\ (f \in Described => media'[t] = f)
    OBVIOUS
  <2>1. PICK p \in Commands : Rename(p)
    BY OnlyRename
  <2>2. media' = [media EXCEPT ![Target(Current(p))] = temp[Target(Current(p))]]
    BY <2>1 DEF Rename
  <2>3. t = Target(Current(p)) /\ media'[t] = temp[t]
    BY <2>2 DEF Types, TypeOK
  <2>4. Acceptable(Current(p), temp[t]) /\ Current(p) \in Names
    BY <2>1, <2>3, CurrentIsName DEF Rename, Placement, Verified, Types, InHand, HandPcs
  <2> QED
    BY <2>3, <2>4 DEF Acceptable
<1> QED
  BY <1>1, <1>2, <1>3, PTL DEF Spec, OnlyVerifiedMedia

-----------------------------------------------------------------------------
(* The execution document and the entries *)

WorkPcs == {"next"} \cup HandPcs

\* A completed execution agrees with its entries.
Settled ==
  exec.state \in {"completed", "completed-with-skips"} =>
    /\ \A f \in Names : acquired[f] \in DoneStates \cup {"none"}
    /\ \A f \in exec.completed : acquired[f] = "completed"

\* What a command at work knows of the document it holds
AtWork(p) ==
  /\ job[p].doc.state = exec.state
  /\ job[p].mode \in {"execute", "resume"}
  /\ exec.state # "completed"
  /\ exec.state = "completed-with-skips" => job[p].todo = {}
  /\ job[p].mode = "execute" => exec.state \in {"acquiring", "blocked", "failed"}
  /\ job[p].mode = "execute" /\ exec.state = "acquiring" =>
       /\ \A f \in Names \ job[p].todo : acquired[f] \in DoneStates
       /\ pc[p] \notin {"failing", "failed"} =>
            \A f \in job[p].doc.completed :
              /\ acquired[f] = "completed"
              /\ f \in job[p].todo => pc[p] = "recording" /\ f = Current(p)
  /\ pc[p] \in {"reused", "blocked", "booking", "recording", "failed"} => job[p].mode = "execute"
  /\ pc[p] = "reused" => acquired[Current(p)] = "reused"
  /\ pc[p] \in {"booking", "recording"} => acquired[Current(p)] = "completed"

Booked(p) ==
  /\ pc[p] = "planned" => job[p].doc = NewExecution("planned")
  /\ pc[p] = "resetting" => job[p].doc = NewExecution("planned") /\ exec.state = "planned"
  /\ pc[p] \in {"planned", "resetting"} => job[p].mode = "execute"
  /\ pc[p] \in WorkPcs => AtWork(p)

Books == Settled /\ \A p \in Commands : Booked(p)

LEMMA SoloBooks ==
  ASSUME Solo, NEW p \in Commands, Booked(p)', Settled'
  PROVE  Books'
BY DEF Solo, Books

LEMMA PcsApart ==
  /\ "idle" \notin WorkPcs /\ "planned" \notin WorkPcs /\ "resetting" \notin WorkPcs
  /\ "cancelling" \notin WorkPcs /\ WorkPcs \subseteq Pcs
BY DEF WorkPcs, HandPcs, Pcs

\* While an entry is in hand, the execution is not completed.
LEMMA SavedInHand ==
  ASSUME Types, Books, NEW p \in Commands, NEW s \in EntryStates,
         pc[p] \in WorkPcs, job[p].todo # {}, SaveEntry(p, s), UNCHANGED exec
  PROVE  /\ Settled'
         /\ acquired'[Current(p)] = s
         /\ \A f \in Names \ {Current(p)} : acquired'[f] = acquired[f]
         /\ exec.state # "completed-with-skips" /\ exec.state # "completed"
<1>1. Current(p) \in Names
  BY CurrentIsName
<1>2. exec.state # "completed-with-skips" /\ exec.state # "completed"
  BY DEF Books, Booked, AtWork
<1>3. \A f \in Names : acquired'[f] = IF f = Current(p) THEN s ELSE acquired[f]
  BY DEF SaveEntry, Types, TypeOK
<1> QED
  BY <1>1, <1>2, <1>3 DEF Settled

\* Commands start, and are killed.
LEMMA BooksStart ==
  ASSUME Solo, Types, Books, NEW p \in Commands,
         ExecuteStart(p) \/ ResumeStart(p) \/ CancelStart(p) \/ Crash(p)
  PROVE  Books'
<1>1. Settled' /\ Settled
  BY DEF ExecuteStart, ResumeStart, CancelStart, Crash, Books, Settled
<1>2. ASSUME NEW at, Goto(p, at) PROVE pc'[p] = at
  BY <1>2 DEF Goto, Types, TypeOK
<1>3. ASSUME NEW j, Remember(p, j) PROVE job'[p] = j
  BY <1>3 DEF Remember, Types, TypeOK
<1>4. CASE Crash(p)
  BY <1>1, <1>2, <1>4, PcsApart, SoloBooks DEF Crash, Leave, Booked
<1>5. CASE ExecuteStart(p)
  <2>1. pc'[p] = "planned" /\ job'[p] = [NoJob EXCEPT !.doc = NewExecution("planned"), !.todo = Names]
    BY <1>2, <1>3, <1>5 DEF ExecuteStart
  <2>2. job'[p].doc = NewExecution("planned") /\ job'[p].mode = "execute"
    BY <2>1 DEF NoJob
  <2> QED
    BY <1>1, <2>1, <2>2, PcsApart, SoloBooks DEF Booked
<1>6. CASE CancelStart(p)
  <2>1. pc'[p] = "cancelling"
    BY <1>2, <1>6 DEF CancelStart
  <2> QED
    BY <1>1, <2>1, PcsApart, SoloBooks DEF Booked
<1>7. CASE ResumeStart(p)
  <2> DEFINE todo == {f \in Names : acquired[f] \notin DoneStates \cup {"none"}}
             j == [NoJob EXCEPT !.mode = "resume", !.doc = exec, !.todo = todo]
  <2>1. Goto(p, "next") /\ Remember(p, j) /\ UNCHANGED <<exec, acquired>> /\ exec.state # "completed"
    BY <1>7 DEF ResumeStart
  <2>2. pc'[p] = "next" /\ job'[p] = j
    BY <1>2, <1>3, <2>1
  <2>3. j.doc = exec /\ j.mode = "resume" /\ j.todo = todo
    BY DEF NoJob
  <2>4. exec.state = "completed-with-skips" => todo = {}
    BY <1>1 DEF Settled
  <2>5. AtWork(p)'
    BY <2>1, <2>2, <2>3, <2>4 DEF AtWork
  <2> QED
    BY <1>1, <2>2, <2>5, SoloBooks DEF Booked
<1> QED
  BY <1>4, <1>5, <1>6, <1>7

\* mirror-execute sets out.
LEMMA BooksSetOut ==
  ASSUME Solo, Types, Books, NEW p \in Commands, SavePlanned(p) \/ ResetEntry(p) \/ SaveAcquiring(p)
  PROVE  Books'
<1>1. job[p] \in Jobs /\ Booked(p)
  BY JobIsJob DEF Books
<1>2. ASSUME NEW at, Goto(p, at) PROVE pc'[p] = at
  BY <1>2 DEF Goto, Types, TypeOK
<1>3. ASSUME NEW j, Remember(p, j) PROVE job'[p] = j
  BY <1>3 DEF Remember, Types, TypeOK
<1>4. ASSUME exec'.state \notin {"completed", "completed-with-skips"}
      PROVE  Settled'
  BY <1>4 DEF Settled
<1>5. CASE SavePlanned(p)
  <2>1. /\ pc'[p] = "resetting" /\ exec' = NewExecution("planned")
        /\ job'[p] = [job[p] EXCEPT !.doc = exec'] /\ job[p].mode = "execute"
    BY <1>1, <1>2, <1>3, <1>5 DEF SavePlanned, SaveExecution, Booked
  <2>2. job'[p].doc = exec' /\ job'[p].mode = "execute"
    BY <1>1, <2>1 DEF Jobs
  <2>3. exec'.state = "planned"
    BY <2>1 DEF NewExecution
  <2>4. Booked(p)'
    BY <2>1, <2>2, <2>3, PcsApart DEF Booked
  <2> QED
    BY <1>4, <2>3, <2>4, SoloBooks
<1>6. CASE ResetEntry(p)
  <2>1. /\ pc'[p] = "resetting" /\ UNCHANGED exec /\ exec.state = "planned"
        /\ job'[p] = Done(p) /\ job[p].doc = NewExecution("planned") /\ job[p].mode = "execute"
    BY <1>1, <1>3, <1>6 DEF ResetEntry, Booked
  <2>2. job'[p].doc = job[p].doc /\ job'[p].mode = "execute"
    BY <1>1, <2>1, DoneIsJob DEF Jobs
  <2> QED
    BY <1>4, <2>1, <2>2, PcsApart, SoloBooks DEF Booked
<1>7. CASE SaveAcquiring(p)
  <2> DEFINE doc == [job[p].doc EXCEPT !.state = "acquiring"]
             j == [[job[p] EXCEPT !.todo = Names] EXCEPT !.doc = doc]
  <2>1. /\ pc'[p] = "next" /\ exec' = doc /\ job'[p] = j
        /\ job[p].doc = NewExecution("planned") /\ job[p].mode = "execute"
    BY <1>1, <1>2, <1>3, <1>7 DEF SaveAcquiring, SaveExecution, Booked
  <2>2. j.doc = doc /\ j.mode = "execute" /\ j.todo = Names
    BY <1>1, <2>1 DEF Jobs
  <2>3. doc.completed = {} /\ doc.state = "acquiring"
    BY <2>1 DEF NewExecution
  <2> HIDE DEF doc, j
  <2>4. AtWork(p)'
    BY <2>1, <2>2, <2>3 DEF AtWork
  <2> QED
    BY <1>4, <2>1, <2>3, <2>4, SoloBooks DEF Booked
<1> QED
  BY <1>5, <1>6, <1>7

\* Steps that only work on files
LEMMA BooksFiles ==
  ASSUME Solo, Types, Books, NEW p \in Commands,
         \/ Stream(p) \/ StreamBreaks(p) \/ Check(p)
         \/ TruncateTemp(p) \/ FillTemp(p) \/ Rename(p)
  PROVE  Books'
<1> DEFINE files == {"streaming", "checking", "ready", "copying", "filling", "renaming", "placed", "failing"}
<1>1. UNCHANGED <<exec, acquired, job>> /\ pc[p] \in WorkPcs \cap (files \ {"failing"}) /\ \E at \in files : Goto(p, at)
  BY DEF Stream, StreamBreaks, Check, TruncateTemp, FillTemp, Rename, WorkPcs, HandPcs
<1>2. pc'[p] \in files
  BY <1>1 DEF Goto, Types, TypeOK
<1>3. AtWork(p) /\ Settled
  BY <1>1 DEF Books, Booked
<1>4. files \cap {"next", "reused", "blocked", "booking", "recording", "failed", "planned", "resetting",
                  "cancelling"} = {}
  OBVIOUS
<1>5. AtWork(p)' /\ Settled'
  BY <1>1, <1>2, <1>3, <1>4 DEF AtWork, Settled
<1> QED
  BY <1>2, <1>4, <1>5, SoloBooks DEF Booked

\* A step of a file fails.
LEMMA BooksFail ==
  ASSUME Solo, Types, Books, NEW p \in Commands, StepFails(p)
  PROVE  Books'
<1> DEFINE j == IF pc[p] = "booking" THEN [job[p] EXCEPT !.doc.completed = @ \cup {Current(p)}] ELSE job[p]
<1>1. /\ UNCHANGED <<exec, acquired>> /\ pc'[p] = "failing" /\ job'[p] = j
      /\ pc[p] \in WorkPcs /\ job[p] \in Jobs
  BY JobIsJob DEF StepFails, Trying, At, Goto, Remember, Types, TypeOK, WorkPcs, HandPcs
<1>2. j.todo = job[p].todo /\ j.mode = job[p].mode /\ j.doc.state = job[p].doc.state
  BY <1>1 DEF Jobs, Executions
<1> HIDE DEF j
<1>3. AtWork(p) /\ Settled
  BY <1>1 DEF Books, Booked
<1>4. AtWork(p)' /\ Settled'
  BY <1>1, <1>2, <1>3 DEF AtWork, Settled
<1> QED
  BY <1>1, <1>4, SoloBooks DEF Booked

\* Steps that save the entry in hand
LEMMA BooksEntry ==
  ASSUME Solo, Types, Books, NEW p \in Commands,
         Reuse(p) \/ Block(p) \/ Begin(p) \/ SaveReady(p) \/ SavePlaced(p) \/ FailEntry(p)
  PROVE  Books'
<1>1. /\ pc[p] \in WorkPcs \ {"recording", "failed"} /\ job[p].todo # {}
      /\ pc[p] = "failing" => FailEntry(p)
  BY DEF Reuse, Block, Begin, SaveReady, SavePlaced, FailEntry, At, WorkPcs, HandPcs, Types, InHand
<1>2. /\ AtWork(p) /\ job[p] \in Jobs /\ Current(p) \in job[p].todo
      /\ Done(p) \in Jobs /\ Done(p) = [job[p] EXCEPT !.todo = job[p].todo \ {Current(p)}]
  BY <1>1, CurrentIsName, JobIsJob, DoneIsJob DEF Books, Booked
<1>3. {"reused", "blocked", "downloading", "ready-to-finalize", "completed", "failed"} \subseteq EntryStates
  BY DEF EntryStates, DoneStates
<1>4. PICK s \in EntryStates : SaveEntry(p, s) /\ UNCHANGED exec
  BY <1>3 DEF Reuse, Block, Begin, SaveReady, SavePlaced, FailEntry
<1>5. /\ Settled'
      /\ acquired'[Current(p)] = s
      /\ \A f \in Names \ {Current(p)} : acquired'[f] = acquired[f]
      /\ exec.state # "completed-with-skips" /\ exec.state # "completed"
  BY <1>1, <1>4, SavedInHand
<1>6. ASSUME NEW at, Goto(p, at) PROVE pc'[p] = at
  BY <1>6 DEF Goto, Types, TypeOK
<1>7. ASSUME NEW j, Remember(p, j) PROVE job'[p] = j
  BY <1>7 DEF Remember, Types, TypeOK
<1>8. ASSUME AtWork(p)', pc'[p] \in WorkPcs PROVE Books'
  BY <1>5, <1>8, PcsApart, SoloBooks DEF Booked
\* the step keeps the list of entries to reach
<1>9. CASE job'[p].todo = job[p].todo /\ job'[p].doc = job[p].doc /\ job'[p].mode = job[p].mode
  <2>1. Current(p)' = Current(p)
    BY <1>9 DEF Current
  <2>2. /\ pc'[p] \in WorkPcs \ {"recording", "failing"}
        /\ pc[p] = "failing" /\ job[p].mode = "execute" => pc'[p] = "failed"
        /\ pc'[p] \in {"reused", "blocked", "booking", "failed"} => job[p].mode = "execute"
        /\ pc'[p] = "reused" => acquired'[Current(p)] = "reused"
        /\ pc'[p] = "booking" => acquired'[Current(p)] = "completed"
    <3>1. CASE Reuse(p)
      <4>1. pc'[p] = "reused" /\ job[p].mode = "execute" /\ SaveEntry(p, "reused")
        BY <1>6, <3>1 DEF Reuse, Occupied
      <4>2. acquired'[Current(p)] = "reused"
        BY <1>1, <1>3, <1>4, <4>1, SavedInHand
      <4> QED
        BY <3>1, <4>1, <4>2 DEF Reuse, At, WorkPcs, HandPcs
    <3>2. CASE Block(p)
      BY <1>6, <3>2 DEF Block, At, Occupied, WorkPcs, HandPcs
    <3>3. CASE Begin(p) \/ SaveReady(p)
      BY <1>6, <3>3 DEF Begin, At, SaveReady, WorkPcs, HandPcs
    <3>4. CASE SavePlaced(p)
      <4>1. SaveEntry(p, "completed") /\ pc[p] = "placed" /\ (pc'[p] = "next" \/ (pc'[p] = "booking" /\ job[p].mode = "execute"))
        BY <1>6, <3>4 DEF SavePlaced
      <4>2. acquired'[Current(p)] = "completed"
        BY <1>1, <1>3, <1>4, <4>1, SavedInHand
      <4> QED
        BY <4>1, <4>2 DEF WorkPcs, HandPcs
    <3>5. CASE FailEntry(p)
      BY <1>6, <3>5 DEF FailEntry, WorkPcs, HandPcs
    <3> QED
      BY <3>1, <3>2, <3>3, <3>4, <3>5
  <2>3. ASSUME job[p].mode = "execute", exec.state = "acquiring"
        PROVE  /\ \A f \in Names \ job[p].todo : acquired'[f] \in DoneStates
               /\ pc'[p] # "failed" =>
                    \A f \in job[p].doc.completed : acquired'[f] = "completed" /\ f \notin job[p].todo
    <3>1. \A f \in Names \ job[p].todo : acquired[f] \in DoneStates
      BY <1>2, <2>3 DEF AtWork
    <3>2. ASSUME pc'[p] # "failed", NEW f \in job[p].doc.completed
          PROVE  acquired[f] = "completed" /\ f \notin job[p].todo
      BY <1>1, <1>2, <2>2, <2>3, <3>2 DEF AtWork
    <3>3. job[p].doc.completed \subseteq Names
      BY <1>2 DEF Jobs, Executions
    <3> QED
      BY <1>2, <1>5, <3>1, <3>2, <3>3
  <2>4. AtWork(p)'
    BY <1>1, <1>2, <1>4, <1>5, <1>9, <2>1, <2>2, <2>3 DEF AtWork
  <2> QED
    BY <1>8, <2>2, <2>4
\* or a resume goes on to the next
<1>10. CASE job'[p] = Done(p) /\ job[p].mode = "resume" /\ pc'[p] = "next"
  <2>1. /\ job'[p].todo = job[p].todo \ {Current(p)} /\ job'[p].doc = job[p].doc
        /\ job'[p].mode = "resume"
    BY <1>2, <1>10 DEF Jobs
  <2>2. AtWork(p)'
    BY <1>1, <1>2, <1>4, <1>5, <1>10, <2>1 DEF AtWork
  <2> QED
    BY <1>8, <1>10, <2>2 DEF WorkPcs
<1>11. \/ job'[p].todo = job[p].todo /\ job'[p].doc = job[p].doc /\ job'[p].mode = job[p].mode
       \/ job'[p] = Done(p) /\ job[p].mode = "resume" /\ pc'[p] = "next"
  <2>1. CASE Begin(p)
    <3>1. job'[p] = [job[p] EXCEPT !.offset = partial[Current(p)]]
      BY <1>7, <2>1 DEF Begin
    <3> QED
      BY <1>2, <3>1 DEF Jobs
  <2>2. CASE Reuse(p) \/ Block(p) \/ SaveReady(p)
    BY <2>2 DEF Reuse, Block, SaveReady
  <2>3. CASE SavePlaced(p) \/ FailEntry(p)
    <3>1. \/ UNCHANGED job
          \/ Goto(p, "next") /\ Remember(p, Done(p)) /\ job[p].mode # "execute"
      BY <2>3 DEF SavePlaced, FailEntry
    <3>2. job[p].mode \in {"execute", "resume"}
      BY <1>2 DEF AtWork
    <3> QED
      BY <1>6, <1>7, <3>1, <3>2
  <2> QED
    BY <2>1, <2>2, <2>3
<1> QED
  BY <1>9, <1>10, <1>11

\* Steps that save the execution document of a mirror-execute at work
LEMMA BooksSave ==
  ASSUME Solo, Types, Books, NEW p \in Commands,
         SaveReused(p) \/ SaveBlocked(p) \/ SaveBooked(p) \/ SaveProvenance(p) \/ SaveFailed(p)
  PROVE  Books'
<1>1. pc[p] \in {"reused", "blocked", "booking", "recording", "failed"} /\ UNCHANGED acquired
  BY DEF SaveReused, SaveBlocked, SaveBooked, SaveProvenance, SaveFailed
<1>2. pc[p] \in WorkPcs /\ job[p].todo # {}
  BY <1>1 DEF WorkPcs, HandPcs, Types, InHand
<1>3. /\ AtWork(p) /\ Settled /\ job[p] \in Jobs /\ job[p].doc \in Executions
      /\ Current(p) \in job[p].todo /\ Current(p) \in Names
      /\ Done(p) \in Jobs /\ Done(p) = [job[p] EXCEPT !.todo = job[p].todo \ {Current(p)}]
  BY <1>2, CurrentIsName, JobIsJob, DoneIsJob DEF Books, Booked
<1> DEFINE doc == job[p].doc
<1>4. /\ job[p].mode = "execute" /\ doc.state = exec.state
      /\ exec.state \in {"acquiring", "blocked", "failed"}
      /\ exec.state = "acquiring" => \A f \in Names \ job[p].todo : acquired[f] \in DoneStates
      /\ exec.state = "acquiring" /\ pc[p] # "failed" =>
           \A f \in doc.completed : /\ acquired[f] = "completed"
                                    /\ f \in job[p].todo => pc[p] = "recording" /\ f = Current(p)
  BY <1>1, <1>3 DEF AtWork
<1>5. ASSUME NEW at, Goto(p, at) PROVE pc'[p] = at
  BY <1>5 DEF Goto, Types, TypeOK
<1>6. ASSUME NEW j, Remember(p, j) PROVE job'[p] = j
  BY <1>6 DEF Remember, Types, TypeOK
\* what the document, the memory and the place must say afterwards
<1>7. ASSUME NEW at \in {"next", "recording"}, pc'[p] = at,
             job'[p].doc.state = exec'.state, job'[p].mode = "execute",
             exec'.state \in {"acquiring", "blocked", "failed"},
             exec'.state = "acquiring" =>
               /\ \A f \in Names \ job'[p].todo : acquired[f] \in DoneStates
               /\ \A f \in job'[p].doc.completed :
                    /\ acquired[f] = "completed"
                    /\ f \in job'[p].todo => at = "recording" /\ f = Current(p)',
             at = "recording" => acquired[Current(p)'] = "completed"
      PROVE  Books'
  <2>1. Settled'
    BY <1>7 DEF Settled
  <2>2. AtWork(p)'
    BY <1>1, <1>7 DEF AtWork
  <2>3. pc'[p] \in WorkPcs
    BY <1>7 DEF WorkPcs, HandPcs
  <2> QED
    BY <2>1, <2>2, <2>3, PcsApart, SoloBooks DEF Booked
<1>8. CASE SaveReused(p)
  <2>1. /\ pc'[p] = "next" /\ exec' = [doc EXCEPT !.reused = doc.reused \cup {Current(p)}]
        /\ job'[p] = [Done(p) EXCEPT !.doc = exec'] /\ pc[p] = "reused"
    BY <1>5, <1>6, <1>8 DEF SaveReused, SaveExecution
  <2>2. exec'.completed = doc.completed /\ exec'.state = doc.state
    BY <1>3, <2>1 DEF Executions
  <2>3. /\ job'[p].doc = exec' /\ job'[p].mode = "execute"
        /\ job'[p].todo = job[p].todo \ {Current(p)}
    BY <1>3, <1>4, <2>1 DEF Jobs
  <2>4. acquired[Current(p)] \in DoneStates
    BY <1>3, <2>1 DEF AtWork, DoneStates
  <2> HIDE DEF doc
  <2> QED
    BY <1>4, <1>7, <2>1, <2>2, <2>3, <2>4
<1>9. CASE SaveBlocked(p)
  <2>1. /\ pc'[p] = "next"
        /\ exec' = [doc EXCEPT !.blocked = doc.blocked \cup {Current(p)}, !.state = "blocked"]
        /\ job'[p] = [Done(p) EXCEPT !.doc = exec']
    BY <1>5, <1>6, <1>9 DEF SaveBlocked, SaveExecution
  <2>2. exec'.state = "blocked"
    BY <1>3, <2>1 DEF Executions
  <2>3. job'[p].doc = exec' /\ job'[p].mode = "execute"
    BY <1>3, <1>4, <2>1 DEF Jobs
  <2> QED
    BY <1>7, <2>1, <2>2, <2>3
<1>10. CASE SaveFailed(p)
  <2>1. /\ pc'[p] = "next"
        /\ exec' = [doc EXCEPT !.failed = doc.failed \cup {Current(p)}, !.state = "failed"]
        /\ job'[p] = [[job[p] EXCEPT !.todo = {}] EXCEPT !.doc = exec']
    BY <1>5, <1>6, <1>10 DEF SaveFailed, SaveExecution
  <2>2. exec'.state = "failed"
    BY <1>3, <2>1 DEF Executions
  <2>3. job'[p].doc = exec' /\ job'[p].mode = "execute"
    BY <1>3, <1>4, <2>1 DEF Jobs
  <2> QED
    BY <1>7, <2>1, <2>2, <2>3
<1>11. CASE SaveBooked(p)
  <2>1. /\ pc'[p] = "recording" /\ pc[p] = "booking"
        /\ exec' = [doc EXCEPT !.completed = doc.completed \cup {Current(p)}]
        /\ job'[p] = [job[p] EXCEPT !.doc = exec']
    BY <1>5, <1>6, <1>11 DEF SaveBooked, SaveExecution
  <2>2. exec'.completed = doc.completed \cup {Current(p)} /\ exec'.state = doc.state
    BY <1>3, <2>1 DEF Executions
  <2>3. job'[p].doc = exec' /\ job'[p].mode = "execute" /\ job'[p].todo = job[p].todo
    BY <1>3, <1>4, <2>1 DEF Jobs
  <2>4. Current(p)' = Current(p)
    BY <2>3 DEF Current
  <2>5. acquired[Current(p)] = "completed"
    BY <1>3, <2>1 DEF AtWork
  <2>6. exec'.state = "acquiring" =>
          /\ \A f \in Names \ job'[p].todo : acquired[f] \in DoneStates
          /\ \A f \in job'[p].doc.completed : acquired[f] = "completed" /\ (f \in job'[p].todo => f = Current(p)')
    <3> HIDE DEF doc
    <3> QED
      BY <1>4, <2>1, <2>2, <2>3, <2>4, <2>5
  <2>7. job'[p].doc.state = exec'.state /\ exec'.state \in {"acquiring", "blocked", "failed"}
    BY <1>4, <2>2, <2>3
  <2> HIDE DEF doc
  <2> QED
    BY <1>7, <2>1, <2>3, <2>4, <2>5, <2>6, <2>7
<1>12. CASE SaveProvenance(p)
  <2>1. pc'[p] = "next" /\ pc[p] = "recording" /\ UNCHANGED exec /\ job'[p] = Done(p)
    BY <1>5, <1>6, <1>12 DEF SaveProvenance
  <2>2. /\ job'[p].doc = doc /\ job'[p].mode = "execute"
        /\ job'[p].todo = job[p].todo \ {Current(p)}
    BY <1>3, <1>4, <2>1 DEF Jobs
  <2>3. acquired[Current(p)] \in DoneStates
    BY <1>3, <2>1 DEF AtWork, DoneStates
  <2> HIDE DEF doc
  <2> QED
    BY <1>4, <1>7, <2>1, <2>2, <2>3
<1> QED
  BY <1>8, <1>9, <1>10, <1>11, <1>12

\* Commands end.
LEMMA BooksEnd ==
  ASSUME Solo, Types, Books, NEW p \in Commands,
         FinishExecute(p) \/ FinishResume(p) \/ CancelSave(p)
  PROVE  Books'
<1>1. UNCHANGED acquired /\ pc'[p] = "idle"
  BY DEF FinishExecute, FinishResume, CancelSave, Leave, Goto, Types, TypeOK
<1>2. job[p] \in Jobs /\ job[p].doc \in Executions /\ Booked(p) /\ Settled
  BY JobIsJob DEF Books
<1>3. Settled'
  <2>1. CASE FinishExecute(p)
    <3>1. pc[p] \in WorkPcs /\ job[p].todo = {} /\ job[p].mode = "execute" /\ pc[p] = "next"
      BY <2>1 DEF FinishExecute, AtEnd, WorkPcs
    <3>2. /\ job[p].doc.state = exec.state /\ exec.state \in {"acquiring", "blocked", "failed"}
          /\ exec.state = "acquiring" =>
               /\ \A f \in Names : acquired[f] \in DoneStates
               /\ \A f \in job[p].doc.completed : acquired[f] = "completed"
      BY <1>2, <3>1 DEF Booked, AtWork
    <3>3. \/ exec' = exec
          \/ exec.state = "acquiring" /\ exec' = [job[p].doc EXCEPT !.state = EndState(job[p].doc)]
      BY <2>1, <3>2 DEF FinishExecute
    <3>4. exec' = exec \/ (exec.state = "acquiring" /\ exec'.completed = job[p].doc.completed)
      BY <1>2, <3>3 DEF Executions
    <3> QED
      BY <1>1, <1>2, <3>2, <3>4 DEF Settled
  <2>2. CASE FinishResume(p)
    <3>1. /\ exec'.completed = {f \in Names : acquired[f] = "completed"}
          /\ exec'.state = IF AllListedDone THEN "completed" ELSE "failed"
      BY <1>2, <2>2 DEF FinishResume, Executions
    <3> QED
      BY <1>1, <3>1 DEF Settled, AllListedDone
  <2>3. CASE CancelSave(p)
    <3>1. exec'.state = "cancelled"
      BY <1>2, <2>3 DEF CancelSave, Executions
    <3> QED
      BY <3>1 DEF Settled
  <2> QED
    BY <2>1, <2>2, <2>3
<1> QED
  BY <1>1, <1>3, PcsApart, SoloBooks DEF Booked

LEMMA BooksNext == ASSUME Solo, Types, Books, [Next]_vars PROVE Books'
<1>1. CASE UNCHANGED <<exec, acquired, pc, job>>
  BY <1>1 DEF Books, Settled, Booked, AtWork, Current
<1>2. CASE PlanCreate \/ PlanApprove \/ PlanCancel \/ UNCHANGED vars
  BY <1>1, <1>2 DEF PlanCreate, PlanApprove, PlanCancel, vars
<1>3. ASSUME NEW p \in Commands,
             ExecuteStart(p) \/ ResumeStart(p) \/ CancelStart(p) \/ Step(p) \/ Crash(p)
      PROVE  Books'
  BY <1>3, BooksStart, BooksSetOut, BooksFiles, BooksFail, BooksEntry, BooksSave, BooksEnd DEF Step
<1> QED
  BY <1>2, <1>3 DEF Next

LEMMA BooksInit == ASSUME Init PROVE Books
<1>1. exec = NewExecution("none") /\ pc = [p \in Commands |-> "idle"]
  BY DEF Init
<1>2. exec.state = "none"
  BY <1>1 DEF NewExecution
<1> QED
  BY <1>1, <1>2, PcsApart DEF Books, Settled, Booked

\* While one command runs at a time, whatever a failed save, a kill, a retry
\* or a cancellation left behind, what the execution document lists as
\* completed was placed; and a completed execution agrees with its entries.
THEOREM BooksAlwaysAgree == ASSUME Solo PROVE Spec => []BooksAgree
<1>1. Init => Types /\ Books /\ Placement
  BY TypesInit, BooksInit, PlacementInit
<1>2. Types /\ Books /\ Placement /\ [Next]_vars => (Types /\ Books /\ Placement)'
  BY TypesStep, BooksNext, PlacementNext
<1>3. Books /\ Placement => BooksAgree
  BY DEF Books, Placement, Placed, Settled, BooksAgree
<1> QED
  BY <1>1, <1>2, <1>3, PTL DEF Spec
=============================================================================
