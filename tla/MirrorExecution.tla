--------------------------- MODULE MirrorExecution ---------------------------
(***************************************************************************)
(* mirror-plan-create, -approve, -cancel and mirror-execute, -resume,      *)
(* -cancel: one mirror plan, the one execution its id determines, and the  *)
(* media files it acquires (external/mirror_execution.py).                 *)
(*                                                                         *)
(* A command is one process; every document or file it writes is an action *)
(* of its own, so that it can be killed between any two.  The server is    *)
(* external: it may serve a file whole, cut short, or different from what  *)
(* the plan says, and it refuses a range that starts at the file's end.    *)
(***************************************************************************)
EXTENDS Naturals, FiniteSets

CONSTANTS
  Names,      \* files the plan selects: an item and a filename each
  Described,  \* those whose size and hashes the snapshot reported
  Target(_),  \* a file's destination; files of one filename share it, whatever their items
  Commands    \* mirror command processes

ASSUME DescribedAssumption == Described \subseteq Names

\* A file's own name stands for its whole contents.
ASSUME NamesAssumption == Names \cap {"none", "short", "wrong"} = {}

VARIABLES
  plan,        \* the plan document
  exec,        \* the execution document
  acquired,    \* state of each file's acquisition entry
  partial,     \* contents of each file's content.partial in staging
  temp,        \* contents of the temporary file next to each destination
  media,       \* contents of each destination
  provenance,  \* files that have a provenance record
  pc,          \* what each command does next
  job          \* its memory

vars == <<plan, exec, acquired, partial, temp, media, provenance, pc, job>>

Targets == {Target(f) : f \in Names}
Contents == {"none", "short", "wrong"} \cup Names

Plans == [status : {"none", "draft", "approved", "cancelled"}, approvals : BOOLEAN]

DoneStates == {"completed", "reused", "skipped"}
EntryStates == DoneStates \cup
  {"none", "pending", "downloading", "ready-to-finalize", "blocked", "failed"}

ExecutionStates ==
  {"none", "planned", "acquiring", "blocked", "failed", "completed", "completed-with-skips", "cancelled"}
Executions ==
  [state : ExecutionStates,
   completed : SUBSET Names, reused : SUBSET Names, blocked : SUBSET Names, failed : SUBSET Names]
NewExecution(state) ==
  [state |-> state, completed |-> {}, reused |-> {}, blocked |-> {}, failed |-> {}]

Pcs == {"idle", "planned", "resetting", "next", "reused", "blocked", "streaming", "checking",
        "ready", "copying", "filling", "renaming", "placed", "booking", "recording", "failing", "failed",
        "cancelling"}

Jobs ==
  [mode   : {"execute", "resume", "cancel"},
   doc    : Executions,    \* execution document as the process holds it
   todo   : SUBSET Names,  \* entries not yet reached
   offset : Contents]      \* what the partial file held when its size was read
NoJob == [mode |-> "execute", doc |-> NewExecution("none"), todo |-> {}, offset |-> "none"]

TypeOK ==
  /\ plan \in Plans
  /\ exec \in Executions
  /\ acquired \in [Names -> EntryStates]
  /\ partial \in [Names -> Contents]
  /\ temp \in [Targets -> Contents]
  /\ media \in [Targets -> Contents]
  /\ provenance \subseteq Names
  /\ pc \in [Commands -> Pcs]
  /\ job \in [Commands -> Jobs]

\* A destination may hold a file before the first execution: a right or another one.
Init ==
  /\ plan = [status |-> "none", approvals |-> FALSE]
  /\ exec = NewExecution("none")
  /\ acquired = [f \in Names |-> "none"]
  /\ partial = [f \in Names |-> "none"]
  /\ temp = [t \in Targets |-> "none"]
  /\ media \in [Targets -> Contents \ {"short"}]
  /\ \A f \in Names : \A t \in Targets : media[t] = f => Target(f) = t
  /\ provenance = {}
  /\ pc = [p \in Commands |-> "idle"]
  /\ job = [p \in Commands |-> NoJob]

-----------------------------------------------------------------------------
(* The operator's commands on the plan *)

\* The plan id hashes what the plan selects, not its history: creating the
\* same plan again starts its document over.
PlanCreate ==
  /\ plan' = [status |-> "draft", approvals |-> FALSE]
  /\ UNCHANGED <<exec, acquired, partial, temp, media, provenance, pc, job>>

PlanApprove ==
  /\ plan.status = "draft"
  /\ plan' = [status |-> "approved", approvals |-> TRUE]
  /\ UNCHANGED <<exec, acquired, partial, temp, media, provenance, pc, job>>

PlanCancel ==
  /\ plan.status \notin {"none", "cancelled"}
  /\ plan' = [plan EXCEPT !.status = "cancelled"]
  /\ UNCHANGED <<exec, acquired, partial, temp, media, provenance, pc, job>>

-----------------------------------------------------------------------------
(* Steps of a command *)

First(S) == CHOOSE f \in S : TRUE
Current(p) == First(job[p].todo)
Goto(p, at) == pc' = [pc EXCEPT ![p] = at]
Remember(p, j) == job' = [job EXCEPT ![p] = j]
Done(p) == [job[p] EXCEPT !.todo = @ \ {Current(p)}]
Leave(p) == Goto(p, "idle") /\ Remember(p, NoJob)

\* save_execution: replace the document, in memory and on disk
SaveExecution(p, doc, j) == exec' = doc /\ Remember(p, [j EXCEPT !.doc = doc])
SaveEntry(p, state) == acquired' = [acquired EXCEPT ![Current(p)] = state]

\* mutant: a file the server gave is taken as it is
TakeAnything(f, c) == TRUE

\* What the approved size and hashes accept; without them, anything
Acceptable(f, c) == f \in Described => c = f

\* mutant: an existing file is taken for the right one
AnyFile(f) == TRUE

\* A file at the destination that may be reused
Matches(f) == Acceptable(f, media[Target(f)])

ExecuteStart(p) ==
  /\ pc[p] = "idle"
  /\ plan.status = "approved" /\ plan.approvals
  /\ Goto(p, "planned")
  /\ Remember(p, [NoJob EXCEPT !.doc = NewExecution("planned"), !.todo = Names])
  /\ UNCHANGED <<plan, exec, acquired, partial, temp, media, provenance>>

SavePlanned(p) ==
  /\ pc[p] = "planned"
  /\ SaveExecution(p, job[p].doc, job[p])
  /\ Goto(p, "resetting")
  /\ UNCHANGED <<plan, acquired, partial, temp, media, provenance>>

ResetEntry(p) ==
  /\ pc[p] = "resetting" /\ job[p].todo # {}
  /\ SaveEntry(p, "pending")
  /\ Remember(p, Done(p))
  /\ UNCHANGED <<plan, exec, partial, temp, media, provenance, pc>>

SaveAcquiring(p) ==
  /\ pc[p] = "resetting" /\ job[p].todo = {}
  /\ SaveExecution(p, [job[p].doc EXCEPT !.state = "acquiring"], [job[p] EXCEPT !.todo = Names])
  /\ Goto(p, "next")
  /\ UNCHANGED <<plan, acquired, partial, temp, media, provenance>>

\* mirror-resume retries every entry that is not done; what became of the plan
\* is not asked.
ResumeStart(p) ==
  /\ pc[p] = "idle"
  /\ exec.state \notin {"none", "completed", "cancelled"}
  /\ Goto(p, "next")
  /\ Remember(p, [NoJob EXCEPT !.mode = "resume", !.doc = exec,
                               !.todo = {f \in Names : acquired[f] \notin DoneStates \cup {"none"}}])
  /\ UNCHANGED <<plan, exec, acquired, partial, temp, media, provenance>>

\* Only mirror-execute looks at the destination.
At(p) == pc[p] = "next" /\ job[p].todo # {}
Occupied(p) == job[p].mode = "execute" /\ media[Target(Current(p))] # "none"

Reuse(p) ==
  /\ At(p) /\ Occupied(p) /\ Matches(Current(p))
  /\ SaveEntry(p, "reused")
  /\ Goto(p, "reused")
  /\ UNCHANGED <<plan, exec, partial, temp, media, provenance, job>>

SaveReused(p) ==
  /\ pc[p] = "reused"
  /\ SaveExecution(p, [job[p].doc EXCEPT !.reused = @ \cup {Current(p)}], Done(p))
  /\ Goto(p, "next")
  /\ UNCHANGED <<plan, acquired, partial, temp, media, provenance>>

Block(p) ==
  /\ At(p) /\ Occupied(p) /\ ~Matches(Current(p))
  /\ SaveEntry(p, "blocked")
  /\ Goto(p, "blocked")
  /\ UNCHANGED <<plan, exec, partial, temp, media, provenance, job>>

SaveBlocked(p) ==
  /\ pc[p] = "blocked"
  /\ SaveExecution(p, [job[p].doc EXCEPT !.blocked = @ \cup {Current(p)}, !.state = "blocked"], Done(p))
  /\ Goto(p, "next")
  /\ UNCHANGED <<plan, acquired, partial, temp, media, provenance>>

\* The entry is downloading; what the partial file holds decides where to start.
Begin(p) ==
  /\ At(p) /\ ~Occupied(p)
  /\ SaveEntry(p, "downloading")
  /\ Remember(p, [job[p] EXCEPT !.offset = partial[Current(p)]])
  /\ Goto(p, "streaming")
  /\ UNCHANGED <<plan, exec, partial, temp, media, provenance>>

\* What the partial file may hold after a request from the offset: from zero
\* it is written anew, otherwise what the server sends is appended to whatever
\* is there by now.
Received(f, offset, now) ==
  IF offset = "none" \/ (offset = "short" /\ now = "short")
    THEN {"short", f, "wrong"}
    ELSE {"wrong"}

Stream(p) ==
  /\ pc[p] = "streaming"
  /\ \E c \in Received(Current(p), job[p].offset, partial[Current(p)]) :
       partial' = [partial EXCEPT ![Current(p)] = c]
  /\ Goto(p, "checking")
  /\ UNCHANGED <<plan, exec, acquired, temp, media, provenance, job>>

\* The connection breaks on the way.
StreamBreaks(p) ==
  /\ pc[p] = "streaming"
  /\ \E c \in Received(Current(p), job[p].offset, partial[Current(p)]) :
       partial' = [partial EXCEPT ![Current(p)] = c]
  /\ Goto(p, "failing")
  /\ UNCHANGED <<plan, exec, acquired, temp, media, provenance, job>>

\* Only mirror-execute saves that the file is ready.
Check(p) ==
  /\ pc[p] = "checking"
  /\ Goto(p, IF ~Acceptable(Current(p), partial[Current(p)]) THEN "failing"
             ELSE IF job[p].mode = "execute" THEN "ready" ELSE "copying")
  /\ UNCHANGED <<plan, exec, acquired, partial, temp, media, provenance, job>>

SaveReady(p) ==
  /\ pc[p] = "ready"
  /\ SaveEntry(p, "ready-to-finalize")
  /\ Goto(p, "copying")
  /\ UNCHANGED <<plan, exec, partial, temp, media, provenance, job>>

\* The temporary name holds the execution id, not the process.
TruncateTemp(p) ==
  /\ pc[p] = "copying"
  /\ temp' = [temp EXCEPT ![Target(Current(p))] = "short"]
  /\ Goto(p, "filling")
  /\ UNCHANGED <<plan, exec, acquired, partial, media, provenance, job>>

FillTemp(p) ==
  /\ pc[p] = "filling"
  /\ temp' = [temp EXCEPT ![Target(Current(p))] = partial[Current(p)]]
  /\ Goto(p, "renaming")
  /\ UNCHANGED <<plan, exec, acquired, partial, media, provenance, job>>

Rename(p) ==
  LET t == Target(Current(p)) IN
  /\ pc[p] = "renaming"
  /\ IF temp[t] = "none"
       THEN Goto(p, "failing") /\ UNCHANGED <<temp, media>>
       ELSE /\ media' = [media EXCEPT ![t] = temp[t]]
            /\ temp' = [temp EXCEPT ![t] = "none"]
            /\ Goto(p, "placed")
  /\ UNCHANGED <<plan, exec, acquired, partial, provenance, job>>

SavePlaced(p) ==
  /\ pc[p] = "placed"
  /\ SaveEntry(p, "completed")
  /\ IF job[p].mode = "execute"
       THEN Goto(p, "booking") /\ UNCHANGED job
       ELSE Goto(p, "next") /\ Remember(p, Done(p))
  /\ UNCHANGED <<plan, exec, partial, temp, media, provenance>>

SaveBooked(p) ==
  /\ pc[p] = "booking"
  /\ SaveExecution(p, [job[p].doc EXCEPT !.completed = @ \cup {Current(p)}], job[p])
  /\ Goto(p, "recording")
  /\ UNCHANGED <<plan, acquired, partial, temp, media, provenance>>

SaveProvenance(p) ==
  /\ pc[p] = "recording"
  /\ provenance' = provenance \cup {Current(p)}
  /\ Remember(p, Done(p))
  /\ Goto(p, "next")
  /\ UNCHANGED <<plan, exec, acquired, partial, temp, media>>

\* What the except around a file's steps covers, in mirror-execute from saving
\* that it is downloading to its provenance record
Trying(p) ==
  \/ pc[p] \in {"streaming", "checking", "ready", "copying", "filling", "renaming", "placed",
               "booking", "recording"}
  \/ At(p) /\ ~Occupied(p) /\ job[p].mode = "execute"

\* Any of these steps may raise: the server cannot be reached or does not
\* honour a range, a file or a document cannot be read or written.  The
\* execution in memory already lists the file when saving it fails.
StepFails(p) ==
  /\ Trying(p)
  /\ Goto(p, "failing")
  /\ Remember(p, IF pc[p] = "booking" THEN [job[p] EXCEPT !.doc.completed = @ \cup {Current(p)}]
                 ELSE job[p])
  /\ UNCHANGED <<plan, exec, acquired, partial, temp, media, provenance>>

\* A failure ends mirror-execute's loop; mirror-resume goes on.
FailEntry(p) ==
  /\ pc[p] = "failing"
  /\ SaveEntry(p, "failed")
  /\ IF job[p].mode = "execute"
       THEN Goto(p, "failed") /\ UNCHANGED job
       ELSE Goto(p, "next") /\ Remember(p, Done(p))
  /\ UNCHANGED <<plan, exec, partial, temp, media, provenance>>

SaveFailed(p) ==
  /\ pc[p] = "failed"
  /\ SaveExecution(p, [job[p].doc EXCEPT !.failed = @ \cup {Current(p)}, !.state = "failed"],
                   [job[p] EXCEPT !.todo = {}])
  /\ Goto(p, "next")
  /\ UNCHANGED <<plan, acquired, partial, temp, media, provenance>>

AtEnd(p) == pc[p] = "next" /\ job[p].todo = {}

\* mutant: the final result is saved as the state
FinalResult(doc) == "success"

EndState(doc) ==
  IF Cardinality(doc.completed) + Cardinality(doc.reused) = Cardinality(Names)
    THEN "completed" ELSE "completed-with-skips"

FinishExecute(p) ==
  LET doc == job[p].doc IN
  /\ AtEnd(p) /\ job[p].mode = "execute"
  /\ exec' = IF doc.state \in {"failed", "blocked"} THEN exec
             ELSE [doc EXCEPT !.state = EndState(doc)]
  /\ Leave(p)
  /\ UNCHANGED <<plan, acquired, partial, temp, media, provenance>>

\* mutant: a resume that retried everything is a success
RetriedAll == TRUE

\* Every entry that exists is done.
AllListedDone == \A f \in Names : acquired[f] \in DoneStates \cup {"none"}

FinishResume(p) ==
  /\ AtEnd(p) /\ job[p].mode = "resume"
  /\ exec' = [job[p].doc EXCEPT !.state = IF AllListedDone THEN "completed" ELSE "failed",
                                !.completed = {f \in Names : acquired[f] = "completed"},
                                !.failed = {f \in Names : acquired[f] = "failed"}]
  /\ Leave(p)
  /\ UNCHANGED <<plan, acquired, partial, temp, media, provenance>>

\* mirror-cancel reads the execution document and writes it back cancelled.
CancelStart(p) ==
  /\ pc[p] = "idle"
  /\ exec.state \notin {"none", "completed", "cancelled"}
  /\ Goto(p, "cancelling")
  /\ Remember(p, [NoJob EXCEPT !.mode = "cancel", !.doc = exec])
  /\ UNCHANGED <<plan, exec, acquired, partial, temp, media, provenance>>

CancelSave(p) ==
  /\ pc[p] = "cancelling"
  /\ exec' = [job[p].doc EXCEPT !.state = "cancelled"]
  /\ Leave(p)
  /\ UNCHANGED <<plan, acquired, partial, temp, media, provenance>>

\* The process is killed.
Crash(p) ==
  /\ pc[p] # "idle"
  /\ Leave(p)
  /\ UNCHANGED <<plan, exec, acquired, partial, temp, media, provenance>>

Step(p) ==
  \/ SavePlanned(p) \/ ResetEntry(p) \/ SaveAcquiring(p)
  \/ Reuse(p) \/ SaveReused(p) \/ Block(p) \/ SaveBlocked(p)
  \/ Begin(p) \/ Stream(p) \/ StreamBreaks(p) \/ StepFails(p) \/ Check(p) \/ SaveReady(p)
  \/ TruncateTemp(p) \/ FillTemp(p) \/ Rename(p) \/ SavePlaced(p) \/ SaveBooked(p) \/ SaveProvenance(p)
  \/ FailEntry(p) \/ SaveFailed(p) \/ FinishExecute(p) \/ FinishResume(p) \/ CancelSave(p)

Next ==
  \/ PlanCreate \/ PlanApprove \/ PlanCancel
  \/ \E p \in Commands :
       ExecuteStart(p) \/ ResumeStart(p) \/ CancelStart(p) \/ Step(p) \/ Crash(p)

Spec == Init /\ [][Next]_vars

-----------------------------------------------------------------------------
(* Properties *)

\* Files of the plan that share a destination
Sharers(f) == {g \in Names : Target(g) = Target(f)}

\* The destination of f holds the whole of f, or of a file that shares it, as
\* far as the plan can tell.
InPlace(f) ==
  /\ media[Target(f)] # "none"
  /\ \E g \in Sharers(f) : g \in Described => media[Target(f)] = g

\* Nothing is given the name of preserved media but a file the plan selects
\* for that name, whole where its size and hashes are known, however often a
\* download is cut short, resumed or killed.
OnlyVerifiedMedia ==
  [][\A t \in Targets : media'[t] # media[t] =>
       \E f \in Names : Target(f) = t /\ (f \in Described => media'[t] = f)]_media

\* An entry that is done has a file at its destination: its own, or that of
\* another file of the plan with the same destination.
DoneIsThere == \A f \in Names : acquired[f] \in DoneStates => InPlace(f)

\* What the execution document lists as completed was placed, even if saving
\* the rest failed and the entry was saved as failed; and a completed execution
\* agrees with its entries: none that exists is left undone, and those listed
\* as completed are.
BooksAgree ==
  /\ \A f \in exec.completed : InPlace(f)
  /\ exec.state \in {"completed", "completed-with-skips"} =>
       /\ \A f \in Names : acquired[f] \in DoneStates \cup {"none"}
       /\ \A f \in exec.completed : acquired[f] = "completed"

\* "Different content at the approved destination blocks execution and is
\* never overwritten" (docs/mirror-execution.md)
NeverOverwritten ==
  [][\A t \in Targets : media[t] # "none" => media'[t] = media[t]]_media
=============================================================================
