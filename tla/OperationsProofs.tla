--------------------------- MODULE OperationsProofs ---------------------------
(***************************************************************************)
(* What holds of scheduled jobs for every number of them, and of the       *)
(* canonical records for every collection when one command writes them at  *)
(* a time: locks are of those who made them, and no kill between two       *)
(* writes leaves a file without a record or a record without its events.   *)
(***************************************************************************)
EXTENDS Operations, TLAPS

-----------------------------------------------------------------------------
(* Types *)

\* The command has a document of object into, to which it appends.
Appends(m) == m.known[m.into] # NoRecord

\* The command has a document to write, or wrote it.
Writing == {"stage", "announce", "open", "fill", "copy", "copying", "conclude"}

\* What a step finds in its memory, whatever other commands do
Holds(m) ==
  /\ m.task = "check" => \A o \in m.todo : m.known[o] # NoRecord
  /\ m.at = "check" => m.object \in Objects /\ m.known[m.object] # NoRecord
  /\ m.at \in {"look", "stage"} => m.object \in Objects
  /\ m.at \in Writing => m.doc \in Documents
  /\ m.at \in {"announce", "copy", "copying"} => m.staged \in Contents
  /\ m.at \in {"open", "fill"} => Appends(m) \/ m.staged \in Contents

Types == OpTypeOK /\ \A c \in Operators : Holds(op[c])

LEMMA EventsAreNat == EventIds \subseteq Nat /\ EventIds \subseteq 0 .. MaxEvents /\ 0 \in 0 .. MaxEvents
BY RecordsAssumption DEF EventIds

LEMMA NothingIsTyped == NothingKnown \in [Objects -> Documents \cup {NoRecord}]
BY DEF NothingKnown

LEMMA IdleIsMemory == OpIdle \in Memory /\ Holds(OpIdle)
<1>1. OpIdle \in Memory
  BY EventsAreNat, NothingIsTyped DEF OpIdle, Memory, OpSteps
<1>2. OpIdle.at = "idle" /\ OpIdle.task = "idle"
  BY DEF OpIdle
<1> QED
  BY <1>1, <1>2 DEF Holds, Writing

\* Memory stays typed along with everything that held of the others.
LEMMA Remembers ==
  ASSUME Types, NEW c \in Operators, NEW m \in Memory, Holds(m), Become(c, m)
  PROVE  op' \in [Operators -> Memory] /\ \A d \in Operators : Holds(op'[d])
BY DEF Types, OpTypeOK, Become

LEMMA MemoryIsTyped ==
  ASSUME Types, NEW c \in Operators
  PROVE  op[c] \in Memory /\ Holds(op[c])
BY DEF Types, OpTypeOK

LEMMA StartTypes ==
  ASSUME Types, NEW c \in Operators, ImportSource(c) \/ Verify(c)
  PROVE  Types'
<1>1. PICK task \in {"look", "check"} : Start(c, task)
  BY DEF ImportSource, Verify
<1> DEFINE m == [OpIdle EXCEPT !.at = "next", !.task = task, !.known = record,
                  !.todo = IF task = "look" THEN Objects ELSE Recorded]
<1>6. record \in [Objects -> Documents \cup {NoRecord}]
  BY <1>1 DEF Start, Listable, Types, OpTypeOK
<1>2. m \in Memory
  BY <1>6, IdleIsMemory DEF Memory, OpSteps, Recorded
<1>3. m.at = "next" /\ (m.task = "check" => m.todo = Recorded) /\ m.known = record
  BY DEF OpIdle
<1>4. Holds(m)
  BY <1>3 DEF Holds, Writing, Recorded
<1>5. Become(c, m) /\ UNCHANGED <<source, archive, record, events, drawn>>
  BY <1>1 DEF Start
<1> HIDE DEF m
<1> QED
  BY <1>2, <1>4, <1>5, Remembers DEF Types, OpTypeOK

LEMMA ContinueTypes ==
  ASSUME Types, NEW c \in Operators, NEW known \in [Objects -> Documents \cup {NoRecord}],
         \A o \in Objects : op[c].known[o] # NoRecord => known[o] # NoRecord,
         Continue(c, known)
  PROVE  op' \in [Operators -> Memory] /\ \A d \in Operators : Holds(op'[d])
<1> DEFINE m == [OpIdle EXCEPT !.at = "next", !.task = op[c].task, !.todo = op[c].todo, !.known = known]
<1>1. op[c] \in Memory /\ Holds(op[c])
  BY MemoryIsTyped
<1>2. m \in Memory
  BY <1>1, IdleIsMemory DEF Memory, OpSteps
<1>3. m.at = "next" /\ m.task = op[c].task /\ m.todo = op[c].todo /\ m.known = known
  BY DEF OpIdle
<1>4. op[c].todo \subseteq Objects
  BY <1>1 DEF Memory
<1>5. Holds(m)
  BY <1>1, <1>3, <1>4 DEF Holds, Writing
<1> QED
  BY <1>2, <1>5, Remembers DEF Continue

LEMMA TakeNextTypes ==
  ASSUME Types, NEW c \in Operators, TakeNext(c)
  PROVE  Types'
<1>0. op[c] \in Memory /\ Holds(op[c]) /\ UNCHANGED <<source, archive, record, events, drawn>>
  BY MemoryIsTyped DEF TakeNext
<1>1. CASE Become(c, OpIdle)
  BY <1>0, <1>1, IdleIsMemory, Remembers DEF Types, OpTypeOK
<1>2. ASSUME NEW o \in op[c].todo,
             Become(c, [op[c] EXCEPT !.at = op[c].task, !.object = o, !.todo = @ \ {o}])
      PROVE  Types'
  <2> DEFINE m == [op[c] EXCEPT !.at = op[c].task, !.object = o, !.todo = @ \ {o}]
  <2>1. m \in Memory /\ o \in Objects
    BY <1>0 DEF Memory, OpSteps
  <2>2. /\ m.at = op[c].task /\ m.task = op[c].task /\ m.object = o
        /\ m.todo \subseteq op[c].todo /\ m.known = op[c].known
    BY <1>0 DEF Memory
  <2>3. op[c].task \in {"idle", "look", "check"}
    BY <1>0 DEF Memory
  <2>4. Holds(m)
    BY <1>0, <2>1, <2>2, <2>3 DEF Holds, Writing
  <2> QED
    BY <1>0, <1>2, <2>1, <2>4, Remembers DEF Types, OpTypeOK
<1> QED
  BY <1>1, <1>2 DEF TakeNext

\* A document with one more event is a document.
LEMMA AppendedIsDocument ==
  ASSUME NEW doc \in Documents, NEW e \in EventIds
  PROVE  /\ Appended(doc, e) \in Documents
         /\ Appended(doc, e).first = doc.first
         /\ Appended(doc, e).history = doc.history \cup {e}
BY DEF Appended, Documents

LEMMA CreatedIsDocument ==
  ASSUME Types, NEW o \in Objects, NEW e \in EventIds
  PROVE  /\ Created(o, e) \in Documents
         /\ Created(o, e).first = e /\ Created(o, e).history = {e}
BY DEF Created, Documents, Types, OpTypeOK

LEMMA DrawIsTyped ==
  ASSUME Types, NEW e \in EventIds, Draw(e)
  PROVE  drawn' \in 0 .. MaxEvents /\ drawn' = e /\ drawn < e
BY EventsAreNat DEF Draw, Types, OpTypeOK, EventIds

\* AppendToDuplicate and Check end alike.
LEMMA AppendTypes ==
  ASSUME Types, NEW c \in Operators, NEW d \in Objects, op[c].known[d] # NoRecord,
         NEW e \in EventIds, Draw(e), NEW result \in Results, Store(e, result),
         Become(c, [op[c] EXCEPT !.at = "open", !.into = d, !.doc = Appended(op[c].known[d], e)]),
         UNCHANGED <<source, archive, record>>
  PROVE  Types'
<1> DEFINE m == [op[c] EXCEPT !.at = "open", !.into = d, !.doc = Appended(op[c].known[d], e)]
<1>1. op[c] \in Memory /\ Holds(op[c])
  BY MemoryIsTyped
<1>2. op[c].known[d] \in Documents
  BY <1>1 DEF Memory
<1>3. Appended(op[c].known[d], e) \in Documents
  BY <1>2, AppendedIsDocument
<1>4. m \in Memory
  BY <1>1, <1>3 DEF Memory, OpSteps
<1>5. /\ m.at = "open" /\ m.into = d /\ m.doc \in Documents /\ m.known = op[c].known
      /\ m.task = op[c].task /\ m.todo = op[c].todo
  BY <1>1, <1>3 DEF Memory
<1>6. Holds(m)
  BY <1>1, <1>5 DEF Holds, Writing, Appends
<1>7. op' \in [Operators -> Memory] /\ \A x \in Operators : Holds(op'[x])
  BY <1>4, <1>6, Remembers
<1>8. events' \in [EventIds -> Results]
  BY DEF Store, Types, OpTypeOK
<1> QED
  BY <1>7, <1>8, DrawIsTyped DEF Types, OpTypeOK

LEMMA AppendToDuplicateTypes ==
  ASSUME Types, NEW c \in Operators, AppendToDuplicate(c)
  PROVE  Types'
<1>1. PICK d \in Duplicates(c, op[c].object), e \in EventIds :
        /\ Draw(e) /\ Store(e, "success")
        /\ Become(c, [op[c] EXCEPT !.at = "open", !.into = d, !.doc = Appended(op[c].known[d], e)])
  BY DEF AppendToDuplicate
<1>2. d \in Objects /\ op[c].known[d] # NoRecord
  BY MemoryIsTyped DEF Duplicates, AppendToDuplicate, At, Holds, Writing
<1>3. "success" \in Results /\ UNCHANGED <<source, archive, record>>
  BY DEF Results, AppendToDuplicate
<1> QED
  BY <1>1, <1>2, <1>3, AppendTypes

LEMMA CheckTypes ==
  ASSUME Types, NEW c \in Operators, Check(c)
  PROVE  Types'
<1>1. op[c].object \in Objects /\ op[c].known[op[c].object] # NoRecord
  BY MemoryIsTyped DEF Check, At, Holds, Writing
<1>2. PICK e \in EventIds, result \in {"success", "failed"} :
        /\ Draw(e) /\ Store(e, result)
        /\ Become(c, [op[c] EXCEPT !.at = "open", !.into = op[c].object,
                                   !.doc = Appended(op[c].known[op[c].object], e)])
  BY DEF Check
<1>3. result \in Results /\ UNCHANGED <<source, archive, record>>
  BY DEF Results, Check
<1> QED
  BY <1>1, <1>2, <1>3, AppendTypes

LEMMA CandidateTypes ==
  ASSUME Types, NEW c \in Operators, Candidate(c)
  PROVE  Types'
<1>1. PICK e \in EventIds :
        /\ Draw(e)
        /\ Become(c, [op[c] EXCEPT !.at = "stage", !.into = op[c].object, !.event = e,
                                   !.doc = Created(op[c].object, e)])
  BY DEF Candidate
<1> DEFINE m == [op[c] EXCEPT !.at = "stage", !.into = op[c].object, !.event = e,
                              !.doc = Created(op[c].object, e)]
<1>2. op[c] \in Memory /\ Holds(op[c]) /\ op[c].object \in Objects
  BY MemoryIsTyped DEF Candidate, At, Holds, Writing
<1>3. Created(op[c].object, e) \in Documents
  BY <1>2, CreatedIsDocument
<1>4. m \in Memory
  BY <1>2, <1>3, EventsAreNat DEF Memory, OpSteps
<1>5. /\ m.at = "stage" /\ m.object = op[c].object /\ m.doc \in Documents
      /\ m.known = op[c].known /\ m.task = op[c].task /\ m.todo = op[c].todo
  BY <1>2, <1>3 DEF Memory
<1>6. Holds(m)
  BY <1>2, <1>5 DEF Holds, Writing
<1>7. op' \in [Operators -> Memory] /\ \A x \in Operators : Holds(op'[x])
  BY <1>1, <1>4, <1>6, Remembers
<1> QED
  BY <1>1, <1>7, DrawIsTyped DEF Candidate, Types, OpTypeOK

LEMMA StageTypes ==
  ASSUME Types, NEW c \in Operators, Stage(c)
  PROVE  Types'
<1> DEFINE m == [op[c] EXCEPT !.at = "announce", !.staged = source[op[c].object]]
<1>1. op[c] \in Memory /\ Holds(op[c]) /\ op[c].object \in Objects /\ op[c].doc \in Documents
  BY MemoryIsTyped DEF Stage, At, Holds, Writing
<1>2. source[op[c].object] \in Contents
  BY <1>1 DEF Types, OpTypeOK
<1>3. m \in Memory
  BY <1>1, <1>2 DEF Memory, OpSteps
<1>4. /\ m.at = "announce" /\ m.doc = op[c].doc /\ m.staged \in Contents
      /\ m.known = op[c].known /\ m.task = op[c].task /\ m.todo = op[c].todo
  BY <1>1, <1>2 DEF Memory
<1>5. Holds(m)
  BY <1>1, <1>4 DEF Holds, Writing
<1>6. op' \in [Operators -> Memory] /\ \A x \in Operators : Holds(op'[x])
  BY <1>3, <1>5, Remembers DEF Stage
<1> QED
  BY <1>6 DEF Stage, Types, OpTypeOK

\* A step that only moves on keeps what the next one needs.
LEMMA GoTypes ==
  ASSUME Types, NEW c \in Operators, NEW next \in {"open", "fill", "copy", "copying", "conclude"},
         Go(c, next),
         op[c].doc \in Documents,
         next = "conclude" \/ (Appends(op[c]) /\ next \in {"open", "fill"}) \/ op[c].staged \in Contents
  PROVE  op' \in [Operators -> Memory] /\ \A d \in Operators : Holds(op'[d])
<1> DEFINE m == [op[c] EXCEPT !.at = next]
<1>1. op[c] \in Memory /\ Holds(op[c])
  BY MemoryIsTyped
<1>2. m \in Memory
  BY <1>1 DEF Memory, OpSteps
<1>3. /\ m.at = next /\ m.doc = op[c].doc /\ m.staged = op[c].staged /\ m.into = op[c].into
      /\ m.known = op[c].known /\ m.task = op[c].task /\ m.todo = op[c].todo
  BY <1>1 DEF Memory
<1>4. Holds(m)
  BY <1>1, <1>3 DEF Holds, Writing, Appends
<1> QED
  BY <1>2, <1>4, Remembers DEF Go

LEMMA AnnounceTypes ==
  ASSUME Types, NEW c \in Operators, Announce(c)
  PROVE  Types'
<1>1. op[c].doc \in Documents /\ op[c].staged \in Contents
  BY MemoryIsTyped DEF Announce, At, Holds, Writing
<1>2. op' \in [Operators -> Memory] /\ \A d \in Operators : Holds(op'[d])
  BY <1>1, GoTypes DEF Announce
<1>3. events' \in [EventIds -> Results]
  BY DEF Announce, Store, Types, OpTypeOK, Results
<1> QED
  BY <1>2, <1>3 DEF Announce, Types, OpTypeOK

LEMMA OpenRecordTypes ==
  ASSUME Types, NEW c \in Operators, OpenRecord(c)
  PROVE  Types'
<1>1. op[c].doc \in Documents /\ (Appends(op[c]) \/ op[c].staged \in Contents)
  BY MemoryIsTyped DEF OpenRecord, At, Holds, Writing
<1>2. op' \in [Operators -> Memory] /\ \A d \in Operators : Holds(op'[d])
  BY <1>1, GoTypes DEF OpenRecord
<1>3. record' \in [Objects -> Documents \cup {NoRecord, Emptied}]
  BY DEF OpenRecord, Types, OpTypeOK
<1> QED
  BY <1>2, <1>3 DEF OpenRecord, Types, OpTypeOK

LEMMA FillRecordTypes ==
  ASSUME Types, NEW c \in Operators, FillRecord(c)
  PROVE  Types'
<1>1. /\ op[c] \in Memory /\ op[c].doc \in Documents
      /\ Appends(op[c]) \/ op[c].staged \in Contents
  BY MemoryIsTyped DEF FillRecord, At, Holds, Writing
<1>2. op[c].known \in [Objects -> Documents \cup {NoRecord}]
  BY <1>1 DEF Memory
<1>3. op' \in [Operators -> Memory] /\ \A d \in Operators : Holds(op'[d])
  <2>1. CASE Appends(op[c])
    BY <1>2, <2>1, ContinueTypes DEF FillRecord, Appends
  <2>2. CASE ~Appends(op[c])
    BY <1>1, <2>2, GoTypes DEF FillRecord, Appends
  <2> QED
    BY <2>1, <2>2
<1>4. record' \in [Objects -> Documents \cup {NoRecord, Emptied}]
  BY <1>1 DEF FillRecord, Types, OpTypeOK
<1> QED
  BY <1>3, <1>4 DEF FillRecord, Types, OpTypeOK

LEMMA CopyTypes ==
  ASSUME Types, NEW c \in Operators, OpenCopy(c) \/ Copy(c)
  PROVE  Types'
<1>1. op[c].staged \in Contents /\ op[c].doc \in Documents
  BY MemoryIsTyped DEF OpenCopy, Copy, At, Holds, Writing
<1>2. op' \in [Operators -> Memory] /\ \A d \in Operators : Holds(op'[d])
  BY <1>1, GoTypes DEF OpenCopy, Copy
<1>3. archive' \in [Objects -> Contents \cup {"absent", "torn", "foreign"}]
  BY <1>1 DEF OpenCopy, Copy, Place, Types, OpTypeOK
<1> QED
  BY <1>2, <1>3 DEF OpenCopy, Copy, Types, OpTypeOK

LEMMA CopyFailsTypes ==
  ASSUME Types, NEW c \in Operators, CopyFails(c)
  PROVE  Types'
<1>1. op[c].known \in [Objects -> Documents \cup {NoRecord}]
  BY MemoryIsTyped DEF Memory
<1>2. op' \in [Operators -> Memory] /\ \A d \in Operators : Holds(op'[d])
  BY <1>1, ContinueTypes DEF CopyFails
<1>3. events' \in [EventIds -> Results]
  BY DEF CopyFails, Store, Types, OpTypeOK, Results
<1> QED
  BY <1>2, <1>3 DEF CopyFails, Types, OpTypeOK

LEMMA SkipConflictTypes ==
  ASSUME Types, NEW c \in Operators, SkipConflict(c)
  PROVE  Types'
<1>1. op[c].known \in [Objects -> Documents \cup {NoRecord}]
  BY MemoryIsTyped DEF Memory
<1>2. op' \in [Operators -> Memory] /\ \A d \in Operators : Holds(op'[d])
  BY <1>1, ContinueTypes DEF SkipConflict
<1> QED
  BY <1>2 DEF SkipConflict, Types, OpTypeOK

LEMMA CrashTypes ==
  ASSUME Types, NEW c \in Operators, Crash(c)
  PROVE  Types'
BY IdleIsMemory, Remembers DEF Crash, Types, OpTypeOK

LEMMA ConcludeTypes ==
  ASSUME Types, NEW c \in Operators, Conclude(c)
  PROVE  Types'
<1>1. op[c] \in Memory /\ op[c].doc \in Documents
  BY MemoryIsTyped DEF Conclude, At, Holds, Writing
<1> DEFINE known == [op[c].known EXCEPT ![op[c].object] = op[c].doc]
<1>2. op[c].known \in [Objects -> Documents \cup {NoRecord}]
  BY <1>1 DEF Memory
<1>3. known \in [Objects -> Documents \cup {NoRecord}]
  BY <1>1, <1>2
<1>4. \A o \in Objects : op[c].known[o] # NoRecord => known[o] # NoRecord
  BY <1>1, <1>2, RecordsAssumption
<1>5. op' \in [Operators -> Memory] /\ \A d \in Operators : Holds(op'[d])
  BY <1>3, <1>4, ContinueTypes DEF Conclude
<1>6. events' \in [EventIds -> Results]
  BY DEF Conclude, Store, Types, OpTypeOK, Results
<1> QED
  BY <1>5, <1>6 DEF Conclude, Types, OpTypeOK

LEMMA TypesNext == ASSUME Types, [OpNext]_records PROVE Types'
<1>1. CASE UNCHANGED records
  BY <1>1 DEF records, Types, OpTypeOK
<1>2. CASE EditSource
  BY <1>2 DEF EditSource, Types, OpTypeOK
<1>3. ASSUME NEW c \in Operators,
             \/ ImportSource(c) \/ Verify(c) \/ TakeNext(c) \/ AppendToDuplicate(c)
             \/ SkipConflict(c) \/ Candidate(c) \/ Stage(c) \/ Announce(c)
      PROVE  Types'
  BY <1>3, StartTypes, TakeNextTypes, AppendToDuplicateTypes, SkipConflictTypes, CandidateTypes,
     StageTypes, AnnounceTypes
<1>4. ASSUME NEW c \in Operators,
             \/ OpenRecord(c) \/ FillRecord(c) \/ OpenCopy(c) \/ Copy(c) \/ CopyFails(c)
             \/ Conclude(c) \/ Check(c) \/ Crash(c)
      PROVE  Types'
  BY <1>4, OpenRecordTypes, FillRecordTypes, CopyTypes, CopyFailsTypes, ConcludeTypes,
     CheckTypes, CrashTypes
<1> QED
  BY <1>1, <1>2, <1>3, <1>4 DEF OpNext

LEMMA TypesInit == ASSUME OpInit PROVE Types
<1>1. op = [c \in Operators |-> OpIdle]
  BY DEF OpInit
<1>2. \A c \in Operators : op[c] \in Memory /\ Holds(op[c])
  BY <1>1, IdleIsMemory
<1>3. op \in [Operators -> Memory]
  BY <1>1, <1>2
<1>4. /\ source \in [Objects -> Contents]
      /\ archive \in [Objects -> Contents \cup {"absent", "torn", "foreign"}]
  BY DEF OpInit
<1>5. /\ record \in [Objects -> Documents \cup {NoRecord, Emptied}]
      /\ events \in [EventIds -> Results] /\ drawn \in 0 .. MaxEvents
  BY NothingIsTyped, EventsAreNat DEF OpInit, Results
<1> QED
  BY <1>2, <1>3, <1>4, <1>5 DEF Types, OpTypeOK

-----------------------------------------------------------------------------
(* Scheduled jobs *)

JobTypes ==
  /\ kind \in [Jobs -> Kinds \cup {"none"}]
  /\ run \in [Jobs -> {"none", "running", "completed", "completed-with-warnings", "blocked", "failed"}]
  /\ step \in [Jobs -> Holding \cup {"new", "started", "ended", "killed", "stranded"}]
  /\ lock \in [Locks -> Jobs \cup {NoJob}]

JobSteps(j) ==
  \/ RunRecord(j) \/ CreateLock(j) \/ EnterLock(j) \/ LockFails(j) \/ CannotLock(j) \/ LockIsHeld(j)
  \/ VerifyCollection(j) \/ SourceCheck(j) \/ Exit(j) \/ Reconcile(j) \/ RetentionExecute(j)
  \/ Unhandled(j) \/ Kill(j)

LEMMA JobTypesStep ==
  ASSUME JobTypes, NEW j \in Jobs, JobSteps(j)
  PROVE  JobTypes'
<1>1. kind' \in [Jobs -> Kinds \cup {"none"}]
  BY DEF JobTypes, JobSteps, RunRecord, CreateLock, EnterLock, LockFails, CannotLock, LockIsHeld, VerifyCollection, SourceCheck, Exit,
     Reconcile, RetentionExecute, Unhandled, Kill
<1>2. run' \in [Jobs -> {"none", "running", "completed", "completed-with-warnings", "blocked", "failed"}]
  BY DEF JobTypes, JobSteps, RunRecord, CreateLock, EnterLock, LockFails, CannotLock, LockIsHeld, VerifyCollection, SourceCheck, Exit,
     Reconcile, RetentionExecute, Unhandled, Kill, SaveRun
<1>3. step' \in [Jobs -> Holding \cup {"new", "started", "ended", "killed", "stranded"}]
  BY DEF JobTypes, JobSteps, RunRecord, CreateLock, EnterLock, LockFails, CannotLock, LockIsHeld, VerifyCollection, SourceCheck, Exit,
     Reconcile, RetentionExecute, Unhandled, Kill, Move, Holding, Inside
<1>4. lock' \in [Locks -> Jobs \cup {NoJob}]
  BY DEF JobTypes, JobSteps, RunRecord, CreateLock, EnterLock, LockFails, CannotLock, LockIsHeld, VerifyCollection, SourceCheck, Exit,
     Reconcile, RetentionExecute, Unhandled, Kill, Unlock
<1> QED
  BY <1>1, <1>2, <1>3, <1>4 DEF JobTypes

LEMMA JobTypesNext == ASSUME JobTypes, JobNext \/ UNCHANGED jobs PROVE JobTypes'
<1>1. CASE UNCHANGED jobs
  BY <1>1 DEF jobs, JobTypes
<1>2. ASSUME NEW name \in Locks, RemoveStaleLock(name) PROVE JobTypes'
  BY <1>2 DEF RemoveStaleLock, JobTypes
<1> QED
  BY <1>1, <1>2, JobTypesStep DEF JobNext, JobSteps

LEMMA TypesSplit == TypeOK <=> OpTypeOK /\ JobTypes
BY DEF TypeOK, JobTypes

LEMMA NextSplit ==
  ASSUME [Next]_vars
  PROVE  [OpNext]_records /\ (JobNext \/ UNCHANGED jobs)
BY DEF Next, vars

LEMMA EverythingTyped ==
  /\ Init => Types /\ JobTypes
  /\ Types /\ JobTypes /\ [Next]_vars => (Types /\ JobTypes)'
<1>1. Init => Types /\ JobTypes
  BY TypesInit DEF Init, JobTypes
<1> QED
  BY <1>1, NextSplit, TypesNext, JobTypesNext

\* The documents, events and files of a collection, the memory of every
\* import and verify, and the run documents and locks of every job keep their
\* types, however many commands and jobs run, are killed and start again.
THEOREM TypesAlways == Spec => []TypeOK
<1>1. Types /\ JobTypes => TypeOK
  BY TypesSplit DEF Types
<1> QED
  BY <1>1, EverythingTyped, PTL DEF Spec

\* Only guarded kinds get inside.
Owned == LocksAreOwned /\ \A j \in Jobs : step[j] \in Holding => kind[j] \in Locks

LEMMA OwnedStep ==
  ASSUME JobTypes, Owned, NEW j \in Jobs, JobSteps(j)
  PROVE  Owned'
<1> USE OperationsAssumption DEF Owned, LocksAreOwned, JobTypes, Inside, Holding
<1>1. CASE RunRecord(j)
  BY <1>1 DEF RunRecord, Move, SaveRun, Kinds, Locks
<1>2. CASE CreateLock(j)
  BY <1>2 DEF CreateLock, Move
<1>8. CASE EnterLock(j)
  BY <1>8 DEF EnterLock, Move
<1>9. CASE LockFails(j)
  BY <1>9 DEF LockFails, Move
<1>3. CASE CannotLock(j) \/ LockIsHeld(j) \/ Reconcile(j) \/ RetentionExecute(j) \/ VerifyCollection(j)
  BY <1>3 DEF CannotLock, LockIsHeld, Reconcile, RetentionExecute, VerifyCollection, Move
<1>4. CASE SourceCheck(j)
  BY <1>4 DEF SourceCheck, Move, Unlock
<1>5. CASE Exit(j)
  BY <1>5 DEF Exit, Move, Unlock
<1>6. CASE Unhandled(j)
  BY <1>6 DEF Unhandled, Move, Unlock
<1>7. CASE Kill(j)
  BY <1>7 DEF Kill, Move
<1> QED
  BY <1>1, <1>2, <1>3, <1>4, <1>5, <1>6, <1>7, <1>8, <1>9 DEF JobSteps

LEMMA OwnedNext == ASSUME JobTypes, Owned, JobNext \/ UNCHANGED jobs PROVE Owned'
<1>1. CASE UNCHANGED jobs
  BY <1>1 DEF jobs, Owned, LocksAreOwned
<1>2. ASSUME NEW name \in Locks, RemoveStaleLock(name) PROVE Owned'
  BY <1>2, OperationsAssumption DEF RemoveStaleLock, Owned, LocksAreOwned, JobTypes, Inside, Holding
<1> QED
  BY <1>1, <1>2, OwnedStep DEF JobNext, JobSteps

\* Whoever is killed, whichever lock fails to be written or removed, and whichever
\* stale locks the operator removes: a lock file is of the one job entering or
\* inside, of a killed one, or of one whose lock failed, and every job inside a
\* guarded operation holds its lock, so two verifications never run at once
\* (operations.py:64-78).
THEOREM LocksAlwaysOwned == Spec => []LocksAreOwned
<1>1. Init => Owned
  BY DEF Init, Owned, LocksAreOwned, Inside, Holding
<1>2. Types /\ JobTypes /\ Owned /\ [Next]_vars => (Types /\ JobTypes /\ Owned)'
  BY EverythingTyped, NextSplit, OwnedNext
<1>3. Owned => LocksAreOwned
  BY DEF Owned
<1> QED
  BY <1>1, <1>2, <1>3, EverythingTyped, PTL DEF Spec

-----------------------------------------------------------------------------
(* Records, written by one command at a time.                              *)

Solo == \A c, d \in Operators : c = d

\* What is stored of the events a record names
Stored ==
  \A o \in Readable :
    /\ record[o].first <= drawn
    /\ \A e \in record[o].history : events[e] # "none"

\* What a command listed is still there, or was emptied.
Listed(known) ==
  \A o \in Objects : known[o] # NoRecord =>
    \/ record[o] = Emptied
    \/ /\ o \in Readable
       /\ known[o].first = record[o].first
       /\ known[o].history \subseteq record[o].history

\* The document is the listed one with more history.
Appending(m) ==
  /\ m.into \in Objects /\ Appends(m)
  /\ m.doc.first = m.known[m.into].first /\ m.doc.first <= drawn
  /\ m.known[m.into].history \subseteq m.doc.history
  /\ \A e \in m.doc.history : events[e] # "none"
  /\ archive[m.into] = "torn" => events[m.doc.first] # "success"

\* The document is of a new object, and no other record has its first event.
Making(m) ==
  /\ m.object \in Objects /\ m.into = m.object /\ m.known[m.object] = NoRecord
  /\ m.event \in EventIds /\ m.event <= drawn
  /\ m.doc.first = m.event /\ m.doc.history = {m.event}
  /\ \A o \in Readable \ {m.object} : record[o].first # m.event

Announced(m) == Making(m) /\ events[m.event] = "staged"

\* A running command has emptied the record it is about to fill, and no other is.
AllWritten(m) ==
  m # OpIdle => \A o \in Objects : record[o] = Emptied => m.at = "fill" /\ o = m.into

Working(m) ==
  /\ m.at \in {"stage", "announce"} => Making(m) /\ archive[m.object] = "absent"
  /\ m.at \in {"open", "fill"} => Appending(m) \/ (Announced(m) /\ archive[m.object] = "absent")
  /\ m.at = "copy" => Announced(m) /\ archive[m.object] = "absent" /\ record[m.object] = m.doc
  /\ m.at = "copying" => Announced(m) /\ record[m.object] = m.doc
  /\ m.at = "conclude" => Making(m) /\ record[m.object] = m.doc /\ archive[m.object] \in Contents

Kept(m) == Listed(m.known) /\ Working(m) /\ AllWritten(m)
OneLost == \A o, d \in Recorded \ Readable : o = d
Books == Stored /\ RecordsAreBacked /\ OneLost /\ \A c \in Operators : Kept(op[c])

LEMMA BusyIsNotIdle == \A m : m.at # "idle" => m # OpIdle
BY DEF OpIdle

\* A record is missing, emptied, or a document.
LEMMA RecordCases ==
  ASSUME Types, NEW o \in Objects
  PROVE  /\ record[o] \in Documents \/ record[o] = NoRecord \/ record[o] = Emptied
         /\ o \in Readable <=> record[o] \in Documents
         /\ o \in Recorded \ Readable <=> record[o] = Emptied
         /\ o \in Readable => record[o].first \in EventIds /\ record[o].history \subseteq EventIds
BY RecordsAssumption DEF Types, OpTypeOK, Readable, Recorded, Documents

\* The one command's new memory is all there is to show.
LEMMA Alone ==
  ASSUME Solo, Types, NEW c \in Operators, NEW m, Become(c, m),
         Kept(m)', Stored', RecordsAreBacked', OneLost'
  PROVE  Books'
<1>1. op'[c] = m /\ \A d \in Operators : d = c
  BY DEF Solo, Become, Types, OpTypeOK
<1>2. Kept(op[c])'
  BY <1>1 DEF Kept, Listed, Working, AllWritten, Making, Appending, Announced, Appends
<1> QED
  BY <1>1, <1>2 DEF Books

\* A step that writes nothing and has nothing to write
LEMMA QuietBooks ==
  ASSUME Solo, Types, Books, NEW c \in Operators, NEW m, Become(c, m), m.at \notin Writing,
         Listed(m.known), m # OpIdle => Listable, UNCHANGED <<archive, record, events, drawn>>
  PROVE  Books'
<1>1. Stored' /\ RecordsAreBacked' /\ OneLost' /\ Listed(m.known)'
  BY DEF Books, Stored, RecordsAreBacked, OneLost, Recorded, Readable, Listed
<1>2. Working(m)' /\ AllWritten(m)'
  BY DEF Working, Writing, AllWritten, Listable
<1> QED
  BY <1>1, <1>2, Alone DEF Kept

LEMMA NothingListed == Listed(NothingKnown)
BY DEF Listed, NothingKnown

LEMMA ListingBooks ==
  ASSUME Solo, Types, Books, NEW c \in Operators,
         ImportSource(c) \/ Verify(c) \/ TakeNext(c) \/ SkipConflict(c) \/ Crash(c)
  PROVE  Books'
<1>0. op[c] \in Memory /\ Listed(op[c].known) /\ UNCHANGED <<archive, record, events, drawn>>
  BY MemoryIsTyped
     DEF Books, Kept, ImportSource, Verify, Start, TakeNext, SkipConflict, Crash
<1>5. op[c].at \in {"next", "look"} => Listable
  BY BusyIsNotIdle DEF Books, Kept, AllWritten, Listable
<1>1. CASE ImportSource(c) \/ Verify(c)
  <2>1. PICK task \in {"look", "check"} : Start(c, task)
    BY <1>1 DEF ImportSource, Verify
  <2> DEFINE m == [OpIdle EXCEPT !.at = "next", !.task = task, !.known = record,
                    !.todo = IF task = "look" THEN Objects ELSE Recorded]
  <2>2. m.at = "next" /\ m.known = record
    BY DEF OpIdle
  <2>4. Become(c, m) /\ Listable
    BY <2>1 DEF Start
  <2>3. Listed(m.known) /\ m.at \notin Writing
    BY <2>2, <2>4 DEF Listed, Writing, Listable, Readable
  <2> HIDE DEF m
  <2> QED
    BY <1>0, <2>3, <2>4, QuietBooks
<1>2. CASE Become(c, OpIdle)
  BY <1>0, <1>2, NothingListed, QuietBooks DEF OpIdle, Writing
<1>3. ASSUME NEW o \in op[c].todo,
             Become(c, [op[c] EXCEPT !.at = op[c].task, !.object = o, !.todo = @ \ {o}]),
             Listable
      PROVE  Books'
  <2> DEFINE m == [op[c] EXCEPT !.at = op[c].task, !.object = o, !.todo = @ \ {o}]
  <2>1. m.at \in {"idle", "look", "check"} /\ m.known = op[c].known
    BY <1>0 DEF Memory
  <2>2. m.at \notin Writing
    BY <2>1 DEF Writing
  <2> HIDE DEF m
  <2> QED
    BY <1>0, <1>3, <2>1, <2>2, QuietBooks DEF m
<1>4. CASE Continue(c, op[c].known) /\ Listable
  <2> DEFINE m == [OpIdle EXCEPT !.at = "next", !.task = op[c].task, !.todo = op[c].todo,
                                 !.known = op[c].known]
  <2>1. m.at = "next" /\ m.known = op[c].known
    BY DEF OpIdle
  <2>2. Become(c, m) /\ m.at \notin Writing
    BY <1>4, <2>1 DEF Continue, Writing
  <2> HIDE DEF m
  <2> QED
    BY <1>0, <1>4, <2>1, <2>2, QuietBooks
<1> QED
  BY <1>1, <1>2, <1>3, <1>4, <1>5 DEF TakeNext, SkipConflict, Crash, At

\* An event that is drawn now was nobody's first.
LEMMA FirstsAreOlder ==
  ASSUME Types, Books, NEW e \in EventIds, Draw(e), NEW o \in Readable
  PROVE  record[o].first \in EventIds /\ record[o].first < e /\ record[o].first # e
<1>2. record[o].first \in EventIds /\ record[o].first <= drawn
  BY RecordCases DEF Books, Stored, Readable
<1>3. record[o].first \in Nat /\ e \in Nat
  BY <1>2, EventsAreNat
<1>4. drawn \in 0 .. MaxEvents
  BY DEF Types, OpTypeOK
<1>5. drawn < e
  BY DrawIsTyped
<1> QED
  BY <1>2, <1>3, <1>4, <1>5, RecordsAssumption

LEMMA CandidateBooks ==
  ASSUME Solo, Types, Books, NEW c \in Operators, Candidate(c)
  PROVE  Books'
<1>0. op[c] \in Memory /\ op[c].object \in Objects /\ Listed(op[c].known) /\ Listable
  BY MemoryIsTyped, BusyIsNotIdle DEF Candidate, At, Holds, Books, Kept, AllWritten, Listable
<1>1. PICK e \in EventIds :
        /\ Draw(e)
        /\ Become(c, [op[c] EXCEPT !.at = "stage", !.into = op[c].object, !.event = e,
                                   !.doc = Created(op[c].object, e)])
  BY DEF Candidate
<1>2. drawn' = e /\ drawn < e /\ UNCHANGED <<archive, record, events>>
  BY <1>1, DrawIsTyped DEF Candidate
<1> DEFINE next == [op[c] EXCEPT !.at = "stage", !.into = op[c].object, !.event = e,
                                 !.doc = Created(op[c].object, e)]
<1>3. PICK m : m = next
  <2> HIDE DEF next
  <2> QED
    OBVIOUS
<1>4. /\ m.at = "stage" /\ m.into = op[c].object /\ m.object = op[c].object /\ m.event = e
      /\ m.known = op[c].known /\ m.doc.first = e /\ m.doc.history = {e}
  BY <1>0, <1>3, CreatedIsDocument DEF Memory
<1>5. op[c].known[op[c].object] = NoRecord /\ archive[op[c].object] = "absent"
  BY DEF Candidate, Duplicates
<1>6. \A o \in Readable : record[o].first \in Nat /\ record[o].first < e
  BY <1>1, EventsAreNat, FirstsAreOlder
<1>10. Readable' = Readable /\ Recorded' = Recorded
  BY <1>2 DEF Readable, Recorded
<1>7. Stored' /\ RecordsAreBacked' /\ OneLost'
  BY <1>1, <1>2, <1>6, <1>10, EventsAreNat DEF Books, Stored, RecordsAreBacked, OneLost
<1>8. Making(m)'
  BY <1>0, <1>2, <1>4, <1>5, <1>6, <1>10, EventsAreNat DEF Making
<1>9. Kept(m)'
  BY <1>0, <1>2, <1>4, <1>5, <1>8, <1>10 DEF Kept, Listed, Working, AllWritten, Listable
<1> QED
  BY <1>1, <1>3, <1>7, <1>9, Alone

\* An event that is stored as it was drawn is of no record before.
LEMMA DrawnBooks ==
  ASSUME Solo, Types, Books, NEW e \in EventIds, Draw(e), NEW result \in {"success", "failed"},
         Store(e, result), UNCHANGED <<archive, record>>
  PROVE  Stored' /\ RecordsAreBacked' /\ OneLost' /\ events'[e] # "none"
<1>1. drawn' = e /\ drawn < e
  BY DrawIsTyped
<1>2. \A o \in Readable : record[o].first \in EventIds /\ record[o].first < e
  BY FirstsAreOlder
<1>3. /\ \A d \in EventIds : events[d] # "none" => events'[d] # "none"
      /\ \A d \in EventIds : d # e => events'[d] = events[d]
      /\ events'[e] = result
  BY DEF Store, Types, OpTypeOK
<1>4. /\ Readable' = Readable /\ Recorded' = Recorded /\ Readable \subseteq Objects
      /\ \A o \in Readable : record[o].history \subseteq EventIds
  BY RecordCases DEF Readable, Recorded
<1>5. ASSUME NEW o \in Readable
      PROVE  /\ record[o].first <= drawn'
             /\ \A d \in record[o].history : events'[d] # "none"
             /\ archive[o] = "torn" => events'[record[o].first] # "success"
  <2>1. record[o].first <= drawn'
    BY <1>1, <1>2, EventsAreNat
  <2>2. \A d \in record[o].history : d \in EventIds /\ events[d] # "none"
    BY <1>4 DEF Books, Stored
  <2>3. record[o].first \in EventIds /\ record[o].first # e
    BY FirstsAreOlder
  <2>4. archive[o] = "torn" => events[record[o].first] # "success"
    BY DEF Books, RecordsAreBacked
  <2> QED
    BY <1>3, <2>1, <2>2, <2>3, <2>4
<1>6. Stored'
  BY <1>4, <1>5 DEF Stored
<1>7. RecordsAreBacked'
  BY <1>4, <1>5 DEF Books, RecordsAreBacked
<1>8. OneLost'
  BY <1>4 DEF Books, OneLost
<1> QED
  BY <1>3, <1>6, <1>7, <1>8

LEMMA AppendBooks ==
  ASSUME Solo, Types, Books, NEW c \in Operators, NEW d \in Objects, op[c].known[d] # NoRecord,
         NEW e \in EventIds, Draw(e), NEW result \in {"success", "failed"}, Store(e, result),
         Become(c, [op[c] EXCEPT !.at = "open", !.into = d, !.doc = Appended(op[c].known[d], e)]),
         op[c].at \in {"look", "check"}, UNCHANGED <<archive, record>>
  PROVE  Books'
<1>0. /\ op[c] \in Memory /\ Listed(op[c].known) /\ op[c].known[d] \in Documents
      /\ Listable /\ Readable' = Readable
  BY MemoryIsTyped, BusyIsNotIdle DEF Books, Kept, Memory, AllWritten, Listable, Readable
<1>1. Stored' /\ RecordsAreBacked' /\ OneLost' /\ events'[e] # "none"
  BY DrawnBooks
<1>2. PICK m : m = [op[c] EXCEPT !.at = "open", !.into = d, !.doc = Appended(op[c].known[d], e)]
  OBVIOUS
<1>3. /\ m.at = "open" /\ m.into = d /\ m.known = op[c].known
      /\ m.doc.first = op[c].known[d].first /\ m.doc.history = op[c].known[d].history \cup {e}
  BY <1>0, <1>2, AppendedIsDocument DEF Memory
<1>7. /\ d \in Readable /\ record[d].first = op[c].known[d].first
      /\ op[c].known[d].history \subseteq record[d].history
  BY <1>0 DEF Listed, Listable
<1>4. /\ \A x \in op[c].known[d].history : events'[x] # "none"
      /\ op[c].known[d].first <= drawn'
      /\ archive'[d] = "torn" => events'[op[c].known[d].first] # "success"
  BY <1>0, <1>1, <1>7 DEF Stored, RecordsAreBacked
<1>5. Appending(m)'
  BY <1>1, <1>3, <1>4 DEF Appending, Appends
<1>6. Kept(m)'
  BY <1>0, <1>3, <1>5 DEF Kept, Listed, Working, AllWritten, Listable
<1> QED
  BY <1>1, <1>2, <1>6, Alone

LEMMA EventBooks ==
  ASSUME Solo, Types, Books, NEW c \in Operators, AppendToDuplicate(c) \/ Check(c)
  PROVE  Books'
<1>1. PICK d \in Objects, e \in EventIds, result \in {"success", "failed"} :
        /\ op[c].known[d] # NoRecord /\ Draw(e) /\ Store(e, result)
        /\ Become(c, [op[c] EXCEPT !.at = "open", !.into = d, !.doc = Appended(op[c].known[d], e)])
  BY MemoryIsTyped DEF AppendToDuplicate, Check, Duplicates, At, Holds
<1>2. UNCHANGED <<archive, record>> /\ op[c].at \in {"look", "check"}
  BY DEF AppendToDuplicate, Check, At
<1> QED
  BY <1>1, <1>2, AppendBooks

LEMMA StageBooks ==
  ASSUME Solo, Types, Books, NEW c \in Operators, Stage(c)
  PROVE  Books'
<1>0. op[c] \in Memory /\ Kept(op[c]) /\ op[c].at = "stage"
  BY MemoryIsTyped DEF Stage, At, Books
<1>1. UNCHANGED <<archive, record, events, drawn>>
  BY DEF Stage
<1> DEFINE next == [op[c] EXCEPT !.at = "announce", !.staged = source[op[c].object]]
<1>2. PICK m : m = next
  <2> HIDE DEF next
  <2> QED
    OBVIOUS
<1>3. /\ m.at = "announce" /\ m.into = op[c].into /\ m.object = op[c].object
      /\ m.event = op[c].event /\ m.known = op[c].known /\ m.doc = op[c].doc
  BY <1>0, <1>2 DEF Memory
<1>4. Stored' /\ RecordsAreBacked' /\ OneLost'
  BY <1>1 DEF Books, Stored, RecordsAreBacked, OneLost, Recorded, Readable
<1>5. Kept(m)'
  BY <1>0, <1>1, <1>3, BusyIsNotIdle DEF Kept, Listed, Working, AllWritten, Making, Readable
<1> QED
  BY <1>2, <1>4, <1>5, Alone DEF Stage

\* What Go leaves of the memory
Moved(m, c, at) ==
  /\ m = [op[c] EXCEPT !.at = at]
  /\ m.at = at /\ m.into = op[c].into /\ m.object = op[c].object /\ m.event = op[c].event
  /\ m.known = op[c].known /\ m.doc = op[c].doc /\ m.staged = op[c].staged

LEMMA GoMoves ==
  ASSUME Types, NEW c \in Operators, NEW at, Go(c, at)
  PROVE  \E m : Moved(m, c, at) /\ Become(c, m)
<1> DEFINE next == [op[c] EXCEPT !.at = at]
<1>1. Moved(next, c, at)
  BY MemoryIsTyped DEF Memory, Moved
<1> HIDE DEF next
<1> QED
  BY <1>1 DEF Go, Moved

LEMMA AnnounceBooks ==
  ASSUME Solo, Types, Books, NEW c \in Operators, Announce(c)
  PROVE  Books'
<1>0. /\ op[c] \in Memory /\ Kept(op[c]) /\ Making(op[c])
      /\ archive[op[c].object] = "absent" /\ UNCHANGED <<archive, record, drawn>>
  BY MemoryIsTyped DEF Announce, At, Books, Kept, Working
<1>a. PICK m : Moved(m, c, "open") /\ Become(c, m)
  BY GoMoves DEF Announce
<1>1. /\ m.at = "open" /\ m.into = op[c].into /\ m.object = op[c].object
      /\ m.event = op[c].event /\ m.known = op[c].known /\ m.doc = op[c].doc
  BY <1>a DEF Moved
<1>2. events' = [events EXCEPT ![m.event] = "staged"] /\ m.event \in EventIds
  BY <1>0, <1>1 DEF Announce, Store, Making
<1>3. events'[m.event] = "staged" /\ \A e \in EventIds : events'[e] \in {events[e], "staged"}
  BY <1>2 DEF Types, OpTypeOK
<1>4. /\ Readable' = Readable /\ Recorded' = Recorded
      /\ \A o \in Readable :
           record[o].first \in EventIds /\ record[o].history \subseteq EventIds
  BY <1>0, RecordCases DEF Readable, Recorded
<1>5. Stored' /\ RecordsAreBacked' /\ OneLost'
  <2>1. \A o \in Readable : \A e \in record[o].history : events'[e] # "none"
    BY <1>3, <1>4 DEF Books, Stored
  <2>2. \A o \in Readable : archive[o] = "torn" => events[record[o].first] # "success"
    BY DEF Books, RecordsAreBacked
  <2>3. \A o \in Readable : archive[o] = "torn" => events'[record[o].first] # "success"
    BY <1>3, <1>4, <2>2
  <2> QED
    BY <1>0, <1>4, <2>1, <2>3 DEF Books, Stored, RecordsAreBacked, OneLost
<1>6. Announced(m)' /\ archive'[m.object] = "absent"
  BY <1>0, <1>1, <1>3, <1>4 DEF Announced, Making
<1>7. Kept(m)'
  BY <1>0, <1>1, <1>4, <1>6, BusyIsNotIdle DEF Kept, Listed, Working, AllWritten, At, Announce
<1> QED
  BY <1>a, <1>5, <1>7, Alone

\* The record of a command at open or fill
LEMMA WritingIs ==
  ASSUME Types, Books, NEW c \in Operators, op[c].at \in {"open", "fill"}
  PROVE  /\ op[c].doc \in Documents /\ op[c].into \in Objects
         /\ \/ Appending(op[c])
            \/ Announced(op[c]) /\ archive[op[c].object] = "absent" /\ ~Appends(op[c])
<1>1. Holds(op[c]) /\ Working(op[c])
  BY DEF Types, Books, Kept
<1>2. Appending(op[c]) \/ (Announced(op[c]) /\ archive[op[c].object] = "absent")
  BY <1>1 DEF Working
<1> QED
  BY <1>1, <1>2 DEF Holds, Writing, Appending, Announced, Making, Appends

\* An emptied record says nothing that could be wrong.
LEMMA OpenRecordBooks ==
  ASSUME Solo, Types, Books, NEW c \in Operators, OpenRecord(c)
  PROVE  Books'
<1>1. op[c].at = "open" /\ UNCHANGED <<archive, events, drawn>> /\ Go(c, "fill")
  BY DEF OpenRecord, At
<1>2. PICK m : Moved(m, c, "fill") /\ Become(c, m)
  BY <1>1, GoMoves
<1>3. /\ m.at = "fill" /\ m.into = op[c].into /\ m.object = op[c].object
      /\ m.event = op[c].event /\ m.known = op[c].known /\ m.doc = op[c].doc
  BY <1>2 DEF Moved
<1>4. \A o \in Objects : record'[o] = IF o = op[c].into THEN Emptied ELSE record[o]
  BY DEF OpenRecord, Types, OpTypeOK
<1>5. op[c].into \in Objects /\ Listable
  BY <1>1, WritingIs, BusyIsNotIdle DEF Books, Kept, AllWritten, Listable
<1>6. Readable' = Readable \ {op[c].into} /\ \A o \in Readable' : record'[o] = record[o]
  BY <1>4, RecordsAssumption DEF Readable
<1>7. Recorded' \ Readable' = {op[c].into}
  BY <1>4, <1>5, RecordsAssumption DEF Readable, Recorded, Listable
<1>8. Stored' /\ OneLost'
  BY <1>1, <1>6, <1>7 DEF Books, Stored, OneLost
<1>9. RecordsAreBacked'
  BY <1>1, <1>4, <1>6, RecordsAssumption DEF Books, RecordsAreBacked
<1>10. Listed(m.known)'
  BY <1>3, <1>4, <1>6 DEF Books, Kept, Listed
<1>11. AllWritten(m)'
  BY <1>3, <1>4, <1>5 DEF AllWritten, Listable
<1>12. Working(m)'
  <2>1. CASE Appending(op[c])
    BY <1>1, <1>3, <2>1 DEF Appending, Appends, Working
  <2>2. CASE Announced(op[c]) /\ archive[op[c].object] = "absent"
    <3>1. Announced(m)'
      BY <1>1, <1>3, <1>6, <2>2 DEF Announced, Making
    <3> QED
      BY <1>1, <1>3, <2>2, <3>1 DEF Working
  <2> QED
    BY <1>1, <2>1, <2>2, WritingIs
<1> QED
  BY <1>2, <1>8, <1>9, <1>10, <1>11, <1>12, Alone DEF Kept

LEMMA Continues ==
  ASSUME NEW c \in Operators, NEW known, Continue(c, known)
  PROVE  \E m : Become(c, m) /\ m.at = "next" /\ m.known = known
<1> DEFINE next == [OpIdle EXCEPT !.at = "next", !.task = op[c].task, !.todo = op[c].todo, !.known = known]
<1>1. next.at = "next" /\ next.known = known
  BY DEF OpIdle
<1>2. Become(c, next)
  BY DEF Continue
<1> HIDE DEF next
<1> QED
  BY <1>1, <1>2

\* The record that was emptied is a document again, and all are.
LEMMA FillRecordBooks ==
  ASSUME Solo, Types, Books, NEW c \in Operators, FillRecord(c)
  PROVE  Books'
<1>1. /\ op[c].at = "fill" /\ UNCHANGED <<archive, events, drawn>>
      /\ record' = [record EXCEPT ![op[c].into] = op[c].doc]
      /\ IF Appends(op[c]) THEN Continue(c, op[c].known) ELSE Go(c, "copy")
  BY DEF FillRecord, At, Appends
<1>2. op[c].doc \in Documents /\ op[c].into \in Objects /\ op[c].known \in [Objects -> Documents \cup {NoRecord}]
  BY <1>1, WritingIs, MemoryIsTyped DEF Memory
<1>3. PICK i, doc, known : i = op[c].into /\ doc = op[c].doc /\ known = op[c].known
  OBVIOUS
<1>4. /\ doc.first <= drawn /\ \A e \in doc.history : events[e] # "none"
      /\ archive[i] = "torn" => events[doc.first] # "success"
      /\ known[i] # NoRecord => doc.first = known[i].first /\ known[i].history \subseteq doc.history
  <2>1. CASE Appending(op[c])
    BY <1>3, <2>1 DEF Appending
  <2>2. CASE Announced(op[c]) /\ archive[op[c].object] = "absent" /\ ~Appends(op[c])
    BY <1>3, <2>2 DEF Announced, Making
  <2> QED
    BY <1>1, <2>1, <2>2, WritingIs
<1>5. \A o \in Objects : record'[o] = IF o = i THEN doc ELSE record[o]
  BY <1>1, <1>3 DEF Types, OpTypeOK
<1>6. i \in Objects /\ doc \in Documents /\ \A o \in Objects \ {i} : record[o] # Emptied
  BY <1>1, <1>2, <1>3, BusyIsNotIdle DEF Books, Kept, AllWritten
<1>7. /\ Readable' = Readable \cup {i} /\ Recorded' \ Readable' = {}
      /\ record'[i] = doc /\ \A o \in Readable \ {i} : record'[o] = record[o]
  BY <1>5, <1>6, RecordsAssumption DEF Readable, Recorded
<1>8. Stored' /\ RecordsAreBacked' /\ OneLost'
  <2>1. \A o \in Readable' :
          /\ record'[o].first <= drawn' /\ \A e \in record'[o].history : events'[e] # "none"
          /\ archive'[o] = "torn" => events'[record'[o].first] # "success"
    BY <1>1, <1>4, <1>7 DEF Books, Stored, RecordsAreBacked
  <2>2. \A o \in Objects : archive'[o] \in Contents \cup {"torn"} => record'[o] # NoRecord
    BY <1>1, <1>5, <1>6, RecordsAssumption DEF Books, RecordsAreBacked
  <2> QED
    BY <1>7, <2>1, <2>2 DEF Stored, RecordsAreBacked, OneLost
<1>9. Listed(known)'
  BY <1>3, <1>4, <1>5, <1>6, <1>7 DEF Books, Kept, Listed
<1>10. \A m : AllWritten(m)'
  BY <1>5, <1>6, RecordsAssumption DEF AllWritten
<1>11. CASE Appends(op[c])
  <2>1. PICK m : Become(c, m) /\ m.at = "next" /\ m.known = op[c].known
    BY <1>1, <1>11, Continues
  <2>2. Kept(m)'
    BY <1>3, <1>9, <1>10, <2>1 DEF Kept, Working
  <2> QED
    BY <1>8, <2>1, <2>2, Alone
<1>12. CASE ~Appends(op[c])
  <2>0. Announced(op[c]) /\ archive[op[c].object] = "absent"
    BY <1>1, <1>12, WritingIs DEF Appending
  <2>1. PICK m : Moved(m, c, "copy") /\ Become(c, m)
    BY <1>1, <1>12, GoMoves
  <2>2. /\ m.at = "copy" /\ m.into = op[c].into /\ m.object = op[c].object
        /\ m.event = op[c].event /\ m.known = op[c].known /\ m.doc = op[c].doc
    BY <2>1 DEF Moved
  <2>3. i = op[c].object
    BY <1>3, <2>0 DEF Announced, Making
  <2>4. Announced(m)' /\ archive'[m.object] = "absent" /\ record'[m.object] = m.doc
    BY <1>1, <1>3, <1>7, <2>0, <2>2, <2>3 DEF Announced, Making
  <2>5. Kept(m)'
    BY <1>3, <1>9, <1>10, <2>2, <2>4 DEF Kept, Working
  <2> QED
    BY <1>8, <2>1, <2>5, Alone
<1> QED
  BY <1>11, <1>12

LEMMA OpenCopyBooks ==
  ASSUME Solo, Types, Books, NEW c \in Operators, OpenCopy(c)
  PROVE  Books'
<1>1. /\ Announced(op[c]) /\ record[op[c].object] = op[c].doc /\ Listed(op[c].known)
      /\ UNCHANGED <<record, events, drawn>> /\ Go(c, "copying") /\ op[c].at = "copy"
  BY DEF OpenCopy, At, Books, Kept, Working
<1>2. PICK m : Moved(m, c, "copying") /\ Become(c, m)
  BY <1>1, GoMoves
<1>3. /\ m.at = "copying" /\ m.into = op[c].into /\ m.object = op[c].object
      /\ m.event = op[c].event /\ m.known = op[c].known /\ m.doc = op[c].doc
  BY <1>2 DEF Moved
<1>4. op[c].doc \in Documents
  BY DEF OpenCopy, At, Types, Holds, Writing
<1>5. /\ record[op[c].object] # NoRecord
      /\ events[record[op[c].object].first] = "staged"
  BY <1>1, <1>4, RecordsAssumption DEF Announced, Making
<1>6. \A o \in Objects : archive'[o] = IF o = op[c].object THEN "torn" ELSE archive[o]
  BY DEF OpenCopy, Place, Types, OpTypeOK
<1>9. Readable' = Readable /\ Recorded' = Recorded /\ Readable \subseteq Objects
  BY <1>1 DEF Readable, Recorded
<1>7. Stored' /\ RecordsAreBacked' /\ OneLost'
  BY <1>1, <1>5, <1>6, <1>9 DEF Books, Stored, RecordsAreBacked, OneLost
<1>8. Kept(m)'
  BY <1>1, <1>3, <1>9, BusyIsNotIdle DEF Books, Kept, Listed, Working, AllWritten, Announced, Making
<1> QED
  BY <1>2, <1>7, <1>8, Alone

LEMMA CopyBooks ==
  ASSUME Solo, Types, Books, NEW c \in Operators, Copy(c)
  PROVE  Books'
<1>1. /\ Announced(op[c]) /\ record[op[c].object] = op[c].doc /\ Listed(op[c].known)
      /\ UNCHANGED <<record, events, drawn>> /\ Go(c, "conclude") /\ op[c].at = "copying"
  BY DEF Copy, At, Books, Kept, Working
<1>2. PICK m : Moved(m, c, "conclude") /\ Become(c, m)
  BY <1>1, GoMoves
<1>3. /\ m.at = "conclude" /\ m.into = op[c].into /\ m.object = op[c].object
      /\ m.event = op[c].event /\ m.known = op[c].known /\ m.doc = op[c].doc
  BY <1>2 DEF Moved
<1>4. op[c].doc \in Documents /\ op[c].staged \in Contents
  BY DEF Copy, At, Types, Holds, Writing
<1>5. record[op[c].object] # NoRecord
  BY <1>1, <1>4, RecordsAssumption
<1>6. \A o \in Objects : archive'[o] = IF o = op[c].object THEN op[c].staged ELSE archive[o]
  BY DEF Copy, Place, Types, OpTypeOK
<1>10. Readable' = Readable /\ Recorded' = Recorded /\ Readable \subseteq Objects
  BY <1>1 DEF Readable, Recorded
<1>7. Stored' /\ RecordsAreBacked' /\ OneLost'
  BY <1>1, <1>4, <1>5, <1>6, <1>10, RecordsAssumption DEF Books, Stored, RecordsAreBacked, OneLost
<1>8. Making(m)' /\ record'[m.object] = m.doc /\ archive'[m.object] \in Contents
  BY <1>1, <1>3, <1>4, <1>6, <1>10 DEF Announced, Making
<1>9. Kept(m)'
  BY <1>1, <1>3, <1>8, <1>10, BusyIsNotIdle DEF Books, Kept, Listed, Working, AllWritten
<1> QED
  BY <1>2, <1>7, <1>9, Alone

\* The event of the object in hand gets its result.
LEMMA ResultBooks ==
  ASSUME Solo, Types, Books, NEW c \in Operators, NEW result \in {"failed", "success"},
         Making(op[c]), Store(op[c].event, result),
         result = "success" => archive[op[c].object] # "torn",
         UNCHANGED <<archive, record, drawn>>
  PROVE  Stored' /\ RecordsAreBacked' /\ OneLost'
<1>1. /\ op[c].event \in EventIds
      /\ \A o \in Readable \ {op[c].object} : record[o].first # op[c].event
  BY DEF Making
<1>2. \A e \in EventIds : events'[e] = IF e = op[c].event THEN result ELSE events[e]
  BY <1>1 DEF Store, Types, OpTypeOK
<1>3. /\ Readable' = Readable /\ Recorded' = Recorded
      /\ \A o \in Readable :
           record[o].first \in EventIds /\ record[o].history \subseteq EventIds
  BY RecordCases DEF Readable, Recorded
<1>4. \A o \in Readable : \A e \in record[o].history : events'[e] # "none"
  BY <1>2, <1>3 DEF Books, Stored
<1>5. ASSUME NEW o \in Readable, archive[o] = "torn"
      PROVE  events'[record[o].first] # "success"
  <2>1. events[record[o].first] # "success" /\ record[o].first \in EventIds
    BY <1>3, <1>5 DEF Books, RecordsAreBacked
  <2>2. CASE o = op[c].object
    BY <1>2, <1>5, <2>1, <2>2
  <2>3. CASE o # op[c].object
    BY <1>1, <1>2, <2>1, <2>3
  <2> QED
    BY <2>2, <2>3
<1> QED
  BY <1>3, <1>4, <1>5 DEF Books, Stored, RecordsAreBacked, OneLost

LEMMA CopyFailsBooks ==
  ASSUME Solo, Types, Books, NEW c \in Operators, CopyFails(c)
  PROVE  Books'
<1>1. /\ Making(op[c]) /\ Listed(op[c].known) /\ Store(op[c].event, "failed")
      /\ UNCHANGED <<archive, record, drawn>>
  BY DEF CopyFails, At, Books, Kept, Working, Announced
<1>2. PICK m : Become(c, m) /\ m.at = "next" /\ m.known = op[c].known
  BY Continues DEF CopyFails
<1>3. Stored' /\ RecordsAreBacked' /\ OneLost'
  BY <1>1, ResultBooks
<1>5. Listable
  BY BusyIsNotIdle DEF CopyFails, At, Books, Kept, AllWritten, Listable
<1>4. Kept(m)'
  BY <1>1, <1>2, <1>5 DEF Kept, Listed, Working, AllWritten, Listable, Readable
<1> QED
  BY <1>2, <1>3, <1>4, Alone

LEMMA ConcludeBooks ==
  ASSUME Solo, Types, Books, NEW c \in Operators, Conclude(c)
  PROVE  Books'
<1>1. /\ Making(op[c]) /\ Listed(op[c].known) /\ Store(op[c].event, "success")
      /\ record[op[c].object] = op[c].doc /\ archive[op[c].object] \in Contents
      /\ UNCHANGED <<archive, record, drawn>>
  BY DEF Conclude, At, Books, Kept, Working
<1> DEFINE known == [op[c].known EXCEPT ![op[c].object] = op[c].doc]
<1>2. PICK m : Become(c, m) /\ m.at = "next" /\ m.known = known
  <2>1. Continue(c, known)
    BY DEF Conclude
  <2> HIDE DEF known
  <2> QED
    BY <2>1, Continues
<1>3. op[c].doc \in Documents /\ op[c].known \in [Objects -> Documents \cup {NoRecord}]
  BY MemoryIsTyped DEF Conclude, At, Holds, Writing, Memory
<1>4. Stored' /\ RecordsAreBacked' /\ OneLost'
  BY <1>1, RecordsAssumption, ResultBooks
<1>8. Listable /\ op[c].object \in Readable
  BY <1>1, <1>3, BusyIsNotIdle, RecordsAssumption DEF Conclude, At, Books, Kept, AllWritten, Listable, Making, Readable
<1>5. \A o \in Objects : m.known[o] = IF o = op[c].object THEN op[c].doc ELSE op[c].known[o]
  BY <1>2, <1>3
<1>6. Listed(m.known)'
  BY <1>1, <1>5, <1>8 DEF Listed, Readable
<1>7. Kept(m)'
  BY <1>1, <1>2, <1>6, <1>8 DEF Kept, Working, AllWritten, Listable
<1> QED
  BY <1>2, <1>4, <1>7, Alone

\* The source tree, and a step of a job, touch none of it.
LEMMA OthersBooks ==
  ASSUME Books, UNCHANGED <<archive, record, events, drawn, op>>
  PROVE  Books'
BY DEF Books, Stored, RecordsAreBacked, OneLost, Recorded, Readable, Kept, Listed, Working, AllWritten,
       Appending, Making, Announced, Appends

LEMMA BooksNext == ASSUME Solo, Types, Books, [OpNext]_records PROVE Books'
<1>1. CASE EditSource \/ UNCHANGED records
  BY <1>1, OthersBooks DEF EditSource, records
<1>2. ASSUME NEW c \in Operators,
             \/ ImportSource(c) \/ Verify(c) \/ TakeNext(c) \/ AppendToDuplicate(c)
             \/ SkipConflict(c) \/ Candidate(c) \/ Stage(c) \/ Announce(c)
      PROVE  Books'
  BY <1>2, ListingBooks, EventBooks, CandidateBooks, StageBooks, AnnounceBooks
<1>3. ASSUME NEW c \in Operators,
             \/ OpenRecord(c) \/ FillRecord(c) \/ OpenCopy(c) \/ Copy(c) \/ CopyFails(c)
             \/ Conclude(c) \/ Check(c) \/ Crash(c)
      PROVE  Books'
  BY <1>3, OpenRecordBooks, FillRecordBooks, OpenCopyBooks, CopyBooks, CopyFailsBooks,
     ConcludeBooks, EventBooks, ListingBooks
<1> QED
  BY <1>1, <1>2, <1>3 DEF OpNext

LEMMA BooksInit == ASSUME OpInit PROVE Books
<1>1. \A o \in Objects : record[o] = NoRecord
  BY DEF OpInit, NothingKnown
<1>2. \A o \in Objects : archive[o] \notin Contents \cup {"torn"}
  BY RecordsAssumption DEF OpInit
<1>3. \A c \in Operators : op[c] = OpIdle
  BY DEF OpInit
<1>4. Kept(OpIdle)
  BY NothingListed DEF Kept, Working, AllWritten, OpIdle
<1> QED
  BY <1>1, <1>2, <1>3, <1>4 DEF Books, Stored, RecordsAreBacked, OneLost, Recorded, Readable

LEMMA BooksHold ==
  /\ Solo /\ Init => Books
  /\ Solo /\ Types /\ Books /\ [Next]_vars => Books'
BY BooksInit, BooksNext, NextSplit DEF Init

\* For every collection, with two files of the same content or not: while one
\* import or verify runs at a time, killed wherever it is and started again,
\* a file in the collection has its record, a record's events are stored, and
\* a file cut short is never one whose import was recorded as a success.
THEOREM RecordsAlwaysBacked == ASSUME Solo PROVE Spec => []RecordsAreBacked
<1>1. Init => Types /\ JobTypes /\ Books
  BY EverythingTyped, BooksHold
<1>2. Types /\ JobTypes /\ Books /\ [Next]_vars => (Types /\ JobTypes /\ Books)'
  BY EverythingTyped, BooksHold
<1>3. Books => RecordsAreBacked
  BY DEF Books
<1> QED
  BY <1>1, <1>2, <1>3, PTL DEF Spec

\* While one import or verify runs at a time, what it listed when it began is
\* still in the records, except the one it has emptied and is about to fill: a
\* kill there loses that record's history, and never another's
\* (importer.py:93-103, storage.py:21-25).
THEOREM ListedHistoryAlwaysKept == ASSUME Solo PROVE Spec => []ListedHistoryIsKept
<1>1. Init => Types /\ JobTypes /\ Books
  BY EverythingTyped, BooksHold
<1>2. Types /\ JobTypes /\ Books /\ [Next]_vars => (Types /\ JobTypes /\ Books)'
  BY EverythingTyped, BooksHold
<1>3. Types /\ Books => ListedHistoryIsKept
  <2> SUFFICES ASSUME Types, Books PROVE ListedHistoryIsKept
    OBVIOUS
  <2>1. ASSUME NEW c \in Operators, NEW o \in Objects, op[c].known[o] # NoRecord
        PROVE  \/ o \in Readable /\ op[c].known[o].history \subseteq record[o].history
               \/ record[o] = Emptied /\ At(c, "fill") /\ op[c].into = o
    <3>1. Holds(op[c]) /\ Kept(op[c])
      BY DEF Types, Books
    <3> QED
      BY <2>1, <3>1 DEF Kept, Listed, AllWritten, At, OpIdle, NothingKnown
  <2> QED
    BY <2>1 DEF Books, OneLost, ListedHistoryIsKept
<1> QED
  BY <1>1, <1>2, <1>3, PTL DEF Spec
=============================================================================
