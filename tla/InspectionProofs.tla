-------------------------- MODULE InspectionProofs --------------------------
(***************************************************************************)
(* For any number of commands that resume, interrupt or cancel one check,  *)
(* any page limit and any growth of the collection: types, no page counted *)
(* twice, and a completed inspection is whole.                             *)
(*                                                                         *)
(* The pages stored are the first n for some n, which every command's page *)
(* follows: it is at most n + 1, and what the command has counted is less. *)
(***************************************************************************)
EXTENDS Inspection, FiniteSetTheorems, TLAPS

USE InspectionAssumption, NoCheckAssumption

Asking == {"compare", "next", "fetch", "normalize", "save", "count"}
Asked == {"normalize", "save", "count", "finalize", "complete"}

\* what a command holds, when the first n pages are stored
Sound(k, n) ==
  /\ k.at \in {"request", "list", "cancel"} => k.counted \leq n
  /\ k.at \in Asking => k.page \in 1 .. n + 1 /\ k.counted < k.page
  /\ k.at \in Asking \ {"compare", "next"} => k.page \leq MaxPages
  /\ k.at = "count" => k.page \leq n
  /\ k.at \in {"finalize", "complete"} => k.page \leq n /\ k.counted \leq k.page /\ k.last
  /\ k.at \in Asked /\ k.last => before \leq k.page
  /\ k.at # "idle" => check # NoCheck

\* and what the document may say
Told(n) ==
  check # NoCheck => check.counted \leq n /\ (check.status = "completed" => before \leq n)

Prefix(n) ==
  /\ n \in 0 .. MaxPages
  /\ Stored = 1 .. n
  /\ Told(n)
  /\ \A c \in Commands : Sound(cmd[c], n)

IInv == TypeOK /\ \E n \in Nat : Prefix(n)

CmdSet == [at : Steps, counted : Nat, page : 0 .. MaxPages + 1,
           seen : SUBSET (0 .. MaxPages), items : {0, 1}, last : BOOLEAN]

-----------------------------------------------------------------------------
LEMMA IdleIsTyped == Idle \in CmdSet /\ \A n : Sound(Idle, n)
  BY DEF Idle, CmdSet, Steps, Guarded, Sound, Asking, Asked

LEMMA InitHolds == Init => IInv
<1> SUFFICES ASSUME Init PROVE IInv
  OBVIOUS
<1>1. Stored = 1 .. 0 /\ Stored = {}
  BY DEF Init, Stored
<1>2. TypeOK
  BY <1>1, IdleIsTyped DEF Init, TypeOK, CmdSet
<1>3. Prefix(0)
  BY <1>1, IdleIsTyped DEF Init, Prefix, Told
<1> QED
  BY <1>2, <1>3 DEF IInv

\* What a command holds stays sound when a page is added.
LEMMA SoundStays ==
  ASSUME NEW n \in Nat, NEW m \in {n, n + 1}, NEW k \in CmdSet, Sound(k, n), before' = before,
         check # NoCheck => check' # NoCheck
  PROVE  Sound(k, m)'
  BY DEF Sound, CmdSet, Asking

\* One command's memory changes at a time.
LEMMA BecomeSound ==
  ASSUME TypeOK, NEW n \in Nat, Prefix(n), NEW c \in Commands, NEW k \in CmdSet, Become(c, k),
         NEW m \in {n, n + 1}, Sound(k, m)', before' = before,
         check # NoCheck => check' # NoCheck
  PROVE  /\ cmd' \in [Commands -> CmdSet]
         /\ \A d \in Commands : Sound(cmd[d], m)'
<1>1. cmd \in [Commands -> CmdSet]
  BY DEF TypeOK, CmdSet
<1>2. cmd' = [cmd EXCEPT ![c] = k]
  BY DEF Become
<1>3. ASSUME NEW d \in Commands, d # c PROVE Sound(cmd[d], m)'
  <2>1. PICK x \in CmdSet : cmd[d] = x
    BY <1>1
  <2>2. cmd'[d] = x /\ Sound(x, n)
    BY <1>1, <1>2, <1>3, <2>1 DEF Prefix
  <2>3. Sound(x, m)'
    BY <2>2, SoundStays
  <2> QED
    BY <2>2, <2>3 DEF Sound
<1>4. Sound(cmd[c], m)'
  <2>1. cmd'[c] = k
    BY <1>1, <1>2
  <2> QED
    BY <2>1 DEF Sound
<1> QED
  BY <1>1, <1>2, <1>3, <1>4

\* A step that stores no page.
LEMMA KeepsPages ==
  ASSUME TypeOK, NEW n \in Nat, Prefix(n), NEW c \in Commands, NEW k \in CmdSet, Become(c, k),
         Sound(k, n)', UNCHANGED <<checkpoints, total, before>>,
         (check' \in Documents /\ Told(n)') \/ UNCHANGED check
  PROVE  IInv'
<1>1. check # NoCheck => check' # NoCheck
  OBVIOUS
<1>2. cmd' \in [Commands -> CmdSet] /\ \A d \in Commands : Sound(cmd[d], n)'
  BY <1>1, BecomeSound
<1>3. Stored' = Stored
  BY DEF Stored
<1>4. TypeOK'
  BY <1>2, <1>3 DEF TypeOK, CmdSet
<1>5. Told(n)'
  BY DEF Prefix, Told
<1>6. Prefix(n)'
  BY <1>2, <1>3, <1>5 DEF Prefix
<1> QED
  BY <1>4, <1>6 DEF IInv

\* A step that only moves the command on, or ends it.
LEMMA EndsWell ==
  ASSUME TypeOK, NEW n \in Nat, Prefix(n), NEW c \in Commands, Become(c, Idle),
         UNCHANGED <<checkpoints, total, before>>,
         (check' \in Documents /\ Told(n)') \/ UNCHANGED check
  PROVE  IInv'
<1>1. Sound(Idle, n)'
  BY DEF Idle, Sound, Asking, Asked
<1> QED
  BY <1>1, IdleIsTyped, KeepsPages

\* What a command may save: its count, under a status but "completed".
LEMMA UpdateTells ==
  ASSUME TypeOK, NEW n \in Nat, Prefix(n), NEW c \in Commands, NEW status \in Statuses,
         Update(c, status), UNCHANGED before, cmd[c].at # "idle",
         status = "completed" => cmd[c].at = "complete"
  PROVE  check' \in Documents /\ check' # NoCheck /\ Told(n)'
<1>1. cmd[c] \in CmdSet /\ Sound(cmd[c], n)
  BY DEF TypeOK, CmdSet, Prefix
<1>2. check' = [status |-> status, counted |-> cmd[c].counted]
  BY DEF Update
<1>3. check' \in Documents
  BY <1>1, <1>2 DEF CmdSet, Documents
<1>4. check'.counted = cmd[c].counted /\ check'.status = status
  BY <1>2
<1>5. cmd[c].counted \leq n
  BY <1>1 DEF Sound, CmdSet, Steps, Guarded, Asking
<1>6. status = "completed" => before' \leq n
  BY <1>1 DEF Sound, CmdSet, Asked, TypeOK
<1> QED
  BY <1>3, <1>4, <1>5, <1>6 DEF Told

-----------------------------------------------------------------------------
(* One lemma per action of a command. *)

LEMMA LoadKeeps ==
  ASSUME TypeOK, NEW n \in Nat, Prefix(n), NEW c \in Commands, NEW next \in {"request", "cancel"},
         Load(c, next)
  PROVE  IInv'
<1> DEFINE k == [Idle EXCEPT !.at = next, !.counted = check.counted]
<1>1. check \in Documents /\ check.counted \leq n
  BY DEF Load, TypeOK, Prefix, Told
<1>2. k \in CmdSet /\ k.at = next /\ k.counted = check.counted
  BY <1>1, IdleIsTyped DEF CmdSet, Idle, Steps, Documents
<1>3. Sound(k, n)'
  BY <1>1, <1>2 DEF Sound, Asking, Asked, Load
<1> QED
  BY <1>2, <1>3, KeepsPages DEF Load

\* A step of a command that goes on with what it holds, and may save a status.
LEMMA GoKeeps ==
  ASSUME TypeOK, NEW n \in Nat, Prefix(n), NEW c \in Commands, NEW step \in Steps, Go(c, step),
         cmd[c].at # "idle", UNCHANGED <<checkpoints, total, before>>,
         Sound([cmd[c] EXCEPT !.at = step], n),
         UNCHANGED check \/ \E status \in Statuses \ {"completed"} : Update(c, status)
  PROVE  IInv'
<1>1. PICK k \in CmdSet : k = [cmd[c] EXCEPT !.at = step]
  BY DEF TypeOK, CmdSet
<1>2. Become(c, k)
  BY <1>1 DEF Go
<1>3. (check' \in Documents /\ Told(n)' /\ check' # NoCheck) \/ UNCHANGED check
  BY UpdateTells
<1>4. Sound(k, n)
  BY <1>1 DEF Sound
<1>5. check # NoCheck => check' # NoCheck
  BY <1>3
<1>6. Sound(k, n)'
  BY <1>4, <1>5, SoundStays
<1> QED
  BY <1>2, <1>3, <1>6, KeepsPages

LEMMA RequestKeeps ==
  ASSUME TypeOK, NEW n \in Nat, Prefix(n), NEW c \in Commands, Request(c)
  PROVE  IInv'
<1>1. cmd[c] \in CmdSet /\ Sound(cmd[c], n)
  BY DEF TypeOK, CmdSet, Prefix
<1>2. Sound([cmd[c] EXCEPT !.at = "list"], n)
  BY <1>1 DEF Sound, CmdSet, Asking, Asked, Request, At
<1>3. "list" \in Steps /\ "requesting" \in Statuses \ {"completed"}
  BY DEF Steps, Statuses
<1> QED
  BY <1>2, <1>3, GoKeeps DEF Request, At

LEMMA LastPage ==
  ASSUME NEW n \in Nat, Stored = 1 .. n
  PROVE  Max(Stored \cup {0}) = n
<1>1. n \in Stored \cup {0} /\ \A y \in Stored \cup {0} : y \in Nat /\ n >= y
  OBVIOUS
<1>2. \A x \in Stored \cup {0} : (\A y \in Stored \cup {0} : x >= y) => x = n
  BY <1>1
<1> QED
  BY <1>1, <1>2 DEF Max

LEMMA ListKeeps ==
  ASSUME TypeOK, NEW n \in Nat, Prefix(n), NEW c \in Commands, ListPages(c) \/ ListSeen(c)
  PROVE  IInv'
<1>1. cmd[c] \in CmdSet /\ Sound(cmd[c], n) /\ n \in 0 .. MaxPages
  BY DEF TypeOK, CmdSet, Prefix
<1>2. CASE ListPages(c)
  <2> DEFINE next == [cmd[c] EXCEPT !.at = "compare", !.page = n + 1]
  <2>1. n + 1 \in 0 .. MaxPages + 1
    BY <1>1 DEF InspectionAssumption
  <2>2. next \in CmdSet
    BY <1>1, <2>1 DEF CmdSet, Steps
  <2>3. PICK k \in CmdSet : k = next
    BY <2>2
  <2>4. Become(c, k) /\ cmd[c].at = "list"
    BY <1>2, <2>3, LastPage DEF ListPages, Prefix, At
  <2>5. k.at = "compare" /\ k.page = n + 1 /\ k.counted = cmd[c].counted
    BY <1>1, <2>3 DEF CmdSet
  <2>6. Sound(k, n)'
    BY <1>1, <1>2, <2>4, <2>5 DEF Sound, Asking, Asked, ListPages, CmdSet
  <2> QED
    BY <1>2, <2>4, <2>6, KeepsPages DEF ListPages
<1>3. CASE ListSeen(c)
  <2>1. Stored \in SUBSET (0 .. MaxPages)
    BY <1>1 DEF Prefix
  <2>2. PICK k \in CmdSet : k = [cmd[c] EXCEPT !.at = "next", !.seen = Stored]
    BY <1>1, <2>1 DEF CmdSet, Steps
  <2>3. k.at = "next" /\ k.page = cmd[c].page /\ k.counted = cmd[c].counted
    BY <1>1, <2>2 DEF CmdSet
  <2>4. Sound(k, n)'
    BY <1>1, <1>3, <2>3 DEF Sound, Asking, Asked, ListSeen, At, CmdSet
  <2> QED
    BY <1>3, <2>2, <2>4, KeepsPages DEF ListSeen
<1> QED
  BY <1>2, <1>3

LEMMA NextPageKeeps ==
  ASSUME TypeOK, NEW n \in Nat, Prefix(n), NEW c \in Commands, NextPage(c)
  PROVE  IInv'
<1>1. cmd[c] \in CmdSet /\ Sound(cmd[c], n)
  BY DEF TypeOK, CmdSet, Prefix
<1>2. Sound([cmd[c] EXCEPT !.at = "fetch"], n)
  BY <1>1 DEF Sound, CmdSet, Asking, Asked, NextPage, At
<1>3. "fetch" \in Steps
  BY DEF Steps, Guarded
<1> QED
  BY <1>2, <1>3, GoKeeps, EndsWell DEF NextPage, At

LEMMA UpdateAndEnd ==
  ASSUME TypeOK, NEW n \in Nat, Prefix(n), NEW c \in Commands,
         GiveUp(c) \/ Interrupt(c) \/ SaveCancelled(c) \/ Complete(c)
  PROVE  IInv'
<1>1. PICK status \in {"failed", "interrupted", "cancelled", "completed"} :
        /\ Update(c, status) /\ Become(c, Idle)
        /\ status = "completed" => cmd[c].at = "complete"
  BY DEF GiveUp, Interrupt, SaveCancelled, Complete, At
<1>2. UNCHANGED <<checkpoints, total, before>> /\ cmd[c].at # "idle"
  BY DEF GiveUp, Interrupt, SaveCancelled, Complete, At, Guarded
<1>3. status \in Statuses
  BY DEF Statuses, Closed
<1> QED
  BY <1>1, <1>2, <1>3, UpdateTells, EndsWell

LEMMA FetchKeeps ==
  ASSUME TypeOK, NEW n \in Nat, Prefix(n), NEW c \in Commands, Fetch(c)
  PROVE  IInv'
<1>1. cmd[c] \in CmdSet /\ Sound(cmd[c], n)
  BY DEF TypeOK, CmdSet, Prefix
<1>2. PICK last \in BOOLEAN, items \in {0, 1} :
        /\ last => before \leq cmd[c].page
        /\ Become(c, [cmd[c] EXCEPT !.at = "normalize", !.last = last, !.items = items])
  <2>1. IsLast(cmd[c].page) => before \leq cmd[c].page
    BY <1>1 DEF IsLast, TypeOK, CmdSet
  <2>2. IsLast(cmd[c].page) \in BOOLEAN
    BY DEF IsLast
  <2>3. \E items \in {0, 1} :
          Become(c, [cmd[c] EXCEPT !.at = "normalize", !.last = IsLast(cmd[c].page), !.items = items])
    <3>1. CASE cmd[c].page \leq total
      BY <3>1 DEF Fetch
    <3>2. CASE ~(cmd[c].page \leq total)
      BY <3>2 DEF Fetch
    <3> QED
      BY <3>1, <3>2
  <2> QED
    BY <2>1, <2>2, <2>3
<1>3. PICK k \in CmdSet : k = [cmd[c] EXCEPT !.at = "normalize", !.last = last, !.items = items]
  BY <1>1 DEF CmdSet, Steps, Guarded
<1>4. k.at = "normalize" /\ k.page = cmd[c].page /\ k.counted = cmd[c].counted /\ k.last = last
  BY <1>1, <1>3 DEF CmdSet
<1>5. Sound(k, n)'
  BY <1>1, <1>2, <1>4 DEF Sound, Asking, Asked, Fetch, At, CmdSet
<1> QED
  BY <1>2, <1>3, <1>5, KeepsPages DEF Fetch

LEMMA NormalizeKeeps ==
  ASSUME TypeOK, NEW n \in Nat, Prefix(n), NEW c \in Commands, Normalize(c) \/ Finalize(c)
  PROVE  IInv'
<1>1. cmd[c] \in CmdSet /\ Sound(cmd[c], n)
  BY DEF TypeOK, CmdSet, Prefix
<1>2. PICK next \in {"save", "complete"} :
        /\ Go(c, next)
        /\ \/ next = "save" /\ cmd[c].at = "normalize"
           \/ next = "complete" /\ cmd[c].at = "finalize"
  BY DEF Normalize, Finalize, At
<1>3. Sound([cmd[c] EXCEPT !.at = next], n)
  BY <1>1, <1>2 DEF Sound, CmdSet, Asking, Asked
<1>4. next \in Steps /\ {"normalizing", "finalizing"} \subseteq Statuses \ {"completed"}
  BY DEF Steps, Guarded, Statuses
<1> QED
  BY <1>2, <1>3, <1>4, GoKeeps DEF Normalize, Finalize

\* A page stored is one of the first n, or the next one.
LEMMA SavePageKeeps ==
  ASSUME TypeOK, NEW n \in Nat, Prefix(n), NEW c \in Commands, SavePage(c)
  PROVE  IInv'
<1>1. cmd[c] \in CmdSet /\ Sound(cmd[c], n)
  BY DEF TypeOK, CmdSet, Prefix
<1>2. cmd[c].at = "save" /\ cmd[c].page \in 1 .. n + 1 /\ cmd[c].page \leq MaxPages
      /\ cmd[c].counted < cmd[c].page
  BY <1>1 DEF SavePage, At, Sound, Asking
<1>3. PICK m \in {n, n + 1} : m \in 0 .. MaxPages /\ cmd[c].page \leq m /\ 1 .. m = 1 .. n \cup {cmd[c].page}
  <2>1. CASE cmd[c].page = n + 1
    BY <1>2, <2>1
  <2>2. CASE cmd[c].page # n + 1
    BY <1>2, <2>2 DEF Prefix
  <2> QED
    BY <2>1, <2>2
<1>4. Stored' = 1 .. m
  BY <1>3 DEF SavePage, Stored, Prefix
<1>5. \A p \in Stored' : checkpoints'[p] \in {0, 1}
  BY <1>1 DEF SavePage, Stored, TypeOK, CmdSet
<1>6. PICK k \in CmdSet : k = [cmd[c] EXCEPT !.at = "count"]
  BY <1>1 DEF CmdSet, Steps, Guarded
<1>7. k.at = "count" /\ k.page = cmd[c].page /\ k.counted = cmd[c].counted /\ k.last = cmd[c].last
  BY <1>1, <1>6 DEF CmdSet
<1>8. Sound(k, m)'
  BY <1>1, <1>2, <1>3, <1>7 DEF Sound, Asking, Asked, SavePage, CmdSet
<1>9. cmd' \in [Commands -> CmdSet] /\ \A d \in Commands : Sound(cmd[d], m)'
  BY <1>6, <1>8, BecomeSound DEF SavePage, Go
<1>10. TypeOK'
  <2>1. Stored' \subseteq 1 .. MaxPages
    BY <1>3, <1>4
  <2> QED
    BY <1>5, <1>9, <2>1 DEF TypeOK, CmdSet, SavePage
<1>11. Told(m)'
  BY <1>3 DEF Told, Prefix, SavePage, TypeOK, Documents
<1>12. Prefix(m)'
  BY <1>3, <1>4, <1>9, <1>11 DEF Prefix
<1> QED
  BY <1>3, <1>10, <1>12 DEF IInv

\* The page is stored, so what is counted with it is no more than its number.
LEMMA CountKeeps ==
  ASSUME TypeOK, NEW n \in Nat, Prefix(n), NEW c \in Commands, Count(c)
  PROVE  IInv'
<1> DEFINE sum == cmd[c].counted + cmd[c].items
<1>1. cmd[c] \in CmdSet /\ Sound(cmd[c], n) /\ cmd[c].at = "count"
  BY DEF TypeOK, CmdSet, Prefix, Count, At
<1>2. cmd[c].page \in 1 .. n /\ sum \in Nat /\ sum \leq cmd[c].page /\ cmd[c].page \leq MaxPages
      /\ (cmd[c].last => before \leq cmd[c].page)
  BY <1>1 DEF Sound, Asking, Asked, CmdSet
<1>3. check' = [status |-> "checkpointing", counted |-> sum]
  BY DEF Count
<1>4. check' \in Documents /\ check'.counted = sum /\ check'.status = "checkpointing"
  BY <1>2, <1>3 DEF Documents, Statuses
<1>5. Told(n)'
  BY <1>2, <1>4 DEF Told
<1>6. CASE cmd[c].last
  <2>1. PICK k \in CmdSet : k = [[cmd[c] EXCEPT !.counted = sum] EXCEPT !.at = "finalize"]
    BY <1>1, <1>2 DEF CmdSet, Steps, Guarded
  <2>2. k.at = "finalize" /\ k.page = cmd[c].page /\ k.counted = sum /\ k.last
    BY <1>1, <1>6, <2>1 DEF CmdSet
  <2>3. Become(c, k)
    BY <1>1, <1>6, <2>1 DEF Count, CmdSet
  <2>4. Sound(k, n)'
    BY <1>2, <1>4, <1>6, <2>2 DEF Sound, Asking, Asked, Count
  <2> QED
    BY <1>4, <1>5, <2>3, <2>4, KeepsPages DEF Count
<1>7. CASE ~cmd[c].last
  <2>1. cmd[c].page + 1 \in 0 .. MaxPages + 1 /\ cmd[c].seen \cup {cmd[c].page} \in SUBSET (0 .. MaxPages)
    BY <1>1, <1>2 DEF CmdSet
  <2>2. PICK k \in CmdSet : k = Advance([cmd[c] EXCEPT !.counted = sum])
    BY <1>1, <1>2, <2>1 DEF CmdSet, Steps, Advance
  <2>3. k.at = "next" /\ k.page = cmd[c].page + 1 /\ k.counted = sum
    BY <1>1, <2>2 DEF CmdSet, Advance
  <2>4. Become(c, k)
    BY <1>1, <1>7, <2>2 DEF Count, CmdSet
  <2>5. Sound(k, n)'
    BY <1>2, <1>4, <2>3 DEF Sound, Asking, Asked, Count
  <2> QED
    BY <1>4, <1>5, <2>4, <2>5, KeepsPages DEF Count
<1> QED
  BY <1>6, <1>7

-----------------------------------------------------------------------------
(* The world *)

LEMMA PlanKeeps ==
  ASSUME TypeOK, NEW n \in Nat, Prefix(n), Plan
  PROVE  IInv'
<1>1. \A c \in Commands : cmd[c].at = "idle"
  BY DEF Plan, Prefix, Sound
<1>2. check' \in Documents /\ check'.counted = 0 /\ check'.status = "planned"
  BY DEF Plan, Documents, Statuses
<1>3. \A c \in Commands : Sound(cmd[c], n)'
  BY <1>1 DEF Plan, Sound, Asking, Asked
<1>4. Stored' = Stored
  BY DEF Plan, Stored
<1>5. TypeOK'
  BY <1>2, <1>4 DEF TypeOK, Plan
<1>6. Prefix(n)'
  BY <1>2, <1>3, <1>4 DEF Prefix, Told
<1> QED
  BY <1>5, <1>6 DEF IInv

LEMMA QuietKeeps ==
  ASSUME TypeOK, NEW n \in Nat, Prefix(n), Grow \/ UNCHANGED vars
  PROVE  IInv'
<1>1. UNCHANGED <<check, checkpoints, before, cmd>> /\ total' \in {total, total + 1}
      /\ total' \in 1 .. MaxTotal
  BY DEF Grow, vars, TypeOK
<1>2. Stored' = Stored
  BY <1>1 DEF Stored
<1>3. TypeOK'
  BY <1>1, <1>2 DEF TypeOK
<1>4. Prefix(n)'
  BY <1>1, <1>2 DEF Prefix, Told, Sound
<1> QED
  BY <1>3, <1>4 DEF IInv

-----------------------------------------------------------------------------
LEMMA StepKeeps == IInv /\ [Next]_vars => IInv'
<1> SUFFICES ASSUME IInv, [Next]_vars PROVE IInv'
  OBVIOUS
<1>1. TypeOK
  BY DEF IInv
<1>2. PICK n \in Nat : Prefix(n)
  BY DEF IInv
<1>3. ASSUME NEW c \in Commands, Resume(c) \/ Cancel(c) PROVE IInv'
  BY <1>1, <1>2, <1>3, LoadKeeps DEF Resume, Cancel
<1>4. ASSUME NEW c \in Commands, Request(c) \/ ListPages(c) \/ ListSeen(c) \/ NextPage(c) PROVE IInv'
  BY <1>1, <1>2, <1>4, RequestKeeps, ListKeeps, NextPageKeeps
<1>5. ASSUME NEW c \in Commands, Fetch(c) \/ Normalize(c) \/ SavePage(c) \/ Count(c) \/ Finalize(c)
      PROVE IInv'
  BY <1>1, <1>2, <1>5, FetchKeeps, NormalizeKeeps, SavePageKeeps, CountKeeps
<1>6. ASSUME NEW c \in Commands, GiveUp(c) \/ Interrupt(c) \/ SaveCancelled(c) \/ Complete(c) PROVE IInv'
  BY <1>1, <1>2, <1>6, UpdateAndEnd
<1>7. ASSUME NEW c \in Commands, Crash(c) PROVE IInv'
  BY <1>1, <1>2, <1>7, EndsWell DEF Crash
<1>8. ASSUME Grow \/ Plan \/ UNCHANGED vars PROVE IInv'
  BY <1>1, <1>2, <1>8, PlanKeeps, QuietKeeps
<1> QED
  BY <1>3, <1>4, <1>5, <1>6, <1>7, <1>8 DEF Next, Work

-----------------------------------------------------------------------------
\* Types of documents, checkpoints and commands (checks.py:10-40, :83-109).
THEOREM TypesAlways == Spec => []TypeOK
<1>1. IInv => TypeOK
  BY DEF IInv
<1> QED
  BY <1>1, InitHolds, StepKeeps, PTL DEF Spec

\* Two resumes at once, interruptions and kills count no page twice
\* (checks.py:119-131).
THEOREM PagesCountOnce == Spec => []CountedOnce
<1>1. IInv => CountedOnce
  <2> SUFFICES ASSUME IInv, check # NoCheck PROVE check.counted \leq Cardinality(Stored)
    BY DEF CountedOnce
  <2>1. PICK n \in Nat : Prefix(n)
    BY DEF IInv
  <2>2. Cardinality(Stored) = n
    BY <2>1, FS_Interval DEF Prefix
  <2> QED
    BY <2>1, <2>2 DEF Prefix, Told
<1> QED
  BY <1>1, InitHolds, StepKeeps, PTL DEF Spec

\* A completed inspection has every page the collection had when it was
\* planned (checks.py:132-135).
THEOREM CompletedInspectionsAreWhole == Spec => []CompletedIsWhole
<1>1. IInv => CompletedIsWhole
  <2> SUFFICES ASSUME IInv, check # NoCheck, check.status = "completed"
               PROVE  1 .. before \subseteq Stored /\ \A p \in Stored : 1 .. p \subseteq Stored
    BY DEF CompletedIsWhole
  <2>1. PICK n \in Nat : Prefix(n)
    BY DEF IInv
  <2>2. before \in Nat /\ before \leq n
    BY <2>1 DEF Prefix, Told, IInv, TypeOK
  <2> QED
    BY <2>1, <2>2 DEF Prefix
<1> QED
  BY <1>1, InitHolds, StepKeeps, PTL DEF Spec
=============================================================================
