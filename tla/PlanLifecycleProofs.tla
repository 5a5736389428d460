------------------------ MODULE PlanLifecycleProofs ------------------------
(***************************************************************************)
(* What an import may bring in, for any media, plans and commands: the     *)
(* approval, the link and the analysis stand behind it.                    *)
(***************************************************************************)
EXTENDS PlanLifecycle, TLAPS

LEMMA IdleIsACommand == Idle \in [at : Steps, id : Plans \cup {NoPlan}, copy : PlanDocuments \cup {NoPlan}]
  BY DEF Idle, Steps

LEMMA SelectedAreMembers ==
  ASSUME NEW m \in Media, NEW policy PROVE Selected(m, policy) \in SUBSET Members
  BY PlanAssumption DEF Selected, Eligible, Members

LEMMA PlannedModes ==
  ASSUME NEW m \in Media, RecommendedMode(m) # "manual-review" PROVE RecommendedMode(m) \in Modes
  BY DEF RecommendedMode, Modes

LEMMA InitTypes == Init => TypeOK
  BY IdleIsACommand, PlanAssumption DEF Init, TypeOK, Idle

LEMMA StepTypes == TypeOK /\ [Next]_vars => TypeOK'
<1> SUFFICES ASSUME TypeOK, [Next]_vars PROVE TypeOK'
  OBVIOUS
<1> USE DEF TypeOK
<1>1. CASE EditSource
  BY <1>1, PlanAssumption DEF EditSource
<1>2. ASSUME NEW m \in Media, AlterMedium(m) \/ Analyze(m) PROVE TypeOK'
  BY <1>2 DEF AlterMedium, Analyze
<1>3. ASSUME NEW p \in Plans, NEW selected \in Selections, NEW mode \in Modes,
             CreatePlan(p, selected, mode)
      PROVE  TypeOK'
  <2> DEFINE d == [from |-> "registered", version |-> source.version, selected |-> selected,
                   to |-> "other", mode |-> mode, status |-> "draft"]
  <2>1. d \in PlanDocuments
    BY PlanAssumption DEF PlanDocuments, Origins, Collections, Statuses, Members
  <2>2. plan' = [plan EXCEPT ![p] = d] /\ plan[p] = NoPlan
    BY <1>3 DEF CreatePlan, NewPlan
  <2>3. QED
    BY <1>3, <2>1, <2>2 DEF CreatePlan
<1>4. ASSUME NEW p \in Plans, NEW m \in Media, NEW policy \in Policies, NEW to \in Collections,
             PlanFromMedia(p, m, policy, to)
      PROVE  TypeOK'
  <2> DEFINE d == [from |-> m, version |-> 0, selected |-> Selected(m, policy), to |-> to,
                   mode |-> RecommendedMode(m), status |-> "draft"]
  <2>1. d \in PlanDocuments
    BY <1>4, PlanAssumption, SelectedAreMembers, PlannedModes
    DEF PlanFromMedia, PlanDocuments, Origins, Statuses
  <2>2. plan' = [plan EXCEPT ![p] = d] /\ plan[p] = NoPlan
    BY <1>4 DEF PlanFromMedia, NewPlan
  <2>3. QED
    BY <1>4, <2>1, <2>2 DEF PlanFromMedia
<1>5. ASSUME NEW p \in Plans, SaveLink(p) PROVE TypeOK'
  BY <1>5 DEF SaveLink
<1>6. ASSUME NEW c \in Commands, NEW p \in Plans, NEW statuses, NEW next \in Steps,
             Load(c, p, statuses, next)
      PROVE  TypeOK'
  BY <1>6 DEF Load
<1>7. ASSUME NEW c \in Commands, NEW p \in Plans, Approve(c, p) \/ Cancel(c, p) \/ Execute(c, p)
      PROVE  TypeOK'
  BY <1>6, <1>7 DEF Approve, Cancel, Execute, Steps
<1>8. ASSUME NEW c \in Commands, AppendEvent(c) PROVE TypeOK'
  <2>1. cmd[c].at # "idle"
    BY <1>8 DEF AppendEvent
  <2>2. QED
    BY <1>8, <2>1 DEF AppendEvent, Steps
<1>9. ASSUME NEW c \in Commands, SaveStatus(c) PROVE TypeOK'
  <2>1. cmd[c].at # "idle" /\ cmd[c].at \in Statuses
    BY <1>9 DEF SaveStatus, Statuses
  <2>2. [cmd[c].copy EXCEPT !.status = cmd[c].at] \in PlanDocuments
    BY <2>1 DEF PlanDocuments
  <2>3. QED
    BY <1>9, <2>2, IdleIsACommand DEF SaveStatus, Idle
<1>10. ASSUME NEW c \in Commands, ExecutionBegins(c) PROVE TypeOK'
  <2>1. cmd[c].at # "idle"
    BY <1>10 DEF ExecutionBegins
  <2>2. QED
    BY <1>10, <2>1 DEF ExecutionBegins, Steps
<1>11. ASSUME NEW c \in Commands, Import(c) PROVE TypeOK'
  <2>1. cmd[c].id \in Plans /\ cmd[c].copy \in PlanDocuments
    BY <1>11 DEF Import
  <2>2. \A i \in Brought(cmd[c].id, cmd[c].copy) :
          i.plan \in Plans /\ i.what \in Members \cup {"medium"} /\ i.to \in Collections \cup {"media"}
    BY <2>1 DEF Brought, PlanDocuments
  <2>3. QED
    BY <1>11, <2>2, IdleIsACommand DEF Import, Idle
<1>12. ASSUME NEW c \in Commands, End(c) PROVE TypeOK'
  BY <1>12, IdleIsACommand DEF End, Idle
<1>13. CASE UNCHANGED vars
  BY <1>13 DEF vars
<1>14. QED
  BY <1>1, <1>2, <1>3, <1>4, <1>5, <1>7, <1>8, <1>9, <1>10, <1>11, <1>12, <1>13 DEF Next

\* Documents, links, commands and imports keep their types (plans.py).
THEOREM TypesAlways == Spec => []TypeOK
  BY InitTypes, StepTypes, PTL DEF Spec

-----------------------------------------------------------------------------
Approved(p) == <<p, "approval">> \in events

\* An approval is on record before any document or command relies on it.
Backed ==
  /\ \A p \in Plans : plan[p] # NoPlan /\ plan[p].status = "approved" => Approved(p)
  /\ \A c \in Commands : cmd[c].at \in {"approved", "validate", "import"} => Approved(cmd[c].id)

\* Only the status of a plan ever changes, in documents and in copies.
SamePlan(d, e) == d.from = e.from /\ d.selected = e.selected /\ d.to = e.to /\ d.mode = e.mode

Agree ==
  \A c \in Commands : cmd[c].at # "idle" =>
    plan[cmd[c].id] # NoPlan /\ SamePlan(plan[cmd[c].id], cmd[c].copy)

\* What made the plan, and what let its execution through
Planned(m, d) ==
  ~NeedsReview(m) /\ d.selected \subseteq Eligible(m)
Lawful ==
  /\ \A p \in Plans : plan[p] # NoPlan /\ plan[p].from \in Media => Planned(plan[p].from, plan[p])
  /\ \A c \in Commands : cmd[c].at = "import" /\ cmd[c].copy.from \in Media =>
       /\ cmd[c].id \in links
       /\ Image[cmd[c].copy.from].aminet => cmd[c].copy.to = "aminet"

Kept ==
  /\ \A i \in imported : plan[i.plan] # NoPlan
  /\ ImportedWasApproved /\ ImportedIsLinked /\ OnlySafeMembers

IInv == TypeOK /\ Backed /\ Agree /\ Lawful /\ Kept

LEMMA InitHolds == Init => IInv
  BY InitTypes DEF Init, IInv, Backed, Agree, Lawful, Kept, ImportedWasApproved,
     ImportedIsLinked, OnlySafeMembers, Idle

\* A new document has no status but draft, and nothing refers to it yet.
LEMMA NewPlanKeeps ==
  ASSUME IInv, TypeOK', NEW p \in Plans, NEW d \in PlanDocuments,
         d.status = "draft", d.from \in Media => Planned(d.from, d), NewPlan(p, d),
         UNCHANGED <<links, events, imported, cmd>>
  PROVE  IInv'
<1> USE DEF IInv
<1>1. plan[p] = NoPlan /\ plan'[p] = d /\ d # NoPlan
  BY NoPlanAssumption DEF NewPlan, TypeOK
<1>2. \A q \in Plans : q # p => plan'[q] = plan[q]
  BY DEF NewPlan, TypeOK
<1>3. Backed'
  BY <1>1, <1>2 DEF Backed, Approved
<1>4. Agree'
  BY <1>1, <1>2 DEF Agree, SamePlan, TypeOK
<1>5. Lawful'
  BY <1>1, <1>2 DEF Lawful, Planned, Eligible, NeedsReview
<1>6. \A i \in imported : i.plan \in Plans /\ plan'[i.plan] = plan[i.plan]
  BY <1>1, <1>2 DEF Kept, TypeOK
<1>7. Kept'
  BY <1>6 DEF Kept, ImportedWasApproved, ImportedIsLinked, OnlySafeMembers
<1>8. QED
  BY <1>3, <1>4, <1>5, <1>7

LEMMA LoadKeeps ==
  ASSUME IInv, TypeOK', NEW c \in Commands, NEW p \in Plans, NEW statuses, NEW next,
         Load(c, p, statuses, next), next \in {"approval", "cancellation"} \/ (next = "validate" /\ statuses = {"approved"})
  PROVE  IInv'
<1> USE DEF IInv
<1>1. cmd' = [cmd EXCEPT ![c] = [at |-> next, id |-> p, copy |-> plan[p]]]
  BY DEF Load
<1>2. cmd'[c].at = next /\ cmd'[c].id = p /\ cmd'[c].copy = plan[p] /\ plan[p] # NoPlan
  BY <1>1 DEF Load, TypeOK
<1>3. \A x \in Commands : x # c => cmd'[x] = cmd[x]
  BY <1>1 DEF TypeOK
<1>4. UNCHANGED <<plan, links, events, imported>>
  BY DEF Load
<1>5. next = "validate" => Approved(p)
  BY DEF Load, Backed
<1>6. Backed'
  BY <1>2, <1>3, <1>4, <1>5 DEF Backed, Approved
<1>7. Agree'
  BY <1>2, <1>3, <1>4 DEF Agree, SamePlan
<1>8. Lawful'
  BY <1>2, <1>3, <1>4 DEF Lawful, Planned, Eligible, NeedsReview
<1>9. Kept'
  BY <1>4 DEF Kept, ImportedWasApproved, ImportedIsLinked, OnlySafeMembers
<1>10. QED
  BY <1>6, <1>7, <1>8, <1>9

LEMMA AppendEventKeeps ==
  ASSUME IInv, TypeOK', NEW c \in Commands, AppendEvent(c)
  PROVE  IInv'
<1> USE DEF IInv
<1>1. cmd'[c].id = cmd[c].id /\ cmd'[c].copy = cmd[c].copy /\ cmd[c].at # "idle"
  BY DEF AppendEvent, TypeOK
<1>2. \/ cmd[c].at = "approval" /\ cmd'[c].at = "approved"
      \/ cmd[c].at = "cancellation" /\ cmd'[c].at = "cancelled"
  BY DEF AppendEvent, TypeOK
<1>3. \A x \in Commands : x # c => cmd'[x] = cmd[x]
  BY DEF AppendEvent, TypeOK
<1>4. UNCHANGED <<plan, links, imported>> /\ events' = events \cup {<<cmd[c].id, cmd[c].at>>}
  BY DEF AppendEvent
<1>5. Backed'
  BY <1>1, <1>2, <1>3, <1>4 DEF Backed, Approved
<1>6. Agree'
  BY <1>1, <1>3, <1>4 DEF Agree, SamePlan
<1>7. Lawful'
  BY <1>2, <1>3, <1>4 DEF Lawful, Planned, Eligible, NeedsReview
<1>8. Kept'
  BY <1>4 DEF Kept, ImportedWasApproved, ImportedIsLinked, OnlySafeMembers
<1>9. QED
  BY <1>5, <1>6, <1>7, <1>8

\* The copy goes back with another status; it is the same plan.
LEMMA SaveStatusKeeps ==
  ASSUME IInv, TypeOK', NEW c \in Commands, SaveStatus(c)
  PROVE  IInv'
<1> USE DEF IInv
<1> DEFINE p == cmd[c].id
           d == [cmd[c].copy EXCEPT !.status = cmd[c].at]
<1>1. p \in Plans /\ cmd[c].copy \in PlanDocuments /\ plan[p] # NoPlan /\ SamePlan(plan[p], cmd[c].copy)
  BY DEF SaveStatus, TypeOK, Agree
<1>2. d.status = cmd[c].at /\ SamePlan(plan[p], d)
  BY <1>1 DEF PlanDocuments, SamePlan
<1>3. plan'[p] = d /\ \A q \in Plans : q # p => plan'[q] = plan[q]
  BY <1>1 DEF SaveStatus, TypeOK
<1>4. d # NoPlan
  <2>1. cmd[c].at \in Statuses
    BY DEF SaveStatus, Statuses
  <2>2. d \in PlanDocuments
    BY <1>1, <2>1 DEF PlanDocuments
  <2>3. QED
    BY <2>2, NoPlanAssumption
<1> HIDE DEF d
<1>5. cmd'[c].at = "idle" /\ \A x \in Commands : x # c => cmd'[x] = cmd[x]
  BY DEF SaveStatus, TypeOK, Idle
<1>6. UNCHANGED <<links, events, imported>>
  BY DEF SaveStatus
<1>7. Backed'
  <2>1. d.status = "approved" => Approved(p)
    BY <1>2 DEF Backed
  <2>2. QED
    BY <2>1, <1>3, <1>5, <1>6 DEF Backed, Approved
<1>8. Agree'
  BY <1>2, <1>3, <1>4, <1>5 DEF Agree, SamePlan, TypeOK
<1>9. Lawful'
  BY <1>1, <1>2, <1>3, <1>5, <1>6 DEF Lawful, Planned, Eligible, NeedsReview, SamePlan
<1>10. \A i \in imported : i.plan \in Plans /\ plan[i.plan] # NoPlan /\ plan'[i.plan] # NoPlan /\ plan'[i.plan].from = plan[i.plan].from
  BY <1>2, <1>3, <1>4 DEF Kept, TypeOK, SamePlan
<1>11. Kept'
  BY <1>6, <1>10 DEF Kept, ImportedWasApproved, ImportedIsLinked, OnlySafeMembers
<1>12. QED
  BY <1>7, <1>8, <1>9, <1>11

LEMMA ExecutionBeginsKeeps ==
  ASSUME IInv, TypeOK', NEW c \in Commands, ExecutionBegins(c)
  PROVE  IInv'
<1> USE DEF IInv
<1>1. /\ cmd[c].at = "validate" /\ cmd'[c].at = "import"
      /\ cmd'[c].id = cmd[c].id /\ cmd'[c].copy = cmd[c].copy
  BY DEF ExecutionBegins, TypeOK
<1>2. \A x \in Commands : x # c => cmd'[x] = cmd[x]
  BY DEF ExecutionBegins, TypeOK
<1>3. UNCHANGED <<plan, links, imported>> /\ events \subseteq events'
  BY DEF ExecutionBegins
<1>4. Backed'
  BY <1>1, <1>2, <1>3 DEF Backed, Approved
<1>5. Agree'
  BY <1>1, <1>2, <1>3 DEF Agree, SamePlan
<1>6. cmd[c].copy.from \in Media => MediaPlanValid(cmd[c].id, cmd[c].copy)
  BY DEF ExecutionBegins
<1>7. Lawful'
  BY <1>1, <1>2, <1>3, <1>6 DEF Lawful, Planned, Eligible, NeedsReview, MediaPlanValid, Candidates
<1>8. Kept'
  BY <1>3 DEF Kept, ImportedWasApproved, ImportedIsLinked, OnlySafeMembers
<1>9. QED
  BY <1>4, <1>5, <1>7, <1>8

\* What an import brings in has the approval, the link and the analysis that
\* the command checked, and the plan it checked them for is still that plan.
LEMMA ImportKeeps ==
  ASSUME IInv, TypeOK', NEW c \in Commands, Import(c)
  PROVE  IInv'
<1> USE DEF IInv
<1> DEFINE p == cmd[c].id
           d == cmd[c].copy
<1>1. cmd'[c].at = "idle" /\ \A x \in Commands : x # c => cmd'[x] = cmd[x]
  BY DEF Import, TypeOK, Idle
<1>2. UNCHANGED <<plan, links, events>>
  BY DEF Import
<1>3. \A i \in imported' : i \in imported \/ i \in Brought(p, d)
  BY DEF Import
<1>4. p \in Plans /\ d \in PlanDocuments /\ plan[p] # NoPlan /\ SamePlan(plan[p], d) /\ Approved(p)
  BY DEF Import, TypeOK, Agree, Backed
<1>5. Backed'
  BY <1>1, <1>2 DEF Backed, Approved
<1>6. Agree'
  BY <1>1, <1>2 DEF Agree, SamePlan
<1>7. Lawful'
  BY <1>1, <1>2 DEF Lawful, Planned, Eligible, NeedsReview
<1>8. ASSUME NEW i \in Brought(p, d)
      PROVE  /\ i.plan = p
             /\ d.from \in Media => i.what \in d.selected /\ i.to = d.to
  BY PlanAssumption DEF Brought
<1>9. ASSUME d.from \in Media
      PROVE  /\ Image[d.from].unsafe = {} /\ d.selected \subseteq Image[d.from].members
             /\ Image[d.from].aminet => d.to = "aminet"
             /\ p \in links
  BY <1>4, <1>9 DEF Import, Lawful, Planned, NeedsReview, Eligible, SamePlan
<1>10. \A i \in imported' : i \in imported \/ (i.plan = p /\ plan[p].from = d.from)
  BY <1>3, <1>4, <1>8 DEF SamePlan
<1>11. ImportedWasApproved' /\ ImportedIsLinked' /\ (\A i \in imported' : plan'[i.plan] # NoPlan)
  BY <1>2, <1>4, <1>9, <1>10 DEF Kept, ImportedWasApproved, ImportedIsLinked, Approved
<1>12. OnlySafeMembers'
  BY <1>2, <1>3, <1>8, <1>9, <1>10 DEF Kept, OnlySafeMembers
<1>13. QED
  BY <1>5, <1>6, <1>7, <1>11, <1>12 DEF Kept

-----------------------------------------------------------------------------
LEMMA StepKeeps == IInv /\ [Next]_vars => IInv'
<1> SUFFICES ASSUME IInv, [Next]_vars PROVE IInv'
  OBVIOUS
<1>0. TypeOK'
  BY StepTypes DEF IInv
<1>1. ASSUME UNCHANGED <<plan, links, events, imported, cmd>> PROVE IInv'
  BY <1>0, <1>1
  DEF IInv, Backed, Approved, Agree, SamePlan, Lawful, Planned, NeedsReview, Eligible, Kept,
      ImportedWasApproved, ImportedIsLinked, OnlySafeMembers
<1>2. ASSUME NEW p \in Plans, NEW selected \in Selections, NEW mode \in Modes,
             CreatePlan(p, selected, mode)
      PROVE  IInv'
  <2> DEFINE d == [from |-> "registered", version |-> source.version, selected |-> selected,
                   to |-> "other", mode |-> mode, status |-> "draft"]
  <2>1. d \in PlanDocuments
    BY PlanAssumption DEF IInv, TypeOK, PlanDocuments, Origins, Collections, Statuses, Members
  <2>2. d.from \notin Media
    BY PlanAssumption
  <2>3. NewPlan(p, d) /\ UNCHANGED <<links, events, imported, cmd>>
    BY <1>2 DEF CreatePlan
  <2>4. d.status = "draft"
    OBVIOUS
  <2>5. QED
    BY <1>0, <2>1, <2>2, <2>3, <2>4, NewPlanKeeps
<1>3. ASSUME NEW p \in Plans, NEW m \in Media, NEW policy \in Policies, NEW to \in Collections,
             PlanFromMedia(p, m, policy, to)
      PROVE  IInv'
  <2> DEFINE d == [from |-> m, version |-> 0, selected |-> Selected(m, policy), to |-> to,
                   mode |-> RecommendedMode(m), status |-> "draft"]
  <2>1. d \in PlanDocuments
    BY <1>3, PlanAssumption, SelectedAreMembers, PlannedModes
    DEF PlanFromMedia, PlanDocuments, Origins, Statuses
  <2>2. Planned(d.from, d)
    BY <1>3 DEF PlanFromMedia, RecommendedMode, Planned, Selected
  <2>3. NewPlan(p, d) /\ UNCHANGED <<links, events, imported, cmd>>
    BY <1>3 DEF PlanFromMedia
  <2>4. d.status = "draft"
    OBVIOUS
  <2>5. QED
    BY <1>0, <2>1, <2>2, <2>3, <2>4, NewPlanKeeps
<1>4. ASSUME NEW p \in Plans, SaveLink(p) PROVE IInv'
  BY <1>0, <1>4
  DEF SaveLink, IInv, Backed, Approved, Agree, SamePlan, Lawful, Planned, NeedsReview, Eligible,
      Kept, ImportedWasApproved, ImportedIsLinked, OnlySafeMembers
<1>5. ASSUME NEW c \in Commands, NEW p \in Plans, Approve(c, p) \/ Cancel(c, p) \/ Execute(c, p)
      PROVE  IInv'
  BY <1>0, <1>5, LoadKeeps DEF Approve, Cancel, Execute
<1>6. ASSUME NEW c \in Commands, End(c) PROVE IInv'
  <2>1. cmd'[c].at = "idle" /\ \A x \in Commands : x # c => cmd'[x] = cmd[x]
    BY <1>6 DEF End, IInv, TypeOK, Idle
  <2>2. UNCHANGED <<plan, links, events, imported>>
    BY <1>6 DEF End
  <2>3. Backed' /\ Agree'
    BY <2>1, <2>2 DEF IInv, Backed, Approved, Agree, SamePlan
  <2>4. Lawful'
    BY <2>1, <2>2 DEF IInv, Lawful, Planned, NeedsReview, Eligible
  <2>5. Kept'
    BY <2>2 DEF IInv, Kept, ImportedWasApproved, ImportedIsLinked, OnlySafeMembers
  <2>6. QED
    BY <1>0, <2>3, <2>4, <2>5 DEF IInv
<1>7. QED
  BY <1>0, <1>1, <1>2, <1>3, <1>4, <1>5, <1>6, AppendEventKeeps, SaveStatusKeeps,
     ExecutionBeginsKeeps, ImportKeeps
  DEF Next, vars, EditSource, AlterMedium, Analyze

LEMMA AlwaysKept == Spec => []IInv
  BY InitHolds, StepKeeps, PTL DEF Spec

\* Nothing is imported without an approval on record, however approvals,
\* cancellations and executions interleave (plans.py, command_plan_execute).
THEOREM ApprovalComesFirst == Spec => []ImportedWasApproved
<1>1. IInv => ImportedWasApproved
  BY DEF IInv, Kept
<1>2. QED
  BY <1>1, AlwaysKept, PTL

\* No medium with an unsafe member is imported from, and Aminet media only
\* into the Aminet collection (media_import_plans.py, aminet_import.py).
THEOREM OnlySafeMembersLeave == Spec => []OnlySafeMembers
<1>1. IInv => OnlySafeMembers
  BY DEF IInv, Kept
<1>2. QED
  BY <1>1, AlwaysKept, PTL

\* What came from an acquired medium has its link (aminet_import.py:17-24).
THEOREM ImportsAreTraceable == Spec => []ImportedIsLinked
<1>1. IInv => ImportedIsLinked
  BY DEF IInv, Kept
<1>2. QED
  BY <1>1, AlwaysKept, PTL
=============================================================================
