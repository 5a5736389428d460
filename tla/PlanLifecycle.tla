---------------------------- MODULE PlanLifecycle ----------------------------
(***************************************************************************)
(* Import plans, from the analysis of an acquired medium or a scan of a    *)
(* registered source to their execution (scripts/preservation/plans.py,    *)
(* media_analysis.py, media_import_plans.py, aminet_import.py and the      *)
(* plan-* commands).                                                       *)
(*                                                                         *)
(* A command loads a plan, decides, appends an event and saves its copy    *)
(* with another status; nothing locks the plan, and the command may end    *)
(* anywhere.  What an import does to the collection is ImportSelected's    *)
(* business; here it brings in some of the selected members.               *)
(***************************************************************************)
EXTENDS Naturals, FiniteSets

CONSTANTS
  Plans,       \* plan ids
  Commands,    \* plan-approve, -cancel and -execute invocations at one time
  Media,       \* acquired media
  Image,       \* what each medium holds
  Suffix,      \* suffix of each member's name
  Selections,  \* what operators select from the registered source
  MaxVersion,  \* edits of the registered source
  NoPlan       \* the plan has no document

ASSUME PlanAssumption ==
  /\ Image \in [Media -> [container : {"zip", "tar", "iso", "adf", "unknown"},
                          members : SUBSET DOMAIN Suffix, unsafe : SUBSET DOMAIN Suffix,
                          repeated : BOOLEAN, aminet : BOOLEAN,
                          license : {"redistributable", "commercial", "unknown"}]]
  /\ Selections \subseteq SUBSET DOMAIN Suffix
  /\ MaxVersion \in Nat /\ "registered" \notin Media

VARIABLES
  medium,    \* each medium's file: as acquired, or altered or removed since
  source,    \* the registered source: a file or a directory, and its version
  analyses,  \* media with a stored analysis
  plan,      \* the plans' documents
  links,     \* media plans whose traceability link is stored
  events,    \* plans and kinds of event appended
  imported,  \* what executions brought in
  cmd        \* each command: what it does next, the plan it loaded

vars == <<medium, source, analyses, plan, links, events, imported, cmd>>

Members == DOMAIN Suffix
Collections == {"aminet", "other"}
Modes == {"media-only", "members-only", "media-and-members"}
Statuses == {"draft", "approved", "cancelled"}  \* all that is ever written
Origins == Media \cup {"registered"}
Policies == {"all-safe-members", "aminet-content-and-readmes", "documentation-only",
             "manual-selection"}

PlanDocuments ==
  [from : Origins, version : Nat, selected : SUBSET Members, to : Collections,
   mode : Modes, status : Statuses]

ASSUME NoPlanAssumption == NoPlan \notin PlanDocuments

Steps == {"idle", "approval", "cancellation", "approved", "cancelled", "validate", "import"}
Idle == [at |-> "idle", id |-> NoPlan, copy |-> NoPlan]

TypeOK ==
  /\ medium \in [Media -> {"acquired", "altered"}]
  /\ source \in [kind : {"file", "directory"}, version : 0 .. MaxVersion]
  /\ analyses \subseteq Media
  /\ plan \in [Plans -> PlanDocuments \cup {NoPlan}]
  /\ links \subseteq Plans
  /\ events \subseteq Plans \X {"approval", "cancellation", "execution-start"}
  /\ \A i \in imported :
       i.plan \in Plans /\ i.what \in Members \cup {"medium"} /\ i.to \in Collections \cup {"media"}
  /\ cmd \in [Commands -> [at : Steps, id : Plans \cup {NoPlan}, copy : PlanDocuments \cup {NoPlan}]]
  /\ \A c \in Commands : cmd[c].at # "idle" => cmd[c].id \in Plans /\ cmd[c].copy \in PlanDocuments

Init ==
  /\ medium = [m \in Media |-> "acquired"]
  /\ source \in [kind : {"file", "directory"}, version : {0}]
  /\ analyses = {} /\ links = {} /\ events = {} /\ imported = {}
  /\ plan = [p \in Plans |-> NoPlan]
  /\ cmd = [c \in Commands |-> Idle]

-----------------------------------------------------------------------------
(* The world: files change *)

AlterMedium(m) ==
  /\ medium' = [medium EXCEPT ![m] = "altered"]
  /\ UNCHANGED <<source, analyses, plan, links, events, imported, cmd>>

EditSource ==
  /\ source.version < MaxVersion
  /\ source' = [source EXCEPT !.version = @ + 1]
  /\ UNCHANGED <<medium, analyses, plan, links, events, imported, cmd>>

-----------------------------------------------------------------------------
(* media_analysis.  A medium's identity, path and acquired hashes do not    *)
(* change, so its analysis is a function of the medium.                     *)

Eligible(m) == Image[m].members \ Image[m].unsafe
Candidates(m) == IF Image[m].aminet THEN {"aminet"} ELSE {}

\* mutant: unsafe members do not call for a review
RepeatedOnly(m) == Image[m].repeated

NeedsReview(m) == Image[m].unsafe # {} \/ Image[m].repeated

RecommendedMode(m) ==
  CASE NeedsReview(m) -> "manual-review"
    [] ~NeedsReview(m) /\ Image[m].aminet /\ Image[m].container \in {"zip", "tar", "iso"} ->
         "media-and-members"
    [] OTHER -> IF Image[m].license = "redistributable" THEN "members-only" ELSE "media-only"

\* Refused unless the file still has the hashes it was acquired with.
Analyze(m) ==
  /\ medium[m] = "acquired"
  /\ analyses' = analyses \cup {m}
  /\ UNCHANGED <<medium, source, plan, links, events, imported, cmd>>

-----------------------------------------------------------------------------
(* plan-create and import-plan-from-media *)

Documentation == {".readme", ".txt", ".pdf", ".guide", ".doc"}

Selected(m, policy) ==
  {f \in Eligible(m) :
     /\ policy = "aminet-content-and-readmes" => Suffix[f] \notin {".info", ".nfo"}
     /\ policy = "documentation-only" => Suffix[f] \in Documentation
     /\ policy # "manual-selection"}

NewPlan(p, document) ==
  /\ plan[p] = NoPlan
  /\ plan' = [plan EXCEPT ![p] = document]

CreatePlan(p, selected, mode) ==
  /\ NewPlan(p, [from |-> "registered", version |-> source.version, selected |-> selected,
                 to |-> "other", mode |-> mode, status |-> "draft"])
  /\ UNCHANGED <<medium, source, analyses, links, events, imported, cmd>>

\* mutant: the recommended review is not waited for
PlanOfAny(p, m, policy, collection) ==
  /\ m \in analyses
  /\ Selected(m, policy) # {}
  /\ NewPlan(p, [from |-> m, version |-> 0, selected |-> Selected(m, policy), to |-> collection,
                 mode |-> RecommendedMode(m), status |-> "draft"])
  /\ UNCHANGED <<medium, source, analyses, links, events, imported, cmd>>

\* generate_import_plan and PlanStore.save
PlanFromMedia(p, m, policy, collection) ==
  /\ m \in analyses
  /\ RecommendedMode(m) # "manual-review"
  /\ Selected(m, policy) # {}
  /\ NewPlan(p, [from |-> m, version |-> 0, selected |-> Selected(m, policy), to |-> collection,
                 mode |-> RecommendedMode(m), status |-> "draft"])
  /\ UNCHANGED <<medium, source, analyses, links, events, imported, cmd>>

\* save_link, unless the command ended before it
SaveLink(p) ==
  /\ plan[p] # NoPlan /\ plan[p].from \in Media
  /\ links' = links \cup {p}
  /\ UNCHANGED <<medium, source, analyses, plan, events, imported, cmd>>

-----------------------------------------------------------------------------
(* plan-approve and plan-cancel: load, append the event, save the copy *)

Load(c, p, statuses, next) ==
  /\ cmd[c] = Idle
  /\ plan[p] # NoPlan /\ plan[p].status \in statuses
  /\ cmd' = [cmd EXCEPT ![c] = [at |-> next, id |-> p, copy |-> plan[p]]]
  /\ UNCHANGED <<medium, source, analyses, plan, links, events, imported>>

Approve(c, p) == Load(c, p, {"draft", "approved"}, "approval")
Cancel(c, p)  == Load(c, p, {"draft", "approved"}, "cancellation")

AppendEvent(c) ==
  /\ cmd[c].at \in {"approval", "cancellation"}
  /\ events' = events \cup {<<cmd[c].id, cmd[c].at>>}
  /\ cmd' = [cmd EXCEPT ![c].at = IF @ = "approval" THEN "approved" ELSE "cancelled"]
  /\ UNCHANGED <<medium, source, analyses, plan, links, imported>>

SaveStatus(c) ==
  /\ cmd[c].at \in {"approved", "cancelled"}
  /\ plan' = [plan EXCEPT ![cmd[c].id] = [cmd[c].copy EXCEPT !.status = cmd[c].at]]
  /\ cmd' = [cmd EXCEPT ![c] = Idle]
  /\ UNCHANGED <<medium, source, analyses, links, events, imported>>

-----------------------------------------------------------------------------
(* plan-execute: never changes the plan, so it can be executed again *)

\* mutant: drafts are executed too
ExecuteAny(c, p) == Load(c, p, {"draft", "approved"}, "validate")

Execute(c, p) == Load(c, p, {"approved"}, "validate")

\* mutant: a plan without a link is taken at its word
MediaPlanLooksValid(p, document) ==
  LET m == document.from IN
  /\ medium[m] = "acquired"
  /\ document.to # "aminet" => "aminet" \notin Candidates(m)

\* validate_media_plan
MediaPlanValid(p, document) ==
  LET m == document.from IN
  /\ p \in links /\ m \in analyses
  /\ medium[m] = "acquired"
  /\ document.to # "aminet" => "aminet" \notin Candidates(m)
  /\ document.selected \subseteq Eligible(m)

ExecutionBegins(c) ==
  LET p == cmd[c].id
      document == cmd[c].copy IN
  /\ cmd[c].at = "validate"
  /\ IF document.from \in Media
       THEN MediaPlanValid(p, document) /\ UNCHANGED events
       ELSE /\ document.version = source.version
            /\ IF document.mode = "media-only"
                 THEN source.kind = "file" /\ UNCHANGED events
                 ELSE events' = events \cup {<<p, "execution-start">>}
  /\ cmd' = [cmd EXCEPT ![c].at = "import"]
  /\ UNCHANGED <<medium, source, analyses, plan, links, imported>>

\* An acquired medium's members are imported whatever the plan's mode is.
Brought(p, document) ==
  IF document.from = "registered" /\ document.mode = "media-only"
    THEN {[plan |-> p, what |-> "medium", to |-> "media"]}
    ELSE {[plan |-> p, what |-> f, to |-> document.to] : f \in document.selected}

\* the whole of it, or less when the import fails or is killed
Import(c) ==
  /\ cmd[c].at = "import"
  /\ \E some \in SUBSET Brought(cmd[c].id, cmd[c].copy) : imported' = imported \cup some
  /\ cmd' = [cmd EXCEPT ![c] = Idle]
  /\ UNCHANGED <<medium, source, analyses, plan, links, events>>

\* refused by a check, or killed
End(c) ==
  /\ cmd[c] # Idle
  /\ cmd' = [cmd EXCEPT ![c] = Idle]
  /\ UNCHANGED <<medium, source, analyses, plan, links, events, imported>>

-----------------------------------------------------------------------------
Next ==
  \/ EditSource
  \/ \E m \in Media : AlterMedium(m) \/ Analyze(m)
  \/ \E p \in Plans :
       \/ \E selected \in Selections, mode \in Modes : CreatePlan(p, selected, mode)
       \/ \E m \in Media, policy \in Policies, collection \in Collections :
            PlanFromMedia(p, m, policy, collection)
       \/ SaveLink(p)
       \/ \E c \in Commands : Approve(c, p) \/ Cancel(c, p) \/ Execute(c, p)
  \/ \E c \in Commands :
       AppendEvent(c) \/ SaveStatus(c) \/ ExecutionBegins(c) \/ Import(c) \/ End(c)

Spec == Init /\ [][Next]_vars

-----------------------------------------------------------------------------
(* Properties *)

\* What comes into the archive was approved: the approval is on record, even
\* when approvals, cancellations and executions of a plan race or are killed.
ImportedWasApproved == \A i \in imported : <<i.plan, "approval">> \in events

\* Nothing leaves an acquired medium that has an unsafe member, and what leaves
\* an Aminet medium goes to the Aminet collection, whatever policy and collection
\* the plan was made with and whoever cancelled or approved it meanwhile.
OnlySafeMembers ==
  \A i \in imported :
    LET m == plan[i.plan].from IN
    m \in Media =>
      /\ Image[m].unsafe = {} /\ i.what \in Image[m].members
      /\ Image[m].aminet => i.to = "aminet"

\* What came from a medium can be traced to it: a plan whose link was never
\* written, because its command was killed, imports nothing.
ImportedIsLinked == \A i \in imported : plan[i.plan].from \in Media => i.plan \in links

\* docs/import-workflow.md: commercial and licensed media default to
\* media-only; their members need a mode the operator selects.
MediaOnlyStaysMedia ==
  \A i \in imported : plan[i.plan].mode = "media-only" => i.what = "medium"
=============================================================================
