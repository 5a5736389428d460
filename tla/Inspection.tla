----------------------------- MODULE Inspection -----------------------------
(***************************************************************************)
(* Resumable metadata inspection of an external source                     *)
(* (scripts/preservation/external/checks.py, snapshots.py and the          *)
(* external-source-* commands): pages are fetched one by one, each one is  *)
(* checkpointed in a file of its own, and the check's document counts what *)
(* the checkpoints hold.  The events appended beside them, which nothing   *)
(* reads, are left out.                                                    *)
(*                                                                         *)
(* Nothing locks a check: any number of commands may resume or cancel it,  *)
(* each over the copy of the document it loaded.  Every document and every *)
(* checkpoint is written whole (atomic_write); a command may end between   *)
(* any two of these writes.  An upstream page holds one item.              *)
(***************************************************************************)
EXTENDS Naturals, FiniteSets, FiniteSetsExt

CONSTANTS
  Commands,  \* external-source-resume and -cancel invocations at one time
  MaxPages,  \* safety limit of inspect_resumable
  MaxTotal,  \* most pages the collection grows to
  NoCheck    \* the check has no document

ASSUME InspectionAssumption == MaxPages \in Nat \ {0} /\ MaxTotal \in Nat \ {0}

VARIABLES
  check,        \* the check's document: its status and the items it counts
  checkpoints,  \* number of items in each page stored
  total,        \* pages of the collection
  before,       \* pages it had when the check was planned
  cmd           \* each command: what it does next, and what it holds

vars == <<check, checkpoints, total, before, cmd>>

Closed == {"completed", "cancelled"}  \* nothing writes "completed-with-warnings"
Statuses == Closed \cup {"planned", "requesting", "normalizing", "checkpointing", "finalizing",
                         "interrupted", "failed"}

Documents == [status : Statuses, counted : Nat]

ASSUME NoCheckAssumption == NoCheck \notin Documents

\* inside the try of inspect_resumable
Guarded == {"fetch", "normalize", "save", "count", "finalize", "complete"}
Steps == {"idle", "request", "list", "compare", "next", "cancel"} \cup Guarded

\* counted: of the copy of the document, which every update replaces but for
\* its status; page and seen: the page to ask for and those not to ask for;
\* items and last: what the provider answered
Idle == [at |-> "idle", counted |-> 0, page |-> 0, seen |-> {}, items |-> 0, last |-> FALSE]

Stored == DOMAIN checkpoints

TypeOK ==
  /\ check = NoCheck \/ check \in Documents
  /\ Stored \subseteq 1 .. MaxPages /\ \A p \in Stored : checkpoints[p] \in {0, 1}
  /\ total \in 1 .. MaxTotal /\ before \in 0 .. total
  /\ cmd \in [Commands -> [at : Steps, counted : Nat, page : 0 .. MaxPages + 1,
                           seen : SUBSET (0 .. MaxPages), items : {0, 1}, last : BOOLEAN]]

Init ==
  /\ check = NoCheck
  /\ checkpoints = [p \in {} |-> 0]
  /\ total \in 1 .. MaxTotal /\ before = 0
  /\ cmd = [c \in Commands |-> Idle]

At(c, s) == cmd[c].at = s
Become(c, next) == cmd' = [cmd EXCEPT ![c] = next]
Go(c, s) == Become(c, [cmd[c] EXCEPT !.at = s])

\* InspectionStore.update: the copy, changed, becomes the document
Update(c, status) == check' = [status |-> status, counted |-> cmd[c].counted]

-----------------------------------------------------------------------------
(* The collection grows; new_check is saved under an id of its own.  (What  *)
(* external-source-check writes cannot be loaded as an InspectionCheck.)    *)

Grow ==
  /\ total < MaxTotal
  /\ total' = total + 1
  /\ UNCHANGED <<check, checkpoints, before, cmd>>

Plan ==
  /\ check = NoCheck
  /\ check' = [status |-> "planned", counted |-> 0]
  /\ before' = total
  /\ UNCHANGED <<checkpoints, total, cmd>>

-----------------------------------------------------------------------------
(* inspect_resumable *)

\* load the document, refuse a closed one
Load(c, next) ==
  /\ At(c, "idle")
  /\ check # NoCheck /\ check.status \notin Closed
  /\ Become(c, [Idle EXCEPT !.at = next, !.counted = check.counted])
  /\ UNCHANGED <<check, checkpoints, total, before>>

Resume(c) == Load(c, "request")

Request(c) ==
  /\ At(c, "request")
  /\ Update(c, "requesting") /\ Go(c, "list")
  /\ UNCHANGED <<checkpoints, total, before>>

\* mutant: starts at the page stored last
ListFromLast(c) ==
  /\ At(c, "list")
  /\ Become(c, [cmd[c] EXCEPT !.at = "compare", !.page = Max(Stored \cup {0})])
  /\ UNCHANGED <<check, checkpoints, total, before>>

ListPages(c) ==
  /\ At(c, "list")
  /\ Become(c, [cmd[c] EXCEPT !.at = "compare", !.page = Max(Stored \cup {0}) + 1])
  /\ UNCHANGED <<check, checkpoints, total, before>>

ListSeen(c) ==
  /\ At(c, "compare")
  /\ Become(c, [cmd[c] EXCEPT !.at = "next", !.seen = Stored])
  /\ UNCHANGED <<check, checkpoints, total, before>>

\* "repeated pagination page detected" leaves the document as it is.
NextPage(c) ==
  /\ At(c, "next") /\ cmd[c].page <= MaxPages
  /\ IF cmd[c].page \in cmd[c].seen THEN Become(c, Idle) ELSE Go(c, "fetch")
  /\ UNCHANGED <<check, checkpoints, total, before>>

GiveUp(c) ==
  /\ At(c, "next") /\ cmd[c].page > MaxPages
  /\ Update(c, "failed") /\ Become(c, Idle)
  /\ UNCHANGED <<checkpoints, total, before>>

\* mutant: the page before the last one ends the inspection
EndsEarly(n) == n + 1 >= total

\* provider.inspect
IsLast(n) == n >= total

Fetch(c) ==
  /\ At(c, "fetch")
  /\ Become(c, [cmd[c] EXCEPT !.at = "normalize", !.last = IsLast(cmd[c].page),
                              !.items = IF cmd[c].page <= total THEN 1 ELSE 0])
  /\ UNCHANGED <<check, checkpoints, total, before>>

Normalize(c) ==
  /\ At(c, "normalize")
  /\ Update(c, "normalizing") /\ Go(c, "save")
  /\ UNCHANGED <<checkpoints, total, before>>

SavePage(c) ==
  /\ At(c, "save")
  /\ checkpoints' = [p \in Stored \cup {cmd[c].page} |->
                       IF p = cmd[c].page THEN cmd[c].items ELSE checkpoints[p]]
  /\ Go(c, "count")
  /\ UNCHANGED <<check, total, before>>

\* mutant: the page is neither left behind nor remembered
SamePage(k) == [k EXCEPT !.at = "next"]

Advance(k) == [k EXCEPT !.at = "next", !.page = @ + 1, !.seen = @ \cup {k.page}]

Count(c) ==
  LET sum == cmd[c].counted + cmd[c].items
      k   == [cmd[c] EXCEPT !.counted = sum] IN
  /\ At(c, "count")
  /\ check' = [status |-> "checkpointing", counted |-> sum]
  /\ Become(c, IF k.last THEN [k EXCEPT !.at = "finalize"] ELSE Advance(k))
  /\ UNCHANGED <<checkpoints, total, before>>

Finalize(c) ==
  /\ At(c, "finalize")
  /\ Update(c, "finalizing") /\ Go(c, "complete")
  /\ UNCHANGED <<checkpoints, total, before>>

Complete(c) ==
  /\ At(c, "complete")
  /\ Update(c, "completed") /\ Become(c, Idle)
  /\ UNCHANGED <<checkpoints, total, before>>

\* mutant: a page that fails is asked for again at once
RetryAtOnce(c) ==
  /\ cmd[c].at \in Guarded
  /\ Update(c, "interrupted") /\ Go(c, "fetch")
  /\ UNCHANGED <<checkpoints, total, before>>

\* TimeoutError or OSError, of the provider or of a write
Interrupt(c) ==
  /\ cmd[c].at \in Guarded
  /\ Update(c, "interrupted") /\ Become(c, Idle)
  /\ UNCHANGED <<checkpoints, total, before>>

\* killed, or any other exception
Crash(c) ==
  /\ ~At(c, "idle")
  /\ Become(c, Idle)
  /\ UNCHANGED <<check, checkpoints, total, before>>

\* external-source-cancel
Cancel(c) == Load(c, "cancel")

SaveCancelled(c) ==
  /\ At(c, "cancel")
  /\ Update(c, "cancelled") /\ Become(c, Idle)
  /\ UNCHANGED <<checkpoints, total, before>>

Work(c) ==
  \/ Request(c) \/ ListPages(c) \/ ListSeen(c) \/ NextPage(c) \/ GiveUp(c)
  \/ Fetch(c) \/ Normalize(c) \/ SavePage(c) \/ Count(c)
  \/ Finalize(c) \/ Complete(c) \/ SaveCancelled(c)

Next ==
  \/ Grow \/ Plan
  \/ \E c \in Commands : Resume(c) \/ Cancel(c) \/ Work(c) \/ Interrupt(c) \/ Crash(c)

Spec == Init /\ [][Next]_vars /\ \A c \in Commands : WF_vars(Work(c))

-----------------------------------------------------------------------------
(* Properties *)

\* However often a check is interrupted, killed, resumed by two commands at
\* once or cancelled, and whatever the collection does meanwhile, no page is
\* counted twice: a page holds one item at most.
CountedOnce == check # NoCheck => check.counted <= Cardinality(Stored)

\* A completed check has a checkpoint for every page the collection had when
\* it was planned, whichever commands wrote them, and none is left out.
CompletedIsWhole ==
  check # NoCheck /\ check.status = "completed" =>
    1 .. before \subseteq Stored /\ \A p \in Stored : 1 .. p \subseteq Stored

\* A command that keeps running ends: it neither asks for one page for ever
\* nor follows a growing collection past the limit.
CommandsEnd == \A c \in Commands : ~At(c, "idle") ~> At(c, "idle")

\* docs/external-sources.md: a cancelled check is not mistaken for a completed one.
CancelledStays ==
  [][check # NoCheck /\ check.status = "cancelled" => check'.status = "cancelled"]_check

=============================================================================
