------------------------------ MODULE Sessions ------------------------------
(***************************************************************************)
(* Supervised emulator sessions (scripts/emulation/sessions.py): one       *)
(* process per session takes the runtime's advisory lock, writes the       *)
(* session document, starts the emulator, waits for it across signals and  *)
(* I/O errors, and gives the lock back.                                    *)
(*                                                                         *)
(* The kernel releases a flock when its process ends, however it ends; the *)
(* emulator inherits neither the lock nor its supervisor's fate.  A signal *)
(* that Python turns into KeyboardInterrupt is no Exception: outside the   *)
(* inner try it passes every handler but the one that unlocks.             *)
(***************************************************************************)
EXTENDS Naturals, FiniteSets

CONSTANTS
  Sessions,  \* session ids: numbers, because ids sort by time of creation
  Nobody,    \* no session
  NoFile     \* the lock file does not exist

ASSUME SessionsAssumption == Sessions \subseteq Nat /\ {Nobody, NoFile} \cap Nat = {} /\ Nobody # NoFile

VARIABLES
  lock,     \* session whose supervisor has the exclusive flock
  metadata, \* contents of appliance.lock: NoFile, Nobody when empty, or a session id
  probing,  \* session-status has the shared flock
  doc,      \* state in each session's state.json
  child,    \* each session's emulator
  holder,   \* session whose supervisor took the lock last (an auxiliary variable)
  pc        \* what its supervisor does next

vars == <<lock, metadata, probing, doc, child, holder, pc>>

ActiveStates == {"preparing", "ready", "running"}
FinalStates == {"exited", "failed", "interrupted"}
ValidTransitions ==
  [s \in ActiveStates |->
    CASE s = "preparing" -> {"ready", "failed"}
      [] s = "ready"     -> {"running", "failed"}
      [] s = "running"   -> FinalStates]

Alive == {"alive", "asked", "killed"}  \* asked: SIGTERM was sent
Exits == {"zero", "nonzero"}

Trying == {"holding", "prepared", "ready", "spawned", "started"}  \* launch_session's outer try
Waiting == {"waiting", "saved", "terminating", "killing"}         \* its inner try
Leaving == {"failing", "recorded", "closing", "unlocking"}
Locked == {"locked", "truncated"} \cup Trying \cup Waiting \cup Leaving
Ended == {"done", "dead", "refused"}

TypeOK ==
  /\ lock \in Sessions \cup {Nobody}
  /\ metadata \in Sessions \cup {Nobody, NoFile}
  /\ probing \in BOOLEAN
  /\ doc \in [Sessions -> {"none"} \cup ActiveStates \cup FinalStates]
  /\ child \in [Sessions -> {"none"} \cup Alive \cup Exits]
  /\ holder \in Sessions \cup {Nobody}
  /\ pc \in [Sessions -> {"planned"} \cup Locked \cup Ended]

Init ==
  /\ lock = Nobody
  /\ metadata = NoFile
  /\ probing = FALSE
  /\ doc = [s \in Sessions |-> "none"]
  /\ child = [s \in Sessions |-> "none"]
  /\ holder = Nobody
  /\ pc = [s \in Sessions |-> "planned"]

Step(s, from, to) == pc[s] = from /\ pc' = [pc EXCEPT ![s] = to]
\* SessionStore.transition: the document changes as the table allows
Save(s, state) ==
  /\ state \in ValidTransitions[doc[s]]
  /\ doc' = [doc EXCEPT ![s] = state]
Running(s) == child[s] \in Alive

-----------------------------------------------------------------------------
(* Taking the lock *)

Created == IF metadata = NoFile THEN Nobody ELSE metadata  \* open("a+")

\* mutant: the lock file's metadata is trusted, not the flock
AcquireUnlessNamed(s) ==
  /\ Step(s, "planned", "locked")
  /\ metadata \in {NoFile, Nobody} /\ ~probing
  /\ lock' = s /\ holder' = s
  /\ metadata' = Created
  /\ UNCHANGED <<probing, doc, child>>

Acquire(s) ==
  /\ Step(s, "planned", "locked")
  /\ lock = Nobody /\ ~probing
  /\ lock' = s /\ holder' = s
  /\ metadata' = Created
  /\ UNCHANGED <<probing, doc, child>>

Conflict(s) ==
  /\ Step(s, "planned", "refused")
  /\ lock # Nobody \/ probing
  /\ metadata' = Created
  /\ UNCHANGED <<lock, probing, doc, child, holder>>

Truncate(s) ==
  /\ Step(s, "locked", "truncated")
  /\ metadata' = Nobody
  /\ UNCHANGED <<lock, probing, doc, child, holder>>

WriteMetadata(s) ==
  /\ Step(s, "truncated", "holding")
  /\ metadata' = s
  /\ UNCHANGED <<lock, probing, doc, child, holder>>

-----------------------------------------------------------------------------
(* A session that goes well *)

Prepare(s) ==
  /\ Step(s, "holding", "prepared")
  /\ doc' = [doc EXCEPT ![s] = "preparing"]
  /\ UNCHANGED <<lock, metadata, probing, child, holder>>

Render(s) ==
  /\ Step(s, "prepared", "ready")
  /\ Save(s, "ready")
  /\ UNCHANGED <<lock, metadata, probing, child, holder>>

Spawn(s) ==
  /\ Step(s, "ready", "spawned")
  /\ child' = [child EXCEPT ![s] = "alive"]
  /\ UNCHANGED <<lock, metadata, probing, doc, holder>>

MarkRunning(s) ==
  /\ Step(s, "spawned", "started")
  /\ Save(s, "running")
  /\ UNCHANGED <<lock, metadata, probing, child, holder>>

\* From here SIGTERM is handled like Ctrl-C.
InstallHandler(s) ==
  /\ Step(s, "started", "waiting")
  /\ UNCHANGED <<lock, metadata, probing, doc, child, holder>>

\* mutant: the exit code is saved for the state
SaveExitCode(s) ==
  /\ child[s] \in Exits
  /\ Step(s, "waiting", "saved")
  /\ doc' = [doc EXCEPT ![s] = child[s]]
  /\ UNCHANGED <<lock, metadata, probing, child, holder>>

\* The outcome is on disk before the supervisor's variable holds it.
SaveOutcome(s) ==
  /\ child[s] \in Exits
  /\ Step(s, "waiting", "saved")
  /\ Save(s, IF child[s] = "zero" THEN "exited" ELSE "failed")
  /\ UNCHANGED <<lock, metadata, probing, child, holder>>

Return(s) ==
  /\ pc[s] \in {"saved", "recorded"}
  /\ Step(s, pc[s], "closing")
  /\ UNCHANGED <<lock, metadata, probing, doc, child, holder>>

-----------------------------------------------------------------------------
(* Ctrl-C or SIGTERM while the supervisor waits *)

Interrupt(s) ==
  /\ pc[s] \in {"waiting", "saved"}
  /\ Step(s, pc[s], "terminating")
  /\ child' = [child EXCEPT ![s] = IF Running(s) THEN "asked" ELSE @]
  /\ UNCHANGED <<lock, metadata, probing, doc, holder>>

\* mutant: the supervisor waits for as long as it takes
NeverTimesOut(s) == FALSE

TimeOut(s) ==
  /\ Running(s)
  /\ Step(s, "terminating", "killing")
  /\ child' = [child EXCEPT ![s] = "killed"]
  /\ UNCHANGED <<lock, metadata, probing, doc, holder>>

\* mutant: the emulator is not waited for
SaveInterruptedAtOnce(s) ==
  /\ pc[s] \in {"terminating", "killing"}
  /\ Step(s, pc[s], "recorded")
  /\ doc' = [doc EXCEPT ![s] = "interrupted"]
  /\ UNCHANGED <<lock, metadata, probing, child, holder>>

\* The transition is checked against the supervisor's variable, which still
\* says running, also when the document already holds the outcome.
SaveInterrupted(s) ==
  /\ pc[s] \in {"terminating", "killing"} /\ ~Running(s)
  /\ Step(s, pc[s], "recorded")
  /\ doc' = [doc EXCEPT ![s] = "interrupted"]
  /\ UNCHANGED <<lock, metadata, probing, child, holder>>

\* Everywhere else KeyboardInterrupt runs into the finally that unlocks.
InterruptElsewhere(s) ==
  /\ pc[s] \in Trying \cup {"terminating", "killing", "failing", "recorded"}
  /\ Step(s, pc[s], "unlocking")
  /\ UNCHANGED <<lock, metadata, probing, doc, child, holder>>

-----------------------------------------------------------------------------
(* An I/O error: except Exception *)

Fail(s) ==
  /\ \/ pc[s] \in Trying \cup {"waiting"}
     \/ pc[s] \in {"terminating", "killing"} /\ ~Running(s)  \* saving the outcome
  /\ Step(s, pc[s], "failing")
  /\ child' = [child EXCEPT ![s] = IF Running(s) THEN "asked" ELSE @]
  /\ UNCHANGED <<lock, metadata, probing, doc, holder>>

SaveFailed(s) ==
  /\ Step(s, "failing", "recorded")
  /\ doc' = [doc EXCEPT ![s] = "failed"]
  /\ UNCHANGED <<lock, metadata, probing, child, holder>>

SaveFailedFails(s) ==
  /\ Step(s, "failing", "unlocking")
  /\ UNCHANGED <<lock, metadata, probing, doc, child, holder>>

-----------------------------------------------------------------------------
(* finally *)

\* Only a final state truncates the metadata.
ClearMetadata(s) ==
  /\ Step(s, "closing", "unlocking")
  /\ metadata' = Nobody
  /\ UNCHANGED <<lock, probing, doc, child, holder>>

\* mutant: the metadata goes whatever became of the session
UnlockAndClear(s) ==
  /\ Step(s, "unlocking", "done")
  /\ lock' = Nobody
  /\ metadata' = Nobody
  /\ UNCHANGED <<probing, doc, child, holder>>

Unlock(s) ==
  /\ Step(s, "unlocking", "done")
  /\ lock' = Nobody
  /\ UNCHANGED <<metadata, probing, doc, child, holder>>

-----------------------------------------------------------------------------
(* The world around a supervisor *)

\* SIGKILL, SIGTERM without the handler, or an error outside the try: the
\* kernel takes the lock back and the emulator keeps running.
Crash(s) ==
  /\ pc[s] \in Locked
  /\ Step(s, pc[s], "dead")
  /\ lock' = Nobody
  /\ UNCHANGED <<metadata, probing, doc, child, holder>>

EmulatorExits(s) ==
  /\ Running(s)
  /\ \E code \in Exits :
       /\ child[s] = "killed" => code = "nonzero"
       /\ child' = [child EXCEPT ![s] = code]
  /\ UNCHANGED <<lock, metadata, probing, doc, pc, holder>>

\* session-status probes with a shared flock, which a launch cannot tell
\* from a session.
Probe ==
  /\ ~probing /\ lock = Nobody /\ metadata # NoFile
  /\ probing' = TRUE
  /\ UNCHANGED <<lock, metadata, doc, child, pc, holder>>

ProbeEnds ==
  /\ probing
  /\ probing' = FALSE
  /\ UNCHANGED <<lock, metadata, doc, child, pc, holder>>

-----------------------------------------------------------------------------
Supervise(s) ==
  \/ Truncate(s) \/ WriteMetadata(s) \/ Prepare(s) \/ Render(s) \/ Spawn(s) \/ MarkRunning(s)
  \/ InstallHandler(s) \/ SaveOutcome(s) \/ Return(s) \/ TimeOut(s) \/ SaveInterrupted(s)
  \/ SaveFailed(s) \/ SaveFailedFails(s) \/ ClearMetadata(s) \/ Unlock(s)

Next ==
  \/ \E s \in Sessions :
       \/ Acquire(s) \/ Conflict(s) \/ Supervise(s)
       \/ Interrupt(s) \/ InterruptElsewhere(s) \/ Fail(s) \/ Crash(s) \/ EmulatorExits(s)
  \/ Probe \/ ProbeEnds

\* A supervisor that runs is scheduled, and a killed process dies.  Nothing
\* makes an emulator exit by itself.
Fairness ==
  \A s \in Sessions :
    /\ WF_vars(Supervise(s))
    /\ WF_vars(child[s] = "killed" /\ EmulatorExits(s))

Spec == Init /\ [][Next]_vars /\ Fairness

-----------------------------------------------------------------------------
(* Properties *)

\* Whoever is between acquire and unlock has the flock, however the others
\* crashed, failed or were interrupted: at most one supervisor per runtime.
Exclusion == \A s \in Sessions : pc[s] \in Locked <=> lock = s

\* A session recorded as exited or interrupted has no emulator left running,
\* whatever signals came while it ended.  (A failed one may: the error path
\* asks the emulator to stop and does not wait.)
EndedMeansStopped ==
  \A s \in Sessions : doc[s] \in {"exited", "interrupted"} => ~Running(s)

Recent == CHOOSE s \in Sessions :
  doc[s] # "none" /\ \A t \in Sessions : doc[t] # "none" => t <= s
\* session_status, asked while nothing else happens
StaleOrIncomplete ==
  /\ lock = Nobody
  /\ \/ metadata \in Sessions
     \/ (\E s \in Sessions : doc[s] # "none") /\ doc[Recent] \in ActiveStates

\* A session that ended without its outcome on disk is reported stale or
\* incomplete until another launch takes the lock, also when a session with a
\* later id, hence with the most recent document, ran and ended before it.
AbandonedIsReported ==
  lock = Nobody /\ holder # Nobody /\ doc[holder] \in ActiveStates => StaleOrIncomplete

\* A supervisor asked to stop while it waits gives the lock back, also when
\* the emulator ignores SIGTERM or a second signal comes.
StopFreesTheLock ==
  \A s \in Sessions : pc[s] \in {"terminating", "killing"} ~> lock # s

\* docs/emulator-profiles.md: a document moves only from preparing to ready
\* to running and then to one final state.
MovesAsDocumented ==
  [][\A s \in Sessions :
       doc'[s] # doc[s] =>
         \/ doc[s] = "none"
         \/ doc[s] \in ActiveStates /\ doc'[s] \in ValidTransitions[doc[s]]]_vars
=============================================================================
