--------------------------- MODULE SessionsProofs ---------------------------
(***************************************************************************)
(* Type correctness and mutual exclusion of the supervisors, that an ended *)
(* session has no emulator left and that an abandoned one is reported, for *)
(* any number of sessions.                                                 *)
(***************************************************************************)
EXTENDS Sessions, TLAPS

\* Between an exit and its record the emulator is gone; once an outcome is
\* recorded nothing starts another one.
Outcome ==
  \A s \in Sessions :
    /\ pc[s] = "saved" => ~Running(s)
    /\ pc[s] \in {"planned", "locked", "truncated", "holding", "prepared", "ready"} =>
         doc[s] \notin FinalStates /\ child[s] = "none"
    /\ pc[s] = "spawned" => doc[s] \notin FinalStates
    /\ pc[s] \in {"started", "waiting"} => doc[s] = "running"
IInv == TypeOK /\ Exclusion /\ Outcome /\ EndedMeansStopped

USE SessionsAssumption

LEMMA InitHolds == Init => IInv
  BY DEF Init, IInv, TypeOK, Exclusion, Outcome, EndedMeansStopped, Running, Alive, Locked,
         Trying, Waiting, Leaving, FinalStates

\* One step per action, those of one shape together.
LEMMA StepKeeps == IInv /\ [Next]_vars => IInv'
<1> SUFFICES ASSUME IInv, [Next]_vars PROVE IInv'
  OBVIOUS
<1> USE DEF IInv, Alive, Exits, Trying, Waiting, Leaving, Locked, Ended, ActiveStates, FinalStates
<1>1. ASSUME NEW s \in Sessions, Acquire(s) \/ Conflict(s) PROVE IInv'
  BY <1>1 DEF Acquire, Conflict, Created, Step, TypeOK, Exclusion, Outcome, EndedMeansStopped, Running
<1>2. ASSUME NEW s \in Sessions, Truncate(s) \/ WriteMetadata(s) PROVE IInv'
  BY <1>2 DEF Truncate, WriteMetadata, Step, TypeOK, Exclusion, Outcome, EndedMeansStopped, Running
<1>3. ASSUME NEW s \in Sessions, Prepare(s) PROVE IInv'
  BY <1>3 DEF Prepare, Step, TypeOK, Exclusion, Outcome, EndedMeansStopped, Running
<1>4. ASSUME NEW s \in Sessions, Render(s) PROVE IInv'
  BY <1>4 DEF Render, Save, ValidTransitions, Step, TypeOK, Exclusion, Outcome, EndedMeansStopped, Running
<1>5. ASSUME NEW s \in Sessions, Spawn(s) PROVE IInv'
  BY <1>5 DEF Spawn, Step, TypeOK, Exclusion, Outcome, EndedMeansStopped, Running
<1>6. ASSUME NEW s \in Sessions, MarkRunning(s) PROVE IInv'
  BY <1>6 DEF MarkRunning, Save, ValidTransitions, Step, TypeOK, Exclusion, Outcome, EndedMeansStopped, Running
<1>7. ASSUME NEW s \in Sessions, InstallHandler(s) PROVE IInv'
  BY <1>7 DEF InstallHandler, Step, TypeOK, Exclusion, Outcome, EndedMeansStopped, Running
<1>8. ASSUME NEW s \in Sessions, SaveOutcome(s) PROVE IInv'
  BY <1>8 DEF SaveOutcome, Save, ValidTransitions, Step, TypeOK, Exclusion, Outcome, EndedMeansStopped, Running
<1>9. ASSUME NEW s \in Sessions, Return(s) PROVE IInv'
  BY <1>9 DEF Return, Step, TypeOK, Exclusion, Outcome, EndedMeansStopped, Running
<1>10. ASSUME NEW s \in Sessions, Interrupt(s) PROVE IInv'
  BY <1>10 DEF Interrupt, Step, TypeOK, Exclusion, Outcome, EndedMeansStopped, Running
<1>11. ASSUME NEW s \in Sessions, TimeOut(s) PROVE IInv'
  BY <1>11 DEF TimeOut, Step, TypeOK, Exclusion, Outcome, EndedMeansStopped, Running
<1>12. ASSUME NEW s \in Sessions, SaveInterrupted(s) PROVE IInv'
  BY <1>12 DEF SaveInterrupted, Step, TypeOK, Exclusion, Outcome, EndedMeansStopped, Running
<1>13. ASSUME NEW s \in Sessions, InterruptElsewhere(s) PROVE IInv'
  BY <1>13 DEF InterruptElsewhere, Step, TypeOK, Exclusion, Outcome, EndedMeansStopped, Running
<1>14. ASSUME NEW s \in Sessions, Fail(s) PROVE IInv'
  BY <1>14 DEF Fail, Step, TypeOK, Exclusion, Outcome, EndedMeansStopped, Running
<1>15. ASSUME NEW s \in Sessions, SaveFailed(s) \/ SaveFailedFails(s) PROVE IInv'
  BY <1>15 DEF SaveFailed, SaveFailedFails, Step, TypeOK, Exclusion, Outcome, EndedMeansStopped, Running
<1>16. ASSUME NEW s \in Sessions, ClearMetadata(s) \/ Unlock(s) PROVE IInv'
  BY <1>16 DEF ClearMetadata, Unlock, Step, TypeOK, Exclusion, Outcome, EndedMeansStopped, Running
<1>17. ASSUME NEW s \in Sessions, Crash(s) PROVE IInv'
  BY <1>17 DEF Crash, Step, TypeOK, Exclusion, Outcome, EndedMeansStopped, Running
<1>18. ASSUME NEW s \in Sessions, EmulatorExits(s) PROVE IInv'
  BY <1>18 DEF EmulatorExits, TypeOK, Exclusion, Outcome, EndedMeansStopped, Running
<1>19. CASE Probe \/ ProbeEnds
  BY <1>19 DEF Probe, ProbeEnds, TypeOK, Exclusion, Outcome, EndedMeansStopped, Running
<1>20. CASE UNCHANGED vars
  BY <1>20 DEF vars, TypeOK, Exclusion, Outcome, EndedMeansStopped, Running
<1>21. QED
  BY <1>1, <1>2, <1>3, <1>4, <1>5, <1>6, <1>7, <1>8, <1>9, <1>10, <1>11, <1>12, <1>13, <1>14, <1>15,
     <1>16, <1>17, <1>18, <1>19, <1>20 DEF Next, Supervise

\* However supervisors crash, fail, are interrupted or meet a status probe,
\* whoever is between acquire and unlock has the flock (sessions.py:142-148, :297).
THEOREM OneSupervisor == Spec => []Exclusion
<1>1. IInv => Exclusion
  BY DEF IInv
<1>2. QED
  BY <1>1, InitHolds, StepKeeps, PTL DEF Spec

\* A session recorded as exited or interrupted has no emulator running
\* (sessions.py:258-276).
THEOREM EndedSessionsAreStopped == Spec => []EndedMeansStopped
<1>1. IInv => EndedMeansStopped
  BY DEF IInv
<1>2. QED
  BY <1>1, InitHolds, StepKeeps, PTL DEF Spec

\* Type correctness of lock file, session documents, emulators and program
\* counters (sessions.py:23-29, :142-157).
THEOREM TypesAlways == Spec => []TypeOK
<1>1. IInv => TypeOK
  BY DEF IInv
<1>2. QED
  BY <1>1, InitHolds, StepKeeps, PTL DEF Spec
-----------------------------------------------------------------------------
(* The lock file's metadata.  While the document of the last one to hold    *)
(* the lock is active, the metadata names it: it is written before the      *)
(* document, and cleared after the document is final.                       *)

Named ==
  /\ lock # Nobody => holder = lock
  /\ \A s \in Sessions :
       /\ pc[s] \in {"planned", "locked", "truncated", "holding", "refused"} => doc[s] = "none"
       /\ pc[s] \in {"saved", "recorded", "closing"} => doc[s] \in FinalStates
       /\ pc[s] \in Trying => metadata = s
       /\ holder = s /\ doc[s] \in ActiveStates => metadata = s

LEMMA InitIsNamed == Init => Named
  BY DEF Init, Named, Trying, Waiting, ActiveStates, FinalStates

LEMMA StepKeepsNamed == IInv /\ Named /\ [Next]_vars => Named'
<1> SUFFICES ASSUME IInv, Named, [Next]_vars PROVE Named'
  OBVIOUS
<1> USE DEF IInv, Alive, Exits, Trying, Waiting, Leaving, Locked, Ended, ActiveStates, FinalStates
<1>1. ASSUME NEW s \in Sessions, Acquire(s) PROVE Named'
  BY <1>1 DEF Acquire, Created, Step, TypeOK, Exclusion, Named
<1>2. ASSUME NEW s \in Sessions, Conflict(s) PROVE Named'
  BY <1>2 DEF Conflict, Created, Step, TypeOK, Exclusion, Named
<1>3. ASSUME NEW s \in Sessions, Truncate(s) \/ WriteMetadata(s) PROVE Named'
  BY <1>3 DEF Truncate, WriteMetadata, Step, TypeOK, Exclusion, Named
<1>4. ASSUME NEW s \in Sessions, Prepare(s) PROVE Named'
  BY <1>4 DEF Prepare, Step, TypeOK, Exclusion, Named
<1>5. ASSUME NEW s \in Sessions, Render(s) \/ MarkRunning(s) PROVE Named'
  BY <1>5 DEF Render, MarkRunning, Save, ValidTransitions, Step, TypeOK, Exclusion, Named
<1>6. ASSUME NEW s \in Sessions, Spawn(s) \/ InstallHandler(s) PROVE Named'
  BY <1>6 DEF Spawn, InstallHandler, Step, TypeOK, Exclusion, Named
<1>7. ASSUME NEW s \in Sessions, SaveOutcome(s) PROVE Named'
  BY <1>7 DEF SaveOutcome, Save, ValidTransitions, Step, TypeOK, Exclusion, Outcome, Named
<1>8. ASSUME NEW s \in Sessions, Return(s) \/ Interrupt(s) \/ TimeOut(s) PROVE Named'
  BY <1>8 DEF Return, Interrupt, TimeOut, Step, TypeOK, Exclusion, Named
<1>9. ASSUME NEW s \in Sessions, SaveInterrupted(s) \/ SaveFailed(s) PROVE Named'
  BY <1>9 DEF SaveInterrupted, SaveFailed, Step, TypeOK, Exclusion, Named
<1>10. ASSUME NEW s \in Sessions, InterruptElsewhere(s) \/ Fail(s) \/ SaveFailedFails(s) PROVE Named'
  BY <1>10 DEF InterruptElsewhere, Fail, SaveFailedFails, Step, TypeOK, Exclusion, Named
<1>11. ASSUME NEW s \in Sessions, ClearMetadata(s) PROVE Named'
  BY <1>11 DEF ClearMetadata, Step, TypeOK, Exclusion, Named
<1>12. ASSUME NEW s \in Sessions, Unlock(s) \/ Crash(s) PROVE Named'
  BY <1>12 DEF Unlock, Crash, Step, TypeOK, Exclusion, Named
<1>13. ASSUME NEW s \in Sessions, EmulatorExits(s) PROVE Named'
  BY <1>13 DEF EmulatorExits, TypeOK, Named
<1>14. CASE Probe \/ ProbeEnds \/ UNCHANGED vars
  BY <1>14 DEF Probe, ProbeEnds, vars, TypeOK, Named
<1>15. QED
  BY <1>1, <1>2, <1>3, <1>4, <1>5, <1>6, <1>7, <1>8, <1>9, <1>10, <1>11, <1>12, <1>13, <1>14
  DEF Next, Supervise

\* A session that ended without its outcome on disk, however its supervisor
\* went, is reported until another launch takes the lock: by the metadata,
\* whichever document is the most recent (sessions.py:150-156, :301-308).
THEOREM AbandonedSessionsAreReported == Spec => []AbandonedIsReported
<1>1. IInv /\ Named => AbandonedIsReported
  BY DEF IInv, TypeOK, Named, AbandonedIsReported, StaleOrIncomplete
<1>2. Init => IInv /\ Named
  BY InitHolds, InitIsNamed
<1>3. IInv /\ Named /\ [Next]_vars => IInv' /\ Named'
  BY StepKeeps, StepKeepsNamed
<1>4. QED
  BY <1>1, <1>2, <1>3, PTL DEF Spec
=============================================================================
