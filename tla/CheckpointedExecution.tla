------------------------ MODULE CheckpointedExecution ------------------------
(***************************************************************************)
(* What a checkpointed execution promises, whatever its process does: the  *)
(* set of completed actions only grows, an action is completed after those *)
(* it depends on, and the execution is finished once, with nothing left.   *)
(* docs/recovery.md describes it; RecoveryWorkflow implements it.          *)
(***************************************************************************)
CONSTANTS
  Executions,   \* execution ids
  Members,      \* the actions a plan may hold, one per member
  Dependencies  \* actions each action depends on

VARIABLES
  begun,    \* executions that have a document
  goal,     \* actions each one has to complete
  done,     \* actions it has completed
  finished  \* executions that ended well

vars == <<begun, goal, done, finished>>

Init ==
  /\ begun = {}
  /\ goal = [x \in Executions |-> {}]
  /\ done = [x \in Executions |-> {}]
  /\ finished = {}

Begin(x, actions) ==
  /\ x \notin begun
  /\ begun' = begun \cup {x}
  /\ goal' = [goal EXCEPT ![x] = actions]
  /\ UNCHANGED <<done, finished>>

Complete(x, m) ==
  /\ x \in begun \ finished
  /\ m \in goal[x] \ done[x]
  /\ Dependencies[m] \subseteq done[x]
  /\ done' = [done EXCEPT ![x] = @ \cup {m}]
  /\ UNCHANGED <<begun, goal, finished>>

Finish(x) ==
  /\ x \in begun \ finished
  /\ goal[x] \subseteq done[x]
  /\ finished' = finished \cup {x}
  /\ UNCHANGED <<begun, goal, done>>

Next ==
  \E x \in Executions :
    \/ \E actions \in SUBSET Members : Begin(x, actions)
    \/ \E m \in Members : Complete(x, m)
    \/ Finish(x)

Spec == Init /\ [][Next]_vars
=============================================================================
