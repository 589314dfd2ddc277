--------------------------- MODULE MCTaskPipeline ---------------------------
(* Instances of TaskPipeline for TLC. *)
EXTENDS TaskPipeline, TLC

Policy == {"stop", "continue"}

OneStep == [{0} -> Policy]

TwoSteps == [{0, 1} -> Policy]

OneOrTwoSteps == OneStep \cup TwoSteps

Symmetry == Permutations(Task)

\* The two tasks are the steps of a pipeline of two, or the step of a pipeline of
\* one and a single task beside it; a task that is cancelled is the only one.
\* Only requests are held back, no action that is fair.
LeavesRoom ==
    /\ pipeline \in TwoSteps => \A t \in Task : Fresh(t) \/ stepOf[t] # NoStep
    /\ \A t \in Task : can[t] # "none" =>
          pipeline \in OneStep /\ \A u \in Task \ {t} : Fresh(u)

RoomSpec == Init /\ [][Next /\ LeavesRoom']_vars /\ Fairness
=============================================================================
