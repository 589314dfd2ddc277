---------------------------- MODULE TaskReports ----------------------------
(***************************************************************************)
(* What the server may rely on about the status reports of one agent: the  *)
(* abstract specification TaskExecutor implements.  Of each task it keeps  *)
(* only the last report.  A task reports "running" at most once, any       *)
(* number of cancellations after it, and then at most one verdict, after   *)
(* which it is silent for good.                                            *)
(***************************************************************************)
CONSTANT Task

VARIABLE last

Verdict == {"completed", "failed", "timeout"}

Init == last = [t \in Task |-> "none"]

Report(t, from, to) ==
    /\ last[t] \in from
    /\ last' = [last EXCEPT ![t] = to]

\* The process was started.
Start(t) == Report(t, {"none"}, "running")

\* It never started.
Refuse(t) == Report(t, {"none"}, "failed")

\* An operator's cancellation reached it.
Cancelled(t) == Report(t, {"running", "cancelled"}, "cancelled")

\* The one verdict.  It may follow a cancellation.
Conclude(t) == \E v \in Verdict : Report(t, {"running", "cancelled"}, v)

Next == \E t \in Task : Start(t) \/ Refuse(t) \/ Cancelled(t) \/ Conclude(t)

Spec == Init /\ [][Next]_last
=============================================================================
