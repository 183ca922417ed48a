---------------------------- MODULE BlockDataJobs ----------------------------
(***************************************************************************)
(* What the proposal block data retriever promises of each data ID it is   *)
(* asked for: the ID is accepted once, worked on once, and then either     *)
(* becomes ready, once and for good, or is lost for good.  No other data   *)
(* ID is touched by the same step.                                         *)
(***************************************************************************)
CONSTANT Jobs

VARIABLE job    \* the state of each data ID

JobStates == {"none", "working", "ready", "lost"}

Init == job = [j \in Jobs |-> "none"]

Move(j, from, to) ==
    /\ job[j] = from
    /\ job' = [job EXCEPT ![j] = to]

Accept(j) == Move(j, "none", "working")
Finish(j) == Move(j, "working", "ready")
Lose(j) == Move(j, "working", "lost")

Next == \E j \in Jobs : Accept(j) \/ Finish(j) \/ Lose(j)

Spec == Init /\ [][Next]_job

=============================================================================
