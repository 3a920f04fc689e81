------------------------------- MODULE MCOperator -------------------------------
(***************************************************************************)
(* Instances of AgentTaskController for TLC, and the claims that README.md *)
(* makes about the operator and that the code does not keep.               *)
(***************************************************************************)
EXTENDS LifecycleRefinement

CONSTANTS specA, specB

OneSpec  == {specA}
TwoSpecs == {specA, specB}

NoOutcome        == {}
Succeed          == {"Succeeded"}
OnlyFail         == {"Failed"}
SucceedOrEvicted == {"Succeeded", "Evicted"}

NoFaults   == {}
StaleReads == {"stale"}
AllFaults  == {"stale", "refused", "lostReply", "crash"}

\* README.md:89, "Each AgentTask becomes one pod".  Violated: a Reconcile that
\* reads the task from a cache that does not show podName yet creates another
\* Pod; its status update meets a conflict, but the Pod stays and runs.
AtMostOnePod ==
  \A p, q \in PodNames :
    /\ pods[p].live /\ OwnerLive(pods[p].owner)
    /\ pods[q].live /\ OwnerLive(pods[q].owner)
    => p = q

=============================================================================
