--------------------------- MODULE LifecycleRefinement ---------------------------
(***************************************************************************)
(* AgentTaskController implements TaskLifecycle.  The reported outcome is  *)
(* read off the reason, the one field of a status that only the end of a   *)
(* Pod sets to these values; a Pod keeps its owner and its end when it is  *)
(* deleted.                                                                *)
(***************************************************************************)
EXTENDS AgentTaskController

ReportedOutcome(st) ==
  CASE st.reason = "Pod completed successfully." -> "Succeeded"
    [] st.reason = "Pod was evicted."            -> "Evicted"
    [] st.reason = "Pod failed."                 -> "Failed"
    [] OTHER                                     -> "None"

LifeOf(t) ==
  [uid     |-> t.uid,
   phase   |-> t.status.phase,
   podName |-> t.status.podName,
   ran     |-> t.status.startedAt # 0,
   outcome |-> ReportedOutcome(t.status)]

OwnerOf(ps) == [p \in PodNames |-> ps[p].owner]

FateOf(ps) ==
  [p \in PodNames |-> IF ps[p].state \in FinalPodStates THEN ps[p].state ELSE "None"]

Lifecycle ==
  INSTANCE TaskLifecycle WITH
    life <- LifeOf(task), owner <- OwnerOf(pods), fate <- FateOf(pods)

\* Seen from outside, a task goes through the lifecycle of TaskLifecycle and
\* nothing else: whatever the caches show, whichever API call fails and
\* whenever the operator is restarted (Reconcile, agenttask_controller.go:59-304).
ImplementsLifecycle == Lifecycle!Spec

=============================================================================
