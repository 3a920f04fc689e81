------------------------------ MODULE AgentTaskAPI ------------------------------
(***************************************************************************)
(* The AgentTask resource as the operator sees it: the fields of           *)
(* api/v1/agenttask_types.go that the reconciler reads or writes, and the  *)
(* pure part of Reconcile that turns the state of a Pod into the status of *)
(* its task.                                                               *)
(*                                                                         *)
(* Abstractions.  A spec is a member of Specs; two specs are the same spec *)
(* exactly when their sha256 is (calculateSpecHash), so the name of a      *)
(* ConfigMap, task name + hash + "-config", is represented by the spec     *)
(* itself.  Pod names are 1..MaxPods, 0 stands for the empty string.       *)
(* StartedAt and FinishedAt are 0 until the timestamp is set; time passes  *)
(* in whole seconds, which is the resolution of metav1.Time on the wire.   *)
(* CurrentStep, TraceURL and Conditions are written by no code.            *)
(***************************************************************************)
EXTENDS Naturals

CONSTANTS
  Specs,    \* the specs a user may submit or change a task to
  NoSpec,   \* the spec of a task or Pod that does not exist
  MaxPods   \* bound on the Pods ever created

ASSUME APIAssumption ==
  /\ Specs # {}
  /\ NoSpec \notin Specs
  /\ MaxPods \in Nat

PodNames == 1..MaxPods

TerminalPhases == {"Completed", "Failed", "Evicted"}

\* "" is the phase of a task no reconcile has touched.  Checkpointing is
\* declared by the API and set nowhere.
Phases == {"", "Pending", "Provisioning", "Running", "Checkpointing"}
            \cup TerminalPhases

Reasons == {"", "Invalid state", "Pod not found", "Pod completed successfully.",
            "Pod was evicted.", "Pod failed.", "Pod in unexpected phase"}

Statuses == [phase : Phases, podName : {0} \cup PodNames,
             startedAt : Nat, finishedAt : Nat, reason : Reasons]

NoStatus == [phase |-> "", podName |-> 0, startedAt |-> 0,
             finishedAt |-> 0, reason |-> ""]

\* uid tells apart two tasks created one after the other under the same name,
\* rv is the resourceVersion that optimistic concurrency compares.
Tasks == [uid : Nat, rv : Nat, deleting : BOOLEAN,
          spec : Specs \cup {NoSpec}, status : Statuses]

NoTask == [uid |-> 0, rv |-> 0, deleting |-> FALSE, spec |-> NoSpec,
           status |-> NoStatus]

-----------------------------------------------------------------------------
(***************************************************************************)
(* Pods.  "Evicted" is phase Failed with reason Evicted; every other       *)
(* reason is "Failed".  A deleted Pod keeps its last state with            *)
(* live = FALSE, so that a property can say what the Pod had done.         *)
(***************************************************************************)
FinalPodStates == {"Succeeded", "Failed", "Evicted"}

PodStates == {"Pending", "Running", "Unknown"} \cup FinalPodStates

Pods == [live : BOOLEAN, state : PodStates \cup {"None"},
         configMap : Specs \cup {NoSpec}, owner : Nat]

NoPod == [live |-> FALSE, state |-> "None", configMap |-> NoSpec, owner |-> 0]

\* Task name, sha256 of the spec, "-config": one name per spec.
buildConfigMapName(t) == t.spec

\* Of a ConfigMap the name and, with SetControllerReference, the owner are
\* kept: the name determines the contents.
buildConfigMapForAgentTask(t) == t.uid

\* Of the NetworkPolicy the owner is kept: its name and its selector depend on
\* nothing but the name of the task.
buildNetworkPolicy(t) == t.uid

MutantBuildPod(t) ==
  [live |-> TRUE, state |-> "Pending", configMap |-> buildConfigMapName(t),
   owner |-> 0]

\* buildPodForAgentTask plus SetControllerReference: what of the new Pod the
\* rest of the system depends on.  The API server sets the phase to Pending.
buildPodForAgentTask(t) ==
  [live |-> TRUE, state |-> "Pending", configMap |-> buildConfigMapName(t),
   owner |-> t.uid]

-----------------------------------------------------------------------------
(***************************************************************************)
(* The status Reconcile computes at time t.                                *)
(***************************************************************************)
\* if ...StartedAt == nil / if ...FinishedAt == nil: set the timestamp once.
Stamp(old, t) == IF old = 0 THEN t ELSE old

\* A task without a usable Pod: the timestamp is overwritten.
Fail(st, reason, t) ==
  [st EXCEPT !.phase = "Failed", !.reason = reason, !.finishedAt = t]

\* A task whose Pod has ended: the timestamp is kept.
Finish(st, phase, reason, t) ==
  [st EXCEPT !.phase = phase, !.reason = reason,
             !.finishedAt = Stamp(st.finishedAt, t)]

MutantStatusFromPod(st, state, t) ==
  CASE state = "Pending"   -> [st EXCEPT !.phase = "Provisioning"]
    [] state = "Running"   -> [st EXCEPT !.phase = "Running",
                                         !.startedAt = Stamp(st.startedAt, t)]
    [] state = "Succeeded" -> Finish(st, "Completed", "Pod completed successfully.", t)
    [] state \in {"Failed", "Evicted"} -> Finish(st, "Failed", "Pod failed.", t)
    [] OTHER               -> Finish(st, "Failed", "Pod in unexpected phase", t)

StatusFromPod(st, state, t) ==
  CASE state = "Pending"   -> [st EXCEPT !.phase = "Provisioning"]
    [] state = "Running"   -> [st EXCEPT !.phase = "Running",
                                         !.startedAt = Stamp(st.startedAt, t)]
    [] state = "Succeeded" -> Finish(st, "Completed", "Pod completed successfully.", t)
    [] state = "Evicted"   -> Finish(st, "Evicted", "Pod was evicted.", t)
    [] state = "Failed"    -> Finish(st, "Failed", "Pod failed.", t)
    [] OTHER               -> Finish(st, "Failed", "Pod in unexpected phase", t)

=============================================================================
