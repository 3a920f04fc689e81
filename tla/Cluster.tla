--------------------------------- MODULE Cluster ---------------------------------
(***************************************************************************)
(* What surrounds the operator: the objects the API server holds for one   *)
(* AgentTask name, and the actors that change them besides the operator -  *)
(* users, the kubelet and the garbage collector.  None of this is code of  *)
(* the repository; it is modelled from how internal/controller uses it.    *)
(*                                                                         *)
(*   task        the AgentTask, or NoTask                                  *)
(*   uids        how many tasks have been created under this name          *)
(*   configMaps  spec -> uid of the owner of the ConfigMap that holds that *)
(*               spec, 0 where there is no such ConfigMap                  *)
(*   netPol      uid of the owner of <task>-network-policy, 0 if there is  *)
(*               none                                                      *)
(*   pods        Pod name -> Pod                                           *)
(*   podCount    Pods created so far: generateName never reuses a name     *)
(*   edits       changes to, and deletions of, a task so far               *)
(*   now         the wall clock, in seconds (bounded by MaxTime)           *)
(*                                                                         *)
(* cacheTask and mem are the operator's two copies of the task (see module *)
(* AgentTaskController).  They are declared here because resourceVersions  *)
(* are compared for equality only: a new one is any that no copy carries,  *)
(* which keeps the versions finite however often the task is written.      *)
(***************************************************************************)
EXTENDS AgentTaskAPI

CONSTANTS
  MaxTasks,       \* bound on tasks created under the name, one after another
  MaxEdits,       \* bound on edits and deletions of a task and on lost nodes
  MaxTime,        \* bound on the clock
  StatusEdits,    \* whether an administrator may rewrite a task's status
  PodOutcomes,    \* how Pods may end
  NodesMayBeLost  \* whether a node may stop reporting its Pods

ASSUME ClusterAssumption ==
  /\ MaxTasks \in Nat
  /\ MaxEdits \in Nat
  /\ MaxTime \in Nat \ {0}
  /\ StatusEdits \in BOOLEAN
  /\ PodOutcomes \subseteq FinalPodStates
  /\ NodesMayBeLost \in BOOLEAN

VARIABLES task, uids, configMaps, netPol, pods, podCount, edits, now,
          cacheTask, mem

clusterVars ==
  <<task, uids, configMaps, netPol, pods, podCount, edits, now>>

ClusterTypeOK ==
  /\ task \in Tasks
  /\ uids \in 0..MaxTasks
  /\ configMaps \in [Specs -> Nat]
  /\ netPol \in Nat
  /\ pods \in [PodNames -> Pods]
  /\ podCount \in 0..MaxPods
  /\ edits \in 0..MaxEdits
  /\ now \in 1..MaxTime

ClusterInit ==
  /\ task = NoTask
  /\ uids = 0
  /\ configMaps = [s \in Specs |-> 0]
  /\ netPol = 0
  /\ pods = [p \in PodNames |-> NoPod]
  /\ podCount = 0
  /\ edits = 0
  /\ now = 1

\* The owner exists and is not on its way out.
OwnerLive(uid) == uid # 0 /\ task.uid = uid /\ ~task.deleting

NewVersion == CHOOSE r \in 1..4 : r \notin {task.rv, cacheTask.rv, mem.rv}

\* A write to the task: every one gets a new resourceVersion.
WriteTask(t) == task' = [t EXCEPT !.rv = NewVersion]

-----------------------------------------------------------------------------
(***************************************************************************)
(* Users.  A deletion either removes the task at once and leaves its       *)
(* dependents to the garbage collector (background, the default), or marks *)
(* it and removes it after its dependents (foreground).                    *)
(***************************************************************************)
CreateTask(s) ==
  /\ task.uid = 0
  /\ uids < MaxTasks
  /\ uids' = uids + 1
  /\ WriteTask([NoTask EXCEPT !.uid = uids + 1, !.spec = s])
  /\ UNCHANGED <<configMaps, netPol, pods, podCount, edits, now>>

EditSpec(s) ==
  /\ task.uid # 0
  /\ s # task.spec
  /\ edits < MaxEdits
  /\ edits' = edits + 1
  /\ WriteTask([task EXCEPT !.spec = s])
  /\ UNCHANGED <<uids, configMaps, netPol, pods, podCount, now>>

\* The state Reconcile calls invalid: somebody with access to the status
\* subresource has emptied podName.
ClearPodName ==
  /\ StatusEdits
  /\ task.status.podName # 0
  /\ edits < MaxEdits
  /\ edits' = edits + 1
  /\ WriteTask([task EXCEPT !.status.podName = 0])
  /\ UNCHANGED <<uids, configMaps, netPol, pods, podCount, now>>

DeleteTask ==
  /\ task.uid # 0
  /\ edits < MaxEdits
  /\ edits' = edits + 1
  /\ task' = NoTask
  /\ UNCHANGED <<uids, configMaps, netPol, pods, podCount, now>>

DeleteTaskForeground ==
  /\ task.uid # 0
  /\ ~task.deleting
  /\ edits < MaxEdits
  /\ edits' = edits + 1
  /\ WriteTask([task EXCEPT !.deleting = TRUE])
  /\ UNCHANGED <<uids, configMaps, netPol, pods, podCount, now>>

-----------------------------------------------------------------------------
(***************************************************************************)
(* The kubelet.  A Pod starts once its volumes are mounted, which needs    *)
(* the ConfigMap to exist; a Pod that ends between two reports is never    *)
(* reported Running.                                                       *)
(***************************************************************************)
SetPodState(p, state) ==
  /\ pods' = [pods EXCEPT ![p].state = state]
  /\ UNCHANGED <<task, uids, configMaps, netPol, podCount, edits, now>>

StartPod(p) ==
  /\ pods[p].live
  /\ pods[p].state = "Pending"
  /\ configMaps[pods[p].configMap] # 0
  /\ SetPodState(p, "Running")

FinishPod(p, state) ==
  /\ pods[p].live
  /\ \/ pods[p].state \in {"Running", "Unknown"}
     \/ /\ pods[p].state = "Pending"
        /\ state = "Evicted" \/ configMaps[pods[p].configMap] # 0
  /\ SetPodState(p, state)

LoseNode(p) ==
  /\ NodesMayBeLost
  /\ pods[p].live
  /\ pods[p].state = "Running"
  /\ edits < MaxEdits
  /\ edits' = edits + 1
  /\ pods' = [pods EXCEPT ![p].state = "Unknown"]
  /\ UNCHANGED <<task, uids, configMaps, netPol, podCount, now>>

RecoverNode(p) ==
  /\ pods[p].live
  /\ pods[p].state = "Unknown"
  /\ SetPodState(p, "Running")

\* kubectl delete pod, a drained node, the collector of terminated Pods.
DeletePod(p) ==
  /\ pods[p].live
  /\ pods' = [pods EXCEPT ![p].live = FALSE]
  /\ UNCHANGED <<task, uids, configMaps, netPol, podCount, edits, now>>

-----------------------------------------------------------------------------
(***************************************************************************)
(* The garbage collector removes what is owned by a task that is gone or   *)
(* is being deleted in the foreground; it compares uids, not names.        *)
(***************************************************************************)
Orphaned(owner) == owner # 0 /\ ~OwnerLive(owner)

CollectConfigMap(s) ==
  /\ Orphaned(configMaps[s])
  /\ configMaps' = [configMaps EXCEPT ![s] = 0]
  /\ UNCHANGED <<task, uids, netPol, pods, podCount, edits, now>>

CollectNetworkPolicy ==
  /\ Orphaned(netPol)
  /\ netPol' = 0
  /\ UNCHANGED <<task, uids, configMaps, pods, podCount, edits, now>>

CollectPod(p) ==
  /\ pods[p].live
  /\ Orphaned(pods[p].owner)
  /\ pods' = [pods EXCEPT ![p].live = FALSE]
  /\ UNCHANGED <<task, uids, configMaps, netPol, podCount, edits, now>>

FinishDeletion ==
  /\ task.deleting
  /\ netPol # task.uid
  /\ \A s \in Specs : configMaps[s] # task.uid
  /\ \A p \in PodNames : pods[p].live => pods[p].owner # task.uid
  /\ task' = NoTask
  /\ UNCHANGED <<uids, configMaps, netPol, pods, podCount, edits, now>>

-----------------------------------------------------------------------------
Users ==
  \/ \E s \in Specs : CreateTask(s) \/ EditSpec(s)
  \/ ClearPodName
  \/ DeleteTask
  \/ DeleteTaskForeground

Kubelet ==
  \E p \in PodNames :
    \/ StartPod(p)
    \/ \E state \in PodOutcomes : FinishPod(p, state)
    \/ LoseNode(p)
    \/ RecoverNode(p)
    \/ DeletePod(p)

GarbageCollector ==
  \/ \E s \in Specs : CollectConfigMap(s)
  \/ CollectNetworkPolicy
  \/ \E p \in PodNames : CollectPod(p)
  \/ FinishDeletion

\* The clock advances on its own.
Tick ==
  /\ now < MaxTime
  /\ now' = now + 1
  /\ UNCHANGED <<task, uids, configMaps, netPol, pods, podCount, edits>>

ClusterNext == Users \/ Kubelet \/ GarbageCollector \/ Tick

=============================================================================
