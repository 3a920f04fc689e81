---------------------------- MODULE AgentTaskController ----------------------------
(***************************************************************************)
(* The AgentTask operator (internal/controller): Reconcile, run by one     *)
(* worker, over the cluster of module Cluster.                             *)
(*                                                                         *)
(* r.Get reads informer caches, which lag behind the API server; r.Create  *)
(* and r.Status().Update go to the API server.  The state between two API  *)
(* calls of one Reconcile is pc (the call that comes next) and mem (the    *)
(* local variable agenttask, a copy taken from the cache).  The workqueue  *)
(* holds at most one entry for the name (queued).                          *)
(*                                                                         *)
(* faults counts what goes wrong: a Reconcile that starts to create a Pod  *)
(* from a stale copy ("stale"), an API call that fails ("refused") or that *)
(* succeeds and answers with an error ("lostReply"), a crash of the        *)
(* operator ("crash").                                                     *)
(***************************************************************************)
EXTENDS Cluster

CONSTANTS
  MaxFaults,  \* bound on the faults
  FaultKinds  \* the faults that may happen

ASSUME FaultAssumption ==
  /\ MaxFaults \in Nat
  /\ FaultKinds \subseteq {"stale", "refused", "lostReply", "crash"}

VARIABLES queued, pc, cachePods, cacheConfigMaps, cacheNetPol, faults

workerVars == <<queued, pc, mem>>
cacheVars  == <<cacheTask, cachePods, cacheConfigMaps, cacheNetPol>>
vars       == <<clusterVars, workerVars, cacheVars, faults>>

PCs == {"idle", "ensureConfigMap", "ensureNetworkPolicy", "createPod", "getPod",
        "updateStatus"}

\* The type invariant.
TypeOK ==
  /\ ClusterTypeOK
  /\ queued \in BOOLEAN
  /\ pc \in PCs
  /\ mem \in Tasks
  /\ cacheTask \in Tasks
  /\ cachePods \in [PodNames -> Pods]
  /\ cacheConfigMaps \in [Specs -> Nat]
  /\ cacheNetPol \in Nat
  /\ faults \in 0..MaxFaults

Init ==
  /\ ClusterInit
  /\ queued = FALSE
  /\ pc = "idle"
  /\ mem = NoTask
  /\ cacheTask = NoTask
  /\ cachePods = [p \in PodNames |-> NoPod]
  /\ cacheConfigMaps = [s \in Specs |-> 0]
  /\ cacheNetPol = 0
  /\ faults = 0

Disturb(kind) ==
  /\ kind \in FaultKinds
  /\ faults < MaxFaults
  /\ faults' = faults + 1

-----------------------------------------------------------------------------
(***************************************************************************)
(* Control flow of Reconcile.                                              *)
(***************************************************************************)
\* The worker takes the request from the queue and reads the task.
Dequeue ==
  /\ pc = "idle"
  /\ queued

Continue(next, t) ==
  /\ pc' = next
  /\ mem' = t

\* return ctrl.Result{}, nil.
Return == Continue("idle", NoTask)

\* return ctrl.Result{}, err: the request goes back to the queue.
ReturnError ==
  /\ Return
  /\ queued' = TRUE

\* The answer to an API call that had its effect: the worker continues with
\* next, or is told that the call failed.
Reply(next, t) ==
  \/ Continue(next, t) /\ UNCHANGED <<queued, faults>>
  \/ Disturb("lostReply") /\ ReturnError

-----------------------------------------------------------------------------
(***************************************************************************)
(* Reconcile up to its first API call, one action per branch.              *)
(***************************************************************************)
ReconcileGone ==
  /\ Dequeue
  /\ cacheTask.uid = 0
  /\ queued' = FALSE
  /\ UNCHANGED <<clusterVars, pc, mem, cacheVars, faults>>

ReconcileDeleting ==
  /\ Dequeue
  /\ cacheTask.uid # 0
  /\ cacheTask.deleting
  /\ queued' = FALSE
  /\ UNCHANGED <<clusterVars, pc, mem, cacheVars, faults>>

\* The branches below start from a task that exists and is not being deleted.
Active == Dequeue /\ cacheTask.uid # 0 /\ ~cacheTask.deleting

ReconcileUninitialised ==
  /\ Active
  /\ cacheTask.status.phase = ""
  /\ queued' = FALSE
  /\ Continue("updateStatus", [cacheTask EXCEPT !.status.phase = "Pending",
                                                !.status.podName = 0])
  /\ UNCHANGED <<clusterVars, cacheVars, faults>>

MutantReconcilePending ==
  /\ Active
  /\ cacheTask.status.phase \in {"Pending", "Failed"}
  /\ cacheTask.status.podName = 0
  /\ queued' = FALSE
  /\ Continue("ensureConfigMap", cacheTask)
  /\ IF cacheTask = task THEN UNCHANGED faults ELSE Disturb("stale")
  /\ UNCHANGED <<clusterVars, cacheVars>>

ReconcilePending ==
  /\ Active
  /\ cacheTask.status.phase = "Pending"
  /\ cacheTask.status.podName = 0
  /\ queued' = FALSE
  /\ Continue("ensureConfigMap", cacheTask)
  /\ IF cacheTask = task THEN UNCHANGED faults ELSE Disturb("stale")
  /\ UNCHANGED <<clusterVars, cacheVars>>

MutantReconcileInvalid ==
  /\ Active
  /\ cacheTask.status.phase \notin {"", "Pending"}
  /\ cacheTask.status.podName = 0
  /\ queued' = FALSE
  /\ UNCHANGED <<clusterVars, pc, mem, cacheVars, faults>>

ReconcileInvalid ==
  /\ Active
  /\ cacheTask.status.phase \notin {"", "Pending"}
  /\ cacheTask.status.podName = 0
  /\ queued' = FALSE
  /\ Continue("updateStatus",
              [cacheTask EXCEPT !.status = Fail(@, "Invalid state", now)])
  /\ UNCHANGED <<clusterVars, cacheVars, faults>>

ReconcileBound ==
  /\ Active
  /\ cacheTask.status.phase # ""
  /\ cacheTask.status.podName # 0
  /\ queued' = FALSE
  /\ Continue("getPod", cacheTask)
  /\ UNCHANGED <<clusterVars, cacheVars, faults>>

-----------------------------------------------------------------------------
(***************************************************************************)
(* The path of a Pending task: ConfigMap, NetworkPolicy, Pod.  Get looks   *)
(* in the cache; Create is refused when the object exists.                 *)
(***************************************************************************)
ConfigMapCached ==
  /\ pc = "ensureConfigMap"
  /\ cacheConfigMaps[buildConfigMapName(mem)] # 0
  /\ Continue("ensureNetworkPolicy", mem)
  /\ UNCHANGED <<clusterVars, queued, cacheVars, faults>>

CreateConfigMap ==
  /\ pc = "ensureConfigMap"
  /\ cacheConfigMaps[buildConfigMapName(mem)] = 0
  /\ configMaps[buildConfigMapName(mem)] = 0
  /\ configMaps' = [configMaps EXCEPT ![buildConfigMapName(mem)] =
                                             buildConfigMapForAgentTask(mem)]
  /\ Reply("ensureNetworkPolicy", mem)
  /\ UNCHANGED <<task, uids, netPol, pods, podCount, edits, now, cacheVars>>

MutantConfigMapAlreadyExists ==
  /\ pc = "ensureConfigMap"
  /\ cacheConfigMaps[buildConfigMapName(mem)] = 0
  /\ configMaps[buildConfigMapName(mem)] # 0
  /\ Return
  /\ UNCHANGED <<clusterVars, queued, cacheVars, faults>>

ConfigMapAlreadyExists ==
  /\ pc = "ensureConfigMap"
  /\ cacheConfigMaps[buildConfigMapName(mem)] = 0
  /\ configMaps[buildConfigMapName(mem)] # 0
  /\ ReturnError
  /\ UNCHANGED <<clusterVars, cacheVars, faults>>

MutantNetworkPolicyCached ==
  /\ pc = "ensureNetworkPolicy"
  /\ Continue("createPod", mem)
  /\ UNCHANGED <<clusterVars, queued, cacheVars, faults>>

NetworkPolicyCached ==
  /\ pc = "ensureNetworkPolicy"
  /\ cacheNetPol # 0
  /\ Continue("createPod", mem)
  /\ UNCHANGED <<clusterVars, queued, cacheVars, faults>>

CreateNetworkPolicy ==
  /\ pc = "ensureNetworkPolicy"
  /\ cacheNetPol = 0
  /\ netPol = 0
  /\ netPol' = buildNetworkPolicy(mem)
  /\ Reply("createPod", mem)
  /\ UNCHANGED <<task, uids, configMaps, pods, podCount, edits, now, cacheVars>>

NetworkPolicyAlreadyExists ==
  /\ pc = "ensureNetworkPolicy"
  /\ cacheNetPol = 0
  /\ netPol # 0
  /\ ReturnError
  /\ UNCHANGED <<clusterVars, cacheVars, faults>>

MutantCreatePod ==
  /\ pc = "createPod"
  /\ podCount < MaxPods
  /\ podCount' = podCount + 1
  /\ pods' = [pods EXCEPT ![podCount + 1] = buildPodForAgentTask(mem)]
  /\ Reply("updateStatus", [mem EXCEPT !.status.podName = podCount + 2,
                                       !.status.phase = "Provisioning"])
  /\ UNCHANGED <<task, uids, configMaps, netPol, edits, now, cacheVars>>

CreatePod ==
  /\ pc = "createPod"
  /\ podCount < MaxPods
  /\ podCount' = podCount + 1
  /\ pods' = [pods EXCEPT ![podCount + 1] = buildPodForAgentTask(mem)]
  /\ Reply("updateStatus", [mem EXCEPT !.status.podName = podCount + 1,
                                       !.status.phase = "Provisioning"])
  /\ UNCHANGED <<task, uids, configMaps, netPol, edits, now, cacheVars>>

-----------------------------------------------------------------------------
(***************************************************************************)
(* The path of a task that has a Pod.                                      *)
(***************************************************************************)
cachedPod == cachePods[mem.status.podName]

MutantPodNotFound ==
  /\ pc = "getPod"
  /\ ~cachedPod.live
  /\ Continue("updateStatus", [mem EXCEPT !.status = Fail(@, "Pod not found", now)])
  /\ UNCHANGED <<clusterVars, queued, cacheVars, faults>>

PodNotFound ==
  /\ pc = "getPod"
  /\ ~cachedPod.live
  /\ IF mem.status.phase \in TerminalPhases
     THEN Return
     ELSE Continue("updateStatus", [mem EXCEPT !.status = Fail(@, "Pod not found", now)])
  /\ UNCHANGED <<clusterVars, queued, cacheVars, faults>>

\* A Pod in an unexpected phase always leads to an update, the others only to
\* one that changes something.
PodFound ==
  /\ pc = "getPod"
  /\ cachedPod.live
  /\ LET status == StatusFromPod(mem.status, cachedPod.state, now)
     IN  IF status # mem.status \/ cachedPod.state = "Unknown"
         THEN Continue("updateStatus", [mem EXCEPT !.status = status])
         ELSE Return
  /\ UNCHANGED <<clusterVars, queued, cacheVars, faults>>

-----------------------------------------------------------------------------
(***************************************************************************)
(* r.Status().Update: the API server takes the new status if the task is   *)
(* still the version that was read, and gives it a new version if the      *)
(* status differs from the stored one.                                     *)
(***************************************************************************)
\* The object in mem is the stored one, so the update meets no conflict.
Current == task.uid # 0 /\ task.rv = mem.rv

MutantUpdateStatus ==
  /\ pc = "updateStatus"
  /\ task.uid # 0
  /\ IF task.status = mem.status
     THEN UNCHANGED task
     ELSE WriteTask([task EXCEPT !.status = mem.status])
  /\ Reply("idle", NoTask)
  /\ UNCHANGED <<uids, configMaps, netPol, pods, podCount, edits, now, cacheVars>>

UpdateStatus ==
  /\ pc = "updateStatus"
  /\ Current
  /\ IF task.status = mem.status
     THEN UNCHANGED task
     ELSE WriteTask([task EXCEPT !.status = mem.status])
  /\ Reply("idle", NoTask)
  /\ UNCHANGED <<uids, configMaps, netPol, pods, podCount, edits, now, cacheVars>>

UpdateConflict ==
  /\ pc = "updateStatus"
  /\ ~Current
  /\ ReturnError
  /\ UNCHANGED <<clusterVars, cacheVars, faults>>

\* Any API call fails without effect: connection, timeout, quota.
CallRefused ==
  /\ pc # "idle"
  /\ Disturb("refused")
  /\ ReturnError
  /\ UNCHANGED <<clusterVars, cacheVars>>

-----------------------------------------------------------------------------
(***************************************************************************)
(* SetupWithManager: the watches that feed the caches and the queue.       *)
(* ConfigMaps and NetworkPolicies are cached because they are read, but no *)
(* event of theirs enqueues a request.                                     *)
(***************************************************************************)
MutantSyncTask ==
  /\ cacheTask # task
  /\ cacheTask' = task
  /\ queued' = (queued \/ cacheTask.uid # task.uid \/ cacheTask.spec # task.spec)
  /\ UNCHANGED <<clusterVars, pc, mem, cachePods, cacheConfigMaps, cacheNetPol, faults>>

\* For(&AgentTask{}): every event, status updates included.
SyncTask ==
  /\ cacheTask # task
  /\ cacheTask' = task
  /\ queued' = TRUE
  /\ UNCHANGED <<clusterVars, pc, mem, cachePods, cacheConfigMaps, cacheNetPol, faults>>

\* What a list or a watch shows of a Pod: nothing once it is deleted.
Listed(pod) == IF pod.live THEN pod ELSE NoPod

MutantSyncPod(p) ==
  /\ cachePods[p] # Listed(pods[p])
  /\ cachePods' = [cachePods EXCEPT ![p] = Listed(pods[p])]
  /\ UNCHANGED <<clusterVars, workerVars, cacheTask, cacheConfigMaps, cacheNetPol, faults>>

\* Watches(&Pod{}, EnqueueRequestForOwner): by the name of the owner.
SyncPod(p) ==
  /\ cachePods[p] # Listed(pods[p])
  /\ cachePods' = [cachePods EXCEPT ![p] = Listed(pods[p])]
  /\ queued' = (queued \/ pods[p].owner # 0)
  /\ UNCHANGED <<clusterVars, pc, mem, cacheTask, cacheConfigMaps, cacheNetPol, faults>>

SyncConfigMaps ==
  /\ cacheConfigMaps # configMaps
  /\ cacheConfigMaps' = configMaps
  /\ UNCHANGED <<clusterVars, workerVars, cacheTask, cachePods, cacheNetPol, faults>>

SyncNetworkPolicy ==
  /\ cacheNetPol # netPol
  /\ cacheNetPol' = netPol
  /\ UNCHANGED <<clusterVars, workerVars, cacheTask, cachePods, cacheConfigMaps, faults>>

\* The operator is killed and starts again: what it held in memory is lost,
\* the caches are filled by a list and every listed object is an event.
Restart ==
  /\ Disturb("crash")
  /\ Return
  /\ queued' = (task.uid # 0 \/ \E p \in PodNames : pods[p].live /\ pods[p].owner # 0)
  /\ cacheTask' = task
  /\ cachePods' = [p \in PodNames |-> Listed(pods[p])]
  /\ cacheConfigMaps' = configMaps
  /\ cacheNetPol' = netPol
  /\ UNCHANGED clusterVars

-----------------------------------------------------------------------------
Reconcile ==
  \/ ReconcileGone \/ ReconcileDeleting \/ ReconcileUninitialised
  \/ ReconcilePending \/ ReconcileInvalid \/ ReconcileBound
  \/ ConfigMapCached \/ CreateConfigMap \/ ConfigMapAlreadyExists
  \/ NetworkPolicyCached \/ CreateNetworkPolicy \/ NetworkPolicyAlreadyExists
  \/ CreatePod \/ PodNotFound \/ PodFound
  \/ UpdateStatus \/ UpdateConflict \/ CallRefused

Sync ==
  \/ SyncTask
  \/ \E p \in PodNames : SyncPod(p)
  \/ SyncConfigMaps
  \/ SyncNetworkPolicy

Next ==
  \/ Reconcile
  \/ Sync
  \/ Restart
  \/ ClusterNext /\ UNCHANGED <<workerVars, cacheVars, faults>>

Spec == Init /\ [][Next]_vars

\* What the runtime keeps doing: the worker serves the queue and its API calls
\* are answered, every watch delivers, the garbage collector collects.
\* Nothing is assumed of users, of Pods ending or of faults.
Fairness ==
  /\ WF_vars(Reconcile)
  /\ WF_vars(SyncTask)
  /\ \A p \in PodNames : WF_vars(SyncPod(p))
  /\ WF_vars(SyncConfigMaps)
  /\ WF_vars(SyncNetworkPolicy)
  /\ WF_vars(GarbageCollector /\ UNCHANGED <<workerVars, cacheVars, faults>>)

FairSpec == Spec /\ Fairness

-----------------------------------------------------------------------------
(***************************************************************************)
(* Safety.                                                                 *)
(***************************************************************************)
\* What the status of t says of the Pod it names, among the Pods ps, is or has
\* been true of that Pod.
Truthful(t, ps) ==
  LET st  == t.status
      pod == ps[st.podName]
  IN  st.podName # 0 =>
        /\ pod.owner = t.uid
        /\ st.phase \notin {"", "Pending"}
        /\ st.phase = "Running" \/ st.startedAt # 0 => pod.state # "Pending"
        /\ st.phase = "Completed" => pod.state = "Succeeded"
        /\ st.phase = "Evicted" => pod.state = "Evicted"
        /\ st.phase = "Failed" /\ st.reason = "Pod failed." => pod.state = "Failed"
        /\ st.phase \in TerminalPhases => st.finishedAt # 0

\* The status of the task is never ahead of its Pod, and its Pod is its own:
\* whatever the caches showed, a conflict or a crash interrupted, the name in
\* status.podName is a Pod created for this very task (not for an earlier one
\* of the same name), a task is Running or has a StartedAt only if that Pod
\* ran, and an outcome taken from the Pod is the Pod's outcome.
StatusTruthful == task.uid # 0 => Truthful(task, pods)

\* A task is bound to one Pod once: podName is only ever set on the step from
\* Pending to Provisioning, never changed to another Pod, and a task that has
\* left Pending does not come back to it, so a stale or duplicated Reconcile
\* cannot move the task to the second Pod it created.
BoundOnce ==
  [][task.uid # 0 /\ task'.uid = task.uid =>
       /\ task.status.podName # 0 =>
            task'.status.podName \in {0, task.status.podName}
       /\ task.status.podName = 0 /\ task'.status.podName # 0 =>
            task.status.phase = "Pending" /\ task'.status.phase = "Provisioning"
       /\ task'.status.phase = "Pending" => task.status.phase \in {"", "Pending"}]_vars

\* An outcome that was read from the Pod is final: once the status carries one
\* no later Reconcile, whatever old state of the task or of the Pod it read,
\* changes any field of it.
OutcomeIsFinal ==
  [][/\ task.uid # 0
     /\ task'.uid = task.uid
     /\ task.status.reason \in {"Pod completed successfully.", "Pod was evicted.",
                                "Pod failed."}
     => task'.status = task.status]_vars

\* No Pod of a live task is without its egress restriction or its task.yaml:
\* ensureConfigMapForPod and ensureNetworkPolicyForPod come before r.Create,
\* and what they rely on is still there when the Pod is.  This covers every
\* Pod of the task, also one that no status names.
DependenciesPresent ==
  \A p \in PodNames : pods[p].live /\ OwnerLive(pods[p].owner) =>
    /\ netPol # 0
    /\ configMaps[pods[p].configMap] # 0

-----------------------------------------------------------------------------
(***************************************************************************)
(* Liveness, under Fairness.                                               *)
(***************************************************************************)
\* Every task that waits for its Pod gets one recorded in its status, unless
\* it is deleted: the worker survives conflicts, objects left by an earlier task
\* of the same name, failed calls and crashes, as long as there are finitely
\* many of them.
SubmittedTaskGetsPod ==
  \A u \in 1..MaxTasks :
    (task.uid = u /\ ~task.deleting /\ task.status.phase \in {"", "Pending"})
      ~> (task.status.podName # 0 \/ task.uid # u \/ task.deleting)

\* The end of a task's Pod is noticed: when the Pod named in the status has
\* ended or was deleted, the task reaches a terminal phase, and while the Pod
\* exists the one that tells its outcome, unless the task stops naming it.
OutcomeReported ==
  \A p \in PodNames :
    (/\ task.status.podName = p
     /\ pods[p].state \in FinalPodStates \/ ~pods[p].live)
      ~> \/ ~OwnerLive(pods[p].owner) \/ task.status.podName # p
         \/ ~pods[p].live /\ task.status.phase \in TerminalPhases
         \/ /\ pods[p].live
            /\ task.status.phase = StatusFromPod(task.status, pods[p].state, now).phase

\* A task whose podName was emptied does not linger: it is declared failed
\* with the reason "Invalid state".
InvalidTaskFails ==
  (task.status.podName = 0 /\ task.status.phase \notin {"", "Pending"})
    ~> \/ task.uid = 0 \/ task.deleting
       \/ task.status.phase = "Failed" /\ task.status.reason = "Invalid state"

\* Nothing outlives a deleted task: when the name stays unused, its Pods,
\* ConfigMaps and NetworkPolicy are gone in the end, including those that a
\* Reconcile in flight creates after the deletion.
DependentsCollected ==
  <>[](task.uid = 0) =>
    <>[](/\ netPol = 0
         /\ \A s \in Specs : configMaps[s] = 0
         /\ \A p \in PodNames : ~pods[p].live)

=============================================================================
