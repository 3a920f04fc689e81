------------------------- MODULE AgentTaskControllerProofs -------------------------
(***************************************************************************)
(* Theorems about AgentTaskController, for every set of specs and every    *)
(* bound on tasks, Pods, edits, time and faults.                           *)
(***************************************************************************)
EXTENDS AgentTaskController, TLAPS

-----------------------------------------------------------------------------
(***************************************************************************)
(* Types.                                                                  *)
(***************************************************************************)
\* The computed statuses are statuses, and what is not touched is kept.
LEMMA StatusTypes ==
  ASSUME NEW st \in Statuses, NEW t \in Nat, NEW state, NEW reason \in Reasons
  PROVE  /\ StatusFromPod(st, state, t) \in Statuses
         /\ StatusFromPod(st, state, t).podName = st.podName
         /\ Fail(st, reason, t) \in Statuses
         /\ Fail(st, reason, t).podName = st.podName
  BY DEF Statuses, StatusFromPod, Fail, Finish, Stamp, Phases, Reasons, TerminalPhases

\* The values that stand for "nothing" are typed.
LEMMA NothingTypes ==
  /\ NoTask \in Tasks
  /\ NoPod \in Pods
  BY DEF NoTask, Tasks, NoStatus, Statuses, Phases, Reasons, NoPod, Pods

\* A new resourceVersion differs from that of every copy of the task.
LEMMA NewVersionFresh ==
  /\ NewVersion \in 1..4
  /\ NewVersion \notin {task.rv, cacheTask.rv, mem.rv}
<1>1. \E r \in 1..4 : r \notin {task.rv, cacheTask.rv, mem.rv}
  <2>1. \/ 1 \notin {task.rv, cacheTask.rv, mem.rv}
        \/ 2 \notin {task.rv, cacheTask.rv, mem.rv}
        \/ 3 \notin {task.rv, cacheTask.rv, mem.rv}
        \/ 4 \notin {task.rv, cacheTask.rv, mem.rv}
    OBVIOUS
  <2> QED BY <2>1
<1> QED BY <1>1 DEF NewVersion

\* The initial state is typed.
LEMMA InitTyped == Init => TypeOK
<1> SUFFICES ASSUME Init PROVE TypeOK
  OBVIOUS
<1>1. ClusterTypeOK
  <2>1. 0 \in 0..MaxTasks /\ 0 \in 0..MaxPods /\ 0 \in 0..MaxEdits /\ 1 \in 1..MaxTime
    BY APIAssumption, ClusterAssumption
  <2> QED BY <2>1, NothingTypes DEF Init, ClusterInit, ClusterTypeOK
<1>2. faults \in 0..MaxFaults
  BY FaultAssumption DEF Init
<1> QED BY <1>1, <1>2, NothingTypes DEF Init, TypeOK, PCs

\* Writing a typed task keeps the task typed.
LEMMA WriteTaskTyped ==
  ASSUME NEW t \in Tasks, WriteTask(t)
  PROVE  task' \in Tasks /\ task' = [t EXCEPT !.rv = NewVersion]
  BY NewVersionFresh DEF WriteTask, Tasks

\* What the rest of the cluster does keeps the types.
LEMMA ClusterTyped ==
  ASSUME TypeOK, ClusterNext
  PROVE  ClusterTypeOK'
<1> USE DEF TypeOK, ClusterTypeOK
<1>1. ASSUME NEW s \in Specs, CreateTask(s) PROVE ClusterTypeOK'
  <2>1. uids + 1 \in 0..MaxTasks /\ uids + 1 \in Nat
    BY <1>1, ClusterAssumption DEF CreateTask
  <2>2. [NoTask EXCEPT !.uid = uids + 1, !.spec = s] \in Tasks
    BY <2>1, NothingTypes DEF Tasks
  <2> QED BY <1>1, <2>1, <2>2, WriteTaskTyped DEF CreateTask
<1>2. ASSUME NEW s \in Specs, EditSpec(s) PROVE ClusterTypeOK'
  <2>1. [task EXCEPT !.spec = s] \in Tasks
    BY DEF Tasks
  <2> QED BY <1>2, <2>1, WriteTaskTyped, ClusterAssumption DEF EditSpec
<1>3. ASSUME ClearPodName PROVE ClusterTypeOK'
  <2>1. [task EXCEPT !.status.podName = 0] \in Tasks
    BY DEF Tasks, Statuses
  <2> QED BY <1>3, <2>1, WriteTaskTyped, ClusterAssumption DEF ClearPodName
<1>4. ASSUME DeleteTask PROVE ClusterTypeOK'
  BY <1>4, NothingTypes, ClusterAssumption DEF DeleteTask
<1>5. ASSUME DeleteTaskForeground PROVE ClusterTypeOK'
  <2>1. [task EXCEPT !.deleting = TRUE] \in Tasks
    BY DEF Tasks
  <2> QED BY <1>5, <2>1, WriteTaskTyped, ClusterAssumption DEF DeleteTaskForeground
<1>6. ASSUME NEW p \in PodNames, NEW state \in PodStates, SetPodState(p, state)
      PROVE  ClusterTypeOK'
  BY <1>6 DEF SetPodState, Pods
<1>7. ASSUME Kubelet PROVE ClusterTypeOK'
  <2>1. PodOutcomes \subseteq PodStates
    BY ClusterAssumption DEF PodStates
  <2>2. ASSUME NEW p \in PodNames, DeletePod(p) PROVE ClusterTypeOK'
    BY <2>2 DEF DeletePod, Pods
  <2>3. {"Running", "Unknown"} \subseteq PodStates
    BY DEF PodStates
  <2>4. ASSUME NEW p \in PodNames, LoseNode(p) PROVE ClusterTypeOK'
    <3>1. edits' \in 0..MaxEdits
      BY <2>4, ClusterAssumption DEF LoseNode
    <3>2. [pods EXCEPT ![p].state = "Unknown"] \in [PodNames -> Pods]
      BY <2>3 DEF Pods
    <3>3. pods' \in [PodNames -> Pods]
      BY <2>4, <3>2, Zenon DEF LoseNode
    <3> QED BY <2>4, <3>1, <3>3 DEF LoseNode
  <2> QED BY <1>6, <1>7, <2>1, <2>2, <2>3, <2>4
          DEF Kubelet, StartPod, FinishPod, RecoverNode
<1>8. ASSUME GarbageCollector PROVE ClusterTypeOK'
  <2>1. ASSUME NEW p \in PodNames, CollectPod(p) PROVE ClusterTypeOK'
    BY <2>1 DEF CollectPod, Pods
  <2> QED BY <1>8, <2>1, NothingTypes
          DEF GarbageCollector, CollectConfigMap, CollectNetworkPolicy, FinishDeletion
<1>9. ASSUME Tick PROVE ClusterTypeOK'
  BY <1>9, ClusterAssumption DEF Tick
<1> QED BY <1>1, <1>2, <1>3, <1>4, <1>5, <1>7, <1>8, <1>9 DEF ClusterNext, Users

\* Returning, with or without an error, and the answer to a call are typed.
LEMMA ReplyTyped ==
  ASSUME TypeOK, NEW next \in PCs, NEW t \in Tasks,
         \/ Continue(next, t) /\ UNCHANGED <<queued, faults>>
         \/ Return /\ UNCHANGED <<queued, faults>>
         \/ ReturnError /\ UNCHANGED faults
         \/ Disturb("refused") /\ ReturnError
         \/ Reply(next, t)
  PROVE  pc' \in PCs /\ mem' \in Tasks /\ queued' \in BOOLEAN /\ faults' \in 0..MaxFaults
<1>1. pc' \in PCs /\ mem' \in Tasks
  BY NothingTypes DEF Continue, Return, ReturnError, Reply, PCs
<1>2. queued' \in BOOLEAN
  BY Zenon DEF TypeOK, ReturnError, Reply
<1>3. faults' \in 0..MaxFaults
  BY FaultAssumption DEF TypeOK, Reply, Disturb
<1> QED BY <1>1, <1>2, <1>3

\* Reconcile up to its first API call keeps the types.
LEMMA StartTyped ==
  ASSUME TypeOK,
         \/ ReconcileGone \/ ReconcileDeleting \/ ReconcileUninitialised
         \/ ReconcilePending \/ ReconcileInvalid \/ ReconcileBound
  PROVE  TypeOK'
<1> DEFINE pending == [cacheTask EXCEPT !.status.phase = "Pending", !.status.podName = 0]
           failed  == [cacheTask EXCEPT !.status = Fail(@, "Invalid state", now)]
<1>1. pending \in Tasks
  BY DEF TypeOK, Tasks, Statuses, Phases
<1>2. failed \in Tasks
  <2>1. cacheTask.status \in Statuses /\ now \in Nat /\ "Invalid state" \in Reasons
    BY DEF TypeOK, ClusterTypeOK, Tasks, Reasons
  <2>2. Fail(cacheTask.status, "Invalid state", now) \in Statuses
    BY <2>1, StatusTypes
  <2> QED BY <2>2 DEF TypeOK, Tasks
<1>3. UNCHANGED <<clusterVars, cacheVars>>
  BY DEF ReconcileGone, ReconcileDeleting, ReconcileUninitialised, ReconcilePending,
         ReconcileInvalid, ReconcileBound
<1>4. pc' \in PCs /\ mem' \in Tasks
  BY <1>1, <1>2
  DEF ReconcileGone, ReconcileDeleting, ReconcileUninitialised, ReconcilePending,
      ReconcileInvalid, ReconcileBound, Continue, TypeOK, PCs
<1>5. queued' \in BOOLEAN
  BY DEF ReconcileGone, ReconcileDeleting, ReconcileUninitialised, ReconcilePending,
         ReconcileInvalid, ReconcileBound
<1>6. faults' \in 0..MaxFaults
  <2>1. UNCHANGED faults \/ Disturb("stale")
    BY DEF ReconcileGone, ReconcileDeleting, ReconcileUninitialised, ReconcilePending,
           ReconcileInvalid, ReconcileBound
  <2> QED BY <2>1, FaultAssumption DEF Disturb, TypeOK
<1> QED BY <1>3, <1>4, <1>5, <1>6 DEF TypeOK, ClusterTypeOK, clusterVars, cacheVars

\* The API calls of Reconcile keep the types.
LEMMA CallTyped ==
  ASSUME TypeOK,
         \/ ConfigMapCached \/ CreateConfigMap \/ ConfigMapAlreadyExists
         \/ NetworkPolicyCached \/ CreateNetworkPolicy \/ NetworkPolicyAlreadyExists
         \/ CreatePod \/ PodNotFound \/ PodFound
         \/ UpdateStatus \/ UpdateConflict \/ CallRefused
  PROVE  TypeOK'
<1> DEFINE bound == [mem EXCEPT !.status.podName = podCount + 1,
                                !.status.phase = "Provisioning"]
           lost  == [mem EXCEPT !.status = Fail(@, "Pod not found", now)]
           seen  == [mem EXCEPT !.status = StatusFromPod(mem.status, cachedPod.state, now)]
           WorkerTyped == /\ pc' \in PCs /\ mem' \in Tasks
                          /\ queued' \in BOOLEAN /\ faults' \in 0..MaxFaults
<1>1. mem \in Tasks /\ mem.status \in Statuses /\ now \in Nat /\ "Pod not found" \in Reasons
  BY DEF TypeOK, ClusterTypeOK, Tasks, Reasons
<1>2. lost \in Tasks /\ seen \in Tasks
  <2>1. /\ Fail(mem.status, "Pod not found", now) \in Statuses
        /\ StatusFromPod(mem.status, cachedPod.state, now) \in Statuses
    BY <1>1, StatusTypes
  <2> QED BY <1>1, <2>1 DEF Tasks
<1>3. "ensureNetworkPolicy" \in PCs /\ "createPod" \in PCs /\ "updateStatus" \in PCs
      /\ "idle" \in PCs
  BY DEF PCs
<1> SUFFICES ClusterTypeOK' /\ WorkerTyped /\ UNCHANGED cacheVars
  BY DEF TypeOK, cacheVars
<1>4. CASE ConfigMapCached \/ ConfigMapAlreadyExists \/ NetworkPolicyCached
           \/ NetworkPolicyAlreadyExists \/ PodNotFound \/ PodFound
           \/ UpdateConflict \/ CallRefused
  <2>1. WorkerTyped
    BY <1>1, <1>2, <1>3, <1>4, ReplyTyped
    DEF ConfigMapCached, ConfigMapAlreadyExists, NetworkPolicyCached, CallRefused,
        NetworkPolicyAlreadyExists, PodNotFound, PodFound, UpdateConflict
  <2>2. UNCHANGED <<clusterVars, cacheVars>>
    BY <1>4
    DEF ConfigMapCached, ConfigMapAlreadyExists, NetworkPolicyCached, CallRefused,
        NetworkPolicyAlreadyExists, PodNotFound, PodFound, UpdateConflict
  <2> QED BY <2>1, <2>2 DEF TypeOK, ClusterTypeOK, clusterVars
<1>5. CASE CreateConfigMap
  <2>1. WorkerTyped
    BY <1>1, <1>3, <1>5, ReplyTyped DEF CreateConfigMap
  <2>2. configMaps' \in [Specs -> Nat]
    BY <1>5 DEF CreateConfigMap, buildConfigMapForAgentTask, TypeOK, ClusterTypeOK, Tasks
  <2> QED BY <1>5, <2>1, <2>2 DEF CreateConfigMap, TypeOK, ClusterTypeOK
<1>6. CASE CreateNetworkPolicy
  <2>1. WorkerTyped
    BY <1>1, <1>3, <1>6, ReplyTyped DEF CreateNetworkPolicy
  <2> QED BY <1>6, <2>1 DEF CreateNetworkPolicy, buildNetworkPolicy, TypeOK, ClusterTypeOK, Tasks
<1>7. CASE CreatePod
  <2>1. podCount + 1 \in PodNames /\ podCount + 1 \in 0..MaxPods
    BY <1>7, APIAssumption DEF CreatePod, PodNames, TypeOK, ClusterTypeOK
  <2>2. bound \in Tasks
    BY <1>1, <2>1 DEF Tasks, Statuses, Phases
  <2>3. WorkerTyped
    BY <1>7, <1>3, <2>2, ReplyTyped DEF CreatePod
  <2>4. buildPodForAgentTask(mem) \in Pods
    BY <1>1 DEF buildPodForAgentTask, buildConfigMapName, Tasks, Pods, PodStates
  <2>5. pods' \in [PodNames -> Pods]
    BY <1>7, <2>4 DEF CreatePod, TypeOK, ClusterTypeOK
  <2> QED BY <1>7, <2>1, <2>3, <2>5 DEF CreatePod, TypeOK, ClusterTypeOK
<1>8. CASE UpdateStatus
  <2>1. WorkerTyped
    BY <1>8, <1>3, NothingTypes, ReplyTyped DEF UpdateStatus
  <2>2. [task EXCEPT !.status = mem.status] \in Tasks
    BY <1>1 DEF Tasks, TypeOK, ClusterTypeOK
  <2>3. task' \in Tasks
    BY <1>8, <2>2, WriteTaskTyped DEF UpdateStatus, TypeOK, ClusterTypeOK
  <2> QED BY <1>8, <2>1, <2>3 DEF UpdateStatus, TypeOK, ClusterTypeOK
<1> QED BY <1>4, <1>5, <1>6, <1>7, <1>8

\* The watches and a restart keep the types.
LEMMA SyncTyped ==
  ASSUME TypeOK, Sync \/ Restart
  PROVE  TypeOK'
<1>1. \A p \in PodNames : Listed(pods[p]) \in Pods
  BY NothingTypes DEF TypeOK, ClusterTypeOK, Listed
<1>2. CASE Sync
  BY <1>1, <1>2
  DEF Sync, SyncTask, SyncPod, SyncConfigMaps, SyncNetworkPolicy, TypeOK, ClusterTypeOK,
      clusterVars, workerVars
<1>3. CASE Restart
  BY <1>1, <1>3, NothingTypes, FaultAssumption
  DEF Restart, Return, Continue, Disturb, TypeOK, ClusterTypeOK, clusterVars, PCs
<1> QED BY <1>2, <1>3

\* Every step keeps the types.
LEMMA NextTyped == TypeOK /\ [Next]_vars => TypeOK'
<1> SUFFICES ASSUME TypeOK, [Next]_vars PROVE TypeOK'
  OBVIOUS
<1>1. CASE Reconcile
  BY <1>1, StartTyped, CallTyped DEF Reconcile
<1>2. CASE Sync \/ Restart
  BY <1>2, SyncTyped
<1>3. CASE ClusterNext /\ UNCHANGED <<workerVars, cacheVars, faults>>
  BY <1>3, ClusterTyped DEF TypeOK, workerVars, cacheVars
<1>4. CASE UNCHANGED vars
  BY <1>4 DEF TypeOK, ClusterTypeOK, vars, clusterVars, workerVars, cacheVars
<1> QED BY <1>1, <1>2, <1>3, <1>4 DEF Next

\* Type correctness: every variable of the operator and of the cluster keeps
\* its type in every behaviour.
THEOREM TypeCorrect == Spec => []TypeOK
  BY InitTyped, NextTyped, PTL DEF Spec

-----------------------------------------------------------------------------
(***************************************************************************)
(* The inductive invariant.  StatusTruthful speaks of the stored task; to  *)
(* keep it one must know as much of the two copies the status may come     *)
(* from, that a cached Pod is an earlier state of the Pod, and that a copy *)
(* with the resourceVersion of the stored task is a copy of that task.     *)
(***************************************************************************)
\* Names not handed out yet name no Pod, and every Pod has an owner.
PodsOwned ==
  \A p \in PodNames : /\ p > podCount => pods[p].owner = 0
                      /\ pods[p].live => pods[p].owner # 0

\* pod is a state that a Pod seen as cached can have reached.
Follows(cached, pod) ==
  cached.live =>
    /\ pod.owner # 0
    /\ cached.state \in {"Running", "Unknown"} => pod.state # "Pending"
    /\ cached.state \in FinalPodStates => pod.state = cached.state

CacheFollowed == \A p \in PodNames : Follows(cachePods[p], pods[p])

\* A task, stored or copied, is versioned, truthful, and unstarted while it
\* waits for its Pod.
Honest(t, ps) ==
  t.uid # 0 =>
    /\ t.rv # 0
    /\ Truthful(t, ps)
    /\ t.status.phase \in {"", "Pending"} => t.status.startedAt = 0

AllHonest == Honest(task, pods) /\ Honest(cacheTask, pods) /\ Honest(mem, pods)

\* What each point of Reconcile knows of the local variable agenttask.
WorkerKnows ==
  /\ pc = "idle" => mem = NoTask
  /\ pc # "idle" => mem.uid # 0
  /\ pc \in {"ensureConfigMap", "ensureNetworkPolicy", "createPod"} =>
       mem.status.podName = 0 /\ mem.status.phase = "Pending"
  /\ pc = "getPod" => mem.status.podName # 0

\* What one Reconcile may do to the binding of a task.
Binding(old, new) ==
  /\ old.podName # 0 => new.podName = old.podName
  /\ old.podName = 0 /\ new.podName # 0 =>
       old.phase = "Pending" /\ new.phase = "Provisioning"
  /\ new.phase = "Pending" => old.phase \in {"", "Pending"}

\* The version decides: a copy that is current is a copy of the stored task,
\* and a status computed from it is a step from the stored status.
VersionsDecide ==
  /\ cacheTask.uid # 0 /\ cacheTask.rv = task.rv => cacheTask = task
  /\ pc \notin {"idle", "updateStatus"} /\ mem.rv = task.rv => mem = task
  /\ pc = "updateStatus" /\ mem.rv = task.rv =>
       mem.uid = task.uid /\ Binding(task.status, mem.status)

IInv ==
  /\ TypeOK
  /\ PodsOwned
  /\ CacheFollowed
  /\ AllHonest
  /\ WorkerKnows
  /\ VersionsDecide

-----------------------------------------------------------------------------
(***************************************************************************)
(* Pods.                                                                   *)
(***************************************************************************)
\* What happens to the Pods in a step: an owned Pod keeps its owner, does not
\* become Pending again and keeps an outcome.
Progress(ps, qs) ==
  \A p \in PodNames : ps[p].owner # 0 =>
    /\ qs[p].owner = ps[p].owner
    /\ ps[p].state # "Pending" => qs[p].state # "Pending"
    /\ ps[p].state \in FinalPodStates => qs[p].state = ps[p].state

\* The steps that change Pods: creation, a report of the kubelet, deletion.
LEMMA PodChanges ==
  ASSUME [Next]_vars
  PROVE  \/ CreatePod
         \/ /\ podCount' = podCount
            /\ \E p \in PodNames, state \in {"Running", "Unknown"} \cup FinalPodStates :
                 /\ pods[p].live /\ pods[p].state \notin FinalPodStates
                 /\ pods' = [pods EXCEPT ![p].state = state]
         \/ /\ podCount' = podCount
            /\ \E p \in PodNames : pods' = [pods EXCEPT ![p].live = FALSE]
         \/ UNCHANGED <<pods, podCount>>
<1>1. CASE Reconcile
  <2>1. ReconcileGone \/ ReconcileDeleting \/ ReconcileUninitialised
        \/ ReconcilePending \/ ReconcileInvalid \/ ReconcileBound
        => UNCHANGED <<pods, podCount>>
    BY DEF ReconcileGone, ReconcileDeleting, ReconcileUninitialised, ReconcilePending,
           ReconcileInvalid, ReconcileBound, clusterVars
  <2>2. ConfigMapCached \/ CreateConfigMap \/ ConfigMapAlreadyExists
        \/ NetworkPolicyCached \/ CreateNetworkPolicy \/ NetworkPolicyAlreadyExists
        \/ PodNotFound \/ PodFound \/ UpdateStatus \/ UpdateConflict \/ CallRefused
        => UNCHANGED <<pods, podCount>>
    BY DEF ConfigMapCached, CreateConfigMap, ConfigMapAlreadyExists, NetworkPolicyCached,
           CreateNetworkPolicy, NetworkPolicyAlreadyExists, PodNotFound, PodFound,
           UpdateStatus, UpdateConflict, CallRefused, clusterVars
  <2> QED BY <1>1, <2>1, <2>2 DEF Reconcile
<1>2. CASE Sync \/ Restart
  BY <1>2 DEF Sync, SyncTask, SyncPod, SyncConfigMaps, SyncNetworkPolicy, Restart, clusterVars
<1>3. CASE Users \/ Tick
  BY <1>3 DEF Users, CreateTask, EditSpec, ClearPodName, DeleteTask, DeleteTaskForeground, Tick
<1>4. CASE Kubelet
  <2>1. PodOutcomes \subseteq FinalPodStates
    BY ClusterAssumption
  <2> QED BY <1>4, <2>1 DEF Kubelet, StartPod, FinishPod, LoseNode, RecoverNode, DeletePod,
             SetPodState, FinalPodStates
<1>5. CASE GarbageCollector
  BY <1>5 DEF GarbageCollector, CollectConfigMap, CollectNetworkPolicy, CollectPod,
              FinishDeletion
<1>6. CASE UNCHANGED vars
  BY <1>6 DEF vars, clusterVars
<1> QED BY <1>1, <1>2, <1>3, <1>4, <1>5, <1>6 DEF Next, ClusterNext

\* Pods make progress, and stay owned.
LEMMA PodsStep ==
  ASSUME IInv, [Next]_vars
  PROVE  Progress(pods, pods') /\ PodsOwned'
<1> USE DEF IInv
<1>0. pods \in [PodNames -> Pods] /\ podCount \in Nat
  BY APIAssumption DEF TypeOK, ClusterTypeOK
<1>1. CASE CreatePod
  <2>1. /\ podCount + 1 \in PodNames
        /\ podCount' = podCount + 1
        /\ pods' = [pods EXCEPT ![podCount + 1] = buildPodForAgentTask(mem)]
        /\ mem.uid # 0
    BY <1>1, APIAssumption DEF CreatePod, PodNames, TypeOK, ClusterTypeOK, WorkerKnows
  <2>2. pods[podCount + 1].owner = 0
    BY <1>0, <2>1 DEF PodsOwned
  <2>3. Progress(pods, pods')
    BY <1>0, <2>1, <2>2 DEF Progress
  <2>4. PodsOwned'
    BY <1>0, <2>1 DEF PodsOwned, buildPodForAgentTask, PodNames
  <2> QED BY <2>3, <2>4
<1>2. ASSUME podCount' = podCount,
             NEW p \in PodNames, NEW state \in {"Running", "Unknown"} \cup FinalPodStates,
             pods[p].state \notin FinalPodStates,
             pods' = [pods EXCEPT ![p].state = state]
      PROVE  Progress(pods, pods') /\ PodsOwned'
  BY <1>0, <1>2 DEF Progress, PodsOwned, FinalPodStates, Pods
<1>3. ASSUME podCount' = podCount,
             NEW p \in PodNames, pods' = [pods EXCEPT ![p].live = FALSE]
      PROVE  Progress(pods, pods') /\ PodsOwned'
  BY <1>0, <1>3 DEF Progress, PodsOwned, Pods
<1>4. CASE UNCHANGED <<pods, podCount>>
  BY <1>4 DEF Progress, PodsOwned
<1> QED BY <1>1, <1>2, <1>3, <1>4, PodChanges

\* The cached Pods stay earlier states of the Pods.
LEMMA CacheStep ==
  ASSUME IInv, [Next]_vars
  PROVE  CacheFollowed'
<1> USE DEF IInv
<1>0. /\ pods \in [PodNames -> Pods]
      /\ cachePods \in [PodNames -> Pods]
      /\ Progress(pods, pods')
  BY PodsStep DEF TypeOK, ClusterTypeOK
<1>1. CASE UNCHANGED cachePods
  BY <1>0, <1>1 DEF CacheFollowed, Follows, Progress, FinalPodStates
<1>2. ASSUME NEW p \in PodNames PROVE Follows(Listed(pods[p]), pods[p])
  BY <1>0 DEF Follows, Listed, NoPod, PodsOwned, FinalPodStates
<1>3. ASSUME NEW p \in PodNames, SyncPod(p) PROVE CacheFollowed'
  BY <1>0, <1>2, <1>3 DEF SyncPod, clusterVars, CacheFollowed
<1>4. CASE Restart
  BY <1>2, <1>4 DEF Restart, clusterVars, CacheFollowed
<1>5. Reconcile => UNCHANGED cachePods
  BY DEF Reconcile, ReconcileGone, ReconcileDeleting, ReconcileUninitialised,
         ReconcilePending, ReconcileInvalid, ReconcileBound, ConfigMapCached,
         CreateConfigMap, ConfigMapAlreadyExists, NetworkPolicyCached, CreatePod,
         CreateNetworkPolicy, NetworkPolicyAlreadyExists, PodNotFound, PodFound,
         UpdateStatus, UpdateConflict, CallRefused, cacheVars
<1> QED BY <1>1, <1>3, <1>4, <1>5
        DEF Next, Sync, SyncTask, SyncConfigMaps, SyncNetworkPolicy, vars, cacheVars

-----------------------------------------------------------------------------
(***************************************************************************)
(* Statuses.                                                               *)
(***************************************************************************)
\* Progress of the Pods does not make a status wrong.
LEMMA HonestStable ==
  ASSUME NEW t \in Tasks, NEW ps, NEW qs, Progress(ps, qs), Honest(t, ps)
  PROVE  Honest(t, qs)
<1> SUFFICES ASSUME t.uid # 0, t.status.podName # 0 PROVE Truthful(t, qs)
  BY DEF Honest, Truthful
<1> DEFINE p == t.status.podName
<1>1. p \in PodNames
  BY DEF Tasks, Statuses
<1>2. Truthful(t, ps) /\ ps[p].owner = t.uid
  BY DEF Honest, Truthful
<1>3. /\ qs[p].owner = ps[p].owner
      /\ ps[p].state # "Pending" => qs[p].state # "Pending"
      /\ ps[p].state \in FinalPodStates => qs[p].state = ps[p].state
  BY <1>1, <1>2 DEF Progress
<1> QED BY <1>2, <1>3 DEF Truthful, FinalPodStates

\* The status computed from a cached Pod is as true as the one it replaces, and
\* does not touch the binding.
LEMMA SeenHonest ==
  ASSUME NEW t \in Tasks, NEW ps, NEW cached \in Pods, NEW when \in Nat \ {0},
         Honest(t, ps), t.uid # 0, t.status.podName # 0,
         cached.live, Follows(cached, ps[t.status.podName])
  PROVE  LET new == [t EXCEPT !.status = StatusFromPod(t.status, cached.state, when)]
         IN  Honest(new, ps) /\ Binding(t.status, new.status)
<1> DEFINE st  == StatusFromPod(t.status, cached.state, when)
           new == [t EXCEPT !.status = st]
           pod == ps[t.status.podName]
<1>1. /\ t.status \in Statuses
      /\ new.status = st /\ new.uid = t.uid /\ new.rv = t.rv
      /\ t.rv # 0
  BY DEF Tasks, Honest
<1>2. /\ pod.owner = t.uid
      /\ t.status.startedAt # 0 => pod.state # "Pending"
      /\ cached.state \in {"Running", "Unknown"} => pod.state # "Pending"
      /\ cached.state \in FinalPodStates => pod.state = cached.state
  BY DEF Honest, Truthful, Follows
<1>3. /\ st.podName = t.status.podName
      /\ st.phase \in {"Provisioning", "Running"} \cup TerminalPhases
      /\ st.phase = "Running" => cached.state = "Running"
      /\ st.startedAt # 0 => t.status.startedAt # 0 \/ cached.state = "Running"
      /\ st.phase = "Completed" => cached.state = "Succeeded"
      /\ st.phase = "Evicted" => cached.state = "Evicted"
      /\ st.phase = "Failed" /\ st.reason = "Pod failed." => cached.state = "Failed"
      /\ st.phase \in TerminalPhases => st.finishedAt # 0
  BY <1>1 DEF StatusFromPod, Finish, Stamp, Statuses, TerminalPhases
<1>4. Truthful(new, ps)
  BY <1>1, <1>2, <1>3 DEF Truthful, FinalPodStates, TerminalPhases
<1>5. Honest(new, ps)
  BY <1>1, <1>3, <1>4 DEF Honest, TerminalPhases
<1>6. Binding(t.status, new.status)
  BY <1>1, <1>3 DEF Binding, TerminalPhases
<1> QED BY <1>5, <1>6

\* A task that is failed for want of a Pod.
LEMMA FailHonest ==
  ASSUME NEW t \in Tasks, NEW ps, NEW when \in Nat \ {0}, Honest(t, ps),
         NEW reason \in {"Invalid state", "Pod not found"}
  PROVE  LET new == [t EXCEPT !.status = Fail(@, reason, when)]
         IN  Honest(new, ps) /\ Binding(t.status, new.status)
<1> DEFINE st  == Fail(t.status, reason, when)
           new == [t EXCEPT !.status = Fail(@, reason, when)]
<1>1. /\ t.status \in Statuses
      /\ new.status = st /\ new.uid = t.uid /\ new.rv = t.rv
      /\ st.phase = "Failed" /\ st.reason = reason /\ st.finishedAt = when
      /\ st.podName = t.status.podName /\ st.startedAt = t.status.startedAt
  BY DEF Tasks, Fail, Statuses
<1> QED BY <1>1 DEF Honest, Truthful, Binding

-----------------------------------------------------------------------------
(***************************************************************************)
(* The worker.                                                             *)
(***************************************************************************)
\* The part of the invariant that the steps of the worker can disturb.
Rest == AllHonest /\ WorkerKnows /\ VersionsDecide

\* A return leaves nothing to show but what concerns the stored task.
LEMMA ReturnStep ==
  ASSUME IInv, Return, Honest(task, pods)', UNCHANGED cacheTask,
         Progress(pods, pods'),
         cacheTask.uid # 0 /\ cacheTask.rv = task'.rv => cacheTask = task'
  PROVE  Rest'
<1>1. Honest(cacheTask, pods)'
  BY HonestStable DEF IInv, AllHonest, TypeOK
<1>2. pc' = "idle" /\ mem' = NoTask /\ Honest(mem, pods)'
  BY DEF Return, Continue, Honest, NoTask
<1> QED BY <1>1, <1>2 DEF Rest, AllHonest, WorkerKnows, VersionsDecide

\* Up to its first API call Reconcile only moves to a next call and computes
\* the new agenttask from the cached one.
LEMMA StartStep ==
  ASSUME IInv,
         \/ ReconcileGone \/ ReconcileDeleting \/ ReconcileUninitialised
         \/ ReconcilePending \/ ReconcileInvalid \/ ReconcileBound
  PROVE  Rest'
<1>0. /\ cacheTask \in Tasks /\ cacheTask.status \in Statuses
      /\ now \in Nat \ {0}
      /\ Honest(task, pods) /\ Honest(cacheTask, pods)
  BY ClusterAssumption DEF IInv, TypeOK, ClusterTypeOK, Tasks, AllHonest
<1>1. UNCHANGED <<task, pods, cacheTask>>
  BY DEF ReconcileGone, ReconcileDeleting, ReconcileUninitialised, ReconcilePending,
         ReconcileInvalid, ReconcileBound, clusterVars, cacheVars
<1>2. cacheTask.uid # 0 /\ cacheTask.rv = task.rv => cacheTask = task
  BY DEF IInv, VersionsDecide
<1>3. CASE ReconcileGone \/ ReconcileDeleting
  BY <1>1, <1>3 DEF ReconcileGone, ReconcileDeleting, IInv, Rest, AllHonest, WorkerKnows,
                    VersionsDecide
<1>4. CASE ReconcileUninitialised
  <2> DEFINE new == [cacheTask EXCEPT !.status.phase = "Pending", !.status.podName = 0]
  <2>1. /\ pc' = "updateStatus" /\ mem' = new
        /\ cacheTask.uid # 0 /\ cacheTask.status.phase = ""
    BY <1>4 DEF ReconcileUninitialised, Continue, Active
  <2>2. /\ new.uid = cacheTask.uid /\ new.rv = cacheTask.rv
        /\ new.status.podName = 0 /\ new.status.phase = "Pending"
        /\ new.status.startedAt = cacheTask.status.startedAt
    BY <1>0 DEF Tasks, Statuses
  <2>3. Honest(new, pods)
    BY <1>0, <2>1, <2>2 DEF Honest, Truthful
  <2>4. Binding(cacheTask.status, new.status)
    BY <1>0, <2>1, <2>2 DEF Honest, Truthful, Binding
  <2> HIDE DEF new
  <2> QED BY <1>0, <1>1, <1>2, <2>1, <2>2, <2>3, <2>4
          DEF Rest, AllHonest, WorkerKnows, VersionsDecide
<1>5. CASE ReconcilePending \/ ReconcileBound
  <2>1. /\ mem' = cacheTask /\ cacheTask.uid # 0
        /\ \/ /\ pc' = "ensureConfigMap"
              /\ cacheTask.status.podName = 0 /\ cacheTask.status.phase = "Pending"
           \/ pc' = "getPod" /\ cacheTask.status.podName # 0
    BY <1>5 DEF ReconcilePending, ReconcileBound, Continue, Active
  <2> QED BY <1>0, <1>1, <1>2, <2>1 DEF Rest, AllHonest, WorkerKnows, VersionsDecide
<1>6. CASE ReconcileInvalid
  <2> DEFINE new == [cacheTask EXCEPT !.status = Fail(@, "Invalid state", now)]
  <2>1. pc' = "updateStatus" /\ mem' = new /\ cacheTask.uid # 0
    BY <1>6 DEF ReconcileInvalid, Continue, Active
  <2>2. new.uid = cacheTask.uid /\ new.rv = cacheTask.rv
    BY <1>0 DEF Tasks
  <2>3. Honest(new, pods) /\ Binding(cacheTask.status, new.status)
    BY <1>0, FailHonest
  <2> HIDE DEF new
  <2> QED BY <1>0, <1>1, <1>2, <2>1, <2>2, <2>3
          DEF Rest, AllHonest, WorkerKnows, VersionsDecide
<1> QED BY <1>3, <1>4, <1>5, <1>6

\* The API calls on the way to a new Pod.
LEMMA PendingPathStep ==
  ASSUME IInv, [Next]_vars,
         \/ ConfigMapCached \/ CreateConfigMap \/ ConfigMapAlreadyExists
         \/ NetworkPolicyCached \/ CreateNetworkPolicy \/ NetworkPolicyAlreadyExists
         \/ CreatePod \/ UpdateConflict \/ CallRefused
  PROVE  Rest'
<1>0. /\ mem \in Tasks /\ mem.status \in Statuses
      /\ Honest(task, pods) /\ Honest(mem, pods)
      /\ pods \in [PodNames -> Pods]
  BY DEF IInv, TypeOK, ClusterTypeOK, Tasks, AllHonest
<1>1. UNCHANGED <<task, cacheTask>>
  BY DEF ConfigMapCached, CreateConfigMap, ConfigMapAlreadyExists, NetworkPolicyCached,
         CreateNetworkPolicy, NetworkPolicyAlreadyExists, CreatePod, UpdateConflict,
         CallRefused, clusterVars, cacheVars
<1>2. Progress(pods, pods')
  BY PodsStep
<1>3. cacheTask.uid # 0 /\ cacheTask.rv = task.rv => cacheTask = task
  BY DEF IInv, VersionsDecide
<1>4. Honest(task, pods') /\ Honest(cacheTask, pods') /\ Honest(mem, pods')
  BY <1>2, HonestStable DEF IInv, AllHonest, TypeOK, ClusterTypeOK
<1>5. CASE Return
  BY <1>1, <1>2, <1>3, <1>4, <1>5, ReturnStep
<1>6. CASE /\ pc \in {"ensureConfigMap", "ensureNetworkPolicy"}
           /\ pc' \in {"ensureNetworkPolicy", "createPod"}
           /\ mem' = mem
  BY <1>1, <1>4, <1>6 DEF IInv, Rest, AllHonest, WorkerKnows, VersionsDecide
<1>7. CASE CreatePod /\ ~Return
  <2> DEFINE new == [mem EXCEPT !.status.podName = podCount + 1,
                                !.status.phase = "Provisioning"]
  <2>1. /\ pc = "createPod" /\ pc' = "updateStatus" /\ mem' = new
        /\ podCount + 1 \in PodNames /\ podCount + 1 # 0
        /\ pods' = [pods EXCEPT ![podCount + 1] = buildPodForAgentTask(mem)]
    BY <1>7, APIAssumption
    DEF CreatePod, Reply, ReturnError, Continue, IInv, TypeOK, ClusterTypeOK, PodNames
  <2>2. /\ new.uid = mem.uid /\ new.rv = mem.rv
        /\ new.status.podName = podCount + 1 /\ new.status.phase = "Provisioning"
        /\ new.status.startedAt = mem.status.startedAt
    BY <1>0 DEF Tasks, Statuses
  <2>3. /\ mem.uid # 0 /\ mem.status.podName = 0 /\ mem.status.phase = "Pending"
        /\ mem.status.startedAt = 0 /\ mem.rv # 0
    BY <1>0, <2>1 DEF IInv, WorkerKnows, Honest
  <2>4. pods'[podCount + 1].owner = mem.uid
    BY <1>0, <2>1 DEF buildPodForAgentTask
  <2>5. Honest(new, pods')
    BY <2>2, <2>3, <2>4 DEF Honest, Truthful, TerminalPhases
  <2>6. Binding(mem.status, new.status)
    BY <2>2, <2>3 DEF Binding
  <2>7. mem.rv = task.rv => mem = task
    BY <2>1 DEF IInv, VersionsDecide
  <2> HIDE DEF new
  <2> QED BY <1>1, <1>3, <1>4, <2>1, <2>2, <2>3, <2>5, <2>6, <2>7
          DEF Rest, AllHonest, WorkerKnows, VersionsDecide
<1> QED BY <1>5, <1>6, <1>7
        DEF ConfigMapCached, CreateConfigMap, ConfigMapAlreadyExists, NetworkPolicyCached,
            CreateNetworkPolicy, NetworkPolicyAlreadyExists, UpdateConflict, CallRefused,
            Reply, ReturnError, Continue

\* The look at the Pod.
LEMMA PodPathStep ==
  ASSUME IInv, PodNotFound \/ PodFound
  PROVE  Rest'
<1>0. /\ mem \in Tasks /\ now \in Nat \ {0}
      /\ Honest(task, pods) /\ Honest(cacheTask, pods) /\ Honest(mem, pods)
      /\ cachePods \in [PodNames -> Pods]
  BY ClusterAssumption DEF IInv, TypeOK, ClusterTypeOK, AllHonest
<1>1. UNCHANGED <<task, pods, cacheTask>> /\ pc = "getPod"
  BY DEF PodNotFound, PodFound, clusterVars, cacheVars
<1>2. /\ mem.uid # 0 /\ mem.status.podName # 0 /\ mem.status.podName \in PodNames
      /\ mem.rv = task.rv => mem = task
      /\ cacheTask.uid # 0 /\ cacheTask.rv = task.rv => cacheTask = task
  BY <1>0, <1>1 DEF IInv, WorkerKnows, VersionsDecide, Tasks, Statuses
<1>3. CASE Return
  <2>1. Progress(pods, pods')
    BY <1>1 DEF Progress
  <2> QED BY <1>0, <1>1, <1>2, <1>3, <2>1, ReturnStep
<1>4. ASSUME NEW st, LET new == [mem EXCEPT !.status = st]
                     IN  /\ Honest(new, pods) /\ Binding(mem.status, new.status)
                         /\ Continue("updateStatus", new)
      PROVE  Rest'
  <2> DEFINE new == [mem EXCEPT !.status = st]
  <2>1. new.uid = mem.uid /\ new.rv = mem.rv
    BY <1>0 DEF Tasks
  <2>2. Honest(new, pods) /\ Binding(mem.status, new.status)
        /\ pc' = "updateStatus" /\ mem' = new
    BY <1>4 DEF Continue
  <2> HIDE DEF new
  <2> QED BY <1>0, <1>1, <1>2, <2>1, <2>2
          DEF Rest, AllHonest, WorkerKnows, VersionsDecide
<1>5. CASE PodNotFound /\ ~Return
  <2>1. Continue("updateStatus", [mem EXCEPT !.status = Fail(@, "Pod not found", now)])
    BY <1>5 DEF PodNotFound
  <2> QED BY <1>0, <1>4, <2>1, FailHonest
<1>6. CASE PodFound /\ ~Return
  <2>1. /\ cachedPod.live /\ cachedPod \in Pods
        /\ Continue("updateStatus", [mem EXCEPT !.status =
                      StatusFromPod(mem.status, cachedPod.state, now)])
    BY <1>0, <1>2, <1>6 DEF PodFound, cachedPod
  <2>2. Follows(cachedPod, pods[mem.status.podName])
    BY <1>2 DEF IInv, CacheFollowed, cachedPod
  <2> QED BY <1>0, <1>2, <1>4, <2>1, <2>2, SeenHonest
<1> QED BY <1>3, <1>5, <1>6

\* The update: the status that is stored was computed from the stored task.
LEMMA UpdateStep ==
  ASSUME IInv, UpdateStatus
  PROVE  Rest' /\ task'.uid = task.uid /\ Binding(task.status, task'.status)
<1>0. /\ task \in Tasks /\ mem \in Tasks
      /\ Honest(task, pods) /\ Honest(mem, pods)
  BY DEF IInv, TypeOK, ClusterTypeOK, AllHonest
<1>1. /\ pc = "updateStatus" /\ task.uid # 0 /\ task.rv = mem.rv
      /\ UNCHANGED <<pods, cacheTask>>
      /\ Return
  BY DEF UpdateStatus, Current, Reply, Return, ReturnError, Continue, cacheVars
<1>2. mem.uid = task.uid /\ Binding(task.status, mem.status)
  BY <1>1 DEF IInv, VersionsDecide
<1>3. Progress(pods, pods')
  BY <1>1 DEF Progress
<1>4. CASE task' = task /\ task.status = mem.status
  <2>1. cacheTask.uid # 0 /\ cacheTask.rv = task'.rv => cacheTask = task'
    BY <1>4 DEF IInv, VersionsDecide
  <2>2. Honest(task, pods)'
    BY <1>0, <1>1, <1>4
  <2> QED BY <1>1, <1>2, <1>3, <1>4, <2>1, <2>2, ReturnStep
<1>5. CASE WriteTask([task EXCEPT !.status = mem.status])
  <2>1. /\ task'.uid = mem.uid /\ task'.status = mem.status /\ task'.rv = NewVersion
        /\ task'.uid = task.uid
    BY <1>0, <1>2, <1>5 DEF WriteTask, Tasks
  <2>2. NewVersion # 0 /\ NewVersion # cacheTask.rv
    BY NewVersionFresh
  <2>3. Honest(task, pods)'
    BY <1>0, <1>1, <2>1, <2>2 DEF Honest, Truthful
  <2> QED BY <1>1, <1>2, <1>3, <2>1, <2>2, <2>3, ReturnStep
<1> QED BY <1>4, <1>5 DEF UpdateStatus

\* The watches and a restart.
LEMMA SyncStep ==
  ASSUME IInv, Sync \/ Restart
  PROVE  Rest' /\ UNCHANGED task
<1>1. UNCHANGED <<task, pods>> /\ cacheTask' \in {task, cacheTask}
  BY DEF Sync, SyncTask, SyncPod, SyncConfigMaps, SyncNetworkPolicy, Restart, clusterVars
<1>2. \/ UNCHANGED <<pc, mem>>
      \/ pc' = "idle" /\ mem' = NoTask
  BY DEF Sync, SyncTask, SyncPod, SyncConfigMaps, SyncNetworkPolicy, Restart, Return,
         Continue, workerVars
<1>3. Honest(NoTask, pods)
  BY DEF Honest, NoTask
<1> QED BY <1>1, <1>2, <1>3 DEF IInv, Rest, AllHonest, WorkerKnows, VersionsDecide

\* What users and the collector do to the task: nothing, a removal, or a write
\* that keeps the status except for an emptied podName.
LEMMA TaskChanges ==
  ASSUME IInv, ClusterNext
  PROVE  \/ UNCHANGED task
         \/ task' = NoTask
         \/ /\ task'.rv = NewVersion
            /\ \/ /\ task.uid = 0 /\ task'.status = NoStatus
               \/ /\ task'.uid = task.uid
                  /\ task'.status \in {task.status, [task.status EXCEPT !.podName = 0]}
<1>0. task \in Tasks
  BY DEF IInv, TypeOK, ClusterTypeOK
<1>1. ASSUME NEW s \in Specs, CreateTask(s)
      PROVE  task.uid = 0 /\ task'.rv = NewVersion /\ task'.status = NoStatus
  BY <1>1 DEF CreateTask, WriteTask, NoTask
<1>2. CASE \/ \E s \in Specs : EditSpec(s)
           \/ ClearPodName
           \/ DeleteTaskForeground
  BY <1>0, <1>2 DEF EditSpec, ClearPodName, DeleteTaskForeground, WriteTask, Tasks
<1>3. CASE Kubelet \/ GarbageCollector \/ Tick \/ DeleteTask
  BY <1>3 DEF Kubelet, StartPod, FinishPod, LoseNode, RecoverNode, DeletePod, SetPodState,
              GarbageCollector, CollectConfigMap, CollectNetworkPolicy, CollectPod,
              FinishDeletion, Tick, DeleteTask
<1> QED BY <1>1, <1>2, <1>3 DEF ClusterNext, Users

\* The rest of the cluster.
LEMMA ClusterStep ==
  ASSUME IInv, [Next]_vars, ClusterNext, UNCHANGED <<workerVars, cacheVars>>
  PROVE  Rest'
<1>0. Progress(pods, pods')
  BY PodsStep
<1>1. /\ UNCHANGED <<pc, mem, cacheTask>>
      /\ task \in Tasks /\ task.status \in Statuses
      /\ Honest(task, pods') /\ Honest(cacheTask, pods') /\ Honest(mem, pods')
  BY <1>0, HonestStable DEF IInv, AllHonest, TypeOK, ClusterTypeOK, Tasks, workerVars, cacheVars
<1>2. NewVersion # 0 /\ NewVersion # cacheTask.rv /\ NewVersion # mem.rv
  BY NewVersionFresh
<1>3. CASE UNCHANGED task
  BY <1>1, <1>3 DEF IInv, Rest, AllHonest, WorkerKnows, VersionsDecide
<1>4. CASE task' = NoTask
  <2>1. task'.rv = 0 /\ Honest(task, pods)'
    BY <1>4 DEF NoTask, Honest
  <2>2. (cacheTask.uid # 0 => cacheTask.rv # 0) /\ (pc # "idle" => mem.rv # 0)
    BY DEF IInv, AllHonest, Honest, WorkerKnows
  <2> QED BY <1>1, <2>1, <2>2 DEF IInv, Rest, AllHonest, WorkerKnows, VersionsDecide
<1>5. CASE /\ task'.rv = NewVersion
           /\ \/ /\ task.uid = 0 /\ task'.status = NoStatus
              \/ /\ task'.uid = task.uid
                 /\ task'.status \in {task.status, [task.status EXCEPT !.podName = 0]}
  <2> DEFINE cleared == [task.status EXCEPT !.podName = 0]
  <2>1. Honest(task, pods)'
    <3>1. CASE task'.status = NoStatus
      <4>1. task'.rv # 0
        BY <1>2, <1>5
      <4>2. task'.status.podName = 0 /\ task'.status.startedAt = 0
        <5>1. NoStatus.podName = 0 /\ NoStatus.startedAt = 0
          BY DEF NoStatus
        <5> QED BY <3>1, <5>1
      <4> QED BY <4>1, <4>2 DEF Honest, Truthful
    <3>2. CASE task'.uid = task.uid /\ task'.status = task.status
      BY <1>1, <1>2, <1>5, <3>2 DEF Honest, Truthful
    <3>3. CASE task'.uid = task.uid /\ task'.status = cleared
      <4>1. /\ cleared.podName = 0 /\ cleared.phase = task.status.phase
            /\ cleared.startedAt = task.status.startedAt
        BY <1>1 DEF Statuses
      <4> HIDE DEF cleared
      <4> QED BY <1>1, <1>2, <1>5, <3>3, <4>1 DEF Honest, Truthful
    <3> QED BY <1>5, <3>1, <3>2, <3>3
  <2> QED BY <1>1, <1>2, <1>5, <2>1 DEF IInv, Rest, AllHonest, WorkerKnows, VersionsDecide
<1> QED BY <1>3, <1>4, <1>5, TaskChanges

-----------------------------------------------------------------------------
(***************************************************************************)
(* The theorems.                                                           *)
(***************************************************************************)
\* The invariant holds at the start.
LEMMA InitInv == Init => IInv
<1> SUFFICES ASSUME Init PROVE IInv
  OBVIOUS
<1>1. PodsOwned /\ CacheFollowed
  BY DEF Init, ClusterInit, PodsOwned, CacheFollowed, Follows, NoPod
<1>2. AllHonest
  BY DEF Init, ClusterInit, AllHonest, Honest, NoTask
<1>3. WorkerKnows /\ VersionsDecide
  BY DEF Init, ClusterInit, WorkerKnows, VersionsDecide, NoTask
<1> QED BY <1>1, <1>2, <1>3, InitTyped DEF IInv

\* Every step keeps the invariant.
LEMMA NextInv == IInv /\ [Next]_vars => IInv'
<1> SUFFICES ASSUME IInv, [Next]_vars PROVE IInv'
  OBVIOUS
<1>1. TypeOK' /\ PodsOwned' /\ CacheFollowed'
  BY NextTyped, PodsStep, CacheStep DEF IInv
<1> SUFFICES Rest'
  BY <1>1 DEF IInv, Rest
<1>2. CASE Reconcile
  BY <1>2, StartStep, PendingPathStep, PodPathStep, UpdateStep DEF Reconcile
<1>3. CASE Sync \/ Restart
  BY <1>3, SyncStep
<1>4. CASE ClusterNext /\ UNCHANGED <<workerVars, cacheVars, faults>>
  BY <1>4, ClusterStep
<1>5. CASE UNCHANGED vars
  BY <1>5 DEF IInv, Rest, AllHonest, WorkerKnows, VersionsDecide, vars, clusterVars,
              workerVars, cacheVars
<1> QED BY <1>2, <1>3, <1>4, <1>5 DEF Next

\* IInv is an invariant.
LEMMA Invariance == Spec => []IInv
  BY InitInv, NextInv, PTL DEF Spec

\* The status is never ahead of the Pod it names, and that Pod is the task's
\* own (Reconcile, whatever its caches show).
THEOREM StatusIsTruthful == Spec => []StatusTruthful
<1>1. IInv => StatusTruthful
  BY DEF IInv, AllHonest, Honest, StatusTruthful
<1> QED BY <1>1, Invariance, PTL

\* A task is bound to one Pod once (the status update after r.Create).
THEOREM TaskBoundOnce == Spec => BoundOnce
<1> DEFINE Bound == task.uid # 0 /\ task'.uid = task.uid =>
       /\ task.status.podName # 0 =>
            task'.status.podName \in {0, task.status.podName}
       /\ task.status.podName = 0 /\ task'.status.podName # 0 =>
            task.status.phase = "Pending" /\ task'.status.phase = "Provisioning"
       /\ task'.status.phase = "Pending" => task.status.phase \in {"", "Pending"}
<1>1. IInv /\ [Next]_vars => [Bound]_vars
  <2> SUFFICES ASSUME IInv, [Next]_vars PROVE Bound
    OBVIOUS
  <2>1. CASE UNCHANGED task
    BY <2>1
  <2>2. CASE UpdateStatus
    BY <2>2, UpdateStep DEF Binding
  <2>3. CASE Reconcile /\ ~UpdateStatus
    <3>1. UNCHANGED task
      BY <2>3
      DEF Reconcile, ReconcileGone, ReconcileDeleting, ReconcileUninitialised,
          ReconcilePending, ReconcileInvalid, ReconcileBound, ConfigMapCached,
          CreateConfigMap, ConfigMapAlreadyExists, NetworkPolicyCached, CreatePod,
          CreateNetworkPolicy, NetworkPolicyAlreadyExists, PodNotFound, PodFound,
          UpdateConflict, CallRefused, clusterVars
    <3> QED BY <2>1, <3>1
  <2>4. CASE Sync \/ Restart
    BY <2>1, <2>4, SyncStep
  <2>5. CASE ClusterNext
    <3>1. task \in Tasks /\ task.status \in Statuses
      BY DEF IInv, TypeOK, ClusterTypeOK, Tasks
    <3> DEFINE cleared == [task.status EXCEPT !.podName = 0]
    <3>2. cleared.podName = 0 /\ cleared.phase = task.status.phase
      BY <3>1 DEF Statuses
    <3>3. \/ UNCHANGED task
          \/ task'.uid = 0 \/ task.uid = 0
          \/ task'.status \in {task.status, cleared}
      BY <2>5, TaskChanges DEF NoTask
    <3> HIDE DEF cleared
    <3> QED BY <2>1, <3>2, <3>3
  <2>6. CASE UNCHANGED vars
    BY <2>1, <2>6 DEF vars, clusterVars
  <2> QED BY <2>2, <2>3, <2>4, <2>5, <2>6 DEF Next
<1> QED BY <1>1, Invariance, PTL DEF Spec, BoundOnce

=============================================================================
