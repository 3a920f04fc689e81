----------------------------- MODULE SandboxPodProofs -----------------------------
(***************************************************************************)
(* What a task reports is true of the process in its Pod, for an agent of  *)
(* any number of steps, tool uses and failures of emit.  The composition   *)
(* takes steps of AgentTaskController on the cluster and of AgentLoop on   *)
(* the agent, so the invariants of the operator hold in it; what remains   *)
(* is the kubelet between the two.                                         *)
(***************************************************************************)
EXTENDS SandboxPod, LifecycleProofs, SequenceTheorems

\* Containers run in a Pod that was created, and as long as it is there so is
\* the ConfigMap they have mounted.
Mounted ==
  proxy # "waiting" =>
    /\ thePod.owner # 0
    /\ thePod.live => thePod.configMap \in Specs /\ configMaps[thePod.configMap] # 0

\* The process ends once, and with code 0 only behind agent_done.
ProcessEnds ==
  /\ exit \in {"running", "ok", "crashed", "killed"}
  /\ agentPc = "exited" <=> exit # "running"
  /\ \E S : log \in Seq(S)
  /\ agentPc = "return" \/ exit = "ok" => log # <<>> /\ log[Len(log)].type = "agent_done"

\* The Pod ends the way its containers did.
PodEnds ==
  /\ proxy \in {"waiting", "running", "ok", "failed"}
  /\ thePod.state = "Succeeded" => exit = "ok" /\ proxy = "ok"
  /\ thePod.state = "Failed" =>
       agentPc = "exited" /\ proxy # "running" /\ (exit # "ok" \/ proxy = "failed")

PInv == KInv /\ Mounted /\ ProcessEnds /\ PodEnds

-----------------------------------------------------------------------------
(***************************************************************************)
(* The process.                                                            *)
(***************************************************************************)
\* An exited process takes no step.  A step appends the event that is due, or
\* nothing; main returns only after it has emitted agent_done.
LEMMA AgentStep ==
  ASSUME Agent!Run \/ Agent!Kill
  PROVE  /\ agentPc # "exited"
         /\ log' = log \/ log' = Append(log, Agent!Due)
         /\ \/ exit' = exit /\ agentPc' \notin {"return", "exited"}
            \/ exit' \in {"crashed", "killed"} /\ agentPc' = "exited"
            \/ /\ exit' = exit /\ agentPc' = "return"
               /\ agentPc = "agent_done" /\ log' = Append(log, Agent!Due)
            \/ /\ exit' = "ok" /\ agentPc' = "exited"
               /\ agentPc = "return" /\ log' = log
<1>1. CASE \/ Agent!NextStep \/ Agent!StepsExhausted \/ Agent!CompleteRaises
           \/ Agent!ToolWrites \/ Agent!WriteRaises
           \/ \E r \in Agent!Responses : Agent!Complete(r)
           \/ \E isError \in BOOLEAN : Agent!ToolAnswers(isError)
  BY <1>1, Zenon
     DEF Agent!NextStep, Agent!StepsExhausted, Agent!CompleteRaises, Agent!ToolWrites,
         Agent!WriteRaises, Agent!Complete, Agent!ToolAnswers, Agent!eventVars,
         Agent!loopVars
<1>2. CASE Agent!StartFails \/ Agent!Kill
  BY <1>2, Zenon DEF Agent!StartFails, Agent!Kill, Agent!Exit, Agent!eventVars
<1>3. CASE Agent!EmitRaisesInLoop \/ Agent!EmitRaisesInTool \/ Agent!EmitRaisesOutside
  <2>1. Agent!emitRaises(Agent!Due)
    BY <1>3, Zenon DEF Agent!EmitRaisesInLoop, Agent!EmitRaisesInTool, Agent!EmitRaisesOutside
  <2>2. log' = log \/ log' = Append(log, Agent!Due)
    BY <2>1 DEF Agent!emitRaises
  <2>3. /\ agentPc # "exited"
        /\ \/ exit' = exit /\ agentPc' \notin {"return", "exited"}
           \/ exit' \in {"crashed", "killed"} /\ agentPc' = "exited"
    BY <1>3, Zenon DEF Agent!EmitRaisesInLoop, Agent!EmitRaisesInTool,
                       Agent!EmitRaisesOutside, Agent!Exit, Agent!loopVars
  <2> QED BY <2>2, <2>3, Zenon
<1>4. CASE \/ Agent!Start \/ Agent!StepStart \/ Agent!LLMCallStart \/ Agent!LLMCallEnd
           \/ Agent!ToolStart \/ Agent!FileMutation \/ Agent!ToolEnd
           \/ Agent!StepEnd \/ Agent!ExceptBranch
  <2>1. agentPc # "exited" /\ log' = Append(log, Agent!Due)
    BY <1>4, Zenon DEF Agent!Start, Agent!StepStart, Agent!LLMCallStart, Agent!LLMCallEnd,
                       Agent!ToolStart, Agent!FileMutation, Agent!ToolEnd, Agent!StepEnd,
                       Agent!ExceptBranch, Agent!EmitDue, Agent!emit
  <2>2. exit' = exit
    BY <1>4, Zenon DEF Agent!Start, Agent!StepStart, Agent!LLMCallStart, Agent!LLMCallEnd,
                       Agent!ToolStart, Agent!FileMutation, Agent!ToolEnd, Agent!StepEnd,
                       Agent!ExceptBranch, Agent!loopVars
  <2>3. agentPc' \notin {"return", "exited"}
    BY <1>4, Zenon DEF Agent!Start, Agent!StepStart, Agent!LLMCallStart, Agent!LLMCallEnd,
                       Agent!ToolStart, Agent!FileMutation, Agent!ToolEnd, Agent!StepEnd,
                       Agent!ExceptBranch, Agent!EmitDue
  <2> QED BY <2>1, <2>2, <2>3, Zenon
<1>5. CASE Agent!Done
  BY <1>5, Zenon DEF Agent!Done, Agent!EmitDue, Agent!emit, Agent!loopVars
<1>6. CASE Agent!MainReturns
  BY <1>6, Zenon DEF Agent!MainReturns, Agent!Exit, Agent!eventVars
<1> QED BY <1>1, <1>2, <1>3, <1>4, <1>5, <1>6, Zenon DEF Agent!Run

\* A stream with an event more ends with that event.
LEMMA StreamEnd ==
  ASSUME NEW S, log \in Seq(S), NEW e, log' = Append(log, e)
  PROVE  (\E T : log' \in Seq(T)) /\ log' # <<>> /\ log'[Len(log')] = e
<1>1. log \in Seq(S \cup {e})
  <2>1. Len(log) \in Nat /\ log \in [1..Len(log) -> S]
    BY LenProperties, ElementOfSeq
  <2>2. \A i \in 1..Len(log) : log[i] \in S \cup {e}
    BY <2>1
  <2> QED BY <2>2
<1>2. Append(log, e) \in Seq(S \cup {e})
  BY <1>1
<1>3. Len(Append(log, e)) = Len(log) + 1 /\ Append(log, e)[Len(log) + 1] = e
  BY <1>1
<1>4. Len(log) \in Nat /\ Append(log, e) # <<>>
  BY <1>1
<1> QED BY <1>2, <1>3, <1>4

\* The process ends once, whichever step it takes.
LEMMA ProcessStep ==
  ASSUME ProcessEnds, Agent!Run \/ Agent!Kill
  PROVE  ProcessEnds'
<1>1. PICK S : log \in Seq(S)
  BY DEF ProcessEnds
<1>2. exit = "running" /\ agentPc # "exited"
  BY AgentStep, Zenon DEF ProcessEnds
<1>3. \E T : log' \in Seq(T)
  BY <1>1, AgentStep, StreamEnd
<1>4. /\ exit' \in {"running", "ok", "crashed", "killed"}
      /\ agentPc' = "exited" <=> exit' # "running"
  BY <1>2, AgentStep
<1>5. ASSUME agentPc' = "return" \/ exit' = "ok"
      PROVE  log' # <<>> /\ log'[Len(log')].type = "agent_done"
  <2>1. CASE agentPc = "agent_done" /\ log' = Append(log, Agent!Due)
    <3>1. Agent!Due.type = "agent_done"
      BY <2>1 DEF Agent!Due
    <3>2. log' # <<>> /\ log'[Len(log')] = Agent!Due
      BY <1>1, <2>1, StreamEnd
    <3> QED BY <3>1, <3>2
  <2>2. CASE agentPc = "return" /\ log' = log
    BY <2>2, Zenon DEF ProcessEnds
  <2>3. \/ agentPc = "agent_done" /\ log' = Append(log, Agent!Due)
        \/ agentPc = "return" /\ log' = log
    BY <1>2, <1>5, AgentStep
  <2> QED BY <2>1, <2>2, <2>3
<1> QED BY <1>3, <1>4, <1>5 DEF ProcessEnds

-----------------------------------------------------------------------------
(***************************************************************************)
(* The cluster.                                                            *)
(***************************************************************************)
\* The composition has one Pod.
LEMMA OnePod == 1 \in PodNames /\ PodNames = {1}
BY SandboxAssumption DEF PodNames

\* What the kubelet reports of running containers.
LEMMA PhaseReported ==
  /\ PodPhase \in {"Running", "Succeeded", "Failed"}
  /\ PodPhase = "Succeeded" => exit = "ok" /\ proxy = "ok"
  /\ PodPhase = "Failed" =>
       agentPc = "exited" /\ proxy # "running" /\ (exit # "ok" \/ proxy # "ok")
BY DEF PodPhase

\* Every step of the composition is one of AgentTaskController, or one that it
\* does not show: the kubelet's report is a start or an end of the Pod.
LEMMA OperatorStep ==
  ASSUME Mounted, [SandboxNext]_allVars
  PROVE  [Next]_vars
<1>1. CASE UNCHANGED allVars \/ Launch \/ AgentRuns \/ AgentKilled \/ ProxyExits \/ ProxyFails
  BY <1>1, Zenon DEF allVars, Launch, AgentRuns, AgentKilled, ProxyExits, ProxyFails
<1>2. CASE Operator
  BY <1>2, Zenon DEF Operator, Next
<1>3. CASE \E s \in Specs : Submit(s)
  BY <1>3, Zenon DEF Submit, Outside, Next, ClusterNext, Users
<1>4. CASE RemovePod
  BY <1>4, OnePod, Zenon DEF RemovePod, Outside, Next, ClusterNext, Kubelet
<1>5. CASE EvictPod
  <2>1. "Evicted" \in PodOutcomes
    BY SandboxAssumption DEF FinalPodStates
  <2> QED BY <1>5, <2>1, OnePod, Zenon DEF EvictPod, Outside, Next, ClusterNext, Kubelet
<1>6. CASE ReportPhase
  <2>1. /\ pods[1].live /\ configMaps[pods[1].configMap] # 0
        /\ pods[1].state = "Pending" \/ pods[1].state = "Running"
        /\ pods[1].state # PodPhase /\ SetPodState(1, PodPhase)
    BY <1>6 DEF ReportPhase, Mounted, thePod
  <2>2. CASE PodPhase = "Running"
    <3>1. StartPod(1)
      BY <2>1, <2>2, Zenon DEF StartPod
    <3> QED BY <1>6, <3>1, OnePod, Zenon DEF ReportPhase, Outside, Next, ClusterNext, Kubelet
  <2>3. CASE PodPhase # "Running"
    <3>1. PodPhase \in PodOutcomes
      BY <2>3, PhaseReported, SandboxAssumption DEF FinalPodStates
    <3>2. FinishPod(1, PodPhase)
      BY <2>1, Zenon DEF FinishPod
    <3> QED BY <1>6, <3>1, <3>2, OnePod, Zenon
            DEF ReportPhase, Outside, Next, ClusterNext, Kubelet
  <2> QED BY <2>2, <2>3
<1> QED BY <1>1, <1>2, <1>3, <1>4, <1>5, <1>6, Zenon DEF SandboxNext

\* The one Pod is created once and keeps its owner and its ConfigMap; nothing
\* that is deleted comes back.
LEMMA PodKept ==
  ASSUME IInv, [Next]_vars, thePod.owner # 0
  PROVE  /\ ~CreatePod
         /\ thePod'.owner = thePod.owner
         /\ thePod'.configMap = thePod.configMap
         /\ thePod'.live => thePod.live
<1>1. pods \in [PodNames -> Pods] /\ podCount \in 0..MaxPods
  BY DEF IInv, TypeOK, ClusterTypeOK
<1>2. ~CreatePod
  <2>1. ~(1 > podCount)
    BY OnePod DEF IInv, PodsOwned, thePod
  <2>2. ~(podCount < MaxPods)
    BY <1>1, <2>1, SandboxAssumption
  <2> QED BY <2>2 DEF CreatePod
<1>3. CASE \E p \in PodNames, state \in {"Running", "Unknown"} \cup FinalPodStates :
             pods' = [pods EXCEPT ![p].state = state]
  BY <1>1, <1>2, <1>3, OnePod DEF thePod, Pods
<1>4. CASE \E p \in PodNames : pods' = [pods EXCEPT ![p].live = FALSE]
  BY <1>1, <1>2, <1>4, OnePod DEF thePod, Pods
<1>5. CASE pods' = pods
  BY <1>2, <1>5 DEF thePod
<1> QED BY <1>2, <1>3, <1>4, <1>5, PodChanges, Zenon

\* There is no collector in the composition: a ConfigMap stays.
LEMMA ConfigMapKept ==
  ASSUME KInv, [SandboxNext]_allVars, NEW s \in Specs, configMaps[s] # 0
  PROVE  configMaps'[s] # 0
<1>1. configMaps \in [Specs -> Nat]
  BY DEF KInv, RInv, IInv, TypeOK, ClusterTypeOK
<1>2. CASE CreateConfigMap
  <2>1. PICK c : c = buildConfigMapName(mem)
    OBVIOUS
  <2>2. configMaps[c] = 0 /\ \E u : configMaps' = [configMaps EXCEPT ![c] = u]
    BY <1>2, <2>1, Zenon DEF CreateConfigMap
  <2> QED BY <1>1, <2>2
<1>3. CASE configMaps' = configMaps
  BY <1>3
<1>4. CreateConfigMap \/ configMaps' = configMaps
  <2>1. CASE \/ UNCHANGED allVars \/ Launch \/ AgentRuns \/ AgentKilled \/ ProxyExits \/ ProxyFails
             \/ ReportPhase \/ EvictPod \/ RemovePod \/ \E t \in Specs : Submit(t)
    BY <2>1, Zenon DEF allVars, vars, clusterVars, Launch, AgentRuns, AgentKilled, ProxyExits,
                       ProxyFails, ReportPhase, EvictPod, RemovePod, Submit, CreateTask, FinishPod,
                       SetPodState, DeletePod
  <2>2. CASE Sync
    BY <2>2, Zenon DEF Sync, SyncTask, SyncPod, SyncConfigMaps, SyncNetworkPolicy, clusterVars
  <2>3. CASE \/ ReconcileGone \/ ReconcileDeleting \/ ReconcileUninitialised
             \/ ReconcilePending \/ ReconcileInvalid \/ ReconcileBound
             \/ ConfigMapCached \/ ConfigMapAlreadyExists
    BY <2>3, Zenon DEF ReconcileGone, ReconcileDeleting, ReconcileUninitialised,
                       ReconcilePending, ReconcileInvalid, ReconcileBound, ConfigMapCached,
                       ConfigMapAlreadyExists, clusterVars
  <2>4. CASE \/ NetworkPolicyCached \/ CreateNetworkPolicy \/ NetworkPolicyAlreadyExists
             \/ CreatePod \/ PodNotFound \/ PodFound
             \/ UpdateStatus \/ UpdateConflict \/ CallRefused
    BY <2>4, Zenon DEF NetworkPolicyCached, CreateNetworkPolicy, NetworkPolicyAlreadyExists,
                       CreatePod, PodNotFound, PodFound, UpdateStatus, UpdateConflict,
                       CallRefused, clusterVars
  <2> QED BY <2>1, <2>2, <2>3, <2>4, Zenon DEF SandboxNext, Operator, Reconcile
<1> QED BY <1>2, <1>3, <1>4

-----------------------------------------------------------------------------
(***************************************************************************)
(* A step of the composition.                                              *)
(***************************************************************************)
\* The containers keep what they have mounted.
LEMMA MountedStep ==
  ASSUME KInv, Mounted, [SandboxNext]_allVars
  PROVE  Mounted'
<1>1. IInv /\ [Next]_vars
  BY OperatorStep DEF KInv, RInv
<1>2. CASE proxy = "waiting" /\ ~Launch
  <2>1. proxy' = "waiting"
    BY <1>2, Zenon DEF SandboxNext, allVars, sandboxVars, Launch, AgentRuns, AgentKilled,
                       ProxyExits, ProxyFails, ReportPhase, EvictPod, RemovePod,
                       KillContainers,
                       Operator, Submit
  <2> QED BY <2>1 DEF Mounted
<1>3. CASE Launch
  <2>1. UNCHANGED <<pods, configMaps>> /\ thePod.live /\ configMaps[thePod.configMap] # 0
    BY <1>3, Zenon DEF Launch, vars, clusterVars
  <2>2. thePod.owner # 0 /\ thePod.configMap \in Specs
    BY <1>1, <2>1, OnePod DEF IInv, PodsOwned, KInv, OwnersKnown, thePod
  <2> QED BY <2>1, <2>2 DEF Mounted, thePod
<1>4. CASE proxy # "waiting"
  <2>1. thePod.owner # 0
    BY <1>4 DEF Mounted
  <2>2. /\ thePod'.owner # 0 /\ thePod'.configMap = thePod.configMap
        /\ thePod'.live => thePod.live
    BY <1>1, <2>1, PodKept, Zenon
  <2>3. ASSUME thePod'.live
        PROVE  thePod'.configMap \in Specs /\ configMaps'[thePod'.configMap] # 0
    BY <1>4, <2>2, <2>3, ConfigMapKept DEF Mounted
  <2> QED BY <2>2, <2>3 DEF Mounted
<1> QED BY <1>2, <1>3, <1>4

\* The process is killed with its Pod, or has ended before.
LEMMA KillStep ==
  ASSUME ProcessEnds, KillContainers
  PROVE  /\ ProcessEnds'
         /\ proxy' = proxy \/ (proxy = "running" /\ proxy' = "failed")
         /\ agentPc = "exited" /\ proxy # "running" => UNCHANGED <<agentPc, exit, proxy>>
<1>1. proxy' = proxy \/ (proxy = "running" /\ proxy' = "failed")
  BY DEF KillContainers
<1>2. CASE UNCHANGED agentVars
  BY <1>1, <1>2, Zenon DEF agentVars, ProcessEnds
<1>3. CASE Agent!Kill
  BY <1>1, <1>3, ProcessStep, AgentStep, Zenon DEF ProcessEnds
<1> QED BY <1>2, <1>3, Zenon DEF KillContainers

\* Containers and Pod end together: a report of the kubelet is one of how the
\* containers ended, and one that still runs is in a Pod that has not ended.
LEMMA EndsStep ==
  ASSUME KInv, ProcessEnds, PodEnds, Mounted, [SandboxNext]_allVars
  PROVE  ProcessEnds' /\ PodEnds'
<1>0. pods \in [PodNames -> Pods]
  BY DEF KInv, RInv, IInv, TypeOK, ClusterTypeOK
<1>1. CASE Operator \/ \E s \in Specs : Submit(s)
  <2>1. UNCHANGED agentVars /\ proxy' = proxy
    BY <1>1, Zenon DEF Operator, Submit, sandboxVars
  <2>2. ProcessEnds' /\ exit' = exit /\ agentPc' = agentPc /\ proxy' = proxy
    BY <2>1, Zenon DEF agentVars, ProcessEnds
  <2>3. pods' = pods \/ CreatePod
    BY <1>1, Zenon DEF Operator, Submit, CreateTask, Sync, SyncTask, SyncPod, SyncConfigMaps,
                       SyncNetworkPolicy, Reconcile, ReconcileGone, ReconcileDeleting,
                       ReconcileUninitialised, ReconcilePending, ReconcileInvalid,
                       ReconcileBound, ConfigMapCached, CreateConfigMap,
                       ConfigMapAlreadyExists, NetworkPolicyCached, CreateNetworkPolicy,
                       NetworkPolicyAlreadyExists, PodNotFound, PodFound, UpdateStatus,
                       UpdateConflict, CallRefused, clusterVars
  <2>4. CASE pods' = pods
    BY <2>2, <2>4 DEF PodEnds, thePod
  <2>5. CASE CreatePod
    <3>1. podCount + 1 = 1 /\ pods' = [pods EXCEPT ![podCount + 1] = buildPodForAgentTask(mem)]
      BY <2>5, SandboxAssumption DEF CreatePod, KInv, RInv, IInv, TypeOK, ClusterTypeOK
    <3>2. pods'[1] = buildPodForAgentTask(mem)
      BY <1>0, <3>1, OnePod
    <3> QED BY <2>2, <3>2 DEF PodEnds, thePod, buildPodForAgentTask
  <2> QED BY <2>3, <2>4, <2>5
<1>2. CASE Launch \/ ProxyExits \/ ProxyFails
  <2>1. /\ UNCHANGED <<pods, agentVars>>
        /\ proxy' \in {"running", "ok", "failed"}
        /\ thePod.state = "Pending" \/ proxy = "running"
    BY <1>2, Zenon DEF Launch, ProxyExits, ProxyFails, vars, clusterVars
  <2>2. thePod.state # "Succeeded" /\ thePod.state # "Failed"
    BY <2>1 DEF PodEnds
  <2> QED BY <2>1, <2>2, Zenon DEF agentVars, ProcessEnds, PodEnds, thePod
<1>u. CASE UNCHANGED allVars
  <2>1. UNCHANGED <<pods, agentVars, proxy>>
    BY <1>u, Zenon DEF allVars, sandboxVars, vars, clusterVars
  <2> QED BY <2>1, Zenon DEF agentVars, ProcessEnds, PodEnds, thePod
<1>3. CASE AgentRuns \/ AgentKilled
  <2>1. pods' = pods /\ proxy' = proxy /\ (Agent!Run \/ Agent!Kill)
    BY <1>3, Zenon DEF AgentRuns, AgentKilled, vars, clusterVars
  <2>2. thePod.state # "Succeeded" /\ thePod.state # "Failed"
    BY <2>1, AgentStep DEF ProcessEnds, PodEnds
  <2> QED BY <2>1, <2>2, ProcessStep, Zenon DEF PodEnds, thePod
<1>4. CASE ReportPhase
  <2>1. /\ UNCHANGED <<agentVars, proxy>> /\ proxy # "waiting"
        /\ pods' = [pods EXCEPT ![1].state = PodPhase]
    BY <1>4, Zenon DEF ReportPhase, sandboxVars, SetPodState
  <2>2. /\ ProcessEnds' /\ exit' = exit /\ agentPc' = agentPc
        /\ proxy' = proxy /\ proxy # "waiting"
    BY <2>1, Zenon DEF agentVars, ProcessEnds
  <2>3. thePod'.state = PodPhase
    BY <1>0, <2>1, OnePod DEF thePod, Pods
  <2> QED BY <2>2, <2>3, PhaseReported DEF PodEnds, ProcessEnds
<1>5. CASE EvictPod
  <2>1. KillContainers /\ pods' = [pods EXCEPT ![1].state = "Evicted"]
    BY <1>5, Zenon DEF EvictPod, FinishPod, SetPodState
  <2>2. thePod'.state = "Evicted"
    BY <1>0, <2>1, OnePod DEF thePod, Pods
  <2>3. proxy' \in {"waiting", "running", "ok", "failed"}
    BY <2>1, KillStep DEF PodEnds
  <2> QED BY <2>1, <2>2, <2>3, KillStep DEF PodEnds
<1>6. CASE RemovePod
  <2>1. KillContainers /\ pods' = [pods EXCEPT ![1].live = FALSE]
    BY <1>6, Zenon DEF RemovePod, DeletePod
  <2>2. thePod'.state = thePod.state
    BY <1>0, <2>1, OnePod DEF thePod, Pods
  <2>3. proxy' \in {"waiting", "running", "ok", "failed"}
    BY <2>1, KillStep DEF PodEnds
  <2>4. thePod.state \in {"Succeeded", "Failed"} => UNCHANGED <<agentPc, exit, proxy>>
    BY <2>1, KillStep DEF PodEnds, ProcessEnds
  <2> QED BY <2>1, <2>2, <2>3, <2>4, KillStep DEF PodEnds
<1> QED BY <1>1, <1>2, <1>3, <1>4, <1>5, <1>6, <1>u, Zenon DEF SandboxNext

\* Nothing has started.
LEMMA InitPInv == SandboxInit => PInv
<1> SUFFICES ASSUME SandboxInit PROVE PInv
  OBVIOUS
<1>1. KInv /\ Mounted
  BY InitKInv DEF SandboxInit, Mounted
<1>2. log = <<>> /\ agentPc = "agent_start" /\ exit = "running"
  BY DEF SandboxInit, Agent!Init, Agent!EventsInit
<1>3. ProcessEnds
  <2>1. log \in Seq({})
    BY <1>2
  <2> QED BY <1>2, <2>1 DEF ProcessEnds
<1>4. PodEnds
  BY OnePod DEF SandboxInit, Init, ClusterInit, PodEnds, thePod, NoPod
<1> QED BY <1>1, <1>3, <1>4 DEF PInv

\* PInv is an invariant of the composition.
LEMMA SandboxInvariance == SandboxSpec => []PInv
<1>1. PInv /\ [SandboxNext]_allVars => PInv'
  BY OperatorStep, NextKInv, MountedStep, EndsStep DEF PInv
<1> QED BY <1>1, InitPInv, PTL DEF SandboxSpec

-----------------------------------------------------------------------------
\* What a task reports is true of the processes in its Pod: Completed only if the
\* agent exited with 0 behind agent_done and the proxy with 0, "Pod failed." only
\* if the agent crashed or was killed or the proxy failed, however the operator's
\* caches and the kubelet's reports lag and whatever happens to the Pod.
THEOREM ProcessMatched == SandboxSpec => []StatusMatchesProcess
<1>1. ASSUME PInv PROVE StatusMatchesProcess
  <2> DEFINE st == task.status
  <2>1. /\ task \in Tasks /\ st \in Statuses
        /\ task.uid = 0 => task = NoTask
        /\ task.uid # 0 => Truthful(task, pods) /\ CopySound(task, pods, cachePods)
    BY <1>1 DEF PInv, KInv, RInv, IInv, TypeOK, ClusterTypeOK, Tasks, NothingLeft, AllHonest,
                Honest, CopiesSound, Copies
  <2>2. CASE task.uid = 0
    <3>1. NoTask.status.phase = "" /\ NoTask.status.reason = ""
      BY DEF NoTask, NoStatus
    <3>2. task.status.phase = "" /\ task.status.reason = ""
      BY <2>1, <2>2, <3>1
    <3> QED BY <3>2, Zenon DEF StatusMatchesProcess
  <2>3. CASE task.uid # 0
    <3>1. ASSUME st.phase = "Completed"
          PROVE  thePod.state = "Succeeded"
      <4>1. st.podName # 0
        BY <2>1, <2>3, <3>1, SandboxAssumption DEF CopySound
      <4>2. st.podName = 1
        BY <2>1, <4>1, OnePod DEF Statuses
      <4> QED BY <2>1, <2>3, <3>1, <4>1, <4>2 DEF Truthful, thePod
    <3>2. ASSUME st.reason = "Pod failed."
          PROVE  thePod.state = "Failed"
      <4>1. ReportedOutcome(st) = "Failed"
        BY <2>1, <3>2, Outcomes, Zenon
      <4>2. /\ st.phase = Lifecycle!PhaseOf("Failed")
            /\ st.podName # 0 => pods[st.podName].state = "Failed"
        BY <2>1, <2>3, <4>1 DEF CopySound, OutcomeTrue
      <4>3. st.podName # 0
        BY <2>1, <2>3, <4>2, SandboxAssumption DEF CopySound, Lifecycle!PhaseOf
      <4>4. st.podName = 1
        BY <2>1, <4>3, OnePod DEF Statuses
      <4> QED BY <4>2, <4>3, <4>4 DEF thePod
    <3> QED BY <1>1, <3>1, <3>2, Zenon DEF PInv, PodEnds, ProcessEnds, StatusMatchesProcess
  <2> QED BY <2>2, <2>3
<1> QED BY <1>1, SandboxInvariance, PTL

\* The composition adds nothing to what its parts do: seen from the cluster it is
\* the operator of AgentTaskController, seen from the container the loop of
\* AgentLoop.  So what is proved of either (StatusTruthful, the lifecycle of a
\* task, a well-formed stream) holds of a whole task.
THEOREM Composition == SandboxSpec => Spec /\ Agent!Spec
<1>1. SandboxInit => Init /\ Agent!Init
  BY DEF SandboxInit
<1>2. PInv /\ [SandboxNext]_allVars => [Next]_vars
  BY OperatorStep DEF PInv
<1>3. [SandboxNext]_allVars => [Agent!Next]_(Agent!vars)
  <2>1. UNCHANGED agentVars => UNCHANGED Agent!vars
    BY Zenon DEF agentVars, Agent!vars, Agent!eventVars, Agent!loopVars
  <2> QED BY <2>1, Zenon DEF SandboxNext, allVars, sandboxVars, Operator, Submit, Launch,
            AgentRuns, AgentKilled, ProxyExits, ProxyFails, ReportPhase, EvictPod, RemovePod,
            KillContainers, Agent!Next
<1> QED BY <1>1, <1>2, <1>3, SandboxInvariance, PTL DEF SandboxSpec, Spec, Agent!Spec

=============================================================================
