-------------------------------- MODULE SandboxPod --------------------------------
(***************************************************************************)
(* A task from end to end: the operator (AgentTaskController), and inside  *)
(* its Pod the agent container, which runs AgentLoop, and the proxy        *)
(* container, for now a shell that sleeps 30 seconds and exits 0           *)
(* (pod_builder.go).  Both start once the ConfigMap can be mounted and are *)
(* never restarted (RestartPolicyNever).                                   *)
(*                                                                         *)
(* The kubelet reports the phase of the Pod from time to time: Running as  *)
(* long as a container runs, then Succeeded if both exited with 0, else    *)
(* Failed.  One task, which is not deleted, and one Pod: what may cause a  *)
(* second one (a fault of the operator or a stale read) is not part of the *)
(* composition and left to AgentTaskController alone.                      *)
(***************************************************************************)
EXTENDS AgentTaskController, Sequences

CONSTANTS MaxSteps, MaxTools, Tokens, MaxEmitFaults

\* One Pod, a status that nobody edits, and containers that decide how it ends.
ASSUME SandboxAssumption ==
  /\ MaxPods = 1
  /\ ~StatusEdits
  /\ FinalPodStates \subseteq PodOutcomes

VARIABLES
  agentPc, log, writerStep, emitFaults, step, messages, resp, call, results, tokens,
  outcome, exit, written,  \* the agent, see AgentLoop
  proxy                    \* "waiting", "running", "ok" (exited with 0) or "failed"

Agent == INSTANCE AgentLoop WITH pc <- agentPc

agentVars   == <<agentPc, log, writerStep, emitFaults, step, messages, resp, call,
                 results, tokens, outcome, exit, written>>
sandboxVars == <<agentVars, proxy>>
allVars     == <<vars, sandboxVars>>

thePod == pods[1]

SandboxInit ==
  /\ Init
  /\ Agent!Init
  /\ proxy = "waiting"

-----------------------------------------------------------------------------
(***************************************************************************)
(* The containers.                                                         *)
(***************************************************************************)
\* The operator's own steps and what it is not responsible for.
Outside == UNCHANGED <<workerVars, cacheVars, faults>>

\* The ConfigMap is mounted at /etc/agent-anvil and the containers start.
Launch ==
  /\ thePod.live
  /\ thePod.state = "Pending"
  /\ configMaps[thePod.configMap] # 0
  /\ proxy = "waiting"
  /\ proxy' = "running"
  /\ UNCHANGED <<vars, agentVars>>

AgentRuns ==
  /\ proxy # "waiting"
  /\ Agent!Run
  /\ UNCHANGED <<vars, proxy>>

\* Out of memory: only this container is killed.
AgentKilled ==
  /\ proxy # "waiting"
  /\ Agent!Kill
  /\ UNCHANGED <<vars, proxy>>

MutantProxyExits ==
  /\ proxy = "running"
  /\ UNCHANGED allVars

\* sleep 30 ends on its own and does not wait for the agent.
ProxyExits ==
  /\ proxy = "running"
  /\ proxy' = "ok"
  /\ UNCHANGED <<vars, agentVars>>

\* Its process cannot be started, or is killed because it is out of memory.
ProxyFails ==
  /\ proxy = "running"
  /\ proxy' = "failed"
  /\ UNCHANGED <<vars, agentVars>>

\* The Pod is going: whatever still runs is killed.
KillContainers ==
  /\ proxy' = IF proxy = "running" THEN "failed" ELSE proxy
  /\ IF proxy = "waiting" \/ agentPc = "exited" THEN UNCHANGED agentVars ELSE Agent!Kill

-----------------------------------------------------------------------------
(***************************************************************************)
(* The kubelet.                                                            *)
(***************************************************************************)
PodPhase ==
  CASE agentPc # "exited" \/ proxy = "running" -> "Running"
    [] exit = "ok" /\ proxy = "ok"             -> "Succeeded"
    [] OTHER                                   -> "Failed"

ReportPhase ==
  /\ thePod.live
  /\ thePod.state \in {"Pending", "Running"}
  /\ proxy # "waiting"
  /\ thePod.state # PodPhase
  /\ SetPodState(1, PodPhase)
  /\ Outside
  /\ UNCHANGED sandboxVars

EvictPod ==
  /\ FinishPod(1, "Evicted")
  /\ KillContainers
  /\ Outside

RemovePod ==
  /\ DeletePod(1)
  /\ KillContainers
  /\ Outside

-----------------------------------------------------------------------------
Operator ==
  /\ Reconcile \/ Sync
  /\ UNCHANGED sandboxVars

Submit(s) ==
  /\ CreateTask(s)
  /\ Outside
  /\ UNCHANGED sandboxVars

SandboxNext ==
  \/ \E s \in Specs : Submit(s)
  \/ Operator
  \/ Launch \/ AgentRuns \/ AgentKilled \/ ProxyExits \/ ProxyFails
  \/ ReportPhase \/ EvictPod \/ RemovePod

\* The operator's fairness; containers start, run and are reported.
SandboxFairness ==
  /\ WF_allVars(Reconcile /\ UNCHANGED sandboxVars)
  /\ WF_allVars(SyncTask /\ UNCHANGED sandboxVars)
  /\ WF_allVars(SyncPod(1) /\ UNCHANGED sandboxVars)
  /\ WF_allVars(SyncConfigMaps /\ UNCHANGED sandboxVars)
  /\ WF_allVars(SyncNetworkPolicy /\ UNCHANGED sandboxVars)
  /\ WF_allVars(Launch)
  /\ WF_allVars(AgentRuns)
  /\ WF_allVars(ProxyExits)
  /\ WF_allVars(ReportPhase)

SandboxSpec == SandboxInit /\ [][SandboxNext]_allVars /\ SandboxFairness

-----------------------------------------------------------------------------
(***************************************************************************)
(* Properties.                                                             *)
(***************************************************************************)
\* What a task says of its Pod is true of the processes: Completed only if the
\* agent came to the end of its loop, the stream is closed by agent_done, whatever
\* the agent's own outcome was, and the proxy exited with 0; "Pod failed." only if
\* the agent crashed or was killed or the proxy failed.  Which of these it was
\* (exit code 1, 137, the proxy) the status does not tell
\* (agenttask_controller.go:227-273, __main__.py:137-142).
StatusMatchesProcess ==
  LET st == task.status
  IN  /\ st.phase = "Completed" =>
           /\ exit = "ok" /\ log # <<>> /\ log[Len(log)].type = "agent_done"
           /\ proxy = "ok"
      /\ st.reason = "Pod failed." => exit \in {"crashed", "killed"} \/ proxy = "failed"

\* A submitted task comes to an end: the agent's process ends by itself, its end
\* and that of the proxy become the end of the Pod, and the task reports it.
SubmittedTaskEnds ==
  task.uid # 0 ~>
    \/ task.status.reason \in {"Pod completed successfully.", "Pod failed.",
                               "Pod was evicted."}
    \/ ~thePod.live /\ task.status.phase \in TerminalPhases

=============================================================================
