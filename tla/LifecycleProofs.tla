------------------------------ MODULE LifecycleProofs ------------------------------
(***************************************************************************)
(* AgentTaskController implements TaskLifecycle, an outcome is final, and  *)
(* the Pods of the first task have what they need, for every set of specs  *)
(* and every bound.                                                        *)
(***************************************************************************)
EXTENDS LifecycleRefinement, AgentTaskControllerProofs

(***************************************************************************)
(* The invariant that IInv needs to be strengthened by.  The operator goes *)
(* back from Running, or from an outcome, only if the cache shows an older *)
(* state of the Pod than the one the status came from.  It does not: the   *)
(* status came from this cache, which follows the Pod.                     *)
(***************************************************************************)
Copies == {task, cacheTask, mem}

\* An outcome is told by the phase and true of the Pod.
OutcomeTrue(t, ps) ==
  ReportedOutcome(t.status) # "None" =>
    /\ t.status.phase = Lifecycle!PhaseOf(ReportedOutcome(t.status))
    /\ t.status.finishedAt # 0
    /\ t.status.podName # 0 =>
         ps[t.status.podName].state = ReportedOutcome(t.status)

\* What the cache shows of the Pod is as recent as what the status tells of it.
CacheKnows(t, cached) ==
  t.status.podName # 0 /\ cached[t.status.podName].live =>
    /\ t.status.startedAt # 0 => cached[t.status.podName].state # "Pending"
    /\ ReportedOutcome(t.status) # "None" =>
         cached[t.status.podName].state = ReportedOutcome(t.status)

\* What holds of every copy of the task.  Nobody but an administrator empties
\* podName.
CopySound(t, ps, cached) ==
  t.uid # 0 =>
    /\ OutcomeTrue(t, ps)
    /\ CacheKnows(t, cached)
    /\ ~StatusEdits /\ t.status.phase \notin {"", "Pending"} => t.status.podName # 0

\* new has the life that is put together from these parts.
Lives(new, uid, phase, podName, ran, outcome) ==
  /\ new.uid = uid
  /\ new.status.phase = phase
  /\ new.status.podName = podName
  /\ new.status.startedAt # 0 <=> ran
  /\ ReportedOutcome(new.status) = outcome

\* The moves of TaskLifecycle that change only the life of a task, from t to new.
Move(t, new, ps) ==
  LET st   == t.status
      ran  == st.startedAt # 0
      o    == ReportedOutcome(st)
      fate == ps[st.podName].state
  IN
  \/ Lives(new, t.uid, st.phase, st.podName, ran, o)
  \/ /\ t.uid # 0 /\ st.phase = ""
     /\ Lives(new, t.uid, "Pending", st.podName, ran, o)
  \/ /\ st.phase = "Pending" /\ st.podName = 0
     /\ \E p \in PodNames : /\ ps[p].owner = t.uid
                            /\ Lives(new, t.uid, "Provisioning", p, ran, o)
  \/ /\ st.podName # 0 /\ o = "None"
     /\ \/ ~ran /\ Lives(new, t.uid, "Provisioning", st.podName, ran, o)
        \/ Lives(new, t.uid, "Running", st.podName, TRUE, o)
        \/ Lives(new, t.uid, "Failed", st.podName, ran, o)
        \/ /\ fate \in FinalPodStates
           /\ Lives(new, t.uid, Lifecycle!PhaseOf(fate), st.podName, ran, fate)
  \/ /\ st.podName = 0 /\ st.phase \notin {"", "Pending"}
     /\ Lives(new, t.uid, "Failed", st.podName, ran, "None")

\* new is one move away from t, and no move at all from an outcome.
Advances(t, new, ps) ==
  /\ Move(t, new, ps)
  /\ ReportedOutcome(t.status) # "None" /\ t.status.podName # 0 =>
       new.status = t.status

\* Every copy is sound and of a task that was submitted.
CopiesSound ==
  \A t \in Copies : t.uid \in 0..uids /\ CopySound(t, pods, cachePods)

\* A status that is about to be written and will meet no conflict advances the
\* stored one.
NextMove == pc = "updateStatus" /\ mem.rv = task.rv => Advances(task, mem, pods)

\* There is nothing in a task, or in a Pod, that does not exist.
NothingLeft ==
  /\ task.uid = 0 => task = NoTask
  /\ \A p \in PodNames : pods[p].owner = 0 => pods[p].state \notin FinalPodStates

RInv == IInv /\ CopiesSound /\ NextMove /\ NothingLeft

-----------------------------------------------------------------------------
(***************************************************************************)
(* The statuses that Reconcile computes.                                   *)
(***************************************************************************)
\* A task reports an outcome or none; nothing else is recorded in the reason.
LEMMA Outcomes ==
  ASSUME NEW st \in Statuses
  PROVE  /\ ReportedOutcome(st) \in FinalPodStates \cup {"None"}
         /\ ReportedOutcome(st) = "Succeeded" <=> st.reason = "Pod completed successfully."
         /\ ReportedOutcome(st) = "Evicted" <=> st.reason = "Pod was evicted."
         /\ ReportedOutcome(st) = "Failed" <=> st.reason = "Pod failed."
  BY DEF ReportedOutcome, FinalPodStates

\* An outcome is told in a terminal phase.
LEMMA PhaseOfOutcome ==
  /\ Lifecycle!PhaseOf("Succeeded") = "Completed"
  /\ Lifecycle!PhaseOf("Evicted") = "Evicted"
  /\ Lifecycle!PhaseOf("Failed") = "Failed"
  BY DEF Lifecycle!PhaseOf

\* The first status update.
LEMMA AcceptAdvances ==
  ASSUME NEW t \in Tasks, NEW ps, NEW cached, Honest(t, ps), CopySound(t, ps, cached),
         t.uid # 0, t.status.phase = ""
  PROVE  LET new == [t EXCEPT !.status.phase = "Pending", !.status.podName = 0]
         IN  CopySound(new, ps, cached) /\ Advances(t, new, ps)
<1> DEFINE new == [t EXCEPT !.status.phase = "Pending", !.status.podName = 0]
<1>1. t.status \in Statuses /\ new.uid = t.uid
  BY DEF Tasks
<1>2. /\ new.status.phase = "Pending" /\ new.status.podName = 0
      /\ new.status.startedAt = t.status.startedAt /\ new.status.reason = t.status.reason
  BY <1>1 DEF Tasks, Statuses
<1>3. t.status.podName = 0
  BY DEF Honest, Truthful
<1>4. ReportedOutcome(t.status) = "None"
  BY <1>1, Outcomes, PhaseOfOutcome DEF CopySound, OutcomeTrue, FinalPodStates
<1>5. ReportedOutcome(new.status) = "None"
  BY <1>2, <1>4 DEF ReportedOutcome
<1> HIDE DEF new
<1>6. CopySound(new, ps, cached)
  BY <1>2, <1>5 DEF CopySound, OutcomeTrue, CacheKnows
<1>7. Advances(t, new, ps)
  BY <1>1, <1>2, <1>3, <1>4, <1>5 DEF Advances, Move, Lives
<1> QED BY <1>6, <1>7 DEF new

\* A task without a Pod that does not wait for one.
LEMMA InvalidAdvances ==
  ASSUME NEW t \in Tasks, NEW ps, NEW cached, NEW when \in Nat \ {0},
         CopySound(t, ps, cached), t.uid # 0,
         t.status.podName = 0, t.status.phase \notin {"", "Pending"}
  PROVE  LET new == [t EXCEPT !.status = Fail(@, "Invalid state", when)]
         IN  CopySound(new, ps, cached) /\ Advances(t, new, ps)
<1> DEFINE new == [t EXCEPT !.status = Fail(@, "Invalid state", when)]
<1>1. t.status \in Statuses /\ new.uid = t.uid
  BY DEF Tasks
<1>2. /\ new.status.phase = "Failed" /\ new.status.podName = 0
      /\ new.status.startedAt = t.status.startedAt /\ new.status.reason = "Invalid state"
  BY <1>1 DEF Tasks, Statuses, Fail
<1>3. ReportedOutcome(new.status) = "None"
  BY <1>2 DEF ReportedOutcome
<1> HIDE DEF new
<1>4. CopySound(new, ps, cached)
  BY <1>1, <1>2, <1>3 DEF CopySound, OutcomeTrue, CacheKnows
<1>5. Advances(t, new, ps)
  BY <1>1, <1>2, <1>3 DEF Advances, Move, Lives
<1> QED BY <1>4, <1>5 DEF new

\* The Pod p has been created for the task.
LEMMA BindAdvances ==
  ASSUME NEW t \in Tasks, NEW ps, NEW cached, NEW p \in PodNames,
         Honest(t, ps), CopySound(t, ps, cached), t.uid # 0,
         t.status.podName = 0, t.status.phase = "Pending", ps[p].owner = t.uid
  PROVE  LET new == [t EXCEPT !.status.podName = p, !.status.phase = "Provisioning"]
         IN  CopySound(new, ps, cached) /\ Advances(t, new, ps)
<1> DEFINE new == [t EXCEPT !.status.podName = p, !.status.phase = "Provisioning"]
<1>1. t.status \in Statuses /\ new.uid = t.uid /\ p # 0
  BY APIAssumption DEF Tasks, PodNames
<1>2. /\ new.status.phase = "Provisioning" /\ new.status.podName = p
      /\ new.status.startedAt = t.status.startedAt /\ new.status.reason = t.status.reason
  BY <1>1 DEF Tasks, Statuses
<1>3. t.status.startedAt = 0
  BY DEF Honest
<1>4. ReportedOutcome(t.status) = "None"
  BY <1>1, Outcomes, PhaseOfOutcome DEF CopySound, OutcomeTrue, FinalPodStates
<1>5. ReportedOutcome(new.status) = "None"
  BY <1>2, <1>4 DEF ReportedOutcome
<1> HIDE DEF new
<1>6. CopySound(new, ps, cached)
  BY <1>1, <1>2, <1>3, <1>5 DEF CopySound, OutcomeTrue, CacheKnows
<1>7. Advances(t, new, ps)
  BY <1>1, <1>2, <1>3, <1>4, <1>5 DEF Advances, Move, Lives
<1> QED BY <1>6, <1>7 DEF new

\* The Pod is not in the cache, and the task is in no terminal phase.
LEMMA LostAdvances ==
  ASSUME NEW t \in Tasks, NEW ps, NEW cached, NEW when \in Nat \ {0},
         CopySound(t, ps, cached), t.uid # 0, t.status.podName # 0,
         ~cached[t.status.podName].live, t.status.phase \notin TerminalPhases
  PROVE  LET new == [t EXCEPT !.status = Fail(@, "Pod not found", when)]
         IN  CopySound(new, ps, cached) /\ Advances(t, new, ps)
<1> DEFINE new == [t EXCEPT !.status = Fail(@, "Pod not found", when)]
<1>1. t.status \in Statuses /\ new.uid = t.uid
  BY DEF Tasks
<1>2. /\ new.status.phase = "Failed" /\ new.status.podName = t.status.podName
      /\ new.status.startedAt = t.status.startedAt /\ new.status.reason = "Pod not found"
  BY <1>1 DEF Tasks, Statuses, Fail
<1>3. ReportedOutcome(new.status) = "None"
  BY <1>2 DEF ReportedOutcome
<1>4. ReportedOutcome(t.status) = "None"
  BY <1>1, Outcomes, PhaseOfOutcome DEF CopySound, OutcomeTrue, FinalPodStates, TerminalPhases
<1> HIDE DEF new
<1>5. CopySound(new, ps, cached)
  BY <1>1, <1>2, <1>3 DEF CopySound, OutcomeTrue, CacheKnows
<1>6. Advances(t, new, ps)
  BY <1>1, <1>2, <1>3, <1>4 DEF Advances, Move, Lives
<1> QED BY <1>5, <1>6 DEF new

\* The cache shows the Pod.  A task with an outcome is left as it is, because
\* what the cache shows is that outcome.
LEMMA SeenAdvances ==
  ASSUME NEW t \in Tasks, NEW ps, NEW cached, NEW when \in Nat \ {0},
         Honest(t, ps), CopySound(t, ps, cached), t.uid # 0, t.status.podName # 0,
         cached[t.status.podName].live,
         Follows(cached[t.status.podName], ps[t.status.podName])
  PROVE  LET new == [t EXCEPT !.status =
                       StatusFromPod(t.status, cached[t.status.podName].state, when)]
         IN  CopySound(new, ps, cached) /\ Advances(t, new, ps)
<1> DEFINE seen == cached[t.status.podName].state
           st   == StatusFromPod(t.status, seen, when)
           new  == [t EXCEPT !.status = st]
           pod  == ps[t.status.podName]
           o    == ReportedOutcome(t.status)
<1>1. /\ t.status \in Statuses
      /\ new.status = st /\ new.uid = t.uid
      /\ t.status.startedAt # 0 => seen # "Pending"
      /\ o # "None" => seen = o /\ t.status.phase = Lifecycle!PhaseOf(o)
                       /\ t.status.finishedAt # 0
      /\ seen \in FinalPodStates => pod.state = seen
  BY DEF Tasks, CopySound, CacheKnows, OutcomeTrue, Follows
<1> HIDE DEF seen, new
<1>2. st \in Statuses /\ st.podName = t.status.podName
  BY <1>1 DEF StatusFromPod, Finish, Stamp, Statuses, Phases, TerminalPhases, Reasons
<1>3. CASE o # "None"
  <2>1. seen \in FinalPodStates
    BY <1>1, <1>3, Outcomes
  <2>2. st = t.status
    <3>1. \/ /\ seen = "Succeeded" /\ t.status.phase = "Completed"
             /\ t.status.reason = "Pod completed successfully."
          \/ /\ seen = "Evicted" /\ t.status.phase = "Evicted"
             /\ t.status.reason = "Pod was evicted."
          \/ /\ seen = "Failed" /\ t.status.phase = "Failed"
             /\ t.status.reason = "Pod failed."
      BY <1>1, <1>3, <2>1, Outcomes, PhaseOfOutcome DEF FinalPodStates
    <3>2. /\ st.phase = t.status.phase /\ st.startedAt = t.status.startedAt
          /\ st.finishedAt = t.status.finishedAt /\ st.reason = t.status.reason
      BY <1>1, <1>3, <3>1 DEF StatusFromPod, Finish, Stamp, Statuses
    <3> HIDE DEF st
    <3> QED BY <1>1, <1>2, <3>2 DEF Statuses
  <2> HIDE DEF st
  <2>3. CopySound(new, ps, cached)
    BY <1>1, <2>2 DEF CopySound, OutcomeTrue, CacheKnows
  <2>4. Advances(t, new, ps)
    BY <1>1, <2>2 DEF Advances, Move, Lives
  <2> QED BY <2>3, <2>4 DEF new, seen, st
<1>4. CASE o = "None"
  <2>1. CASE seen = "Pending"
    <3>1. /\ st.phase = "Provisioning" /\ st.reason = t.status.reason
          /\ st.startedAt = t.status.startedAt
      BY <1>1, <2>1 DEF StatusFromPod, Statuses
    <3>2. ReportedOutcome(st) = "None"
      BY <1>4, <3>1 DEF ReportedOutcome
    <3> HIDE DEF st
    <3>3. CopySound(new, ps, cached)
      BY <1>1, <1>2, <2>1, <3>1, <3>2 DEF CopySound, OutcomeTrue, CacheKnows
    <3>4. Advances(t, new, ps)
      BY <1>1, <1>2, <1>4, <2>1, <3>1, <3>2 DEF Advances, Move, Lives
    <3> QED BY <3>3, <3>4 DEF new, seen, st
  <2>2. CASE seen = "Running"
    <3>1. st.phase = "Running" /\ st.reason = t.status.reason /\ st.startedAt # 0
      BY <1>1, <2>2 DEF StatusFromPod, Stamp, Statuses
    <3>2. ReportedOutcome(st) = "None"
      BY <1>4, <3>1 DEF ReportedOutcome
    <3> HIDE DEF st
    <3>3. CopySound(new, ps, cached)
      BY <1>1, <1>2, <2>2, <3>1, <3>2 DEF CopySound, OutcomeTrue, CacheKnows, seen
    <3>4. Advances(t, new, ps)
      BY <1>1, <1>2, <1>4, <3>1, <3>2 DEF Advances, Move, Lives
    <3> QED BY <3>3, <3>4 DEF new, seen, st
  <2>3. CASE seen \in FinalPodStates
    <3>1. /\ st.phase = Lifecycle!PhaseOf(seen) /\ st.finishedAt # 0
          /\ st.startedAt = t.status.startedAt
      BY <1>1, <2>3, PhaseOfOutcome DEF StatusFromPod, Finish, Stamp, Statuses, FinalPodStates
    <3>2. ReportedOutcome(st) = seen
      <4>1. \/ seen = "Succeeded" /\ st.reason = "Pod completed successfully."
            \/ seen = "Evicted" /\ st.reason = "Pod was evicted."
            \/ seen = "Failed" /\ st.reason = "Pod failed."
        BY <1>1, <2>3 DEF StatusFromPod, Finish, Statuses, FinalPodStates
      <4> HIDE DEF st
      <4> QED BY <1>2, <4>1, Outcomes
    <3> HIDE DEF st
    <3>3. CopySound(new, ps, cached)
      BY <1>1, <1>2, <2>3, <3>1, <3>2 DEF CopySound, OutcomeTrue, CacheKnows, seen, FinalPodStates
    <3>4. Advances(t, new, ps)
      BY <1>1, <1>2, <1>4, <2>3, <3>1, <3>2 DEF Advances, Move, Lives
    <3> QED BY <3>3, <3>4 DEF new, seen, st
  <2>4. CASE seen \notin {"Pending", "Running"} \cup FinalPodStates
    <3>1. /\ st.phase = "Failed" /\ st.reason = "Pod in unexpected phase"
          /\ st.startedAt = t.status.startedAt
      BY <1>1, <2>4 DEF StatusFromPod, Finish, Statuses, FinalPodStates
    <3>2. ReportedOutcome(st) = "None"
      BY <3>1 DEF ReportedOutcome
    <3> HIDE DEF st
    <3>3. CopySound(new, ps, cached)
      BY <1>1, <1>2, <2>4, <3>1, <3>2 DEF CopySound, OutcomeTrue, CacheKnows, seen
    <3>4. Advances(t, new, ps)
      BY <1>1, <1>2, <1>4, <3>1, <3>2 DEF Advances, Move, Lives
    <3> QED BY <3>3, <3>4 DEF new, seen, st
  <2> QED BY <2>1, <2>2, <2>3, <2>4
<1> QED BY <1>3, <1>4

-----------------------------------------------------------------------------
(***************************************************************************)
(* Steps that leave a copy as it is.                                       *)
(***************************************************************************)
\* The cache of Pods stays or catches up with the Pods.
CaughtUp(cached, new, ps) ==
  \A p \in PodNames : new[p] = cached[p] \/ new[p] = Listed(ps[p])

\* Neither the Pods nor the cache make a copy unsound.
LEMMA CopyStable ==
  ASSUME NEW t \in Tasks, NEW ps, NEW qs, NEW cached, NEW new,
         Progress(ps, qs), CaughtUp(cached, new, ps),
         Honest(t, ps), CopySound(t, ps, cached)
  PROVE  CopySound(t, qs, new)
<1> SUFFICES ASSUME t.uid # 0, t.status.podName # 0
             PROVE  OutcomeTrue(t, qs) /\ CacheKnows(t, new)
  BY DEF CopySound, OutcomeTrue, CacheKnows
<1> DEFINE p == t.status.podName
           o == ReportedOutcome(t.status)
<1>1. p \in PodNames /\ o \in FinalPodStates \cup {"None"}
  BY Outcomes DEF Tasks, Statuses
<1>2. /\ ps[p].owner # 0
      /\ t.status.startedAt # 0 => ps[p].state # "Pending"
  BY DEF Honest, Truthful
<1>3. /\ ps[p].state \in FinalPodStates => qs[p].state = ps[p].state
      /\ new[p] = cached[p] \/ new[p] = Listed(ps[p])
  BY <1>1, <1>2 DEF Progress, CaughtUp
<1>4. OutcomeTrue(t, qs)
  BY <1>1, <1>3 DEF CopySound, OutcomeTrue
<1>5. CacheKnows(t, new)
  <2>1. CASE new[p] = cached[p]
    BY <2>1 DEF CopySound, CacheKnows
  <2>2. CASE new[p] = Listed(ps[p])
    <3>1. new[p].live => new[p].state = ps[p].state
      BY <2>2 DEF Listed, NoPod
    <3> QED BY <1>1, <1>2, <3>1 DEF CopySound, OutcomeTrue, CacheKnows
  <2> QED BY <1>3, <2>1, <2>2
<1> QED BY <1>4, <1>5

\* A move stays possible when the Pods go on.
LEMMA AdvanceStable ==
  ASSUME NEW t \in Tasks, NEW new, NEW ps, NEW qs, Progress(ps, qs), t.uid # 0,
         Honest(t, ps), Advances(t, new, ps)
  PROVE  Advances(t, new, qs)
<1>1. ASSUME NEW p \in PodNames, ps[p].owner = t.uid PROVE qs[p].owner = t.uid
  BY <1>1 DEF Progress
<1>2. t.status.podName # 0 /\ ps[t.status.podName].state \in FinalPodStates =>
        qs[t.status.podName].state = ps[t.status.podName].state
  BY DEF Honest, Truthful, Progress, Tasks, Statuses
<1> QED BY <1>1, <1>2 DEF Advances, Move

-----------------------------------------------------------------------------
(***************************************************************************)
(* Every step keeps the invariant.                                         *)
(***************************************************************************)
\* What any step may do to the Pods, to their cache and to the number of tasks.
LEMMA Surroundings ==
  ASSUME IInv, [Next]_vars
  PROVE  /\ Progress(pods, pods')
         /\ CaughtUp(cachePods, cachePods', pods)
         /\ uids \in Nat /\ uids' \in Nat /\ uids' >= uids
<1>1. Progress(pods, pods')
  BY PodsStep
<1>2. CASE Reconcile
  <2>1. UNCHANGED <<cachePods, uids>>
    BY <1>2
    DEF Reconcile, ReconcileGone, ReconcileDeleting, ReconcileUninitialised,
        ReconcilePending, ReconcileInvalid, ReconcileBound, ConfigMapCached,
        CreateConfigMap, ConfigMapAlreadyExists, NetworkPolicyCached, CreatePod,
        CreateNetworkPolicy, NetworkPolicyAlreadyExists, PodNotFound, PodFound,
        UpdateStatus, UpdateConflict, CallRefused, clusterVars, cacheVars
  <2> QED BY <1>1, <2>1, ClusterAssumption DEF CaughtUp, IInv, TypeOK, ClusterTypeOK
<1>3. CASE Sync \/ Restart
  <2>1. CaughtUp(cachePods, cachePods', pods)
    BY <1>3 DEF CaughtUp, Sync, SyncTask, SyncPod, SyncConfigMaps, SyncNetworkPolicy,
                Restart, IInv, TypeOK
  <2>2. UNCHANGED uids
    BY <1>3 DEF Sync, SyncTask, SyncPod, SyncConfigMaps, SyncNetworkPolicy, Restart,
                clusterVars
  <2> QED BY <1>1, <2>1, <2>2, ClusterAssumption DEF IInv, TypeOK, ClusterTypeOK
<1>4. CASE ClusterNext /\ UNCHANGED <<workerVars, cacheVars, faults>>
  <2>1. UNCHANGED uids \/ uids' = uids + 1
    BY <1>4
    DEF ClusterNext, Users, CreateTask, EditSpec, ClearPodName, DeleteTask,
        DeleteTaskForeground, Kubelet, StartPod, FinishPod, LoseNode, RecoverNode,
        DeletePod, SetPodState, GarbageCollector, CollectConfigMap,
        CollectNetworkPolicy, CollectPod, FinishDeletion, Tick
  <2> QED BY <1>1, <1>4, <2>1, ClusterAssumption
          DEF CaughtUp, cacheVars, IInv, TypeOK, ClusterTypeOK
<1>5. CASE UNCHANGED vars
  BY <1>1, <1>5, ClusterAssumption
  DEF CaughtUp, vars, clusterVars, cacheVars, IInv, TypeOK, ClusterTypeOK
<1> QED BY <1>2, <1>3, <1>4, <1>5 DEF Next

\* A copy that stays stays sound.
LEMMA StaysSound ==
  ASSUME RInv, [Next]_vars, NEW t \in Copies
  PROVE  t.uid \in 0..uids' /\ CopySound(t, pods', cachePods')
<1>1. t \in Tasks /\ Honest(t, pods)
  BY DEF RInv, IInv, TypeOK, ClusterTypeOK, AllHonest, Copies
<1>2. t.uid \in 0..uids /\ CopySound(t, pods, cachePods)
  BY DEF RInv, CopiesSound
<1> QED BY <1>1, <1>2, Surroundings, CopyStable DEF RInv

\* Soundness depends on nothing but the uid and the status.
LEMMA SoundByStatus ==
  ASSUME NEW t, NEW new, NEW ps, NEW cached, new.uid = t.uid, new.status = t.status,
         CopySound(t, ps, cached)
  PROVE  CopySound(new, ps, cached)
  BY DEF CopySound, OutcomeTrue, CacheKnows

\* The part of the invariant that the worker can disturb.
CopiesKept == CopiesSound /\ NextMove

\* A return, and a step that does not touch what the worker holds.
LEMMA QuietStep ==
  ASSUME RInv, [Next]_vars, UNCHANGED task, cacheTask' \in {cacheTask, task},
         \/ UNCHANGED <<pc, mem>>
         \/ Return
         \/ pc' \notin {"idle", "updateStatus"} /\ mem' \in {mem, cacheTask}
  PROVE  CopiesKept'
<1>1. ASSUME NEW t \in {task, cacheTask, mem, NoTask}
      PROVE  t.uid \in 0..uids' /\ CopySound(t, pods', cachePods')
  <2>1. CASE t = NoTask
    BY <2>1, Surroundings DEF NoTask, CopySound, RInv
  <2> QED BY <2>1, <1>1, StaysSound DEF Copies
<1>2. CopiesSound'
  <2>1. mem' \in {mem, cacheTask, NoTask}
    BY DEF Return, Continue
  <2> QED BY <1>1, <2>1 DEF CopiesSound, Copies
<1>3. NextMove'
  <2>1. CASE UNCHANGED <<pc, mem>>
    <3> SUFFICES ASSUME pc = "updateStatus", mem.rv = task.rv
                 PROVE  Advances(task, mem, pods')
      BY <2>1 DEF NextMove
    <3>1. /\ Advances(task, mem, pods) /\ task \in Tasks /\ Honest(task, pods)
          /\ task.uid # 0
      BY DEF RInv, NextMove, IInv, TypeOK, ClusterTypeOK, AllHonest, WorkerKnows, VersionsDecide
    <3> QED BY <3>1, Surroundings, AdvanceStable DEF RInv
  <2>2. CASE pc' # "updateStatus"
    BY <2>2 DEF NextMove
  <2> QED BY <2>1, <2>2 DEF Return, Continue
<1> QED BY <1>2, <1>3 DEF CopiesKept

\* The worker computes a new status from a copy t: the cached task or its own.
LEMMA ComputeStep ==
  ASSUME RInv, [Next]_vars, UNCHANGED <<task, cacheTask>>, NEW t \in Tasks,
         t.uid \in 0..uids, t.rv = task.rv => t = task,
         pc' = "updateStatus", mem'.uid = t.uid, mem'.rv = t.rv,
         CopySound(mem', pods', cachePods'), Advances(t, mem', pods')
  PROVE  CopiesKept'
<1>1. mem'.uid \in 0..uids'
  BY Surroundings DEF RInv
<1>2. CopiesSound'
  BY <1>1, StaysSound DEF CopiesSound, Copies
<1>3. NextMove'
  BY DEF NextMove
<1> QED BY <1>2, <1>3 DEF CopiesKept

\* Reconcile up to its first API call.
LEMMA StartKeeps ==
  ASSUME RInv, [Next]_vars,
         \/ ReconcileGone \/ ReconcileDeleting \/ ReconcileUninitialised
         \/ ReconcilePending \/ ReconcileInvalid \/ ReconcileBound
  PROVE  CopiesKept'
<1>0. /\ cacheTask \in Tasks /\ now \in Nat \ {0} /\ Honest(cacheTask, pods)
      /\ cacheTask.uid \in 0..uids /\ CopySound(cacheTask, pods, cachePods)
      /\ cacheTask.uid # 0 /\ cacheTask.rv = task.rv => cacheTask = task
  BY ClusterAssumption
  DEF RInv, IInv, TypeOK, ClusterTypeOK, AllHonest, CopiesSound, Copies, VersionsDecide
<1>1. UNCHANGED <<task, pods, cacheTask, cachePods>>
  BY DEF ReconcileGone, ReconcileDeleting, ReconcileUninitialised, ReconcilePending,
         ReconcileInvalid, ReconcileBound, clusterVars, cacheVars
<1>2. CASE ReconcileGone \/ ReconcileDeleting \/ ReconcilePending \/ ReconcileBound
  <2>1. \/ UNCHANGED <<pc, mem>>
        \/ pc' \notin {"idle", "updateStatus"} /\ mem' \in {mem, cacheTask}
    BY <1>2 DEF ReconcileGone, ReconcileDeleting, ReconcilePending, ReconcileBound, Continue
  <2> QED BY <1>1, <2>1, QuietStep
<1>3. ASSUME NEW new, cacheTask.uid # 0, new.uid = cacheTask.uid, new.rv = cacheTask.rv,
             CopySound(new, pods, cachePods), Advances(cacheTask, new, pods),
             Continue("updateStatus", new)
      PROVE  CopiesKept'
  BY <1>0, <1>1, <1>3, ComputeStep DEF Continue
<1>4. CASE ReconcileUninitialised
  <2> DEFINE new == [cacheTask EXCEPT !.status.phase = "Pending", !.status.podName = 0]
  <2>1. /\ cacheTask.uid # 0 /\ cacheTask.status.phase = "" /\ Continue("updateStatus", new)
    BY <1>4 DEF ReconcileUninitialised, Active
  <2>2. new.uid = cacheTask.uid /\ new.rv = cacheTask.rv
    BY <1>0 DEF Tasks
  <2>3. CopySound(new, pods, cachePods) /\ Advances(cacheTask, new, pods)
    BY <1>0, <2>1, AcceptAdvances
  <2> HIDE DEF new
  <2> QED BY <1>3, <2>1, <2>2, <2>3
<1>5. CASE ReconcileInvalid
  <2> DEFINE new == [cacheTask EXCEPT !.status = Fail(@, "Invalid state", now)]
  <2>1. /\ cacheTask.uid # 0 /\ cacheTask.status.podName = 0
        /\ cacheTask.status.phase \notin {"", "Pending"} /\ Continue("updateStatus", new)
    BY <1>5 DEF ReconcileInvalid, Active
  <2>2. new.uid = cacheTask.uid /\ new.rv = cacheTask.rv
    BY <1>0 DEF Tasks
  <2>3. CopySound(new, pods, cachePods) /\ Advances(cacheTask, new, pods)
    BY <1>0, <2>1, InvalidAdvances
  <2> HIDE DEF new
  <2> QED BY <1>3, <2>1, <2>2, <2>3
<1> QED BY <1>2, <1>4, <1>5

\* The API calls on the way to a new Pod.
LEMMA PendingPathKeeps ==
  ASSUME RInv, [Next]_vars,
         \/ ConfigMapCached \/ CreateConfigMap \/ ConfigMapAlreadyExists
         \/ NetworkPolicyCached \/ CreateNetworkPolicy \/ NetworkPolicyAlreadyExists
         \/ CreatePod \/ UpdateConflict \/ CallRefused
  PROVE  CopiesKept'
<1>1. UNCHANGED <<task, cacheTask, cachePods>>
  BY DEF ConfigMapCached, CreateConfigMap, ConfigMapAlreadyExists, NetworkPolicyCached,
         CreateNetworkPolicy, NetworkPolicyAlreadyExists, CreatePod, UpdateConflict,
         CallRefused, clusterVars, cacheVars
<1>2. CASE Return \/ (pc' \notin {"idle", "updateStatus"} /\ mem' \in {mem, cacheTask})
  BY <1>1, <1>2, QuietStep
<1>3. CASE CreatePod /\ ~Return
  <2> DEFINE new == [mem EXCEPT !.status.podName = podCount + 1,
                                !.status.phase = "Provisioning"]
  <2>0. mem \in Tasks /\ pods \in [PodNames -> Pods] /\ Honest(mem, pods)
    BY DEF RInv, IInv, TypeOK, ClusterTypeOK, AllHonest
  <2>1. /\ pc = "createPod" /\ pc' = "updateStatus" /\ mem' = new
        /\ podCount + 1 \in PodNames
        /\ pods' = [pods EXCEPT ![podCount + 1] = buildPodForAgentTask(mem)]
    BY <1>3, APIAssumption
    DEF CreatePod, Reply, ReturnError, Continue, RInv, IInv, TypeOK, ClusterTypeOK, PodNames
  <2>2. new.uid = mem.uid /\ new.rv = mem.rv
    BY <2>0 DEF Tasks
  <2>3. /\ mem.uid # 0 /\ mem.status.podName = 0 /\ mem.status.phase = "Pending"
        /\ mem.rv = task.rv => mem = task
        /\ mem.uid \in 0..uids
    BY <2>1 DEF RInv, IInv, WorkerKnows, VersionsDecide, CopiesSound, Copies
  <2>4. pods'[podCount + 1].owner = mem.uid
    BY <2>0, <2>1 DEF buildPodForAgentTask
  <2>5. Honest(mem, pods') /\ CopySound(mem, pods', cachePods)
    BY <1>1, <2>0, Surroundings, HonestStable, StaysSound DEF RInv, Copies
  <2>6. CopySound(new, pods', cachePods) /\ Advances(mem, new, pods')
    <3>1. mem \in Tasks /\ podCount + 1 \in PodNames
      BY <2>0, <2>1
    <3> QED BY <2>3, <2>4, <2>5, <3>1, BindAdvances, Zenon
  <2> HIDE DEF new
  <2> QED BY <1>1, <2>0, <2>1, <2>2, <2>3, <2>6, ComputeStep
<1> QED BY <1>2, <1>3
        DEF ConfigMapCached, CreateConfigMap, ConfigMapAlreadyExists, NetworkPolicyCached,
            CreateNetworkPolicy, NetworkPolicyAlreadyExists, UpdateConflict, CallRefused,
            Reply, ReturnError, Continue

\* The look at the Pod.
LEMMA PodPathKeeps ==
  ASSUME RInv, [Next]_vars, PodNotFound \/ PodFound
  PROVE  CopiesKept'
<1>1. UNCHANGED <<task, pods, cacheTask, cachePods>> /\ pc = "getPod"
  BY DEF PodNotFound, PodFound, clusterVars, cacheVars
<1>2. /\ mem \in Tasks /\ now \in Nat \ {0} /\ Honest(mem, pods)
      /\ mem.uid # 0 /\ mem.uid \in 0..uids /\ mem.status.podName # 0
      /\ CopySound(mem, pods, cachePods)
      /\ mem.rv = task.rv => mem = task
  BY <1>1, ClusterAssumption
  DEF RInv, IInv, TypeOK, ClusterTypeOK, AllHonest, WorkerKnows, VersionsDecide,
      CopiesSound, Copies
<1>3. CASE Return
  BY <1>1, <1>3, QuietStep
<1>4. ASSUME NEW new, new.uid = mem.uid, new.rv = mem.rv,
             CopySound(new, pods, cachePods), Advances(mem, new, pods),
             Continue("updateStatus", new)
      PROVE  CopiesKept'
  BY <1>1, <1>2, <1>4, ComputeStep DEF Continue
<1>5. CASE PodNotFound /\ ~Return
  <2> DEFINE new == [mem EXCEPT !.status = Fail(@, "Pod not found", now)]
  <2>1. /\ ~cachePods[mem.status.podName].live /\ mem.status.phase \notin TerminalPhases
        /\ Continue("updateStatus", new)
    BY <1>5 DEF PodNotFound, cachedPod
  <2>2. new.uid = mem.uid /\ new.rv = mem.rv
    BY <1>2 DEF Tasks
  <2>3. CopySound(new, pods, cachePods) /\ Advances(mem, new, pods)
    BY <1>2, <2>1, LostAdvances
  <2> HIDE DEF new
  <2> QED BY <1>4, <2>1, <2>2, <2>3
<1>6. CASE PodFound /\ ~Return
  <2> DEFINE new == [mem EXCEPT !.status =
                       StatusFromPod(mem.status, cachePods[mem.status.podName].state, now)]
  <2>1. cachePods[mem.status.podName].live /\ Continue("updateStatus", new)
    BY <1>6 DEF PodFound, cachedPod
  <2>2. new.uid = mem.uid /\ new.rv = mem.rv
    BY <1>2 DEF Tasks
  <2>3. Follows(cachePods[mem.status.podName], pods[mem.status.podName])
    BY <1>2 DEF RInv, IInv, CacheFollowed, Tasks, Statuses
  <2>4. CopySound(new, pods, cachePods) /\ Advances(mem, new, pods)
    BY <1>2, <2>1, <2>3, SeenAdvances
  <2> HIDE DEF new
  <2> QED BY <1>4, <2>1, <2>2, <2>4
<1> QED BY <1>3, <1>5, <1>6

\* The update writes the status that the worker holds.
LEMMA UpdateKeeps ==
  ASSUME RInv, [Next]_vars, UpdateStatus
  PROVE  CopiesKept' /\ Advances(task, task', pods) /\ task.uid # 0
<1>1. /\ pc = "updateStatus" /\ task.uid # 0 /\ task.rv = mem.rv
      /\ UNCHANGED <<pods, cacheTask, cachePods, uids>> /\ Return
      /\ task \in Tasks /\ mem \in Tasks
  BY DEF UpdateStatus, Current, Reply, Return, ReturnError, Continue, cacheVars,
         RInv, IInv, TypeOK, ClusterTypeOK
<1>2. mem.uid = task.uid /\ Advances(task, mem, pods)
  BY <1>1 DEF RInv, NextMove, IInv, VersionsDecide
<1>3. task'.uid = mem.uid /\ task'.status = mem.status
  BY <1>1, <1>2 DEF UpdateStatus, WriteTask, Tasks
<1>4. Advances(task, task', pods)
  BY <1>2, <1>3 DEF Advances, Move, Lives
<1>5. /\ CopySound(mem, pods', cachePods') /\ mem.uid \in 0..uids'
      /\ CopySound(cacheTask, pods', cachePods') /\ cacheTask.uid \in 0..uids'
  BY StaysSound DEF Copies
<1>6. CopySound(task', pods', cachePods') /\ task'.uid \in 0..uids'
  BY <1>3, <1>5, SoundByStatus
<1>7. CopySound(NoTask, pods', cachePods') /\ NoTask.uid \in 0..uids'
  BY Surroundings DEF NoTask, CopySound, RInv
<1>8. CopiesKept'
  BY <1>1, <1>5, <1>6, <1>7 DEF CopiesKept, CopiesSound, Copies, NextMove, Return, Continue
<1> QED BY <1>1, <1>4, <1>8

\* Only a status update, users and the collector change the task.
LEMMA TaskUnchanged ==
  ASSUME [Next]_vars
  PROVE  \/ UNCHANGED task
         \/ UpdateStatus
         \/ ClusterNext /\ UNCHANGED <<workerVars, cacheVars, faults>>
<1>1. CASE Reconcile /\ ~UpdateStatus
  BY <1>1
  DEF Reconcile, ReconcileGone, ReconcileDeleting, ReconcileUninitialised,
      ReconcilePending, ReconcileInvalid, ReconcileBound, ConfigMapCached,
      CreateConfigMap, ConfigMapAlreadyExists, NetworkPolicyCached, CreatePod,
      CreateNetworkPolicy, NetworkPolicyAlreadyExists, PodNotFound, PodFound,
      UpdateConflict, CallRefused, clusterVars
<1>2. CASE Sync \/ Restart
  BY <1>2 DEF Sync, SyncTask, SyncPod, SyncConfigMaps, SyncNetworkPolicy, Restart, clusterVars
<1>3. CASE UNCHANGED vars
  BY <1>3 DEF vars, clusterVars
<1> QED BY <1>1, <1>2, <1>3 DEF Next

\* What users and the collector do to the task: submit it, empty its podName,
\* remove it, or nothing that the lifecycle shows.
LEMMA TaskMoves ==
  ASSUME RInv, ClusterNext
  PROVE  \/ UNCHANGED <<task, uids>>
         \/ /\ UNCHANGED uids /\ task.uid # 0
            /\ \/ task' = NoTask
               \/ /\ task'.rv = NewVersion
                  /\ task'.uid = task.uid /\ task'.status = task.status
               \/ /\ StatusEdits /\ task.status.podName # 0
                  /\ task'.rv = NewVersion /\ task'.uid = task.uid
                  /\ task'.status = [task.status EXCEPT !.podName = 0]
         \/ /\ task.uid = 0 /\ uids' = uids + 1
            /\ task'.rv = NewVersion
            /\ task'.uid = uids + 1 /\ task'.status = NoStatus
<1>0. /\ task \in Tasks /\ task.status \in Statuses /\ uids \in Nat
      /\ task.uid = 0 => task.status.podName = 0 /\ ~task.deleting
  <2>1. task \in Tasks /\ task.status \in Statuses /\ uids \in Nat
    BY ClusterAssumption DEF RInv, IInv, TypeOK, ClusterTypeOK, Tasks
  <2>2. NoTask.status.podName = 0 /\ ~NoTask.deleting
    BY DEF NoTask, NoStatus
  <2>3. task.uid = 0 => task = NoTask
    BY DEF RInv, NothingLeft
  <2> QED BY <2>1, <2>2, <2>3
<1>1. ASSUME NEW s \in Specs, CreateTask(s)
      PROVE  /\ task.uid = 0 /\ uids' = uids + 1 /\ task'.rv = NewVersion
             /\ task'.uid = uids + 1 /\ task'.status = NoStatus
  BY <1>1 DEF CreateTask, WriteTask, NoTask
<1>2. ASSUME NEW s \in Specs, EditSpec(s)
      PROVE  /\ UNCHANGED uids /\ task.uid # 0 /\ task'.rv = NewVersion
             /\ task'.uid = task.uid /\ task'.status = task.status
  BY <1>0, <1>2 DEF EditSpec, WriteTask, Tasks
<1>3. ASSUME DeleteTaskForeground
      PROVE  /\ UNCHANGED uids /\ task.uid # 0 /\ task'.rv = NewVersion
             /\ task'.uid = task.uid /\ task'.status = task.status
  BY <1>0, <1>3 DEF DeleteTaskForeground, WriteTask, Tasks
<1>4. ASSUME ClearPodName
      PROVE  /\ UNCHANGED uids /\ task.uid # 0 /\ task'.rv = NewVersion
             /\ StatusEdits /\ task.status.podName # 0 /\ task'.uid = task.uid
             /\ task'.status = [task.status EXCEPT !.podName = 0]
  BY <1>0, <1>4 DEF ClearPodName, WriteTask, Tasks
<1>5. ASSUME DeleteTask \/ FinishDeletion
      PROVE  UNCHANGED uids /\ task.uid # 0 /\ task' = NoTask
  BY <1>0, <1>5 DEF DeleteTask, FinishDeletion
<1>6. ASSUME \/ Kubelet \/ Tick \/ CollectNetworkPolicy
             \/ \E s \in Specs : CollectConfigMap(s)
             \/ \E p \in PodNames : CollectPod(p)
      PROVE  UNCHANGED <<task, uids>>
  BY <1>6 DEF Kubelet, StartPod, FinishPod, LoseNode, RecoverNode, DeletePod, SetPodState,
              CollectConfigMap, CollectNetworkPolicy, CollectPod, Tick
<1> QED BY <1>1, <1>2, <1>3, <1>4, <1>5, <1>6 DEF ClusterNext, Users, GarbageCollector

\* A write by somebody else leaves the worker with a version that conflicts.
LEMMA ClusterKeeps ==
  ASSUME RInv, [Next]_vars, ClusterNext, UNCHANGED <<workerVars, cacheVars>>
  PROVE  CopiesKept'
<1>1. UNCHANGED <<pc, mem, cacheTask, cachePods>>
  BY DEF workerVars, cacheVars
<1>2. CASE UNCHANGED task
  BY <1>1, <1>2, QuietStep
<1>3. CASE task' # task
  <2>0. /\ task \in Tasks /\ task.status \in Statuses /\ task.uid \in 0..uids'
        /\ CopySound(task, pods', cachePods')
        /\ mem.uid \in 0..uids' /\ CopySound(mem, pods', cachePods')
        /\ cacheTask.uid \in 0..uids' /\ CopySound(cacheTask, pods', cachePods')
        /\ uids \in Nat /\ uids' \in Nat
    BY StaysSound, Surroundings DEF Copies, RInv, IInv, TypeOK, ClusterTypeOK, Tasks
  <2>1. pc = "updateStatus" => mem.rv # task'.rv
    <3>1. pc = "updateStatus" => mem.rv # 0
      BY DEF RInv, IInv, WorkerKnows, AllHonest, Honest
    <3>2. task'.rv \in {0, NewVersion}
      BY <1>3, TaskMoves DEF NoTask
    <3> QED BY <3>1, <3>2, NewVersionFresh
  <2>2. task'.uid \in 0..uids' /\ CopySound(task', pods', cachePods')
    <3>1. CASE task' = NoTask
      <4>1. task'.uid = 0
        BY <3>1 DEF NoTask
      <4>2. task'.uid \in 0..uids'
        BY <2>0, <4>1
      <4>3. CopySound(task', pods', cachePods')
        BY <4>1, Zenon DEF CopySound
      <4> QED BY <4>2, <4>3
    <3>2. CASE task'.uid = task.uid /\ task'.status = task.status
      BY <2>0, <3>2, SoundByStatus
    <3>3. CASE /\ StatusEdits /\ task'.uid = task.uid
               /\ task'.status = [task.status EXCEPT !.podName = 0]
      <4>1. /\ task'.status.podName = 0
            /\ task'.status.phase = task.status.phase
            /\ task'.status.finishedAt = task.status.finishedAt
            /\ task'.status.reason = task.status.reason
        BY <2>0, <3>3 DEF Statuses
      <4>2. ReportedOutcome(task'.status) = ReportedOutcome(task.status)
        BY <4>1 DEF ReportedOutcome
      <4> QED BY <2>0, <3>3, <4>1, <4>2 DEF CopySound, OutcomeTrue, CacheKnows
    <3>4. CASE uids' = uids + 1 /\ task'.uid = uids + 1 /\ task'.status = NoStatus
      <4>0. NoStatus.podName = 0 /\ NoStatus.phase = "" /\ ReportedOutcome(NoStatus) = "None"
        BY DEF NoStatus, ReportedOutcome
      <4>1. task'.status.podName = 0 /\ task'.status.phase = ""
            /\ ReportedOutcome(task'.status) = "None"
        BY <3>4, <4>0
      <4>2. task'.uid \in 0..uids'
        BY <2>0, <3>4
      <4>3. CopySound(task', pods', cachePods')
        BY <4>1 DEF CopySound, OutcomeTrue, CacheKnows
      <4> QED BY <4>2, <4>3
    <3>5. \/ task' = NoTask
          \/ task'.uid = task.uid /\ task'.status = task.status
          \/ /\ StatusEdits /\ task'.uid = task.uid
             /\ task'.status = [task.status EXCEPT !.podName = 0]
          \/ uids' = uids + 1 /\ task'.uid = uids + 1 /\ task'.status = NoStatus
      BY <1>3, TaskMoves, Zenon
    <3> QED BY <3>1, <3>2, <3>3, <3>4, <3>5, Zenon
  <2> QED BY <1>1, <2>0, <2>1, <2>2 DEF CopiesKept, CopiesSound, Copies, NextMove
<1> QED BY <1>2, <1>3

\* A Pod without an owner has not ended.
LEMMA NothingLeftStep ==
  ASSUME RInv, [Next]_vars
  PROVE  NothingLeft'
<1>0. /\ pods \in [PodNames -> Pods] /\ PodsOwned
      /\ \A p \in PodNames : pods[p].owner = 0 => pods[p].state \notin FinalPodStates
  BY DEF RInv, IInv, TypeOK, ClusterTypeOK, NothingLeft
<1>1. (\A p \in PodNames : pods[p].owner = 0 => pods[p].state \notin FinalPodStates)'
  <2>1. CASE CreatePod
    <3>1. pods' = [pods EXCEPT ![podCount + 1] = buildPodForAgentTask(mem)]
      BY <2>1 DEF CreatePod
    <3>2. buildPodForAgentTask(mem).state \notin FinalPodStates
      BY DEF buildPodForAgentTask, FinalPodStates
    <3> QED BY <1>0, <3>1, <3>2
  <2>2. ASSUME NEW p \in PodNames, NEW state, pods[p].live,
               pods' = [pods EXCEPT ![p].state = state]
        PROVE  (\A q \in PodNames : pods[q].owner = 0 => pods[q].state \notin FinalPodStates)'
    BY <1>0, <2>2 DEF PodsOwned, Pods
  <2>3. ASSUME NEW p \in PodNames, pods' = [pods EXCEPT ![p].live = FALSE]
        PROVE  (\A q \in PodNames : pods[q].owner = 0 => pods[q].state \notin FinalPodStates)'
    BY <1>0, <2>3 DEF Pods
  <2>4. CASE UNCHANGED pods
    BY <1>0, <2>4
  <2> QED BY <2>1, <2>2, <2>3, <2>4, PodChanges
<1>2. task'.uid = 0 => task' = NoTask
  <2>0. task.uid = 0 => task = NoTask
    BY DEF RInv, NothingLeft
  <2>1. CASE UNCHANGED task
    BY <2>0, <2>1
  <2>2. CASE UpdateStatus
    BY <2>2, UpdateStep DEF RInv, UpdateStatus, Current
  <2>3. CASE ClusterNext
    <3>1. uids \in Nat
      BY Surroundings DEF RInv
    <3> QED BY <2>0, <2>3, <3>1, TaskMoves
  <2> QED BY <2>1, <2>2, <2>3, TaskUnchanged
<1> QED BY <1>1, <1>2 DEF NothingLeft


-----------------------------------------------------------------------------
(***************************************************************************)
(* The invariant.                                                          *)
(***************************************************************************)
\* RInv holds at the start.
LEMMA InitRInv == Init => RInv
<1> SUFFICES ASSUME Init PROVE RInv
  OBVIOUS
<1>1. IInv
  BY InitInv
<1>2. task = NoTask /\ cacheTask = NoTask /\ mem = NoTask /\ uids = 0 /\ pc = "idle"
  BY DEF Init, ClusterInit
<1>3. CopiesSound
  <2>1. task.uid = 0 /\ cacheTask.uid = 0 /\ mem.uid = 0 /\ 0 \in 0..uids
    BY <1>2 DEF NoTask
  <2> QED BY <2>1 DEF CopiesSound, Copies, CopySound
<1>4. NextMove
  BY <1>2 DEF NextMove
<1>5. NothingLeft
  BY <1>2 DEF NothingLeft, Init, ClusterInit, NoPod, FinalPodStates
<1> QED BY <1>1, <1>3, <1>4, <1>5 DEF RInv

\* Every step keeps RInv.
LEMMA NextRInv == RInv /\ [Next]_vars => RInv'
<1> SUFFICES ASSUME RInv, [Next]_vars PROVE RInv'
  OBVIOUS
<1>1. IInv' /\ NothingLeft'
  BY NextInv, NothingLeftStep DEF RInv
<1> SUFFICES CopiesKept'
  BY <1>1 DEF RInv, CopiesKept
<1>2. CASE Reconcile
  <2>1. CASE \/ ReconcileGone \/ ReconcileDeleting \/ ReconcileUninitialised
             \/ ReconcilePending \/ ReconcileInvalid \/ ReconcileBound
    BY <2>1, StartKeeps
  <2>2. CASE \/ ConfigMapCached \/ CreateConfigMap \/ ConfigMapAlreadyExists
             \/ NetworkPolicyCached \/ CreateNetworkPolicy \/ NetworkPolicyAlreadyExists
             \/ CreatePod
    BY <2>2, PendingPathKeeps
  <2>3. CASE PodNotFound \/ PodFound
    BY <2>3, PodPathKeeps
  <2>4. CASE UpdateStatus
    BY <2>4, UpdateKeeps
  <2>5. CASE UpdateConflict \/ CallRefused
    <3>1. UNCHANGED <<task, cacheTask>> /\ Return
      BY <2>5 DEF UpdateConflict, CallRefused, ReturnError, clusterVars, cacheVars
    <3> QED BY <3>1, QuietStep
  <2> QED BY <1>2, <2>1, <2>2, <2>3, <2>4, <2>5 DEF Reconcile
<1>3. CASE Sync \/ Restart
  <2>1. UNCHANGED task /\ cacheTask' \in {cacheTask, task}
    BY <1>3 DEF Sync, SyncTask, SyncPod, SyncConfigMaps, SyncNetworkPolicy, Restart, clusterVars
  <2>2. UNCHANGED <<pc, mem>> \/ Return
    BY <1>3 DEF Sync, SyncTask, SyncPod, SyncConfigMaps, SyncNetworkPolicy, Restart, workerVars
  <2> QED BY <2>1, <2>2, QuietStep
<1>4. CASE ClusterNext /\ UNCHANGED <<workerVars, cacheVars, faults>>
  BY <1>4, ClusterKeeps
<1>5. CASE UNCHANGED vars
  <2>1. UNCHANGED <<task, cacheTask, pc, mem>>
    BY <1>5 DEF vars, clusterVars, cacheVars, workerVars
  <2> QED BY <2>1, QuietStep
<1> QED BY <1>2, <1>3, <1>4, <1>5 DEF Next

\* RInv is an invariant.
LEMMA LifecycleInvariance == Spec => []RInv
  BY InitRInv, NextRInv, PTL DEF Spec

-----------------------------------------------------------------------------
(***************************************************************************)
(* An outcome is final.                                                    *)
(***************************************************************************)
\* Unless an administrator edits the status, no step changes any field of a
\* status that carries an outcome: not one of a worker that read an older state
\* of the task or of its Pod (Reconcile, from its Get to its status update).
THEOREM OutcomeFinal ==
  ASSUME ~StatusEdits
  PROVE  Spec => OutcomeIsFinal
<1> DEFINE Kept == /\ task.uid # 0
                   /\ task'.uid = task.uid
                   /\ task.status.reason \in {"Pod completed successfully.",
                                              "Pod was evicted.", "Pod failed."}
                   => task'.status = task.status
<1>1. RInv /\ [Next]_vars => [Kept]_vars
  <2> SUFFICES ASSUME RInv, [Next]_vars, task.uid # 0, task'.uid = task.uid,
                      task.status.reason \in {"Pod completed successfully.",
                                              "Pod was evicted.", "Pod failed."}
               PROVE  task'.status = task.status
    OBVIOUS
  <2>1. CASE UNCHANGED task
    BY <2>1
  <2>2. CASE UpdateStatus
    <3>1. task.status \in Statuses /\ CopySound(task, pods, cachePods)
      BY DEF RInv, IInv, TypeOK, ClusterTypeOK, Tasks, CopiesSound, Copies
    <3>2. ReportedOutcome(task.status) # "None"
      BY <3>1, Outcomes
    <3>3. ReportedOutcome(task.status) \in FinalPodStates
      BY <3>1, <3>2, Outcomes
    <3>4. task.status.phase \notin {"", "Pending"}
      BY <3>1, <3>2, <3>3, PhaseOfOutcome DEF CopySound, OutcomeTrue, FinalPodStates
    <3>5. task.status.podName # 0
      BY <3>1, <3>4 DEF CopySound
    <3> QED BY <2>2, <3>2, <3>5, UpdateKeeps DEF Advances
  <2>3. CASE ClusterNext
    <3>1. NoTask.uid = 0
      BY DEF NoTask
    <3> QED BY <2>3, <3>1, TaskMoves
  <2> QED BY <2>1, <2>2, <2>3, TaskUnchanged
<1> QED BY <1>1, LifecycleInvariance, PTL DEF Spec, OutcomeIsFinal


-----------------------------------------------------------------------------
(***************************************************************************)
(* The refinement.  The steps are stated of the parts of a life, which are *)
(* put together at the end.                                                *)
(***************************************************************************)
Life(uid, phase, podName, ran, outcome) ==
  [uid |-> uid, phase |-> phase, podName |-> podName, ran |-> ran, outcome |-> outcome]

\* The parts of a life.
LEMMA LifeParts ==
  ASSUME NEW u, NEW ph, NEW p, NEW r, NEW o
  PROVE  /\ Life(u, ph, p, r, o).uid = u
         /\ Life(u, ph, p, r, o).phase = ph
         /\ Life(u, ph, p, r, o).podName = p
         /\ Life(u, ph, p, r, o).ran = r
         /\ Life(u, ph, p, r, o).outcome = o
  BY DEF Life

\* The life of a task is put together from its parts.
LEMMA LifeOfParts ==
  ASSUME NEW t
  PROVE  LifeOf(t) = Life(t.uid, t.status.phase, t.status.podName,
                          t.status.startedAt # 0, ReportedOutcome(t.status))
  BY Zenon DEF LifeOf, Life

\* Lives says so of a task.
LEMMA LivesParts ==
  ASSUME NEW t, NEW u, NEW ph, NEW p, NEW r \in BOOLEAN, NEW o, Lives(t, u, ph, p, r, o)
  PROVE  LifeOf(t) = Life(u, ph, p, r, o)
<1>1. (t.status.startedAt # 0) = r
  BY DEF Lives
<1> QED BY <1>1, LifeOfParts, Zenon DEF Lives

\* Nothing that the lifecycle shows has changed.
LEMMA Stutter ==
  ASSUME LifeOf(task') = LifeOf(task), UNCHANGED uids,
         OwnerOf(pods') = OwnerOf(pods), FateOf(pods') = FateOf(pods)
  PROVE  UNCHANGED Lifecycle!vars
  BY DEF Lifecycle!vars

\* A status update is a step of the lifecycle.
LEMMA MoveIsStep ==
  ASSUME task \in Tasks, pods \in [PodNames -> Pods], 0 \notin PodNames,
         Move(task, task', pods), UNCHANGED <<uids, pods>>
  PROVE  [Lifecycle!Next]_(Lifecycle!vars)
<1> DEFINE st  == task.status
           ran == st.startedAt # 0
           o   == ReportedOutcome(st)
           L   == Life(task.uid, st.phase, st.podName, ran, o)
           same == UNCHANGED <<uids, OwnerOf(pods), FateOf(pods)>>
<1>1. LifeOf(task) = L
  BY LifeOfParts
<1>2. same /\ st.podName \in {0} \cup PodNames /\ ran \in BOOLEAN
  BY DEF OwnerOf, FateOf, Tasks, Statuses
<1> HIDE DEF st, ran, o, same
<1>3. /\ L.uid = task.uid /\ L.phase = st.phase /\ L.podName = st.podName
      /\ L.ran = ran /\ L.outcome = o
  BY LifeParts
<1> HIDE DEF L
<1>4. CASE Lives(task', task.uid, st.phase, st.podName, ran, o)
  <2>1. LifeOf(task') = LifeOf(task)
    BY <1>1, <1>2, <1>4, LivesParts DEF L
  <2> QED BY <2>1, Stutter
<1>5. CASE task.uid # 0 /\ st.phase = "" /\ Lives(task', task.uid, "Pending", st.podName, ran, o)
  <2>1. LifeOf(task') = Life(task.uid, "Pending", st.podName, ran, o)
    BY <1>2, <1>5, LivesParts
  <2>2. LifeOf(task') = [L EXCEPT !.phase = "Pending"]
    <3>1. PICK x : x = "Pending"
      OBVIOUS
    <3>2. [L EXCEPT !.phase = x] = Life(task.uid, x, st.podName, ran, o)
      BY DEF L, Life
    <3> QED BY <2>1, <3>1, <3>2
  <2>3. Lifecycle!Accept
    BY <1>1, <1>3, <1>2, <1>5, <2>2, Zenon DEF Lifecycle!Accept, Lifecycle!Becomes, same
  <2> QED BY <2>3 DEF Lifecycle!Next
<1>6. ASSUME st.phase = "Pending", st.podName = 0, NEW p \in PodNames,
             pods[p].owner = task.uid, Lives(task', task.uid, "Provisioning", p, ran, o)
      PROVE  Lifecycle!Next
  <2>1. LifeOf(task') = Life(task.uid, "Provisioning", p, ran, o)
    BY <1>2, <1>6, LivesParts
  <2>2. LifeOf(task') = [L EXCEPT !.phase = "Provisioning", !.podName = p]
    <3>1. PICK x, y : x = "Provisioning" /\ y = p
      OBVIOUS
    <3>2. [L EXCEPT !.phase = x] = Life(task.uid, x, st.podName, ran, o)
      BY DEF L, Life
    <3>3. [Life(task.uid, x, st.podName, ran, o) EXCEPT !.podName = y] = Life(task.uid, x, y, ran, o)
      BY DEF Life
    <3>4. [L EXCEPT !.phase = x, !.podName = y] = [[L EXCEPT !.phase = x] EXCEPT !.podName = y]
      BY DEF L, Life
    <3> QED BY <2>1, <3>1, <3>2, <3>3, <3>4
  <2>3. OwnerOf(pods)[p] = task.uid
    BY <1>6 DEF OwnerOf
  <2>4. Lifecycle!Bind(p)
    BY <1>1, <1>3, <1>2, <1>6, <2>2, <2>3, Zenon DEF Lifecycle!Bind, Lifecycle!Becomes, same
  <2> QED BY <2>4 DEF Lifecycle!Next
<1>7. CASE st.podName # 0 /\ o = "None"
  <2>0. Lifecycle!Open
    BY <1>1, <1>3, <1>7, Zenon DEF Lifecycle!Open
  <2>1. CASE ~ran /\ Lives(task', task.uid, "Provisioning", st.podName, ran, o)
    <3>1. LifeOf(task') = Life(task.uid, "Provisioning", st.podName, ran, o)
      BY <1>2, <2>1, LivesParts
    <3>2. LifeOf(task') = [L EXCEPT !.phase = "Provisioning"]
      <4>1. PICK x : x = "Provisioning"
        OBVIOUS
      <4>2. [L EXCEPT !.phase = x] = Life(task.uid, x, st.podName, ran, o)
        BY DEF L, Life
      <4> QED BY <3>1, <4>1, <4>2
    <3>3. Lifecycle!Wait
      BY <1>1, <1>3, <1>2, <2>0, <2>1, <3>2, Zenon
      DEF Lifecycle!Wait, Lifecycle!Becomes, same
    <3> QED BY <3>3 DEF Lifecycle!Next
  <2>2. CASE Lives(task', task.uid, "Running", st.podName, TRUE, o)
    <3>1. LifeOf(task') = Life(task.uid, "Running", st.podName, TRUE, o)
      BY <2>2, LivesParts
    <3>2. LifeOf(task') = [L EXCEPT !.phase = "Running", !.ran = TRUE]
      <4>1. PICK x, y : x = "Running" /\ y = TRUE
        OBVIOUS
      <4>2. [L EXCEPT !.phase = x] = Life(task.uid, x, st.podName, ran, o)
        BY DEF L, Life
      <4>3. [Life(task.uid, x, st.podName, ran, o) EXCEPT !.ran = y] = Life(task.uid, x, st.podName, y, o)
        BY DEF Life
      <4>4. [L EXCEPT !.phase = x, !.ran = y] = [[L EXCEPT !.phase = x] EXCEPT !.ran = y]
        BY DEF L, Life
      <4> QED BY <3>1, <4>1, <4>2, <4>3, <4>4
    <3>3. Lifecycle!Run
      BY <1>1, <1>2, <2>0, <3>2, Zenon DEF Lifecycle!Run, Lifecycle!Becomes, same
    <3> QED BY <3>3 DEF Lifecycle!Next
  <2>3. CASE Lives(task', task.uid, "Failed", st.podName, ran, o)
    <3>1. LifeOf(task') = Life(task.uid, "Failed", st.podName, ran, o)
      BY <1>2, <2>3, LivesParts
    <3>2. LifeOf(task') = [L EXCEPT !.phase = "Failed"]
      <4>1. PICK x : x = "Failed"
        OBVIOUS
      <4>2. [L EXCEPT !.phase = x] = Life(task.uid, x, st.podName, ran, o)
        BY DEF L, Life
      <4> QED BY <3>1, <4>1, <4>2
    <3>3. Lifecycle!LoseTrack
      BY <1>1, <1>2, <2>0, <3>2, Zenon DEF Lifecycle!LoseTrack, Lifecycle!Becomes, same
    <3> QED BY <3>3 DEF Lifecycle!Next
  <2> DEFINE fate == pods[st.podName].state
             phase == Lifecycle!PhaseOf(fate)
  <2>4. CASE fate \in FinalPodStates /\ Lives(task', task.uid, phase, st.podName, ran, fate)
    <3>1. LifeOf(task') = Life(task.uid, phase, st.podName, ran, fate)
      BY <1>2, <2>4, LivesParts
    <3>2. LifeOf(task') = [L EXCEPT !.phase = phase, !.outcome = fate]
      <4>1. PICK x, y : x = phase /\ y = fate
        OBVIOUS
      <4>2. [L EXCEPT !.phase = x] = Life(task.uid, x, st.podName, ran, o)
        BY DEF L, Life
      <4>3. [Life(task.uid, x, st.podName, ran, o) EXCEPT !.outcome = y] = Life(task.uid, x, st.podName, ran, y)
        BY DEF Life
      <4>4. [L EXCEPT !.phase = x, !.outcome = y] = [[L EXCEPT !.phase = x] EXCEPT !.outcome = y]
        BY DEF L, Life
      <4> QED BY <3>1, <4>1, <4>2, <4>3, <4>4
    <3>3. FateOf(pods)[L.podName] = fate /\ fate # "None"
      BY <1>3, <1>2, <1>7, <2>4 DEF FateOf, FinalPodStates
    <3>4. Lifecycle!Report
      BY <1>1, <1>2, <2>0, <3>2, <3>3, Zenon DEF Lifecycle!Report, Lifecycle!Becomes, same
    <3> QED BY <3>4 DEF Lifecycle!Next
  <2> QED BY <1>4, <1>5, <1>7, <2>1, <2>2, <2>3, <2>4, Zenon DEF Move, st, ran, o
<1>8. CASE /\ st.podName = 0 /\ st.phase \notin {"", "Pending"}
           /\ Lives(task', task.uid, "Failed", st.podName, ran, "None")
  <2>0. Lives(task', task.uid, "Failed", st.podName, ran, "None")
    BY <1>8
  <2>1. LifeOf(task') = Life(task.uid, "Failed", st.podName, ran, "None")
    BY <1>2, <2>0, LivesParts
  <2>2. LifeOf(task') = [L EXCEPT !.phase = "Failed", !.outcome = "None"]
    <3>1. PICK x, y : x = "Failed" /\ y = "None"
      OBVIOUS
    <3>2. [L EXCEPT !.phase = x] = Life(task.uid, x, st.podName, ran, o)
      BY DEF L, Life
    <3>3. [Life(task.uid, x, st.podName, ran, o) EXCEPT !.outcome = y] = Life(task.uid, x, st.podName, ran, y)
      BY DEF Life
    <3>4. [L EXCEPT !.phase = x, !.outcome = y] = [[L EXCEPT !.phase = x] EXCEPT !.outcome = y]
      BY DEF L, Life
    <3> QED BY <2>1, <3>1, <3>2, <3>3, <3>4
  <2>3. Lifecycle!Invalidate
    BY <1>1, <1>3, <1>2, <1>8, <2>2, Zenon DEF Lifecycle!Invalidate, Lifecycle!Becomes, same
  <2> QED BY <2>3 DEF Lifecycle!Next
<1> QED BY <1>4, <1>5, <1>6, <1>7, <1>8, Zenon DEF Move, st, ran, o

\* The life of a task that does not exist.
LEMMA NoTaskNoLife == LifeOf(NoTask) = Lifecycle!NoLife
<1>1. Lives(NoTask, 0, "", 0, FALSE, "None")
  BY DEF Lives, NoTask, NoStatus, ReportedOutcome
<1>2. LifeOf(NoTask) = Life(0, "", 0, FALSE, "None")
  BY <1>1, LivesParts
<1> QED BY <1>2, Zenon DEF Life, Lifecycle!NoLife

\* A step does one thing: it leaves the task, it updates the status, or a user
\* or the collector changes the task and no Pod.
LEMMA OneThing ==
  ASSUME [Next]_vars
  PROVE  \/ UNCHANGED <<task, uids>>
         \/ UpdateStatus
         \/ ClusterNext /\ UNCHANGED pods
<1>1. CASE Reconcile /\ ~UpdateStatus
  BY <1>1
  DEF Reconcile, ReconcileGone, ReconcileDeleting, ReconcileUninitialised,
      ReconcilePending, ReconcileInvalid, ReconcileBound, ConfigMapCached,
      CreateConfigMap, ConfigMapAlreadyExists, NetworkPolicyCached, CreatePod,
      CreateNetworkPolicy, NetworkPolicyAlreadyExists, PodNotFound, PodFound,
      UpdateConflict, CallRefused, clusterVars
<1>2. CASE Sync \/ Restart
  BY <1>2 DEF Sync, SyncTask, SyncPod, SyncConfigMaps, SyncNetworkPolicy, Restart, clusterVars
<1>3. CASE Users
  BY <1>3 DEF Users, CreateTask, EditSpec, ClearPodName, DeleteTask, DeleteTaskForeground,
              ClusterNext
<1>4. CASE Kubelet \/ Tick
  BY <1>4 DEF Kubelet, StartPod, FinishPod, LoseNode, RecoverNode, DeletePod, SetPodState, Tick
<1>5. CASE GarbageCollector
  BY <1>5 DEF GarbageCollector, CollectConfigMap, CollectNetworkPolicy, CollectPod,
              FinishDeletion, ClusterNext
<1>6. CASE UNCHANGED vars
  BY <1>6 DEF vars, clusterVars
<1> QED BY <1>1, <1>2, <1>3, <1>4, <1>5, <1>6 DEF Next, ClusterNext

\* What happens to a Pod is a step of the lifecycle.
LEMMA PodIsStep ==
  ASSUME RInv, [Next]_vars, UNCHANGED <<task, uids>>
  PROVE  [Lifecycle!Next]_(Lifecycle!vars)
<1>0. /\ pods \in [PodNames -> Pods] /\ PodsOwned /\ podCount \in Nat
      /\ \A p \in PodNames : pods[p].owner = 0 => pods[p].state \notin FinalPodStates
  BY APIAssumption DEF RInv, IInv, TypeOK, ClusterTypeOK, NothingLeft
<1>1. UNCHANGED LifeOf(task)
  OBVIOUS
<1>2. CASE CreatePod
  <2> DEFINE p   == podCount + 1
             new == buildPodForAgentTask(mem)
  <2>1. /\ p \in PodNames /\ pods' = [pods EXCEPT ![p] = new] /\ pods[p].owner = 0
        /\ mem.uid \in 1..uids
    BY <1>0, <1>2, APIAssumption
    DEF CreatePod, PodNames, PodsOwned, RInv, IInv, TypeOK, ClusterTypeOK, WorkerKnows,
        CopiesSound, Copies
  <2>2. new.owner = mem.uid /\ new.state \notin FinalPodStates
    BY DEF buildPodForAgentTask, FinalPodStates
  <2> HIDE DEF p, new
  <2>3. OwnerOf(pods)' = [OwnerOf(pods) EXCEPT ![p] = mem.uid]
    BY <1>0, <2>1, <2>2 DEF OwnerOf
  <2>4. UNCHANGED FateOf(pods)
    BY <1>0, <2>1, <2>2 DEF FateOf
  <2>5. OwnerOf(pods)[p] = 0
    BY <2>1 DEF OwnerOf
  <2>6. Lifecycle!Provide(p)
    BY <1>1, <2>1, <2>3, <2>4, <2>5 DEF Lifecycle!Provide
  <2> QED BY <2>1, <2>6 DEF Lifecycle!Next
<1>3. ASSUME NEW p \in PodNames, NEW state, pods[p].live, pods[p].state \notin FinalPodStates,
             pods' = [pods EXCEPT ![p].state = state]
      PROVE  [Lifecycle!Next]_(Lifecycle!vars)
  <2>1. UNCHANGED OwnerOf(pods)
    BY <1>0, <1>3 DEF OwnerOf, Pods
  <2>2. CASE state \in FinalPodStates
    <3>1. FateOf(pods)' = [FateOf(pods) EXCEPT ![p] = state]
      BY <1>0, <1>3, <2>2 DEF FateOf, Pods
    <3>2. OwnerOf(pods)[p] # 0 /\ FateOf(pods)[p] = "None"
      BY <1>0, <1>3 DEF OwnerOf, FateOf, PodsOwned
    <3>3. Lifecycle!End(p)
      BY <1>1, <2>1, <2>2, <3>1, <3>2 DEF Lifecycle!End, Lifecycle!Outcomes, FinalPodStates
    <3> QED BY <3>3 DEF Lifecycle!Next
  <2>3. CASE state \notin FinalPodStates
    <3>1. UNCHANGED FateOf(pods)
      BY <1>0, <1>3, <2>3 DEF FateOf, Pods
    <3> QED BY <2>1, <3>1, Stutter
  <2> QED BY <2>2, <2>3
<1>4. ASSUME NEW p \in PodNames, pods' = [pods EXCEPT ![p].live = FALSE]
      PROVE  UNCHANGED Lifecycle!vars
  <2>1. UNCHANGED <<OwnerOf(pods), FateOf(pods)>>
    BY <1>0, <1>4 DEF OwnerOf, FateOf, Pods
  <2> QED BY <2>1, Stutter
<1>5. CASE UNCHANGED pods
  BY <1>5, Stutter
<1> QED BY <1>2, <1>3, <1>4, <1>5, PodChanges

\* What users and the collector do to a task is a step of the lifecycle.
LEMMA TaskIsStep ==
  ASSUME RInv, ClusterNext, UNCHANGED pods
  PROVE  [Lifecycle!Next]_(Lifecycle!vars)
<1>0. task \in Tasks /\ task.status \in Statuses
  BY DEF RInv, IInv, TypeOK, ClusterTypeOK, Tasks
<1>1. UNCHANGED <<OwnerOf(pods), FateOf(pods)>>
  OBVIOUS
<1>2. LifeOf(task).uid = task.uid /\ LifeOf(task).podName = task.status.podName
  BY Zenon DEF LifeOf
<1>3. CASE UNCHANGED <<task, uids>>
  BY <1>1, <1>3, Stutter
<1>4. CASE UNCHANGED uids /\ task.uid # 0 /\ task' = NoTask
  <2>1. Lifecycle!Remove
    BY <1>1, <1>2, <1>4, NoTaskNoLife DEF Lifecycle!Remove
  <2> QED BY <2>1 DEF Lifecycle!Next
<1>5. CASE UNCHANGED uids /\ task'.uid = task.uid /\ task'.status = task.status
  <2>1. LifeOf(task') = LifeOf(task)
    BY <1>5, Zenon DEF LifeOf
  <2> QED BY <1>1, <1>5, <2>1, Stutter
<1>6. CASE /\ UNCHANGED uids /\ task.status.podName # 0 /\ task'.uid = task.uid
           /\ task'.status = [task.status EXCEPT !.podName = 0]
  <2> DEFINE st  == task.status
             ran == st.startedAt # 0
             o   == ReportedOutcome(st)
             L   == Life(task.uid, st.phase, st.podName, ran, o)
  <2>1. LifeOf(task) = L /\ ran \in BOOLEAN
    BY LifeOfParts
  <2>2. /\ task'.status.podName = 0 /\ task'.status.phase = st.phase
        /\ task'.status.startedAt = st.startedAt /\ task'.status.reason = st.reason
    BY <1>0, <1>6 DEF Statuses
  <2>3. ReportedOutcome(task'.status) = o
    BY <2>2 DEF ReportedOutcome
  <2>4. Lives(task', task.uid, st.phase, 0, ran, o)
    BY <1>6, <2>2, <2>3 DEF Lives
  <2> HIDE DEF st, ran, o
  <2>5. LifeOf(task') = Life(task.uid, st.phase, 0, ran, o)
    BY <2>1, <2>4, LivesParts
  <2>6. LifeOf(task') = [L EXCEPT !.podName = 0]
    <3>1. PICK x : x = 0
      OBVIOUS
    <3>2. [L EXCEPT !.podName = x] = Life(task.uid, st.phase, x, ran, o)
      BY DEF Life
    <3> QED BY <2>5, <3>1, <3>2
  <2> HIDE DEF L
  <2>7. Lifecycle!Unbind
    BY <1>1, <1>2, <1>6, <2>1, <2>6, Zenon DEF Lifecycle!Unbind
  <2> QED BY <2>7 DEF Lifecycle!Next
<1>7. CASE /\ task.uid = 0 /\ uids' = uids + 1
           /\ task'.uid = uids + 1 /\ task'.status = NoStatus
  <2>0. /\ NoStatus.phase = "" /\ NoStatus.podName = 0 /\ NoStatus.startedAt = 0
        /\ ReportedOutcome(NoStatus) = "None"
    BY DEF NoStatus, ReportedOutcome
  <2>1. Lives(task', uids + 1, "", 0, FALSE, "None")
    BY <1>7, <2>0 DEF Lives
  <2>2. LifeOf(task') = Life(uids + 1, "", 0, FALSE, "None")
    BY <2>1, LivesParts
  <2>3. LifeOf(task') = [Lifecycle!NoLife EXCEPT !.uid = uids + 1]
    <3>1. PICK u, z, ph, r, o : u = uids + 1 /\ z = 0 /\ ph = "" /\ r = FALSE /\ o = "None"
      OBVIOUS
    <3>2. [Life(z, ph, z, r, o) EXCEPT !.uid = u] = Life(u, ph, z, r, o)
      BY DEF Life
    <3>3. Lifecycle!NoLife = Life(z, ph, z, r, o)
      BY <3>1, Zenon DEF Life, Lifecycle!NoLife
    <3> QED BY <2>2, <3>1, <3>2, <3>3
  <2>4. Lifecycle!Submit
    BY <1>1, <1>2, <1>7, <2>3, Zenon DEF Lifecycle!Submit
  <2> QED BY <2>4 DEF Lifecycle!Next
<1> QED BY <1>3, <1>4, <1>5, <1>6, <1>7, TaskMoves, Zenon

\* Seen from outside a task goes through the lifecycle of TaskLifecycle and
\* nothing else, whatever the caches of Reconcile show, whichever call fails and
\* whenever the operator restarts: every step of the operator and of its cluster
\* is a step of the lifecycle, or one that the lifecycle does not show.
THEOREM Refinement == Spec => ImplementsLifecycle
<1>1. Init => Lifecycle!Init
  <2> SUFFICES ASSUME Init PROVE Lifecycle!Init
    OBVIOUS
  <2>1. LifeOf(task) = Lifecycle!NoLife
    BY NoTaskNoLife DEF Init, ClusterInit
  <2>2. /\ uids = 0
        /\ OwnerOf(pods) = [p \in PodNames |-> 0]
        /\ FateOf(pods) = [p \in PodNames |-> "None"]
    BY DEF Init, ClusterInit, OwnerOf, FateOf, NoPod, FinalPodStates
  <2> QED BY <2>1, <2>2 DEF Lifecycle!Init
<1>2. RInv /\ [Next]_vars => [Lifecycle!Next]_(Lifecycle!vars)
  <2> SUFFICES ASSUME RInv, [Next]_vars PROVE [Lifecycle!Next]_(Lifecycle!vars)
    OBVIOUS
  <2>1. CASE UNCHANGED <<task, uids>>
    BY <2>1, PodIsStep
  <2>2. CASE UpdateStatus
    <3>1. /\ task \in Tasks /\ pods \in [PodNames -> Pods] /\ 0 \notin PodNames
          /\ UNCHANGED <<uids, pods>>
      BY <2>2, APIAssumption
      DEF RInv, IInv, TypeOK, ClusterTypeOK, PodNames, UpdateStatus
    <3>2. Move(task, task', pods)
      BY <2>2, UpdateKeeps DEF Advances
    <3> QED BY <3>1, <3>2, MoveIsStep
  <2>3. CASE ClusterNext /\ UNCHANGED pods
    BY <2>3, TaskIsStep
  <2> QED BY <2>1, <2>2, <2>3, OneThing
<1> QED BY <1>1, <1>2, LifecycleInvariance, PTL DEF Spec, ImplementsLifecycle, Lifecycle!Spec

-----------------------------------------------------------------------------
(***************************************************************************)
(* The Pods of the first task of a name have their NetworkPolicy and their *)
(* ConfigMap, for every set of specs and every bound.  From the second     *)
(* task of the name on they need not: its worker finds the objects of the  *)
(* first one, which the garbage collector then removes.                    *)
(***************************************************************************)
\* A task that exists has a spec.
SpecsKnown == \A t \in Copies : t.uid # 0 => t.spec \in Specs

\* Every object, stored or cached, belongs to a task that was submitted.
OwnersKnown ==
  /\ netPol \in 0..uids /\ cacheNetPol \in 0..uids
  /\ \A s \in Specs : configMaps[s] \in 0..uids /\ cacheConfigMaps[s] \in 0..uids
  /\ \A p \in PodNames : /\ pods[p].owner \in 0..uids
                         /\ pods[p].live => pods[p].configMap \in Specs

\* The task exists and is not on its way out.
Alive == task.uid # 0 /\ ~task.deleting

\* What the cache shows is there, what the worker has ensured is there, and so
\* is what any Pod needs.
Present ==
  /\ cacheNetPol # 0 => netPol # 0
  /\ \A s \in Specs : cacheConfigMaps[s] # 0 => configMaps[s] # 0
  /\ pc \in {"ensureNetworkPolicy", "createPod"} => configMaps[mem.spec] # 0
  /\ pc = "createPod" => netPol # 0
  /\ \A p \in PodNames : pods[p].live =>
       netPol # 0 /\ configMaps[pods[p].configMap] # 0

\* The invariant: while the first task of the name is alive the collector
\* removes nothing, so what was found stays.
KInv == RInv /\ SpecsKnown /\ OwnersKnown /\ (uids <= 1 /\ Alive => Present)

-----------------------------------------------------------------------------
\* The spec of a task changes by an edit only, to another spec.
LEMMA SpecsStep ==
  ASSUME RInv, SpecsKnown, [Next]_vars
  PROVE  SpecsKnown'
<1>0. task \in Tasks /\ cacheTask \in Tasks /\ mem \in Tasks
  BY DEF RInv, IInv, TypeOK, ClusterTypeOK
<1> DEFINE known(t) == t.uid # 0 => t.spec \in Specs
<1>1. known(task) /\ known(cacheTask) /\ known(mem)
  BY DEF SpecsKnown, Copies
<1>2. known(NoTask)
  BY DEF NoTask
<1>3. known(task')
  <2>1. CASE UNCHANGED task
    BY <1>1, <2>1
  <2>2. CASE UpdateStatus
    <3>1. task'.uid = task.uid /\ task'.spec = task.spec
      BY <1>0, <2>2 DEF UpdateStatus, WriteTask, Tasks
    <3> QED BY <1>1, <3>1
  <2>3. CASE ClusterNext
    <3>1. ASSUME NEW s \in Specs, CreateTask(s) \/ EditSpec(s)
          PROVE  task'.spec \in Specs
      BY <1>0, <3>1 DEF CreateTask, EditSpec, WriteTask, Tasks, NoTask
    <3>2. CASE DeleteTaskForeground \/ ClearPodName
      <4>1. task'.uid = task.uid /\ task'.spec = task.spec
        BY <1>0, <3>2 DEF DeleteTaskForeground, ClearPodName, WriteTask, Tasks
      <4> QED BY <1>1, <4>1
    <3>3. CASE DeleteTask \/ FinishDeletion
      BY <1>2, <3>3 DEF DeleteTask, FinishDeletion
    <3>4. CASE \/ Kubelet \/ Tick \/ CollectNetworkPolicy
               \/ \E s \in Specs : CollectConfigMap(s)
               \/ \E p \in PodNames : CollectPod(p)
      <4>1. UNCHANGED task
        BY <3>4 DEF Kubelet, StartPod, FinishPod, LoseNode, RecoverNode, DeletePod,
                    SetPodState, CollectConfigMap, CollectNetworkPolicy, CollectPod, Tick
      <4> QED BY <2>1, <4>1
    <3> QED BY <2>3, <3>1, <3>2, <3>3, <3>4 DEF ClusterNext, Users, GarbageCollector
  <2> QED BY <2>1, <2>2, <2>3, TaskUnchanged
<1>4. known(cacheTask')
  <2>1. cacheTask' \in {cacheTask, task}
    BY DEF Next, Reconcile, ReconcileGone, ReconcileDeleting, ReconcileUninitialised,
      ReconcilePending, ReconcileInvalid, ReconcileBound, ConfigMapCached,
      CreateConfigMap, ConfigMapAlreadyExists, NetworkPolicyCached, CreatePod,
      CreateNetworkPolicy, NetworkPolicyAlreadyExists, PodNotFound, PodFound,
      UpdateStatus, UpdateConflict, CallRefused, Sync, SyncTask, SyncPod, SyncConfigMaps,
      SyncNetworkPolicy, Restart, cacheVars, vars
  <2> QED BY <1>1, <2>1
<1>5. known(mem')
  <2>1. \/ mem' \in {mem, cacheTask, NoTask}
        \/ mem'.uid = cacheTask.uid /\ mem'.spec = cacheTask.spec
        \/ mem'.uid = mem.uid /\ mem'.spec = mem.spec
    <3>1. CASE \/ ReconcileGone \/ ReconcileDeleting \/ ReconcilePending \/ ReconcileBound
               \/ ConfigMapCached \/ CreateConfigMap \/ ConfigMapAlreadyExists
               \/ NetworkPolicyCached \/ CreateNetworkPolicy \/ NetworkPolicyAlreadyExists
               \/ UpdateStatus \/ UpdateConflict \/ CallRefused
      BY <3>1 DEF ReconcileGone, ReconcileDeleting, ReconcilePending, ReconcileBound,
        ConfigMapCached, CreateConfigMap, ConfigMapAlreadyExists, NetworkPolicyCached,
        CreateNetworkPolicy, NetworkPolicyAlreadyExists, UpdateStatus, UpdateConflict,
        CallRefused, Reply, Return, ReturnError, Continue
    <3>2. CASE ReconcileUninitialised \/ ReconcileInvalid
      BY <1>0, <3>2 DEF ReconcileUninitialised, ReconcileInvalid, Continue, Tasks
    <3>3. CASE CreatePod \/ PodNotFound \/ PodFound
      BY <1>0, <3>3
      DEF CreatePod, PodNotFound, PodFound, Reply, Return, ReturnError, Continue, Tasks
    <3>4. CASE Sync \/ Restart
      BY <3>4 DEF Sync, SyncTask, SyncPod, SyncConfigMaps, SyncNetworkPolicy, Restart,
                  Return, Continue, workerVars
    <3>5. CASE UNCHANGED workerVars
      BY <3>5 DEF workerVars
    <3> QED BY <3>1, <3>2, <3>3, <3>4, <3>5 DEF Next, Reconcile, vars
  <2> QED BY <1>1, <1>2, <2>1
<1> QED BY <1>3, <1>4, <1>5 DEF SpecsKnown, Copies

\* What happens to the NetworkPolicy, the ConfigMaps and their caches.
LEMMA ObjectChanges ==
  ASSUME [Next]_vars
  PROVE  /\ \/ UNCHANGED netPol
            \/ CreateNetworkPolicy
            \/ Orphaned(netPol) /\ netPol' = 0 /\ UNCHANGED <<task, uids>>
         /\ \/ UNCHANGED configMaps
            \/ CreateConfigMap
            \/ \E s \in Specs : /\ Orphaned(configMaps[s])
                                /\ configMaps' = [configMaps EXCEPT ![s] = 0]
                                /\ UNCHANGED <<task, uids>>
         /\ cacheNetPol' \in {cacheNetPol, netPol}
         /\ cacheConfigMaps' \in {cacheConfigMaps, configMaps}
<1>1. CASE Reconcile
  BY <1>1
  DEF Reconcile, ReconcileGone, ReconcileDeleting, ReconcileUninitialised,
      ReconcilePending, ReconcileInvalid, ReconcileBound, ConfigMapCached,
      CreateConfigMap, ConfigMapAlreadyExists, NetworkPolicyCached, CreatePod,
      CreateNetworkPolicy, NetworkPolicyAlreadyExists, PodNotFound, PodFound,
      UpdateStatus, UpdateConflict, CallRefused, clusterVars, cacheVars
<1>2. CASE Sync \/ Restart
  BY <1>2 DEF Sync, SyncTask, SyncPod, SyncConfigMaps, SyncNetworkPolicy, Restart, clusterVars
<1>3. CASE (Users \/ Kubelet \/ Tick) /\ UNCHANGED cacheVars
  BY <1>3
  DEF Users, CreateTask, EditSpec, ClearPodName, DeleteTask, DeleteTaskForeground, Kubelet,
      StartPod, FinishPod, LoseNode, RecoverNode, DeletePod, SetPodState, Tick, cacheVars
<1>4. CASE GarbageCollector /\ UNCHANGED cacheVars
  BY <1>4 DEF GarbageCollector, CollectConfigMap, CollectNetworkPolicy, CollectPod,
              FinishDeletion, cacheVars
<1>5. CASE UNCHANGED vars
  BY <1>5 DEF vars, clusterVars, cacheVars
<1> QED BY <1>1, <1>2, <1>3, <1>4, <1>5 DEF Next, ClusterNext

\* A Pod that is there was there before, or has just been created.
LEMMA LivePods ==
  ASSUME RInv, [Next]_vars, NEW p \in PodNames
  PROVE  \/ /\ pods'[p].owner = pods[p].owner /\ pods'[p].configMap = pods[p].configMap
            /\ pods'[p].live => pods[p].live
         \/ CreatePod /\ pods'[p].owner = mem.uid /\ pods'[p].configMap = mem.spec
<1>0. pods \in [PodNames -> Pods]
  BY DEF RInv, IInv, TypeOK, ClusterTypeOK
<1>1. CASE CreatePod
  BY <1>0, <1>1 DEF CreatePod, buildPodForAgentTask, buildConfigMapName
<1>2. ASSUME NEW q \in PodNames, NEW state, pods' = [pods EXCEPT ![q].state = state]
      PROVE  /\ pods'[p].owner = pods[p].owner /\ pods'[p].configMap = pods[p].configMap
             /\ pods'[p].live => pods[p].live
  BY <1>0, <1>2 DEF Pods
<1>3. ASSUME NEW q \in PodNames, pods' = [pods EXCEPT ![q].live = FALSE]
      PROVE  /\ pods'[p].owner = pods[p].owner /\ pods'[p].configMap = pods[p].configMap
             /\ pods'[p].live => pods[p].live
  BY <1>0, <1>3 DEF Pods
<1>4. CASE UNCHANGED pods
  BY <1>4
<1> QED BY <1>1, <1>2, <1>3, <1>4, PodChanges

\* Every object belongs to a task that was submitted.
LEMMA OwnersStep ==
  ASSUME RInv, SpecsKnown, OwnersKnown, [Next]_vars
  PROVE  OwnersKnown'
<1>0. /\ uids \in Nat /\ uids' \in Nat /\ uids <= uids' /\ mem.uid \in 0..uids
      /\ configMaps \in [Specs -> Nat] /\ cacheConfigMaps \in [Specs -> Nat]
  BY Surroundings DEF RInv, IInv, TypeOK, ClusterTypeOK, CopiesSound, Copies
<1>1. netPol' \in 0..uids'
  BY <1>0, ObjectChanges DEF OwnersKnown, CreateNetworkPolicy, buildNetworkPolicy
<1>2. cacheNetPol' \in 0..uids'
  BY <1>0, ObjectChanges DEF OwnersKnown
<1>3. ASSUME NEW s \in Specs PROVE configMaps'[s] \in 0..uids'
  <2>1. CASE CreateConfigMap
    BY <1>0, <2>1 DEF OwnersKnown, CreateConfigMap, buildConfigMapForAgentTask
  <2>2. ASSUME NEW r \in Specs, configMaps' = [configMaps EXCEPT ![r] = 0]
        PROVE  configMaps'[s] \in 0..uids'
    BY <1>0, <2>2 DEF OwnersKnown
  <2> QED BY <1>0, <2>1, <2>2, ObjectChanges DEF OwnersKnown
<1>4. ASSUME NEW s \in Specs PROVE cacheConfigMaps'[s] \in 0..uids'
  BY <1>0, ObjectChanges DEF OwnersKnown
<1>5. ASSUME NEW p \in PodNames
      PROVE  /\ pods'[p].owner \in 0..uids'
             /\ pods'[p].live => pods'[p].configMap \in Specs
  <2>1. CASE CreatePod /\ pods'[p].owner = mem.uid /\ pods'[p].configMap = mem.spec
    <3>1. mem.spec \in Specs
      BY <2>1 DEF CreatePod, SpecsKnown, Copies, RInv, IInv, WorkerKnows
    <3> QED BY <1>0, <2>1, <3>1
  <2>2. CASE /\ pods'[p].owner = pods[p].owner /\ pods'[p].configMap = pods[p].configMap
             /\ pods'[p].live => pods[p].live
    BY <1>0, <2>2 DEF OwnersKnown
  <2> QED BY <2>1, <2>2, LivePods
<1> QED BY <1>1, <1>2, <1>3, <1>4, <1>5 DEF OwnersKnown

\* While the first task of the name is alive its objects stay.
LEMMA ObjectsStay ==
  ASSUME RInv, OwnersKnown, [Next]_vars, uids' <= 1, Alive'
  PROVE  /\ netPol # 0 => netPol' # 0
         /\ \A s \in Specs : configMaps[s] # 0 => configMaps'[s] # 0
<1>0. /\ uids \in Nat /\ uids' \in Nat /\ uids <= uids' /\ task.uid \in 0..uids
      /\ configMaps \in [Specs -> Nat]
  BY Surroundings DEF RInv, IInv, TypeOK, ClusterTypeOK, CopiesSound, Copies
<1>1. ASSUME NEW o \in 0..uids, Orphaned(o), UNCHANGED <<task, uids>> PROVE FALSE
  <2>1. task.uid = 1 /\ o = 1
    BY <1>0, <1>1 DEF Orphaned, Alive
  <2> QED BY <1>1, <2>1 DEF Orphaned, OwnerLive, Alive
<1>2. netPol # 0 => netPol' # 0
  BY <1>1, ObjectChanges DEF OwnersKnown, CreateNetworkPolicy
<1>3. ASSUME NEW s \in Specs, configMaps[s] # 0 PROVE configMaps'[s] # 0
  <2>1. CASE CreateConfigMap
    BY <1>0, <1>3, <2>1 DEF CreateConfigMap
  <2>2. ASSUME NEW r \in Specs, Orphaned(configMaps[r]), UNCHANGED <<task, uids>> PROVE FALSE
    BY <1>1, <2>2 DEF OwnersKnown
  <2> QED BY <1>3, <2>1, <2>2, ObjectChanges
<1> QED BY <1>2, <1>3

\* Before the first task there is nothing.
LEMMA NothingYet ==
  ASSUME RInv, OwnersKnown, uids = 0
  PROVE  Present
<1>1. mem.uid = 0 /\ pc = "idle"
  BY DEF RInv, IInv, WorkerKnows, CopiesSound, Copies
<1>2. \A p \in PodNames : ~pods[p].live
  BY DEF OwnersKnown, RInv, IInv, PodsOwned
<1>3. cacheNetPol = 0 /\ \A s \in Specs : cacheConfigMaps[s] = 0
  BY DEF OwnersKnown
<1> QED BY <1>1, <1>2, <1>3 DEF Present

\* A task that is alive was alive before, or has just been submitted.
LEMMA AliveBefore ==
  ASSUME RInv, [Next]_vars, uids' <= 1, Alive'
  PROVE  uids <= 1 /\ (Alive \/ uids = 0)
<1>0. task \in Tasks /\ uids \in Nat /\ uids' \in Nat /\ uids <= uids'
  BY Surroundings DEF RInv, IInv, TypeOK, ClusterTypeOK
<1>1. CASE UNCHANGED task
  BY <1>0, <1>1 DEF Alive
<1>2. CASE UpdateStatus
  <2>1. task'.uid = task.uid /\ task'.deleting = task.deleting
    BY <1>0, <1>2 DEF UpdateStatus, WriteTask, Tasks
  <2> QED BY <1>0, <2>1 DEF Alive
<1>3. CASE ClusterNext
  <2>1. ASSUME NEW s \in Specs, CreateTask(s) PROVE uids = 0
    BY <1>0, <2>1 DEF CreateTask
  <2>2. ASSUME NEW s \in Specs, EditSpec(s) \/ ClearPodName PROVE Alive
    <3>1. task'.uid = task.uid /\ task'.deleting = task.deleting
      BY <1>0, <2>2 DEF EditSpec, ClearPodName, WriteTask, Tasks
    <3> QED BY <3>1 DEF Alive
  <2>3. ASSUME DeleteTaskForeground PROVE FALSE
    <3>1. task'.deleting = TRUE
      BY <1>0, <2>3 DEF DeleteTaskForeground, WriteTask, Tasks
    <3> QED BY <3>1 DEF Alive
  <2>4. ASSUME DeleteTask \/ FinishDeletion PROVE FALSE
    <3>1. task'.uid = 0
      BY <2>4 DEF DeleteTask, FinishDeletion, NoTask
    <3> QED BY <3>1 DEF Alive
  <2>5. CASE \/ Kubelet \/ Tick \/ CollectNetworkPolicy
             \/ \E s \in Specs : CollectConfigMap(s)
             \/ \E p \in PodNames : CollectPod(p)
    <3>1. UNCHANGED task
      BY <2>5 DEF Kubelet, StartPod, FinishPod, LoseNode, RecoverNode, DeletePod,
                  SetPodState, CollectConfigMap, CollectNetworkPolicy, CollectPod, Tick
    <3> QED BY <1>1, <3>1
  <2>6. \E s \in Specs : TRUE
    BY APIAssumption
  <2> QED BY <1>0, <1>3, <2>1, <2>2, <2>3, <2>4, <2>5, <2>6
          DEF ClusterNext, Users, GarbageCollector
<1> QED BY <1>1, <1>2, <1>3, TaskUnchanged

\* How the worker comes to the point where it has ensured an object.
LEMMA EnsureSteps ==
  ASSUME [Next]_vars, pc' \in {"ensureNetworkPolicy", "createPod"}
  PROVE  \/ UNCHANGED <<pc, mem>>
         \/ pc' = "ensureNetworkPolicy" /\ (ConfigMapCached \/ CreateConfigMap) /\ mem' = mem
         \/ pc' = "createPod" /\ (NetworkPolicyCached \/ CreateNetworkPolicy) /\ mem' = mem
<1>1. CASE \/ ReconcileGone \/ ReconcileDeleting \/ ReconcileUninitialised
           \/ ReconcilePending \/ ReconcileInvalid \/ ReconcileBound
  BY <1>1 DEF ReconcileGone, ReconcileDeleting, ReconcileUninitialised, ReconcilePending,
              ReconcileInvalid, ReconcileBound, Continue
<1>2. CASE \/ ConfigMapCached \/ CreateConfigMap \/ ConfigMapAlreadyExists
           \/ NetworkPolicyCached \/ CreateNetworkPolicy \/ NetworkPolicyAlreadyExists
  BY <1>2
  DEF ConfigMapCached, CreateConfigMap, ConfigMapAlreadyExists, NetworkPolicyCached,
      CreateNetworkPolicy, NetworkPolicyAlreadyExists, Reply, ReturnError, Return, Continue
<1>3. CASE CreatePod \/ PodNotFound \/ PodFound \/ UpdateStatus \/ UpdateConflict \/ CallRefused
  BY <1>3
  DEF CreatePod, PodNotFound, PodFound, UpdateStatus, UpdateConflict, CallRefused, Reply,
      ReturnError, Return, Continue
<1>4. CASE Sync \/ Restart
  BY <1>4 DEF Sync, SyncTask, SyncPod, SyncConfigMaps, SyncNetworkPolicy, Restart,
              Return, Continue, workerVars
<1>5. CASE UNCHANGED workerVars
  BY <1>5 DEF workerVars
<1> QED BY <1>1, <1>2, <1>3, <1>4, <1>5 DEF Next, Reconcile, vars

\* What is there stays, and every new Pod finds what it needs.
LEMMA PresentStep ==
  ASSUME RInv, SpecsKnown, OwnersKnown, Present, [Next]_vars, uids' <= 1, Alive'
  PROVE  Present'
<1>0. /\ configMaps \in [Specs -> Nat]
      /\ pc # "idle" => mem.spec \in Specs /\ mem.uid # 0
  BY DEF RInv, IInv, TypeOK, ClusterTypeOK, WorkerKnows, SpecsKnown, Copies
<1>1. /\ netPol # 0 => netPol' # 0
      /\ \A s \in Specs : configMaps[s] # 0 => configMaps'[s] # 0
  BY ObjectsStay
<1>2. cacheNetPol' # 0 => netPol' # 0
  BY <1>1, ObjectChanges DEF Present
<1>3. \A s \in Specs : cacheConfigMaps'[s] # 0 => configMaps'[s] # 0
  BY <1>1, ObjectChanges DEF Present
<1>4. pc' \in {"ensureNetworkPolicy", "createPod"} => configMaps'[mem'.spec] # 0
  <2> SUFFICES ASSUME pc' \in {"ensureNetworkPolicy", "createPod"}
               PROVE  configMaps'[mem'.spec] # 0
    OBVIOUS
  <2>1. CASE UNCHANGED <<pc, mem>>
    BY <1>0, <1>1, <2>1 DEF Present
  <2>2. CASE ConfigMapCached /\ mem' = mem
    BY <1>0, <1>1, <2>2 DEF ConfigMapCached, buildConfigMapName, Present
  <2>3. CASE CreateConfigMap /\ mem' = mem
    BY <1>0, <2>3 DEF CreateConfigMap, buildConfigMapName, buildConfigMapForAgentTask
  <2>4. CASE (NetworkPolicyCached \/ CreateNetworkPolicy) /\ mem' = mem
    BY <1>0, <1>1, <2>4 DEF NetworkPolicyCached, CreateNetworkPolicy, Present
  <2> QED BY <2>1, <2>2, <2>3, <2>4, EnsureSteps
<1>5. pc' = "createPod" => netPol' # 0
  <2> SUFFICES ASSUME pc' = "createPod" PROVE netPol' # 0
    OBVIOUS
  <2>1. CASE UNCHANGED <<pc, mem>>
    BY <1>1, <2>1 DEF Present
  <2>2. CASE NetworkPolicyCached
    BY <1>1, <2>2 DEF NetworkPolicyCached, Present
  <2>3. CASE CreateNetworkPolicy
    BY <1>0, <2>3 DEF CreateNetworkPolicy, buildNetworkPolicy
  <2> QED BY <2>1, <2>2, <2>3, EnsureSteps
<1>6. ASSUME NEW p \in PodNames, pods'[p].live
      PROVE  netPol' # 0 /\ configMaps'[pods'[p].configMap] # 0
  <2>1. CASE CreatePod /\ pods'[p].configMap = mem.spec
    BY <1>0, <1>1, <2>1 DEF CreatePod, Present
  <2>2. CASE pods[p].live /\ pods'[p].configMap = pods[p].configMap
    BY <1>1, <2>2 DEF OwnersKnown, Present
  <2> QED BY <1>6, <2>1, <2>2, LivePods
<1> QED BY <1>2, <1>3, <1>4, <1>5, <1>6 DEF Present

\* Nothing is there at the start.
LEMMA InitKInv == Init => KInv
<1> SUFFICES ASSUME Init PROVE KInv
  OBVIOUS
<1>1. task.uid = 0 /\ cacheTask.uid = 0 /\ mem.uid = 0
  BY DEF Init, ClusterInit, NoTask
<1>2. SpecsKnown /\ ~Alive
  BY <1>1 DEF SpecsKnown, Copies, Alive
<1>3. OwnersKnown
  BY DEF Init, ClusterInit, OwnersKnown, NoPod
<1> QED BY <1>2, <1>3, InitRInv DEF KInv

\* A step of the operator or of its cluster.
LEMMA NextKInv == KInv /\ [Next]_vars => KInv'
<1> SUFFICES ASSUME KInv, [Next]_vars PROVE KInv'
  OBVIOUS
<1>1. RInv' /\ SpecsKnown' /\ OwnersKnown'
  BY NextRInv, SpecsStep, OwnersStep DEF KInv
<1>2. ASSUME uids' <= 1, Alive' PROVE Present'
  <2>1. Present
    BY <1>2, AliveBefore, NothingYet DEF KInv
  <2> QED BY <1>1, <1>2, <2>1, PresentStep DEF KInv
<1> QED BY <1>1, <1>2 DEF KInv

\* KInv is an invariant.
LEMMA DependencyInvariance == Spec => []KInv
BY InitKInv, NextKInv, PTL DEF Spec

\* As long as the name has been used for one task only, every Pod of a live task
\* has its egress restriction and its task.yaml, also a Pod that no status names
\* (ensureConfigMapForPod and ensureNetworkPolicyForPod, before r.Create).  The
\* run claim_dependencies shows that the limit is needed.
THEOREM DependenciesOfFirstTask == Spec => [](uids <= 1 => DependenciesPresent)
<1>1. KInv => (uids <= 1 => DependenciesPresent)
  <2> SUFFICES ASSUME KInv, uids <= 1, NEW p \in PodNames,
                      pods[p].live, OwnerLive(pods[p].owner)
               PROVE  netPol # 0 /\ configMaps[pods[p].configMap] # 0
    BY DEF DependenciesPresent
  <2>1. Alive
    BY DEF OwnerLive, Alive
  <2> QED BY <2>1 DEF KInv, Present
<1> QED BY <1>1, DependencyInvariance, PTL

=============================================================================
