------------------------------ MODULE TaskLifecycle ------------------------------
(***************************************************************************)
(* What the operator promises whoever watches an AgentTask, without its    *)
(* caches, API calls, retries and crashes.                                 *)
(*                                                                         *)
(*   life   the task: its uid (0: there is none), phase, Pod, whether it   *)
(*          is known to have run and the outcome it reports                *)
(*   uids   tasks submitted so far under this name                         *)
(*   owner  Pod -> uid of the task it was created for, 0: not created      *)
(*   fate   Pod -> how it ended, "None" while it has not                   *)
(*                                                                         *)
(* The promise: a task gets one Pod of its own; it goes from Provisioning  *)
(* to Running and not back; the operator may lose track of the Pod and     *)
(* find it again (phase Failed without an outcome); an outcome, once       *)
(* reported, is the Pod's and stays for as long as the task names the Pod. *)
(* The clock and the cluster's other objects are not part of it.           *)
(***************************************************************************)
EXTENDS Naturals

CONSTANT PodNames

VARIABLES life, uids, owner, fate

vars == <<life, uids, owner, fate>>

Outcomes == {"Succeeded", "Failed", "Evicted"}

\* The phase in which a task reports the outcome of its Pod.
PhaseOf(o) == CASE o = "Succeeded" -> "Completed"
                [] o = "Evicted"   -> "Evicted"
                [] o = "Failed"    -> "Failed"

NoLife == [uid |-> 0, phase |-> "", podName |-> 0, ran |-> FALSE, outcome |-> "None"]

Init ==
  /\ life = NoLife
  /\ uids = 0
  /\ owner = [p \in PodNames |-> 0]
  /\ fate = [p \in PodNames |-> "None"]

-----------------------------------------------------------------------------
(***************************************************************************)
(* Users and Pods.                                                         *)
(***************************************************************************)
Submit ==
  /\ life.uid = 0
  /\ uids' = uids + 1
  /\ life' = [NoLife EXCEPT !.uid = uids + 1]
  /\ UNCHANGED <<owner, fate>>

Remove ==
  /\ life.uid # 0
  /\ life' = NoLife
  /\ UNCHANGED <<uids, owner, fate>>

\* Somebody empties the field that names the Pod.
Unbind ==
  /\ life.podName # 0
  /\ life' = [life EXCEPT !.podName = 0]
  /\ UNCHANGED <<uids, owner, fate>>

\* A Pod is created for a task, which may be gone by then.
Provide(p) ==
  /\ owner[p] = 0
  /\ \E u \in 1..uids : owner' = [owner EXCEPT ![p] = u]
  /\ UNCHANGED <<life, uids, fate>>

End(p) ==
  /\ owner[p] # 0
  /\ fate[p] = "None"
  /\ \E o \in Outcomes : fate' = [fate EXCEPT ![p] = o]
  /\ UNCHANGED <<life, uids, owner>>

-----------------------------------------------------------------------------
(***************************************************************************)
(* What the status of a task may do.                                       *)
(***************************************************************************)
Becomes(l) == life' = l /\ UNCHANGED <<uids, owner, fate>>

Accept ==
  /\ life.uid # 0 /\ life.phase = ""
  /\ Becomes([life EXCEPT !.phase = "Pending"])

Bind(p) ==
  /\ life.phase = "Pending" /\ life.podName = 0
  /\ owner[p] = life.uid
  /\ Becomes([life EXCEPT !.phase = "Provisioning", !.podName = p])

\* The Pod is known and no outcome is reported yet.
Open == life.podName # 0 /\ life.outcome = "None"

Wait ==
  /\ Open /\ ~life.ran
  /\ Becomes([life EXCEPT !.phase = "Provisioning"])

Run ==
  /\ Open
  /\ Becomes([life EXCEPT !.phase = "Running", !.ran = TRUE])

LoseTrack ==
  /\ Open
  /\ Becomes([life EXCEPT !.phase = "Failed"])

Report ==
  /\ Open
  /\ fate[life.podName] # "None"
  /\ Becomes([life EXCEPT !.phase = PhaseOf(fate[life.podName]),
                          !.outcome = fate[life.podName]])

\* A task that has no Pod and is not waiting for one is invalid.
Invalidate ==
  /\ life.podName = 0 /\ life.phase \notin {"", "Pending"}
  /\ Becomes([life EXCEPT !.phase = "Failed", !.outcome = "None"])

-----------------------------------------------------------------------------
Next ==
  \/ Submit \/ Remove \/ Unbind
  \/ \E p \in PodNames : Provide(p) \/ End(p) \/ Bind(p)
  \/ Accept \/ Wait \/ Run \/ LoseTrack \/ Report \/ Invalidate

Spec == Init /\ [][Next]_vars

=============================================================================
