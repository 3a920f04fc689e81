------------------------------- MODULE MCSandboxPod -------------------------------
(***************************************************************************)
(* An instance of SandboxPod for TLC: one task, one Pod, one LLM call that *)
(* may raise, a start that may fail, a kill anywhere.                      *)
(***************************************************************************)
EXTENDS SandboxPod

CONSTANT specA

OneSpec   == {specA}
OneToken  == {1}
NoFaults  == {}

=============================================================================
