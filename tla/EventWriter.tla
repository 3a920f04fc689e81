------------------------------- MODULE EventWriter -------------------------------
(***************************************************************************)
(* The event stream of one task (agent_anvil/events.py): an append-only    *)
(* file of events, each stamped with the step that was set last.           *)
(*                                                                         *)
(* emit can raise: before the line is written (clock, validation, a full   *)
(* disk) or after it (the flush of what the buffer already holds, the echo *)
(* to stdout), so an event whose emit raised may or may not be in the      *)
(* stream.  The payload of an event is reduced to the numbers that the     *)
(* properties compare: the tool call, the tokens, the totals.              *)
(***************************************************************************)
EXTENDS Naturals, Sequences, FiniteSetsExt

CONSTANT MaxEmitFaults   \* bound on the calls of emit that raise

ASSUME EventAssumption == MaxEmitFaults \in Nat

VARIABLES
  log,         \* the lines of events.jsonl
  writerStep,  \* EventWriter._step
  emitFaults   \* calls of emit that raised so far

eventVars == <<log, writerStep, emitFaults>>

\* The types this code emits; network_*, checkpoint_* are declared only.
EventTypes == {"agent_start", "agent_step_start", "llm_call_start", "llm_call_end",
               "tool_call_start", "file_mutation", "tool_call_end", "agent_step_end",
               "agent_error", "agent_done"}

\* call: the index of the tool use; tokens, steps: the totals it reports.
Events == [type : EventTypes, step : Nat, call : Nat, tokens : Nat, steps : Nat]

EventsTypeOK ==
  /\ log \in Seq(Events)
  /\ writerStep \in Nat
  /\ emitFaults \in 0..MaxEmitFaults

EventsInit ==
  /\ log = <<>>
  /\ writerStep = 0
  /\ emitFaults = 0

emit(e) ==
  /\ log' = Append(log, e)
  /\ UNCHANGED emitFaults

emitRaises(e) ==
  /\ emitFaults < MaxEmitFaults
  /\ emitFaults' = emitFaults + 1
  /\ log' \in {log, Append(log, e)}

-----------------------------------------------------------------------------
(***************************************************************************)
(* The trace loader (agent_anvil/trace.py) on a stream of whole lines.     *)
(***************************************************************************)
\* The events of a type, each at its place in the stream.
by_type(type) == [i \in {k \in DOMAIN log : log[k].type = type} |-> log[i]]

total_steps ==
  IF log = <<>> THEN 0 ELSE Max({log[i].step : i \in DOMAIN log}) + 1

=============================================================================
