-------------------------------- MODULE AgentLoop --------------------------------
(***************************************************************************)
(* The agent loop (agent_anvil/loop.py) and its process                    *)
(* (agent_anvil/__main__.py): one step is one LLM call and the tool calls  *)
(* it asks for, in order; every event goes to the stream of EventWriter.   *)
(*                                                                         *)
(* pc names the next effect: the event that is due, "while" (the head of   *)
(* the loop), "complete" (the LLM call), "run_tool" or "return" (of main). *)
(* What raises inside the try block of run goes to "agent_error"; what     *)
(* raises outside of it ends the process with exit code 1.                 *)
(*                                                                         *)
(* The LLM and the tools are nondeterministic.  A tool use is "missing"    *)
(* (not in tool_map), a "reader" (bash, file_read, web_search: emits       *)
(* nothing) or a "writer" (file_write, file_edit: one write, then one      *)
(* file_mutation event).  What bash does to files is not tracked by the    *)
(* code (bash.py) and not here: see Workspace.  Input and output tokens    *)
(* are one number.                                                         *)
(***************************************************************************)
EXTENDS EventWriter

CONSTANTS
  MaxSteps,  \* spec.max_steps
  MaxTools,  \* bound on the tool uses of one response
  Tokens     \* the token counts a response may report

ASSUME LoopAssumption ==
  /\ MaxSteps \in Nat
  /\ MaxTools \in Nat
  /\ Tokens \subseteq Nat

VARIABLES
  pc,
  step,      \* completed iterations
  messages,  \* the conversation
  resp,      \* the response of the current step
  call,      \* index of the tool use being handled
  results,   \* is_error of the tool uses of this step that have run
  tokens,    \* total_input_tokens + total_output_tokens
  outcome,
  exit,      \* of the process: running, ok (0), crashed (1), killed (137)
  written    \* <<step, call>> of the uses of file_write and file_edit that changed a file

loopVars == <<step, messages, resp, call, results, tokens, outcome, exit, written>>
vars     == <<eventVars, pc, loopVars>>

StopReasons == {"end_turn", "tool_use", "max_tokens", "stop_sequence", "error"}
ToolUses    == {"missing", "reader", "writer"}
Responses   == [stop : StopReasons, tokens : Tokens,
                tool_uses : UNION {[1..n -> ToolUses] : n \in 0..MaxTools}]
NoResponse  == [stop |-> "end_turn", tokens |-> 0, tool_uses |-> <<>>]

\* uses: tool_use blocks of an assistant message; answers: tool_result blocks
\* of a user message, by is_error.
Messages == [role : {"user", "assistant"}, uses : 0..MaxTools, answers : Seq(BOOLEAN)]

\* The type invariant.
TypeOK ==
  /\ EventsTypeOK
  /\ pc \in EventTypes \cup {"while", "complete", "run_tool", "return", "exited"}
  /\ step \in 0..MaxSteps
  /\ messages \in Seq(Messages)
  /\ resp \in Responses \cup {NoResponse}
  /\ call \in 0..MaxTools
  /\ results \in Seq(BOOLEAN)
  /\ tokens \in Nat
  /\ outcome \in {"completed", "failed", "max_steps"}
  /\ exit \in {"running", "ok", "crashed", "killed"}
  /\ written \subseteq (0..MaxSteps) \X (1..MaxTools)

Init ==
  /\ EventsInit
  /\ pc = "agent_start"
  /\ step = 0
  /\ messages = <<[role |-> "user", uses |-> 0, answers |-> <<>>]>>
  /\ resp = NoResponse
  /\ call = 0
  /\ results = <<>>
  /\ tokens = 0
  /\ outcome = "completed"
  /\ exit = "running"
  /\ written = {}

Exit(code) ==
  /\ pc' = "exited"
  /\ exit' = code

-----------------------------------------------------------------------------
(***************************************************************************)
(* Events.                                                                 *)
(***************************************************************************)
\* The event that is due.
Due ==
  [type   |-> pc,
   step   |-> writerStep,
   call   |-> IF pc \in {"tool_call_start", "file_mutation", "tool_call_end"}
              THEN call ELSE 0,
   tokens |-> CASE pc = "llm_call_end" -> resp.tokens
                [] pc = "agent_done"   -> tokens
                [] OTHER               -> 0,
   steps  |-> IF pc = "agent_done" THEN step ELSE 0]

\* The due event is emitted and control goes to next.
EmitDue(next) ==
  /\ emit(Due)
  /\ pc' = next
  /\ UNCHANGED writerStep

\* emit raises in the body of the loop: the except branch of run.
EmitRaisesInLoop ==
  /\ pc \in {"agent_step_start", "llm_call_start", "llm_call_end", "tool_call_start",
             "tool_call_end", "agent_step_end"}
  /\ emitRaises(Due)
  /\ pc' = "agent_error"
  /\ UNCHANGED <<writerStep, loopVars>>

MutantEmitRaisesInTool ==
  /\ pc = "file_mutation"
  /\ emitRaises(Due)
  /\ results' = Append(results, FALSE)
  /\ pc' = "tool_call_end"
  /\ UNCHANGED <<writerStep, step, messages, resp, call, tokens, outcome, exit, written>>

\* emit raises inside tool.run, after the write: _run_one_tool takes it for a
\* failure of the tool.
EmitRaisesInTool ==
  /\ pc = "file_mutation"
  /\ emitRaises(Due)
  /\ results' = Append(results, TRUE)
  /\ pc' = "tool_call_end"
  /\ UNCHANGED <<writerStep, step, messages, resp, call, tokens, outcome, exit, written>>

\* emit raises before the try block, in the except branch or after it.
EmitRaisesOutside ==
  /\ pc \in {"agent_start", "agent_error", "agent_done"}
  /\ emitRaises(Due)
  /\ Exit("crashed")
  /\ UNCHANGED <<writerStep, step, messages, resp, call, results, tokens, outcome, written>>

-----------------------------------------------------------------------------
(***************************************************************************)
(* run, up to the response of the LLM.                                     *)
(***************************************************************************)
\* main: no task.yaml, a malformed one, no API key, an unknown provider.
StartFails ==
  /\ pc = "agent_start"
  /\ Exit("crashed")
  /\ UNCHANGED <<eventVars, step, messages, resp, call, results, tokens, outcome, written>>

Start ==
  /\ pc = "agent_start"
  /\ EmitDue("while")
  /\ UNCHANGED loopVars

MutantNextStep ==
  /\ pc = "while"
  /\ step < MaxSteps
  /\ pc' = "agent_step_start"
  /\ UNCHANGED <<log, writerStep, emitFaults, loopVars>>

MutantBudget ==
  /\ pc = "while"
  /\ step <= MaxSteps
  /\ writerStep' = step
  /\ pc' = "agent_step_start"
  /\ UNCHANGED <<log, emitFaults, loopVars>>

\* while step < max_steps: events.set_step(step).
NextStep ==
  /\ pc = "while"
  /\ step < MaxSteps
  /\ writerStep' = step
  /\ pc' = "agent_step_start"
  /\ UNCHANGED <<log, emitFaults, loopVars>>

MutantStepsExhausted ==
  /\ pc = "while"
  /\ step > MaxSteps
  /\ outcome' = "max_steps"
  /\ pc' = "agent_done"
  /\ UNCHANGED <<eventVars, step, messages, resp, call, results, tokens, exit, written>>

\* The else branch of the while loop.
StepsExhausted ==
  /\ pc = "while"
  /\ step >= MaxSteps
  /\ outcome' = "max_steps"
  /\ pc' = "agent_done"
  /\ UNCHANGED <<eventVars, step, messages, resp, call, results, tokens, exit, written>>

StepStart ==
  /\ pc = "agent_step_start"
  /\ EmitDue("llm_call_start")
  /\ UNCHANGED loopVars

LLMCallStart ==
  /\ pc = "llm_call_start"
  /\ EmitDue("complete")
  /\ UNCHANGED loopVars

Complete(r) ==
  /\ pc = "complete"
  /\ resp' = r
  /\ tokens' = tokens + r.tokens
  /\ pc' = "llm_call_end"
  /\ UNCHANGED <<eventVars, step, messages, call, results, outcome, exit, written>>

MutantCompleteRaises ==
  /\ pc = "complete"
  /\ Exit("crashed")
  /\ UNCHANGED <<eventVars, step, messages, resp, call, results, tokens, outcome, written>>

CompleteRaises ==
  /\ pc = "complete"
  /\ pc' = "agent_error"
  /\ UNCHANGED <<eventVars, loopVars>>

\* The step goes on with tools only if the response says so and has some.
WantsTools == resp.stop = "tool_use" /\ resp.tool_uses # <<>>

LLMCallEnd ==
  /\ pc = "llm_call_end"
  /\ EmitDue(IF WantsTools THEN "tool_call_start" ELSE "agent_step_end")
  /\ messages' = Append(messages, [role |-> "assistant", uses |-> Len(resp.tool_uses),
                                   answers |-> <<>>])
  /\ results' = <<>>
  /\ call' = IF WantsTools THEN 1 ELSE 0
  /\ UNCHANGED <<step, resp, tokens, outcome, exit, written>>

-----------------------------------------------------------------------------
(***************************************************************************)
(* _run_one_tool, and the tools as far as they write files and events.     *)
(***************************************************************************)
ToolStart ==
  /\ pc = "tool_call_start"
  /\ EmitDue("run_tool")
  /\ UNCHANGED loopVars

\* The tool answers and emits nothing: its result, a refusal of the arguments,
\* an exception, or tool_map has no such tool.
ToolAnswers(isError) ==
  /\ pc = "run_tool"
  /\ resp.tool_uses[call] # "reader" => isError
  /\ results' = Append(results, isError)
  /\ pc' = "tool_call_end"
  /\ UNCHANGED <<eventVars, step, messages, resp, call, tokens, outcome, exit, written>>

\* write_bytes truncates the file, then raises: disk full, quota.
WriteRaises ==
  /\ pc = "run_tool"
  /\ resp.tool_uses[call] = "writer"
  /\ written' = written \cup {<<step, call>>}
  /\ results' = Append(results, TRUE)
  /\ pc' = "tool_call_end"
  /\ UNCHANGED <<eventVars, step, messages, resp, call, tokens, outcome, exit>>

\* file_write and file_edit: the file is written before the event is emitted.
ToolWrites ==
  /\ pc = "run_tool"
  /\ resp.tool_uses[call] = "writer"
  /\ written' = written \cup {<<step, call>>}
  /\ pc' = "file_mutation"
  /\ UNCHANGED <<eventVars, step, messages, resp, call, results, tokens, outcome, exit>>

\* emit_file_mutation.
FileMutation ==
  /\ pc = "file_mutation"
  /\ EmitDue("tool_call_end")
  /\ results' = Append(results, FALSE)
  /\ UNCHANGED <<step, messages, resp, call, tokens, outcome, exit, written>>

MutantToolEnd ==
  /\ pc = "tool_call_end"
  /\ IF call < Len(resp.tool_uses)
     THEN EmitDue("tool_call_start") /\ call' = call + 1 /\ results' = <<>> /\ UNCHANGED messages
     ELSE /\ EmitDue("agent_step_end")
          /\ messages' = Append(messages, [role |-> "user", uses |-> 0, answers |-> results])
          /\ UNCHANGED <<call, results>>
  /\ UNCHANGED <<step, resp, tokens, outcome, exit, written>>

\* After the last tool use the results become the next user message.
ToolEnd ==
  /\ pc = "tool_call_end"
  /\ IF call < Len(resp.tool_uses)
     THEN EmitDue("tool_call_start") /\ call' = call + 1 /\ UNCHANGED messages
     ELSE /\ EmitDue("agent_step_end")
          /\ messages' = Append(messages, [role |-> "user", uses |-> 0, answers |-> results])
          /\ UNCHANGED call
  /\ UNCHANGED <<step, resp, results, tokens, outcome, exit, written>>

-----------------------------------------------------------------------------
(***************************************************************************)
(* The end of a step and of the task.                                      *)
(***************************************************************************)
MutantStepEnd ==
  /\ pc = "agent_step_end"
  /\ EmitDue(IF WantsTools THEN "while" ELSE "agent_done")
  /\ step' = IF WantsTools THEN step + 1 ELSE step
  /\ outcome' = IF ~WantsTools /\ resp.stop \in {"max_tokens", "error"}
                THEN "failed" ELSE outcome
  /\ UNCHANGED <<messages, resp, call, results, tokens, exit, written>>

StepEnd ==
  /\ pc = "agent_step_end"
  /\ EmitDue(IF WantsTools THEN "while" ELSE "agent_done")
  /\ step' = step + 1
  /\ outcome' = IF ~WantsTools /\ resp.stop \in {"max_tokens", "error"}
                THEN "failed" ELSE outcome
  /\ UNCHANGED <<messages, resp, call, results, tokens, exit, written>>

\* The except branch of run.
ExceptBranch ==
  /\ pc = "agent_error"
  /\ EmitDue("agent_done")
  /\ outcome' = "failed"
  /\ UNCHANGED <<step, messages, resp, call, results, tokens, exit, written>>

Done ==
  /\ pc = "agent_done"
  /\ EmitDue("return")
  /\ UNCHANGED loopVars

\* main closes the stream, of which nothing is left to flush, and returns 0
\* whatever the outcome.
MainReturns ==
  /\ pc = "return"
  /\ Exit("ok")
  /\ UNCHANGED <<eventVars, step, messages, resp, call, results, tokens, outcome, written>>

\* SIGKILL: eviction, deletion of the Pod, out of memory.
Kill ==
  /\ pc # "exited"
  /\ Exit("killed")
  /\ UNCHANGED <<eventVars, step, messages, resp, call, results, tokens, outcome, written>>

-----------------------------------------------------------------------------
Run ==
  \/ StartFails \/ Start \/ NextStep \/ StepsExhausted
  \/ StepStart \/ LLMCallStart \/ CompleteRaises \/ LLMCallEnd
  \/ \E r \in Responses : Complete(r)
  \/ ToolStart \/ ToolWrites \/ WriteRaises \/ FileMutation \/ ToolEnd
  \/ \E isError \in BOOLEAN : ToolAnswers(isError)
  \/ StepEnd \/ ExceptBranch \/ Done \/ MainReturns
  \/ EmitRaisesInLoop \/ EmitRaisesInTool \/ EmitRaisesOutside

Next == Run \/ Kill

Spec == Init /\ [][Next]_vars

\* The process runs, and calls come back: the LLM client and bash have
\* timeouts, the other tools are local.
FairSpec == Spec /\ WF_vars(Run)

-----------------------------------------------------------------------------
(***************************************************************************)
(* Properties.                                                             *)
(***************************************************************************)
\* f may come right after e in the stream of a run.
Follows(e, f) ==
  LET Same  == f.step = e.step
      After(S) == e.type \in S
  IN
  CASE f.type = "agent_start"      -> FALSE
    [] f.type = "agent_step_start" -> \/ Same /\ After({"agent_start"}) /\ f.step = 0
                                      \/ After({"agent_step_end"}) /\ f.step = e.step + 1
    [] f.type = "llm_call_start"   -> Same /\ After({"agent_step_start"})
    [] f.type = "llm_call_end"     -> Same /\ After({"llm_call_start"})
    [] f.type = "tool_call_start"  -> Same /\ f.call = e.call + 1
                                      /\ After({"llm_call_end", "tool_call_end"})
    [] f.type = "file_mutation"    -> Same /\ f.call = e.call /\ After({"tool_call_start"})
    [] f.type = "tool_call_end"    -> Same /\ f.call = e.call
                                      /\ After({"tool_call_start", "file_mutation"})
    [] f.type = "agent_step_end"   -> Same /\ After({"llm_call_end", "tool_call_end"})
    [] f.type = "agent_error"      -> \/ Same /\ ~After({"agent_error", "agent_done"})
                                      \/ After({"agent_step_end"}) /\ f.step = e.step + 1
    [] f.type = "agent_done"       ->
         Same /\ After({"agent_start", "agent_step_end", "agent_error"})

\* Whatever raises and whenever the process is killed, the stream is a prefix of
\* a well-formed run: steps and tool calls are numbered without gaps, every end
\* follows its start, a file_mutation is inside its tool call, agent_error comes
\* at most once and only agent_done comes after it (loop.py, run).
LogWellFormed ==
  /\ log # <<>> => log[1].type = "agent_start"
  /\ \A i \in 1..Len(log) - 1 : Follows(log[i], log[i + 1])

\* The tokens of the first n events of s.
Spent(s, n) ==
  LET sum[i \in 0..n] == IF i = 0 THEN 0 ELSE sum[i - 1] + s[i].tokens
  IN  sum[n]

\* The stream is closed by agent_done.
Closed == log # <<>> /\ log[Len(log)].type = "agent_done"

Erroneous == DOMAIN by_type("agent_error") # {}

\* The totals of agent_done against the stream before it (loop.py:206-214,
\* trace.py:25): without an agent_error they agree; with one, agent_done leaves
\* the step that failed out of its count, which the trace loader counts, and
\* may count tokens of a response whose llm_call_end was lost, never fewer.  For
\* max_steps = 0 agent_done says 0 steps and the loader 1.
DoneAccounts ==
  Closed =>
    LET done  == log[Len(log)]
        ended == Cardinality(DOMAIN by_type("agent_step_end"))
        spent == Spent(log, Len(log) - 1)
    IN /\ done.tokens >= spent
       /\ IF Erroneous
          THEN done.steps <= ended /\ total_steps = done.steps + 1
          ELSE /\ done.tokens = spent
               /\ done.steps = ended
               /\ total_steps = IF MaxSteps > 0 THEN done.steps ELSE done.steps + 1
       /\ outcome = "max_steps" => done.steps = MaxSteps

\* A run that has started ends with agent_done, and as failed if it had an
\* agent_error, unless the process is killed or emit itself raises: no exception
\* of the LLM client or of a tool gets past the loop (loop.py:14-16, 201-204).
CleanTermination ==
  /\ exit \notin {"running", "killed"} /\ log # <<>> => Closed \/ emitFaults > 0
  /\ exit = "ok" => Closed
  /\ Closed /\ Erroneous => outcome = "failed"

\* What the LLM is sent: user and assistant alternate, and every tool use of an
\* assistant message has its tool_result in the message after it, none missing
\* and none twice (loop.py:173-179; the API refuses anything else).
ConversationWellFormed ==
  pc = "complete" =>
    /\ Len(messages) = 2 * step + 1
    /\ \A i \in DOMAIN messages : messages[i].role = IF i % 2 = 1 THEN "user" ELSE "assistant"
    /\ \A i \in 2..Len(messages) :
         messages[i].role = "user" => Len(messages[i].answers) = messages[i - 1].uses

\* A use of file_write or file_edit that changed a file is in the stream as a
\* file_mutation, or the LLM is told that the tool failed (base.py:84-107,
\* loop.py:251-272): when the write or emit raises, the change is not passed over
\* in silence.  Changes by bash are no part of this: nothing tracks them.
RecordedOrReported ==
  \A w \in written :
    Len(messages) >= 2 * w[1] + 3 =>
      \/ \E i \in DOMAIN log : /\ log[i].type = "file_mutation"
                               /\ log[i].step = w[1] /\ log[i].call = w[2]
      \/ messages[2 * w[1] + 3].answers[w[2]]

\* loop.py:11, "[tool_call_start, tool_call_end, file_mutation*]  zero or more
\* times": the file_mutation of a tool call comes after its tool_call_end.
\* Violated: the tool emits it while it runs, before its tool_call_end.
EventsAsDocumented ==
  \A i \in DOMAIN log :
    log[i].type = "file_mutation" =>
      \E j \in 1..i - 1 : /\ log[j].type = "tool_call_end"
                          /\ log[j].step = log[i].step /\ log[j].call = log[i].call

\* The process ends: max_steps bounds the loop, and neither a tool nor the
\* except branch leads back into it (loop.py:130-199).
Terminates == <>(exit # "running")

=============================================================================
