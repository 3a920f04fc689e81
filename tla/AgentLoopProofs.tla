----------------------------- MODULE AgentLoopProofs -----------------------------
(***************************************************************************)
(* Theorems about AgentLoop, for every bound on steps, tool uses and       *)
(* failures of emit and every set of token counts.                         *)
(***************************************************************************)
EXTENDS AgentLoop, Induction, SequenceTheorems, FiniteSetTheorems, TLAPS

\* The last line of the stream.
Last == log[Len(log)]

StepPCs == {"agent_step_start", "llm_call_start", "complete", "llm_call_end",
            "tool_call_start", "run_tool", "file_mutation", "tool_call_end",
            "agent_step_end"}

ToolPCs == {"tool_call_start", "run_tool", "file_mutation", "tool_call_end"}

\* Inside a step the budget is not spent and the writer knows the step; at a
\* tool use the response has that tool use.
Counted ==
  /\ pc \in StepPCs => step < MaxSteps /\ writerStep = step
  /\ pc \in ToolPCs => call \in 1..Len(resp.tool_uses)

\* Between two events the stream ends where pc says.
Between ==
  /\ pc = "while"    => \/ Last.type = "agent_start" /\ step = 0 /\ Last.step = 0
                        \/ Last.type = "agent_step_end" /\ step = Last.step + 1
  /\ pc = "complete" => Last.type = "llm_call_start"
  /\ pc = "run_tool" => Last.type = "tool_call_start" /\ Last.call = call

\* The event that is due may come next.
Ready ==
  /\ pc = "agent_start" => log = <<>> /\ writerStep = 0 /\ step = 0
  /\ pc \notin {"agent_start", "exited"} => log # <<>>
  /\ pc \in {"while", "complete", "run_tool"} => Last.step = writerStep
  /\ pc \in EventTypes \ {"agent_start"} => Follows(Last, Due)

\* The inductive invariant.
LInv ==
  /\ TypeOK
  /\ Counted
  /\ Between
  /\ Ready
  /\ LogWellFormed

-----------------------------------------------------------------------------
(***************************************************************************)
(* Types.                                                                  *)
(***************************************************************************)
\* A response has at most MaxTools tool uses and a number of tokens.
LEMMA ResponseTypes ==
  ASSUME NEW r \in Responses \cup {NoResponse}
  PROVE  /\ Len(r.tool_uses) \in 0..MaxTools
         /\ r.tokens \in Nat
<1>1. CASE r \in Responses
  <2>1. PICK n \in 0..MaxTools : r.tool_uses \in [1..n -> ToolUses]
    BY <1>1 DEF Responses
  <2>2. Len(r.tool_uses) = n
    BY <2>1, LoopAssumption
  <2> QED BY <1>1, <2>2, LoopAssumption DEF Responses
<1>2. CASE r = NoResponse
  <2>1. Len(<<>>) = 0
    OBVIOUS
  <2> QED BY <1>2, <2>1, LoopAssumption DEF NoResponse
<1> QED BY <1>1, <1>2

\* The event that is due is an event.
LEMMA DueTyped ==
  ASSUME TypeOK, pc \in EventTypes
  PROVE  Due \in Events
<1>1. resp.tokens \in Nat
  BY ResponseTypes DEF TypeOK
<1>2. call \in Nat /\ step \in Nat /\ tokens \in Nat /\ writerStep \in Nat
  BY LoopAssumption DEF TypeOK, EventsTypeOK
<1>3. Due.tokens \in Nat /\ Due.steps \in Nat /\ Due.call \in Nat
  BY <1>1, <1>2 DEF Due
<1> QED BY <1>1, <1>2 DEF Due, Events

\* Emitting the event that is due, with or without an exception, keeps the
\* stream typed.
LEMMA EmitTyped ==
  ASSUME TypeOK, pc \in EventTypes, emit(Due) \/ emitRaises(Due), UNCHANGED writerStep
  PROVE  EventsTypeOK'
<1>1. Append(log, Due) \in Seq(Events)
  BY DueTyped DEF TypeOK, EventsTypeOK
<1>2. log' \in Seq(Events)
  BY <1>1 DEF emit, emitRaises, TypeOK, EventsTypeOK
<1>3. emitFaults' \in 0..MaxEmitFaults
  BY EventAssumption DEF emit, emitRaises, TypeOK, EventsTypeOK
<1> QED BY <1>2, <1>3 DEF TypeOK, EventsTypeOK

\* One more answer is a sequence of answers.
LEMMA AnswersTyped ==
  ASSUME NEW s \in Seq(BOOLEAN), NEW b \in BOOLEAN
  PROVE  Append(s, b) \in Seq(BOOLEAN)
  BY AppendProperties

\* The initial state is typed.
LEMMA InitTyped == Init => TypeOK
<1> SUFFICES ASSUME Init PROVE TypeOK
  OBVIOUS
<1>1. EventsTypeOK
  BY EventAssumption DEF Init, EventsInit, EventsTypeOK
<1>2. messages \in Seq(Messages)
  BY LoopAssumption DEF Init, Messages
<1> QED BY <1>1, <1>2, LoopAssumption DEF Init, TypeOK, EventTypes

\* The steps of the loop keep the types.
LEMMA RunTyped ==
  ASSUME TypeOK, Counted, Run
  PROVE  TypeOK'
<1> USE LoopAssumption DEF TypeOK
<1>1. CASE StartFails
  BY <1>1 DEF StartFails, Exit, eventVars, EventsTypeOK
<1>2. CASE Start \/ StepStart \/ LLMCallStart \/ ToolStart
  <2>1. EventsTypeOK'
    BY <1>2, EmitTyped DEF Start, StepStart, LLMCallStart, ToolStart, EmitDue, EventTypes
  <2> QED BY <1>2, <2>1
          DEF Start, StepStart, LLMCallStart, ToolStart, EmitDue, loopVars, EventTypes
<1>3. CASE NextStep \/ StepsExhausted
  BY <1>3 DEF NextStep, StepsExhausted, eventVars, loopVars, EventsTypeOK, EventTypes
<1>4. CASE \E r \in Responses : Complete(r)
  <2>1. PICK r \in Responses : Complete(r)
    BY <1>4
  <2>2. tokens + r.tokens \in Nat
    BY ResponseTypes
  <2> QED BY <2>1, <2>2 DEF Complete, eventVars, EventsTypeOK, EventTypes
<1>5. CASE CompleteRaises
  BY <1>5 DEF CompleteRaises, eventVars, loopVars, EventsTypeOK, EventTypes
<1>6. CASE LLMCallEnd
  <2>1. EventsTypeOK'
    BY <1>6, EmitTyped DEF LLMCallEnd, EmitDue, EventTypes
  <2>2. Len(resp.tool_uses) \in 0..MaxTools
    BY ResponseTypes
  <2>3. [role |-> "assistant", uses |-> Len(resp.tool_uses), answers |-> <<>>] \in Messages
    BY <2>2 DEF Messages
  <2>4. messages' \in Seq(Messages)
    BY <1>6, <2>3 DEF LLMCallEnd
  <2>5. WantsTools => 1 \in 0..MaxTools
    <3>1. resp.tool_uses # <<>> => Len(resp.tool_uses) # 0
      <4>1. CASE resp \in Responses
        <5>1. PICK n \in 0..MaxTools : resp.tool_uses \in [1..n -> ToolUses]
          BY <4>1 DEF Responses
        <5> QED BY <5>1
      <4>2. CASE resp = NoResponse
        BY <4>2 DEF NoResponse
      <4> QED BY <4>1, <4>2
    <3> QED BY <2>2, <3>1 DEF WantsTools
  <2> QED BY <1>6, <2>1, <2>4, <2>5 DEF LLMCallEnd, EmitDue, EventTypes
<1>7. CASE \E isError \in BOOLEAN : ToolAnswers(isError)
  BY <1>7 DEF ToolAnswers, eventVars, EventsTypeOK, EventTypes
<1>8. CASE ToolWrites \/ WriteRaises
  <2>1. Len(resp.tool_uses) \in 0..MaxTools
    BY ResponseTypes
  <2>2. pc = "run_tool" /\ written' = written \cup {<<step, call>>}
    BY <1>8, Zenon DEF ToolWrites, WriteRaises
  <2>3. call \in 1..MaxTools
    BY <2>1, <2>2 DEF Counted, ToolPCs
  <2>4. written' \subseteq (0..MaxSteps) \X (1..MaxTools)
    BY <2>2, <2>3
  <2>5. TRUE \in BOOLEAN
    OBVIOUS
  <2>6. results' \in Seq(BOOLEAN)
    BY <1>8, <2>5, AnswersTyped, Zenon DEF ToolWrites, WriteRaises
  <2>7. UNCHANGED <<eventVars, step, messages, resp, call, tokens, outcome, exit>>
    BY <1>8, Zenon DEF ToolWrites, WriteRaises
  <2>8. pc' \in {"file_mutation", "tool_call_end"}
    BY <1>8, Zenon DEF ToolWrites, WriteRaises
  <2> QED BY <2>4, <2>6, <2>7, <2>8 DEF eventVars, EventsTypeOK, EventTypes
<1>9. CASE FileMutation
  <2>1. EventsTypeOK'
    BY <1>9, EmitTyped DEF FileMutation, EmitDue, EventTypes
  <2> QED BY <1>9, <2>1 DEF FileMutation, EmitDue, EventTypes
<1>10. CASE ToolEnd
  <2>1. EventsTypeOK'
    BY <1>10, EmitTyped DEF ToolEnd, EmitDue, EventTypes
  <2>2. Len(resp.tool_uses) \in 0..MaxTools
    BY ResponseTypes
  <2>3. [role |-> "user", uses |-> 0, answers |-> results] \in Messages
    BY DEF Messages
  <2>4. messages' \in Seq(Messages)
    BY <1>10, <2>3 DEF ToolEnd
  <2> QED BY <1>10, <2>1, <2>2, <2>4 DEF ToolEnd, EmitDue, EventTypes
<1>11. CASE StepEnd
  <2>1. EventsTypeOK'
    BY <1>11, EmitTyped DEF StepEnd, EmitDue, EventTypes
  <2>2. step + 1 \in 0..MaxSteps
    BY <1>11 DEF StepEnd, Counted, StepPCs
  <2> QED BY <1>11, <2>1, <2>2 DEF StepEnd, EmitDue, EventTypes
<1>12. CASE ExceptBranch \/ Done
  <2>1. EventsTypeOK'
    BY <1>12, EmitTyped DEF ExceptBranch, Done, EmitDue, EventTypes
  <2> QED BY <1>12, <2>1 DEF ExceptBranch, Done, EmitDue, EventTypes, loopVars
<1>13. CASE EmitRaisesInLoop \/ EmitRaisesOutside
  <2>1. EventsTypeOK'
    BY <1>13, EmitTyped DEF EmitRaisesInLoop, EmitRaisesOutside, EventTypes
  <2> QED BY <1>13, <2>1
          DEF EmitRaisesInLoop, EmitRaisesOutside, Exit, loopVars, EventTypes
<1>14. CASE EmitRaisesInTool
  <2>1. pc = "file_mutation" /\ emitRaises(Due) /\ pc' = "tool_call_end"
        /\ UNCHANGED <<writerStep, step, messages, resp, call, tokens, outcome, exit, written>>
    BY <1>14, Zenon DEF EmitRaisesInTool
  <2>2. EventsTypeOK'
    BY <2>1, EmitTyped DEF EventTypes
  <2>3. TRUE \in BOOLEAN
    OBVIOUS
  <2>4. results' \in Seq(BOOLEAN)
    BY <1>14, <2>3, AnswersTyped, Zenon DEF EmitRaisesInTool
  <2> QED BY <2>1, <2>2, <2>4 DEF EventTypes
<1>15. CASE MainReturns
  BY <1>15 DEF MainReturns, Exit, eventVars, EventsTypeOK
<1> QED BY <1>1, <1>2, <1>3, <1>4, <1>5, <1>6, <1>7, <1>8, <1>9, <1>10, <1>11, <1>12,
           <1>13, <1>14, <1>15 DEF Run

\* Every step keeps the types.
LEMMA NextTyped == TypeOK /\ Counted /\ [Next]_vars => TypeOK'
<1> SUFFICES ASSUME TypeOK, Counted, [Next]_vars PROVE TypeOK'
  OBVIOUS
<1>1. CASE Run
  BY <1>1, RunTyped
<1>2. CASE Kill
  BY <1>2 DEF Kill, Exit, eventVars, TypeOK, EventsTypeOK
<1>3. CASE UNCHANGED vars
  BY <1>3 DEF vars, eventVars, loopVars, TypeOK, EventsTypeOK
<1> QED BY <1>1, <1>2, <1>3 DEF Next

-----------------------------------------------------------------------------
(***************************************************************************)
(* Counting.                                                               *)
(***************************************************************************)
\* A response whose tools are wanted has a first tool use.
LEMMA WantedTools ==
  ASSUME TypeOK, WantsTools
  PROVE  1 \in 1..Len(resp.tool_uses)
<1>1. CASE resp \in Responses
  <2>1. PICK n \in 0..MaxTools : resp.tool_uses \in [1..n -> ToolUses]
    BY <1>1 DEF Responses
  <2> QED BY <2>1, LoopAssumption DEF WantsTools
<1>2. CASE resp = NoResponse
  BY <1>2 DEF NoResponse, WantsTools
<1> QED BY <1>1, <1>2 DEF TypeOK

\* Every step keeps the counts.
LEMMA NextCounted == TypeOK /\ Counted /\ [Next]_vars => Counted'
<1> SUFFICES ASSUME TypeOK, Counted, [Next]_vars PROVE Counted'
  OBVIOUS
<1> USE LoopAssumption DEF Counted, StepPCs, ToolPCs
<1>1. CASE StartFails \/ MainReturns \/ Kill \/ EmitRaisesOutside
  BY <1>1 DEF StartFails, MainReturns, Kill, EmitRaisesOutside, Exit
<1>2. CASE Start \/ StepsExhausted \/ CompleteRaises \/ EmitRaisesInLoop
  BY <1>2 DEF Start, StepsExhausted, CompleteRaises, EmitRaisesInLoop, EmitDue
<1>3. CASE NextStep
  BY <1>3 DEF NextStep, loopVars
<1>4. CASE StepStart \/ LLMCallStart \/ ToolStart
  BY <1>4 DEF StepStart, LLMCallStart, ToolStart, EmitDue, loopVars
<1>5. CASE \E r \in Responses : Complete(r)
  BY <1>5 DEF Complete, eventVars
<1>6. CASE LLMCallEnd
  BY <1>6, WantedTools DEF LLMCallEnd, EmitDue
<1>7. CASE ToolEnd
  <2>1. Len(resp.tool_uses) \in Nat /\ call \in Nat
    BY ResponseTypes DEF TypeOK
  <2> QED BY <1>7, <2>1 DEF ToolEnd, EmitDue
<1>8. CASE StepEnd \/ ExceptBranch \/ Done
  BY <1>8 DEF StepEnd, ExceptBranch, Done, EmitDue
<1>9. CASE \/ ToolWrites \/ WriteRaises \/ FileMutation \/ EmitRaisesInTool
           \/ \E isError \in BOOLEAN : ToolAnswers(isError)
  <2>1. /\ pc \in {"run_tool", "file_mutation"}
        /\ pc' \in {"file_mutation", "tool_call_end"}
        /\ UNCHANGED <<writerStep, step, resp, call>>
    BY <1>9, Zenon
    DEF ToolWrites, WriteRaises, FileMutation, EmitRaisesInTool, ToolAnswers, EmitDue, eventVars
  <2> QED BY <2>1
<1>10. CASE UNCHANGED vars
  BY <1>10 DEF vars, eventVars, loopVars
<1> QED BY <1>1, <1>2, <1>3, <1>4, <1>5, <1>6, <1>7, <1>8, <1>9, <1>10 DEF Next, Run

\* The types and the counts are inductive together.
LEMMA Typing == Spec => [](TypeOK /\ Counted)
<1>1. Init => TypeOK /\ Counted
  BY InitTyped DEF Init, Counted, StepPCs, ToolPCs
<1> QED BY <1>1, NextTyped, NextCounted, PTL DEF Spec

\* The type invariant of the loop: no run takes more than MaxSteps steps or
\* handles a tool use that the response does not have (loop.py, run).
THEOREM LoopTypeCorrect == Spec => []TypeOK
  BY Typing, PTL

-----------------------------------------------------------------------------
(***************************************************************************)
(* The stream.                                                             *)
(***************************************************************************)
\* An event that may follow the last one extends a well-formed stream.
LEMMA Extends ==
  ASSUME TypeOK, LogWellFormed, pc \in EventTypes, log' = Append(log, Due),
         IF log = <<>> THEN pc = "agent_start" ELSE Follows(Last, Due)
  PROVE  LogWellFormed' /\ log' # <<>> /\ Last' = Due
<1>1. log \in Seq(Events) /\ Due \in Events
  BY DueTyped DEF TypeOK, EventsTypeOK
<1>2. Len(log') = Len(log) + 1 /\ Len(log) \in Nat
  BY <1>1
<1>3. log'[Len(log) + 1] = Due
  BY <1>1
<1>4. \A i \in 1..Len(log) : log'[i] = log[i]
  BY <1>1
<1>5. log' # <<>> /\ Last' = Due
  BY <1>1, <1>2, <1>3 DEF Last
<1>6. log'[1].type = "agent_start"
  <2>1. CASE log = <<>>
    BY <1>3, <2>1 DEF Due
  <2>2. CASE log # <<>>
    <3>1. Len(log) >= 1
      BY <1>1, <1>2, <2>2
    <3> QED BY <1>2, <1>4, <2>2, <3>1 DEF LogWellFormed
  <2> QED BY <2>1, <2>2
<1>7. ASSUME NEW i \in 1..Len(log') - 1
      PROVE  Follows(log'[i], log'[i + 1])
  <2>1. CASE i = Len(log)
    <3>1. log # <<>> /\ log'[i] = Last /\ log'[i + 1] = Due
      BY <1>1, <1>2, <1>3, <1>4, <2>1 DEF Last
    <3> QED BY <3>1
  <2>2. CASE i \in 1..Len(log) - 1
    <3>1. log'[i] = log[i] /\ log'[i + 1] = log[i + 1]
      BY <1>2, <1>4, <2>2
    <3> QED BY <2>2, <3>1 DEF LogWellFormed
  <2> QED BY <1>2, <2>1, <2>2
<1> QED BY <1>5, <1>6, <1>7 DEF LogWellFormed

\* The fields of the event that is due.
LEMMA DueFields ==
  /\ Due.type = pc
  /\ Due.step = writerStep
  /\ Due.call = IF pc \in {"tool_call_start", "file_mutation", "tool_call_end"}
                THEN call ELSE 0
  /\ Due'.type = pc'
  /\ Due'.step = writerStep'
  /\ Due'.call = IF pc' \in {"tool_call_start", "file_mutation", "tool_call_end"}
                 THEN call' ELSE 0
  BY DEF Due

\* What the stream says after a step.
Stream == Between /\ Ready /\ LogWellFormed

\* The steps that emit the event that is due.
LEMMA EmitStep ==
  ASSUME LInv, NEW next, pc \in EventTypes, EmitDue(next)
  PROVE  /\ LogWellFormed' /\ log' # <<>> /\ pc' = next /\ writerStep' = writerStep
         /\ Last'.type = pc /\ Last'.step = writerStep /\ Last'.call = Due.call
<1>1. IF log = <<>> THEN pc = "agent_start" ELSE Follows(Last, Due)
  <2>1. CASE pc = "agent_start"
    BY <2>1 DEF LInv, Ready
  <2>2. CASE pc # "agent_start"
    BY <2>2 DEF LInv, Ready, EventTypes
  <2> QED BY <2>1, <2>2
<1>2. LogWellFormed' /\ log' # <<>> /\ Last' = Due
  BY <1>1, Extends DEF LInv, EmitDue, emit
<1> QED BY <1>2, DueFields DEF EmitDue

\* The steps of the loop that emit.
LEMMA EmitsStream ==
  ASSUME LInv,
         \/ Start \/ StepStart \/ LLMCallStart \/ LLMCallEnd
         \/ ToolStart \/ FileMutation \/ ToolEnd
         \/ StepEnd \/ ExceptBranch \/ Done
  PROVE  Stream'
<1>0. TypeOK /\ Counted /\ Ready
  BY DEF LInv
<1>1. call \in Nat /\ step \in Nat /\ writerStep \in Nat
  BY <1>0, LoopAssumption DEF TypeOK, EventsTypeOK
<1> USE <1>1, DueFields DEF Stream, Between, Ready, EventTypes
<1>2. CASE Start
  <2>1. EmitDue("while") /\ pc = "agent_start" /\ step' = step
    BY <1>2 DEF Start, loopVars
  <2>2. writerStep = 0 /\ step = 0
    BY <1>0, <2>1
  <2> QED BY <2>1, <2>2, EmitStep
<1>3. CASE StepStart
  <2>1. EmitDue("llm_call_start") /\ pc = "agent_step_start"
    BY <1>3 DEF StepStart
  <2>2. Follows(Last', Due')
    BY <2>1, EmitStep DEF Follows
  <2> QED BY <2>1, <2>2, EmitStep
<1>4. CASE LLMCallStart
  <2>1. EmitDue("complete") /\ pc = "llm_call_start"
    BY <1>4 DEF LLMCallStart
  <2> QED BY <2>1, EmitStep
<1>5. CASE LLMCallEnd
  <2>1. /\ pc = "llm_call_end"
        /\ \/ EmitDue("tool_call_start") /\ call' = 1
           \/ EmitDue("agent_step_end") /\ call' = 0
    BY <1>5 DEF LLMCallEnd
  <2>2. /\ Last'.type = "llm_call_end" /\ Last'.step = writerStep' /\ Last'.call = 0
        /\ \/ pc' = "tool_call_start" /\ call' = 1
           \/ pc' = "agent_step_end"
    <3>1. Due.call = 0
      BY <2>1
    <3>2. CASE EmitDue("tool_call_start") /\ call' = 1
      BY <2>1, <3>1, <3>2, EmitStep
    <3>3. CASE EmitDue("agent_step_end") /\ call' = 0
      BY <2>1, <3>1, <3>3, EmitStep
    <3> QED BY <2>1, <3>2, <3>3
  <2>3. CASE pc' = "tool_call_start" /\ call' = 1
    <3>1. Follows(Last', Due')
      BY <2>2, <2>3 DEF Follows
    <3> QED BY <2>1, <3>1, EmitStep
  <2>4. CASE pc' = "agent_step_end"
    <3>1. Follows(Last', Due')
      BY <2>2, <2>4 DEF Follows
    <3> QED BY <2>1, <3>1, EmitStep
  <2> QED BY <2>2, <2>3, <2>4
<1>6. CASE ToolStart
  <2>1. EmitDue("run_tool") /\ pc = "tool_call_start" /\ call' = call
    BY <1>6 DEF ToolStart, loopVars
  <2> QED BY <2>1, EmitStep
<1>7. CASE FileMutation
  <2>1. EmitDue("tool_call_end") /\ pc = "file_mutation" /\ call' = call
    BY <1>7, Zenon DEF FileMutation
  <2>2. Follows(Last', Due')
    BY <2>1, EmitStep DEF Follows
  <2> QED BY <2>1, <2>2, EmitStep
<1>8. CASE ToolEnd
  <2>1. /\ pc = "tool_call_end"
        /\ \/ EmitDue("tool_call_start") /\ call' = call + 1
           \/ EmitDue("agent_step_end") /\ call' = call
    BY <1>8 DEF ToolEnd
  <2>2. Follows(Last', Due')
    BY <2>1, EmitStep DEF Follows
  <2> QED BY <2>1, <2>2, EmitStep
<1>9. CASE StepEnd
  <2>1. /\ EmitDue(IF WantsTools THEN "while" ELSE "agent_done")
        /\ pc = "agent_step_end"
        /\ step' = step + 1
    BY <1>9 DEF StepEnd
  <2>2. writerStep = step
    BY <1>0, <2>1 DEF Counted, StepPCs
  <2>3. pc' = "agent_done" => Follows(Last', Due')
    BY <2>1, EmitStep DEF Follows
  <2> QED BY <2>1, <2>2, <2>3, EmitStep
<1>10. CASE ExceptBranch
  <2>1. EmitDue("agent_done") /\ pc = "agent_error"
    BY <1>10 DEF ExceptBranch
  <2>2. Follows(Last', Due')
    BY <2>1, EmitStep DEF Follows
  <2> QED BY <2>1, <2>2, EmitStep
<1>11. CASE Done
  <2>1. EmitDue("return") /\ pc = "agent_done"
    BY <1>11 DEF Done
  <2> QED BY <2>1, EmitStep
<1> QED BY <1>2, <1>3, <1>4, <1>5, <1>6, <1>7, <1>8, <1>9, <1>10, <1>11

\* The steps of the loop whose emit raises: the event is in the stream or not.
LEMMA RaisesStream ==
  ASSUME LInv, EmitRaisesInLoop \/ EmitRaisesInTool \/ EmitRaisesOutside
  PROVE  Stream'
<1>0. TypeOK /\ Counted /\ Ready /\ LogWellFormed
  BY DEF LInv
<1>1. call \in Nat /\ step \in Nat /\ writerStep \in Nat
  BY <1>0, LoopAssumption DEF TypeOK, EventsTypeOK
<1>2. log' = log => LogWellFormed' /\ Last' = Last
  BY <1>0 DEF LogWellFormed, Last
<1>3. pc \in EventTypes /\ emitRaises(Due) /\ writerStep' = writerStep
  BY Zenon DEF EmitRaisesInLoop, EmitRaisesInTool, EmitRaisesOutside, EventTypes
<1>4. \/ log' = log
      \/ log' = Append(log, Due)
  BY <1>3 DEF emitRaises
<1>5. IF log = <<>> THEN pc = "agent_start" ELSE Follows(Last, Due)
  <2>1. CASE pc = "agent_start"
    BY <1>0, <2>1 DEF Ready
  <2>2. CASE pc # "agent_start"
    BY <1>0, <1>3, <2>2 DEF Ready, EventTypes
  <2> QED BY <2>1, <2>2
<1>6. log' = Append(log, Due) => LogWellFormed' /\ log' # <<>> /\ Last' = Due
  BY <1>0, <1>3, <1>5, Extends
<1>7. LogWellFormed'
  BY <1>2, <1>4, <1>6
<1> USE <1>1, DueFields DEF Stream, Between, Ready, EventTypes
<1>8. CASE EmitRaisesInLoop
  <2>1. /\ pc \in {"agent_step_start", "llm_call_start", "llm_call_end", "tool_call_start",
                   "tool_call_end", "agent_step_end"}
        /\ pc' = "agent_error"
    BY <1>8 DEF EmitRaisesInLoop
  <2>2. log # <<>> /\ Follows(Last, Due)
    BY <1>0, <2>1
  <2>3. CASE log' = log
    <3>1. Follows(Last, Due')
      BY <1>3, <2>1, <2>2 DEF Follows
    <3> QED BY <1>2, <1>7, <2>1, <2>2, <2>3, <3>1
  <2>4. CASE log' = Append(log, Due)
    <3>1. Follows(Due, Due')
      BY <1>3, <2>1 DEF Follows
    <3> QED BY <1>6, <1>7, <2>1, <2>4, <3>1
  <2> QED BY <1>4, <2>3, <2>4
<1>9. CASE EmitRaisesInTool
  <2>1. pc = "file_mutation" /\ pc' = "tool_call_end" /\ call' = call
    BY <1>9, Zenon DEF EmitRaisesInTool
  <2>2. log # <<>> /\ Follows(Last, Due)
    BY <1>0, <2>1
  <2>3. CASE log' = log
    <3>1. Follows(Last, Due')
      BY <1>3, <2>1, <2>2 DEF Follows
    <3> QED BY <1>2, <1>7, <2>1, <2>2, <2>3, <3>1
  <2>4. CASE log' = Append(log, Due)
    <3>1. Follows(Due, Due')
      BY <1>3, <2>1 DEF Follows
    <3> QED BY <1>6, <1>7, <2>1, <2>4, <3>1
  <2> QED BY <1>4, <2>3, <2>4
<1>10. CASE EmitRaisesOutside
  BY <1>7, <1>10 DEF EmitRaisesOutside, Exit
<1> QED BY <1>8, <1>9, <1>10

\* The steps that leave the stream alone.
LEMMA SilentStream ==
  ASSUME LInv,
         \/ StartFails \/ NextStep \/ StepsExhausted \/ CompleteRaises
         \/ ToolWrites \/ WriteRaises \/ MainReturns \/ Kill
         \/ \E r \in Responses : Complete(r)
         \/ \E isError \in BOOLEAN : ToolAnswers(isError)
  PROVE  Stream'
<1>0. TypeOK /\ Counted /\ Between /\ Ready /\ LogWellFormed
  BY DEF LInv
<1>1. call \in Nat /\ step \in Nat /\ writerStep \in Nat
  BY <1>0, LoopAssumption DEF TypeOK, EventsTypeOK
<1>2. log' = log
  BY Zenon DEF StartFails, NextStep, StepsExhausted, CompleteRaises, ToolWrites, WriteRaises,
               MainReturns, Kill, Complete, ToolAnswers, eventVars
<1>3. LogWellFormed' /\ Last' = Last
  BY <1>0, <1>2 DEF LogWellFormed, Last
<1> USE <1>1, <1>2, <1>3, DueFields DEF Stream, Between, Ready, EventTypes
<1>4. CASE StartFails \/ MainReturns \/ Kill
  BY <1>4 DEF StartFails, MainReturns, Kill, Exit
<1>5. CASE NextStep
  <2>1. pc = "while" /\ pc' = "agent_step_start" /\ writerStep' = step
    BY <1>5 DEF NextStep
  <2>2. Last.step = writerStep /\ log # <<>>
    BY <1>0, <2>1
  <2>3. \/ Last.type = "agent_start" /\ step = 0 /\ Last.step = 0
        \/ Last.type = "agent_step_end" /\ step = Last.step + 1
    BY <1>0, <2>1
  <2>4. Follows(Last, Due')
    BY <2>1, <2>3 DEF Follows
  <2> QED BY <2>1, <2>2, <2>4
<1>6. CASE StepsExhausted
  <2>1. pc = "while" /\ pc' = "agent_done" /\ writerStep' = writerStep
    BY <1>6 DEF StepsExhausted, eventVars
  <2>2. Last.step = writerStep /\ log # <<>> /\ Last.type \in {"agent_start", "agent_step_end"}
    BY <1>0, <2>1
  <2>3. Follows(Last, Due')
    BY <2>1, <2>2 DEF Follows
  <2> QED BY <2>1, <2>2, <2>3
<1>7. CASE CompleteRaises \/ \E r \in Responses : Complete(r)
  <2>1. pc = "complete" /\ pc' \in {"agent_error", "llm_call_end"} /\ writerStep' = writerStep
    BY <1>7, Zenon DEF CompleteRaises, Complete, eventVars
  <2>2. Last.step = writerStep /\ log # <<>> /\ Last.type = "llm_call_start"
    BY <1>0, <2>1
  <2>3. Follows(Last, Due')
    BY <2>1, <2>2 DEF Follows
  <2> QED BY <2>1, <2>2, <2>3
<1>8. CASE ToolWrites \/ WriteRaises \/ \E isError \in BOOLEAN : ToolAnswers(isError)
  <2>1. /\ pc = "run_tool"
        /\ pc' \in {"file_mutation", "tool_call_end"}
        /\ writerStep' = writerStep
        /\ call' = call
    BY <1>8, Zenon DEF ToolWrites, WriteRaises, ToolAnswers, eventVars
  <2>2. /\ Last.step = writerStep /\ log # <<>>
        /\ Last.type = "tool_call_start" /\ Last.call = call
    BY <1>0, <2>1
  <2>3. Follows(Last, Due')
    BY <2>1, <2>2 DEF Follows
  <2> QED BY <2>1, <2>2, <2>3
<1> QED BY <1>4, <1>5, <1>6, <1>7, <1>8

\* Every step keeps the invariant.
LEMMA NextLInv == LInv /\ [Next]_vars => LInv'
<1> SUFFICES ASSUME LInv, [Next]_vars PROVE LInv'
  OBVIOUS
<1>1. TypeOK' /\ Counted'
  BY NextTyped, NextCounted DEF LInv
<1>2. CASE UNCHANGED vars
  <2>1. Due' = Due /\ Last' = Last
    BY <1>2 DEF vars, eventVars, loopVars, Due, Last
  <2> QED BY <1>1, <1>2, <2>1
          DEF LInv, Between, Ready, LogWellFormed, vars, eventVars, loopVars
<1>3. CASE Next
  <2>1. Stream'
    BY <1>3, EmitsStream, RaisesStream, SilentStream, Zenon DEF Next, Run
  <2> QED BY <1>1, <2>1 DEF LInv, Stream
<1> QED BY <1>2, <1>3

\* The stream of events is a prefix of a well-formed run at every moment,
\* whatever raises and whenever the process is killed (loop.py, run).
THEOREM StreamWellFormed == Spec => []LogWellFormed
<1>1. Init => LInv
  BY InitTyped
  DEF Init, EventsInit, LInv, Counted, StepPCs, ToolPCs, Between, Ready, LogWellFormed
<1>2. LInv => LogWellFormed
  BY DEF LInv
<1> QED BY <1>1, <1>2, NextLInv, PTL DEF Spec

-----------------------------------------------------------------------------
(***************************************************************************)
(* The totals of agent_done.                                               *)
(***************************************************************************)
\* The stream only grows, by the event that is due.
LEMMA StreamGrows ==
  ASSUME Next
  PROVE  log' = log \/ (log' = Append(log, Due) /\ pc \in EventTypes)
<1>1. CASE \/ StartFails \/ NextStep \/ StepsExhausted \/ CompleteRaises
           \/ ToolWrites \/ WriteRaises \/ MainReturns \/ Kill
           \/ \E r \in Responses : Complete(r)
           \/ \E isError \in BOOLEAN : ToolAnswers(isError)
  BY <1>1, Zenon DEF StartFails, NextStep, StepsExhausted, CompleteRaises, ToolWrites,
                     WriteRaises, MainReturns, Kill, Complete, ToolAnswers, eventVars
<1>2. CASE EmitRaisesInLoop \/ EmitRaisesInTool \/ EmitRaisesOutside
  <2>1. pc \in EventTypes /\ emitRaises(Due)
    BY <1>2, Zenon DEF EmitRaisesInLoop, EmitRaisesInTool, EmitRaisesOutside, EventTypes
  <2> QED BY <2>1 DEF emitRaises
<1>3. CASE \/ Start \/ StepStart \/ LLMCallStart \/ LLMCallEnd
           \/ ToolStart \/ FileMutation \/ ToolEnd
           \/ StepEnd \/ ExceptBranch \/ Done
  <2>1. pc \in EventTypes
    BY <1>3, Zenon DEF Start, StepStart, LLMCallStart, LLMCallEnd, ToolStart, FileMutation,
                       ToolEnd, StepEnd, ExceptBranch, Done, EventTypes
  <2>2. emit(Due)
    BY <1>3, Zenon DEF Start, StepStart, LLMCallStart, LLMCallEnd, ToolStart, FileMutation,
                       ToolEnd, StepEnd, ExceptBranch, Done, EmitDue
  <2> QED BY <2>1, <2>2 DEF emit
<1> QED BY <1>1, <1>2, <1>3, Zenon DEF Next, Run

\* The tokens of all events of s, its ends of steps, and whether a step failed.
Total(s) == Spent(s, Len(s))

EndsOf(s) == {i \in 1..Len(s) : s[i].type = "agent_step_end"}

Ends(s) == Cardinality(EndsOf(s))

Erred(s) == \E i \in 1..Len(s) : s[i].type = "agent_error"

\* Up to the end of the loop the totals are those of the stream.
Running ==
  pc \in StepPCs \cup {"agent_start", "while"} =>
    /\ Ends(log) = step
    /\ tokens = Total(log) + (IF pc = "llm_call_end" THEN resp.tokens ELSE 0)

\* After an exception the line that was due may or may not be in the stream.
Broken ==
  pc = "agent_error" \/ (pc = "agent_done" /\ Erred(log)) =>
    /\ step = writerStep
    /\ Ends(log) \in {step, step + 1}
    /\ tokens >= Total(log)

\* After a loop that came to its end.
Finished ==
  pc = "agent_done" /\ ~Erred(log) =>
    /\ Ends(log) = step
    /\ tokens = Total(log)
    /\ MaxSteps > 0 => step = writerStep + 1
    /\ MaxSteps = 0 => step = 0 /\ writerStep = 0

\* The totals are written, and behind the events they count.
Settled ==
  Closed =>
    /\ pc \in {"return", "exited"}
    /\ Last.step = writerStep
    /\ Last.tokens >= Spent(log, Len(log) - 1)
    /\ Erred(log) => /\ Last.steps = writerStep
                     /\ Last.steps <= Ends(log)
                     /\ outcome = "failed"
    /\ ~Erred(log) => /\ Last.tokens = Spent(log, Len(log) - 1)
                      /\ Last.steps = Ends(log)
                      /\ MaxSteps > 0 => Last.steps = writerStep + 1
                      /\ MaxSteps = 0 => Last.steps = 0 /\ writerStep = 0
    /\ outcome = "max_steps" => Last.steps = MaxSteps

\* Only behind agent_done does main return, and only emit ends the process of a
\* run that has started before that.
Ending ==
  /\ pc = "return" \/ exit = "ok" => Closed
  /\ exit = "crashed" => log = <<>> \/ emitFaults > 0
  /\ pc # "exited" => exit = "running"

Stamps == \A i \in 1..Len(log) : log[i].step <= writerStep

\* Only the except branch of run writes agent_error, and only the else branch of
\* its loop ends with max_steps.
Branches ==
  /\ pc \notin {"agent_done", "return", "exited"} => ~Erred(log) /\ outcome = "completed"
  /\ pc = "agent_done" /\ outcome = "max_steps" => step = MaxSteps
  /\ pc = "agent_done" /\ Erred(log) => outcome = "failed"

Accounts == Stamps /\ Branches /\ Running /\ Broken /\ Finished /\ Settled /\ Ending

AInv == LInv /\ Accounts

\* f is the running total of the first n events of s.
Sums(f, s, n) ==
  /\ f \in [0..n -> Nat]
  /\ f[0] = 0
  /\ \A i \in 1..n : f[i] = f[i - 1] + s[i].tokens

\* There is a running total: the least number without one would have one.
LEMMA SumExists ==
  ASSUME NEW s \in Seq(Events), NEW n \in 0..Len(s)
  PROVE  \E f : Sums(f, s, n)
<1> DEFINE T == {k \in 0..Len(s) : ~\E f : Sums(f, s, k)}
<1> SUFFICES ASSUME T # {} PROVE FALSE
  OBVIOUS
<1>1. Len(s) \in Nat /\ T \subseteq Nat
  OBVIOUS
<1>2. PICK x \in T : \A y \in T : x <= y
  <2> HIDE DEF T
  <2> QED BY <1>1, LeastNumber
<1>3. x \in 0..Len(s) /\ ~\E f : Sums(f, s, x)
  BY <1>2
<1>4. CASE x = 0
  <2>1. Sums([i \in 0..0 |-> 0], s, 0)
    BY DEF Sums
  <2> QED BY <1>3, <1>4, <2>1
<1>5. CASE x # 0
  <2>1. PICK m \in Nat : x = m + 1
    BY <1>1, <1>3, <1>5
  <2>2. m \in 0..Len(s) /\ m \notin T
    BY <1>1, <1>2, <1>3, <2>1
  <2>3. PICK f : Sums(f, s, m)
    BY <2>2
  <2>4. x \in 1..Len(s) /\ s[x].tokens \in Nat
    <3>1. x \in 1..Len(s)
      BY <1>1, <1>3, <1>5
    <3>2. s[x] \in Events
      BY <3>1
    <3> QED BY <3>1, <3>2 DEF Events
  <2> DEFINE g == [i \in 0..x |-> IF i <= m THEN f[i] ELSE f[m] + s[x].tokens]
  <2>5. Sums(g, s, x)
    <3>1. f \in [0..m -> Nat] /\ f[0] = 0 /\ \A i \in 1..m : f[i] = f[i - 1] + s[i].tokens
      BY <2>3 DEF Sums
    <3>2. g \in [0..x -> Nat] /\ g[0] = 0
      BY <2>1, <2>4, <3>1
    <3>3. ASSUME NEW i \in 1..x PROVE g[i] = g[i - 1] + s[i].tokens
      <4>1. CASE i <= m
        BY <2>1, <3>1, <4>1
      <4>2. CASE i = x
        BY <2>1, <2>4, <3>1, <4>2
      <4> QED BY <2>1, <4>1, <4>2
    <3> HIDE DEF g
    <3> QED BY <3>2, <3>3 DEF Sums
  <2> QED BY <1>3, <2>5
<1> QED BY <1>4, <1>5

\* Spent is the running total.
LEMMA SpentIsSum ==
  ASSUME NEW s \in Seq(Events), NEW n \in 0..Len(s), NEW f, Sums(f, s, n)
  PROVE  Spent(s, n) = f[n]
<1> DEFINE Solves(g) == g = [i \in 0..n |-> IF i = 0 THEN 0 ELSE g[i - 1] + s[i].tokens]
           sum == CHOOSE g : Solves(g)
<1>0. /\ n \in Nat /\ f \in [0..n -> Nat] /\ f[0] = 0
      /\ \A i \in 1..n : f[i] = f[i - 1] + s[i].tokens
  BY DEF Sums
<1>1. Solves(f)
  <2>1. f = [i \in 0..n |-> f[i]]
    BY <1>0
  <2>2. \A i \in 0..n : f[i] = IF i = 0 THEN 0 ELSE f[i - 1] + s[i].tokens
    BY <1>0
  <2> QED BY <2>1, <2>2
<1>2. Solves(sum)
  <2> HIDE DEF Solves
  <2> QED BY <1>1
<1>3. Spent(s, n) = sum[n]
  BY DEF Spent
<1> HIDE DEF sum
<1>4. sum[0] = 0 /\ \A i \in 1..n : sum[i] = sum[i - 1] + s[i].tokens
  BY <1>0, <1>2
<1>5. ASSUME sum[n] # f[n] PROVE FALSE
  <2> DEFINE T == {i \in 0..n : sum[i] # f[i]}
  <2>1. T \subseteq Nat /\ n \in T
    BY <1>0, <1>5
  <2>2. PICK x \in T : \A y \in T : x <= y
    <3> HIDE DEF T
    <3> QED BY <2>1, LeastNumber
  <2>3. x \in 1..n /\ sum[x] # f[x]
    BY <1>0, <1>4
  <2>4. x - 1 \in 0..n /\ ~(x <= x - 1)
    BY <1>0, <2>3
  <2>5. sum[x - 1] = f[x - 1]
    BY <2>2, <2>4
  <2> QED BY <1>0, <1>4, <2>3, <2>5
<1> QED BY <1>3, <1>5

\* What one more event adds to the tokens.
LEMMA SpentAppend ==
  ASSUME NEW s \in Seq(Events), NEW e \in Events
  PROVE  /\ Total(s) \in Nat
         /\ Spent(Append(s, e), Len(s)) = Total(s)
         /\ Total(Append(s, e)) = Total(s) + e.tokens
<1> PICK n \in Nat : n = Len(s)
  OBVIOUS
<1>0. Append(s, e) \in Seq(Events)
  BY AppendProperties
<1> PICK t \in Seq(Events) : t = Append(s, e)
  BY <1>0
<1>1. Len(t) = n + 1 /\ t[n + 1] = e /\ \A i \in 1..n : t[i] = s[i]
  OBVIOUS
<1> PICK m \in 0..Len(t) : m = n + 1
  BY <1>1
<1>2. PICK f : Sums(f, t, m)
  BY SumExists
<1>3. /\ f \in [0..(n + 1) -> Nat] /\ f[0] = 0
      /\ \A i \in 1..(n + 1) : f[i] = f[i - 1] + t[i].tokens
  BY <1>2 DEF Sums
<1>4. Total(t) = f[n + 1]
  <2>1. Spent(t, m) = f[m]
    BY <1>2, SpentIsSum
  <2> QED BY <1>1, <2>1 DEF Total
<1> DEFINE g == [i \in 0..n |-> f[i]]
<1>5. g \in [0..n -> Nat] /\ g[0] = 0 /\ g[n] = f[n]
  BY <1>3
<1>6. ASSUME NEW i \in 1..n PROVE g[i] = g[i - 1] + s[i].tokens /\ t[i] = s[i]
  BY <1>1, <1>3
<1> HIDE DEF g
<1>7. Sums(g, s, n) /\ Sums(g, t, n)
  BY <1>5, <1>6 DEF Sums
<1>8. Total(s) = f[n] /\ Spent(t, n) = f[n]
  BY <1>1, <1>5, <1>7, SpentIsSum DEF Total
<1>9. f[n + 1] = f[n] + e.tokens /\ f[n] \in Nat
  BY <1>1, <1>3
<1> QED BY <1>4, <1>8, <1>9

\* What one more event adds to the ends of steps and to the errors.
LEMMA EndsAppend ==
  ASSUME NEW s \in Seq(Events), NEW e \in Events
  PROVE  /\ Cardinality(EndsOf(s)) \in Nat
         /\ Cardinality(EndsOf(Append(s, e))) =
              Cardinality(EndsOf(s)) + (IF e.type = "agent_step_end" THEN 1 ELSE 0)
         /\ Erred(Append(s, e)) <=> Erred(s) \/ e.type = "agent_error"
<1> PICK n \in Nat : n = Len(s)
  OBVIOUS
<1> PICK t : t = Append(s, e)
  OBVIOUS
<1>1. Len(t) = n + 1 /\ t[n + 1] = e /\ \A i \in 1..n : t[i] = s[i]
  OBVIOUS
<1>2. IsFiniteSet(EndsOf(s)) /\ n + 1 \notin EndsOf(s)
  <2>1. EndsOf(s) \subseteq 1..n
    BY DEF EndsOf
  <2>2. IsFiniteSet(1..n)
    <3>1. 1 \in Int /\ n \in Int
      OBVIOUS
    <3> QED BY <3>1, FS_Interval
  <2>3. IsFiniteSet(EndsOf(s))
    BY <2>1, <2>2, FS_Subset
  <2>4. n + 1 \notin 1..n
    OBVIOUS
  <2> QED BY <2>1, <2>3, <2>4
<1>3. /\ Cardinality(EndsOf(s)) \in Nat
      /\ Cardinality(EndsOf(s) \cup {n + 1}) = Cardinality(EndsOf(s)) + 1
  BY <1>2, FS_CardinalityType, FS_AddElement
<1>4. EndsOf(t) = IF e.type = "agent_step_end" THEN EndsOf(s) \cup {n + 1} ELSE EndsOf(s)
  BY <1>1 DEF EndsOf
<1>5. Erred(t) <=> Erred(s) \/ e.type = "agent_error"
  BY <1>1 DEF Erred
<1>6. Cardinality(EndsOf(t)) =
        Cardinality(EndsOf(s)) + (IF e.type = "agent_step_end" THEN 1 ELSE 0)
  <2>1. CASE e.type = "agent_step_end"
    BY <1>3, <1>4, <2>1
  <2>2. CASE e.type # "agent_step_end"
    BY <1>3, <1>4, <2>2
  <2> QED BY <2>1, <2>2
<1> QED BY <1>3, <1>5, <1>6

\* The event that is due becomes the last one, and what it adds.
LEMMA Grows ==
  ASSUME TypeOK, pc \in EventTypes, log' = Append(log, Due)
  PROVE  /\ Total(log') = Total(log) + Due.tokens
         /\ Ends(log') = Ends(log) + (IF pc = "agent_step_end" THEN 1 ELSE 0)
         /\ Erred(log') <=> Erred(log) \/ pc = "agent_error"
         /\ Stamps /\ writerStep' = writerStep => Stamps'
         /\ Spent(log', Len(log') - 1) = Total(log)
         /\ log' # <<>> /\ Last' = Due
<1>1. log \in Seq(Events) /\ Due \in Events /\ Due.type = pc /\ Due.step = writerStep
  BY DueTyped, DueFields DEF TypeOK, EventsTypeOK
<1>2. writerStep \in Nat
  BY DEF TypeOK, EventsTypeOK
<1>3. /\ Len(log) \in Nat /\ Len(log') = Len(log) + 1 /\ log'[Len(log) + 1] = Due
      /\ \A i \in 1..Len(log) : log'[i] = log[i]
  BY <1>1
<1>4. Len(log') - 1 = Len(log)
  BY <1>3
<1>5. Stamps /\ writerStep' = writerStep => Stamps'
  BY <1>1, <1>2, <1>3 DEF Stamps
<1>6. log' # <<>> /\ Last' = Due
  BY <1>1, <1>3 DEF Last
<1>7. /\ Total(log') = Total(log) + Due.tokens
      /\ Spent(log', Len(log)) = Total(log)
  BY <1>1, SpentAppend
<1>8. /\ Ends(log') = Ends(log) + (IF pc = "agent_step_end" THEN 1 ELSE 0)
      /\ Erred(log') <=> Erred(log) \/ pc = "agent_error"
  BY <1>1, EndsAppend DEF Ends
<1> QED BY <1>4, <1>5, <1>6, <1>7, <1>8

\* The numbers that are compared.
LEMMA Numbers ==
  ASSUME TypeOK
  PROVE  /\ step \in Nat /\ writerStep \in Nat /\ tokens \in Nat /\ resp.tokens \in Nat
         /\ MaxSteps \in Nat /\ step <= MaxSteps
         /\ Total(log) \in Nat /\ Ends(log) \in Nat
<1>1. [type |-> "agent_start", step |-> 0, call |-> 0, tokens |-> 0, steps |-> 0] \in Events
  BY DEF Events, EventTypes
<1>2. Total(log) \in Nat /\ Ends(log) \in Nat
  BY <1>1, SpentAppend, EndsAppend DEF Ends, TypeOK, EventsTypeOK
<1>3. resp.tokens \in Nat
  BY ResponseTypes DEF TypeOK
<1> QED BY <1>2, <1>3, LoopAssumption DEF TypeOK, EventsTypeOK

\* Inside a step the writer's step is the loop's, between two steps it is the one
\* before it.
LEMMA WriterStep ==
  ASSUME LInv
  PROVE  /\ pc \in StepPCs => step = writerStep
         /\ pc = "while" => (step = 0 /\ writerStep = 0) \/ step = writerStep + 1
         /\ pc = "agent_start" => step = 0 /\ writerStep = 0
BY DEF LInv, Counted, Between, Ready

\* A stream is closed by the event that was appended last.
LEMMA StreamCloses ==
  /\ log' = log => (Closed' <=> Closed) /\ Last' = Last
  /\ log' # <<>> /\ Last' = Due => (Closed' <=> pc = "agent_done")
<1>1. Due.type = pc
  BY DEF Due
<1> QED BY <1>1, Zenon DEF Closed, Last

\* The steps that do not touch the stream.
LEMMA SilentAccounts ==
  ASSUME AInv,
         \/ StartFails \/ NextStep \/ StepsExhausted \/ CompleteRaises
         \/ ToolWrites \/ WriteRaises \/ MainReturns \/ Kill
         \/ \E r \in Responses : Complete(r)
         \/ \E isError \in BOOLEAN : ToolAnswers(isError)
  PROVE  Accounts'
<1>0. LInv /\ TypeOK /\ Accounts /\ Ready
  BY DEF AInv, LInv
<1>s. log' = log /\ (Closed' <=> Closed) /\ Last' = Last
  <2>1. log' = log
    BY Zenon DEF StartFails, NextStep, StepsExhausted, CompleteRaises, ToolWrites,
                 WriteRaises, MainReturns, Kill, Complete, ToolAnswers, eventVars
  <2> QED BY <2>1, StreamCloses
<1> USE <1>0, <1>s, Numbers, WriterStep
    DEF Accounts, Stamps, Branches, Running, Broken, Finished, Settled, Ending, StepPCs
<1>1. CASE StartFails \/ MainReturns \/ Kill
  <2>1. pc = "agent_start" => log = <<>>
    BY DEF Ready
  <2> QED BY <1>1, <2>1 DEF StartFails, MainReturns, Kill, Exit, eventVars
<1>2. CASE NextStep
  <2>1. /\ pc = "while" /\ pc' = "agent_step_start" /\ writerStep' = step
        /\ UNCHANGED <<log, emitFaults, step, resp, tokens, outcome, exit>>
    BY <1>2 DEF NextStep, loopVars
  <2>2. Stamps'
    <3>1. ASSUME NEW i \in 1..Len(log) PROVE log[i].step <= step
      <4>1. log[i] \in Events
        BY DEF TypeOK, EventsTypeOK
      <4> QED BY <2>1, <4>1 DEF Events
    <3> QED BY <2>1, <3>1
  <2>3. ~Closed
    BY <2>1
  <2> QED BY <2>1, <2>2, <2>3
<1>3. CASE StepsExhausted
  BY <1>3 DEF StepsExhausted, eventVars
<1>4. CASE CompleteRaises
  BY <1>4 DEF CompleteRaises, eventVars, loopVars
<1>5. CASE ToolWrites \/ WriteRaises
  BY <1>5 DEF ToolWrites, WriteRaises, eventVars
<1>6. ASSUME NEW isError \in BOOLEAN, ToolAnswers(isError) PROVE Accounts'
  BY <1>6 DEF ToolAnswers, eventVars
<1>7. ASSUME NEW r \in Responses, Complete(r) PROVE Accounts'
  BY <1>7 DEF Complete, eventVars
<1> QED BY <1>1, <1>2, <1>3, <1>4, <1>5, <1>6, <1>7

\* The steps that emit the event that is due.
LEMMA EmitsAccounts ==
  ASSUME AInv,
         \/ Start \/ StepStart \/ LLMCallStart \/ LLMCallEnd
         \/ ToolStart \/ FileMutation \/ ToolEnd
         \/ StepEnd \/ ExceptBranch \/ Done
  PROVE  Accounts'
<1>0. LInv /\ TypeOK /\ Accounts
  BY DEF AInv, LInv
<1>1. /\ pc \in EventTypes /\ log' = Append(log, Due) /\ writerStep' = writerStep
      /\ emitFaults' = emitFaults
  BY Zenon DEF Start, StepStart, LLMCallStart, LLMCallEnd, ToolStart, FileMutation,
               ToolEnd, StepEnd, ExceptBranch, Done, EmitDue, emit, EventTypes
<1>2. /\ Total(log') = Total(log) + Due.tokens
      /\ Ends(log') = Ends(log) + (IF pc = "agent_step_end" THEN 1 ELSE 0)
      /\ Erred(log') <=> Erred(log) \/ pc = "agent_error"
      /\ Stamps'
      /\ Spent(log', Len(log') - 1) = Total(log)
      /\ log' # <<>> /\ Last' = Due
  BY <1>0, <1>1, Grows DEF Accounts
<1>3. /\ Due.type = pc /\ Due.step = writerStep
      /\ Due.tokens = IF pc = "llm_call_end" THEN resp.tokens
                      ELSE IF pc = "agent_done" THEN tokens ELSE 0
      /\ pc = "agent_done" => Due.steps = step
  BY DEF Due
<1>c. Closed' <=> pc = "agent_done"
  BY <1>2, StreamCloses
<1> USE <1>0, <1>1, <1>2, <1>3, <1>c, Numbers, WriterStep
    DEF Accounts, Branches, Running, Broken, Finished, Settled, Ending, StepPCs
<1>4. CASE Start \/ StepStart \/ LLMCallStart \/ ToolStart
  <2>1. UNCHANGED loopVars /\ pc' \in {"while", "llm_call_start", "complete", "run_tool"}
        /\ pc \in {"agent_start", "agent_step_start", "llm_call_start", "tool_call_start"}
    BY <1>4, Zenon DEF Start, StepStart, LLMCallStart, ToolStart, EmitDue
  <2> QED BY <2>1 DEF loopVars
<1>5. CASE LLMCallEnd \/ FileMutation \/ ToolEnd
  <2>1. /\ UNCHANGED <<step, resp, tokens, outcome, exit>>
        /\ pc' \in {"tool_call_start", "tool_call_end", "agent_step_end"}
        /\ pc \in {"llm_call_end", "file_mutation", "tool_call_end"}
    BY <1>5, Zenon DEF LLMCallEnd, FileMutation, ToolEnd, EmitDue
  <2> QED BY <2>1
<1>6. CASE StepEnd
  <2>1. /\ UNCHANGED <<resp, tokens, exit>> /\ step' = step + 1
        /\ pc' \in {"while", "agent_done"} /\ pc = "agent_step_end"
        /\ outcome' = outcome \/ (outcome' = "failed" /\ pc' = "agent_done")
    BY <1>6 DEF StepEnd, EmitDue
  <2>2. MaxSteps > 0
    BY <2>1 DEF LInv, Counted
  <2> QED BY <2>1, <2>2
<1>7. CASE ExceptBranch
  BY <1>7 DEF ExceptBranch, EmitDue
<1>8. CASE Done
  BY <1>8 DEF Done, EmitDue, loopVars
<1> QED BY <1>4, <1>5, <1>6, <1>7, <1>8

\* The steps in which emit raises: the line may or may not be in the stream.
LEMMA RaisesAccounts ==
  ASSUME AInv, EmitRaisesInLoop \/ EmitRaisesInTool \/ EmitRaisesOutside
  PROVE  Accounts'
<1>0. LInv /\ TypeOK /\ Accounts
  BY DEF AInv, LInv
<1>1. /\ pc \in EventTypes /\ emitRaises(Due) /\ writerStep' = writerStep
      /\ UNCHANGED <<step, resp, tokens, outcome>>
  BY Zenon DEF EmitRaisesInLoop, EmitRaisesInTool, EmitRaisesOutside, EventTypes, loopVars
<1>2. \/ log' = log /\ Last' = Last /\ (Closed' <=> Closed)
      \/ /\ Total(log') = Total(log) + Due.tokens
         /\ Ends(log') = Ends(log) + (IF pc = "agent_step_end" THEN 1 ELSE 0)
         /\ Erred(log') <=> Erred(log) \/ pc = "agent_error"
         /\ Spent(log', Len(log') - 1) = Total(log)
         /\ Last' = Due
         /\ Closed' <=> pc = "agent_done"
  <2>1. CASE log' = Append(log, Due)
    BY <1>0, <1>1, <2>1, Grows, StreamCloses
  <2>2. CASE log' = log
    BY <2>2, StreamCloses
  <2>3. log' = log \/ log' = Append(log, Due)
    BY <1>1 DEF emitRaises
  <2> QED BY <2>1, <2>2, <2>3
<1>3. Stamps'
  <2>1. CASE log' = Append(log, Due)
    BY <1>0, <1>1, <2>1, Grows DEF Accounts
  <2>2. CASE log' = log
    BY <1>0, <1>1, <2>2 DEF Accounts, Stamps
  <2> QED BY <1>1, <2>1, <2>2 DEF emitRaises
<1>4. /\ Due.step = writerStep
      /\ Due.tokens = IF pc = "llm_call_end" THEN resp.tokens
                      ELSE IF pc = "agent_done" THEN tokens ELSE 0
      /\ pc = "agent_done" => Due.steps = step
  BY DEF Due
<1>f. emitFaults' > 0 /\ ~Closed
  <2>1. emitFaults \in Nat /\ emitFaults' = emitFaults + 1
    BY <1>0, <1>1, EventAssumption DEF emitRaises, TypeOK, EventsTypeOK
  <2>2. pc \notin {"return", "exited"}
    BY <1>1 DEF EventTypes
  <2> QED BY <1>0, <2>1, <2>2 DEF Accounts, Settled
<1> USE <1>0, <1>1, <1>2, <1>3, <1>4, <1>f, Numbers, WriterStep
    DEF Accounts, Branches, Running, Broken, Finished, Settled, Ending, StepPCs
<1>5. CASE EmitRaisesInLoop
  <2>1. /\ pc \in {"agent_step_start", "llm_call_start", "llm_call_end", "tool_call_start",
                   "tool_call_end", "agent_step_end"}
        /\ pc' = "agent_error" /\ exit' = exit
    BY <1>5, Zenon DEF EmitRaisesInLoop, loopVars
  <2> QED BY <2>1
<1>6. CASE EmitRaisesInTool
  <2>1. pc = "file_mutation" /\ pc' = "tool_call_end" /\ exit' = exit
    BY <1>6, Zenon DEF EmitRaisesInTool
  <2> QED BY <2>1
<1>7. CASE EmitRaisesOutside
  <2>1. pc' = "exited" /\ exit' = "crashed"
        /\ pc \in {"agent_start", "agent_error", "agent_done"}
    BY <1>7, Zenon DEF EmitRaisesOutside, Exit
  <2> QED BY <2>1
<1> QED BY <1>5, <1>6, <1>7

\* Every step keeps the accounts.
LEMMA NextAInv == AInv /\ [Next]_vars => AInv'
<1> SUFFICES ASSUME AInv, [Next]_vars PROVE AInv'
  OBVIOUS
<1>1. LInv'
  BY NextLInv DEF AInv
<1>2. CASE UNCHANGED vars
  <2>1. Accounts'
    BY <1>2 DEF AInv, Accounts, Stamps, Branches, Running, Broken, Finished, Settled, Ending,
                vars, eventVars, loopVars, Last, Closed
  <2> QED BY <1>1, <2>1 DEF AInv
<1>3. CASE Next
  <2>1. Accounts'
    BY <1>3, EmitsAccounts, RaisesAccounts, SilentAccounts, Zenon DEF Next, Run
  <2> QED BY <1>1, <2>1 DEF AInv
<1> QED BY <1>2, <1>3

\* The empty stream reports nothing.
LEMMA InitAInv == Init => AInv
<1> SUFFICES ASSUME Init PROVE AInv
  OBVIOUS
<1>1. LInv
  BY InitTyped
  DEF Init, EventsInit, LInv, Counted, StepPCs, ToolPCs, Between, Ready, LogWellFormed
<1>2. log = <<>> /\ Len(log) = 0 /\ log \in Seq(Events)
  BY DEF Init, EventsInit
<1>3. Total(log) = 0
  <2>1. Sums([i \in 0..0 |-> 0], log, 0)
    BY DEF Sums
  <2>2. PICK n \in 0..Len(log) : n = 0
    BY <1>2
  <2>3. PICK f : Sums(f, log, n) /\ f[n] = 0
    BY <2>1, <2>2
  <2> QED BY <1>2, <2>2, <2>3, SpentIsSum DEF Total
<1>4. Ends(log) = 0
  <2>1. EndsOf(log) = {}
    BY <1>2 DEF EndsOf
  <2> QED BY <2>1, FS_EmptySet DEF Ends
<1>5. ~Erred(log) /\ Stamps
  BY <1>2 DEF Erred, Stamps
<1>6. /\ pc = "agent_start" /\ step = 0 /\ tokens = 0 /\ outcome = "completed"
      /\ exit = "running"
  BY DEF Init
<1>7. ~Closed
  BY <1>2 DEF Closed
<1> QED BY <1>1, <1>3, <1>4, <1>5, <1>6, <1>7
        DEF AInv, Accounts, Branches, Running, Broken, Finished, Settled, Ending

\* What the trace loader reads off a stream whose last event has the last step.
LEMMA LoaderReads ==
  ASSUME TypeOK, Stamps, log # <<>>, Last.step = writerStep
  PROVE  /\ total_steps = writerStep + 1
         /\ DOMAIN by_type("agent_step_end") = EndsOf(log)
         /\ DOMAIN by_type("agent_error") # {} <=> Erred(log)
<1>1. /\ DOMAIN log = 1..Len(log) /\ Len(log) \in 1..Len(log) /\ Len(log) \in Nat
      /\ writerStep \in Nat
  BY DEF TypeOK, EventsTypeOK
<1>2. /\ DOMAIN by_type("agent_step_end") = EndsOf(log)
      /\ DOMAIN by_type("agent_error") # {} <=> Erred(log)
  BY <1>1 DEF by_type, EndsOf, Erred
<1> DEFINE S == {log[i].step : i \in DOMAIN log}
<1>3. writerStep \in S /\ \A y \in S : y <= writerStep
  BY <1>1 DEF Last, Stamps
<1>4. S \subseteq Nat
  <2>1. \A i \in DOMAIN log : log[i] \in Events
    BY <1>1 DEF TypeOK, EventsTypeOK
  <2> QED BY <2>1 DEF Events
<1>5. Max(S) = writerStep
  <2> HIDE DEF S
  <2>1. \A x \in S : (\A y \in S : x >= y) => x = writerStep
    BY <1>1, <1>3, <1>4
  <2>2. \A y \in S : writerStep >= y
    BY <1>1, <1>3, <1>4
  <2> QED BY <1>3, <2>1, <2>2 DEF Max
<1>6. total_steps = Max(S) + 1
  BY DEF total_steps
<1> HIDE DEF S
<1> QED BY <1>2, <1>5, <1>6

\* The accounts are an invariant.
LEMMA LoopInvariance == Spec => []AInv
BY InitAInv, NextAInv, PTL DEF Spec

\* The totals of agent_done are those of the stream before it, for every length of
\* the run and whatever raises: exactly so without an agent_error; after one,
\* agent_done leaves out the step that failed and never reports fewer tokens than
\* the stream shows; and for max_steps = 0 the trace loader counts one step where
\* agent_done counts none (loop.py, run; trace.py, total_steps).
THEOREM TotalsAccounted == Spec => []DoneAccounts
<1>1. AInv => DoneAccounts
  <2> SUFFICES ASSUME AInv, Closed PROVE DoneAccounts
    BY DEF DoneAccounts
  <2>1. TypeOK /\ Stamps /\ Settled
    BY DEF AInv, Accounts, LInv
  <2>2. /\ log # <<>> /\ Last.step = writerStep
        /\ Last.tokens >= Spent(log, Len(log) - 1)
        /\ Erred(log) => /\ Last.steps = writerStep
                         /\ Last.steps <= Ends(log)
        /\ ~Erred(log) => /\ Last.tokens = Spent(log, Len(log) - 1)
                          /\ Last.steps = Ends(log)
                          /\ MaxSteps > 0 => Last.steps = writerStep + 1
                          /\ MaxSteps = 0 => Last.steps = 0 /\ writerStep = 0
        /\ outcome = "max_steps" => Last.steps = MaxSteps
    BY <2>1 DEF Settled, Closed
  <2>3. /\ total_steps = writerStep + 1
        /\ DOMAIN by_type("agent_step_end") = EndsOf(log)
        /\ Erroneous <=> Erred(log)
    BY <2>1, <2>2, LoaderReads DEF Erroneous
  <2>4. MaxSteps \in Nat
    BY LoopAssumption
  <2>5. /\ ~Erred(log) => total_steps = IF MaxSteps > 0 THEN Last.steps ELSE Last.steps + 1
        /\ Erred(log) => total_steps = Last.steps + 1
    BY <2>2, <2>3, <2>4
  <2> QED BY <2>2, <2>3, <2>5, Zenon DEF DoneAccounts, Last, Ends
<1> QED BY <1>1, LoopInvariance, PTL

\* A run that has started ends with agent_done, as failed if it had an agent_error,
\* unless the process is killed or emit itself raises, for any number of steps,
\* tool uses and exceptions (loop.py, the except branch of run).
THEOREM TerminatesCleanly == Spec => []CleanTermination
<1>1. AInv => CleanTermination
  <2> SUFFICES ASSUME AInv PROVE CleanTermination
    OBVIOUS
  <2>1. TypeOK /\ Settled /\ Ending
    BY DEF AInv, Accounts, LInv
  <2>2. Erroneous => Erred(log)
    <3>1. DOMAIN log = 1..Len(log)
      BY <2>1 DEF TypeOK, EventsTypeOK
    <3> QED BY <3>1, Zenon DEF Erroneous, by_type, Erred
  <2>3. exit \in {"running", "ok", "crashed", "killed"}
    BY <2>1 DEF TypeOK
  <2> QED BY <2>1, <2>2, <2>3, Zenon DEF Settled, Ending, CleanTermination
<1> QED BY <1>1, LoopInvariance, PTL

=============================================================================
