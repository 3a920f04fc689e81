---------------------------- MODULE ConversationProofs ----------------------------
(***************************************************************************)
(* Theorems about what AgentLoop tells the LLM: the conversation it sends  *)
(* and whether the answers of the tools own up to what was written.        *)
(***************************************************************************)
EXTENDS AgentLoopProofs

-----------------------------------------------------------------------------
(***************************************************************************)
(* The inductive invariant.                                                *)
(***************************************************************************)
\* The run is over, or nothing but agent_done is to come: the LLM is not called
\* any more.
Ended == pc \in {"agent_error", "agent_done", "return", "exited"}

\* User and assistant alternate, and a user message answers the tool uses of the
\* message before it.
Alternates ==
  \A i \in 1..Len(messages) :
    messages[i].role = IF i % 2 = 1 THEN "user" ELSE "assistant"

Answered ==
  \A i \in 2..Len(messages) :
    messages[i].role = "user" => Len(messages[i].answers) = messages[i - 1].uses

\* How long the conversation is at each point of a step, and what the assistant
\* has asked for.
Turn ==
  /\ pc \in {"agent_start", "while", "agent_step_start", "llm_call_start", "complete",
             "llm_call_end"}
       => Len(messages) = 2 * step + 1
  /\ pc \in ToolPCs => /\ Len(messages) = 2 * step + 2
                       /\ messages[2 * step + 2].uses = Len(resp.tool_uses)
                       /\ WantsTools
  /\ pc = "agent_step_end" => Len(messages) = 2 * step + IF WantsTools THEN 3 ELSE 2

\* The tool uses before this one have a result.
Handled ==
  /\ pc \in {"tool_call_start", "run_tool", "file_mutation"} => Len(results) = call - 1
  /\ pc = "tool_call_end" => Len(results) = call

\* The write w is in the stream.
InStream(w) ==
  \E i \in 1..Len(log) : /\ log[i].type = "file_mutation"
                         /\ log[i].step = w[1] /\ log[i].call = w[2]

\* The LLM is told that w failed.
Reported(w) == messages[2 * w[1] + 3].answers[w[2]] = TRUE

\* The tool use has a result that says so, or its event is due.
Pending(w) ==
  /\ pc \in ToolPCs /\ w[1] = step
  /\ \/ InStream(w)
     \/ w[2] \in 1..Len(results) /\ results[w[2]] = TRUE
     \/ w[2] = call /\ pc = "file_mutation"

OwnsUp ==
  \A w \in written :
    IF Len(messages) >= 2 * w[1] + 3 THEN InStream(w) \/ Reported(w)
                                     ELSE Pending(w) \/ Ended

CInv == TypeOK /\ Counted /\ Alternates /\ Answered /\ Turn /\ Handled /\ OwnsUp

-----------------------------------------------------------------------------
(***************************************************************************)
(* One more event, result or message.                                      *)
(***************************************************************************)
\* What is in the stream stays in it.
LEMMA StreamKept ==
  ASSUME TypeOK, Next, NEW w, InStream(w)
  PROVE  InStream(w)'
<1>1. PICK i \in 1..Len(log) : /\ log[i].type = "file_mutation"
                               /\ log[i].step = w[1] /\ log[i].call = w[2]
  BY DEF InStream
<1>2. i \in 1..Len(log') /\ log'[i] = log[i]
  <2>1. CASE log' = log
    BY <2>1
  <2>2. CASE log' = Append(log, Due) /\ pc \in EventTypes
    <3>1. log \in Seq(Events) /\ Due \in Events
      BY <2>2, DueTyped DEF TypeOK, EventsTypeOK
    <3> QED BY <2>2, <3>1
  <2> QED BY <2>1, <2>2, StreamGrows
<1> QED BY <1>1, <1>2 DEF InStream

\* One more result of a tool.
LEMMA ResultAdded ==
  ASSUME NEW s \in Seq(BOOLEAN), NEW b \in BOOLEAN
  PROVE  /\ Len(Append(s, b)) = Len(s) + 1
         /\ \A i \in 1..Len(s) : Append(s, b)[i] = s[i]
         /\ Append(s, b)[Len(s) + 1] = b
  BY AppendProperties

\* One more message, of the one whose turn it is.
LEMMA MessageAdded ==
  ASSUME TypeOK, Alternates, Answered, NEW m, messages' = Append(messages, m),
         Len(messages) > 0,
         m.role = IF (Len(messages) + 1) % 2 = 1 THEN "user" ELSE "assistant",
         m.role = "user" => Len(m.answers) = messages[Len(messages)].uses
  PROVE  /\ Alternates' /\ Answered'
         /\ Len(messages') = Len(messages) + 1
         /\ \A i \in 1..Len(messages) : messages'[i] = messages[i]
         /\ messages'[Len(messages) + 1] = m
<1> DEFINE n == Len(messages)
<1>1. n \in Nat
  BY DEF TypeOK
<1>2. /\ Len(messages') = n + 1
      /\ \A i \in 1..n : messages'[i] = messages[i]
      /\ messages'[n + 1] = m
  <2>1. messages \in Seq(Messages \cup {m})
    BY DEF TypeOK
  <2> QED BY <2>1, AppendProperties
<1> HIDE DEF n
<1>3. Alternates'
  <2> SUFFICES ASSUME NEW i \in 1..n + 1
               PROVE  messages'[i].role = IF i % 2 = 1 THEN "user" ELSE "assistant"
    BY <1>2 DEF Alternates
  <2>1. CASE i = n + 1
    BY <1>2, <2>1 DEF n
  <2>2. CASE i \in 1..n
    BY <1>2, <2>2 DEF Alternates, n
  <2>3. i = n + 1 \/ i \in 1..n
    BY <1>1
  <2> QED BY <2>1, <2>2, <2>3, Zenon
<1>4. Answered'
  <2> SUFFICES ASSUME NEW i \in 2..n + 1, messages'[i].role = "user"
               PROVE  Len(messages'[i].answers) = messages'[i - 1].uses
    BY <1>2 DEF Answered
  <2>1. CASE i = n + 1
    <3>1. n \in 1..n /\ i - 1 = n
      BY <1>1, <2>1 DEF n
    <3>2. messages'[i] = m /\ messages'[i - 1] = messages[n]
      BY <1>2, <2>1, <3>1
    <3> QED BY <3>2 DEF n
  <2>2. CASE i \in 2..n
    <3>1. messages'[i] = messages[i] /\ messages'[i - 1] = messages[i - 1]
      BY <1>1, <1>2, <2>2
    <3> QED BY <2>2, <3>1 DEF Answered, n
  <2>3. i = n + 1 \/ i \in 2..n
    BY <1>1
  <2> QED BY <2>1, <2>2, <2>3, Zenon
<1> QED BY <1>2, <1>3, <1>4 DEF n

\* The writes are numbered by their step and their tool use.
LEMMA WriteTyped ==
  ASSUME TypeOK, NEW w \in written
  PROVE  w[1] \in Nat /\ w[2] \in Nat
  BY LoopAssumption DEF TypeOK

-----------------------------------------------------------------------------
(***************************************************************************)
(* The steps.                                                              *)
(***************************************************************************)
\* Steps that leave the conversation and the files alone and end the run or stay
\* outside of the tools.
LEMMA QuietStep ==
  ASSUME CInv, TypeOK', Counted', Next, UNCHANGED <<messages, written>>,
         \/ Ended'
         \/ /\ pc \notin ToolPCs /\ ~Ended
            /\ pc' \in {"agent_start", "while", "agent_step_start", "llm_call_start",
                        "complete", "llm_call_end"}
            /\ Len(messages) = 2 * step' + 1
  PROVE  CInv'
<1>1. Alternates' /\ Answered'
  BY DEF CInv, Alternates, Answered
<1>2. Turn' /\ Handled'
  BY DEF Turn, Handled, Ended, ToolPCs
<1>3. OwnsUp'
  <2> SUFFICES ASSUME NEW w \in written
               PROVE  IF Len(messages) >= 2 * w[1] + 3 THEN InStream(w)' \/ Reported(w)'
                                                       ELSE Ended'
    BY DEF OwnsUp
  <2>1. CASE Len(messages) >= 2 * w[1] + 3
    <3>1. InStream(w) \/ Reported(w)
      BY <2>1 DEF CInv, OwnsUp
    <3>2. Reported(w) => Reported(w)'
      BY DEF Reported
    <3>3. InStream(w) => InStream(w)'
      BY StreamKept DEF CInv
    <3> QED BY <2>1, <3>1, <3>2, <3>3
  <2>2. CASE ~(Len(messages) >= 2 * w[1] + 3)
    BY <2>2 DEF CInv, OwnsUp, Pending
  <2> QED BY <2>1, <2>2
<1> QED BY <1>1, <1>2, <1>3 DEF CInv

LEMMA QuietSteps ==
  ASSUME CInv, TypeOK', Counted',
         \/ StartFails \/ StepsExhausted \/ CompleteRaises \/ EmitRaisesInLoop
         \/ EmitRaisesOutside \/ ExceptBranch \/ Done \/ MainReturns \/ Kill
         \/ Start \/ NextStep \/ StepStart \/ LLMCallStart \/ StepEnd
         \/ \E r \in Responses : Complete(r)
  PROVE  CInv'
<1>0. Next
  BY Zenon DEF Next, Run
<1>1. CASE \/ StartFails \/ StepsExhausted \/ CompleteRaises \/ EmitRaisesInLoop
           \/ EmitRaisesOutside \/ ExceptBranch \/ Done \/ MainReturns \/ Kill
  <2>1. Ended' /\ UNCHANGED <<messages, written>>
    BY <1>1 DEF StartFails, StepsExhausted, CompleteRaises, EmitRaisesInLoop,
                EmitRaisesOutside, ExceptBranch, Done, MainReturns, Kill, Exit, EmitDue, Ended,
                loopVars
  <2> QED BY <1>0, <2>1, QuietStep
<1>2. CASE Start \/ NextStep \/ StepStart \/ LLMCallStart \/ \E r \in Responses : Complete(r)
  <2>1. /\ UNCHANGED <<messages, written, step>>
        /\ pc \in {"agent_start", "while", "agent_step_start", "llm_call_start", "complete"}
        /\ pc' \in {"while", "agent_step_start", "llm_call_start", "complete",
                    "llm_call_end"}
    BY <1>2 DEF Start, NextStep, StepStart, LLMCallStart, Complete, EmitDue, loopVars
  <2>2. Len(messages) = 2 * step + 1
    BY <2>1 DEF CInv, Turn
  <2>3. pc \notin ToolPCs /\ ~Ended
    BY <2>1 DEF ToolPCs, Ended
  <2> QED BY <1>0, <2>1, <2>2, <2>3, QuietStep
<1>3. CASE StepEnd
  <2>1. /\ UNCHANGED <<messages, written>> /\ pc = "agent_step_end" /\ step' = step + 1
        /\ pc' = IF WantsTools THEN "while" ELSE "agent_done"
    BY <1>3 DEF StepEnd, EmitDue
  <2>2. CASE WantsTools
    <3>1. Len(messages) = 2 * step + 3
      BY <2>1, <2>2 DEF CInv, Turn
    <3>2. step \in Nat
      BY LoopAssumption DEF CInv, TypeOK
    <3>3. Len(messages) = 2 * step' + 1
      BY <2>1, <3>1, <3>2
    <3>4. pc \notin ToolPCs /\ ~Ended /\ pc' = "while"
      BY <2>1, <2>2 DEF ToolPCs, Ended
    <3> QED BY <1>0, <2>1, <3>3, <3>4, QuietStep
  <2>3. CASE ~WantsTools
    <3>1. Ended'
      BY <2>1, <2>3 DEF Ended
    <3> QED BY <1>0, <2>1, <3>1, QuietStep
  <2> QED BY <2>2, <2>3
<1> QED BY <1>1, <1>2, <1>3

\* The answer of the LLM becomes a message.
LEMMA AssistantSpeaks ==
  ASSUME CInv, TypeOK', Counted', LLMCallEnd
  PROVE  CInv'
<1>0. Next
  BY Zenon DEF Next, Run
<1> DEFINE m == [role |-> "assistant", uses |-> Len(resp.tool_uses), answers |-> <<>>]
<1>1. /\ pc = "llm_call_end" /\ messages' = Append(messages, m)
      /\ pc' = IF WantsTools THEN "tool_call_start" ELSE "agent_step_end"
      /\ call' = IF WantsTools THEN 1 ELSE 0
      /\ results' = <<>> /\ UNCHANGED <<step, resp, written>>
  BY DEF LLMCallEnd, EmitDue
<1>2. Len(messages) = 2 * step + 1 /\ step \in Nat
  BY <1>1, LoopAssumption DEF CInv, Turn, TypeOK
<1>3. (Len(messages) + 1) % 2 # 1 /\ Len(messages) > 0
  BY <1>2
<1>4. m.role = "assistant" /\ m.uses = Len(resp.tool_uses)
  OBVIOUS
<1> HIDE DEF m
<1>5. /\ Alternates' /\ Answered'
      /\ Len(messages') = Len(messages) + 1
      /\ \A i \in 1..Len(messages) : messages'[i] = messages[i]
      /\ messages'[Len(messages) + 1] = m
  BY <1>1, <1>3, <1>4, MessageAdded DEF CInv
<1>6. WantsTools' = WantsTools
  BY <1>1 DEF WantsTools
<1>7. Len(messages') = 2 * step + 2 /\ messages'[2 * step + 2] = m
  BY <1>2, <1>5
<1>8. Turn'
  BY <1>1, <1>4, <1>6, <1>7 DEF Turn, ToolPCs
<1>9. Handled'
  <2>1. Len(results') = 0
    BY <1>1
  <2> QED BY <1>1, <2>1 DEF Handled
<1>10. OwnsUp'
  <2> SUFFICES ASSUME NEW w \in written
               PROVE  /\ Len(messages') >= 2 * w[1] + 3
                      /\ InStream(w)' \/ Reported(w)'
    BY <1>1 DEF OwnsUp
  <2>1. w[1] \in Nat
    BY WriteTyped DEF CInv
  <2>2. Len(messages) >= 2 * w[1] + 3 /\ (InStream(w) \/ Reported(w))
    BY <1>1 DEF CInv, OwnsUp, Pending, Ended, ToolPCs
  <2>3. 2 * w[1] + 3 \in 1..Len(messages)
    BY <1>2, <2>1, <2>2
  <2>4. Reported(w) => Reported(w)'
    BY <1>5, <2>3 DEF Reported
  <2>5. InStream(w) => InStream(w)'
    BY <1>0, StreamKept DEF CInv
  <2>6. Len(messages') >= 2 * w[1] + 3
    BY <1>2, <1>7, <2>1, <2>2
  <2> QED BY <2>2, <2>4, <2>5, <2>6
<1> QED BY <1>5, <1>8, <1>9, <1>10 DEF CInv

\* A step inside a tool use that leaves the conversation alone: what was pending
\* still is, and so is the write that it makes, if any.
LEMMA ToolStep ==
  ASSUME CInv, TypeOK', Counted', Handled', Next, pc \in ToolPCs, pc' \in ToolPCs,
         UNCHANGED <<messages, resp, step>>,
         \A w \in written : Pending(w) => Pending(w)',
         \A w \in written' \ written : w[1] = step /\ Pending(w)'
  PROVE  CInv'
<1>1. Alternates' /\ Answered'
  BY DEF CInv, Alternates, Answered
<1>2. Turn'
  <2>1. WantsTools' = WantsTools
    BY DEF WantsTools
  <2> QED BY <2>1 DEF CInv, Turn, ToolPCs
<1>3. Len(messages) = 2 * step + 2 /\ step \in Nat
  BY LoopAssumption DEF CInv, Turn, TypeOK
<1>4. OwnsUp'
  <2> SUFFICES ASSUME NEW w \in written'
               PROVE  IF Len(messages) >= 2 * w[1] + 3 THEN InStream(w)' \/ Reported(w)'
                                                       ELSE Pending(w)'
    BY DEF OwnsUp
  <2>1. CASE w \in written /\ Len(messages) >= 2 * w[1] + 3
    <3>1. InStream(w) \/ Reported(w)
      BY <2>1 DEF CInv, OwnsUp
    <3>2. Reported(w) => Reported(w)'
      BY DEF Reported
    <3>3. InStream(w) => InStream(w)'
      BY StreamKept DEF CInv
    <3> QED BY <2>1, <3>1, <3>2, <3>3
  <2>2. CASE w \in written /\ ~(Len(messages) >= 2 * w[1] + 3)
    <3>1. ~Ended
      BY DEF Ended, ToolPCs
    <3>2. Pending(w)
      BY <2>2, <3>1 DEF CInv, OwnsUp
    <3> QED BY <2>2, <3>2
  <2>3. CASE w \notin written
    <3>1. w[1] = step /\ Pending(w)'
      BY <2>3
    <3>2. ~(Len(messages) >= 2 * w[1] + 3)
      BY <1>3, <3>1
    <3> QED BY <3>1, <3>2
  <2> QED BY <2>1, <2>2, <2>3
<1> QED BY <1>1, <1>2, <1>4 DEF CInv

\* A tool use starts, or its file is written.
LEMMA ToolGoesOn ==
  ASSUME CInv, TypeOK', Counted', ToolStart \/ ToolWrites
  PROVE  CInv'
<1>0. Next
  BY Zenon DEF Next, Run
<1>1. /\ pc \in {"tool_call_start", "run_tool"} /\ pc' \in {"run_tool", "file_mutation"}
      /\ UNCHANGED <<messages, resp, step, call, results>>
      /\ written' = written \/ (pc' = "file_mutation" /\ written' = written \cup {<<step, call>>})
  BY DEF ToolStart, ToolWrites, EmitDue, loopVars
<1>2. pc \in ToolPCs /\ pc' \in ToolPCs
  BY <1>1 DEF ToolPCs
<1>3. Handled'
  BY <1>1 DEF CInv, Handled
<1>4. ASSUME NEW w \in written, Pending(w) PROVE Pending(w)'
  <2>1. InStream(w) => InStream(w)'
    BY <1>0, StreamKept DEF CInv
  <2> QED BY <1>1, <1>2, <1>4, <2>1 DEF Pending
<1>5. ASSUME NEW w \in written' \ written PROVE w[1] = step /\ Pending(w)'
  <2>1. w = <<step, call>> /\ pc' = "file_mutation"
    BY <1>1
  <2>2. w[1] = step /\ w[2] = call
    BY <2>1
  <2> QED BY <1>1, <1>2, <2>1, <2>2 DEF Pending
<1> QED BY <1>0, <1>1, <1>2, <1>3, <1>4, <1>5, ToolStep

\* A tool has a result: a write has been recorded, or the result is an error.
LEMMA ToolHasResult ==
  ASSUME CInv, TypeOK', Counted',
         \/ WriteRaises \/ FileMutation \/ EmitRaisesInTool
         \/ \E isError \in BOOLEAN : ToolAnswers(isError)
  PROVE  CInv'
<1>0. Next
  BY Zenon DEF Next, Run
<1>1. PICK b \in BOOLEAN :
        /\ pc \in {"run_tool", "file_mutation"} /\ pc' = "tool_call_end"
        /\ UNCHANGED <<messages, resp, step, call>>
        /\ results' = Append(results, b)
        /\ \/ b = TRUE
           \/ pc = "run_tool" /\ written' = written
           \/ FileMutation
        /\ \/ written' = written
           \/ b = TRUE /\ written' = written \cup {<<step, call>>}
  <2>1. CASE WriteRaises
    BY <2>1, Zenon DEF WriteRaises
  <2>2. CASE FileMutation
    BY <2>2, Zenon DEF FileMutation, EmitDue
  <2>3. CASE EmitRaisesInTool
    BY <2>3, Zenon DEF EmitRaisesInTool
  <2>4. CASE \E isError \in BOOLEAN : ToolAnswers(isError)
    BY <2>4, Zenon DEF ToolAnswers
  <2> QED BY <2>1, <2>2, <2>3, <2>4
<1>2. pc \in ToolPCs /\ pc' \in ToolPCs
  BY <1>1 DEF ToolPCs
<1>3. call \in Nat /\ call \in 1..Len(resp.tool_uses)
  BY <1>2, LoopAssumption DEF CInv, TypeOK, Counted
<1>4. results \in Seq(BOOLEAN) /\ Len(results) = call - 1
  BY <1>1, Zenon DEF CInv, TypeOK, Handled
<1>5. /\ Len(results') = Len(results) + 1
      /\ \A i \in 1..Len(results) : results'[i] = results[i]
      /\ results'[Len(results) + 1] = b
  BY <1>1, <1>4, ResultAdded
<1>6. Len(results') = call /\ results'[call] = b /\ call \in 1..Len(results')
  BY <1>3, <1>4, <1>5
<1>7. Handled'
  BY <1>1, <1>6 DEF Handled
<1>8. ASSUME NEW w \in written, Pending(w) PROVE Pending(w)'
  <2>0. w[1] = step
    BY <1>8 DEF Pending
  <2>1. CASE InStream(w)
    <3>1. InStream(w)'
      BY <1>0, <2>1, StreamKept DEF CInv
    <3> QED BY <1>1, <1>2, <2>0, <3>1 DEF Pending
  <2>2. CASE w[2] \in 1..Len(results) /\ results[w[2]] = TRUE
    <3>1. w[2] \in 1..Len(results') /\ results'[w[2]] = TRUE
      BY <1>3, <1>4, <1>5, <2>2
    <3> QED BY <1>1, <1>2, <2>0, <3>1 DEF Pending
  <2>3. CASE w[2] = call /\ pc = "file_mutation"
    <3>1. CASE b = TRUE
      <4>1. w[2] \in 1..Len(results') /\ results'[w[2]] = TRUE
        BY <1>6, <2>3, <3>1, Zenon
      <4> QED BY <1>1, <1>2, <2>0, <4>1 DEF Pending
    <3>2. CASE FileMutation
      <4>1. log' = Append(log, Due) /\ pc \in EventTypes
        BY <3>2, Zenon DEF FileMutation, EmitDue, emit, EventTypes
      <4>2. log \in Seq(Events) /\ Due \in Events
        BY <4>1, DueTyped DEF CInv, TypeOK, EventsTypeOK
      <4>3. Len(log) + 1 \in 1..Len(log') /\ log'[Len(log) + 1] = Due
        BY <4>1, <4>2
      <4>4. Due.type = "file_mutation" /\ Due.step = w[1] /\ Due.call = w[2]
        <5>1. writerStep = step
          BY <2>3 DEF CInv, Counted, StepPCs
        <5> QED BY <2>0, <2>3, <5>1, DueFields
      <4>5. InStream(w)'
        BY <4>3, <4>4 DEF InStream
      <4> QED BY <1>1, <1>2, <2>0, <4>5 DEF Pending
    <3> QED BY <1>1, <2>3, <3>1, <3>2
  <2> QED BY <1>8, <2>1, <2>2, <2>3 DEF Pending
<1>9. ASSUME NEW w \in written' \ written PROVE w[1] = step /\ Pending(w)'
  <2>1. w = <<step, call>> /\ b = TRUE
    BY <1>1, Zenon
  <2>2. w[1] = step /\ w[2] = call
    BY <2>1
  <2>3. w[2] \in 1..Len(results') /\ results'[w[2]] = TRUE
    BY <1>6, <2>1, <2>2, Zenon
  <2> QED BY <1>1, <1>2, <2>2, <2>3 DEF Pending
<1> QED BY <1>0, <1>1, <1>2, <1>7, <1>8, <1>9, ToolStep

\* A tool use ends; after the last one the results become a message.
LEMMA ToolUseEnds ==
  ASSUME CInv, TypeOK', Counted', ToolEnd
  PROVE  CInv'
<1>0. Next
  BY Zenon DEF Next, Run
<1>1. pc = "tool_call_end" /\ UNCHANGED <<step, resp, results, written>> /\ pc \in ToolPCs
  BY DEF ToolEnd, ToolPCs
<1>2. /\ Len(messages) = 2 * step + 2 /\ step \in Nat /\ Len(results) = call
      /\ messages[2 * step + 2].uses = Len(resp.tool_uses) /\ WantsTools
  BY <1>1, LoopAssumption DEF CInv, TypeOK, Turn, Handled
<1>3. /\ call \in 1..Len(resp.tool_uses) /\ Len(resp.tool_uses) \in Nat
  <2>1. Len(resp.tool_uses) \in Nat
    BY ResponseTypes, LoopAssumption DEF CInv, TypeOK
  <2> QED BY <1>1, <2>1 DEF CInv, Counted
<1>4. CASE call < Len(resp.tool_uses)
  <2>1. pc' = "tool_call_start" /\ call' = call + 1 /\ messages' = messages
    BY <1>4 DEF ToolEnd, EmitDue
  <2>2. pc' \in ToolPCs
    BY <2>1 DEF ToolPCs
  <2>3. Handled'
    <3>1. Len(results') = call' - 1
      BY <1>1, <1>2, <1>3, <2>1
    <3> QED BY <2>1, <3>1 DEF Handled
  <2>4. ASSUME NEW w \in written, Pending(w) PROVE Pending(w)'
    <3>1. InStream(w) => InStream(w)'
      BY <1>0, StreamKept DEF CInv
    <3> QED BY <1>1, <2>2, <2>4, <3>1 DEF Pending
  <2> QED BY <1>0, <1>1, <2>1, <2>2, <2>3, <2>4, ToolStep
<1>5. CASE ~(call < Len(resp.tool_uses))
  <2> DEFINE m == [role |-> "user", uses |-> 0, answers |-> results]
  <2>1. pc' = "agent_step_end" /\ messages' = Append(messages, m)
    BY <1>5 DEF ToolEnd, EmitDue
  <2>2. m.role = "user" /\ m.answers = results
    OBVIOUS
  <2> HIDE DEF m
  <2>3. Len(m.answers) = messages[Len(messages)].uses
    <3>1. call = Len(resp.tool_uses)
      BY <1>3, <1>5
    <3> QED BY <1>2, <2>2, <3>1
  <2>4. (Len(messages) + 1) % 2 = 1 /\ Len(messages) > 0
    BY <1>2
  <2>5. /\ Alternates' /\ Answered'
        /\ Len(messages') = Len(messages) + 1
        /\ \A i \in 1..Len(messages) : messages'[i] = messages[i]
        /\ messages'[Len(messages) + 1] = m
    BY <2>1, <2>2, <2>3, <2>4, MessageAdded DEF CInv
  <2>6. Len(messages') = 2 * step + 3 /\ messages'[2 * step + 3] = m
    BY <1>2, <2>5
  <2>7. Turn' /\ Handled'
    <3>1. WantsTools' /\ step' = step
      BY <1>1, <1>2 DEF WantsTools
    <3> QED BY <2>1, <2>6, <3>1 DEF Turn, Handled, ToolPCs
  <2>8. OwnsUp'
    <3> SUFFICES ASSUME NEW w \in written
                 PROVE  /\ Len(messages') >= 2 * w[1] + 3
                        /\ InStream(w)' \/ Reported(w)'
      BY <1>1 DEF OwnsUp
    <3>1. w[1] \in Nat
      BY WriteTyped DEF CInv
    <3>2. InStream(w) => InStream(w)'
      BY <1>0, StreamKept DEF CInv
    <3>3. CASE Len(messages) >= 2 * w[1] + 3
      <4>1. InStream(w) \/ Reported(w)
        BY <3>3 DEF CInv, OwnsUp
      <4>2. 2 * w[1] + 3 \in 1..Len(messages)
        BY <1>2, <3>1, <3>3
      <4>3. Reported(w) => Reported(w)'
        BY <2>5, <4>2 DEF Reported
      <4>4. Len(messages') >= 2 * w[1] + 3
        BY <1>2, <2>6, <3>1, <3>3
      <4> QED BY <3>2, <4>1, <4>3, <4>4
    <3>4. CASE ~(Len(messages) >= 2 * w[1] + 3)
      <4>1. ~Ended
        BY <1>1 DEF Ended
      <4>2. Pending(w)
        BY <3>4, <4>1 DEF CInv, OwnsUp
      <4>3. w[1] = step /\ (InStream(w) \/ results[w[2]] = TRUE)
        BY <1>1, <4>2 DEF Pending
      <4>4. Len(messages') >= 2 * w[1] + 3 /\ messages'[2 * w[1] + 3] = m
        BY <1>2, <2>6, <4>3
      <4>5. results[w[2]] = TRUE => Reported(w)'
        BY <2>2, <4>4 DEF Reported
      <4> QED BY <3>2, <4>3, <4>4, <4>5
    <3> QED BY <3>3, <3>4
  <2> QED BY <2>5, <2>7, <2>8 DEF CInv
<1> QED BY <1>4, <1>5

-----------------------------------------------------------------------------
\* The invariant is inductive.
LEMMA ConversationInvariance == Spec => []CInv
<1>1. Init => CInv
  <2> SUFFICES ASSUME Init PROVE CInv
    OBVIOUS
  <2>1. TypeOK /\ Counted
    BY InitTyped DEF Init, Counted, StepPCs, ToolPCs
  <2>2. pc = "agent_start" /\ step = 0 /\ written = {}
    BY DEF Init
  <2>3. Len(messages) = 1 /\ messages[1].role = "user"
    BY DEF Init
  <2>4. Alternates /\ Answered
    BY <2>3 DEF Alternates, Answered
  <2>5. Turn /\ Handled /\ OwnsUp
    BY <2>2, <2>3 DEF Turn, Handled, OwnsUp, ToolPCs
  <2> QED BY <2>1, <2>4, <2>5 DEF CInv
<1>2. CInv /\ [Next]_vars => CInv'
  <2> SUFFICES ASSUME CInv, [Next]_vars PROVE CInv'
    OBVIOUS
  <2>1. TypeOK' /\ Counted'
    BY NextTyped, NextCounted DEF CInv
  <2>2. CASE Next
    BY <2>1, <2>2, QuietSteps, AssistantSpeaks, ToolGoesOn, ToolHasResult, ToolUseEnds, Zenon
    DEF Next, Run
  <2>3. CASE UNCHANGED vars
    <3>1. UNCHANGED <<pc, log, step, messages, resp, call, results, written>>
      BY <2>3 DEF vars, eventVars, loopVars
    <3>2. Alternates' /\ Answered' /\ Turn' /\ Handled'
      BY <3>1 DEF CInv, Alternates, Answered, Turn, Handled, WantsTools
    <3>3. OwnsUp'
      BY <3>1 DEF CInv, OwnsUp, InStream, Reported, Pending, Ended
    <3> QED BY <2>1, <3>2, <3>3 DEF CInv
  <2> QED BY <2>2, <2>3
<1> QED BY <1>1, <1>2, PTL DEF Spec

\* Whatever raises and whatever the LLM and the tools answer, every conversation
\* the LLM is sent is well-formed: the roles alternate and every tool use is
\* answered exactly once in the message after it.
THEOREM ConversationCorrect == Spec => []ConversationWellFormed
<1>1. CInv => ConversationWellFormed
  <2> SUFFICES ASSUME CInv, pc = "complete"
               PROVE  /\ Len(messages) = 2 * step + 1
                      /\ \A i \in DOMAIN messages :
                           messages[i].role = IF i % 2 = 1 THEN "user" ELSE "assistant"
                      /\ \A i \in 2..Len(messages) :
                           messages[i].role = "user" =>
                             Len(messages[i].answers) = messages[i - 1].uses
    BY DEF ConversationWellFormed
  <2>1. DOMAIN messages = 1..Len(messages)
    BY DEF CInv, TypeOK
  <2> QED BY <2>1 DEF CInv, Alternates, Answered, Turn
<1> QED BY <1>1, ConversationInvariance, PTL

\* A use of file_write or file_edit that changed a file is in the stream, or the
\* LLM is told that it failed: neither a failing write nor a failing emit hides a
\* change.  What bash changes is tracked by nothing and not meant here.
THEOREM ChangesOwnedUp == Spec => []RecordedOrReported
<1>1. CInv => RecordedOrReported
  <2> SUFFICES ASSUME CInv, NEW w \in written, Len(messages) >= 2 * w[1] + 3
               PROVE  \/ \E i \in DOMAIN log : /\ log[i].type = "file_mutation"
                                               /\ log[i].step = w[1] /\ log[i].call = w[2]
                      \/ messages[2 * w[1] + 3].answers[w[2]]
    BY DEF RecordedOrReported
  <2>1. DOMAIN log = 1..Len(log)
    BY DEF CInv, TypeOK, EventsTypeOK
  <2>2. InStream(w) \/ Reported(w)
    BY DEF CInv, OwnsUp
  <2> QED BY <2>1, <2>2 DEF InStream, Reported
<1> QED BY <1>1, ConversationInvariance, PTL

=============================================================================
