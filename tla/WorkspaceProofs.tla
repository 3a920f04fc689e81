----------------------------- MODULE WorkspaceProofs -----------------------------
(***************************************************************************)
(* Theorems about Workspace, for all texts and line numbers, every limit   *)
(* on the size of a file and any number of calls.                          *)
(***************************************************************************)
EXTENDS Workspace, Induction, SequenceTheorems, FiniteSetTheorems, TLAPS

-----------------------------------------------------------------------------
(***************************************************************************)
(* The line arithmetic of file_edit.                                       *)
(***************************************************************************)
\* The empty text is a text, and lines can be taken from it.
LEMMA EmptyText == Empty \in Text /\ Empty # Absent /\ Len(Empty) = 1
<1>1. PICK x \in Lines : x = ""
  BY LinesAssumption
<1>2. <<x>> \in Seq(Lines) /\ <<x>> # <<>> /\ Len(<<x>>) = 1
  OBVIOUS
<1> QED BY <1>1, <1>2 DEF Empty, Text, Absent

\* Without its last line a text has one line less, and putting that line back
\* gives the text.
LEMMA FrontOfText ==
  ASSUME NEW s \in Text
  PROVE  /\ Front(s) \in Seq(Lines) /\ Len(Front(s)) = Len(s) - 1
         /\ Last(s) \in Lines
         /\ Append(Front(s), Last(s)) = s
<1>1. s \in Seq(Lines) /\ s # <<>> /\ Len(s) \in Nat \ {0}
  BY EmptySeq DEF Text
<1>2. /\ Front(s) \in Seq(Lines)
      /\ Len(Front(s)) = Len(s) - 1
      /\ \A i \in 1..Len(s) - 1 : Front(s)[i] = s[i]
  <2>1. PICK n \in Nat : n = Len(s) - 1
    BY <1>1
  <2>2. /\ SubSeq(s, 1, n) \in Seq(Lines) /\ Len(SubSeq(s, 1, n)) = n
        /\ \A i \in 1..n : SubSeq(s, 1, n)[i] = s[i]
    BY <1>1, <2>1
  <2> QED BY <2>1, <2>2 DEF Front
<1>3. Last(s) \in Lines
  BY <1>1 DEF Last
<1>4. /\ Append(Front(s), Last(s)) \in Seq(Lines)
      /\ Len(Append(Front(s), Last(s))) = Len(s)
      /\ \A i \in 1..Len(s) : Append(Front(s), Last(s))[i] = s[i]
  BY <1>1, <1>2, <1>3, AppendProperties DEF Last
<1>5. Append(Front(s), Last(s)) = s
  BY <1>1, <1>4, SeqEqual
<1> QED BY <1>2, <1>3, <1>5

\* A line that is appended is the last one.
LEMMA AppendedLine ==
  ASSUME NEW s \in Seq(Lines), NEW x \in Lines
  PROVE  /\ Append(s, x) \in Text /\ Len(Append(s, x)) = Len(s) + 1
         /\ Front(Append(s, x)) = s /\ Last(Append(s, x)) = x
<1>1. /\ Append(s, x) \in Text /\ Len(Append(s, x)) = Len(s) + 1
      /\ Last(Append(s, x)) = x
  BY AppendProperties DEF Text, Last
<1>2. Append(Front(Append(s, x)), x) = Append(s, x) /\ Front(Append(s, x)) \in Seq(Lines)
  BY <1>1, FrontOfText
<1>3. Front(Append(s, x)) = s
  BY <1>2, AppendInjective
<1> QED BY <1>1, <1>3

\* The lines that file_edit counts.
LEMMA ContentLines ==
  ASSUME NEW text \in Text
  PROVE  /\ content_lines(text) \in Seq(Lines) /\ Len(content_lines(text)) > 0
         /\ ended_with_newline(text) => Append(content_lines(text), "") = text
         /\ ~ended_with_newline(text) => content_lines(text) = text
<1>1. text \in Seq(Lines) /\ Len(text) \in Nat \ {0}
  BY EmptySeq DEF Text
<1>2. CASE ended_with_newline(text)
  <2>0. Len(text) > 1
    BY <1>2 DEF ended_with_newline
  <2>1. content_lines(text) = Front(text) /\ Last(text) = ""
    BY <1>2 DEF content_lines, ended_with_newline
  <2>2. /\ Front(text) \in Seq(Lines) /\ Len(Front(text)) = Len(text) - 1
        /\ Append(Front(text), Last(text)) = text
    BY FrontOfText
  <2>3. Len(Front(text)) > 0
    BY <1>1, <2>0, <2>2
  <2> QED BY <1>2, <2>1, <2>2, <2>3
<1>3. CASE ~ended_with_newline(text)
  <2>1. content_lines(text) = text
    BY <1>3 DEF content_lines
  <2>2. Len(text) > 0
    BY <1>1
  <2> QED BY <1>1, <1>3, <2>1, <2>2, Zenon
<1> QED BY <1>2, <1>3

\* The lines that an edit asks for: those before the range, the new ones, those
\* after it.
Wanted(text, start, end, new) ==
  LET lines == content_lines(text)
  IN  SubSeq(lines, 1, start - 1) \o new_lines_split(new)
        \o SubSeq(lines, end + 1, Len(lines))

\* file_edit puts together the lines that were asked for, also for an append and
\* for a range that reaches past the end.
LEMMA EditedLines ==
  ASSUME NEW text \in Text, NEW new \in Text, NEW start \in Int, NEW end \in Int,
         ~InvalidRange(start, end), ~PastEOF(text, start)
  PROVE  /\ edited(text, start, end, new) = Wanted(text, start, end, new)
         /\ edited(text, start, end, new) \in Seq(Lines)
<1> DEFINE lines == content_lines(text)
           added == new_lines_split(new)
           clamp == IF end < Len(lines) THEN end ELSE Len(lines)
<1>1. /\ lines \in Seq(Lines) /\ Len(lines) \in Nat
      /\ 1 <= start /\ start <= end /\ start <= Len(lines) + 1
  <2>1. lines \in Seq(Lines)
    BY ContentLines
  <2>2. Len(lines) \in Nat
    BY <2>1
  <2> HIDE DEF lines
  <2>3. 1 <= start /\ start <= end /\ start <= Len(lines) + 1
    BY <2>2 DEF InvalidRange, PastEOF, lines
  <2> QED BY <2>1, <2>2, <2>3
<1>2. added \in Seq(Lines)
  BY DEF new_lines_split, Text
<1> HIDE DEF lines, added, clamp
<1>3. CASE start > Len(lines)
  <2>1. SubSeq(lines, 1, start - 1) = lines
    <3>1. start - 1 = Len(lines)
      BY <1>1, <1>3
    <3> QED BY <1>1, <3>1, SubSeqFull
  <2>2. SubSeq(lines, end + 1, Len(lines)) = <<>>
    BY <1>1, <1>3, SubSeqEmpty
  <2>3. lines \o added \in Seq(Lines) /\ (lines \o added) \o <<>> = lines \o added
    BY <1>1, <1>2, ConcatProperties, ConcatEmptySeq
  <2> QED BY <1>3, <2>1, <2>2, <2>3 DEF edited, Wanted, lines, added
<1>4. CASE start <= Len(lines)
  <2>1. SubSeq(lines, clamp + 1, Len(lines)) = SubSeq(lines, end + 1, Len(lines))
    <3>1. CASE end < Len(lines)
      <4>1. clamp = end
        BY <3>1 DEF clamp
      <4> QED BY <4>1
    <3>2. CASE end >= Len(lines)
      <4>1. clamp = Len(lines)
        BY <1>1, <3>2 DEF clamp
      <4>2. SubSeq(lines, Len(lines) + 1, Len(lines)) = <<>>
        BY <1>1, SubSeqEmpty
      <4>3. SubSeq(lines, end + 1, Len(lines)) = <<>>
        BY <1>1, <3>2, SubSeqEmpty
      <4>4. SubSeq(lines, clamp + 1, Len(lines)) = <<>>
        BY <4>1, <4>2, Zenon
      <4> QED BY <4>3, <4>4, Zenon
    <3>3. end < Len(lines) \/ end >= Len(lines)
      BY <1>1
    <3> QED BY <3>1, <3>2, <3>3, Zenon
  <2>2. /\ SubSeq(lines, 1, start - 1) \in Seq(Lines)
        /\ SubSeq(lines, end + 1, Len(lines)) \in Seq(Lines)
    BY <1>1, <1>4
  <2>3. SubSeq(lines, 1, start - 1) \o added \o SubSeq(lines, end + 1, Len(lines))
          \in Seq(Lines)
    BY <1>2, <2>2, ConcatProperties
  <2>4. edited(text, start, end, new) =
          SubSeq(lines, 1, start - 1) \o added \o SubSeq(lines, clamp + 1, Len(lines))
    <3>1. ~(start > Len(lines))
      BY <1>1, <1>4
    <3> QED BY <3>1, Zenon DEF edited, lines, added, clamp
  <2> QED BY <2>1, <2>3, <2>4 DEF Wanted, lines, added
<1> QED BY <1>1, <1>3, <1>4

\* The text after an edit: the lines that were asked for, except that a final
\* blank line may become the newline at the end of the file and that nothing
\* becomes one blank line; a newline at the end of the file stays.
LEMMA EditKeepsLines ==
  ASSUME NEW text \in Text, NEW new \in Text, NEW start \in Int, NEW end \in Int,
         ~InvalidRange(start, end), ~PastEOF(text, start)
  PROVE  LET result == file_edit(text, start, end, new)
             lines  == content_lines(result)
             wanted == Wanted(text, start, end, new)
         IN  /\ result \in Text
             /\ \/ lines = wanted
                \/ lines = <<"">> /\ wanted = <<>>
                \/ Append(lines, "") = wanted
             /\ ended_with_newline(text) => ended_with_newline(result)
<1> DEFINE wanted == Wanted(text, start, end, new)
           joined == Join(wanted)
           result == file_edit(text, start, end, new)
           lines  == content_lines(result)
<1>1. wanted \in Seq(Lines) /\ edited(text, start, end, new) = wanted
  BY EditedLines
<1>2. result = IF ended_with_newline(text) /\ ~ended_with_newline(joined)
               THEN Append(joined, "") ELSE joined
  BY <1>1 DEF file_edit
<1> HIDE DEF wanted, result
<1>3. joined \in Text /\ (joined = wanted \/ (joined = <<"">> /\ wanted = <<>>))
  BY <1>1, EmptyText DEF Join, Text, Empty
<1> HIDE DEF joined
<1>4. CASE ended_with_newline(text) /\ ~ended_with_newline(joined)
  <2>0. result = Append(joined, "")
    BY <1>2, <1>4
  <2>1. joined \in Seq(Lines) /\ Len(joined) \in Nat \ {0}
    BY <1>3, EmptySeq DEF Text
  <2>2. result \in Text /\ Len(result) > 1 /\ Last(result) = "" /\ Front(result) = joined
    <3>1. PICK x \in Lines : x = ""
      BY LinesAssumption
    <3>2. /\ Append(joined, x) \in Text /\ Len(Append(joined, x)) = Len(joined) + 1
          /\ Last(Append(joined, x)) = x /\ Front(Append(joined, x)) = joined
      BY <2>1, AppendedLine
    <3>3. Len(joined) + 1 > 1
      BY <2>1
    <3> QED BY <2>0, <3>1, <3>2, <3>3
  <2>3. ended_with_newline(result) /\ lines = joined
    BY <2>2 DEF ended_with_newline, content_lines
  <2> QED BY <1>3, <2>2, <2>3 DEF result, wanted
<1>5. CASE ~(ended_with_newline(text) /\ ~ended_with_newline(joined))
  <2>1. result = joined
    BY <1>2, <1>5
  <2>2. CASE ended_with_newline(joined)
    <3>1. Append(lines, "") = joined
      BY <1>3, <2>1, <2>2, ContentLines
    <3>2. joined # <<"">>
      <4>1. Len(joined) > 1
        BY <2>2 DEF ended_with_newline
      <4>2. joined # Empty
        <5>1. Len(Empty) = 1 /\ ~(1 > 1)
          BY EmptyText
        <5> QED BY <4>1, <5>1, Zenon
      <4> QED BY <4>2 DEF Empty
    <3> QED BY <1>3, <2>1, <2>2, <3>1, <3>2 DEF result, wanted
  <2>3. CASE ~ended_with_newline(joined)
    <3>1. lines = joined
      BY <1>3, <2>1, <2>3, ContentLines
    <3> QED BY <1>3, <1>5, <2>1, <2>3, <3>1 DEF result, wanted
  <2> QED BY <2>2, <2>3
<1> QED BY <1>4, <1>5

-----------------------------------------------------------------------------
(***************************************************************************)
(* The inductive invariant: what each point of a tool knows of the file,   *)
(* unless another process has changed it during the call.                  *)
(***************************************************************************)
Files == Text \cup {Absent}

Operations == {"none", "create", "edit"}

Locals == [start : Int, end : Int, new : Text, original : Files, encoded : Files,
           size_before : Int, operation : Operations]

Typed == local \in Locals /\ mutation \in [operation : Operations, after : Files]

SizeOf(text) == IF text = Absent THEN 0 ELSE Size(text)

\* file_write on its way to the write.
Found ==
  /\ pc \in {"exists", "stat", "operation"} => local.original = Absent /\ local.encoded \in Text
  /\ pc \in {"exists", "stat"} => local.size_before = 0
  /\ ~raced /\ pc = "stat" => file # Absent
  /\ ~raced /\ pc = "operation" => local.size_before = SizeOf(file)

\* file_edit on its way to the write.
Asked == pc \in {"editExists", "editRead"} => ~InvalidRange(local.start, local.end)

\* What the event is going to tell of old, the file before the write.
Tells(old) ==
  /\ local.operation = "create" <=> old = Absent
  /\ local.size_before = SizeOf(old)
  /\ local.original # Absent => local.original = old

\* The text to write was computed from the text that was read.
Computed ==
  local.original # Absent =>
    /\ ~InvalidRange(local.start, local.end)
    /\ ~PastEOF(local.original, local.start)
    /\ local.encoded = file_edit(local.original, local.start, local.end, local.new)

Writing ==
  /\ pc \in {"write", "writing", "mutation"} => local.encoded \in Text
  /\ pc = "write" => Computed /\ (~raced => Tells(file))
  /\ pc \in {"writing", "mutation"} => (~raced => Tells(was))
  /\ pc = "mutation" => (~unrecorded => file = local.encoded)

WInv == TypeOK /\ Typed /\ Found /\ Asked /\ Writing /\ MutationsAccount

-----------------------------------------------------------------------------
\* A text has a size.
LEMMA SizeTyped ==
  ASSUME NEW text \in Text
  PROVE  Size(text) \in Int
<1> DEFINE written == {i \in DOMAIN text : text[i] # ""}
<1>1. Len(text) \in Nat /\ DOMAIN text = 1..Len(text)
  BY LenProperties DEF Text
<1>2. IsFiniteSet(1..Len(text))
  BY <1>1, FS_Interval
<1>3. written \subseteq 1..Len(text)
  BY <1>1
<1>4. Cardinality(written) \in Nat
  BY <1>2, <1>3, FS_Subset, FS_CardinalityType
<1>5. Size(text) = Len(text) - 1 + Cardinality(written)
  BY Zenon DEF Size
<1> HIDE DEF written
<1> QED BY <1>1, <1>4, <1>5

\* The locals of a tool that has not started.
LEMMA NoLocalsTyped == NoLocals \in Locals
<1>1. Empty \in Text /\ Absent \in Files
  BY EmptyText DEF Files
<1> QED BY <1>1 DEF NoLocals, Locals, Operations

\* The invariant holds at the start.
LEMMA InitWInv == Init => WInv
<1> SUFFICES ASSUME Init PROVE WInv
  OBVIOUS
<1>1. TypeOK
  <2>1. /\ shell \in BOOLEAN /\ piped \in BOOLEAN /\ detached \in BOOLEAN
        /\ raced \in BOOLEAN /\ unrecorded \in BOOLEAN /\ failed \in BOOLEAN /\ ~shell
    BY DEF Init
  <2>2. /\ file \in Text \cup {Absent} /\ pc = "idle" /\ calls \in 0..MaxCalls
        /\ mutation.operation = "none"
    BY WorkspaceAssumption DEF Init
  <2> QED BY <2>1, <2>2 DEF TypeOK
<1>2. Typed
  BY NoLocalsTyped DEF Init, Typed, Files, Operations
<1>3. Found /\ Asked /\ Writing
  BY DEF Init, Found, Asked, Writing
<1>4. MutationsAccount
  BY DEF Init, MutationsAccount
<1> QED BY <1>1, <1>2, <1>3, <1>4 DEF WInv

\* A tool is called with arguments l.
LEMMA CallStep ==
  ASSUME WInv, NEW next, NEW l, Call(next, l), l \in Locals,
         \/ /\ next = "exists" /\ l.original = Absent /\ l.encoded \in Text
            /\ l.size_before = 0
         \/ next = "editExists" /\ ~InvalidRange(l.start, l.end)
         \/ next \in {"read", "bash"},
         \/ UNCHANGED processVars
         \/ next = "bash" /\ shell' = TRUE /\ UNCHANGED <<piped, detached>>
  PROVE  WInv'
<1>1. /\ pc' = next /\ local' = l /\ raced' = FALSE /\ calls' = calls + 1
      /\ UNCHANGED <<file, mutation, was, unrecorded, failed>> /\ pc = "idle" /\ calls < MaxCalls
  BY DEF Call
<1>2. TypeOK'
  <2>1. file' \in Files /\ calls' \in 0..MaxCalls /\ mutation'.operation \in Operations
    BY <1>1, WorkspaceAssumption DEF WInv, TypeOK, Files, Operations
  <2>2. /\ shell' \in BOOLEAN /\ piped' \in BOOLEAN /\ detached' \in BOOLEAN
        /\ raced' \in BOOLEAN /\ unrecorded' \in BOOLEAN /\ failed' \in BOOLEAN
        /\ shell' => pc' = "bash"
    <3>1. /\ shell = FALSE /\ piped \in BOOLEAN /\ detached \in BOOLEAN
          /\ unrecorded \in BOOLEAN /\ failed \in BOOLEAN
      <4>1. pc # "bash"
        BY <1>1
      <4> QED BY <4>1, Zenon DEF WInv, TypeOK
    <3>2. /\ piped' = piped /\ detached' = detached /\ unrecorded' = unrecorded
          /\ failed' = failed
      BY <1>1 DEF processVars
    <3>3. CASE UNCHANGED processVars
      <4>1. shell' = shell
        BY <3>3 DEF processVars
      <4> QED BY <1>1, <3>1, <3>2, <4>1, Zenon
    <3>4. CASE next = "bash" /\ shell' = TRUE
      BY <1>1, <3>1, <3>2, <3>4, Zenon
    <3> QED BY <3>3, <3>4
  <2>3. pc' \in {"exists", "editExists", "read", "bash"}
    BY <1>1
  <2> QED BY <2>1, <2>2, <2>3 DEF TypeOK, Files, Operations
<1>3. Typed'
  BY <1>1 DEF WInv, Typed
<1>4. Found' /\ Asked' /\ Writing'
  BY <1>1 DEF Found, Asked, Writing
<1>5. MutationsAccount'
  BY <1>1 DEF WInv, MutationsAccount
<1> QED BY <1>2, <1>3, <1>4, <1>5 DEF WInv

\* A tool goes on with the locals l, or returns.
LEMMA ProceedStep ==
  ASSUME WInv, NEW next, NEW l, Proceed(next, l), l \in Locals, ~shell, pc \notin {"writing", "mutation"},
         \/ next \in {"idle", "readStat", "readText"}
         \/ /\ next \in {"stat", "operation"} /\ l.original = Absent /\ l.encoded \in Text
            /\ next = "stat" => l.size_before = 0 /\ (~raced => file # Absent)
            /\ next = "operation" => (~raced => l.size_before = SizeOf(file))
         \/ next = "editRead" /\ ~InvalidRange(l.start, l.end)
         \/ /\ next = "write" /\ l.encoded \in Text
            /\ ~raced => /\ l.size_before = SizeOf(file)
                         /\ l.operation = "create" <=> file = Absent
            /\ l.original # Absent =>
                 /\ l.original = file
                 /\ ~InvalidRange(l.start, l.end) /\ ~PastEOF(l.original, l.start)
                 /\ l.encoded = file_edit(l.original, l.start, l.end, l.new)
  PROVE  WInv'
<1>1. /\ pc' = next /\ local' = l
      /\ UNCHANGED <<file, mutation, was, unrecorded, failed, raced, calls>>
      /\ UNCHANGED <<shell, piped, detached>>
  BY DEF Proceed, processVars, history
<1>2. TypeOK'
  <2>1. file' \in Files /\ calls' \in 0..MaxCalls /\ mutation'.operation \in Operations
    BY <1>1 DEF WInv, TypeOK, Files, Operations
  <2>2. /\ shell' \in BOOLEAN /\ piped' \in BOOLEAN /\ detached' \in BOOLEAN
        /\ raced' \in BOOLEAN /\ unrecorded' \in BOOLEAN /\ failed' \in BOOLEAN /\ ~shell'
    BY <1>1 DEF WInv, TypeOK
  <2>3. pc' \in {"idle", "stat", "operation", "editRead", "write", "readStat", "readText"}
    BY <1>1
  <2> QED BY <2>1, <2>2, <2>3 DEF TypeOK, Files, Operations
<1>3. Typed'
  BY <1>1 DEF WInv, Typed
<1>4. Found' /\ Asked'
  BY <1>1 DEF Found, Asked
<1>5. Writing'
  BY <1>1 DEF Writing, Computed, Tells
<1>6. MutationsAccount'
  BY <1>1 DEF WInv, MutationsAccount
<1> QED BY <1>2, <1>3, <1>4, <1>5, <1>6 DEF WInv

\* The tools that are called.
LEMMA ToolCalled ==
  ASSUME WInv,
         \/ \E new \in Contents : FileWrite(new)
         \/ \E start, end \in 1..MaxLine, new \in Contents : FileEdit(start, end, new)
         \/ \E start, end \in 0..MaxLine : FileRead(start, end)
         \/ Bash
  PROVE  WInv'
<1>0. NoLocals.original = Absent /\ NoLocals.size_before = 0
  BY DEF NoLocals
<1> HIDE DEF NoLocals
<1>1. ASSUME NEW new \in Contents, FileWrite(new)
      PROVE  WInv'
  <2>1. PICK l : l = [NoLocals EXCEPT !.encoded = new]
    OBVIOUS
  <2>2. new \in Text
    BY WorkspaceAssumption
  <2>3. /\ l \in Locals /\ l.original = Absent /\ l.encoded \in Text
        /\ l.size_before = 0
    BY <1>0, <2>1, <2>2, NoLocalsTyped DEF Locals, Files
  <2>4. Call("exists", l) /\ UNCHANGED processVars
    BY <1>1, <2>1, Zenon DEF FileWrite
  <2> QED BY <2>3, <2>4, CallStep
<1>2. ASSUME NEW start \in 1..MaxLine, NEW end \in 1..MaxLine, NEW new \in Contents,
             FileEdit(start, end, new)
      PROVE  WInv'
  <2>1. PICK l : l = [NoLocals EXCEPT !.start = start, !.end = end, !.new = new]
    OBVIOUS
  <2>2. new \in Text /\ start \in Int /\ end \in Int
    BY WorkspaceAssumption
  <2>3. l \in Locals /\ l.start = start /\ l.end = end
    BY <2>1, <2>2, NoLocalsTyped DEF Locals
  <2>4. Call("editExists", l) /\ UNCHANGED processVars /\ ~InvalidRange(start, end)
    BY <1>2, <2>1, Zenon DEF FileEdit
  <2> QED BY <2>3, <2>4, CallStep
<1>3. ASSUME NEW start \in 0..MaxLine, NEW end \in 0..MaxLine, FileRead(start, end)
      PROVE  WInv'
  <2>1. PICK l : l = [NoLocals EXCEPT !.start = start, !.end = end]
    OBVIOUS
  <2>0. start \in Int /\ end \in Int
    BY WorkspaceAssumption
  <2>2. l \in Locals
    BY <2>0, <2>1, NoLocalsTyped DEF Locals
  <2>3. Call("read", l) /\ UNCHANGED processVars
    BY <1>3, <2>1, Zenon DEF FileRead
  <2> QED BY <2>2, <2>3, CallStep
<1>4. CASE Bash
  BY <1>4, NoLocalsTyped, CallStep DEF Bash
<1> QED BY <1>1, <1>2, <1>3, <1>4

\* The steps of a tool that change nothing but its locals.
LEMMA ToolProceeds ==
  ASSUME WInv,
         \/ WriteFindsFile \/ WriteStats \/ WriteOperation \/ OpenFails
         \/ EditFindsFile \/ EditReads \/ ReadFindsFile \/ ReadStats \/ BashReturns
  PROVE  WInv'
<1>1. ASSUME Return, ~shell, pc \notin {"writing", "mutation"}
      PROVE  WInv'
  BY <1>1, NoLocalsTyped, ProceedStep DEF Return
<1>2. pc # "bash" => ~shell
  BY Zenon DEF WInv, TypeOK
<1>3. local \in Locals
  BY DEF WInv, Typed
<1>4. CASE WriteFindsFile
  <2>1. /\ pc = "exists"
        /\ Proceed(IF file # Absent THEN "stat" ELSE "operation", local)
    BY <1>4 DEF WriteFindsFile
  <2>2. local.original = Absent /\ local.encoded \in Text /\ local.size_before = 0
    BY <2>1 DEF WInv, Found
  <2>3. ~shell
    BY <1>2, <2>1
  <2>4. CASE file # Absent
    <3>1. Proceed("stat", local)
      BY <2>1, <2>4
    <3> QED BY <1>3, <2>1, <2>2, <2>3, <2>4, <3>1, ProceedStep
  <2>5. CASE file = Absent
    <3>1. Proceed("operation", local) /\ SizeOf(file) = 0
      BY <2>1, <2>5 DEF SizeOf
    <3> QED BY <1>3, <2>1, <2>2, <2>3, <3>1, ProceedStep
  <2> QED BY <2>4, <2>5
<1>5. CASE WriteStats
  <2>1. pc = "stat" /\ ~shell /\ local.original = Absent /\ local.encoded \in Text
    BY <1>2, <1>5 DEF WriteStats, WInv, Found
  <2>2. CASE file # Absent
    <3>1. Proceed("operation", [local EXCEPT !.size_before = Size(file)])
      BY <1>5, <2>2 DEF WriteStats
    <3>2. PICK n : n = Size(file)
      OBVIOUS
    <3>3. n \in Int /\ n = SizeOf(file)
      BY <2>2, <3>2, SizeTyped DEF WInv, TypeOK, SizeOf
    <3>4. PICK l : l = [local EXCEPT !.size_before = n]
      OBVIOUS
    <3>5. /\ l \in Locals /\ l.size_before = n /\ l.original = Absent
          /\ l.encoded \in Text
      BY <1>3, <2>1, <3>3, <3>4 DEF Locals
    <3>6. Proceed("operation", l)
      BY <3>1, <3>2, <3>4, Zenon
    <3> QED BY <2>1, <3>3, <3>5, <3>6, ProceedStep
  <2>3. CASE file = Absent
    BY <1>1, <1>5, <2>1, <2>3 DEF WriteStats
  <2> QED BY <2>2, <2>3
<1>6. CASE WriteOperation
  <2>1. /\ pc = "operation" /\ ~shell /\ local.original = Absent
        /\ local.encoded \in Text /\ (~raced => local.size_before = SizeOf(file))
    BY <1>2, <1>6 DEF WriteOperation, WInv, Found
  <2>2. PICK op : op = IF file # Absent THEN "edit" ELSE "create"
    OBVIOUS
  <2>3. op \in Operations /\ (op = "create" <=> file = Absent)
    BY <2>2 DEF Operations
  <2>4. PICK l : l = [local EXCEPT !.operation = op]
    OBVIOUS
  <2>5. /\ l \in Locals /\ l.operation = op /\ l.original = Absent
        /\ l.encoded \in Text /\ l.size_before = local.size_before
    BY <1>3, <2>1, <2>3, <2>4 DEF Locals
  <2>6. Proceed("write", l)
    BY <1>6, <2>2, <2>4, Zenon DEF WriteOperation
  <2> QED BY <2>1, <2>3, <2>5, <2>6, ProceedStep
<1>7. CASE EditFindsFile
  <2>1. pc = "editExists" /\ ~shell /\ ~InvalidRange(local.start, local.end)
    BY <1>2, <1>7 DEF EditFindsFile, WInv, Asked
  <2>2. CASE file # Absent
    <3>1. Proceed("editRead", local)
      BY <1>7, <2>2 DEF EditFindsFile
    <3> QED BY <1>3, <2>1, <3>1, ProceedStep
  <2>3. CASE file = Absent
    BY <1>1, <1>7, <2>1, <2>3 DEF EditFindsFile
  <2> QED BY <2>2, <2>3
<1>8. CASE EditReads
  <2>1. pc = "editRead" /\ ~shell /\ ~InvalidRange(local.start, local.end)
    BY <1>2, <1>8 DEF EditReads, WInv, Asked
  <2>2. CASE file = Absent \/ ~Decodable(file) \/ PastEOF(file, local.start)
    BY <1>1, <1>8, <2>1, <2>2 DEF EditReads
  <2>3. CASE ~(file = Absent \/ ~Decodable(file) \/ PastEOF(file, local.start))
    <3>1. PICK n : n = Size(file)
      OBVIOUS
    <3>2. PICK new : new = file_edit(file, local.start, local.end, local.new)
      OBVIOUS
    <3>3. /\ file \in Text /\ local.start \in Int /\ local.end \in Int
          /\ local.new \in Text
      BY <1>3, <2>3 DEF WInv, TypeOK, Locals
    <3>4. n \in Int /\ n = SizeOf(file) /\ new \in Text
      <4>1. n \in Int /\ n = SizeOf(file)
        BY <2>3, <3>1, <3>3, SizeTyped DEF SizeOf
      <4>2. new \in Text
        BY <2>1, <2>3, <3>2, <3>3, EditKeepsLines
      <4> QED BY <4>1, <4>2
    <3>5. PICK l : l = [local EXCEPT !.original = file, !.size_before = n,
                                     !.operation = "edit", !.encoded = new]
      OBVIOUS
    <3>6. /\ l \in Locals /\ l.original = file /\ l.size_before = n
          /\ l.operation = "edit" /\ l.encoded = new /\ l.start = local.start
          /\ l.end = local.end /\ l.new = local.new
      BY <1>3, <3>3, <3>4, <3>5 DEF Locals, Files, Operations
    <3>7. Proceed("write", l)
      BY <1>8, <2>3, <3>1, <3>2, <3>5, Zenon DEF EditReads
    <3>8. l.operation = "create" <=> file = Absent
      BY <2>3, <3>6
    <3>9. /\ l.encoded \in Text /\ l.size_before = SizeOf(file) /\ l.original = file
          /\ ~InvalidRange(l.start, l.end) /\ ~PastEOF(l.original, l.start)
          /\ l.encoded = file_edit(l.original, l.start, l.end, l.new)
      BY <2>1, <2>3, <3>2, <3>4, <3>6
    <3> QED BY <2>1, <3>6, <3>7, <3>8, <3>9, ProceedStep
  <2> QED BY <2>2, <2>3
<1>9. CASE BashReturns
  BY <1>1, <1>9 DEF BashReturns
<1>10. CASE OpenFails
  BY <1>1, <1>2, <1>10 DEF OpenFails
<1>11. CASE ReadFindsFile \/ ReadStats
  <2>1. pc \in {"read", "readStat"} /\ ~shell
    BY <1>2, <1>11 DEF ReadFindsFile, ReadStats
  <2>2. Return \/ Proceed("readStat", local) \/ Proceed("readText", local)
    BY <1>11, Zenon DEF ReadFindsFile, ReadStats
  <2>3. CASE Return
    BY <1>1, <2>1, <2>3
  <2>4. ASSUME NEW next \in {"readStat", "readText"}, Proceed(next, local)
        PROVE  WInv'
    BY <1>3, <2>1, <2>4, ProceedStep
  <2> QED BY <2>2, <2>3, <2>4
<1> QED BY <1>4, <1>5, <1>6, <1>7, <1>8, <1>9, <1>10, <1>11

\* A text that is written over another one, or torn, is a text.
LEMMA LandedText ==
  ASSUME WInv, NEW part \in Text, NEW text \in Landed(part)
  PROVE  text \in Files
<1>1. file \in Files
  BY DEF WInv, TypeOK, Files
<1>2. part \in Files
  BY DEF Files
<1>3. CASE text = file \/ text = part
  BY <1>1, <1>2, <1>3
<1>4. ASSUME file # Absent, NEW line \in Lines, NEW k \in 2..Len(file) + 1,
             text = Front(part) \o <<line>> \o SubSeq(file, k, Len(file))
      PROVE  text \in Files
  <2>1. file \in Seq(Lines) /\ Len(file) \in Nat
    BY <1>1, <1>4 DEF Files, Text
  <2>2. PICK a \in Seq(Lines) : a = Front(part)
    BY FrontOfText
  <2>3. PICK b \in Seq(Lines) : b = SubSeq(file, k, Len(file))
    <3>1. PICK n \in Nat : n = Len(file)
      BY <2>1
    <3>2. k \in 1..n + 1
      BY <1>4, <3>1
    <3>3. SubSeq(file, k, n) \in Seq(Lines)
      BY <2>1, <3>1, <3>2, SubSeqProperties
    <3> QED BY <3>1, <3>3
  <2>4. /\ a \o <<line>> \o b \in Seq(Lines)
        /\ Len(a \o <<line>> \o b) = Len(a) + 1 + Len(b)
    BY <1>4
  <2>5. Len(a) \in Nat /\ Len(b) \in Nat
    BY <2>2, <2>3
  <2>6. text \in Seq(Lines) /\ Len(text) # 0
    <3>1. text = a \o <<line>> \o b
      BY <1>4, <2>2, <2>3, Zenon
    <3>2. Len(a) + 1 + Len(b) # 0
      BY <2>5
    <3> QED BY <2>4, <3>1, <3>2, Zenon
  <2>7. text # <<>>
    BY <2>6, EmptySeq
  <2> QED BY <2>6, <2>7 DEF Files, Text
<1>5. \/ text = file \/ text = part
      \/ /\ file # Absent
         /\ \E line \in Lines, k \in 2..Len(file) + 1 :
              text = Front(part) \o <<line>> \o SubSeq(file, k, Len(file))
  <2>1. \/ text = file
        \/ text = part
        \/ file # Absent /\ text \in Over(part, file)
    BY Zenon DEF Landed
  <2>2. ASSUME text \in Over(part, file)
        PROVE  \/ text = part
               \/ \E line \in Lines, k \in 2..Len(file) + 1 :
                    text = Front(part) \o <<line>> \o SubSeq(file, k, Len(file))
    BY <2>2, Zenon DEF Over
  <2> QED BY <2>1, <2>2, Zenon
<1> QED BY <1>3, <1>4, <1>5, Zenon

\* A beginning of a text is a text.
LEMMA TornText ==
  ASSUME NEW text \in Text, NEW part \in Torn(text)
  PROVE  part \in Text
<1>1. PICK k \in DOMAIN text, line \in Lines : part = Append(SubSeq(text, 1, k - 1), line)
  BY Zenon DEF Torn
<1>2. text \in Seq(Lines) /\ k \in 1..Len(text) /\ Len(text) \in Nat
  BY LenProperties DEF Text
<1>3. SubSeq(text, 1, k - 1) \in Seq(Lines)
  BY <1>2
<1> QED BY <1>1, <1>3, AppendedLine

\* A write: open truncates the old file, which the event is going to tell of, and
\* then the file holds what the tool meant to write, unless a process got there.
LEMMA FileWritten ==
  ASSUME WInv, Truncate \/ WriteBytes
  PROVE  WInv'
<1>1. /\ pc \in {"write", "writing"} /\ pc' \in {"writing", "mutation"}
      /\ UNCHANGED <<calls, local, mutation, raced, shell, piped, detached>>
  BY DEF Truncate, WriteBytes, processVars, history
<1>2. local.encoded \in Text
  BY <1>1 DEF WInv, Writing
<1>3. file' \in Files /\ (~raced => Tells(was'))
  <2>1. CASE Truncate
    <3>1. pc = "write" /\ file' = Empty /\ was' = file
      BY <2>1 DEF Truncate
    <3>2. ~raced => Tells(file)
      BY <3>1 DEF WInv, Writing
    <3> QED BY <3>1, <3>2, EmptyText DEF Files
  <2>2. CASE WriteBytes
    <3>1. pc = "writing" /\ file' \in Landed(local.encoded) /\ was' = was
      BY <2>2 DEF WriteBytes, history
    <3>2. ~raced => Tells(was)
      BY <3>1 DEF WInv, Writing
    <3>3. file' \in Files
      BY <1>2, <3>1, LandedText
    <3> QED BY <3>1, <3>2, <3>3
  <2> QED BY <2>1, <2>2
<1>4. /\ unrecorded' \in BOOLEAN /\ failed' \in BOOLEAN
      /\ pc' = "mutation" => (~unrecorded' => file' = local.encoded)
  <2>0. unrecorded \in BOOLEAN /\ failed \in BOOLEAN
    BY Zenon DEF WInv, TypeOK
  <2>1. CASE Truncate
    <3>1. unrecorded' = FALSE /\ failed' = FALSE /\ pc' = "writing"
      BY <2>1 DEF Truncate
    <3> QED BY <3>1
  <2>2. CASE WriteBytes
    <3>1. unrecorded' = unrecorded /\ failed' = failed /\ file' \in Landed(local.encoded)
      BY <2>2 DEF WriteBytes, history
    <3>2. ~unrecorded => file' = local.encoded
      BY <3>1, Zenon DEF Landed
    <3> QED BY <2>0, <3>1, <3>2, Zenon
  <2> QED BY <2>1, <2>2
<1>5. TypeOK'
  <2>1. calls' \in 0..MaxCalls /\ mutation'.operation \in Operations
    BY <1>1 DEF WInv, TypeOK, Operations
  <2>2. /\ shell' \in BOOLEAN /\ piped' \in BOOLEAN /\ detached' \in BOOLEAN
        /\ raced' \in BOOLEAN /\ ~shell'
    <3>1. pc # "bash"
      BY <1>1
    <3> QED BY <1>1, <3>1, Zenon DEF WInv, TypeOK
  <2> QED BY <1>1, <1>3, <1>4, <2>1, <2>2 DEF TypeOK, Files, Operations
<1>6. Typed' /\ Found' /\ Asked' /\ MutationsAccount'
  BY <1>1 DEF WInv, Typed, Found, Asked, MutationsAccount
<1>7. Writing'
  <2>1. ~raced' => Tells(was)'
    BY <1>1, <1>3 DEF Tells
  <2> QED BY <1>1, <1>2, <1>4, <2>1 DEF Writing
<1> QED BY <1>5, <1>6, <1>7 DEF WInv

\* A tool ends: by a write that fails, with its event or with the exception of
\* emit, with what was read, or at the timeout.
LEMMA ToolEnds ==
  ASSUME WInv, WriteFails \/ EmitMutation \/ EmitRaises \/ ReadText \/ BashTimeout
  PROVE  WInv'
<1>1. /\ pc' = "idle" /\ (local' = NoLocals \/ local' = local)
      /\ UNCHANGED <<calls, raced, piped, detached, unrecorded>>
  BY DEF WriteFails, EmitMutation, EmitRaises, Fails, ReadText, BashTimeout, processVars,
         history
<1>2. shell' = FALSE
  <2>1. CASE BashTimeout
    BY <2>1 DEF BashTimeout
  <2>2. CASE WriteFails \/ EmitMutation \/ EmitRaises \/ ReadText
    <3>1. shell' = shell /\ pc # "bash"
      BY <2>2 DEF WriteFails, EmitMutation, EmitRaises, Fails, ReadText, processVars
    <3> QED BY <3>1, Zenon DEF WInv, TypeOK
  <2> QED BY <2>1, <2>2
<1>3. /\ file' \in Files /\ failed' \in BOOLEAN
      /\ mutation' \in [operation : Operations, after : Files]
      /\ ~unrecorded => file' = mutation'.after \/ failed'
  <2>0. /\ file \in Files /\ failed \in BOOLEAN
        /\ mutation \in [operation : Operations, after : Files] /\ local \in Locals
    <3>1. failed \in BOOLEAN
      BY Zenon DEF WInv, TypeOK
    <3> QED BY <3>1 DEF WInv, TypeOK, Typed, Files
  <2>1. CASE WriteFails
    <3>1. /\ pc = "writing" /\ failed' = TRUE /\ mutation' = mutation
          /\ \E part \in Torn(local.encoded) : file' \in Landed(part)
      BY <2>1 DEF WriteFails, Fails
    <3>2. local.encoded \in Text
      BY <3>1 DEF WInv, Writing
    <3>3. PICK part \in Torn(local.encoded) : file' \in Landed(part)
      BY <3>1
    <3>4. part \in Text
      BY <3>2, TornText
    <3>5. file' \in Files
      BY <3>3, <3>4, LandedText
    <3> QED BY <2>0, <3>1, <3>5, Zenon
  <2>2. ASSUME mutation' = FileMutation
        PROVE  /\ mutation' \in [operation : Operations, after : Files]
               /\ mutation'.after = local.encoded
    <3>1. local.operation \in Operations /\ local.encoded \in Files
      BY <2>0 DEF Locals
    <3> QED BY <2>2, <3>1 DEF FileMutation
  <2>3. CASE EmitMutation
    <3>1. /\ pc = "mutation" /\ file' = file /\ failed' = failed
          /\ mutation' = FileMutation
      BY <2>3 DEF EmitMutation
    <3>2. ~unrecorded => file = local.encoded
      BY <3>1 DEF WInv, Writing
    <3> QED BY <2>0, <2>2, <3>1, <3>2, Zenon
  <2>4. CASE EmitRaises
    <3>1. /\ file' = file /\ failed' = TRUE
          /\ mutation' = mutation \/ mutation' = FileMutation
      BY <2>4 DEF EmitRaises, Fails
    <3> QED BY <2>0, <2>2, <3>1, Zenon
  <2>5. CASE ReadText \/ BashTimeout
    <3>1. /\ pc \notin {"writing", "mutation"} /\ file' = file /\ failed' = failed
          /\ mutation' = mutation
      BY <2>5 DEF ReadText, BashTimeout, history
    <3>2. ~unrecorded => file = mutation.after \/ failed
      BY <3>1 DEF WInv, MutationsAccount
    <3> QED BY <2>0, <3>1, <3>2, Zenon
  <2> QED BY <2>1, <2>3, <2>4, <2>5
<1>4. TypeOK'
  <2>1. calls' \in 0..MaxCalls /\ mutation'.operation \in Operations
    BY <1>1, <1>3 DEF WInv, TypeOK
  <2>2. /\ piped' \in BOOLEAN /\ detached' \in BOOLEAN /\ raced' \in BOOLEAN
        /\ unrecorded' \in BOOLEAN
    BY <1>1, Zenon DEF WInv, TypeOK
  <2> QED BY <1>1, <1>2, <1>3, <2>1, <2>2 DEF TypeOK, Files, Operations
<1>5. Typed'
  BY <1>1, <1>3, NoLocalsTyped DEF WInv, Typed
<1>6. Found' /\ Asked' /\ Writing'
  BY <1>1 DEF Found, Asked, Writing
<1>7. MutationsAccount'
  BY <1>1, <1>3, Zenon DEF MutationsAccount
<1> QED BY <1>4, <1>5, <1>6, <1>7 DEF WInv

\* The processes of bash: what they do to the file makes the call a raced one and
\* the file one that no event accounts for.
LEMMA ProcessStep ==
  ASSUME WInv,
         \/ ShellForks \/ ProcessExits
         \/ \E text \in ForeignFiles : ProcessWrites(text)
         \/ UNCHANGED vars
  PROVE  WInv'
<1>1. UNCHANGED <<pc, calls, local, mutation, was, failed>>
  BY DEF ShellForks, ProcessExits, ProcessWrites, vars, history
<1>2. /\ shell' \in BOOLEAN /\ piped' \in BOOLEAN /\ detached' \in BOOLEAN
      /\ shell' => pc' = "bash"
  <2>0. /\ shell \in BOOLEAN /\ piped \in BOOLEAN /\ detached \in BOOLEAN
        /\ shell => pc = "bash"
    BY Zenon DEF WInv, TypeOK
  <2>1. CASE ShellForks
    <3>1. /\ shell' = shell /\ (piped' = piped \/ piped' = TRUE)
          /\ detached' = detached \/ detached' = TRUE
      BY <2>1 DEF ShellForks
    <3> QED BY <1>1, <2>0, <3>1, Zenon
  <2>2. CASE ProcessExits
    <3>1. /\ shell' = shell \/ shell' = FALSE
          /\ piped' = piped \/ piped' = FALSE
          /\ detached' = detached \/ detached' = FALSE
      BY <2>2 DEF ProcessExits
    <3>2. shell' => shell
      BY <3>1, Zenon
    <3> QED BY <1>1, <2>0, <3>1, <3>2, Zenon
  <2>3. CASE (\E text \in ForeignFiles : ProcessWrites(text)) \/ UNCHANGED vars
    <3>1. shell' = shell /\ piped' = piped /\ detached' = detached
      BY <2>3 DEF ProcessWrites, vars, processVars
    <3> QED BY <1>1, <2>0, <3>1, Zenon
  <2> QED BY <2>1, <2>2, <2>3
<1>3. /\ file' \in Files /\ raced' \in BOOLEAN /\ unrecorded' \in BOOLEAN
      /\ \/ file' = file /\ raced' = raced /\ unrecorded' = unrecorded
         \/ raced' = TRUE /\ unrecorded' = TRUE
  <2>0. file \in Files /\ raced \in BOOLEAN /\ unrecorded \in BOOLEAN
    BY Zenon DEF WInv, TypeOK, Files
  <2>1. CASE ShellForks \/ ProcessExits \/ UNCHANGED vars
    <3>1. file' = file /\ raced' = raced /\ unrecorded' = unrecorded
      BY <2>1 DEF ShellForks, ProcessExits, vars, history
    <3> QED BY <2>0, <3>1, Zenon
  <2>2. ASSUME NEW text \in ForeignFiles, ProcessWrites(text)
        PROVE  file' \in Files /\ raced' = TRUE /\ unrecorded' = TRUE
    BY <2>2, WorkspaceAssumption DEF ProcessWrites, Files
  <2> QED BY <2>1, <2>2
<1>4. TypeOK'
  <2>1. /\ calls' \in 0..MaxCalls /\ mutation'.operation \in Operations
    BY <1>1 DEF WInv, TypeOK, Operations
  <2>2. pc' = pc /\ failed' = failed
    BY <1>1
  <2>3. failed' \in BOOLEAN
    BY <2>2, Zenon DEF WInv, TypeOK
  <2> QED BY <1>2, <1>3, <2>1, <2>2, <2>3 DEF TypeOK, Files, Operations, WInv
<1>5. Typed' /\ Asked'
  BY <1>1 DEF WInv, Typed, Asked
<1>6. Found'
  BY <1>1, <1>3 DEF WInv, Found
<1>7. Writing'
  BY <1>1, <1>3 DEF WInv, Writing, Computed, Tells
<1>8. MutationsAccount'
  BY <1>1, <1>3 DEF WInv, MutationsAccount
<1> QED BY <1>4, <1>5, <1>6, <1>7, <1>8 DEF WInv

\* Every step keeps the invariant.
LEMMA NextWInv == WInv /\ [Next]_vars => WInv'
<1> SUFFICES ASSUME WInv, [Next]_vars PROVE WInv'
  OBVIOUS
<1> QED BY ToolCalled, ToolProceeds, FileWritten, ToolEnds, ProcessStep DEF Next, ToolStep

LEMMA WorkspaceInvariance == Spec => []WInv
BY InitWInv, NextWInv, PTL DEF Spec

-----------------------------------------------------------------------------
\* Type correctness of the tools and of the processes they start: among others, a
\* shell lives only as long as the call of bash that started it.
THEOREM WorkspaceTypeCorrect == Spec => []TypeOK
<1>1. WInv => TypeOK
  BY DEF WInv
<1> QED BY <1>1, WorkspaceInvariance, PTL

\* Whatever tools have run in whatever order, and whenever a process of bash got
\* in between: a file that no process changed since a file tool last opened it is
\* the one that the last file_mutation tells of, or the LLM was told that the call
\* failed.
THEOREM MutationsAccounted == Spec => []MutationsAccount
<1>1. WInv => MutationsAccount
  BY DEF WInv
<1> QED BY <1>1, WorkspaceInvariance, PTL

\* A file_mutation of a call that was not raced tells the truth of the file before
\* the write: whether there was one, its size, and that an edit has replaced the
\* very text it was computed from.
THEOREM MutationsHonest == Spec => []MutationHonest
<1>1. WInv => MutationHonest
  BY DEF WInv, Writing, Tells, SizeOf, MutationHonest
<1> QED BY <1>1, WorkspaceInvariance, PTL

\* file_edit replaces the lines of the range and nothing else, for all texts and
\* ranges, also where a process changes the file during the call.
THEOREM EditsExact == Spec => []EditExact
<1>1. ASSUME WInv, Editing PROVE EditExact
  <2>1. local.original # Absent /\ Computed
    BY <1>1 DEF Editing, WInv, Writing
  <2>2. /\ local.original \in Text /\ local.new \in Text
        /\ local.start \in Int /\ local.end \in Int
    BY <1>1, <2>1 DEF WInv, Typed, Locals, Files
  <2>3. /\ ~InvalidRange(local.start, local.end)
        /\ ~PastEOF(local.original, local.start)
        /\ local.encoded = file_edit(local.original, local.start, local.end, local.new)
    BY <2>1 DEF Computed
  <2>4. Intended = Wanted(local.original, local.start, local.end, local.new)
    BY Zenon DEF Intended, Wanted
  <2> DEFINE lines == content_lines(local.encoded)
  <2>5. /\ \/ lines = Intended
           \/ lines = <<"">> /\ Intended = <<>>
           \/ Append(lines, "") = Intended
        /\ ended_with_newline(local.original) => ended_with_newline(local.encoded)
    <3>1. PICK text, start, end, new : /\ text = local.original /\ start = local.start
                                       /\ end = local.end /\ new = local.new
      OBVIOUS
    <3>2. PICK result : result = local.encoded
      OBVIOUS
    <3>3. /\ text \in Text /\ new \in Text /\ start \in Int /\ end \in Int
          /\ ~InvalidRange(start, end) /\ ~PastEOF(text, start)
          /\ result = file_edit(text, start, end, new)
          /\ Intended = Wanted(text, start, end, new)
      BY <2>2, <2>3, <2>4, <3>1, <3>2, Zenon
    <3>4. /\ \/ content_lines(result) = Wanted(text, start, end, new)
             \/ content_lines(result) = <<"">> /\ Wanted(text, start, end, new) = <<>>
             \/ Append(content_lines(result), "") = Wanted(text, start, end, new)
          /\ ended_with_newline(text) => ended_with_newline(result)
      BY <3>3, EditKeepsLines
    <3> QED BY <3>1, <3>2, <3>3, <3>4, Zenon
  <2> QED BY <2>5 DEF EditExact
<1>2. WInv => EditExact
  BY <1>1 DEF EditExact
<1> QED BY <1>2, WorkspaceInvariance, PTL

-----------------------------------------------------------------------------
(***************************************************************************)
(* The lines of file_read and those of file_edit.                          *)
(***************************************************************************)
\* h are the beginnings of the concatenation of seqs.
Beginnings(h, seqs) ==
  /\ h = [i \in 1..Len(seqs) |-> h[i]]
  /\ h[1] = seqs[1]
  /\ \A i \in 2..Len(seqs) : h[i] = h[i - 1] \o seqs[i]

\* FlattenSeq is the last of them: a least place where it departed from them
\* would follow one where it did not.
LEMMA Flattened ==
  ASSUME NEW S, NEW seqs \in Seq(Seq(S)), seqs # <<>>, NEW h, Beginnings(h, seqs)
  PROVE  FlattenSeq(seqs) = h[Len(seqs)]
<1> DEFINE n == Len(seqs)
           Solves(g) == g = [i \in 1..n |-> IF i = 1 THEN seqs[i] ELSE g[i - 1] \o seqs[i]]
           flatten == CHOOSE g : Solves(g)
<1>0. n \in Nat \ {0}
  BY EmptySeq
<1>1. Solves(h)
  <2>1. h = [i \in 1..n |-> h[i]] /\ h[1] = seqs[1]
        /\ \A i \in 2..n : h[i] = h[i - 1] \o seqs[i]
    BY DEF Beginnings
  <2>2. \A i \in 1..n : i = 1 \/ i \in 2..n
    BY <1>0
  <2>3. \A i \in 1..n : h[i] = IF i = 1 THEN seqs[i] ELSE h[i - 1] \o seqs[i]
    <3> HIDE DEF n
    <3> QED BY <2>1, <2>2, Zenon
  <2> HIDE DEF n
  <2>4. [i \in 1..n |-> h[i]] = [i \in 1..n |-> IF i = 1 THEN seqs[i] ELSE h[i - 1] \o seqs[i]]
    BY <2>3, Zenon
  <2> QED BY <2>1, <2>4, Zenon
<1>2. Solves(flatten)
  <2> HIDE DEF Solves
  <2> QED BY <1>1
<1>3. FlattenSeq(seqs) = flatten[n]
  <2>1. Len(seqs) # 0
    BY <1>0
  <2> QED BY <2>1, Zenon DEF FlattenSeq
<1> HIDE DEF flatten
<1>4. /\ flatten[1] = seqs[1]
      /\ \A i \in 2..n : flatten[i] = flatten[i - 1] \o seqs[i]
  <2>1. 1 \in 1..n /\ \A i \in 2..n : i \in 1..n /\ i # 1
    BY <1>0
  <2> HIDE DEF n
  <2> QED BY <1>2, <2>1, Zenon
<1>5. /\ h[1] = seqs[1]
      /\ \A i \in 2..n : h[i] = h[i - 1] \o seqs[i]
  BY DEF Beginnings
<1> HIDE DEF n
<1>6. ASSUME flatten[n] # h[n] PROVE FALSE
  <2> DEFINE T == {i \in 1..n : flatten[i] # h[i]}
  <2>1. T \subseteq Nat /\ n \in T
    BY <1>0, <1>6
  <2>2. PICK x \in T : \A y \in T : x <= y
    <3> HIDE DEF T
    <3> QED BY <2>1, LeastNumber
  <2>3. x \in 2..n /\ flatten[x] # h[x]
    <3>1. x \in 1..n /\ flatten[x] # h[x] /\ x # 1
      BY <1>4, <1>5, Zenon
    <3> QED BY <1>0, <3>1
  <2>4. x - 1 \in 1..n /\ ~(x <= x - 1)
    BY <1>0, <2>3
  <2>5. flatten[x - 1] = h[x - 1]
    BY <2>2, <2>4, Zenon
  <2> QED BY <1>4, <1>5, <2>3, <2>5, Zenon
<1> QED BY <1>3, <1>6 DEF n

\* No line of the text is two lines for str.splitlines.
Plain(text) == \A i \in DOMAIN text : text[i] # "ff"

\* What str.splitlines makes of each line.
Pieces(text) ==
  [i \in DOMAIN text |->
     CASE text[i] = "ff"                 -> <<"left", "right">>
       [] text[i] = "" /\ i = Len(text)  -> <<>>
       [] OTHER                          -> <<text[i]>>]

\* Of a plain text str.splitlines leaves out at most the last line, and that one
\* only if it is blank.
LEMMA SplitPlain ==
  ASSUME NEW text \in Text, Plain(text)
  PROVE  \E m \in Nat :
           /\ \/ Last(text) = "" /\ m = Len(text) - 1
              \/ Last(text) # "" /\ m = Len(text)
           /\ splitlines(text) = SubSeq(text, 1, m)
<1>1. text \in Seq(Lines) /\ Len(text) \in Nat \ {0} /\ DOMAIN text = 1..Len(text)
  BY EmptySeq DEF Text
<1>2. PICK n \in Nat \ {0} : n = Len(text)
  BY <1>1
<1>3. PICK m \in Nat : (text[n] = "" /\ m = n - 1) \/ (text[n] # "" /\ m = n)
  <2>1. n \in Nat /\ n - 1 \in Nat
    BY <1>2
  <2> QED BY <2>1, Zenon
<1>4. \A i \in 1..n : Pieces(text)[i] = IF i <= m THEN <<text[i]>> ELSE <<>>
  <2> SUFFICES ASSUME NEW i \in 1..n
               PROVE  Pieces(text)[i] = IF i <= m THEN <<text[i]>> ELSE <<>>
    OBVIOUS
  <2>1. text[i] # "ff" /\ i \in DOMAIN text
    BY <1>1, <1>2 DEF Plain
  <2>2. CASE text[i] = "" /\ i = n
    <3>1. Pieces(text)[i] = <<>>
      BY <1>2, <2>1, <2>2, Zenon DEF Pieces
    <3>0. m = n - 1 /\ i = n
      BY <1>3, <2>2, Zenon
    <3>2. ~(i <= m)
      BY <1>2, <3>0
    <3> QED BY <3>1, <3>2
  <2>3. CASE ~(text[i] = "" /\ i = n)
    <3>1. Pieces(text)[i] = <<text[i]>>
      BY <1>2, <2>1, <2>3, Zenon DEF Pieces
    <3>0. (m = n - 1 /\ i # n) \/ m = n
      BY <1>3, <2>3, Zenon
    <3>2. i <= m
      BY <1>2, <3>0
    <3> QED BY <3>1, <3>2
  <2> QED BY <2>2, <2>3
<1>5. /\ Pieces(text) = [i \in 1..n |-> Pieces(text)[i]]
      /\ splitlines(text) = FlattenSeq(Pieces(text))
  BY <1>1, <1>2, Zenon DEF Pieces, splitlines
<1>6. PICK seqs : seqs = Pieces(text)
  OBVIOUS
<1>7. m = n \/ m = n - 1
  BY <1>3, Zenon
<1>8. /\ seqs \in Seq(Seq(Lines)) /\ Len(seqs) = n /\ seqs # <<>>
      /\ \A i \in 1..n : seqs[i] = IF i <= m THEN <<text[i]>> ELSE <<>>
  <2>1. /\ \A i \in 1..n : seqs[i] = IF i <= m THEN <<text[i]>> ELSE <<>>
        /\ seqs = [i \in 1..n |-> seqs[i]]
    BY <1>4, <1>5, <1>6, Zenon
  <2>2. ASSUME NEW i \in 1..n PROVE seqs[i] \in Seq(Lines)
    <3>1. text[i] \in Lines
      BY <1>1, <1>2
    <3>2. <<text[i]>> \in Seq(Lines) /\ <<>> \in Seq(Lines)
      BY <3>1
    <3>3. seqs[i] = <<text[i]>> \/ seqs[i] = <<>>
      BY <2>1, Zenon
    <3> QED BY <3>2, <3>3, Zenon
  <2>3. seqs \in [1..n -> Seq(Lines)]
    BY <2>1, <2>2
  <2>4. n \in Nat /\ n # 0
    BY <1>2
  <2>5. seqs \in Seq(Seq(Lines))
    <3>1. PICK S : S = Seq(Lines)
      OBVIOUS
    <3>2. seqs \in [1..n -> S]
      BY <2>3, <3>1, Zenon
    <3>3. seqs \in Seq(S)
      BY <2>4, <3>2
    <3> QED BY <3>1, <3>3, Zenon
  <2>6. DOMAIN seqs = 1..n
    BY <2>3
  <2>7. Len(seqs) = n
    BY <2>4, <2>5, <2>6
  <2>8. seqs # <<>>
    BY <2>4, <2>5, <2>7, EmptySeq
  <2> QED BY <2>1, <2>5, <2>7, <2>8, Zenon
<1> DEFINE upto(i) == IF i <= m THEN i ELSE m
           h == [i \in 1..n |-> SubSeq(text, 1, upto(i))]
<1>9. Beginnings(h, seqs)
  <2>1. h[1] = seqs[1]
    <3>0. 1 \in 1..n
      BY <1>2
    <3>1. CASE m = 0
      <4>1. ~(1 <= m) /\ upto(1) = 0
        BY <3>1
      <4>2. seqs[1] = <<>> /\ h[1] = SubSeq(text, 1, 0)
        BY <1>8, <3>0, <4>1, Zenon
      <4>3. SubSeq(text, 1, 0) = <<>>
        BY <1>1
      <4> QED BY <4>2, <4>3, Zenon
    <3>2. CASE m # 0
      <4>1. /\ SubSeq(text, 1, 1) \in Seq(Lines) /\ Len(SubSeq(text, 1, 1)) = 1
            /\ SubSeq(text, 1, 1)[1] = text[1]
        BY <1>1, <1>2
      <4>0. 1 <= m /\ upto(1) = 1
        BY <3>2
      <4>2. seqs[1] = <<text[1]>> /\ h[1] = SubSeq(text, 1, 1)
        BY <1>8, <3>0, <4>0, Zenon
      <4>3. /\ <<text[1]>> \in Seq(Lines) /\ Len(<<text[1]>>) = 1
            /\ <<text[1]>>[1] = text[1]
        BY <1>1, <1>2
      <4>4. SubSeq(text, 1, 1) = <<text[1]>>
        <5>1. PICK a \in Seq(Lines), b \in Seq(Lines) :
                a = SubSeq(text, 1, 1) /\ b = <<text[1]>>
          BY <4>1, <4>3, Zenon
        <5>2. Len(a) = 1 /\ Len(b) = 1 /\ a[1] = b[1]
          BY <4>1, <4>3, <5>1, Zenon
        <5>3. \A j \in 1..Len(a) : a[j] = b[j]
          BY <5>2
        <5>4. a = b
          BY <5>2, <5>3, SeqEqual
        <5> QED BY <5>1, <5>4, Zenon
      <4> QED BY <4>2, <4>4, Zenon
    <3> QED BY <3>1, <3>2
  <2>2. ASSUME NEW i \in 2..n PROVE h[i] = h[i - 1] \o seqs[i]
    <3>1. i \in 1..n /\ i - 1 \in 1..n /\ i - 1 \in Nat
      BY <1>2
    <3>2. PICK k \in Nat : k = i - 1
      BY <3>1
    <3>3. h[i] = SubSeq(text, 1, upto(i)) /\ h[k] = SubSeq(text, 1, upto(k))
      BY <3>1, <3>2
    <3>4. CASE i <= m
      <4>1. upto(i) = i /\ upto(k) = k /\ seqs[i] = <<text[i]>>
        BY <1>8, <3>1, <3>2, <3>4
      <4>2. /\ SubSeq(text, 1, i) \in Seq(Lines) /\ Len(SubSeq(text, 1, i)) = i
            /\ \A j \in 1..i : SubSeq(text, 1, i)[j] = text[j]
        BY <1>1, <1>2, <3>1
      <4>3. /\ SubSeq(text, 1, k) \in Seq(Lines) /\ Len(SubSeq(text, 1, k)) = k
            /\ \A j \in 1..k : SubSeq(text, 1, k)[j] = text[j]
        BY <1>1, <1>2, <3>1, <3>2
      <4>4. text[i] \in Lines
        BY <1>1, <1>2, <3>1
      <4>5. PICK a \in Seq(Lines) : a = SubSeq(text, 1, k)
        BY <4>3
      <4>6. /\ a \o <<text[i]>> \in Seq(Lines) /\ Len(a \o <<text[i]>>) = i
            /\ \A j \in 1..i : (a \o <<text[i]>>)[j] = text[j]
        BY <3>1, <3>2, <4>3, <4>4, <4>5
      <4>7. SubSeq(text, 1, i) = a \o <<text[i]>>
        BY <4>2, <4>6, SeqEqual
      <4> QED BY <3>2, <3>3, <4>1, <4>5, <4>7, Zenon
    <3>5. CASE ~(i <= m)
      <4>1. upto(i) = m /\ upto(k) = m /\ seqs[i] = <<>>
        BY <1>7, <1>8, <3>1, <3>2, <3>5
      <4>2. SubSeq(text, 1, m) \in Seq(Lines)
        <5>1. m <= Len(text)
          BY <1>2, <1>7
        <5> QED BY <1>1, <5>1
      <4>3. SubSeq(text, 1, m) \o <<>> = SubSeq(text, 1, m)
        BY <4>2, ConcatEmptySeq
      <4> QED BY <3>2, <3>3, <4>1, <4>3, Zenon
    <3> QED BY <3>4, <3>5
  <2>3. h = [i \in 1..n |-> h[i]]
    OBVIOUS
  <2> HIDE DEF h
  <2> QED BY <1>8, <2>1, <2>2, <2>3 DEF Beginnings
<1>10. h[n] = SubSeq(text, 1, m)
  BY <1>2, <1>7
<1> HIDE DEF h
<1>11. FlattenSeq(seqs) = h[n]
  BY <1>8, <1>9, Flattened
<1>12. splitlines(text) = SubSeq(text, 1, m)
  BY <1>5, <1>6, <1>10, <1>11, Zenon
<1>13. \/ Last(text) = "" /\ m = Len(text) - 1
       \/ Last(text) # "" /\ m = Len(text)
  BY <1>2, <1>3, Zenon DEF Last
<1> QED BY <1>12, <1>13, Zenon

\* What file_read shows of a plain text are lines that file_edit counts.
LEMMA SameLines ==
  ASSUME NEW text \in Text, Plain(text), NEW start \in Int, NEW end \in Int,
         NEW line \in file_read(text, start, end)
  PROVE  /\ line[1] \in DOMAIN content_lines(text)
         /\ content_lines(text)[line[1]] = line[2]
<1>1. text \in Seq(Lines) /\ Len(text) \in Nat \ {0}
  BY EmptySeq DEF Text
<1>2. PICK m \in Nat : /\ \/ Last(text) = "" /\ m = Len(text) - 1
                          \/ Last(text) # "" /\ m = Len(text)
                       /\ splitlines(text) = SubSeq(text, 1, m)
  BY SplitPlain
<1>0. m = Len(text) - 1 \/ m = Len(text)
  BY <1>2, Zenon
<1>3. PICK part \in Seq(Lines) : part = SubSeq(text, 1, m)
  <2>1. m <= Len(text)
    BY <1>0, <1>1
  <2>2. SubSeq(text, 1, m) \in Seq(Lines)
    BY <1>1, <2>1
  <2> QED BY <2>2, Zenon
<1>4. Len(part) = m /\ \A i \in 1..m : part[i] = text[i]
  BY <1>0, <1>1, <1>3
<1>5. PICK i \in read_range(text, start, end) : line = <<i, splitlines(text)[i]>>
  BY DEF file_read
<1>6. i \in 1..m
  <2>1. Len(splitlines(text)) = m
    BY <1>2, <1>3, <1>4, Zenon
  <2> QED BY <2>1 DEF read_range
<1>7. line[1] = i /\ line[2] = text[i]
  <2>1. splitlines(text)[i] = text[i]
    BY <1>2, <1>3, <1>4, <1>6, Zenon
  <2> QED BY <1>5, <2>1
<1>8. i \in DOMAIN content_lines(text) /\ content_lines(text)[i] = text[i]
  <2>1. CASE ended_with_newline(text)
    <3>1. content_lines(text) = Front(text)
      BY <2>1 DEF content_lines
    <3>2. m = Len(text) - 1
      BY <1>2, <2>1, Zenon DEF ended_with_newline
    <3>3. PICK front \in Seq(Lines) : front = Front(text)
      BY FrontOfText
    <3>4. Len(front) = m /\ \A k \in 1..m : front[k] = text[k]
      BY <1>3, <1>4, <3>2, <3>3 DEF Front
    <3>5. i \in DOMAIN front /\ front[i] = text[i]
      BY <1>6, <3>4
    <3> QED BY <3>1, <3>3, <3>5, Zenon
  <2>2. CASE ~ended_with_newline(text)
    <3>1. content_lines(text) = text
      BY <2>2 DEF content_lines
    <3>2. i \in DOMAIN text
      BY <1>0, <1>1, <1>6
    <3> QED BY <3>1, <3>2, Zenon
  <2> QED BY <2>1, <2>2
<1> QED BY <1>7, <1>8, Zenon

\* Reading adds lines that agree; whatever changes the file takes back what was
\* shown of it.
LEMMA NextAgree ==
  ASSUME WInv, NumbersAgree, [Next]_vars
  PROVE  NumbersAgree'
<1>1. CASE ReadText
  <2>1. /\ file' = file
        /\ shown' = IF file = Absent \/ ~Decodable(file)
                    THEN shown
                    ELSE shown \cup file_read(file, local.start, local.end)
    BY <1>1 DEF ReadText
  <2>2. CASE shown' = shown
    BY <2>1, <2>2, Zenon DEF NumbersAgree
  <2>3. CASE file # Absent /\ shown' = shown \cup file_read(file, local.start, local.end)
    <3>1. PICK text, start, end : text = file /\ start = local.start /\ end = local.end
      OBVIOUS
    <3>2. text \in Text /\ start \in Int /\ end \in Int
      BY <2>3, <3>1 DEF WInv, TypeOK, Typed, Locals
    <3>3. ASSUME Plain(text), NEW line \in file_read(text, start, end)
          PROVE  /\ line[1] \in DOMAIN content_lines(text)
                 /\ content_lines(text)[line[1]] = line[2]
      BY <3>2, <3>3, SameLines
    <3>4. ASSUME Plain(text), NEW line \in shown
          PROVE  /\ line[1] \in DOMAIN content_lines(text)
                 /\ content_lines(text)[line[1]] = line[2]
      BY <3>1, <3>4, Zenon DEF NumbersAgree, Plain
    <3> QED BY <2>1, <2>3, <3>1, <3>3, <3>4, Zenon DEF NumbersAgree, Plain
  <2> QED BY <2>1, <2>2, <2>3, Zenon
<1>2. CASE \/ Truncate \/ WriteBytes \/ WriteFails
            \/ \E text \in ForeignFiles : ProcessWrites(text)
  <2>1. shown' = {}
    BY <1>2, Zenon DEF Truncate, WriteBytes, WriteFails, ProcessWrites
  <2> QED BY <2>1, Zenon DEF NumbersAgree
<1>3. CASE UNCHANGED <<file, shown>>
  BY <1>3, Zenon DEF NumbersAgree
<1>4. \/ ReadText \/ Truncate \/ WriteBytes \/ WriteFails
      \/ \E text \in ForeignFiles : ProcessWrites(text)
      \/ UNCHANGED <<file, shown>>
  <2>1. ASSUME NEW next, NEW l, Call(next, l) \/ Proceed(next, l)
        PROVE  UNCHANGED <<file, shown>>
    BY <2>1, Zenon DEF Call, Proceed
  <2>2. CASE UNCHANGED vars
    BY <2>2, Zenon DEF vars
  <2>3. CASE ToolStep
    <3>1. CASE \/ WriteFindsFile \/ WriteStats \/ WriteOperation \/ OpenFails
               \/ EditFindsFile \/ EditReads \/ ReadFindsFile \/ ReadStats \/ BashReturns
      BY <2>1, <3>1, Zenon DEF WriteFindsFile, WriteStats, WriteOperation, OpenFails,
                               EditFindsFile, EditReads, ReadFindsFile, ReadStats,
                               BashReturns, Return
    <3>2. CASE EmitMutation \/ EmitRaises \/ BashTimeout
      BY <3>2, Zenon DEF EmitMutation, EmitRaises, BashTimeout
    <3> QED BY <2>3, <3>1, <3>2, Zenon DEF ToolStep
  <2>4. CASE ShellForks \/ ProcessExits
    BY <2>4, Zenon DEF ShellForks, ProcessExits
  <2>5. CASE \/ \E new \in Contents : FileWrite(new)
             \/ \E start, end \in 1..MaxLine, new \in Contents : FileEdit(start, end, new)
             \/ \E start, end \in 0..MaxLine : FileRead(start, end)
             \/ Bash
    BY <2>1, <2>5, Zenon DEF FileWrite, FileEdit, FileRead, Bash
  <2> QED BY <2>2, <2>3, <2>4, <2>5, Zenon DEF Next
<1> QED BY <1>1, <1>2, <1>3, <1>4, Zenon

\* A line number that file_read has shown means the same line to file_edit, for
\* all texts without a form feed, as long as nothing has changed the file
\* (file_read.py, text.splitlines; file_edit.py, content_lines).
THEOREM ShownLinesAgree == Spec => []NumbersAgree
<1>1. Init => NumbersAgree
  BY Zenon DEF Init, NumbersAgree
<1>2. WInv /\ NumbersAgree /\ [Next]_vars => NumbersAgree'
  BY NextAgree
<1> QED BY <1>1, <1>2, WorkspaceInvariance, PTL DEF Spec

=============================================================================
