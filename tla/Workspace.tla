-------------------------------- MODULE Workspace --------------------------------
(***************************************************************************)
(* The tools of the agent (agent_anvil/tools) on one file of the workspace *)
(* and the processes that bash leaves behind, which go on changing it.     *)
(*                                                                         *)
(* Tools run one at a time; pc is the system call that comes next inside   *)
(* the running one, "idle" between two.  A tool that refuses its arguments *)
(* (missing, of a wrong type, a path outside of the workspace, an empty    *)
(* command), web_search and a path of another file leave all of this       *)
(* alone.  file is the text of the file, Absent if there is none.          *)
(***************************************************************************)
EXTENDS FileLines

CONSTANTS
  Contents,      \* texts the agent passes to file_write and file_edit
  InitialFiles,  \* what the file may be at first
  ForeignFiles,  \* what bash and its children may turn the file into
  MAX_FILE_BYTES,
  MaxLine,       \* bound on the line numbers the agent passes
  MaxCalls       \* bound on the calls of tools

Absent == <<>>

ASSUME WorkspaceAssumption ==
  /\ Contents \subseteq Text
  /\ InitialFiles \cup ForeignFiles \subseteq Text \cup {Absent}
  /\ MaxLine \in Nat
  /\ MaxCalls \in Nat

VARIABLES
  file,
  pc,
  calls,       \* calls of tools so far
  local,       \* the local variables of the running tool
  mutation,    \* the last file_mutation event
  shown,       \* what file_read has shown of the file as it still is
  shell,       \* whether the shell of the running bash is alive
  piped,       \* whether a child that holds the shell's stdout is alive
  detached,    \* whether a child that does not is alive
  was,         \* the file before the write of the running tool
  raced,       \* whether another process changed the file during this call
  unrecorded,  \* whether one changed it since a file tool last truncated it
  failed       \* whether the call that last truncated it ended with an error

processVars == <<shell, piped, detached>>
history == <<was, raced, unrecorded, failed>>
vars == <<file, pc, calls, local, mutation, shown, processVars, history>>

\* original: the text file_edit has read; encoded: the text to write.
NoLocals == [start |-> 1, end |-> 1, new |-> Empty, original |-> Absent,
             encoded |-> Absent, size_before |-> 0, operation |-> "none"]

Init ==
  /\ file \in InitialFiles
  /\ pc = "idle"
  /\ calls = 0
  /\ local = NoLocals
  /\ mutation = [operation |-> "none", after |-> Absent]
  /\ shown = {}
  /\ shell = FALSE /\ piped = FALSE /\ detached = FALSE
  /\ was = Absent
  /\ raced = FALSE
  /\ unrecorded = (file # Absent)
  /\ failed = FALSE

\* The loop calls a tool.
Call(next, l) ==
  /\ pc = "idle"
  /\ calls < MaxCalls
  /\ calls' = calls + 1
  /\ pc' = next
  /\ local' = l
  /\ raced' = FALSE
  /\ UNCHANGED <<file, mutation, shown, was, unrecorded, failed>>

\* The tool goes on.
Proceed(next, l) ==
  /\ pc' = next
  /\ local' = l
  /\ UNCHANGED <<file, calls, mutation, shown, processVars, history>>

\* It returns or raises; its locals are gone.
Return == Proceed("idle", NoLocals)

-----------------------------------------------------------------------------
(***************************************************************************)
(* file_write: exists, stat, exists again, write_bytes, file_mutation.     *)
(***************************************************************************)
FileWrite(new) ==
  /\ Call("exists", [NoLocals EXCEPT !.encoded = new])
  /\ UNCHANGED processVars

WriteFindsFile ==
  /\ pc = "exists"
  /\ Proceed(IF file # Absent THEN "stat" ELSE "operation", local)

\* stat raises if the file has gone in between.
WriteStats ==
  /\ pc = "stat"
  /\ IF file # Absent
     THEN Proceed("operation", [local EXCEPT !.size_before = Size(file)])
     ELSE Return

MutantWriteOperation ==
  /\ pc = "operation"
  /\ Proceed("write", [local EXCEPT !.operation =
                         IF local.size_before # 0 THEN "edit" ELSE "create"])

WriteOperation ==
  /\ pc = "operation"
  /\ Proceed("write", [local EXCEPT !.operation =
                         IF file # Absent THEN "edit" ELSE "create"])

\* write_bytes, for file_edit too: open truncates the file, or makes it, and
\* write puts the text where it was opened.
Truncate ==
  /\ pc = "write"
  /\ file' = Empty
  /\ was' = file
  /\ shown' = {}
  /\ unrecorded' = FALSE
  /\ failed' = FALSE
  /\ pc' = "writing"
  /\ UNCHANGED <<calls, local, mutation, processVars, raced>>

\* open raises: no permission, no space for a new file.
OpenFails == pc = "write" /\ Return

\* The texts that part becomes when it is written over the beginning of text; a
\* line may be put together of both.
Over(part, text) ==
  {part} \cup
  UNION {{Front(part) \o <<line>> \o SubSeq(text, k, Len(text)) : line \in Lines} :
           k \in 2..Len(text) + 1}

\* The file after part was written.  If another process has changed it since it was
\* truncated, part is written over what is there now, or it went to a file that is
\* no longer this one.
Landed(part) ==
  IF unrecorded
  THEN {file} \cup {text \in Over(part, file) : file # Absent}
  ELSE {part}

\* A beginning of text, which may end inside of a line.
Torn(text) ==
  UNION {{Append(SubSeq(text, 1, k - 1), line) : line \in Lines} : k \in DOMAIN text}

WriteBytes ==
  /\ pc = "writing"
  /\ file' \in Landed(local.encoded)
  /\ shown' = {}
  /\ pc' = "mutation"
  /\ UNCHANGED <<calls, local, mutation, processVars, history>>

\* The call ends with an exception after it has truncated the file; the loop tells
\* the LLM that it failed.
Fails ==
  /\ failed' = TRUE
  /\ was' = Absent
  /\ pc' = "idle"
  /\ local' = NoLocals
  /\ UNCHANGED <<calls, processVars, raced, unrecorded>>

\* write raises with a part of the text in the file: disk full, quota.
WriteFails ==
  /\ pc = "writing"
  /\ \E part \in Torn(local.encoded) : file' \in Landed(part)
  /\ shown' = {}
  /\ Fails
  /\ UNCHANGED mutation

MutantEmitMutation ==
  /\ pc = "mutation"
  /\ mutation' = [operation |-> local.operation,
                  after |-> IF local.original = Absent THEN local.encoded ELSE local.new]
  /\ pc' = "idle"
  /\ local' = NoLocals
  /\ was' = Absent
  /\ UNCHANGED <<file, calls, shown, processVars, raced, unrecorded, failed>>

FileMutation == [operation |-> local.operation, after |-> local.encoded]

\* emit_file_mutation, with the hash of what was written.
EmitMutation ==
  /\ pc = "mutation"
  /\ mutation' = FileMutation
  /\ pc' = "idle"
  /\ local' = NoLocals
  /\ was' = Absent
  /\ UNCHANGED <<file, calls, shown, processVars, raced, unrecorded, failed>>

\* events.emit raises; the event may still have come into the stream.
EmitRaises ==
  /\ pc = "mutation"
  /\ mutation' \in {mutation, FileMutation}
  /\ Fails
  /\ UNCHANGED <<file, shown>>

-----------------------------------------------------------------------------
(***************************************************************************)
(* file_edit: exists, read_bytes, then write_bytes and file_mutation as    *)
(* above.                                                                  *)
(***************************************************************************)
FileEdit(start, end, new) ==
  /\ ~InvalidRange(start, end)
  /\ Call("editExists", [NoLocals EXCEPT !.start = start, !.end = end, !.new = new])
  /\ UNCHANGED processVars

EditFindsFile ==
  /\ pc = "editExists"
  /\ IF file # Absent THEN Proceed("editRead", local) ELSE Return

\* read_bytes raises if the file has gone in between; a text that is not UTF-8
\* and a start line past the end are refused.
EditReads ==
  /\ pc = "editRead"
  /\ IF file = Absent \/ ~Decodable(file) \/ PastEOF(file, local.start)
     THEN Return
     ELSE Proceed("write",
                  [local EXCEPT !.original = file, !.size_before = Size(file),
                     !.operation = "edit",
                     !.encoded = file_edit(file, local.start, local.end, local.new)])

-----------------------------------------------------------------------------
(***************************************************************************)
(* file_read.                                                              *)
(***************************************************************************)
FileRead(start, end) ==
  /\ Call("read", [NoLocals EXCEPT !.start = start, !.end = end])
  /\ UNCHANGED processVars

\* exists and is_file.
ReadFindsFile ==
  /\ pc = "read"
  /\ IF file # Absent THEN Proceed("readStat", local) ELSE Return

\* stat raises if the file has gone in between; a large file is refused.
ReadStats ==
  /\ pc = "readStat"
  /\ IF file = Absent \/ Size(file) > MAX_FILE_BYTES
     THEN Return
     ELSE Proceed("readText", local)

\* read_text; the file may have gone, and one that is not UTF-8 is refused.
ReadText ==
  /\ pc = "readText"
  /\ pc' = "idle"
  /\ local' = NoLocals
  /\ shown' = IF file = Absent \/ ~Decodable(file)
              THEN shown
              ELSE shown \cup file_read(file, local.start, local.end)
  /\ UNCHANGED <<file, calls, mutation, processVars, history>>

-----------------------------------------------------------------------------
(***************************************************************************)
(* bash: subprocess.run waits until the shell has exited and nobody holds  *)
(* its stdout any more, or until the timeout, when it kills the shell and  *)
(* only the shell.                                                         *)
(***************************************************************************)
Bash ==
  /\ Call("bash", NoLocals)
  /\ shell' = TRUE
  /\ UNCHANGED <<piped, detached>>

ShellForks ==
  /\ shell
  /\ \/ ~piped /\ piped' = TRUE /\ UNCHANGED detached
     \/ ~detached /\ detached' = TRUE /\ UNCHANGED piped
  /\ UNCHANGED <<file, pc, calls, local, mutation, shown, shell, history>>

ProcessExits ==
  /\ \/ shell /\ shell' = FALSE /\ UNCHANGED <<piped, detached>>
     \/ piped /\ piped' = FALSE /\ UNCHANGED <<shell, detached>>
     \/ detached /\ detached' = FALSE /\ UNCHANGED <<shell, piped>>
  /\ UNCHANGED <<file, pc, calls, local, mutation, shown, history>>

\* The shell or a child of this or of an earlier call writes or removes the file.
ProcessWrites(text) ==
  /\ shell \/ piped \/ detached
  /\ file' = text
  /\ shown' = {}
  /\ raced' = TRUE
  /\ unrecorded' = TRUE
  /\ UNCHANGED <<pc, calls, local, mutation, processVars, was, failed>>

BashReturns ==
  /\ pc = "bash"
  /\ ~shell /\ ~piped
  /\ Return

MutantBashTimeout ==
  /\ pc = "bash"
  /\ shell /\ ~piped
  /\ shell' = FALSE
  /\ pc' = "idle"
  /\ UNCHANGED <<file, calls, local, mutation, shown, piped, detached, history>>

MutantNoKill ==
  /\ pc = "bash"
  /\ shell \/ piped
  /\ pc' = "idle"
  /\ UNCHANGED <<file, calls, local, mutation, shown, processVars, history>>

\* TimeoutExpired.
BashTimeout ==
  /\ pc = "bash"
  /\ shell \/ piped
  /\ shell' = FALSE
  /\ pc' = "idle"
  /\ UNCHANGED <<file, calls, local, mutation, shown, piped, detached, history>>

-----------------------------------------------------------------------------
ToolStep ==
  \/ WriteFindsFile \/ WriteStats \/ WriteOperation
  \/ Truncate \/ OpenFails \/ WriteBytes \/ WriteFails
  \/ EmitMutation \/ EmitRaises
  \/ EditFindsFile \/ EditReads
  \/ ReadFindsFile \/ ReadStats \/ ReadText
  \/ BashReturns \/ BashTimeout

Next ==
  \/ \E new \in Contents : FileWrite(new)
  \/ \E start, end \in 1..MaxLine, new \in Contents : FileEdit(start, end, new)
  \/ \E start, end \in 0..MaxLine : FileRead(start, end)
  \/ Bash
  \/ ToolStep
  \/ ShellForks \/ ProcessExits
  \/ \E text \in ForeignFiles : ProcessWrites(text)

\* System calls return, and the timer of bash fires.  Nothing is assumed of the
\* shell and its children.
Spec == Init /\ [][Next]_vars /\ WF_vars(ToolStep)

-----------------------------------------------------------------------------
(***************************************************************************)
(* Properties.                                                             *)
(***************************************************************************)
\* The type invariant.
TypeOK ==
  /\ file \in Text \cup {Absent}
  /\ pc \in {"idle", "exists", "stat", "operation", "write", "writing", "mutation",
             "editExists", "editRead", "read", "readStat", "readText", "bash"}
  /\ calls \in 0..MaxCalls
  /\ mutation.operation \in {"none", "create", "edit"}
  /\ shell \in BOOLEAN /\ piped \in BOOLEAN /\ detached \in BOOLEAN
  /\ raced \in BOOLEAN /\ unrecorded \in BOOLEAN /\ failed \in BOOLEAN
  /\ shell => pc = "bash"

\* The file_mutation events account for the file: between the writes of the file
\* tools it is what the last event says, whichever tool wrote it and whatever ran
\* before, unless the call that wrote it last has failed (a torn write, or an emit
\* that raised after the write), of which the LLM is told, or bash or one of its
\* children has changed it since (file_write.py:50-62, file_edit.py:153-165,
\* base.py:84-107).
MutationsAccount ==
  pc \notin {"writing", "mutation"} /\ ~unrecorded => file = mutation.after \/ failed

\* A file_mutation tells what the call did to the file: "create" exactly when
\* there was none, and the size it had, unless another process changed the file
\* between the system calls of the tool (file_write.py:49-50, file_edit.py:100).
\* An edit that was not raced has replaced the very text it was computed from.
MutationHonest ==
  pc = "mutation" /\ ~raced =>
    /\ local.operation = "create" <=> was = Absent
    /\ local.size_before = IF was = Absent THEN 0 ELSE Size(was)
    /\ local.original # Absent => local.original = was

\* The lines the file shall have after the edit that is about to be written:
\* those before the range, the new ones, those after it.
Intended ==
  LET lines == content_lines(local.original)
      before == SubSeq(lines, 1, local.start - 1)
      after  == SubSeq(lines, local.end + 1, Len(lines))
  IN  before \o new_lines_split(local.new) \o after

Editing == pc = "write" /\ local.original # Absent

\* file_edit replaces the range and nothing else, up to blank lines at the end of
\* the file: the result has the intended lines, except that a final blank line
\* may become the newline at the end of the file, and that a file of which
\* nothing is left is one blank line.  A file that ended with a newline still
\* does (file_edit.py:111-152).
EditExact ==
  Editing =>
    LET lines == content_lines(local.encoded)
    IN  /\ \/ lines = Intended
           \/ lines = <<"">> /\ Intended = <<>>
           \/ Append(lines, "") = Intended
        /\ ended_with_newline(local.original) => ended_with_newline(local.encoded)

\* The lines that file_read has numbered are the lines that file_edit counts, as
\* long as nothing has changed the file: what the agent saw as line i is what an
\* edit of line i replaces (file_read.py:8-10, file_edit.py:116-123).  This needs
\* a file without form feeds and the like.
NumbersAgree ==
  (\A i \in DOMAIN file : file[i] # "ff") =>
    \A line \in shown : /\ line[1] \in DOMAIN content_lines(file)
                        /\ content_lines(file)[line[1]] = line[2]

\* file_edit.py:14, "The range is interpreted as the closed interval [start_line,
\* end_line] of the original file".  Violated: an edit of a file that ends with a
\* blank line and a newline loses that line, although it is behind the range.
EditsOnlyRange ==
  Editing /\ local.end < Len(content_lines(local.original)) =>
    content_lines(local.encoded) = Intended

\* Every tool call comes back, also a bash whose children never exit and hold its
\* output (bash.py:45-60).
ToolReturns == pc # "idle" ~> pc = "idle"

=============================================================================
