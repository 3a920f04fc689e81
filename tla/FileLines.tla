-------------------------------- MODULE FileLines --------------------------------
(***************************************************************************)
(* The line arithmetic of file_edit and file_read (agent_anvil/tools).     *)
(*                                                                         *)
(* A text is the non-empty sequence text.split("\n") of its lines: "" is   *)
(* <<"">> and a text that ends with a newline has "" as its last line.     *)
(* Lines are told apart by what the code tells apart: the blank line "",   *)
(* "ff", which holds a form feed or a lone carriage return and is two      *)
(* lines for str.splitlines, "bin", which is not UTF-8, and all others.    *)
(***************************************************************************)
EXTENDS Integers, Sequences, SequencesExt

CONSTANT Lines   \* the lines that may occur in a text

ASSUME LinesAssumption == "" \in Lines

Text == Seq(Lines) \ {<<>>}

Empty == <<"">>

ended_with_newline(text) == Len(text) > 1 /\ Last(text) = ""

\* The number of bytes, with one for every line that is not blank.
Size(text) == Len(text) - 1 + Cardinality({i \in DOMAIN text : text[i] # ""})

Decodable(text) == \A i \in DOMAIN text : text[i] # "bin"

-----------------------------------------------------------------------------
(***************************************************************************)
(* file_edit.                                                              *)
(***************************************************************************)
\* The lines of the file as file_edit counts them.
content_lines(text) == IF ended_with_newline(text) THEN Front(text) ELSE text

InvalidRange(start, end) == start < 1 \/ end < start

PastEOF(text, start) == start > Len(content_lines(text)) + 1

\* new_content.split("\n") if new_content else [].
new_lines_split(new) == IF new = Empty THEN <<>> ELSE new

MutantEdited(text, start, end, new) ==
  LET lines == content_lines(text)
      clamp == IF end < Len(lines) THEN end ELSE Len(lines)
  IN  SubSeq(lines, 1, start - 1) \o new_lines_split(new)
        \o SubSeq(lines, clamp + 2, Len(lines))

\* The lines of the edited file.  An append keeps all lines and adds the new.
edited(text, start, end, new) ==
  LET lines == content_lines(text)
      clamp == IF end < Len(lines) THEN end ELSE Len(lines)
  IN  IF start > Len(lines)
      THEN lines \o new_lines_split(new)
      ELSE SubSeq(lines, 1, start - 1) \o new_lines_split(new)
             \o SubSeq(lines, clamp + 1, Len(lines))

\* "\n".join(lines).
Join(lines) == IF lines = <<>> THEN Empty ELSE lines

\* new_text: a final newline is added if the original ended with one and the
\* joined lines do not.
file_edit(text, start, end, new) ==
  LET joined == Join(edited(text, start, end, new))
  IN  IF ended_with_newline(text) /\ ~ended_with_newline(joined)
      THEN Append(joined, "")
      ELSE joined

-----------------------------------------------------------------------------
(***************************************************************************)
(* file_read.                                                              *)
(***************************************************************************)
\* text.splitlines().
splitlines(text) ==
  FlattenSeq([i \in DOMAIN text |->
                CASE text[i] = "ff"                 -> <<"left", "right">>
                  [] text[i] = "" /\ i = Len(text)  -> <<>>
                  [] OTHER                          -> <<text[i]>>])

\* max(1, start_line) .. min(len(lines), end_line); empty: an error, unless the
\* file is.
read_range(text, start, end) ==
  (IF start < 1 THEN 1 ELSE start) ..
  (IF end < Len(splitlines(text)) THEN end ELSE Len(splitlines(text)))

MutantFileRead(text, start, end) ==
  {<<i - 1, splitlines(text)[i]>> : i \in read_range(text, start, end)}

\* The answer: line numbers with their lines.
file_read(text, start, end) ==
  {<<i, splitlines(text)[i]>> : i \in read_range(text, start, end)}

=============================================================================
