------------------------------- MODULE MCWorkspace -------------------------------
(***************************************************************************)
(* An instance of Workspace for TLC: all files of up to three lines over a *)
(* blank and a written line, and files with a form feed or bytes that are  *)
(* not UTF-8.                                                              *)
(***************************************************************************)
EXTENDS Workspace

AllLines == {"", "x", "y", "z", "ff", "bin"}

Texts(n) == UNION {[1..k -> {"", "x"}] : k \in 1..n}

SmallFiles == {Absent, <<"ff", "x">>} \cup Texts(3)
NewTexts   == {<<"">>, <<"y">>, <<"y", "">>, <<"", "">>, <<"y", "z">>}
Foreign    == {Absent, <<"x", "">>, <<"bin">>}

=============================================================================
