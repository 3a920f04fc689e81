------------------------------- MODULE EventStream -------------------------------
(***************************************************************************)
(* EventWriter.emit (agent_anvil/events.py) down to the bytes: the file,   *)
(* the buffer of the open file object, the echo to stdout and the clock    *)
(* (agent_anvil/deterministic.py), and read_events on what is left on      *)
(* disk.  Module EventWriter is the summary of it that AgentLoop uses.     *)
(*                                                                         *)
(* A line is three pieces, <<event, 1>> and <<event, 2>> for the JSON and  *)
(* <<event, 3>> for the newline, so that a write may stop inside of it.    *)
(* An event is its number (the calls of emit are counted) and its          *)
(* monotonic_ns; event 0 is debris of an earlier run.                      *)
(*                                                                         *)
(* What a failed write leaves depends on the length of the line: one that  *)
(* fits the 8 KB buffer of the file object stays there and goes out with   *)
(* the next flush; a longer one is written directly and what the system    *)
(* call did not take is lost.                                              *)
(***************************************************************************)
EXTENDS Integers, Sequences, FiniteSets

CONSTANTS
  MaxEvents,  \* bound on the calls of emit
  MaxRaises,  \* bound on the writes, echoes and validations that raise
  Recorded    \* Len(pairs): the events of the run that is replayed

ASSUME StreamAssumption ==
  /\ MaxEvents \in Nat
  /\ MaxRaises \in Nat
  /\ Recorded \in Nat

VARIABLES
  pc,        \* "main", "ready", inside emit "write", "echo" or "tick", "ended"
  file,      \* the pieces in events.jsonl
  buffer,    \* the pieces held by the file object
  replay,    \* whether the clock is a ReplayClock
  idx,       \* ReplayClock._idx
  event,     \* the event being emitted
  calls,     \* calls of emit so far
  raises,    \* failures so far
  echoed,    \* numbers of the events written to stdout
  returned,  \* numbers of the events whose emit has returned
  lost       \* whether part of a long line has been lost

vars == <<pc, file, buffer, replay, idx, event, calls, raises, echoed, returned, lost>>

Events == [n : 0..MaxEvents, ns : Nat]
Pieces == Events \X (1..3)
Debris == [n |-> 0, ns |-> 0]

Line(e) == <<<<e, 1>>, <<e, 2>>, <<e, 3>>>>

\* The type invariant.
TypeOK ==
  /\ pc \in {"main", "ready", "write", "echo", "tick", "ended"}
  /\ file \in Seq(Pieces) /\ buffer \in Seq(Pieces)
  /\ replay \in BOOLEAN /\ lost \in BOOLEAN
  /\ idx \in 0..Recorded
  /\ event \in Events
  /\ calls \in 0..MaxEvents
  /\ raises \in 0..MaxRaises
  /\ echoed \subseteq 1..MaxEvents
  /\ returned \subseteq 1..MaxEvents

Init ==
  /\ pc = "main"
  /\ file \in {<<>>, Line(Debris)}
  /\ buffer = <<>>
  /\ replay \in BOOLEAN
  /\ idx = 0
  /\ event = Debris
  /\ calls = 0
  /\ raises = 0
  /\ echoed = {}
  /\ returned = {}
  /\ lost = FALSE

MutantOpenWriter ==
  /\ pc = "main"
  /\ pc' = "ready"
  /\ UNCHANGED <<file, buffer, replay, idx, event, calls, raises, echoed, returned, lost>>

\* main removes the file of an earlier run, EventWriter.__init__ opens it to
\* append.
OpenWriter ==
  /\ pc = "main"
  /\ file' = <<>>
  /\ pc' = "ready"
  /\ UNCHANGED <<buffer, replay, idx, event, calls, raises, echoed, returned, lost>>

-----------------------------------------------------------------------------
(***************************************************************************)
(* emit.                                                                   *)
(***************************************************************************)
Raise ==
  /\ raises < MaxRaises
  /\ raises' = raises + 1

MutantCanStamp == ~replay \/ idx <= Recorded

\* now_iso() and monotonic_ns().  The real clock is represented by the number
\* of the call.
CanStamp == ~replay \/ idx < Recorded

Stamp == IF replay THEN idx + 1 ELSE calls + 1

BeginEmit ==
  /\ pc = "ready"
  /\ calls < MaxEvents
  /\ CanStamp
  /\ event' = [n |-> calls + 1, ns |-> Stamp]
  /\ calls' = calls + 1
  /\ pc' = "write"
  /\ UNCHANGED <<file, buffer, replay, idx, raises, echoed, returned, lost>>

\* IndexError: the replay has no pair left.
ClockExhausted ==
  /\ pc = "ready"
  /\ calls < MaxEvents
  /\ ~CanStamp
  /\ calls' = calls + 1
  /\ UNCHANGED <<pc, file, buffer, replay, idx, event, raises, echoed, returned, lost>>

\* The envelope cannot be built or serialised.
InvalidEvent ==
  /\ pc = "write"
  /\ Raise
  /\ pc' = "ready"
  /\ UNCHANGED <<file, buffer, replay, idx, event, calls, echoed, returned, lost>>

MutantWriteLine ==
  /\ pc = "write"
  /\ buffer' = buffer \o Line(event)
  /\ pc' = "echo"
  /\ UNCHANGED <<file, replay, idx, event, calls, raises, echoed, returned, lost>>

\* write and flush: what the buffer still holds goes out first.
WriteLine ==
  /\ pc = "write"
  /\ file' = file \o buffer \o Line(event)
  /\ buffer' = <<>>
  /\ pc' = "echo"
  /\ UNCHANGED <<replay, idx, event, calls, raises, echoed, returned, lost>>

Prefix(s, k) == SubSeq(s, 1, k)
Rest(s, k)   == SubSeq(s, k + 1, Len(s))

MutantShortLineFails ==
  /\ pc = "write"
  /\ Raise
  /\ \E k \in 0..Len(buffer) + 2 :
       file' = file \o Prefix(buffer \o Line(event), k)
  /\ buffer' = <<>>
  /\ pc' = "ready"
  /\ UNCHANGED <<replay, idx, event, calls, echoed, returned, lost>>

ShortLineFails ==
  /\ pc = "write"
  /\ Raise
  /\ \E k \in 0..Len(buffer) + 2 :
       /\ file' = file \o Prefix(buffer \o Line(event), k)
       /\ buffer' = Rest(buffer \o Line(event), k)
  /\ pc' = "ready"
  /\ UNCHANGED <<replay, idx, event, calls, echoed, returned, lost>>

\* The end of a long line that fits the buffer again is kept, so a newline is
\* never the only piece that is lost.
LongLineFails ==
  /\ pc = "write"
  /\ Raise
  /\ \/ \E k \in 0..Len(buffer) - 1 :
          file' = file \o Prefix(buffer, k) /\ buffer' = Rest(buffer, k)
     \/ \E k \in 0..1 :
          file' = file \o buffer \o Prefix(Line(event), k) /\ buffer' = <<>>
  /\ lost' = TRUE
  /\ pc' = "ready"
  /\ UNCHANGED <<replay, idx, event, calls, echoed, returned>>

\* With or without --echo-events.
Echo ==
  /\ pc = "echo"
  /\ echoed' \in {echoed, echoed \cup {event.n}}
  /\ pc' = "tick"
  /\ UNCHANGED <<file, buffer, replay, idx, event, calls, raises, returned, lost>>

\* Nobody reads stdout any more.
EchoFails ==
  /\ pc = "echo"
  /\ Raise
  /\ pc' = "ready"
  /\ UNCHANGED <<file, buffer, replay, idx, event, calls, echoed, returned, lost>>

MutantAdvance == idx' = idx

\* tick; a SystemClock has none.
Advance == idx' = IF replay THEN idx + 1 ELSE idx

\* tick and return envelope.
TickAndReturn ==
  /\ pc = "tick"
  /\ Advance
  /\ returned' = returned \cup {event.n}
  /\ pc' = "ready"
  /\ UNCHANGED <<file, buffer, replay, event, calls, raises, echoed, lost>>

-----------------------------------------------------------------------------
(***************************************************************************)
(* The end of the process.                                                 *)
(***************************************************************************)
\* close flushes what is left; if that raises too, the rest is gone.
Close ==
  /\ pc = "ready"
  /\ \E k \in 0..Len(buffer) : file' = file \o Prefix(buffer, k)
  /\ buffer' = <<>>
  /\ pc' = "ended"
  /\ UNCHANGED <<replay, idx, event, calls, raises, echoed, returned, lost>>

\* SIGKILL; inside a write part of it may be done.
Kill ==
  /\ pc \notin {"main", "ended"}
  /\ \E k \in 0..(IF pc = "write" THEN Len(buffer) + 2 ELSE 0) :
       file' = file \o Prefix(buffer \o Line(event), k)
  /\ buffer' = <<>>
  /\ pc' = "ended"
  /\ UNCHANGED <<replay, idx, event, calls, raises, echoed, returned, lost>>

Next ==
  \/ OpenWriter
  \/ BeginEmit \/ ClockExhausted \/ InvalidEvent
  \/ WriteLine \/ ShortLineFails \/ LongLineFails
  \/ Echo \/ EchoFails \/ TickAndReturn
  \/ Close \/ Kill

Spec == Init /\ [][Next]_vars

-----------------------------------------------------------------------------
(***************************************************************************)
(* read_events.                                                            *)
(***************************************************************************)
\* Where the lines of f end: after a newline, and at the end of the file.
LineEnds(f) == {i \in 1..Len(f) : f[i][2] = 3} \cup {0, Len(f)}

\* for line in fp.
LinesOf(f) ==
  {SubSeq(f, ends[1] + 1, ends[2]) :
     ends \in {e \in LineEnds(f) \X LineEnds(f) :
                 e[1] < e[2] /\ \A i \in LineEnds(f) : i <= e[1] \/ i >= e[2]}}

\* json.loads and model_validate take one whole event, with or without the
\* newline that strip removes; a blank line is skipped.
Parses(line) ==
  \/ Len(line) = 1 /\ line[1][2] = 3
  \/ Len(line) \in {2, 3} /\ line = Prefix(Line(line[1][1]), Len(line))

ReadRaises(f) == \E line \in LinesOf(f) : ~Parses(line)

\* The events of a file on which it does not raise, each by the place where its
\* line starts; the answer lists them in the order of the places.
read_events(f) == [i \in {k \in 1..Len(f) : f[k][2] = 1} |-> f[i][1]]

-----------------------------------------------------------------------------
(***************************************************************************)
(* Properties.                                                             *)
(***************************************************************************)
\* Where the line of event number n starts, all in one piece.
At(n) == {i \in 1..Len(file) - 2 : /\ file[i][1].n = n
                                   /\ SubSeq(file, i, i + 2) = Line(file[i][1])}

\* No event is lost once its emit has returned (events.py:8, "flushes after every
\* event so that crashes don't lose the trailing events") or once stdout shows
\* it: its line is in the file, whole and once, behind those of earlier calls,
\* whatever an earlier write left in the buffer or tore and wherever the process
\* was killed.
EmittedIsDurable ==
  /\ \A n \in returned \cup echoed : Cardinality(At(n)) = 1
  /\ \A n, k \in returned : n < k => \A i \in At(n), j \in At(k) : i < j

\* When read_events answers, the answer is right: the events of this run and of
\* no earlier one, in the order of the calls, none twice and none missing whose
\* emit returned (events.py:138-147, __main__.py:113-116).
ReaderHonest ==
  pc # "main" /\ ~ReadRaises(file) =>
    LET evs == read_events(file)
    IN  /\ \A i, j \in DOMAIN evs : i < j => evs[i].n < evs[j].n
        /\ \A i \in DOMAIN evs : evs[i].n # 0
        /\ returned \subseteq {evs[i].n : i \in DOMAIN evs}

\* As long as no line is longer than the buffer, only the last line of the file
\* can be unreadable, and only when it has no newline yet: a failed write is
\* completed by the next one and never runs into it.
OnlyLastLineTorn ==
  pc # "main" /\ ~lost => \A line \in LinesOf(file) : line[Len(line)][2] = 3 => Parses(line)

\* A replayed stream has the timestamps of the recorded one, event for event,
\* over the calls that return: the k-th of them carries the k-th pair, none is
\* left over or used twice however often emit raises, and a call past the last
\* pair writes nothing (deterministic.py:44-78, "the replayed stream has
\* identical timestamps").  In file order the stamps never go back.
ReplayStamps ==
  /\ replay => \A n \in returned : \A i \in At(n) :
                 file[i][1].ns = Cardinality({k \in returned : k <= n})
  /\ \A i, j \in 1..Len(file) : pc # "main" /\ i < j => file[i][1].ns <= file[j][1].ns

\* events.py:10, "a partial trace is more useful than no trace".  Violated: when
\* the process is killed inside a write the last line is torn, read_events raises
\* on it, and with it all earlier events of the trace are out of reach.
PartialTraceReadable == pc = "ended" /\ returned # {} => ~ReadRaises(file)

=============================================================================
