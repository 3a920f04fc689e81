# TLA+ models of AgentAnvil

AgentAnvil runs LLM agents as Kubernetes workloads.  The repository holds two
programs: an operator in Go that turns an `AgentTask` resource into a sandboxed
Pod and keeps its status (`api/`, `internal/controller/`, `cmd/`), and a Python
SDK that is the process inside the Pod: it reads the task, talks to an LLM, runs
tools and writes an event stream (`sdk/python/`).  The recording proxy, the replay
engine, checkpoints and the CLI are described in `README.md`, `INTERFACES.md` and
the plans; there is no code for them yet.

## Inventory

| Component | State | Operations | Hard behaviour |
|---|---|---|---|
| Reconciler (`agenttask_controller.go`) | none of its own; the status of the task, and local variables between API calls | `Reconcile`: initialise, create ConfigMap / NetworkPolicy / Pod, follow the Pod | reads caches that lag, writes that conflict, crash between two writes, retries |
| Watches and queue (`SetupWithManager`) | informer caches, work queue | events of tasks and Pods enqueue the task | each cache lags on its own; no event of ConfigMaps or NetworkPolicies counts |
| Builders (`pod_builder.go`, `network_policy.go`) | none | names, owners, the ConfigMap a Pod mounts | names that outlive a task |
| API types (`agenttask_types.go`) | phase, podName, startedAt, finishedAt, reason | | fields no code reads or writes |
| Cluster (external) | objects, owners, resourceVersions | users, kubelet, garbage collector | deletion and creation again under one name |
| Agent loop (`loop.py`) | step, conversation, totals, outcome | LLM call, tool calls, end of step | exceptions at every effect, kill |
| Event writer (`events.py`) | the file, the buffer of the file object, the current step | `emit`, `set_step`, `close`, `read_events` | raises before, inside or after the write; killed inside a write |
| Trace loader (`trace.py`) | none | `load_trace`, `total_steps`, `by_type` | torn last line |
| Entry point (`__main__.py`) | exit code | `main` | failures before the loop, the file of an earlier run |
| LLM clients | none | `complete` | exceptions, any combination of stop reason and tool uses |
| File tools (`tools/file_*.py`) | a file of the workspace | `file_read`, `file_write`, `file_edit` | line numbers at the ends of a file; several system calls on a file others may change |
| `bash`, `web_search` | processes | `run` | children that survive the timeout and go on writing |
| Clock and RNG (`deterministic.py`) | position in the recording | reads, `tick` | a failure between read and tick, more events than recorded |
| Sandbox Pod (`pod_builder.go`) | two containers | start, exit | a phase that depends on both |
| Configuration, pricing | none | parsing, price table | |

The operator and the SDK meet in three places: the ConfigMap that becomes
`task.yaml`, the exit of the process that becomes the state of the Pod, and the
event stream.  What each part must keep: a task gets one Pod, its status never
claims what its Pod did not do, an outcome is reported and stays, a Pod never
runs without its ConfigMap and NetworkPolicy, deletion leaves nothing; the event
stream is interpretable wherever it stops, its totals are right, every tool use
is answered, no change by the file tools is passed over, an edit changes the lines the
agent saw under the numbers it gives, the process ends and its end reaches the task.

`PROJECT.json` lists, under `hazards`, where each of these is at risk.

## Modules

* `AgentTaskAPI` - the `AgentTask` resource and Pods reduced to what the
  reconciler reads and writes, the builders, and `StatusFromPod`, the switch on
  the Pod's phase in `Reconcile`.
* `Cluster` (extends it) - the API server's objects for one task name and the
  actors besides the operator.  External code, modelled from its use: two uids
  under one name, owners compared by uid, `generateName`, optimistic
  concurrency, background and foreground deletion, Pods that end in any way, are
  deleted or lost with their node.
* `AgentTaskController` (extends it) - `Reconcile` by one worker.  `pc` is the
  next API call, `mem` the local variable `agenttask`.  Every read is from a
  cache and every write goes to the API server, so the code between two API
  calls is one action.  Branches and early returns are actions of their own
  (`ReconcileGone` ... `ReconcileBound`, `ConfigMapCached` ...
  `NetworkPolicyAlreadyExists`, `PodNotFound`, `PodFound`).  An API call may
  fail, may succeed with its answer lost, and the operator may be killed and
  start again.
* `AgentTaskControllerProofs`, `LifecycleProofs` - theorems (see Proofs).
* `TaskLifecycle` - the abstract specification: what a user who watches a task is
  promised.  It knows no cache, no API call, no queue and no crash.  A task gets
  one Pod of its own; it goes from Provisioning to Running and not back; the
  operator may lose track of the Pod and find it again (`LoseTrack`: phase Failed
  without an outcome); an outcome, once reported, is that of the Pod and stays for
  as long as the task names the Pod.
* `LifecycleRefinement` (extends `AgentTaskController`) - the refinement mapping.
  `life` is the stored task, its outcome read off `reason`, the one field that
  only the end of a Pod sets to these values; `owner` and `fate` are read off the
  Pods, which keep both when they are deleted.  Caches, `mem`, queue and `pc` are
  hidden, so every step of the worker but a successful status update must be a
  stutter.
* `MCOperator` - instances, and the claim of `README.md` that there is one Pod.
* `EventWriter` - the event stream as whole lines and the trace loader's view of it;
  `by_type` returns the events with their places in the stream.
* `AgentLoop` (extends it) - `run`, `_run_one_tool` and `main`.  `pc` is the next
  effect; every `emit` may raise, before or after the line is in the file; the
  process may be killed between any two effects, also between `agent_done` and the
  return of `main`.  `written` is what `file_write` and `file_edit` have changed; the
  code does not track what `bash` changes (`bash.py:4-6`), and neither does this module.
* `AgentLoopProofs`, `ConversationProofs` - theorems.
* `MCAgentLoop` - instances.
* `EventStream` - `emit` down to the pieces of a line: clock, validation, write and
  flush, echo, tick, each of which may raise; `close`, SIGKILL inside a write, the
  debris of an earlier run that `main` removes; `SystemClock` and `ReplayClock`;
  `read_events` on what is left.  A line has three pieces, two for the JSON and the
  newline, so a write can stop in it.  What a failed write leaves depends on the
  file object: a line that fits its 8 KB buffer stays there and goes out with the
  next flush (`ShortLineFails`), a longer one is lost in part (`LongLineFails`).
  What `read_events` returns is a function from the places at which lines begin to
  events.  `EventWriter` is the summary of this module that the loop is modelled over.
* `EventStreamProofs` - theorems.
* `FileLines` - the line arithmetic of `file_edit` and `file_read` as functions on
  texts.  A text is the sequence `text.split("\n")` of members of `Lines`; a line is blank, `"ff"` (holds a
  form feed or a lone carriage return, which `str.splitlines` splits and `split("\n")`
  does not), `"bin"` (not UTF-8), or any other.
* `Workspace` (extends it) - the tools on one file.  `pc` is the system call that
  comes next in the running tool: `file_write` asks `exists`, `stat` and `exists`
  again before it writes, `file_edit` asks and reads, `file_read` asks, asks for the
  size and reads.  `write_bytes` is two system calls: `Truncate` opens the file and
  empties it, `WriteBytes` writes.  The write may stop after any part of the text
  (`Torn`); when another process has changed the file in between, the text is written
  over what that process wrote, or into a file it has replaced (`Landed`).  `emit` may
  raise after the write, with the event in the stream or not (`EmitRaises`).  The shell of `bash` forks children that hold its
  stdout (`piped`) or do not (`detached`); the timeout kills the shell only; each
  of them may change the file between any two system calls of a later tool.
  `was`, `raced`, `unrecorded` and `failed` are history for the properties.
* `WorkspaceProofs` - theorems.
* `MCWorkspace` - an instance.
* `Induction` - that a set of natural numbers has a least element, on which the
  proofs about sums and concatenations rest.
* `SandboxPod` (extends `AgentTaskController`, instantiates `AgentLoop`) - the
  composition: operator, kubelet, the agent container with `AgentLoop` in it, and
  the proxy container, for now `sleep 30`.  Either container may fail.  The phase of
  the Pod follows from both, because nothing restarts them (`PodPhase`); the task
  follows the phase.  Unlike `StartPod` and
  `FinishPod` in `Cluster`, the start and the end of containers and the kubelet's
  report of them are separate steps.
* `SandboxPodProofs` - theorems.
* `MCSandboxPod` - an instance.

### Abstractions

* A spec is a model value.  `calculateSpecHash` is taken to be injective, so a
  spec stands for the name of its ConfigMap.
* An informer cache that catches up jumps to the present state of an object; it
  may skip intermediate versions, as watches do when events are compacted, and it
  may stay behind for any time.  It does not stop at every intermediate version.
  After a restart the first list shows the present state; that the API server may
  answer it from a watch cache of its own which is behind is left out.
* resourceVersions are compared for equality only, so a new one is any of four
  that no copy of the task carries.
* A Reconcile that starts to create a Pod from a stale copy of the task is
  counted as a fault, because each one may add a Pod; other stale reads are free.
* Timestamps are whole seconds, the resolution of `metav1.Time` on the wire.
* In `AgentLoop`, calls of `emit` and of the clock that raise are one kind of
  failure, and a line is written wholly or not at all.  `EventStream` tells the
  failures apart and tears lines.
* In `EventStream` the real clock is represented by the number of the call, and an
  event by its number and its `monotonic_ns`; whether a line is short or long is a
  choice at every failure.
* In `Workspace` all tools work on one file; a call whose arguments are refused, or
  whose path is that of another file, changes nothing that is modelled.  File
  sizes count one byte for every line that is not blank, and `MAX_FILE_BYTES` is
  scaled down with them.  The clipping of a result (`MAX_INLINE_RESULT_BYTES`) and
  the text of outputs are left out.
* `SandboxPod` has one Pod and no fault of the operator: what may cause a second
  Pod is checked for the operator alone.
* Input and output tokens are one number; costs, hashes and wall clock are left
  out.
* Left out because no input reaches it: `buildPodForAgentTask` and
  `yaml.Marshal` failing on a typed spec, a Pod without the volume that
  `buildPodForAgentTask` gives it.

## Runs

All bounds are CONSTANTS with the values of the `.cfg` files.

| Run | Instance | Shows |
|---|---|---|
| `operator_faults` | two specs, one task, two Pods that may fail, one edit, deletion or lost node, one fault of any kind (stale read, refused call, lost reply, crash); 2.9 million states | `TypeOK`, `StatusTruthful`, `DependenciesPresent`, `BoundOnce`, `OutcomeIsFinal` |
| `operator_progress` | one task, Pods that succeed or are evicted, two seconds, one fault of any kind, fairness | `StatusTruthful`, `OutcomeIsFinal`, `ImplementsLifecycle`, `SubmittedTaskGetsPod`, `OutcomeReported` |
| `operator_cleanup` | two tasks under one name; one of: either kind of deletion, an edit, `podName` emptied by hand, a lost node; fairness | `StatusTruthful`, `ImplementsLifecycle`, `SubmittedTaskGetsPod`, `DependentsCollected`, `BoundOnce`, `InvalidTaskFails` |
| `agent_loop` | two steps, two tool uses each, two token counts, two failures of `emit`, kill, fairness; 1 million states | `TypeOK`, `LogWellFormed`, `ConversationWellFormed`, `RecordedOrReported`, `DoneAccounts`, `CleanTermination`, `Terminates` |
| `event_stream` | five calls of `emit`, three failures, kill inside any write, system clock and a replay of three events | `TypeOK`, `EmittedIsDurable`, `ReaderHonest`, `OnlyLastLineTorn`, `ReplayStamps` |
| `workspace` | two calls of any tools on every text of up to three lines, torn writes, failing events, a shell and two children, fairness | `TypeOK`, `MutationsAccount`, `MutationHonest`, `EditExact`, `NumbersAgree`, `ToolReturns` |
| `sandbox_pod` | one task, one Pod, an agent of one LLM call, all ends of both containers, evictions, deletions, kills, fairness | `StatusMatchesProcess`, `SubmittedTaskEnds` |

`CHECK_DEADLOCK FALSE` everywhere: the operator may have nothing to do, the agent
process exits.

Why the bounds are enough.  Two Pods of one task, one task after another, and one
fault are the smallest instances in which a duplicate, a mix-up of incarnations
or a retry exists; a second fault repeats the first from a state that is already
reachable.  `MaxEdits` bounds edits, deletions and lost nodes together; a lost node
may come back, and the Pod may end or be deleted while it is lost.  The ways in which a
Pod ends are spread over the runs: by failure next to every fault and edit, by success
and eviction with the clock and under fairness, and all of them in `sandbox_pod`.
`MaxPods` is the number of tasks plus the edits or faults that can
make `Reconcile` create one more, so the guard on `podCount` never holds the worker
back in a run with liveness.  In the loop two failures of `emit` reach the except
branch and fail inside it; two tool uses and two steps have a first, a last and a
next of each, and two token counts make two responses that cannot be mistaken for
each other in a total.  In the event stream three failures let one write fail, the
next one fail on what the first left in the buffer, and a third one after that;
five calls against three recorded events reach the end of the recording and go
past it.  In the workspace one call leaves children behind and the second runs
among them; texts of three lines have a first, a last and one between, with and
without a final newline, and line numbers up to four reach one past the end, where
an edit appends, and two past the end of shorter texts, where it is refused.  The
composition needs only the ways in which a process ends (exit 0 after any outcome,
a failure before the loop, a kill), not what it does before, so the agent makes one
LLM call without tools there; `agent_loop` covers the rest.

Fairness.  `Fairness` of the operator says that the worker serves a queued
request and its API calls return (controller-runtime runs the worker while the
manager runs), that every watch delivers in the end, and that the garbage
collector works.  It says nothing of users, of Pods ending, or of faults, which
are finite.  `FairSpec` of the loop says that calls return: the client has a
timeout, `subprocess.run` is called with one, the other tools are local.  `Spec` of
`Workspace` assumes weak fairness of the steps of the running tool, the timer of
`bash` among them, and nothing of the shell and its children, which may run for
ever.  `SandboxFairness` adds to the operator's fairness that containers start,
that the process runs, that `sleep 30` ends and that the kubelet reports.
`EventStream` has no liveness property and no fairness.

### What the code does not keep

Five runs are expected to end in a violation; each states what a document or a
comment says.

* `claim_one_pod`: "Each `AgentTask` becomes one pod" - a Reconcile that reads the
  task before its last status update is in the cache creates a second Pod.  The
  update that follows meets a conflict, so the task stays bound to the first
  (`BoundOnce`), but the second runs.
* `claim_dependencies`: a Pod has its NetworkPolicy and ConfigMap - those of a
  deleted task of the same name are accepted and then collected.  With one task
  per name it holds (`operator_faults`).
* `claim_partial_trace`: "a partial trace is more useful than no trace"
  (`events.py:10`) - a process killed inside a write leaves a torn last line,
  `read_events` raises on it, and the events before it cannot be read either.  The
  file itself is as good as it can be: every event whose `emit` returned is in it
  (`EmittedIsDurable`), and as long as no line outgrows the buffer only the last
  line is torn (`OnlyLastLineTorn`).
* `claim_edit_range`: "The range is interpreted as the closed interval [start_line,
  end_line] of the original file" (`file_edit.py:14`) - editing another line of a
  file that ends with a blank line and a newline removes the blank line, because
  the joined lines already end with a newline.  `EditExact` says that nothing worse
  happens.
* `claim_event_order`: "[tool_call_start, tool_call_end, file_mutation*]  zero or more
  times" (`loop.py:11`) - the tool emits `file_mutation` while it runs, so it comes before
  the `tool_call_end` of its call.  `LogWellFormed` states the order that the code keeps.

Other places where code and documents differ, seen in the models and not given a
run of their own:

* The terminal phases are not final: "Pod not found" is written for a Pod the cache
  does not show yet and taken back later, and so is the Failed of a lost node.  This
  is `LoseTrack` of `TaskLifecycle`; what was read from the end of a Pod is final.
* "Timeout enforced by the operator" (`README.md:95`): nothing reads the timeout.
* `loop.py:14-16`: an exception in the loop does not always lead to `agent_done`,
  because the `emit` of the except branch may raise as well.  `CleanTermination` states
  the rest: no exception of the client or of a tool does that.
* "Every LLM call, tool call, and filesystem mutation emitted" (`README.md:114`): the
  changes that `bash` and its children make are in no event, nor is a write that stopped
  in the middle, nor one whose `emit` raised before the line was written.  Of the last
  two the LLM is told by a failed tool call (`RecordedOrReported`), of the first by
  nothing.
* "The operator distinguishes these to set AgentTask `status.reason`" (`INTERFACES.md:298-305`,
  of the exit codes 1, 124 and 137): `Reconcile` reads no exit code.  A crash, a kill and a
  proxy that failed all become "Pod failed.", and no code exits with 124.  So
  `StatusMatchesProcess` can only say that it was one of them.
* With `max_steps` 0 `agent_done` reports 0 steps and `Trace.total_steps` 1, because the
  events outside of the loop carry step 0.  `DoneAccounts` states it.
* `pod_builder.go:108-109` says that the proxy waits for the agent to finish; it is
  `sleep 30` and does not.  A task therefore is Running for at least as long as the
  proxy sleeps, also when its agent crashed at once.
* Deleting all lines of a file that ends with a newline leaves one blank line.
* `file_read` numbers lines by `splitlines`, `file_edit` by `split("\n")`.  With a form
  feed or a lone carriage return in the file the numbers differ, and an edit hits
  another line than the one shown; `NumbersAgree` is stated without such files.
* In a replay both clock reads around an LLM call return the stamp of the next
  event, so `latency_ms` is 0 in `llm_call_end`; the wall clock of `agent_done` is read
  from `time.time()`.
* The resource accepts any `checkpointPolicy.mode`; the SDK's model refuses the ones it
  does not know, and the process exits with 1 before it has written an event.

## Proofs

The theorems hold for every value of the constants that the named assumptions of
the modules allow; those say what kind of value a constant is, unless it is noted
below.  Every inductive invariant was also checked by TLC on the instance of the
component's run.

| Theorem | States | Rests on |
|---|---|---|
| `TypeCorrect` | `Spec => []TypeOK` (operator) | |
| `StatusIsTruthful` | `Spec => []StatusTruthful` | `IInv` |
| `TaskBoundOnce` | `Spec => BoundOnce` | `IInv` |
| `OutcomeFinal` | `Spec => OutcomeIsFinal`, if `~StatusEdits` | `RInv` |
| `Refinement` | `Spec => ImplementsLifecycle` | `RInv` |
| `DependenciesOfFirstTask` | `Spec => [](uids <= 1 => DependenciesPresent)` | `KInv` |
| `LoopTypeCorrect` | `Spec => []TypeOK` (loop): never more than `MaxSteps` steps | `Counted` |
| `StreamWellFormed` | `Spec => []LogWellFormed` | `LInv` |
| `TotalsAccounted` | `Spec => []DoneAccounts`, `max_steps = 0` included | `AInv`, `LeastNumber` |
| `TerminatesCleanly` | `Spec => []CleanTermination` | `AInv` |
| `ConversationCorrect` | `Spec => []ConversationWellFormed` | `CInv` |
| `ChangesOwnedUp` | `Spec => []RecordedOrReported` | `CInv` |
| `StreamTypeCorrect` | `Spec => []TypeOK` (event writer) | `SInv` |
| `NothingEmittedLost` | `Spec => []EmittedIsDurable` | `SInv` |
| `StampsReplayed` | `Spec => []ReplayStamps` | `SInv` |
| `TornOnlyAtEnd` | `Spec => []OnlyLastLineTorn` | `SInv` |
| `AnswersHonest` | `Spec => []ReaderHonest` | `SInv` |
| `WorkspaceTypeCorrect` | `Spec => []TypeOK` (tools) | `WInv` |
| `MutationsAccounted` | `Spec => []MutationsAccount` | `WInv` |
| `MutationsHonest` | `Spec => []MutationHonest` | `WInv` |
| `EditsExact` | `Spec => []EditExact` | `WInv` and lemmas on texts |
| `ShownLinesAgree` | `Spec => []NumbersAgree` | `WInv`, `LeastNumber` |
| `ProcessMatched` | `SandboxSpec => []StatusMatchesProcess` | `PInv` |
| `Composition` | `SandboxSpec => Spec /\ Agent!Spec` | `PInv` |

### The operator

`StatusTruthful` is not inductive: the status that is written next is in `mem`, was
computed from `cacheTask` and `cachePods`, and is safe only because the API server
compares versions.  `IInv` therefore adds

* `PodsOwned`: a name not handed out yet names no Pod, and every Pod has an owner;
* `CacheFollowed`: what the cache shows of a Pod is a state the Pod had, and a Pod
  does not leave a final state;
* `AllHonest`: the task, the cached copy and the copy in `mem` all are truthful, and
  have no start time while they wait for a Pod;
* `WorkerKnows`: what each value of `pc` says about `mem`;
* `VersionsDecide`: a copy with the version of the stored task is a copy of that
  task, so an update that meets no conflict is a step from the stored status.

That an outcome stays, and that Running does not become Provisioning again, needs
more.  Truth is not enough: a Pod that has ended was once Running, so an older
cached state of it would be true as well.  The operator goes back only if the cache
shows an older state of the Pod than the one the status came from.  It cannot,
because the status came from this very cache.  `RInv` adds to `IInv`

* `CopiesSound`: every copy of the task tells an outcome of its Pod and by the right
  phase (`OutcomeTrue`), and what the cache shows of the Pod is at least as recent as
  what the status tells (`CacheKnows`);
* `NextMove`: a status that is about to be written and will meet no conflict is one
  move of the lifecycle away from the stored status (`Advances`), and no move at all
  if the stored one has an outcome;
* `NothingLeft`: a task or a Pod that does not exist has no content.

`Refinement` then goes through the steps: `Init` maps to the initial state of
`TaskLifecycle`; a successful status update is a move by `NextMove` (`MoveIsStep`);
changes of the task by users are steps of their own (`TaskIsStep`), those of Pods too
(`PodIsStep`); everything else leaves `life`, `owner` and `fate` alone.
`OutcomeFinal` assumes that no administrator edits a status: after `podName` was emptied
the operator does replace an outcome, by "Invalid state".

`DependenciesPresent` fails from the second task of a name on (`claim_dependencies`);
it is proved while `uids <= 1`.  `KInv` adds to `RInv` that every copy of a task has a
spec (`SpecsKnown`), that every object belongs to a task that was submitted
(`OwnersKnown`), and, as long as the first task is alive, `Present`: what the caches
show is there, and what the worker has ensured is there while it goes on to the next
call.  Nothing is collected in this time because the only owner there can be lives.

### The agent loop

`LogWellFormed` relates neighbours in the stream only, so its invariant `LInv` says
what the next neighbour may be: `Ready`, the event that is due may follow the last
line; `Between`, the same for the moments at which no event is due; `Counted`, the
writer's step is the loop's step inside a step, and a tool use that is handled is
one of the response.  That an `emit` may raise with its line written or lost is
covered because `agent_error` may follow either line.

`AInv` is about the totals.  `agent_done` reports what the variables `step` and `tokens`
hold, the trace loader counts lines; the two run apart while an event is due, and for
good when its `emit` raises.  `Accounts` says by how much:

* `Running`: in the loop the ends of steps in the stream are `step`, and its tokens are
  `tokens`, but for those of a response whose `llm_call_end` is due;
* `Broken`: after an exception the end of a step may be in the stream although `step`
  does not count it, and `tokens` may count a response whose line was lost, never
  the other way round;
* `Finished`, `Settled`: the same before and after `agent_done` is written;
* `Ending`: `main` returns only behind `agent_done`, and a process that has started its
  stream crashes only after a failure of `emit`, which is `CleanTermination`;
* `Stamps`: no event carries a later step than the writer's, so `total_steps` reads
  off the last one;
* `Branches`: only the except branch writes `agent_error`, and `max_steps` means that
  the budget is used up.

The rest is what one more event adds to a sum (`SpentAppend`) and to a count
(`EndsAppend`).

`CInv` is about the conversation.  `Turn` gives its length at every point of a step and
ties the last message to the response; `Handled` says that the results so far are
those of the tool uses before the current one, so the message they become answers
each once; `Alternates` and `Answered` are about the messages that are there.  `OwnsUp`
follows a write from the tool to the LLM: until its answer is sent it is in the
stream, or has a result that reports a failure, or its event is due.

### The event stream

A failed write moves the border between what is in the file and what is still in the
buffer, so nothing about the file alone is inductive.  `SInv` is about `Stream`, the
file followed by the buffer:

* `Sorted`, `Bounded`: its pieces are those of this run, in the order of the calls and
  of their places in a line, and none is of an event yet to be written;
* `Linked`, while no piece was lost: a piece follows the one before it in its line;
  `Whole`: the last line in it is complete while the process lives;
* `Stamped`: the stamps of the events that returned count them;
* `Kept`: the line of every event that returned or was echoed is in the file itself;
* `Current`: the event in hand is that of the present call and carries its stamp.

The file is a prefix of the stream, which is how the properties follow.

### The tools

`WInv` says what each point of a tool knows of the file, under `~raced`, the condition
that no other process has changed it during the call: `Found` and `Asked` on the way to
the write, `Writing` at the write and after it, where the text to write is the one
computed from the text that was read (`Computed`) and the event will tell the file's
past (`Tells`).  `MutationsAccount` is
inductive with these: the call that truncates the file is the one that settles it, by its
event or by its failure, and the text that is written lands as it is unless another process
has come between.  `EditExact` follows for all texts and ranges from lemmas on `content_lines`,
`edited` and `Join`, with no condition on races.

`NumbersAgree` is inductive together with `WInv`: whatever changes the file also ends
what `shown` claims of it.  What is left is that both tools number the lines of one text
alike (`SameLines`): of a text without form feeds `splitlines` leaves out at most the last
line, and that one only if it is blank (`SplitPlain`), and so does `content_lines`, except
for a text of one blank line, which `file_read` does not show.

### Recursive definitions

`Spent` and the concatenation in `splitlines` are recursive functions.  The induction
theorems of the library take a predicate, which the provers cannot instantiate; that
every non-empty set of numbers has a least element (`LeastNumber`) needs none.  A proof by it
gives a function that solves the recursion, concludes that the one the definition
chooses solves it as well, and takes the least argument at which they differ: it is not
the first, and they agree just before it (`SpentIsSum`, `Flattened`).

### The composition

`PInv` is `KInv` with `Mounted`, containers run in a Pod that was created and whose
ConfigMap is there; `ProcessEnds`, the process ends once, and with 0 only behind
`agent_done`; and `PodEnds`, a Pod that succeeded has an agent and a proxy that exited with
0, and one that failed has an agent that did not or a proxy that failed.  `Mounted` makes every step of the
composition a step of `AgentTaskController` (`OperatorStep`), which gives `KInv` without
a second proof, and `Composition`.  The named assumption is
`SandboxAssumption`: one Pod, nobody edits a status, and `PodOutcomes` does not rule out
an end that containers can bring about.

### Only model-checked

* The liveness properties (fairness and ENABLED are beyond the prover).
* Nothing else: every invariant and action property of the passing runs is a theorem.
  `DependenciesPresent` is one for the first task of a name only, because beyond that it
  does not hold (`claim_dependencies`), and `OutcomeIsFinal` where nobody edits a status.

## Not modelled

* `cmd/main.go` except for the restart of the manager, the generated code,
  `config.py` and `pricing.py`: declarations and configuration without state or
  order.  A `task.yaml` that does not load is `StartFails` of `AgentLoop`.
* The translation of Anthropic's content blocks in `client/anthropic.py`: the loop is
  checked with every response of the declared shape instead.
* The RNG classes of `deterministic.py`: no code uses them.
* The choice between a directory and a file in `load_trace`.
* The recording proxy, the replay engine, checkpoints and the CLI: there is no code.
* That the branch for an invalid state rewrites `finishedAt` for ever
  (`agenttask_controller.go:149`): the model has the rewriting, but that it never
  stops is a statement about an unbounded clock, which `MaxTime` cuts off.

## Plan

1. Operator: `AgentTaskAPI`, `Cluster`, `AgentTaskController`, its runs and the
   first theorems (done).
2. Agent loop and event stream: `EventWriter`, `AgentLoop` (done).
3. `TaskLifecycle`, the abstract specification, and `LifecycleRefinement` (done).
4. `EventStream`: the event writer down to torn lines, the replay clock, the reader
   (done).
5. `FileLines` and `Workspace`: the tools, their line arithmetic, and the children of
   `bash` (done).
6. `SandboxPod`: operator, kubelet and agent together (done).
7. Proofs: the safety properties of all components (done, see Proofs).
8. Proofs about sums and concatenations: `DoneAccounts`, `NumbersAgree` (done).
