# pi-mono-python in TLA+

A verification development for `pi_mono` (paths below are relative to
`src/src/pi_mono/`): TLA+ models of the parts where order, failure and
concurrency decide whether the program is correct, TLC runs on small instances,
and TLAPS proofs for every value of the constants.

Run, in this directory:

    tlc -workers 2 -config AgentTools.cfg MCAgentTools
    tlapm AgentProofs.tla

## Contents

| Module | Models | Checked by (run: config) | Proved in |
|---|---|---|---|
| `Agent`, `AgentProperties` | `agent/agent.py`, `agent/agent_loop.py` | `agent_queues`, `agent_tools`, `agent_orphans` | `AgentProofs`, `DeliveryProofs` |
| `MessageDelivery` | what both agents promise of a message, abstractly | `agent_queues`, `harness` | `DeliveryProofs` |
| `AgentHarness`, `HarnessProperties` | `agent/harness/agent_harness.py` | `harness`, `harness_overlap` | `HarnessProofs` |
| `AgentSession`, `AgentSessionProperties` | `coding_agent/core/agent_session.py` | `agent_session` | `AgentSessionProofs` |
| `SessionManager` | `core/session_manager.py` | `storage` | |
| `HarnessStorage` | `agent/harness/session/` | `storage` | `HarnessStorageProofs` |
| `Requests` | compaction, `transform_messages`, `convert_messages` | `storage` | |
| `Credentials` | `core/auth_storage.py` | `credentials` | `CredentialsProofs` |
| `Streams`, `StreamProperties` | `utils/event_stream.py`, the stream functions of `ai/providers/`, `agent/proxy.py` | `answers` | |
| `PartialJson` | `utils/json_parse.py` | `answers` | |
| `Shell` | `agent/harness/env/local.py`, the bash tool and executor | `agent_tools` | |
| `Rpc` | `coding_agent/modes/rpc/` | `agent_tools`, `rpc_piped` | |
| `FileTools` | `edit`, `write` and the file mutation queue | `host` | `FileToolsProofs` |
| `Settings` | `core/settings_manager.py` | `host` | |
| `Login` | `ai/utils/oauth/` and the login dialog | `host` | |
| `Models` | `core/model_registry.py`, `model_resolver.py` | `host` | |
| `Extensions` | `coding_agent/core/extensions/` | `host` | |
| `Packages` | `package_manager.py` and its CLI | `host` | |
| `TerminalInput` | `tui/stdin_buffer.py`, `tui/terminal.py` | `terminal` | |
| `Renderer`, `Overlays` | `tui/tui.py` | `terminal` | |
| `Editor` | `tui/components/editor.py`, kill ring, undo, completion | `terminal` | |
| `Interactive` | `coding_agent/modes/interactive/interactive_mode.py` | `terminal` | |
| `Selections` | sub-sequences, for models that are proved about | | `SelectionProofs` |

`MCX` instantiates modules for TLC. The parts of one process that share no state are
checked by one run each of `MCAgentTools`, `MCStorage`, `MCAnswers`, `MCHost` and
`MCTerminal`: their variable `which` chooses a part at the beginning, that part moves, and
the others stand still. So the state spaces are added, not multiplied, and each property
is that of one part, `which = "part" => ...`, or of the part the module extends (`Agent`, `HarnessStorage`,
`FileTools`). A part that stands still has its initial
value, or 0 in every variable.

Operators named `Mut_X`, just before `X`, are plausible mistakes in the code `X`
models: with each of them in place of the original the property it belongs to fails under
its run's own configuration. They are used by nothing else.

## The system

`pi_mono` is a coding agent: a loop that asks a language model, runs the tools it calls
and feeds the results back, with a persisted session, a terminal and an RPC interface
around it. Nearly everything runs on one asyncio thread, so code is interrupted only at
`await`; files are shared by several processes; a few threads write output, wait for
callbacks and read pipes.

* **Agent and agent loop.** State: transcript, streaming message, pending tool calls,
  steering and follow-up queue, the active run; in the loop's locals the run's own context,
  the drained messages, the batch of tools. It calls the provider and the tools and awaits
  the listeners at every event. Hard: queue and context updates on both sides of an await,
  parallel tools, aborts in the middle of a batch, listeners that raise, tools that outlive
  their run. Correct when the model sees the transcript, results follow their calls, no
  accepted message is lost, repeated or overtaken, and every run settles in a clean state.
* **Agent harness.** State: phase, three queues, pending session writes, the run's promise.
  Hard: the phase is idle before the run has ended; who waits for a run may be called from
  it; hooks raise anywhere. Correct when the model is shown the session, each write is stored
  once and who waits returns, after the runs it waited for.
* **AgentSession.** Persists the agent's events, retries, navigates, replaces sessions. Hard:
  clients that act while a retry sleeps, a transcript and a session that change on different
  sides of an await, two lists of what is queued. Correct when transcript and session tell one
  conversation, what is shown as pending is pending, and `prompt()` ends.
* **Session log, harness storage, requests.** JSONL files shared by processes, torn writes,
  old versions, branches, labels, forks, compaction; then the request built from a branch.
  Correct when a reopened session shows what memory shows, nothing is taken out, a fork keeps
  its source, and a request has every text once and every call answered.
* **Credentials, settings.** JSON files under locks, shared by processes. Hard: locks held
  over an await, crashes, timeouts, an event loop that blocks itself. Correct when no update
  is lost and no refresh token is used twice.
* **Providers, event streams, partial JSON.** Wire events to one story of a message, ended,
  failed or aborted at any point. Correct when whoever waits hears of the end, `done` means
  whole, and shown arguments only grow.
* **Tools, shell, files.** Processes with groups, pipes, logs; one queue per edited file.
  Correct when a stopped command ends, its log is whole, and no edit undoes another.
* **RPC mode, interactive mode, terminal.** Lines and tasks, output of one writer, keys and
  pastes cut out of a byte stream, focus, differential rendering. Correct when commands are
  answered, keys arrive whole and once, and the screen shows the last frame.
* **Models, extensions, logins, packages.** Lookup, hook chains, a Node process behind a
  pipe, flows that wait for a browser, lists that speak of files on disk.

AgentSession and AgentHarness subscribe to and call the loop; AgentSession appends finished
messages to SessionManager; RPC and interactive mode call AgentSession; the loop calls
providers through an event stream; each holds an abort signal. `PROJECT.json` lists every
component with what is left out of it, and every hazard at its line.

## The models

An action is the code from one suspension to the next; a suspension at which no state can
change is none. Between two actions whatever else runs on the event loop, in another
thread or in another process may move. Bounds are constants named `Max...`; when they are used
up a model stops, and so does the system when nobody uses it: deadlock is checked nowhere,
and what must not stop is stated as a liveness property.

### Agent

`pc` names what the run is suspended on: the listeners of an event it emitted, the
provider's stream, or a batch of tools; `AfterX` is the code after the listeners of event `X`.
Clients call `Steer`, `FollowUp`, `ClearQueues`, `Abort` or `Reset` in between, and tools make
steps of their own (`ToolUpdates`, `ToolEnds`, `ToolEndHandled`). `ctx` is the loop's
`current_context`, `msgs` is `state.messages`, `prompts` and `pending` are loop locals; `tool`
follows each call from `new` to `done`, or `dead` when its task ended in an exception.
`ProviderStart`, `ProviderDelta` and `ProviderEnds` admit every stream a provider may send;
A reply that is an error or aborted may
carry calls, which are not run. `ProviderRaises`, `ListenerRaises`, `ToolListenerRaises` and `FailureListenerRaises` lead through
`handleRunFailure` to `finishRun`. `intact` is history: it turns false when `reset()` hits an
active run, which the code does not guard against; what depends on the transcript of that
run is not promised afterwards.

* `agent_queues`: three messages (steered, queued or prompted), every client call, one
  tool call, one listener that raises (not after an abort, which `OneDisturbance` bounds), two runs; steering drains one at a time, follow-ups all at
  once. `NoMessageLost`: an accepted message is in the transcript, in flight, queued, or was
  cleared, unless a listener raised; a reset during a run changes nothing of that.
  `ImplementsDelivery`: the refinement of `MessageDelivery`. Three messages are two that could
  overtake one another and the prompt that starts the run; the second run delivers what the
  first left queued.
* `agent_tools`: batches of up to two of three calls, both modes, aborts and steering, one
  listener that raises, two runs. `ContextMirrorsTranscript`, `ResultsFollowCalls`,
  `CallsAnsweredBeforeRequest`, `SettledStateIsClean`, and under fairness `RunSettles`. Two calls in
  a batch are what it needs for one to end before, after or instead of the other; the third
  allows a second batch beside orphans of the first.
* `agent_orphans`, a violation: `processEvents` raises "Agent listener invoked outside active
  run" (`agent/agent.py:474`) when an event arrives without a run. A listener that raises during
  a parallel batch makes it happen: `gather` fails at once, the run settles, and the other tools
  go on. The exception then ends in a task nobody looks at.

### MessageDelivery

A message is accepted on a lane, waits, and is delivered to the transcript, oldest of its lane
first, or an end of what waits on a lane is dropped; `Forget` is `reset()`. `Agent` maps what
waits to what is in flight (prompts left, messages drained, the message being announced)
followed by the lane's queue; the harness maps its own locals and three lanes to the same
specification. Neither drain modes nor suspensions show in it.

### AgentHarness

`at[r]` is what run `r` is suspended on. It is run_agent_loop as `prompt()` drives it: tools one
after another and, through `prepareNextTurn`, which only the harness sets (`:464`), a context
rebuilt from the session after each turn. `todo`, `pos` and `cur` are what is being announced (`shared` names the queue whose own object that list is),
`writes` the pending session writes, `promise` the run `run_promise` is of. `Invoke` is the context
hook, `SetupRaises` and `RunRaises` the exceptions of hooks and listeners, `PutBack` what a failed
setup returns to the queues. `Setup`, `Working`, `HandlingFailure` and `Ending` partition the
points of a run.

* `harness` (clients wait for one `prompt()` before the next, queues give one message at a time, which is the
  default): two runs, three messages, one write, a tool call, an operation, two exceptions. `SessionIsTrue` (the provider is shown the conversation the session
  keeps, every write is stored once or still pending), `WaitEndsAfterRuns`, the refinement
  `ImplementsDelivery`, and under fairness `WaitReturns`.
* `harness_overlap`, a violation of `WaitEndsAfterRuns`: the phase is idle before the listeners of
  `agent_end` run (`:570`), so one of them may start the next prompt; `finish()` of the ending run
  then sets `run_promise` to `None`, whoever's it is (`:268`), and `wait_for_idle()` returns at once while
  the new run goes on.

`navigate_tree` and `compact` of the harness always raise and change nothing but the phase (`BeginOp`,
`EndOp`).

### AgentSession

The agent's run as the session sees it, between `prompt()` calls that retry, and the clients.
`run.at` is where the run is; `task[p]` the call of `prompt()`; `Finish` is the end of a run with all
that `_handle_post_agent_run` does before its next await: `Sleep` (the backoff, with the failed reply
taken out of the transcript), or `GiveUp` and `ContinueOrReturn`. `Wake` and `WakeCancelled` end the backoff.
`session` is the current branch, `build_session_context` what a reload makes of it. `disturbed` is history:
a client moved to another branch or session while a `prompt()` was in progress, which nothing in the
code forbids (the retry may then take back a reply of that branch), or a listener of the session raised, or its store
failed, between the transcript and the session (`ListenerRaises`, `ReportRaises`; the run then fails). `ConversationKept` says nothing
of the rest. `lost` turns true when a run fails with messages it had drained, whose texts stay `shown` for nothing.

* `agent_session`: two `prompt()` calls, one retry each, two queued messages, one tool call and two other
  operations, two of the last three at most. `ConversationKept` (transcript and session tell one
  conversation but for tool results and taken-back failures), `ShownIsPending` (no text is shown as pending more often than
  the queues and the run that drained them hold it), `PromptReturns` under fairness. Two calls are what it needs for one to be refused, or to
  run in the backoff of the other. All texts are the same, so that the lists can take off the wrong one: a prompt, a steering
  and a follow-up message of one text are told apart by nothing.

`compact()` of the session always raises (its entries are dicts).

### SessionManager, HarnessStorage, Requests (`storage`)

`SessionManager`: `files` are the lines on disk, `open` marks a last line without its newline. `mgr` has
each process's path, session id, entries, leaf, labels and `flushed`; `acked` and the `torn*` counters are
history. Every operation ends in `Stored`, which writes all, or stops after any line or inside one (the
process is gone, or goes on with an `OSError` and the memory it had), or in `Unstored`. `LinesToWrite` and
`BaseOf` are `_persist`: nothing before the first assistant message, then all of it into a file that must not
exist, then each entry alone. `OpenNew`, `OpenUnreadable`, `OpenOld` and `OpenSaved` are the branches of
`set_session_file`. Two instances are checked: `log`, two processes (interchangeable) on one file that is
missing, unreadable or of version 1, three entries, one write that stops half-way: `LogIsKept` and
`HistoryKept`; and `tree`, one process, two files that are missing or of version 1, four entries with compactions, labels and their removal, both
kinds of fork: `TreeIsKept`. What these leave out, because the code does it: the loser of the race to create
a file appends to somebody else's session (`session_manager.py:662`); a whole-file write that stops
half-way may lose the header (`:545`, `:614`); a write that raises leaves an entry in memory only (`:670`); a fork
drops label entries (`:916`); `fork_from` a version-1 file makes a session that cannot be opened (`:1079`).
Rewriting a whole file is one step.

`HarnessStorage`: two clients, two sessions (both interchangeable), three lines, one failed or torn write. `MemoryIsFile`: a
storage remembers what a reader of its file would find, unless another storage wrote to it (`stale`).
`HistoryKept` has its forks.

`Requests`: a branch of up to six entries with two calls, two compactions and one move of the leaf, sent to
one of three shapes of provider. `RequestIsWhole`: every text of the branch is in the request or in a summary,
never in both, and each call is answered right after it, once. The harness appends a run's messages in
the loop's order; compaction is that of the library's functions (`tests/harness/test_compaction.py`), since
both `compact()` methods raise.

### Credentials

A process is one thread and its event loop. The lock is taken by sleeping in the thread (`Acquire`,
`Timeout`), so that a wait blocks the process; only the token refresh is awaited, with the lock held and the
thread free (`ReadExpiredToken`, `TokenRefreshed`, `RefreshFails`). `CreateFile` is `_ensure_file_exists`, which is
outside the lock and may empty the file. `thread[p]` is the step the thread is at. A credential is a
version; history counts what was committed and spent. A write empties the file (`Truncate`), fills it (`Close`), and may fail
at either (`WriteFails`), after which the lock is released and everyone's credentials are gone (`erased`). A refresh that fails
may have traded its token already; the file then keeps the old one, as it does when the write of the new one fails,
and the next refresh sends it again (`wasted`). Both are excepted by name: the code keeps no more.

* `credentials`: two processes, two providers, three versions, three jobs, one fault (a crash, a write or a refresh that fails). `CommittedKept`,
  `TokenSpentOnce`, and `OperationsEnd` under fairness. Two processes are what it takes to find the same
  expired token; the third job is the one that waits meanwhile.

### Streams, PartialJson (`answers`)

`Streams` is one response: the wire brings events of one of twelve APIs, the provider's code turns them
into the stream's (`blocks`, `events`), the agent loop takes them. `openai_responses.py` never gets as far
(`ResponsesFails`): `_build_params` asks its options object for `cache_retention` and `get()`, and it has neither (`:174`),
so the response is an error; the handlers of its events serve Azure and Codex. Responses end, fail and are aborted at
any point. Four wire events (three of the providers that mark no
ends of blocks) allow two blocks, one inside or after the other; an item of the responses API may be added over another, and may
be done without one. `EventsTellOneStory`: begin, deltas
and end of a message and its blocks are in order, and `done` means whole. Of the ends that the responses API tells of a tool
call that is not current, at another block or at none (`openai_responses_shared.py:531`), it only says which they are (`Strays`). `ResultArrives` (under fairness): whoever waits
hears of the end, except where `EndsInSilence` names the code that ends a stream without a result (a hazard).

`PartialJson` parses every beginning of an object of two members with escapes, numbers, arrays and
objects. `ArgumentsGrow`: what is shown is a beginning of what the model writes, and the whole at the end.
Strings in the instance hold no raw newline inside an array, where `json_parse.py:110` makes a key
of the rest.

### Shell, Rpc (`agent_tools`)

`Shell`: one command of the harness, the session or the bash tool, its process group with a child that may hold the
pipes, chunks on two pipes, a time limit, aborts, the log that is begun when the output is too long.
`LogIsWhole`, and under fairness `StoppedCommandsEnd`. Four chunks are one more than the limit allows on both pipes.
The harness makes and writes its log in tasks (`tasks`), and one read may bring several chunks before any of them runs.
The code loses the chunks that come while that log is being made (`shell_output.py:116`; `missed`), and the result of a
command of the session that is aborted names its log though it could not be made or written (`bash_executor.py:61`), both of which
`LogIsWhole` excepts; an abort that comes while the process is being started is lost.

`Rpc`: two lines (a command that awaits, a prompt, an extension's command), a task for each, dialogs of extensions, the lock of the output and its writer thread,
lines that cannot be written, shutdown by end of input or signal. `CommandsAnswered` (embedded programs, under fairness), and `EventsToldOnce`: a run's events
reach the client once each, though tasks bind the session again, which unsubscribes and subscribes (`rpc_mode.py:402`), while it goes on.
`rpc_piped`, a violation of `CommandsAnswered`: `on_stdin_ready` reads until the client closes its side
(`rpc_mode.py:699`), so a client that keeps its pipe open and waits is never answered.

### FileTools, Settings, Login, Models, Extensions, Packages (`host`)

* `FileTools`: three calls of `edit` and `write` on one file in the mutation queue, each operation an await,
  aborts and failures anywhere. A text is its words, byte order mark and line ends. `NoEditLost`: a call that succeeds changes
  the file as it is at that moment; a write that fails leaves the file, or a part of the new text, since it was emptied when it was opened
  (`edit.py:33`), and with it others' edits are gone.
* `Settings`: two managers, both scopes, two fields, two sets, one write of another program, crashes, broken files, writes that
  fail once the file is open and leave it empty or cut short (`WriteFails`). `Set` marks and
  queues, `Merged` merges marked fields into what the file holds. `SettingsKept`: what was set is stored unless
  an error was told, and a manager writes the fields it marked only, but for a write that fails. A process that is killed in the middle of
  a write leaves its lock for good, so that nobody reads the cut file.
* `Login`: three logins one after another, of five providers, with callback servers in threads, typed codes and
  device codes. `LoginEnds`: a login that waits can be cancelled (but for the flows that hang, which are hazards), and none leaves a server behind.
* `Models`: two changes of registrations or of models.json, then a session that is new, continued or
  resumed. `ModelsKept`: a refresh changes nothing the registry told of, and a continued session has its model; the drift of
  re-registered providers (`model_registry.py:875`) is history, excepted by name.
* `Extensions`: three files of which one is found twice and one is a script, names that read like suffixes, three
  calls. `ExtensionsReached`: each event reaches every handler, each command has a name that calls it, and each request to
  Node gets its own answer, unless a script prints one itself (`ts_extension_loader.py:90`).
* `Packages`: three commands on npm, git and local packages in two scopes, each of which may fail or be killed
  half-way. `ListIsTrue`: the list and the disk agree but for packages a failed command left doubtful.

### TerminalInput, Renderer, Overlays, Editor, Interactive (`terminal`)

* `TerminalInput`: two keys or pastes and the terminal's answers to protocol queries, cut into reads at any byte,
  with the timers of the buffer and of held answers. `InputIsReceived`: keys arrive whole, once and in
  order, no answer does, and after `stop` every mode is off again. A read that ends in the middle of a character makes two replacement
  characters of it (`terminal.py:169`), and the buffer's timer, which may expire between any two reads (once in a behaviour), makes
  pieces of a key; then the rest still arrives.
* `Renderer`: frames of up to three lines on screens of two or three rows, resized, covered and stopped. The terminal
  scrolls and clamps its cursor. `FrameIsShown`: the rows are the end of the frame after each way of rendering, and
  a requested render comes.
* `Overlays`: three overlays, one passive, one that needs a wide terminal, and a dialog. `FocusIsShown`: keys go to nothing that cannot be seen,
  and come back to the tree. `show_overlay` puts its overlay on the stack, gives it the focus and then raises, since the class of its
  handle is a Protocol (`tui.py:670`); so nobody ever has a handle, and what one would do is not modelled. A selector in an overlay closes by
  giving the focus away (`SetFocus`): `close_overlay` (`interactive_mode.py:826`) finds no handle, the selector stays on the stack, and the next key
  is for it. Only `hide_overlay` takes overlays off.
* `Editor`: five keys, two completion requests answered late and in any order. `EditorIsTrue`: a yank puts back what a row of kills
  took, and completions are of the text there is.
* `Interactive`: two submitted lines and a conversation of at most three messages and two calls (four of them together), with two retries, which may
  overlap, and a cleared chat. `ChatIsTrue`: the chat shows each thing said once and in order, the status tells what is done,
  and each line is handled once.

## Fairness

The code's scheduling justifies it as follows: asyncio resumes a task whose awaited coroutine
is done, timers expire, threads go on, and providers, tools, hooks and listeners return. So there is
weak fairness of `LoopStep`, `Prepare` and `ToolStep(c)` (Agent), `RunStep(r)`, `EndOp` and `WaitStep` (harness),
`RunStep` and `TaskStep(p)` (AgentSession), `Runs(p)` (Credentials), `Settles` and `Reads` (Streams), `Step(c)` (Shell),
`TaskStep(t)`, `Answer(t)`, `WriteStep` and `ProcessStep` (Rpc); and strong fairness of `ProviderEnds`, since a
provider that keeps sending deltas ends its stream at some time. Nothing is assumed of clients, aborts,
exceptions and crashes.

## What is proved

Every theorem is for all values of the constants its modules' assumptions admit: the drain
modes are among those there are, `NoProc` and `NoProvider` are no process and provider, providers are finitely many, and bounds
are natural numbers. All are of `Spec`, which the specifications with fairness imply. In each module
the argument is an inductive invariant, one lemma per kind of step, and a last temporal step.

* `AgentProofs`. `TypeCorrect`: `Spec => [](TypeOK /\ LocalsFit)`. `TypeOK` alone is not inductive: that
  `Head`, `Tail`, the last element of `ctx` and the next call of the batch exist depends on where the run is
  suspended, which `LocalsFit` states. `ContextIsTranscript`: `Mirrored` says for each suspension by what
  context and transcript differ; only `Reset` tears it. `SettledIsClean`: with `NoBatchWhenIdle`, that no batch
  runs when no run does, so that no orphan's exception can begin a failure.
  `ResultsAreOrdered` and `CallsAreAnswered` state `ResultsFollowCalls` and
  `CallsAnsweredBeforeRequest`. `BatchFits`: while a batch is executed the context ends with the
  reply that asked for it and its results so far, in the calls' order, and no call beyond
  is answered. `RequestFits`: until it is aborted, what a run added to its context is
  whole but for that reply. A step is one of the batch's own, or it leaves the batch alone.
* `SelectionProofs`. `Chosen(s, T)`, the elements of `s` in `T`: of an appended or concatenated
  sequence, of one all or none of whose elements are in `T`; and `BuiltByAppending`, that a set of sequences closed under `Append`
  has all of them. `SelectSeq` cannot be unfolded by the provers, so models that are proved about use
  `Chosen`, which is a recursive function over the numbers; that such a function is defined everywhere is proved by
  induction in the form of sets (`Induction`: a set of numbers with 0 and the successor of each is `Nat`), from well-foundedness, which
  needs no operator parameter.
* `DeliveryProofs`. `AgentDelivers`: `Spec => ImplementsDelivery`, the refinement step by step.
  `Carried` says at which suspensions a message is in flight, `Sorted` that the queues hold their own lane's
  messages and what is in flight came by one lane. Every action is one of six kinds of
  steps: it keeps messages, drains a queue into flight, delivers the oldest in flight, begins with a
  prompt, drops what is in flight, or comes from a client beside the run; each kind is a step of
  `MessageDelivery` or none. `NothingLost`: `Spec => []NoMessageLost` from the same kinds.
* `CredentialsProofs`. `CredentialsTypeOK`; `LockExcludes`: only the holder of the lock is between its
  read and its write, whatever crashes or times out. `NoUpdateLost` (`CommittedKept`) from `IInv`: what a
  process is going to write is the last update of every provider with its own, unless the file was `erased`. `TokensSpentOnce` (`TokenSpentOnce`)
  from `SInv`: versions are handed out once (`Made`), no credential belongs to two providers, or to the file and to a set that waits (`Apart`), while a
  refresh is awaited the file is what it read, or was emptied (`ReadStands`), and a token in the file whose trade was not `wasted` is spent only while the
  process that traded it holds the lock (`Unspent`).
* `FileToolsProofs`. `QueuedEditsKeepOthers`: `Spec => NoEditLost`, an action property, from `IInv`:
  whoever is past the lock has it, and what an edit is going to write comes from the file as it is. That a failing write leaves a part of the
  text is in the statement.
* `HarnessProofs`. Each of its four theorems classifies the steps anew, as its invariant sees them.
  - `WaitsAreKept`: `~Overlapping => (Spec => []WaitEndsAfterRuns)`, from
    `PromiseIsOfRun` (the promise is that of the run that is active, while one is) and `Watched` (a waiter on a
    promise that is not set is on that run's). `harness_overlap` shows why the hypothesis is needed. Each step is
    one by which a run goes on, ends or begins, or moves the waiter.
  - `WritesAreStored`: `Spec => []WritesStoredOnce`, overlapping runs included. `HShapes` types every variable,
    what a run has in hand by where it is (`Fits`); `Stored` numbers what was asked for, through the log into
    the pending writes. A step adds an entry of the run's own, stores all that is pending, or is a client's.
  - `SessionStaysTrue`: `~Overlapping => (Spec => []SessionIsTrue)`, from `SInv`. Context and session differ on
    purpose at most suspensions; `Shows` says by what at each: the messages still to be announced, the one
    in hand, the tool's result. `PhaseFits` says that no write of other code goes into the session
    directly while a run works, which would part them for good: while it does, the phase is "turn".
  - `HarnessDelivers`: `~Overlapping /\ DrainsSingly => (Spec => ImplementsDelivery)`, the refinement step by step,
    from `DInv`: each queue holds messages of its lane (`Sorted`), and what a run has in hand is of one lane,
    of its own, up to the position it announces (`OnLane`). A step keeps what is in hand, takes the front of a
    queue into it, gets a new message, delivers the oldest, puts back or loses what is there, or is a
    client's; each is a step of `MessageDelivery` or none. `DrainsSingly` is the default mode of both
    queues: in the mode "all" the list a run drains is the queue object itself (`agent_harness.py:398`, a hazard),
    emptied by the next statement; what is queued while listeners hear of it is the run's and the queue's,
    and an exception puts it before itself, so that it is there twice.
* `AgentSessionProofs`. `ConversationIsKept` (`ConversationKept`) from `ConvInv`: an active run is one that a
  `prompt()` awaits (so that whoever replaces the transcript under it disturbs it), and when a run
  failed, the last reply is that failure (so that a retry takes back nothing that was said). It rests on
  `BuiltAppend`: `build_session_context` of a session with one more message is that of the session, with the message.
  `ShownArePending` (`ShownIsPending`) from `PendInv`: with the types of the lists, that what a run drained is with one that delivers
  it, whichever prompt's it is; a delivered text leaves both sides, or the side that has more of it. It counts with `Chosen`.
* `HarnessStorageProofs`. `MemoryIsKept`: `Spec => []MemoryIsFile`, from `FilesAreKept`: the session a client
  has open has its file (so that nobody forks into it or deletes it), and if nobody else wrote to it and every line is an entry, the memory is
  a reader's, also while the last line is cut short, when nobody can read it: the next line makes it garbage for good. The lemmas are
  of data: replaying the labels gives what the last label entry about each target sets (`LabelsAreLast`), so
  that a reader of one more entry has what `append_entry` makes of the memory (`OpenedAppend`); a fork, which
  appends entry by entry, has a reader's memory (`RememberedIsOpened`) of entries of its source (`ToForkType`). Here a
  recursive function exists because its values can be named, or is built step by step (`PathsExist`).

Not proved, and why:

* Liveness (`RunSettles`, `WaitReturns`, `PromptReturns`, `OperationsEnd`, `ResultArrives`, `StoppedCommandsEnd`,
  `CommandsAnswered`) is out of this prover's reach.
* The properties of the runs `answers`, `terminal` and the rest of `storage` and `host` are stated through operators that
  fold, select or recurse over data of any length (`Context` through branches, `PartialJson` and
  `TerminalInput` through `RECURSIVE`): the provers cannot unfold these. What a fold returns for every
  sequence is an induction over data; `SelectionProofs` and `HarnessStorageProofs` do it for four such functions, with
  the induction stated by sets. The others (`LogIsKept`, `TreeIsKept`,
  `HistoryKept`, `RequestIsWhole`, `EventsTellOneStory`, `ArgumentsGrow`, `InputIsReceived`, `FrameIsShown`, `FocusIsShown`,
  `EditorIsTrue`, `ChatIsTrue`, `SettingsKept`, `LoginEnds`, `ModelsKept`, `ExtensionsReached`, `ListIsTrue`), and
  `LogIsWhole` and `EventsToldOnce` of `agent_tools`, are model-checked only.
* Of the harness: delivery in the mode "all", and what happens when runs overlap; the code keeps neither promise.

## Not modelled

* `shouldStopAfterTurn` (nothing in the repository sets it), cancellation of the task that runs the loop,
  prompts of several messages, drain modes changed during an Agent run, in-memory sessions of SessionManager, listing and finding files, images,
  thinking, headers, usage, texts and layout.
* Print mode and the command line are wiring. Resource collection of packages (`resolve`) has no caller. The flags, shortcuts and
  user interface of extensions, values of the configuration taken from commands, Windows input, mouse, and
  `tui/components/input.py` are left out.
* What is known of the code and excepted from a property by name is in its comment, and at its line
  in the hazards of `PROJECT.json`.
