# Formal model of the Gemini CLI core

TLA+ modules for the parts of this repository whose correctness depends on the
order of asynchronous steps, the TLC runs that model-check them and the proofs
that TLAPS checks. The source is the reference: every definition that models
code is listed with its file and lines in `PROJECT.json` ("map").

## 1. Inventory

The program is one Node.js process: single threaded, asynchronous. There is no
data race, but every `await` is a point where other promise chains, user input,
IDE messages and timers run. The state below is in memory unless said otherwise.

| Component (main source) | State | Operations | Talks to | Hard because |
|---|---|---|---|---|
| **Tool scheduler** `core/coreToolScheduler.ts`, `scheduler/*` | active slot, call queue, batch of completed calls, request queue, three flags | `schedule`, `cancelAll`, `handleConfirmationResponse`, completion | clients (callbacks), policy engine, tools, IDE | several promise chains run the same methods; cancellation between any two awaits; answers arrive late or twice |
| **Scheduler clients** `useGeminiStream.ts`, `useReactToolScheduler.ts`, `ToolConfirmationMessage.tsx`, `nonInteractiveToolExecutor.ts`, A2A `task.ts` | turn, abort controller, displayed calls | submit, Escape, confirm | scheduler, chat | they rely on the scheduler reporting each batch once |
| **Availability, fallback, retry** `availability/*`, `fallback/handler.ts`, `utils/retry.ts` | health per model, active model, attempts | mark, select, consume, reset; retry loop | chat, user (fallback dialog) | retry counters reset by fallbacks, once-per-turn attempts shared by requests |
| **Chat session** `core/geminiChat.ts` | history, `sendPromise` lock | send a message as a stream, with retries | model API, hooks | a lock held by a stream that its reader may abandon |
| **ACP session** `cli/zed-integration/zedIntegration.ts` | pending prompt, calls collected from the stream | prompt, cancel, run tools | chat, tools, the editor | a prompt aborts the one before it without waiting for it |
| **Agentic loop** `core/client.ts`, `core/turn.ts` | hook state per prompt, turn budget, what the editor's last context was | `sendMessageStream` (recursive) | chat, hooks, loop detector, terminal | early returns, bounded recursion, one state shared by all calls of a prompt |
| **Loop detection** `services/loopDetectionService.ts` | repetitions, flag, hashes of content | per event, per turn, reset, disable | agentic loop | one detector for all prompts |
| **Message bus** `confirmation-bus/message-bus.ts`, `tools/tools.ts` | listeners | publish, subscribe, request with timeout | policy engine, tools, hooks | correlation of answers, timeouts |
| **Policy engine** `policy/*`, safety checkers `safety/*` | rules by priority, modes | check a call, a hook | bus, scheduler | shell commands split and recombined, rules that change between the parts |
| **A2A task** `a2a-server/src/agent/*` | tasks in memory, running loops; per task the pending calls and their promise | execute, confirm, cancel, wait | scheduler, task store, event bus | a promise that is replaced while someone waits for it; a task loaded twice |
| **Local agents** `agents/local-executor.ts` | turn counter, reason, signals, own chat | run, recover, compress | chat, tools | three timers race the turn, its tools and a last recovery turn |
| **IDE client and companion** `ide/ide-client.ts`, `vscode-ide-companion/src/*` | resolvers by path, mutex; open views by document; open files | open, answer, close a diff; follow the editor | each other, terminal dialog, agentic loop | the same question is asked in two places; the model is told changes only |
| **MCP clients** `tools/mcp-client*.ts` | clients, discovery promise; per client its status, refresh flags; tool registry | start, restart, stop, discover, refresh | servers, tool registry | overlapping discoveries; lists that are old when they arrive |
| **Text input** `ui/components/shared/text-buffer.ts`, `vim-buffer-actions.ts` | lines, cursor, undo and redo stacks | some fifty actions | prompt, completion, editor | index arithmetic with counts; every edit must be undoable |
| **Telemetry** `telemetry/clearcut-logger/*` | bounded queue, flush flags | log, flush, requeue | remote service | a flush fails after the queue filled up again |
| Recording, compression `services/*` | the recording is a file | per event, per turn | chat | where a history may be cut |
| Shell execution, OAuth tokens | processes, token files | external I/O | tools | the outside world |
| Hooks, routing, authorization package, CLI shell, test utilities | see `PROJECT.json` | | | |

What makes each correct, in a sentence: the *scheduler* runs one tool at a time,
with approved arguments, and reports each batch once and whole; its *clients*
never wait for a report that does not come; *availability* never offers a model
that was marked unusable while another is left, marks only the model the user was
shown, and *retry* ends; the *chat session* serialises messages and always releases
its lock; the *ACP session* answers every prompt; the *agentic loop* ends within its turn budget, fires each hook
once per prompt and knows what it told the model of the editor; the *loop detector* sees
the whole prompt; the *bus* answers each request once; the *policy engine* applies the rule
with the highest priority to every part of a command; the *A2A task* has one loop,
which resumes when all pending calls are settled; a *local agent* ends, and says
truly why; the *IDE* reviews one edit at a time and no review is lost; the *MCP
manager* declares the discovery over when it is, and offers the tools the server
has; the *text buffer* keeps its cursor in the text and every edit undoable;
*telemetry* loses old events only.

`PROJECT.json` lists the hazards behind this list, at their lines, with the
property that covers each or the reason why none does yet.

## 2. Modules

| Module | Contents |
|---|---|
| `CoreToolScheduler` | the scheduler and its environment: state, actions, fairness, properties |
| `ToolBatches` | what the scheduler promises: requests in, whole batches out, in order, once |
| `MCCoreToolScheduler` | instances for TLC: which calls the requests have, under which signals |
| `SequenceLemmas` | facts about finite sets of numbers and the elements of sequences |
| `CoreToolSchedulerProofs` | type correctness, one lemma per method and action; only approved arguments run |
| `SchedulerInvariants` | where the scheduler's calls and requests are, and which chain may move them |
| `SchedulerSafety` | the theorems about its steps, and the refinement of `ToolBatches` |
| `ModelFallback` | which model a request calls; availability, fallback, retries and the quota dialog |
| `MCModelFallback` | the catalog's default chain and policies, for TLC |
| `ModelFallbackProofs` | the inductive invariant and the safety theorems of `ModelFallback` |
| `GeminiChat` | the chat's lock, history and stream attempts, as operators for its readers |
| `AcpSession` | overlapping prompts of an editor on one chat; extends `GeminiChat` |
| `IdeDiff` | one edit reviewed in the terminal and in the IDE at once |
| `LocalAgent` | a run of a local agent, with the compression of its history |
| `A2ATask` | executions of a task of the A2A server, over a reduced tool scheduler |
| `ToolApproval` | policy engine, message bus and user decide whether a shell command runs |
| `TextBuffer` | the reducer of the prompt's text and the vim actions |
| `TelemetryQueue` | the queue of usage events |
| `McpServer` | one MCP server: discoveries, connection, tool list, refreshes |
| `AgentLoop` | the calls of `sendMessageStream`: recursion, budget, hooks, loop detector, queries of the terminal |
| `IdeContext` | the editor's open files and what the model is told of them |
| `MCServices` | the ten components above with small instances, for TLC |
| `SessionProofs` | theorems about `AcpSession`, `A2ATask`, `ToolApproval`, `TelemetryQueue` |
| `AgentProofs` | theorems about `LocalAgent` and `AgentLoop` |
| `ServicesProofs` | theorems about `IdeDiff`, `IdeContext`, `McpServer`, `TextBuffer` and the composition `MCServices` |

### How the scheduler is modelled

The private fields of the class are the fields of the record `sch`, under their
names where TLA+ allows (`toolCallQueue`, `requestQueue`, `isScheduling`, ...;
`active` is `toolCalls`, which never has more than one element; `completed` is
`completedToolCallsForBatch`). Each method is an operator from scheduler states
to scheduler states (`cancelAll`, `checkAndNotifyCompletion`, `schedule`, ...), so
a method that calls another is a composition, as in the code.

A *chain* is one activation of an entry point: a `schedule()` call, an answer of
the user or of the IDE for a call, a `cancelAll()`. `sch.chain[o]` says at which
await the chain `o` is suspended, with the call, signal and outcome it holds
across the await. One action is what a chain runs from one await to the next:

| Action | Code |
|---|---|
| `NewTurn`, `Schedule`, `Abort`, `Escape` | the client: `submitQuery`, `schedule`, an aborted signal, `cancelOngoingRequest` (abort, then `cancelAll`) |
| `PolicyAllows`, `PolicyDenies`, `PolicyAsks`, `ValidationFails` | `_processNextInQueue` after its awaits: policy, confirmation details, notification hook |
| `Executed` | the return of `toolExecutor.execute` and the completion check |
| `HandlerReturns`, `HandlerThrows` | `onAllToolCallsComplete` returns (and the next request is taken) or rejects |
| `Unwind` | the `finally` of `_schedule` |
| `UserResponds`, `IdeResponds` | an answer reaches `handleConfirmationResponse` |
| `Confirmed`, `ConfirmThrows` | the tool's `onConfirm` returns or rejects |
| `Modified`, `NotEdited`, `NotInlined`, `ModifyThrows` | the editor or the inline change returns |

The three awaits of `_processNextInQueue` between policy and status change are
one suspension: nothing is written between them. Calls that failed to build are
moved to the completed batch in one step (`skipFailed`), because the mutual
recursion of `checkAndNotifyCompletion` and `_processNextInQueue` has no await
there. `"scheduled"` is a status that only exists inside a step.

`Drained` states one fact about the event loop: user input, timers and signals
are delivered when no promise chain has only resolved promises left to unwind.
Microtasks run before the next event. An `onConfirm` of the tools in this
repository settles in microtasks unless it awaits the IDE, which `SlowConfirm`
allows.

Abstracted: live output and display notifications (they write fields nothing
reads), telemetry, response texts, the identity of tools, the IDE's own edits of
the proposed content (they stay inside the tool), and a client without a
completion handler.

### How model selection and fallback are modelled

Every request of the CLI picks a model through the availability service, retries,
and in the end asks the user. The requests run concurrently and share
`cfg`: the configured model, the active model, the health of each model and the
client's `currentSequenceModel`. `req["chat"]` is the chat's request,
`req["utility"]` one of the others (prompt completion, classifier, compression,
next speaker and loop checks), with the local variables they keep across awaits
(`lastModelToUse`, `initialActiveModel`, the attempt). `dialog` is the quota
dialog, of which the user interface shows one at a time (`isDialogPending`), with
what `handleFallback` remembers until the user answers (`failedPolicy`).

| Action | Code |
|---|---|
| `Send`, `RouteSame`, `RouteFixed`, `RouteClassify`, `Classified` | `sendMessageStream`: `resetTurn`, a new prompt; the router's strategies; the client's selection (`Select`) |
| `Start` | the turn begins: the chat session selects once more, takes the attempt and calls (`Begin`) |
| `Ask` | `_generateWithRetry` of `baseLlmClient` |
| `Succeeds`, `FailsForGood`, `Overloaded`, `FailsOtherwise`, `Retry`, `Abort` | `retryWithBackoff` with `handleFallback` as `onPersistent429` |
| `Streamed`, `StreamBroke` | `streamWithRetries` of `geminiChat` |
| `Choose` | the user answers the dialog: `handleProQuotaChoice`, then the rest of `handleFallback` and `processIntent` |
| `SetModel` | `/model` |

Abstracted: the session is interactive and logged in with Google (otherwise
`handleFallback` returns at once or is not called); "terminal" errors include
"not found", "transient" ones include unknown ones and errors of the server;
"stop" stands for "upgrade" and "retry later", which change nothing; the reasons
kept for a mark; `quotaErrorOccurred`, which only ends the turn.
Both preview and default chains have a "pro" and a "flash" model: one chain is
enough. `Transitions` is the policy table; the catalog maps every failure to
"terminal", so with its values no model ever becomes sticky, although the service
can do it.

### How chat and ACP session are modelled

`GeminiChat` has no next-state relation of its own: a generator only moves when it
is read. Its operators say what each await of `sendMessageStream` does to
`sendPromise`, `openStreams` (the promises that are not resolved) and the
history; a reader's actions are built from them. `AcpSession` is one such reader.
`prompt[p]` is a call of `Session.prompt` with its locals: is its signal aborted,
how many calls has it collected.

| Action | Code |
|---|---|
| `Prompt`, `Cancel` | `prompt` (aborts `pendingPrompt`, takes its place), `cancelPendingPrompt` |
| `ResolvePrompt`, `ResolveFails`, `LoopTop` | `#resolvePrompt`, and the top of the loop with its early return |
| `Send`, `Connect`, `CallChunk`, `Break`, `Retry` | the lock; the stream and its events; a broken attempt; the next one |
| `Leave`, `Finish`, `HookStops` | every way out of the stream: abort, error, end, a hook |
| `ToolsDone` | the tools of the round return |

### How reviewing an edit in the IDE is modelled

`diff[d]` is a call of `openDiff` together with the dialog in the terminal, which
asks the same question. The companion handles requests in order, shows views
(`diffViews`, in the order of its map), and sends notifications that name a path
only. `closeDiff` in the IDE closes the first view it finds for the path, as
`DiffManager` does.

| Action | Code |
|---|---|
| `OpenDiff`, `Acquire`, `RequestFails`, `Notified` | `openDiff` before and after the mutex; the request's error; the notification handlers |
| `AnswerInTerminal`, `CloseReturns`, `LeaveDialog` | `resolveDiffFromCli` up to `closeDiff` and after it; the dialog goes away unanswered |
| `ShowDiff`, `AnswerInIde`, `ViewClosed`, `CloseDiff` | `showDiff`, `acceptDiff`, `cancelDiff` and `closeDiffEditor`, the `closeDiff` tool |
| `Disconnect`, `DisconnectGoesOn` | `disconnect`, up to the first registered path and from one path to the next |
| `ConnectionLost`, `Reconnect` | the transport's handlers, `connect` |

`disconnect` awaits `closeDiff` for one registered path after the other, so that calls may
settle, register or open meanwhile; `disconnecting` is the entry its iterator has come to, and
a path that was deleted and registered again is a new entry.

### How a local agent is modelled

`agentAt` is what `run` awaits. The message, the attempt, the collected calls and
the reason are its locals; `agentHistory` holds the kinds of the chat's entries,
which is what compression looks at besides their lengths (which are left open:
any admissible split point may be chosen). `AgentSignal` is a timer or the user,
at any moment. `turnStops` and `turnThrows` are the two ways a turn ends, with
the recovery turn behind both.

### How the A2A server is modelled

`a2aExec[e]` is a call of `execute`, `a2aTask[t]` the `Task` object that execution
`t` built when it did not find the task in memory. The server starts with the
task in its store, as after a restart, so two early messages may build two
objects, as in the code. The tool scheduler is reduced to what its own module
shows: one active call, a batch reported once, a batch queued behind it, a
cancelled call that takes the rest of its batch along. A message is a text, the answer to
the call that waits for one, or both (`UserMessages`): `acceptUserMessage` awaits what the
answer sets off before it goes on with the text (`MessageGoesOn`), in the loop that the
message started ("confirming") or beside the one that runs ("joining"). Further answers in
one message are taken as messages of their own (`Answer`). The state "working" that an
answer alone may set (`task.ts:975`) is the one the task has already. `workingLate` is a
history variable: the text of such a message was taken when the loop had ended.
`StreamEvent` is an error, or a cancellation, in the stream. `toolCallsUpdate` and
`reported` are the task's callbacks; `waiter` is the promise the loop awaits,
which may not be the current one any more.

### How the approval of a shell command is modelled

A command is a program, whether it redirects, and its parts. `policyCheck[k]` is a
running `check`: safety checkers make it wait between the parts, while the mode
switches and other calls add rules. `Decide` is the scheduler's check,
`FirstChecked` starts the tool's question over the bus, `Responds`,
`PublishFails`, `BusTimeout` and `AbortApproval` are the four ways that ends, and
`AnswerApproval` is the user, whose "always" adds a rule for every program in the
command, or for the whole text of one that cannot be parsed (`prefixes`). A rule covers the
commands that start with it (`startsWith`). The rules are those the CLI has for the shell
tool: an administrator's denial, the user's "always" (2.95), YOLO mode, and the default to
ask. As in the code, a command that cannot be parsed is asked about whatever its rule says.

### How the text buffer, telemetry and MCP are modelled

A line of `TextBuffer` is its length: no property depends on which characters it
has. Word boundaries are left open, so that every column the word functions may
return is tried. `replaceRangeInternal`, `getLineRangeOffsets` and
`getPositionFromOffsets` are translated with their arithmetic. Actions that only
move the cursor are `Move` and the `Vim...` moves.

`TelemetryQueue` numbers the events. A flush takes the whole queue
(`eventsToSend`); `FlushEnds` delivers it or puts back what `requeueFailedEvents`
keeps, and starts the flush that was asked for meanwhile.

In `McpServer` a discovery `d` is a call of `maybeDiscoverMcpServer`, a client is
named after the discovery that made it, and the server's tool list is a version
number. `before` is the set of discoveries whose end the chained promise awaits.
`RefreshNotified`, `RefreshListed`, `RefreshReplaces`, `RefreshEnds` are the
coalescing loop of `refreshTools`.

### How the agentic loop is modelled

`query[q]` is a call of `sendMessageStream` by the terminal: a prompt, or the tool
results that continue one (then `prompt` names the first). `frames` is its stack,
each frame with the budget it was called with (`left`), whether it retries an
invalid stream (`retry`) and whether an AfterAgent hook that blocked called it
(`after`). `pending` and `collected` are the calls of the turn on top and those the
terminal has taken. Shared by all queries: `hookStateMap`, `lastPromptId`,
`loopDetector`, `loopDialog`. A generator only moves when it is read; as the
terminal reads at once, a call runs from one await to the next, and a return runs
through all callers that do not await (`unwound`).

| Action | Code |
|---|---|
| `SubmitPrompt`, `ToolsAnswered`, `DisableLoops` | `submitQuery` with a prompt, with tool results, with the last query after the loop dialog |
| `CancelQuery`, `ToolsDropped` | `cancelOngoingRequest`; the tools' results are not sent |
| `BeforeAgentPasses`, `BeforeAgentStops` | `fireBeforeAgentHookSafe`, with the returns before the `try`: of a nested call, to its caller |
| `TurnNotSent`, `CallEvent`, `LoopEvent`, `TurnReturns`, `Throws` | `processTurn`: early returns, the events, the end, an exception |
| `InvalidStream`, `AskNextSpeaker`, `SpeakerIsUser`, `SpeakerIsModel` | what `processTurn` does behind its stream; two of the recursive calls |
| `AfterAgentPasses`, `AfterAgentBlocks` | the rest of `sendMessageStream`; the third recursive call |

Of the detector, repeated calls are counted as in the code; repeated content and the
check by a model may report a loop at any event or turn. `handedOut`, `overtaken`, `hookSaw`
and `hookLost` are history variables: the calls each prompt was given, which is not reset
with the detector; the prompts another one took the place of; which prompts the
hook saw; which prompts' state the code gave up early.

### How the editor's context is modelled

`openFiles` is the companion's list, changed by the editor's events as in
`OpenFilesManager`; `Stored` is what `IdeContextStore.set` makes of it. `TellContext` is
the part of a turn that tells the model the whole of it, or the changes since
`lastSentIdeContext`; `told` puts together what the messages of the history say,
which is what the model can know. `SetHistory`, `StartChat` and `ChatStarted` replace
the history, the last two around the await in `startChat`. A notification that is
late or debounced is the same as a turn that comes early, so that while connected
the store holds the companion's state.

## 3. Runs

The scheduler's instances use one scheduler, two turns and at most three calls: each
hazard needs at most a batch with a next call, a queued request behind it and a
turn after that. `MaxAnswers` bounds how often a user answers for one call; two
answers are one modification and one decision. Deadlock is not checked: when the
client has nothing more to ask, the system rightly stops. That it does not stop
too early is what `NothingStranded` and the liveness properties say.

| Run | Question | Answer |
|---|---|---|
| `SchedBatches` | Two batches under one signal that may be aborted without `cancelAll`; failing builds, confirmations, edits; awaited calls may throw. Delivered in order, once, whole? Does each request settle? | holds (refines `ToolBatches!Spec` and `ToolBatches!FairSpec`) |
| `SchedModify` | Edits and inline changes with Escape in both turns, every awaited call may throw; a second batch of two calls. Two tools at once? A request rejected for nothing? Unapproved arguments? Overwritten results? Cancelled neighbours? | holds |
| `SchedIde` | IDE answers, slow confirmations, overlapping client. A tool started under an aborted signal? | holds |
| `SchedIdeDouble` | One terminal answer with the IDE's diff open | a tool runs twice at once |
| `SchedStranded` | Escape during the policy check, next turn's request | the request is never taken |
| `SchedLateCancel` | IDE answer one turn late | the next turn's calls are cancelled |
| `Fallback` | Chat and utility fail, retry, abort, ask; the user switches. Does each end, with the model the user chose, marking only what was shown? | holds |
| `Services` | Each of the ten components of `MCServices`: twenty-four properties, below | holds |
| `AcpRetry` | Are the calls of a broken attempt discarded when it is retried? | they are run |
| `PolicyDeny` | Is a command with a rule that denies it never executed? | one that cannot be parsed is, when the user agrees |
| `TelemetryDrop` | Is an event dropped that is logged into a full queue? | the oldest one is |
| `FallbackReturns` | After "switch to fallback": is the failed model called again in the same prompt? | it is |

`Fallback` has two messages of the chat, one utility request, one `/model`, two
decisions to retry and two attempts before each: two concurrent failures, a
mark between the client's selection and the chat session's, a dialog open while the other request moves the active model, a switch followed by
another message, and a second fallback after a switch all happen. In
`FallbackReturns` one message with a broken stream suffices: the switch sets the
configured model and resets the availability service, but the client's
`currentSequenceModel` and the key of the restarted request still name the
failed model, which then is the only model of its chain.

`Services` explores the components side by side: a behaviour chooses one
(`component`) and stays with it, so that the state space is the sum of the ten,
some 410,000 states, and one list of properties holds for all. What the bounds
allow in each:

* two prompts, two attempts and a round of tools: a prompt that waits for the lock of
  an aborted one, a broken stream, a second message in each prompt. (With three
  prompts, 1.2 million states, the properties hold as well; two of them then
  read streams at once, which is the hazard at `geminiChat.ts:293`.)
* two edits on one or two paths and a lost connection: an edit behind the mutex while
  the terminal, the IDE and an error race for the one before it;
* two turns of the agent, two attempts, every set of calls, three signals at any
  moment, histories that are compressed before each request;
* two executions and two tool calls, besides answers to confirmations, of which there
  may be any number: a loop that waits, an execution that joins or loads, a
  cancelled task, a closed connection, a batch queued behind another;
* two commands out of five shapes over three programs, of which one is denied; the session
  starts in the default mode and is switched to YOLO, but not back (the proofs leave both
  open);
* texts of up to three characters and lines, counts up to two, two levels of undo: the
  arithmetic's cases are first, middle and last line, empty or not;
* a queue of three, of which two are retried, and six events: it overflows during
  a flush, before and after its end;
* two discoveries and two changes of the tools: a restart during a discovery, a change
  during a list request and one during its refresh. (Three discoveries, half a
  million states, were explored as well);
* two queries: a prompt and its tool results, or a prompt that overtakes a cancelled one
  that still awaits; two turns, so that each recursive call happens and the budget runs
  out; a loop after two equal calls, of two. (Three queries with one call, three
  million states, and a threshold of three were explored as well);
* two files at two places in a list of two, without bound on the number of events.

Deadlock is not checked, since every component stops when nobody asks anything.

`AcpRetry` is a finding: `Session.prompt` looks at chunks only, so when a stream
breaks after a function call, the calls of the broken attempt stay and will run
beside those of the next, against the comment that the broken attempt's content
should be discarded. The local agent collects calls the same way.

`PolicyDeny` and `TelemetryDrop` are disagreements of the code with its documentation.
`checkShellCommand` answers "ask" for a command it cannot split (`policy-engine.ts:166`) before
it looks whether the rule denies (`:184`), while `docs/core/policy-engine.md` says that
a denied call is not executed. `RunsAsGranted` states what holds instead: such a command runs
only after the user was asked. The telemetry queue evicts its oldest event, as the test of the
logger expects and `RecentEventsKept` says, while the comment on `MAX_EVENTS`
(`clearcut-logger.ts:182`) has later events dropped until the next flush.

The last three of the scheduler's runs are findings: the property is what a comment or a test of the
repository says, and the trace is a real order of events. They bound what the
passing runs claim. `SchedModify` has no IDE, and the client waits for the report of a batch before it goes on (as the CLI and the A2A server
do, except right after Escape). With an overlapping client and three requests, an
Escape while the handler runs makes two completions, and the second may reject a
queued request ("Cannot schedule new tool calls while..."); `RejectedMeansAborted`
is therefore stated for clients that wait.

`CancelsOwnBatch` has one exception, which the proof brought to light (its invariant was
not inductive, and TLC then found the trace): a modification that cannot be rebuilt
leaves its error in the active slot (`coreToolScheduler.ts:339`); the tool of an earlier,
aborted turn that returns now finds a finished call there (`:869`), completes the batch
with its own signal and so cancels the rest of it. `FailedRebuild` names these states.

`SchedBatches` goes beyond `Smooth`, the hypothesis of the two theorems below: a client that
confirms may abort its signal without `cancelAll`, as a closed connection of the A2A
server does. The non-interactive runner is the part of these behaviours in which no call asks:
where nobody can be asked the code rejects the call, as `ValidationFails` does. (A dialog
that is still on the screen after an abort is the terminal's after Escape; the A2A server
forgets a call's details once it is answered, so that nothing is reported twice there.)
`SchedModify` has two requests; that two tools never run at once and that a request is only
rejected by an abort is proved for any number (below).

`SchedStranded` also needs Escape, so the run that checks `NothingStranded` as an
invariant (`SchedBatches`) is one without it: a system that is never escaped strands nothing.

### Properties

`OneToolAtATime`, `RunsWhatWasApproved`, `CancelsOwnBatch`, `TerminalStays`,
`NothingStartsAfterAbort`, `NothingStranded`, `RejectedMeansAborted`,
`EveryRequestSettles` and the refinement `DeliversBatches` are stated with a
comment each at the end of `CoreToolScheduler`; `NoDialogLost`, `MarksShownModel`,
`HonoursChoice`, `RequestsEnd` and `StaysWithFallback` at the end of
`ModelFallback`. Those of the services stand at the end of their modules:

* `LockHeldByReader`, `PromptsEnd` (`AcpSession`): no way out of a stream leaves the chat
  locked, so every prompt is answered;
* `OneDiffPending`, `DiffsSettle` (`IdeDiff`): the mutex admits one edit, and each is
  settled. The second except what the code does lose: two edits of one path, a lost
  connection, a dialog left unanswered;
* `AgentReasonTrue`, `AnswersKept`, `AgentEnds` (`LocalAgent`): the reason is what happened,
  compression never separates a response from its call, and a run ends;
* `OneLoop`, `ResultsWhole`, `LeftAtRest`, `LoopsEnd` (`A2ATask`): one loop per task, which
  goes on only with the whole batch, is not left "working", and does not wait for
  ever on a replaced promise. The last two except a task that was loaded twice, and
  `LeftAtRest` excepts `workingLate`: a message that cancels the awaited call and brings
  a text lets the loop it joined end, and then sets "working" (`task.ts:963`), which
  nobody takes back;
* `RunsAsGranted`, `HandlersWait`, `ApprovalsSettle` (`ToolApproval`): nothing ungranted runs
  unasked, and nothing with a denied part runs but what cannot be parsed, and that only
  asked, whatever changes during the checks; no handler is left on the bus; every
  decision is made;
* `HooksOnce`, `TurnsBounded`, `LoopsFound` (`AgentLoop`): a prompt passes the BeforeAgent
  hook once and a query's end is shown to the AfterAgent hook exactly if no tools
  follow; the recursion spends one budget, and one more behind a block; no prompt is
  handed a threshold of equal calls in a row, whatever recursive calls, queries and tools
  lie between. The first two except prompts whose state the code gave up (`hookLost`), the
  third those that another prompt took the place of: each change of the prompt resets the
  detector (`client.ts:749`), and a prompt that goes on behind another one does get a
  threshold of equal calls;
* `ContextTold` (`IdeContext`): the messages of the history say what the last turn read.
  Except, until the next full context, where the code misses to say it (`misled`);
* `CursorInText`, `ChangesCanBeUndone` (`TextBuffer`); `RecentEventsKept`
  (`TelemetryQueue`); `CompletedMeansDone`, `ToolsUpToDate` (`McpServer`).

Every property that a passing run checks is broken by a
small plausible change of one method (the operators with a suffix, such as
`Released_early`).

### Fairness

`WF_vars(Resume(o))` for every chain: the promises the scheduler awaits settle
(policy checks, tools and editors are all bounded by the user or by timeouts of
their own). `WF_vars` of the user's answer: without it a call may await approval
forever, as in the program. Nothing is assumed of the client: it need not
schedule, abort or press Escape. Liveness runs leave a rejecting completion
handler and a failing rebuild out of `MayThrow`, since both leave the scheduler
waiting by design of the code (listed as hazards).

In `ModelFallback`: calls return or fail, delays elapse, streams end, the user
answers an open dialog. Nobody need send, abort or change the model. The user may
insist at most `Patience` times: without that bound a request that always fails
goes on for as long as the user keeps trying, as it should.

In `MCServices` each behaviour is one of a single component, so fairness is one
condition for its first process, one for its second, one for the environment of
each, and one for messages. It covers: code that runs by itself, promises that
the awaited party settles (a model's stream ends or fails, a tool returns, a
request of MCP returns or fails under its timeout), the timers (`BusTimeout` 30 s,
the agent's timeout and grace period), messages that were sent (`Notified`), an IDE
user who answers a view that is shown, and a user who answers a confirmation of the
A2A task. The local agent's model and tools are *not* assumed to answer: only to
obey an aborted signal, which is why the timers matter. Nobody need send a
prompt, start a server, press a key or log an event.

## 4. Proofs

TLAPS checks, for every number of requests, calls, turns and answers, and every
value of the other constants that satisfies the named assumptions
(`SchedulerAssumption`, `DistinctCalls`, `NonemptyBatches`; TLC evaluates them in every run):

* `TypeCorrect == Spec => []TypeOK` (`CoreToolSchedulerProofs`). `TypeOK` is
  inductive. There is one lemma for each method, in the order in which they call
  each other, and one per group of actions.
* `RunsOnlyApproved` (`CoreToolSchedulerProofs`): if no IDE answers,
  `Spec => []RunsWhatWasApproved`. This is not inductive by itself: an answer
  that proceeds is recorded when it arrives, but the tool starts only after
  `onConfirm`, and a modification could change the arguments in between. The
  strengthening `AnswersAreApprovals` says that a chain that waits for
  `onConfirm`, an editor or an inline change is the user's chain for exactly that
  call, and that its approval covers the current arguments. As each call has one
  such chain, a modification and a pending approval of the same call exclude each
  other. The lemmas `...Answers` show that no method of the scheduler suspends a
  chain in one of these places, so that only five actions need a closer look.
  With an IDE the property is left to TLC's domain: the IDE approves the
  original arguments in a chain of its own.
* The other theorems about the scheduler stand on three layers (`SchedulerInvariants`),
  each inductive given the ones before it. `PlaceInv`: every call the scheduler took over
  is in exactly one of queue, slot, completed batch and reports, with a status that fits
  the place (`Placed`, `SlotOpen`), and every request is queued, rejected or taken over
  (`RequestsKept`). `QueueInv`: chains that have not begun are idle (`Fresh`), and with a
  client that waits at most one request is queued, only while the slot is empty, and the
  calls in the works are of one request (`Alone`). `OwnInv`: a call in the slot has at
  most one chain that waits for it, and that chain's place tells the call's status
  (`SlotOwned`). For each method, one lemma says as a relation between the states before and
  after what it may do (`Finishes`, `Takes`, `Enters`, `Handles`, ...); the proofs of the
  properties use these relations instead of the methods.

| Theorem | States | For | Because otherwise |
|---|---|---|---|
| `RejectedOnlyWhenAborted` | `RejectedMeansAborted` | `~Overlap` | two completions of one batch may reject a request that was not aborted |
| `ResultsStay` | `TerminalStays` | no IDE, or no failing rebuild | the IDE's edit of the arguments may fail after the call ended |
| `AbortedToolsStayDown` | `NothingStartsAfterAbort` | `Abortable = {}` | an abort without `cancelAll` leaves the call in the slot, and its chain starts it without another look at the signal |
| `ToolsRunOneAtATime` | `OneToolAtATime` | `Calm` | an IDE answers beside the terminal (`SchedIdeDouble`) |
| `BatchesCancelThemselves` | `CancelsOwnBatch` | `Calm` | a late IDE answer cancels the next turn (`SchedLateCancel`) |
| `NothingIsStranded` | `NothingStranded` | `Smooth` | Escape, or a rejecting handler, strands what is queued (`SchedStranded`) |
| `SchedulerDeliversBatches` | `DeliversBatches` | `Smooth`, `~Overlap` | as above |

  `Calm` is the terminal client: no IDE, each batch is awaited, no slow `onConfirm`; Escape
  and every failure are allowed. Its invariant `OfTurn` says that the call in the slot and its chain
  are of the current turn, and that every other chain works for an aborted one.
  `AbortedToolsStayDown` adds `Unaborted`: a chain that may start the tool in the slot has a
  live signal, because Escape empties the slot in the same step that aborts. `Smooth`
  is a session without Escape, IDE and failing handler or rebuild, in which signals are
  aborted only where nobody confirms (the non-interactive runner); `Tidy` says that one
  chain works at a time, on the slot or on the handover, and that what is queued waits
  for it.
* `SchedulerDeliversBatches` is the safety part of the refinement (`DeliversBatchesFairly`, with
  fairness, is TLC's). `BatchInv`: the calls in the works are the calls of the one
  request that is neither rejected nor handed over. Every step is then one of four
  (`BatchStep`): nothing happens to the batches, a stutter; the pending request
  is handed over, `Deliver`; a request is made, `Submit`, or is handed over at once, when none of
  its calls could be built, `SubmitAndDeliver`; queued requests are taken back, `Withdraw`.
  `pendingBatches` and `deliveredBatches` are functions of `sent`, `rejected` and `reports`,
  so that the mapping needs lemmas on filtered sequences, but no history.
* `FallbackTypeCorrect`, `DialogIsKept`, `MarksShown` and `ChoiceHonoured`
  (`ModelFallbackProofs`): `TypeOK`, `NoDialogLost`, `MarksShownModel` and
  `HonoursChoice`, for every chain without repetitions, every policy table and
  every bound (`FallbackAssumption`, `NoneIsNoDialog`). The inductive invariant
  adds two facts: a request that got as far as a call has a model (`Placed`: else a
  fallback would have no failed model to name), and an open dialog would mark the
  model it names or none (`DialogFits`: `handleFallback` looks the policy up when
  it asks, not when the answer comes). `MarksShown` is the sum of one fact per
  action about the set of newly marked models; `ChoiceHonoured` rests on
  `SelectsChosen`: with a concrete model configured, every chain has one element. Between the
  two selections others may mark models but not configure one, except by `/model` or the
  dialog, of which the property speaks when the turn begins (`StartCalls`).

* `McpTypeCorrect`, `DiscoveryCompletedWhenDone` (`ServicesProofs`). The invariant
  `McpTypeOK /\ NotesCounted /\ Chained`: every call still running is the one chained
  last or in its `before` set, which is what makes "the last promise is settled"
  imply "all are done".
  `NotesCounted` bounds the notifications on their way by the changes of the tools.
* `AgentTypeCorrect`, `AgentReasonCorrect`, `AnswersStay` (`AgentProofs`). The reason is
  handed along through the recovery turn, so the invariant (`ReasonKept`) states it
  for every place `run` may be in, not only at the end. For histories of any length,
  the invariant adds that an answer is only pushed behind its call (`AnswerReady`);
  `KeptIn` is then shown to survive every split point `SplitPoints` allows.
* `LoopTypeCorrect`, `LoopsAreFound`, `TurnsAreBounded`, `HooksFireOnce` (`AgentProofs`): any number
  of queries, any threshold and any budget of turns. For the budget the invariant bounds
  the turns that every frame of every stack may still spend by what its query has left; for
  the hooks it ties the count of active calls in `hookStateMap` to the frames of
  all queries of the prompt, so that the entry is deleted by the last one only; for the
  detector, that its repetitions are the tail of what the last prompt was handed, that a
  prompt neither last nor overtaken was handed nothing, and that prompts become the last
  in their order (`PromptOrder`), so that one which goes on behind another was overtaken.
* `DiffMutex` (`ServicesProofs`): any number of calls; `Chain` says that the calls form one
  chain of promises and `Passed` that whoever got through has only settled calls
  before it.
* `ContextTypeCorrect`, `ContextIsTold` (`ServicesProofs`): any files, places and history edits.
  The invariant adds to the types that a file is active only if one is open
  (`PlacedFile`), without which an empty list would not mean an empty context, and the
  lemma `ChangesTell` says that changes told to one who knows the last view give the
  new one.
* `TextTypeCorrect`, `CursorStaysInText`, `EditsCanBeUndone` (`ServicesProofs`): texts of any
  size, counts of any size, a history of any length. Every step moves the cursor
  (`CursorMoves`), edits behind a snapshot (`TextEdited`), undoes or redoes. That an edit
  computes a text whose cursor lies in it is one lemma per operator (`Replaced`,
  `Spliced`, `RangeEnd`, `LineDeleted`, ...); the invariant adds that the same holds of
  every text on the stacks, and that the two together keep to the limit, since `Undo`
  and `Redo` check none.
* `GrantedRuns` (`SessionProofs`): `RunsAsGranted` for any calls, programs and rules.
  `GInv` says what a check that is still going on has found out: while it does not
  deny, every part it is through with is not denied, and while it would allow, each
  is granted by the rules and modes there have been, which only grow. It needs
  `HandlersWait`: only a tool that waits for the bus hears a response, so every
  decision falls on the command that was checked.
* `OneLoopRuns`, `HandlersOnlyWait`, `LockOnlyWhileRead` (`SessionProofs`). That one loop runs rests on `executingTask` being set as long as
  a loop runs; that handlers only wait, and that the lock is held by readers, are
  inductive with the types.
* `ResultsAreWhole`, `TasksLeftAtRest` (`SessionProofs`): `ResultsWhole` and `LeftAtRest` for any
  number of executions and calls. `BInv` says that a task's record never loses a call it was
  given (`CallsKept`, `BatchFits`), that the execution whose batch the scheduler holds is
  scheduling, waiting or over and waits on a promise that nothing has settled early, and
  that the owner of a queued batch is still inside `schedule()` (`Owned`, `OwnerWaits`).
  `RInv` adds that whoever leaves the loop has set the state of the task it worked on,
  which is the one in memory unless it was loaded twice. Each step of a loop either leaves it
  that way or stays in it (`LoopLeaves`, `LoopStays`).
* `RecentEventsStay` (`SessionProofs`) holds for every queue length: `Spread`
  says that the numbers held lie at least as far apart as their places, so that
  cutting a long queue at the front loses old events only.

* `ServicesAreComponents`, `ServicesTypeCorrect` (`ServicesProofs`): every behaviour of the
  composition that the run `Services` explores is one of each component, since a step of
  one is a stutter of the others (`ServicesStep`). So whatever is proved of a component holds of
  the composition, which is how the second theorem puts the ten components' types together. The
  types of the A2A task, the approval, the ACP session, the telemetry queue and the IDE's diffs
  rest on the invariants above (`A2AInv`, `ApprovalInv`, `AcpInv`, `TelemetryInv`,
  `DiffInv`).

Every invariant of the passing runs is proved, under the hypotheses of the table where it
has a row. Only model-checked: everything with fairness (liveness and `ENABLED` are outside
what the prover handles), the refinement's fair version, the leads-to `ToolsUpToDate`, and what the
hypotheses of the table leave out: with an IDE or an overlapping client the scheduler's
properties hold in the runs above. Recursive operators are avoided so that all modules stay open to
proofs.

## 5. Not modelled

See "components" in `PROJECT.json` for each part and the reason. Whole parts are
left out because they are input and output (display, credentials, processes, the
OpenTelemetry exporters, the recording's file), because they are pure functions
over text (most tools, the settings' schema, markdown, most of the command line),
or because they add no order of events of their own (the authorization package).

Within the modelled parts:

* *Agentic loop*: the history, the texts, compression, the content hashing and the
  model's check of the loop detector (their results are left open). The model shows what
  no property forbids: `client.ts:766` and `:772` return before the counter of active
  calls is decreased; BeforeAgent fires again behind a block whose continuation calls
  tools, in an overtaken prompt and behind an invalid stream with calls; an overtaken prompt
  may call itself with a budget below zero, which the code takes for one (the model
  stops there); the detector forgets a prompt that another one overtook (see `LoopsFound`).
  After an error or Escape in a stream with calls the terminal still
  schedules what it collected, so that the history, which is not modelled here, may get
  responses to calls it does not have.
* *Editor context*: a full context that is due while no file is open says nothing
  (`client.ts:372`), whatever the model was told before; `resetChat`, unlike compression
  (`:986`), does not force the full context after its await, so a cancelled turn that goes
  on meanwhile uses the force up for the chat that is thrown away. Trust, the sizes of the
  selection and turns without IDE mode are left out.
* *Chat*: edits of the history by commands, a caller that never reads the stream it
  was given (none in the repository), three or more senders in the checked run.
* *ACP*: loading sessions. A hook that stops the model after a chunk with a call also
  leaves calls to be run whose reply is not in the history.
* *Scheduler*: a completion handler that rejects for a denied call is called once more with
  the same batch (`coreToolScheduler.ts:610`, `:699`); the model goes on behind the last
  rejection. The terminal's dialog awaits that the IDE closes its diff before it answers
  (`ToolConfirmationMessage.tsx:70`); the model answers at once, as no outcome depends on it.
* *IDE*: discovery and authentication of the IDE, the user's edits in the view.
* *Local agent*: activity events. The recovery's warning takes the place of the last tool
  responses (listed as a hazard): the model does it, no property forbids it.
* *A2A*: an `onConfirm` that throws, the task store's content, event texts. The state
  "canceled" may be overwritten by a loop that goes on, tools of a cancelled task keep
  running, and closing the connection after "input-required" turns a later
  approval into a cancellation; all of this is in the model and no property says
  otherwise.
* *Policy*: non-interactive mode, hooks, saving rules to their file (two answers "always"
  at once share one temporary file name, listed as a hazard).
* *Text*: the visual layout, path transformations, characters of more than one UTF-16
  unit (`getLineRangeOffsets` counts units, `replaceRangeInternal` code points). The vim
  commands `cc`, `cj` and `ck` on a line that is not the last change nothing but the
  undo stack, as a test of the repository expects.
* *Telemetry*: the flush at exit, which nobody awaits. A response of status 2xx with an
  unreadable body is counted as a failure, and its events are sent twice.
* *MCP*: prompts and the resource refresh, transports, `stop()` at exit. In the model as
  in the code, `disconnect()` of a connecting client returns at once, so that a
  stopped server may still register its tools; a failed list request removes all
  tools; tools that change while a discovery waits for the resources stay stale.
  `ToolsUpToDate` names these exceptions.

## 6. Plan

Done: the scheduler (1), model selection, fallback and retry (2), chat and ACP
session (3), bus and policy (4), the A2A task (5), local agents, the IDE, MCP, text
and telemetry (6), the agentic loop with its hooks and loop detector, and the editor's
context (7). Left, in this order:

8. More theorems: that `A2ATask`'s reduced scheduler is refined by `CoreToolScheduler`.
9. The file of saved rules with two writers; the recording of a session; OAuth token
   refresh, where two processes share a file; the hashing of the loop detector.
