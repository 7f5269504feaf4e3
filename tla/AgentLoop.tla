------------------------------- MODULE AgentLoop -------------------------------
(***************************************************************************)
(* The agentic loop (core/client.ts) and how the terminal calls it.        *)
(*                                                                         *)
(* A query is one call of sendMessageStream by the user interface: a new   *)
(* prompt, or the results of the tools that a query of the same prompt     *)
(* asked for.  The call goes on by calling itself, after an invalid        *)
(* stream, when the next speaker is the model, and when the AfterAgent     *)
(* hook blocks; `frames' is its stack.  The client keeps state per prompt: *)
(* the hook state, shared by all calls of the prompt, and the loop         *)
(* detector, shared by all prompts.  Escape aborts a query and lets the    *)
(* user send the next prompt, while the aborted one may still await.       *)
(*                                                                         *)
(* A turn is one wait, from what it awaits before its request (token       *)
(* count, compression, the loop check by a model, routing) to the end of   *)
(* its stream: nothing modelled here is written in between but by the      *)
(* events.  Calls that return do so up to the next wait, within one step.  *)
(***************************************************************************)
EXTENDS Integers, Sequences

CONSTANTS Queries,                   \* calls by the user interface, numbered in order
          MAX_TURNS,                 \* the bound of the recursion
          TOOL_CALL_LOOP_THRESHOLD,  \* identical calls in a row that make a loop
          CallKeys                   \* name and arguments of a call

ASSUME LoopAssumption ==
    /\ Queries \subseteq Nat \ {0}
    /\ MAX_TURNS \in Nat \ {0} /\ TOOL_CALL_LOOP_THRESHOLD \in Nat \ {0, 1}

VARIABLES query,         \* query[q]: the call, its stack and its turn
          hookStateMap,  \* hookStateMap[p]: the state of prompt p
          lastPromptId,  \* 0: the session's id, which no prompt has
          loopDetector,
          loopDialog,    \* loopDetectedRef is set ("found"), the user is asked ("open")
          hookSaw,       \* history: prompts the BeforeAgent hook saw,
          handedOut,     \*   handedOut[p]: the last call prompt p was given, how often in a row
          overtaken,     \*   prompts that another took the place of as the last one
          hookLost       \*   prompts whose hook state the code gave up early

hookVars == <<hookStateMap, hookSaw, hookLost>>
detectorVars == <<loopDetector, loopDialog, handedOut, overtaken>>
loopVars == <<query, lastPromptId, hookVars, detectorVars>>

NoCall == "none"
Frame == [left: 0 .. MAX_TURNS, retry: BOOLEAN, after: BOOLEAN]
NewQuery == [at |-> "new", prompt |-> 0, aborted |-> FALSE, frames |-> <<>>, pending |-> FALSE,
             collected |-> FALSE, turns |-> 0]
NoHookState == [there |-> FALSE, fired |-> FALSE, active |-> 0]
NoCalls == [key |-> NoCall, count |-> 0]
NoLoop == [calls |-> NoCalls, detected |-> FALSE, disabled |-> FALSE]

Waits == {"beforeAgent", "turn", "speaker", "afterAgent"}
Ends == {"tools", "done", "cutOff"}   \* "cutOff": by the BeforeAgent hook or an exception
Query == [at: {"new"} \cup Waits \cup Ends,
          prompt: Queries \cup {0}, aborted: BOOLEAN, frames: Seq(Frame),
          pending: BOOLEAN,     \* turn.pendingToolCalls is not empty
          collected: BOOLEAN,   \* toolCallRequests of the user interface is not empty
          turns: Nat]           \* turns begun with budget left
HookState == [there: BOOLEAN, fired: BOOLEAN, active: Int]
CallCount == [key: CallKeys \cup {NoCall}, count: Nat]

LoopTypeOK ==
    /\ query \in [Queries -> Query]
    /\ hookStateMap \in [Queries -> HookState]
    /\ lastPromptId \in Queries \cup {0}
    /\ loopDetector \in [calls: CallCount, detected: BOOLEAN, disabled: BOOLEAN]
    /\ loopDialog \in {"none", "found", "open"}
    /\ handedOut \in [Queries -> CallCount] /\ overtaken \subseteq Queries
    /\ hookSaw \subseteq Queries /\ hookLost \subseteq Queries

LoopInit ==
    /\ query = [q \in Queries |-> NewQuery]
    /\ hookStateMap = [p \in Queries |-> NoHookState]
    /\ lastPromptId = 0
    /\ loopDetector = NoLoop
    /\ loopDialog = "none"
    /\ hookSaw = {} /\ hookLost = {} /\ overtaken = {}
    /\ handedOut = [p \in Queries |-> NoCalls]

-------------------------------------------------------------------------------
(* sendMessageStream: up to its first wait *)

\* The turn on top begins, with no calls yet.
turnBegun(r) ==
    [r EXCEPT !.at = "turn", !.pending = FALSE,
              !.turns = IF r.frames[1].left > 0 THEN @ + 1 ELSE @]

\* The prompt that a call of prompt p takes the place of, or none.
Overtaken(p) == IF lastPromptId = p THEN {} ELSE {lastPromptId} \ {0}

\* The call `asked' of query q, with its frame on top, in the given queries and
\* detector: another prompt than the last one resets the detector and forgets
\* the last one's hook state.  fireBeforeAgentHookSafe counts the call, and
\* fires unless it did before.
sendMessageStream(queries, detector, q, asked) ==
    LET p == asked.prompt
        switched == lastPromptId # p
        kept == [o \in Queries |-> IF switched /\ o = lastPromptId THEN NoHookState
                                   ELSE hookStateMap[o]]
    IN  /\ lastPromptId' = p
        /\ loopDetector' = IF switched THEN [NoLoop EXCEPT !.disabled = detector.disabled]
                           ELSE detector
        /\ overtaken' = overtaken \cup Overtaken(p)
        /\ hookStateMap' = [kept EXCEPT ![p].there = TRUE, ![p].active = @ + 1]
        /\ query' = [queries EXCEPT ![q] =
               IF kept[p].fired THEN turnBegun(asked)
               ELSE [asked EXCEPT !.at = "beforeAgent", !.pending = FALSE]]

\* The recursive calls, each with one turn less.
nested(q, retry, after) ==
    [query[q] EXCEPT !.frames = <<[left |-> @[1].left - 1, retry |-> retry, after |-> after]>> \o @]

-------------------------------------------------------------------------------
(* sendMessageStream: behind processTurn *)

\* Mutant: calls whose tools are pending are not counted down.
countedDown_leaks(o, calls, keep) ==
    IF ~o.there \/ keep THEN o
    ELSE IF o.active > calls THEN [o EXCEPT !.active = @ - calls] ELSE NoHookState

\* The finally clause for `calls' calls of a prompt that are left at once: its
\* hook state stays while one is active or, for the last, tools are pending.
countedDown(o, calls, keep) ==
    IF o.there /\ (o.active > calls \/ keep) THEN [o EXCEPT !.active = @ - calls] ELSE NoHookState

\* A query that is over; what it counted and collected is of no use any more.
over(r, at) == [NewQuery EXCEPT !.at = at, !.prompt = r.prompt, !.pending = r.pending]

\* The turn that `calls' calls of query r have returned still has tools to call:
\* behind a block, a call returns the turn of its own that went before.
pendingBehind(r, calls) == r.pending /\ \A i \in 1 .. calls : ~r.frames[i].after

\* The calls inside the one that the hook state o counts as the outermost.
inner(o) == o.active - 1

\* That call, once the others have returned, fires the AfterAgent hook, if its
\* turn has no calls.  Not so if it `leaves', or was blocked: it is behind that.
FiresAfterAgent(r, o, leaves) ==
    /\ o.there /\ inner(o) \in 0 .. Len(r.frames) - 1
    /\ ~pendingBehind(r, inner(o))
    /\ ~(IF inner(o) = 0 THEN leaves ELSE r.frames[inner(o)].after)

\* The calls of query r that return, on the hook state o, up to the next wait.
\* Behind its finally clause the caller goes on: behind its own processTurn, with
\* the turn it got, or behind a block in its own finally.  The last frame returns
\* to the user interface, which schedules what it collected; under an aborted
\* signal those calls are cancelled and nothing follows.
unwound(r, o, leaves) ==
    LET calls == Len(r.frames)
    IN  IF FiresAfterAgent(r, o, leaves)
        THEN [query |-> [r EXCEPT !.at = "afterAgent", !.pending = FALSE,
                                  !.frames = SubSeq(@, o.active, calls)],
              hookState |-> [o EXCEPT !.active = 1]]
        ELSE [query |-> over([r EXCEPT !.pending = pendingBehind(r, calls)],
                             IF r.collected /\ ~r.aborted THEN "tools" ELSE "done"),
              hookState |-> countedDown(o, calls, pendingBehind(r, calls - 1) /\ ~r.aborted)]

\* Query q, as r, returns on the hook state o from its top call's processTurn, or
\* leaves that call; `found' says whether a loop was reported.  (The turn whose calls keep the hook
\* state is not always the one with the calls: behind a block it is the one
\* before, behind an invalid stream the one after.  Then the state goes while
\* tools run.)
Returns(q, r, o, leaves, found) ==
    LET u == unwound(r, o, leaves)
    IN  /\ query' = [query EXCEPT ![q] = u.query]
        /\ hookStateMap' = [hookStateMap EXCEPT ![r.prompt] = u.hookState]
        /\ loopDialog' = IF (found \/ loopDialog = "found") /\ u.query.at \in Ends THEN "open"
                     ELSE IF found THEN "found" ELSE loopDialog
        /\ hookLost' = IF u.query.at = "tools" /\ ~u.query.pending THEN hookLost \cup {r.prompt}
                       ELSE hookLost
        /\ UNCHANGED <<lastPromptId, handedOut, overtaken>>

Goes(q, r, leaves, found) == Returns(q, r, hookStateMap[r.prompt], leaves, found)

-------------------------------------------------------------------------------
(* The waits *)

\* The hook lets the call pass.
BeforeAgentPasses(q) ==
    /\ query[q].at = "beforeAgent"
    /\ LET p == query[q].prompt IN
         /\ hookStateMap' = [hookStateMap EXCEPT ![p].fired = hookStateMap[p].there]
         /\ hookSaw' = hookSaw \cup {p}
    /\ query' = [query EXCEPT ![q] = turnBegun(@)]
    /\ UNCHANGED <<lastPromptId, hookLost, detectorVars>>

\* It stops or blocks the call: that return comes before the try whose finally
\* counts the call down.  The user interface gets an end, or the caller an empty
\* turn; the latter in an overtaken prompt only, where the hook fires again.
BeforeAgentStops(q) ==
    LET r == query[q]
        o == [hookStateMap[r.prompt] EXCEPT !.fired = hookStateMap[r.prompt].there]
    IN
    /\ r.at = "beforeAgent"
    /\ hookSaw' = hookSaw \cup {r.prompt}
    /\ IF Len(r.frames) = 1
         THEN /\ query' = [query EXCEPT ![q] = over(@, "cutOff")]
              /\ hookStateMap' = [hookStateMap EXCEPT ![r.prompt] = o]
              /\ loopDialog' = IF loopDialog = "found" THEN "open" ELSE loopDialog
              /\ UNCHANGED <<lastPromptId, hookLost, handedOut, overtaken>>
         ELSE Returns(q, [r EXCEPT !.frames = Tail(@)], o, r.frames[1].after, FALSE)
    /\ UNCHANGED loopDetector

\* processTurn returns early: the session's or the recursion's turns are used
\* up, the message does not fit, or a model judged the conversation to be a loop.
TurnNotSent(q, found) ==
    /\ query[q].at = "turn" /\ ~query[q].pending
    /\ found => query[q].frames[1].left > 0 /\ ~loopDetector.disabled
    /\ Goes(q, query[q], FALSE, found)
    /\ UNCHANGED <<loopDetector, hookSaw>>

\* Mutant: the repetitions are not counted.
addAndCheck_forgetsRepetition(call) ==
    IF loopDetector.disabled \/ loopDetector.detected THEN loopDetector
    ELSE [loopDetector EXCEPT !.calls = [key |-> call, count |-> 1]]

Repeated(calls, call) ==
    [key |-> call, count |-> IF calls.key = call THEN calls.count + 1 ELSE 1]

\* LoopDetectionService.addAndCheck and checkToolCallLoop for an event with a call.
addAndCheck(call) ==
    LET calls == Repeated(loopDetector.calls, call)
    IN  IF loopDetector.disabled \/ loopDetector.detected THEN loopDetector
        ELSE [loopDetector EXCEPT !.calls = calls,
                                  !.detected = calls.count >= TOOL_CALL_LOOP_THRESHOLD]

Sending(q) == query[q].at = "turn" /\ query[q].frames[1].left > 0

\* The stream has a function call.  The turn counts it before the event is
\* checked; the user interface gets it only if it is no loop.
CallEvent(q, call) ==
    /\ Sending(q) /\ ~query[q].aborted
    /\ loopDetector' = addAndCheck(call)
    /\ LET r == [query[q] EXCEPT !.pending = TRUE] IN
         IF loopDetector'.detected /\ ~loopDetector.disabled THEN Goes(q, r, FALSE, TRUE)
         ELSE /\ query' = [query EXCEPT ![q] = [r EXCEPT !.collected = TRUE]]
              /\ handedOut' = IF loopDetector.disabled THEN handedOut
                              ELSE [handedOut EXCEPT ![r.prompt] = Repeated(@, call)]
              /\ UNCHANGED <<hookStateMap, lastPromptId, loopDialog, overtaken, hookLost>>
    /\ UNCHANGED hookSaw

\* Any other event: content that repeats itself is a loop, and once a loop was
\* detected in the prompt every event is.
LoopEvent(q) ==
    /\ Sending(q) /\ ~loopDetector.disabled
    /\ query[q].aborted => loopDetector.detected
    /\ loopDetector' = [loopDetector EXCEPT !.detected = TRUE]
    /\ Goes(q, query[q], FALSE, TRUE)
    /\ UNCHANGED hookSaw

StreamOver(q) == Sending(q) /\ (loopDetector.detected => loopDetector.disabled)

\* The stream is over and the turn returns: cancelled, failed, or complete.
TurnReturns(q) ==
    /\ StreamOver(q) /\ Goes(q, query[q], FALSE, FALSE) /\ UNCHANGED <<loopDetector, hookSaw>>

\* Mutant: the continuation is neither counted nor marked as one.
InvalidStream_endless(q) ==
    /\ StreamOver(q) /\ ~query[q].aborted
    /\ sendMessageStream(query, loopDetector, q,
           [nested(q, TRUE, FALSE) EXCEPT !.frames[1].left = query[q].frames[1].left])
    /\ hookLost' = hookLost \cup Overtaken(query[q].prompt)
    /\ UNCHANGED <<loopDialog, handedOut, hookSaw>>

\* An invalid stream is continued, if the configuration says so, but not twice
\* in a row; the calls collected so far stay with the user interface.
InvalidStream(q) ==
    /\ StreamOver(q) /\ ~query[q].aborted /\ ~query[q].frames[1].retry
    /\ sendMessageStream(query, loopDetector, q, nested(q, TRUE, FALSE))
    /\ hookLost' = hookLost \cup Overtaken(query[q].prompt)
    /\ UNCHANGED <<loopDialog, handedOut, hookSaw>>

\* The stream is complete, without calls: the next speaker is asked for.
AskNextSpeaker(q) ==
    /\ StreamOver(q) /\ ~query[q].aborted /\ ~query[q].pending
    /\ query' = [query EXCEPT ![q].at = "speaker"]
    /\ UNCHANGED <<lastPromptId, hookVars, detectorVars>>

\* checkNextSpeaker returns; an aborted one returns null.
SpeakerIsUser(q) ==
    /\ query[q].at = "speaker"
    /\ Goes(q, query[q], FALSE, FALSE) /\ UNCHANGED <<loopDetector, hookSaw>>

SpeakerIsModel(q) ==
    /\ query[q].at = "speaker" /\ ~query[q].aborted
    /\ sendMessageStream(query, loopDetector, q, nested(q, FALSE, FALSE))
    /\ hookLost' = hookLost \cup Overtaken(query[q].prompt)
    /\ UNCHANGED <<loopDialog, handedOut, hookSaw>>

AfterAgentPasses(q) ==
    /\ query[q].at = "afterAgent"
    /\ Goes(q, query[q], TRUE, FALSE) /\ UNCHANGED <<loopDetector, hookSaw>>

\* The hook blocks: the agent goes on with its reason, aborted or not.  The guard
\* on the budget is a bound of the model: an outermost call without budget exists
\* in an overtaken prompt only, and goes on with a negative one, which is truthy.
AfterAgentBlocks(q) ==
    /\ query[q].at = "afterAgent" /\ query[q].frames[1].left > 0
    /\ sendMessageStream(query, loopDetector, q, nested(q, FALSE, TRUE))
    /\ hookLost' = hookLost \cup Overtaken(query[q].prompt)
    /\ UNCHANGED <<loopDialog, handedOut, hookSaw>>

\* An exception passes all frames; their turns are the empty ones they began with.
Throws(q) ==
    /\ query[q].at = "turn"
    /\ LET p == query[q].prompt IN
         hookStateMap' = [hookStateMap EXCEPT ![p] =
             countedDown(@, Len(query[q].frames), FALSE)]
    /\ query' = [query EXCEPT ![q] = over([@ EXCEPT !.pending = FALSE], "cutOff")]
    /\ UNCHANGED <<lastPromptId, hookSaw, hookLost, detectorVars>>

-------------------------------------------------------------------------------
(* The user interface *)

NextNew(q) == query[q].at = "new" /\ \A e \in Queries : e < q => query[e].at # "new"
Latest(q) == query[q].at # "new" /\ \A e \in Queries : e > q => query[e].at = "new"

AskedCall(p) ==
    [NewQuery EXCEPT !.prompt = p,
                     !.frames = <<[left |-> MAX_TURNS, retry |-> FALSE, after |-> FALSE]>>]

\* submitQuery with a new prompt: nothing responds, or what does was cancelled.
SubmitPrompt(q) ==
    /\ NextNew(q)
    /\ \A e \in Queries : e < q => query[e].at \in Ends \ {"tools"} \/ query[e].aborted
    /\ sendMessageStream(query, loopDetector, q, AskedCall(q))
    /\ hookLost' = hookLost \cup Overtaken(q)
    /\ UNCHANGED <<loopDialog, handedOut, hookSaw>>

\* cancelOngoingRequest aborts the latest query only; tools that run are
\* cancelled (CoreToolScheduler) and their results dropped.
CancelQuery(q) ==
    /\ Latest(q) /\ query[q].at \in Waits /\ ~query[q].aborted
    /\ query' = [query EXCEPT ![q].aborted = TRUE]
    /\ UNCHANGED <<lastPromptId, hookVars, detectorVars>>

\* handleCompletedTools: every tool was cancelled, one stops the execution, or
\* the model was switched.
ToolsDropped(q) ==
    /\ query[q].at = "tools"
    /\ query' = [query EXCEPT ![q].at = "done"]
    /\ UNCHANGED <<lastPromptId, hookVars, detectorVars>>

\* The results are the next query of the prompt.
ToolsAnswered(q, e) ==
    /\ query[q].at = "tools" /\ NextNew(e)
    /\ sendMessageStream([query EXCEPT ![q].at = "done"], loopDetector, e,
                         AskedCall(query[q].prompt))
    /\ hookLost' = hookLost \cup Overtaken(query[q].prompt)
    /\ UNCHANGED <<loopDialog, handedOut, hookSaw>>

\* The user answers the dialog: loop detection is disabled for the session, and
\* the latest query is sent again.  Its tools may still run.
DisableLoops(q, e) ==
    /\ loopDialog = "open" /\ Latest(q) /\ NextNew(e)
    /\ loopDialog' = "none"
    /\ LET p == query[q].prompt IN
         /\ sendMessageStream(query, [loopDetector EXCEPT !.disabled = TRUE], e, AskedCall(p))
         /\ hookLost' = hookLost \cup Overtaken(p) \cup {p}
    /\ UNCHANGED <<handedOut, hookSaw>>

LoopNext ==
    \/ \E q \in Queries :
        \/ SubmitPrompt(q) \/ CancelQuery(q) \/ ToolsDropped(q)
        \/ BeforeAgentPasses(q) \/ BeforeAgentStops(q)
        \/ \E found \in BOOLEAN : TurnNotSent(q, found)
        \/ \E call \in CallKeys : CallEvent(q, call)
        \/ LoopEvent(q) \/ TurnReturns(q) \/ InvalidStream(q) \/ AskNextSpeaker(q)
        \/ SpeakerIsUser(q) \/ SpeakerIsModel(q)
        \/ AfterAgentPasses(q) \/ AfterAgentBlocks(q) \/ Throws(q)
    \/ \E q, e \in Queries : ToolsAnswered(q, e) \/ DisableLoops(q, e)

LoopSpec == LoopInit /\ [][LoopNext]_loopVars

-------------------------------------------------------------------------------

\* The AfterAgent hook was fired for a call of query q that is not left yet, or
\* is just about to be.
ShownToHook(q) ==
    query[q].at = "afterAgent" \/ \E i \in DOMAIN query[q].frames : query[q].frames[i].after

HookStep ==
    \A q \in Queries : query[q].prompt \notin hookLost' =>
        /\ query[q].at = "beforeAgent" /\ query'[q].at \in {"turn", "cutOff"}
             => query[q].prompt \notin hookSaw
        /\ query[q].at \in Waits /\ query'[q].at \in {"tools", "done"}
             => ShownToHook(q) = ~query'[q].pending

\* A prompt passes the BeforeAgent hook once, however many calls it takes, and
\* each query that ends without tool calls was shown to the AfterAgent hook, no
\* other (client.ts:99).  Not so where the code loses track: a prompt that was
\* overtaken by another, sent again after a loop, or whose last turn is not the
\* one with the calls, and a query that the hook or an exception cut off.
HooksOnce == [][HookStep]_loopVars

\* A query begins no more turns than the budget and, behind one block of the
\* AfterAgent hook, once more all but one of it (client.ts:62, :721, :824).
TurnsBounded ==
    \A q \in Queries : query[q].prompt \notin hookLost => query[q].turns <= 2 * MAX_TURNS - 1

\* A prompt, through all its recursive calls, its queries and the tools between
\* them, is never given a threshold of identical calls in a row, unless another
\* prompt took its place: the detector counts for the last prompt only, and
\* forgets its count at every change (loopDetectionService.ts:201, client.ts:749).
LoopsFound ==
    \A p \in Queries \ overtaken : handedOut[p].count < TOOL_CALL_LOOP_THRESHOLD
===============================================================================
