------------------------------ MODULE AcpSession ------------------------------
(***************************************************************************)
(* A session of the Agent Client Protocol (cli/zed-integration): prompts   *)
(* arrive while earlier ones are still being answered.  A prompt aborts    *)
(* the one before it, but does not wait for it: only the chat's promise    *)
(* keeps their streams apart.                                              *)
(*                                                                         *)
(* Each prompt is an asynchronous call of Session.prompt, one action per   *)
(* stretch of code between two awaits.  Prompts are numbered in order of   *)
(* arrival.                                                                *)
(***************************************************************************)
EXTENDS GeminiChat

CONSTANT ToolRounds  \* bound: how often the model asks for tools in a prompt

ASSUME AcpAssumption == ToolRounds \in Nat

VARIABLES prompt,        \* prompt[p]: the call of Session.prompt
          pendingPrompt  \* this.pendingPrompt, the prompt it belongs to, or 0

acpVars == <<chatVars, prompt, pendingPrompt>>

Prompts == [at: {"new", "resolving", "stream", "tools", "ended"},
            aborted: BOOLEAN, calls: Nat, rounds: Nat]

AcpTypeOK ==
    /\ ChatTypeOK
    /\ prompt \in [Senders -> Prompts]
    /\ pendingPrompt \in Senders \cup {0}

AcpInit ==
    /\ ChatInit
    /\ prompt = [p \in Senders |-> [at |-> "new", aborted |-> FALSE, calls |-> 0,
                                    rounds |-> 0]]
    /\ pendingPrompt = 0

moved(p, at) == prompt' = [prompt EXCEPT ![p].at = at]

\* The call returns a stop reason or throws; its locals are gone.
ended(p) == prompt' = [prompt EXCEPT ![p].at = "ended", ![p].calls = 0, ![p].rounds = 0]

\* abort() of the pending controller, if there is one.
abortPending(f) == IF pendingPrompt = 0 THEN f ELSE [f EXCEPT ![pendingPrompt].aborted = TRUE]

\* A prompt request arrives and takes the place of the pending one.
Prompt(p) ==
    /\ prompt[p].at = "new"
    /\ \A q \in Senders : q < p => prompt[q].at # "new"
    /\ prompt' = [abortPending(prompt) EXCEPT ![p].at = "resolving"]
    /\ pendingPrompt' = p
    /\ UNCHANGED chatVars

\* cancelPendingPrompt; without a pending prompt it throws.
Cancel ==
    /\ pendingPrompt # 0
    /\ prompt' = abortPending(prompt)
    /\ pendingPrompt' = 0
    /\ UNCHANGED chatVars

\* The top of the loop, with the next message: an aborted prompt only leaves
\* it in the history; otherwise it is sent.
LoopTop(p, message, calls) ==
    IF prompt[p].aborted
      THEN /\ addHistory(Entry(p, message, calls))
           /\ ended(p)
           /\ UNCHANGED <<sendPromise, openStreams, stream>>
      ELSE /\ ChatAwait(p)
           /\ moved(p, "stream")
           /\ UNCHANGED chatHistory

ResolvePrompt(p) ==
    /\ prompt[p].at = "resolving"
    /\ LoopTop(p, "prompt", 0)
    /\ UNCHANGED pendingPrompt

ResolveFails(p) ==
    /\ prompt[p].at = "resolving"
    /\ ended(p)
    /\ UNCHANGED <<chatVars, pendingPrompt>>

\* The chat lets the prompt continue; functionCalls is a new array.
Send(p) ==
    /\ prompt[p].at = "stream"
    /\ ChatContinue(p, Entry(p, IF prompt[p].rounds = 0 THEN "prompt" ELSE "answer",
                             prompt[p].calls))
    /\ prompt' = [prompt EXCEPT ![p].calls = 0]
    /\ UNCHANGED pendingPrompt

Connect(p) ==
    /\ prompt[p].at = "stream" /\ ~prompt[p].aborted
    /\ ChatConnected(p)
    /\ UNCHANGED <<prompt, pendingPrompt>>

\* An event the reader does not act on is left out: after an abort it leaves.
CallChunk(p) ==
    /\ prompt[p].at = "stream" /\ ~prompt[p].aborted
    /\ prompt[p].rounds < ToolRounds
    /\ ChatCallChunk(p)
    /\ prompt' = [prompt EXCEPT ![p].calls = @ + 1]
    /\ UNCHANGED pendingPrompt

Break(p) ==
    /\ prompt[p].at = "stream"
    /\ prompt[p].aborted => ~stream[p].hasToolCall
    /\ ChatBroke(p)
    /\ UNCHANGED <<prompt, pendingPrompt>>

Retry(p) ==
    /\ prompt[p].at = "stream" /\ ~prompt[p].aborted
    /\ ChatRetry(p)
    /\ UNCHANGED <<prompt, pendingPrompt>>

\* The connection fails, the stream breaks for good, or the reader finds the
\* signal aborted at the next event: the call ends.
Leave(p) ==
    /\ prompt[p].at = "stream"
    /\ stream[p].at = "delay" => prompt[p].aborted
    /\ ChatLeft(p)
    /\ ended(p)
    /\ UNCHANGED <<chatHistory, pendingPrompt>>

\* After the stream: an aborted prompt ends, function calls are run.
afterStream(p) ==
    IF prompt[p].aborted \/ prompt[p].calls = 0 THEN ended(p) ELSE moved(p, "tools")

Finish(p) ==
    /\ prompt[p].at = "stream"
    /\ ChatReplied(p)
    /\ afterStream(p)
    /\ UNCHANGED pendingPrompt

\* A hook stopped or blocked the model: the generator ends without a reply.
HookStops(p) ==
    /\ prompt[p].at = "stream"
    /\ stream[p].at \in {"connecting", "reading"}
    /\ ChatLeft(p)
    /\ afterStream(p)
    /\ UNCHANGED <<chatHistory, pendingPrompt>>

\* runTool answers every call, also when it fails or is refused.
ToolsDone(p) ==
    /\ prompt[p].at = "tools"
    /\ IF prompt[p].aborted
         THEN LoopTop(p, "answer", prompt[p].calls)
         ELSE /\ ChatAwait(p)
              /\ prompt' = [prompt EXCEPT ![p].at = "stream", ![p].rounds = @ + 1]
              /\ UNCHANGED chatHistory
    /\ UNCHANGED pendingPrompt

AcpStep(p) ==
    \/ ResolvePrompt(p) \/ ResolveFails(p) \/ Send(p) \/ Connect(p) \/ CallChunk(p)
    \/ Break(p) \/ Retry(p) \/ Leave(p) \/ Finish(p) \/ HookStops(p) \/ ToolsDone(p)

AcpNext == Cancel \/ \E p \in Senders : Prompt(p) \/ AcpStep(p)

AcpSpec == AcpInit /\ [][AcpNext]_acpVars

-------------------------------------------------------------------------------

\* A promise that is not resolved belongs to a generator that is still read:
\* none of the ways out of the stream leaves the chat locked
\* (geminiChat.ts:427, zedIntegration.ts:299).
LockHeldByReader ==
    openStreams = {OwnPromise(p) : p \in {q \in Senders :
                        stream[q].at \in {"connecting", "reading", "delay"}}}

\* Every prompt request is answered: whoever waits for the promise of another
\* stream is let through (geminiChat.ts:427, zedIntegration.ts:264).
PromptsEnd == []<>(\A p \in Senders : prompt[p].at \in {"new", "ended"})

\* geminiChat.ts:61 says that what was read of a broken attempt should be
\* discarded when a retry is announced: the calls that wait to be run are
\* those of the attempt that is read.  The session does not look at the
\* announcement (zedIntegration.ts:282, :328).
BrokenDiscarded ==
    \A p \in Senders :
        stream[p].at = "reading" /\ prompt[p].calls > 0 => stream[p].hasToolCall
===============================================================================
