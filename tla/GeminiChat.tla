------------------------------ MODULE GeminiChat ------------------------------
(***************************************************************************)
(* A chat session (core/geminiChat.ts): its history, and the promise that  *)
(* makes one message wait for the stream of the message before it.         *)
(*                                                                         *)
(* A sender first awaits the promise it finds in sendPromise; when it      *)
(* continues it replaces it by a promise of its own, pushes its message    *)
(* and returns a generator.  Whatever way the generator is left, its       *)
(* finally clause resolves the promise.  The module gives each of these    *)
(* steps as an operator on the chat's variables; the consumer's actions    *)
(* are built from them.                                                    *)
(***************************************************************************)
EXTENDS Naturals, Sequences, FiniteSets

CONSTANTS Senders,        \* who sends to this chat: numbers in order of arrival
          StreamAttempts  \* INVALID_CONTENT_RETRY_OPTIONS.maxAttempts

ASSUME ChatAssumption == /\ Senders \subseteq Nat \ {0}
                         /\ StreamAttempts \in Nat \ {0}

VARIABLES chatHistory,  \* this.history: who pushed an entry, its kind, its calls
          sendPromise,  \* the promise made by the last sender that continued
          openStreams,  \* the promises that are not resolved yet
          stream        \* stream[s]: the generator that s waits for or reads

chatVars == <<chatHistory, sendPromise, openStreams, stream>>

\* The nth promise that sender s makes; a new chat holds a resolved one.
Promises == (Senders \cup {0}) \X Nat
Resolved == <<0, 0>>

EntryKind == {"prompt", "answer", "text", "call"}
Entry(s, kind, calls) == [by |-> s, kind |-> kind, calls |-> calls]

Streams == [at: {"none", "waiting", "connecting", "reading", "delay"},
            waitsFor: Promises, n: Nat, attempt: Nat, hasToolCall: BOOLEAN]

NoStream == [at |-> "none", waitsFor |-> Resolved, n |-> 0, attempt |-> 0,
             hasToolCall |-> FALSE]

ChatTypeOK ==
    /\ chatHistory \in Seq([by: Senders, kind: EntryKind, calls: Nat])
    /\ sendPromise \in Promises
    /\ openStreams \subseteq Promises
    /\ stream \in [Senders -> Streams]

ChatInit ==
    /\ chatHistory = <<>>
    /\ sendPromise = Resolved
    /\ openStreams = {}
    /\ stream = [s \in Senders |-> NoStream]

OwnPromise(s) == <<s, stream[s].n>>

addHistory(entry) == chatHistory' = Append(chatHistory, entry)

\* sendMessageStream is called: `await this.sendPromise', whichever it is now.
ChatAwait(s) ==
    /\ stream[s].at = "none"
    /\ stream' = [stream EXCEPT ![s].at = "waiting", ![s].waitsFor = sendPromise]
    /\ UNCHANGED <<sendPromise, openStreams>>

\* The awaited promise is resolved: the sender makes its own and pushes its
\* message.  It does not look whether another sender continued before it.
ChatContinue(s, entry) ==
    /\ stream[s].at = "waiting"
    /\ stream[s].waitsFor \notin openStreams
    /\ LET own == <<s, stream[s].n + 1>> IN
         /\ sendPromise' = own
         /\ openStreams' = openStreams \cup {own}
    /\ stream' = [stream EXCEPT ![s] = [at |-> "connecting", waitsFor |-> Resolved,
                                        n |-> @.n + 1, attempt |-> 1, hasToolCall |-> FALSE]]
    /\ addHistory(entry)

\* makeApiCallAndProcessStream returned a stream.
ChatConnected(s) ==
    /\ stream[s].at = "connecting"
    /\ stream' = [stream EXCEPT ![s].at = "reading"]
    /\ UNCHANGED <<chatHistory, sendPromise, openStreams>>

\* A chunk with a function call is read.
ChatCallChunk(s) ==
    /\ stream[s].at = "reading" /\ ~stream[s].hasToolCall
    /\ stream' = [stream EXCEPT ![s].hasToolCall = TRUE]
    /\ UNCHANGED <<chatHistory, sendPromise, openStreams>>

\* The stream broke or was invalid, and there is an attempt left.  Only a
\* stream without a function call can be invalid.
ChatBroke(s) ==
    /\ stream[s].at = "reading"
    /\ stream[s].attempt < StreamAttempts
    /\ stream' = [stream EXCEPT ![s].at = "delay"]
    /\ UNCHANGED <<chatHistory, sendPromise, openStreams>>

\* The next attempt; the consumer reads a RETRY event first.
ChatRetry(s) ==
    /\ stream[s].at = "delay"
    /\ stream' = [stream EXCEPT ![s].at = "connecting", ![s].attempt = @ + 1,
                                ![s].hasToolCall = FALSE]
    /\ UNCHANGED <<chatHistory, sendPromise, openStreams>>

ChatClosed_leaks(s) ==
    /\ openStreams' = openStreams
    /\ stream' = [stream EXCEPT ![s] = [NoStream EXCEPT !.n = stream[s].n]]

\* The finally clause: the generator ended, threw, or its reader left the loop.
ChatClosed(s) ==
    /\ openStreams' = openStreams \ {OwnPromise(s)}
    /\ stream' = [stream EXCEPT ![s] = [NoStream EXCEPT !.n = stream[s].n]]

\* The reader leaves, or the generator ends without a reply.
ChatLeft(s) ==
    /\ stream[s].at \in {"connecting", "reading", "delay"}
    /\ ChatClosed(s)
    /\ UNCHANGED sendPromise

\* processStreamResponse pushes the reply when the stream is complete.
ChatReplied(s) ==
    /\ stream[s].at = "reading"
    /\ ChatClosed(s)
    /\ addHistory(Entry(s, IF stream[s].hasToolCall THEN "call" ELSE "text",
                        IF stream[s].hasToolCall THEN 1 ELSE 0))
    /\ UNCHANGED sendPromise
===============================================================================
