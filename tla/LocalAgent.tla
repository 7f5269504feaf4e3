------------------------------- MODULE LocalAgent -------------------------------
(***************************************************************************)
(* A local agent's run (agents/local-executor.ts): turns of a model and    *)
(* its tools until complete_task is accepted, a limit is reached or the    *)
(* user aborts; then at most one more turn, the recovery, with a grace     *)
(* period of its own.  The chat it owns is compressed before each request  *)
(* (services/chatCompressionService.ts), so the module also follows which  *)
(* kinds of entries the history holds.                                     *)
(***************************************************************************)
EXTENDS Integers, Sequences, SequencesExt

CONSTANTS MaxTurns,      \* runConfig.max_turns
          AgentAttempts  \* attempts of a stream, as in GeminiChat

ASSUME AgentAssumption == MaxTurns \in Nat \ {0} /\ AgentAttempts \in Nat \ {0}

VARIABLES agentAt,       \* where run() is: what it awaits next
          agentTurns,    \* turnCounter
          agentReason,   \* terminateReason; "threw" when run() rejects
          agentSignals,  \* the signals that are aborted: user, timeout, grace
          recovering,    \* executeFinalWarningTurn is running
          agentMessage,  \* the kind of the next message
          agentAttempt,  \* the attempt of the stream that is read
          agentCalls,    \* functionCalls, as callModel collects them
          agentOutput,   \* a valid complete_task call was processed
          agentHistory   \* the kinds of the chat's entries

agentVars == <<agentAt, agentTurns, agentReason, agentSignals, recovering, agentMessage,
               agentAttempt, agentCalls, agentOutput, agentHistory>>
turnVars == <<agentAttempt, agentCalls, agentOutput>>

\* Calls of a tool, of complete_task with its output, and without it.
CallKind == {"tool", "complete", "invalid"}

\* An orphan answers calls of an attempt that broke: they are in no reply.
MessageKind == {"user", "answer", "orphan"}
HistoryKind == MessageKind \cup {"call", "text", "summary", "ack"}

Recoverable == {"TIMEOUT", "MAX_TURNS", "NO_COMPLETE_CALL"}

AgentTypeOK ==
    /\ agentAt \in {"start", "top", "send", "model", "tools", "ended"}
    /\ agentTurns \in 0 .. MaxTurns
    /\ agentReason \in Recoverable \cup {"ERROR", "ABORTED", "GOAL", "threw"}
    /\ agentSignals \subseteq {"user", "timeout", "grace"}
    /\ recovering \in BOOLEAN /\ agentOutput \in BOOLEAN
    /\ agentMessage \in MessageKind
    /\ agentAttempt \in 1 .. AgentAttempts
    /\ agentCalls \subseteq CallKind
    /\ agentHistory \in Seq(HistoryKind)

AgentInit ==
    /\ agentAt = "start" /\ agentTurns = 0 /\ agentReason = "ERROR"
    /\ agentSignals = {} /\ recovering = FALSE /\ agentMessage = "user"
    /\ agentAttempt = 1 /\ agentCalls = {} /\ agentOutput = FALSE
    /\ agentHistory = <<>>

\* The turn's own timer: the run's timeout, or the grace period.
turnTimer == IF recovering THEN "grace" ELSE "timeout"

combinedAborted == agentSignals \cap {"user", turnTimer} # {}

abortReason == IF turnTimer \in agentSignals THEN "TIMEOUT" ELSE "ABORTED"

-------------------------------------------------------------------------------
(* Compression of the history *)

UserText(h) == {i \in 1 .. Len(h) : h[i] \in {"user", "summary"}}

\* findCompressSplitPoint without its test for a function response.
SplitPoints_anyUser(h) ==
    {i \in 2 .. Len(h) : h[i] \in MessageKind \cup {"summary"}}

\* The entries that may become the first one kept, for some lengths of them:
\* a user's text, or none when the last entry is a model's text.
SplitPoints(h) ==
    (UserText(h) \ {1}) \cup (IF h # <<>> /\ Last(h) \in {"text", "ack"} THEN {Len(h) + 1} ELSE {})

\* compress: not needed, failed or inflated, or the head becomes a summary.
Compressed(h) ==
    {h} \cup {<<"summary", "ack">> \o SubSeq(h, i, Len(h)) : i \in SplitPoints(h)}

-------------------------------------------------------------------------------
(* The end of a turn *)

\* run() returns with a reason or rejects; its timers are cleared.
agentEnds(reason) ==
    /\ agentAt' = "ended" /\ agentReason' = reason
    /\ UNCHANGED <<recovering, agentMessage>>

\* The recovery turn starts with a warning and a timer of its own.
startRecovery(reason) ==
    /\ agentAt' = "send" /\ agentReason' = reason
    /\ recovering' = TRUE /\ agentMessage' = "user"

\* A turn stopped.  Whatever stops the recovery turn, only success counts.
turnStops(reason) ==
    IF recovering THEN agentEnds(IF reason = "GOAL" THEN "GOAL" ELSE agentReason)
    ELSE IF reason \in Recoverable THEN startRecovery(reason) ELSE agentEnds(reason)

\* A turn threw: only the run's own timeout leads to a recovery.
turnThrows(isAbort) ==
    IF recovering THEN agentEnds(agentReason)
    ELSE IF isAbort /\ "timeout" \in agentSignals /\ "user" \notin agentSignals
      THEN startRecovery("TIMEOUT")
      ELSE agentEnds("threw")

-------------------------------------------------------------------------------
(* run() *)

AgentStart ==
    /\ agentAt = "start"
    /\ \/ agentAt' = "top" /\ UNCHANGED <<agentReason, recovering, agentMessage>>
       \/ agentEnds("threw")
    /\ UNCHANGED <<agentTurns, agentSignals, turnVars, agentHistory>>

\* The top of the loop: the limits, then the signals, then a turn.
AgentTop ==
    /\ agentAt = "top"
    /\ IF agentTurns >= MaxTurns THEN turnStops("MAX_TURNS") /\ UNCHANGED agentTurns
       ELSE IF combinedAborted THEN turnStops(abortReason) /\ UNCHANGED agentTurns
       ELSE /\ agentAt' = "send" /\ agentTurns' = agentTurns + 1
            /\ UNCHANGED <<agentReason, recovering, agentMessage>>
    /\ UNCHANGED <<agentSignals, turnVars, agentHistory>>

\* tryCompressChat, then sendMessageStream pushes the message.
AgentSend ==
    /\ agentAt = "send"
    /\ \E h \in Compressed(agentHistory) : agentHistory' = Append(h, agentMessage)
    /\ agentAt' = "model"
    /\ agentAttempt' = 1 /\ agentCalls' = {}
    /\ UNCHANGED <<agentTurns, agentReason, agentSignals, recovering, agentMessage, agentOutput>>

\* An error, or the AbortError of a request whose signal is aborted.
AgentThrows(isAbort) ==
    /\ agentAt \in {"send", "model"}
    /\ isAbort => agentAt = "model" /\ combinedAborted
    /\ turnThrows(isAbort)
    /\ UNCHANGED <<agentTurns, agentSignals, turnVars, agentHistory>>

\* The stream broke after some calls; the retry event is not looked at.
AgentStreamBreaks(calls) ==
    /\ agentAt = "model" /\ agentAttempt < AgentAttempts
    /\ calls # {} => ~combinedAborted
    /\ agentAttempt' = agentAttempt + 1
    /\ agentCalls' = agentCalls \cup calls
    /\ UNCHANGED <<agentAt, agentTurns, agentReason, agentSignals, recovering, agentMessage,
                   agentOutput, agentHistory>>

\* After the stream: the signals, then the calls.  complete_task is handled
\* at once, also when other tools of the same reply still run.
afterModel(calls, message) ==
    IF combinedAborted THEN turnStops(abortReason) /\ UNCHANGED agentOutput
    ELSE IF calls = {} THEN turnStops("NO_COMPLETE_CALL") /\ UNCHANGED agentOutput
    ELSE /\ agentAt' = "tools" /\ agentMessage' = message
         /\ agentOutput' = ("complete" \in calls)
         /\ UNCHANGED <<agentReason, recovering>>

\* The stream is complete and its reply is pushed.
AgentReplies(calls) ==
    /\ agentAt = "model"
    /\ agentCalls' = agentCalls \cup calls
    /\ agentHistory' = Append(agentHistory, IF calls = {} THEN "text" ELSE "call")
    /\ afterModel(agentCalls \cup calls, IF calls = {} THEN "orphan" ELSE "answer")
    /\ UNCHANGED <<agentTurns, agentSignals, agentAttempt>>

\* The reader leaves an aborted stream, or a hook stopped the model.
AgentNoReply ==
    /\ agentAt = "model"
    /\ afterModel(agentCalls, "orphan")
    /\ UNCHANGED <<agentTurns, agentSignals, agentAttempt, agentCalls, agentHistory>>

AgentToolsEnd_anyCall ==
    /\ agentAt = "tools"
    /\ IF agentCalls \cap {"complete", "invalid"} # {} THEN turnStops("GOAL")
       ELSE IF recovering THEN agentEnds(agentReason)
       ELSE agentAt' = "top" /\ UNCHANGED <<agentReason, recovering, agentMessage>>
    /\ UNCHANGED <<agentTurns, agentSignals, turnVars, agentHistory>>

\* All tools of the turn have a result: processFunctionCalls returns.
AgentToolsEnd ==
    /\ agentAt = "tools"
    /\ IF "complete" \in agentCalls THEN turnStops("GOAL")
       ELSE IF recovering THEN agentEnds(agentReason)
       ELSE agentAt' = "top" /\ UNCHANGED <<agentReason, recovering, agentMessage>>
    /\ UNCHANGED <<agentTurns, agentSignals, turnVars, agentHistory>>

\* A timer fires, or the user aborts.
AgentSignal_noGrace(s) ==
    /\ agentAt # "ended" /\ s \notin agentSignals
    /\ s # "grace"
    /\ agentSignals' = agentSignals \cup {s}
    /\ UNCHANGED <<agentAt, agentTurns, agentReason, recovering, agentMessage, turnVars,
                   agentHistory>>

AgentSignal(s) ==
    /\ agentAt # "ended" /\ s \notin agentSignals
    /\ s = "grace" => recovering
    /\ agentSignals' = agentSignals \cup {s}
    /\ UNCHANGED <<agentAt, agentTurns, agentReason, recovering, agentMessage, turnVars,
                   agentHistory>>

AgentNext ==
    \/ AgentStart \/ AgentTop \/ AgentSend \/ AgentNoReply \/ AgentToolsEnd
    \/ \E isAbort \in BOOLEAN : AgentThrows(isAbort)
    \/ \E calls \in SUBSET CallKind : AgentStreamBreaks(calls) \/ AgentReplies(calls)
    \/ \E s \in {"user", "timeout", "grace"} : AgentSignal(s)

AgentSpec == AgentInit /\ [][AgentNext]_agentVars

\* What happens by itself: the executor's own code, and what obeys a signal.
AgentMoves ==
    \/ AgentStart \/ AgentTop \/ AgentSend
    \/ combinedAborted /\ (AgentThrows(TRUE) \/ AgentToolsEnd)

AgentTimers == AgentSignal("timeout") \/ AgentSignal("grace")

-------------------------------------------------------------------------------

\* The reason the caller reads is what happened: a goal has its output, a
\* timeout its timer, an abort its user, however the signals race the turn
\* and its recovery (local-executor.ts:193, :422, :450, :496).
AgentReasonTrue ==
    agentAt = "ended" =>
        CASE agentReason = "GOAL"      -> agentOutput
          [] agentReason = "TIMEOUT"   -> "timeout" \in agentSignals
          [] agentReason = "ABORTED"   -> "user" \in agentSignals
          [] agentReason = "MAX_TURNS" -> agentTurns = MaxTurns
          [] OTHER                     -> TRUE

\* A run ends although the model or a tool may never answer by itself: each
\* wait is under a timer, the recovery's under the grace period
\* (local-executor.ts:285, :366).
AgentEnds == []<>(agentAt \in {"start", "ended"})

\* Compression never separates a function response from its call
\* (chatCompressionService.ts:63, :78).
AnswersKept ==
    \A i \in 1 .. Len(agentHistory) :
        agentHistory[i] = "answer" => i > 1 /\ agentHistory[i - 1] = "call"
===============================================================================
