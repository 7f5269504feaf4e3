---------------------------- MODULE AgentProofs -----------------------------
(***************************************************************************)
(* Theorems about the two agents: the local agent (LocalAgent) and the     *)
(* agentic loop of the main conversation (AgentLoop).                      *)
(***************************************************************************)
EXTENDS LocalAgent, AgentLoop, SequenceTheorems, TLAPS

------------------------------------------------------------------------------
(***************************************************************************)
(* The reason a local agent's run returns is what happened, and            *)
(* compression keeps function responses with their calls.                  *)
(***************************************************************************)

\* What a reason claims.
ReasonTrue(reason) ==
    CASE reason = "GOAL"      -> agentOutput
      [] reason = "TIMEOUT"   -> "timeout" \in agentSignals
      [] reason = "ABORTED"   -> "user" \in agentSignals
      [] reason = "MAX_TURNS" -> agentTurns = MaxTurns
      [] OTHER                -> TRUE

\* The recovery keeps a reason that is true; complete_task was processed with
\* the calls whose tools run; a run that has ended claims nothing else.
ReasonKept ==
    /\ recovering /\ agentAt # "ended" => agentReason \in Recoverable /\ ReasonTrue(agentReason)
    /\ agentAt = "tools" /\ "complete" \in agentCalls => agentOutput
    /\ agentAt = "ended" => ReasonTrue(agentReason)

ReasonInv == AgentTypeOK /\ ReasonKept

Steps == {"start", "top", "send", "model", "tools", "ended"}

-------------------------------------------------------------------------------
(* Types *)

\* Compression gives a history.
LEMMA CompressedType ==
  ASSUME NEW h \in Seq(HistoryKind), NEW g \in Compressed(h)
  PROVE  g \in Seq(HistoryKind)
<1>1. CASE g = h
  BY <1>1
<1>2. CASE \E i \in SplitPoints(h) : g = <<"summary", "ack">> \o SubSeq(h, i, Len(h))
  <2>1. PICK i \in SplitPoints(h) : g = <<"summary", "ack">> \o SubSeq(h, i, Len(h))
    BY <1>2
  <2>2. i \in 1 .. Len(h) + 1
    BY DEF SplitPoints, UserText
  <2>3. SubSeq(h, i, Len(h)) \in Seq(HistoryKind)
    BY <2>2, SubSeqProperties
  <2>4. <<"summary", "ack">> \in Seq(HistoryKind)
    BY DEF HistoryKind
  <2> QED BY <2>1, <2>3, <2>4, ConcatProperties
<1> QED BY <1>1, <1>2 DEF Compressed

\* The ends of a turn stay in their types.
LEMMA StopType ==
  ASSUME AgentTypeOK,
         \/ \E r \in Recoverable \cup {"ABORTED", "GOAL"} : turnStops(r)
         \/ \E isAbort \in BOOLEAN : turnThrows(isAbort)
         \/ agentEnds(agentReason)
         \/ agentEnds("threw")
  PROVE  /\ agentAt' \in Steps /\ agentMessage' \in MessageKind
         /\ agentReason' \in Recoverable \cup {"ERROR", "ABORTED", "GOAL", "threw"}
<1> USE DEF AgentTypeOK, agentEnds, startRecovery, MessageKind, Recoverable, Steps
<1>1. CASE \E r \in Recoverable \cup {"ABORTED", "GOAL"} : turnStops(r)
  BY <1>1 DEF turnStops
<1>2. CASE \E isAbort \in BOOLEAN : turnThrows(isAbort)
  BY <1>2 DEF turnThrows
<1> QED BY <1>1, <1>2

LEMMA StopRecovering ==
  ASSUME AgentTypeOK,
         \/ \E r \in Recoverable \cup {"ABORTED", "GOAL"} : turnStops(r)
         \/ \E isAbort \in BOOLEAN : turnThrows(isAbort)
         \/ agentEnds(agentReason)
         \/ agentEnds("threw")
  PROVE  recovering' \in BOOLEAN
  BY Zenon DEF AgentTypeOK, agentEnds, startRecovery, turnStops, turnThrows

\* One action after the other: the variables stay in their types.
LEMMA AgentTypeStep ==
  ASSUME AgentTypeOK, [AgentNext]_agentVars
  PROVE  AgentTypeOK'
<1> DEFINE R == Recoverable \cup {"ERROR", "ABORTED", "GOAL", "threw"}
           T == /\ agentAt' \in Steps /\ agentReason' \in R /\ agentMessage' \in MessageKind
                /\ recovering' \in BOOLEAN
<1>1. ASSUME T, agentTurns' \in 0 .. MaxTurns,
             agentSignals' \subseteq {"user", "timeout", "grace"},
             agentOutput' \in BOOLEAN, agentAttempt' \in 1 .. AgentAttempts,
             agentCalls' \subseteq CallKind, agentHistory' \in Seq(HistoryKind)
      PROVE  AgentTypeOK'
  BY <1>1 DEF AgentTypeOK, Steps
<1>2. /\ agentAt \in Steps /\ agentReason \in R /\ agentMessage \in MessageKind
      /\ recovering \in BOOLEAN /\ agentOutput \in BOOLEAN
      /\ agentTurns \in 0 .. MaxTurns /\ agentSignals \subseteq {"user", "timeout", "grace"}
      /\ agentAttempt \in 1 .. AgentAttempts /\ agentCalls \subseteq CallKind
      /\ agentHistory \in Seq(HistoryKind)
  BY DEF AgentTypeOK, Steps
<1>3. abortReason \in Recoverable \cup {"ABORTED", "GOAL"}
  BY DEF abortReason, Recoverable
<1>4. ASSUME agentAt' \in Steps, UNCHANGED <<agentReason, recovering, agentMessage>> PROVE T
  BY <1>2, <1>4
<1>5. ASSUME \/ \E r \in Recoverable \cup {"ABORTED", "GOAL"} : turnStops(r)
             \/ \E isAbort \in BOOLEAN : turnThrows(isAbort)
             \/ agentEnds(agentReason)
             \/ agentEnds("threw")
      PROVE  T
  BY <1>5, StopType, StopRecovering
<1> HIDE DEF T
<1>6. CASE AgentStart
  <2>1. T
    BY <1>4, <1>5, <1>6 DEF AgentStart, Steps
  <2> QED BY <1>1, <1>2, <1>6, <2>1 DEF AgentStart, turnVars
<1>7. CASE AgentTop
  <2>1. T
    BY <1>3, <1>4, <1>5, <1>7 DEF AgentTop, Steps, Recoverable
  <2>2. agentTurns' \in 0 .. MaxTurns
    BY <1>2, <1>7, AgentAssumption DEF AgentTop
  <2> QED BY <1>1, <1>2, <1>7, <2>1, <2>2 DEF AgentTop, turnVars
<1>8. CASE AgentSend
  <2>1. T
    BY <1>4, <1>8 DEF AgentSend, Steps
  <2>2. PICK h \in Compressed(agentHistory) : agentHistory' = Append(h, agentMessage)
    BY <1>8 DEF AgentSend
  <2>3. h \in Seq(HistoryKind) /\ agentMessage \in HistoryKind
    BY <1>2, CompressedType DEF HistoryKind
  <2>4. agentHistory' \in Seq(HistoryKind)
    BY <2>2, <2>3
  <2>5. agentAttempt' \in 1 .. AgentAttempts
    BY <1>8, AgentAssumption DEF AgentSend
  <2> QED BY <1>1, <1>2, <1>8, <2>1, <2>4, <2>5 DEF AgentSend
<1>9. ASSUME NEW calls \in SUBSET CallKind, NEW message \in MessageKind,
             afterModel(calls, message)
      PROVE  T /\ agentOutput' \in BOOLEAN
  <2>1. T
    <3>1. ASSUME \E r \in Recoverable \cup {"ABORTED", "GOAL"} : turnStops(r) PROVE T
      BY <1>5, <3>1
    <3>2. CASE combinedAborted \/ calls = {}
      <4>1. \E r \in Recoverable \cup {"ABORTED", "GOAL"} : turnStops(r)
        BY <1>3, <1>9, <3>2 DEF afterModel, Recoverable
      <4> QED BY <3>1, <4>1
    <3>3. CASE ~(combinedAborted \/ calls = {})
      <4>1. agentAt' = "tools" /\ agentMessage' = message /\ UNCHANGED <<agentReason, recovering>>
        BY <1>9, <3>3 DEF afterModel
      <4> QED BY <1>2, <4>1 DEF T, Steps
    <3> QED BY <3>2, <3>3
  <2>2. agentOutput' \in BOOLEAN
    <3>1. agentOutput' = agentOutput \/ agentOutput' = ("complete" \in calls)
      BY <1>9 DEF afterModel
    <3>2. ("complete" \in calls) \in BOOLEAN
      OBVIOUS
    <3>3. CASE agentOutput' = agentOutput
      BY <1>2, <3>3, Zenon
    <3>4. CASE agentOutput' = ("complete" \in calls)
      BY <3>2, <3>4, Zenon
    <3> QED BY <3>1, <3>3, <3>4
  <2> QED BY <2>1, <2>2
<1>10. ASSUME NEW calls \in SUBSET CallKind, AgentReplies(calls) PROVE AgentTypeOK'
  <2>1. T /\ agentOutput' \in BOOLEAN
    BY <1>2, <1>9, <1>10 DEF AgentReplies, MessageKind
  <2>2. agentHistory' \in Seq(HistoryKind)
    BY <1>2, <1>10 DEF AgentReplies, HistoryKind
  <2> QED BY <1>1, <1>2, <1>10, <2>1, <2>2 DEF AgentReplies
<1>11. CASE AgentNoReply
  <2>1. T /\ agentOutput' \in BOOLEAN
    BY <1>2, <1>9, <1>11 DEF AgentNoReply, MessageKind
  <2> QED BY <1>1, <1>2, <1>11, <2>1 DEF AgentNoReply
<1>12. CASE AgentToolsEnd
  <2>1. T
    BY <1>4, <1>5, <1>12 DEF AgentToolsEnd, Steps
  <2> QED BY <1>1, <1>2, <1>12, <2>1 DEF AgentToolsEnd, turnVars
<1>13. ASSUME NEW isAbort \in BOOLEAN, AgentThrows(isAbort) PROVE AgentTypeOK'
  <2>1. T
    BY <1>5, <1>13 DEF AgentThrows
  <2> QED BY <1>1, <1>2, <1>13, <2>1 DEF AgentThrows, turnVars
<1>14. ASSUME NEW calls \in SUBSET CallKind, AgentStreamBreaks(calls) PROVE AgentTypeOK'
  <2>1. T
    BY <1>2, <1>4, <1>14 DEF AgentStreamBreaks
  <2>2. agentAttempt' \in 1 .. AgentAttempts
    BY <1>2, <1>14, AgentAssumption DEF AgentStreamBreaks
  <2> QED BY <1>1, <1>2, <1>14, <2>1, <2>2 DEF AgentStreamBreaks
<1>15. ASSUME NEW s \in {"user", "timeout", "grace"}, AgentSignal(s) PROVE AgentTypeOK'
  <2>1. T
    BY <1>2, <1>4, <1>15 DEF AgentSignal
  <2> QED BY <1>1, <1>2, <1>15, <2>1 DEF AgentSignal, turnVars
<1>16. CASE UNCHANGED agentVars
  <2>1. T
    BY <1>2, <1>4, <1>16 DEF agentVars
  <2> QED BY <1>1, <1>2, <1>16, <2>1 DEF agentVars
<1> QED BY <1>6, <1>7, <1>8, <1>10, <1>11, <1>12, <1>13, <1>14, <1>15, <1>16 DEF AgentNext

-------------------------------------------------------------------------------
(* The reason *)

\* A turn stops for a reason that is true: the run ends or recovers with it,
\* or the recovery ends with the one it was started for.
LEMMA StopKeeps ==
  ASSUME ReasonInv, agentAt # "ended", NEW r \in Recoverable \cup {"ABORTED", "GOAL"}, turnStops(r),
         r = "GOAL" => agentOutput', r = "TIMEOUT" => "timeout" \in agentSignals \/ recovering,
         r = "ABORTED" => "user" \in agentSignals, r = "MAX_TURNS" => agentTurns = MaxTurns,
         agentSignals' = agentSignals, agentTurns' = agentTurns
  PROVE  ReasonKept'
<1>1. CASE recovering
  <2>1. agentReason \in Recoverable /\ ReasonTrue(agentReason)
    BY <1>1 DEF ReasonInv, ReasonKept
  <2>2. agentAt' = "ended" /\ agentReason' = IF r = "GOAL" THEN "GOAL" ELSE agentReason
    BY <1>1 DEF turnStops, agentEnds
  <2>3. ReasonTrue(agentReason)'
    <3>1. CASE r = "GOAL"
      BY <2>2, <3>1 DEF ReasonTrue
    <3>2. CASE r # "GOAL"
      BY <2>1, <2>2, <3>2 DEF ReasonTrue, Recoverable
    <3> QED BY <3>1, <3>2
  <2> QED BY <2>2, <2>3 DEF ReasonKept
<1>2. CASE ~recovering
  <2>1. ReasonTrue(r)'
    BY <1>2 DEF ReasonTrue, Recoverable
  <2>2. agentReason' = r /\ agentAt' \in {"ended", "send"}
    BY <1>2 DEF turnStops, startRecovery, agentEnds
  <2>3. recovering' /\ agentAt' # "ended" => r \in Recoverable
    BY <1>2 DEF turnStops, startRecovery, agentEnds
  <2> QED BY <2>1, <2>2, <2>3 DEF ReasonKept, ReasonTrue
<1> QED BY <1>1, <1>2

\* The recovery ends without success, with the reason it was started for.
LEMMA RecoveryEnds ==
  ASSUME ReasonInv, agentAt # "ended", recovering, agentEnds(agentReason),
         agentSignals' = agentSignals, agentTurns' = agentTurns
  PROVE  ReasonKept'
  BY DEF ReasonInv, ReasonKept, ReasonTrue, agentEnds, Recoverable

LEMMA ThrowKeeps ==
  ASSUME ReasonInv, agentAt # "ended", NEW isAbort \in BOOLEAN, turnThrows(isAbort),
         agentSignals' = agentSignals, agentTurns' = agentTurns
  PROVE  ReasonKept'
<1>1. CASE recovering
  <2>1. agentEnds(agentReason)
    BY <1>1 DEF turnThrows
  <2> QED BY <1>1, <2>1, RecoveryEnds
<1>2. CASE ~recovering /\ isAbort /\ "timeout" \in agentSignals /\ "user" \notin agentSignals
  <2>1. agentAt' = "send" /\ agentReason' = "TIMEOUT" /\ "timeout" \in agentSignals'
    BY <1>2 DEF turnThrows, startRecovery
  <2> QED BY <2>1 DEF ReasonKept, ReasonTrue, Recoverable
<1>3. CASE ~recovering /\ ~(isAbort /\ "timeout" \in agentSignals /\ "user" \notin agentSignals)
  <2>1. agentAt' = "ended" /\ agentReason' = "threw"
    BY <1>3 DEF turnThrows, agentEnds
  <2> QED BY <2>1 DEF ReasonKept, ReasonTrue
<1> QED BY <1>1, <1>2, <1>3

LEMMA AfterModelKeeps ==
  ASSUME ReasonInv, agentAt = "model", NEW calls, NEW message, afterModel(calls, message),
         agentCalls' = calls, agentSignals' = agentSignals, agentTurns' = agentTurns
  PROVE  ReasonKept'
<1>1. CASE combinedAborted
  <2>1. turnStops(abortReason) /\ abortReason \in {"TIMEOUT", "ABORTED"}
    BY <1>1 DEF afterModel, abortReason
  <2>2. /\ abortReason = "TIMEOUT" => "timeout" \in agentSignals \/ recovering
        /\ abortReason = "ABORTED" => "user" \in agentSignals
    BY <1>1 DEF combinedAborted, abortReason, turnTimer
  <2> QED BY <2>1, <2>2, StopKeeps DEF Recoverable
<1>2. CASE ~combinedAborted /\ calls = {}
  <2>1. turnStops("NO_COMPLETE_CALL")
    BY <1>2 DEF afterModel
  <2> QED BY <2>1, StopKeeps DEF Recoverable
<1>3. CASE ~combinedAborted /\ calls # {}
  <2>1. /\ agentAt' = "tools" /\ agentOutput' = ("complete" \in calls)
        /\ recovering' = recovering /\ agentReason' = agentReason
    BY <1>3 DEF afterModel
  <2>2. recovering => agentReason \in Recoverable /\ ReasonTrue(agentReason)
    BY DEF ReasonInv, ReasonKept
  <2>3. recovering' => agentReason' \in Recoverable /\ ReasonTrue(agentReason)'
    BY <2>1, <2>2 DEF ReasonTrue, Recoverable
  <2>4. "complete" \in agentCalls' => agentOutput'
    BY <2>1
  <2> QED BY <2>1, <2>3, <2>4 DEF ReasonKept
<1> QED BY <1>1, <1>2, <1>3

LEMMA ReasonStep ==
  ASSUME ReasonInv, [AgentNext]_agentVars
  PROVE  ReasonKept'
<1> USE DEF turnVars
<1>0. ASSUME agentAt' = agentAt \/ (agentAt \notin {"tools", "ended"} /\ agentAt' \notin {"tools", "ended"}),
             recovering' = recovering, agentReason' = agentReason, agentOutput' = agentOutput,
             agentAt = "tools" => agentCalls' = agentCalls,
             agentSignals \subseteq agentSignals', agentTurns' = agentTurns
      PROVE  ReasonKept'
  BY <1>0 DEF ReasonInv, ReasonKept, ReasonTrue
<1>1. CASE AgentStart
  <2>1. CASE agentAt' = "top"
    BY <1>0, <1>1, <2>1 DEF AgentStart, agentEnds
  <2>2. CASE agentAt' # "top"
    BY <1>1, <2>2 DEF AgentStart, agentEnds, ReasonKept, ReasonTrue
  <2> QED BY <2>1, <2>2
<1>2. CASE AgentTop
  <2>1. CASE agentTurns >= MaxTurns
    <3>1. turnStops("MAX_TURNS") /\ agentTurns' = agentTurns /\ agentSignals' = agentSignals
      BY <1>2, <2>1 DEF AgentTop
    <3>2. agentTurns = MaxTurns /\ agentAt # "ended"
      BY <1>2, <2>1, AgentAssumption DEF AgentTop, ReasonInv, AgentTypeOK
    <3> QED BY <3>1, <3>2, StopKeeps DEF Recoverable
  <2>2. CASE ~(agentTurns >= MaxTurns) /\ combinedAborted
    <3>1. turnStops(abortReason) /\ agentTurns' = agentTurns /\ agentSignals' = agentSignals
      BY <1>2, <2>2 DEF AgentTop
    <3>2. /\ abortReason \in {"TIMEOUT", "ABORTED"} /\ agentAt # "ended"
          /\ abortReason = "TIMEOUT" => "timeout" \in agentSignals \/ recovering
          /\ abortReason = "ABORTED" => "user" \in agentSignals
      BY <1>2, <2>2 DEF AgentTop, combinedAborted, abortReason, turnTimer
    <3> QED BY <3>1, <3>2, StopKeeps DEF Recoverable
  <2>3. CASE ~(agentTurns >= MaxTurns) /\ ~combinedAborted
    <3>1. /\ agentAt' = "send" /\ recovering' = recovering /\ agentReason' = agentReason
          /\ agentSignals' = agentSignals /\ agentOutput' = agentOutput /\ agentAt = "top"
      BY <1>2, <2>3 DEF AgentTop
    <3>2. agentTurns # MaxTurns
      BY <2>3, AgentAssumption
    <3> QED BY <3>1, <3>2 DEF ReasonInv, ReasonKept, ReasonTrue
  <2> QED BY <2>1, <2>2, <2>3
<1>3. CASE AgentSend
  BY <1>0, <1>3 DEF AgentSend
<1>4. ASSUME NEW calls \in SUBSET CallKind, AgentReplies(calls) PROVE ReasonKept'
  <2> DEFINE message == IF calls = {} THEN "orphan" ELSE "answer"
  <2>1. /\ agentAt = "model" /\ afterModel(agentCalls \cup calls, message)
        /\ agentCalls' = agentCalls \cup calls
        /\ agentSignals' = agentSignals /\ agentTurns' = agentTurns
    BY <1>4 DEF AgentReplies
  <2> QED BY <2>1, AfterModelKeeps
<1>5. CASE AgentNoReply
  <2>1. /\ agentAt = "model" /\ afterModel(agentCalls, "orphan") /\ agentCalls' = agentCalls
        /\ agentSignals' = agentSignals /\ agentTurns' = agentTurns
    BY <1>5 DEF AgentNoReply
  <2> QED BY <2>1, AfterModelKeeps
<1>6. CASE AgentToolsEnd
  <2>1. CASE "complete" \in agentCalls
    <3>1. /\ turnStops("GOAL") /\ agentOutput' = agentOutput /\ agentAt = "tools"
          /\ agentSignals' = agentSignals /\ agentTurns' = agentTurns
      BY <1>6, <2>1 DEF AgentToolsEnd
    <3>2. agentOutput
      BY <2>1, <3>1 DEF ReasonInv, ReasonKept
    <3> QED BY <3>1, <3>2, StopKeeps
  <2>2. CASE "complete" \notin agentCalls /\ recovering
    <3>1. /\ agentEnds(agentReason) /\ agentAt # "ended"
          /\ agentSignals' = agentSignals /\ agentTurns' = agentTurns
      BY <1>6, <2>2 DEF AgentToolsEnd
    <3> QED BY <2>2, <3>1, RecoveryEnds
  <2>3. CASE "complete" \notin agentCalls /\ ~recovering
    BY <1>6, <2>3 DEF AgentToolsEnd, ReasonKept
  <2> QED BY <2>1, <2>2, <2>3
<1>7. ASSUME NEW isAbort \in BOOLEAN, AgentThrows(isAbort) PROVE ReasonKept'
  <2>1. /\ turnThrows(isAbort) /\ agentAt # "ended"
        /\ agentSignals' = agentSignals /\ agentTurns' = agentTurns
    BY <1>7 DEF AgentThrows
  <2> QED BY <2>1, ThrowKeeps
<1>8. ASSUME NEW calls \in SUBSET CallKind, AgentStreamBreaks(calls) PROVE ReasonKept'
  BY <1>0, <1>8 DEF AgentStreamBreaks
<1>9. ASSUME NEW s \in {"user", "timeout", "grace"}, AgentSignal(s) PROVE ReasonKept'
  <2>1. /\ agentAt' = agentAt /\ recovering' = recovering /\ agentReason' = agentReason
        /\ agentOutput' = agentOutput /\ agentCalls' = agentCalls /\ agentTurns' = agentTurns
        /\ agentSignals \subseteq agentSignals'
    BY <1>9 DEF AgentSignal
  <2> QED BY <2>1 DEF ReasonInv, ReasonKept, ReasonTrue
<1>10. CASE UNCHANGED agentVars
  <2>1. /\ agentAt' = agentAt /\ recovering' = recovering /\ agentReason' = agentReason
        /\ agentOutput' = agentOutput /\ agentCalls' = agentCalls /\ agentTurns' = agentTurns
        /\ agentSignals \subseteq agentSignals'
    BY <1>10 DEF agentVars
  <2> QED BY <2>1 DEF ReasonInv, ReasonKept, ReasonTrue
<1> QED BY <1>1, <1>2, <1>3, <1>4, <1>5, <1>6, <1>7, <1>8, <1>9, <1>10 DEF AgentNext

LEMMA ReasonInitial == ASSUME AgentInit PROVE ReasonInv
<1>1. AgentTypeOK
  <2>1. recovering \in BOOLEAN /\ agentOutput \in BOOLEAN
    BY Zenon DEF AgentInit
  <2>2. agentHistory \in Seq(HistoryKind)
    BY DEF AgentInit
  <2>3. agentTurns \in 0 .. MaxTurns /\ agentAttempt \in 1 .. AgentAttempts
    BY AgentAssumption DEF AgentInit
  <2>4. /\ agentAt \in {"start", "top", "send", "model", "tools", "ended"}
        /\ agentReason \in Recoverable \cup {"ERROR", "ABORTED", "GOAL", "threw"}
        /\ agentSignals \subseteq {"user", "timeout", "grace"}
        /\ agentMessage \in MessageKind /\ agentCalls \subseteq CallKind
    BY DEF AgentInit, MessageKind
  <2> QED BY <2>1, <2>2, <2>3, <2>4 DEF AgentTypeOK
<1>2. ReasonKept
  BY DEF AgentInit, ReasonKept
<1> QED BY <1>1, <1>2 DEF ReasonInv

-------------------------------------------------------------------------------
(* The history *)

KeptIn(h) == \A i \in 1 .. Len(h) : h[i] = "answer" => i > 1 /\ h[i - 1] = "call"

CallLast(h) == Len(h) > 0 /\ h[Len(h)] = "call"

\* A message with function responses is sent right after the calls.
AnswerReady ==
    agentAt \in {"start", "top", "send", "tools"} /\ agentMessage = "answer" =>
        CallLast(agentHistory)

HInv == AgentTypeOK /\ AnswerReady /\ KeptIn(agentHistory)

\* What is pushed keeps the history whole, responses only after their calls.
LEMMA AppendKept ==
  ASSUME NEW h \in Seq(HistoryKind), KeptIn(h), NEW x, x = "answer" => CallLast(h)
  PROVE  KeptIn(Append(h, x))
<1>1. Len(h) \in Nat /\ Len(Append(h, x)) = Len(h) + 1 /\ Append(h, x)[Len(h) + 1] = x
  OBVIOUS
<1>2. ASSUME NEW i \in 1 .. Len(Append(h, x)), Append(h, x)[i] = "answer"
      PROVE  i > 1 /\ Append(h, x)[i - 1] = "call"
  <2>1. CASE i = Len(h) + 1
    <3>1. Len(h) > 0 /\ h[Len(h)] = "call"
      BY <1>1, <1>2, <2>1 DEF CallLast
    <3> QED BY <1>1, <2>1, <3>1
  <2>2. CASE i # Len(h) + 1
    <3>1. i \in 1 .. Len(h) /\ Append(h, x)[i] = h[i]
      BY <1>1, <2>2
    <3>2. i > 1 /\ h[i - 1] = "call"
      BY <1>2, <3>1 DEF KeptIn
    <3> QED BY <1>1, <3>1, <3>2
  <2> QED BY <2>1, <2>2
<1> QED BY <1>2 DEF KeptIn

\* A split point is no function response, and not after a function call.
LEMMA CompressedKept ==
  ASSUME NEW h \in Seq(HistoryKind), KeptIn(h), NEW g \in Compressed(h)
  PROVE  KeptIn(g) /\ (CallLast(h) => CallLast(g))
<1>1. CASE g = h
  BY <1>1
<1>2. CASE \E i \in SplitPoints(h) : g = <<"summary", "ack">> \o SubSeq(h, i, Len(h))
  <2>1. PICK i \in SplitPoints(h) : g = <<"summary", "ack">> \o SubSeq(h, i, Len(h))
    BY <1>2
  <2> DEFINE head == <<"summary", "ack">>
             t == SubSeq(h, i, Len(h))
             n == Len(h)
  <2>2. /\ n \in Nat /\ i \in 1 .. n + 1
        /\ i = n + 1 => n = 0 \/ h[n] \in {"text", "ack"}
        /\ i <= n => h[i] \in {"user", "summary"}
    <3>0. Len(h) \in Nat
      OBVIOUS
    <3>1. CASE i \in UserText(h)
      <4>1. i \in 1 .. Len(h) /\ h[i] \in {"user", "summary"}
        BY <3>1 DEF UserText
      <4> QED BY <3>0, <4>1
    <3>2. CASE i \notin UserText(h)
      <4>1. Last(h) \in {"text", "ack"} /\ i = Len(h) + 1
        BY <3>2 DEF SplitPoints
      <4>2. Last(h) = h[Len(h)]
        BY DEF Last
      <4> QED BY <3>0, <4>1, <4>2
    <3> QED BY <3>1, <3>2
  <2>3. /\ t \in Seq(HistoryKind) /\ Len(t) = n + 1 - i
        /\ \A j \in 1 .. n + 1 - i : t[j] = h[i + j - 1]
    BY <2>2, SubSeqProperties
  <2>4. head \in Seq(HistoryKind) /\ Len(head) = 2 /\ head[1] = "summary" /\ head[2] = "ack"
    BY DEF HistoryKind
  <2> HIDE DEF head, t, n
  <2>5. g = head \o t
    BY <2>1 DEF head, t
  <2>6. /\ Len(g) = 2 + (n + 1 - i)
        /\ \A k \in 1 .. Len(g) : g[k] = IF k <= 2 THEN head[k] ELSE h[i + k - 3]
    <3>0. head \in Seq(HistoryKind) /\ t \in Seq(HistoryKind)
      BY <2>3, <2>4
    <3>1. Len(g) = Len(head) + Len(t)
      BY <2>5, <3>0, ConcatProperties
    <3>2. \A k \in 1 .. Len(head) + Len(t) :
            g[k] = IF k <= Len(head) THEN head[k] ELSE t[k - Len(head)]
      BY <2>5, <3>0, ConcatProperties
    <3>3. ASSUME NEW k \in 1 .. Len(g), k > 2 PROVE t[k - 2] = h[i + k - 3]
      <4>1. k - 2 \in 1 .. n + 1 - i /\ i + (k - 2) - 1 = i + k - 3
        BY <2>2, <2>3, <2>4, <3>1, <3>3
      <4> QED BY <2>3, <4>1
    <3>4. Len(g) = 2 + (n + 1 - i)
      BY <2>3, <2>4, <3>1
    <3>5. ASSUME NEW k \in 1 .. Len(g)
          PROVE  g[k] = IF k <= 2 THEN head[k] ELSE h[i + k - 3]
      BY <2>2, <2>3, <2>4, <3>1, <3>2, <3>3
    <3> QED BY <3>4, <3>5
  <2>7. KeptIn(g)
    <3>1. ASSUME NEW k \in 1 .. Len(g), g[k] = "answer" PROVE k > 1 /\ g[k - 1] = "call"
      <4>1. k > 2 /\ h[i + k - 3] = "answer"
        BY <2>2, <2>4, <2>6, <3>1
      <4>2. i + k - 3 \in 1 .. n /\ i <= n
        BY <2>2, <2>6, <4>1
      <4>3. i + k - 3 > 1 /\ h[i + k - 4] = "call"
        BY <2>2, <4>1, <4>2 DEF KeptIn, n
      <4>4. k # 3
        BY <2>2, <4>1, <4>2
      <4>5. k - 1 \in 1 .. Len(g) /\ k - 1 > 2 /\ i + (k - 1) - 3 = i + k - 4
        BY <2>2, <2>6, <4>1, <4>4
      <4> QED BY <2>6, <4>1, <4>3, <4>5
    <3> QED BY <3>1 DEF KeptIn
  <2>8. CallLast(h) => CallLast(g)
    <3> SUFFICES ASSUME CallLast(h) PROVE CallLast(g)
      OBVIOUS
    <3>1. n > 0 /\ h[n] = "call"
      BY DEF CallLast, n
    <3>2. i <= n
      BY <2>2, <3>1
    <3>3. Len(g) \in 1 .. Len(g) /\ Len(g) > 2 /\ i + Len(g) - 3 = n
      BY <2>2, <2>6, <3>2
    <3> QED BY <2>6, <3>1, <3>3 DEF CallLast
  <2> QED BY <2>7, <2>8
<1> QED BY <1>1, <1>2 DEF Compressed

\* Whatever stops a turn, the next message is a warning, or none.
LEMMA StopReady ==
  ASSUME \/ \E r \in Recoverable \cup {"ABORTED", "GOAL"} : turnStops(r)
         \/ \E isAbort \in BOOLEAN : turnThrows(isAbort)
         \/ \E r : agentEnds(r)
  PROVE  AnswerReady'
<1>1. agentAt' = "ended" \/ agentMessage' = "user"
  BY DEF turnStops, turnThrows, agentEnds, startRecovery
<1> QED BY <1>1 DEF AnswerReady

LEMMA HistoryStep ==
  ASSUME HInv, [AgentNext]_agentVars
  PROVE  AnswerReady' /\ KeptIn(agentHistory)'
<1>0. abortReason \in Recoverable \cup {"ABORTED", "GOAL"}
  BY DEF abortReason, Recoverable
<1>1. agentHistory \in Seq(HistoryKind) /\ agentMessage \in MessageKind
  BY DEF HInv, AgentTypeOK
<1>2. ASSUME agentAt \in {"start", "top", "send", "tools"}, agentMessage' = agentMessage,
             agentHistory' = agentHistory
      PROVE  AnswerReady' /\ KeptIn(agentHistory)'
  BY <1>2 DEF HInv, AnswerReady
<1>3. ASSUME AnswerReady', agentHistory' = agentHistory
      PROVE  AnswerReady' /\ KeptIn(agentHistory)'
  BY <1>3 DEF HInv
<1>4. CASE AgentStart
  <2>1. agentHistory' = agentHistory /\ agentAt = "start"
    BY <1>4 DEF AgentStart
  <2>2. CASE agentEnds("threw")
    BY <1>3, <2>1, <2>2, StopReady
  <2>3. CASE ~agentEnds("threw")
    BY <1>2, <1>4, <2>1, <2>3 DEF AgentStart
  <2> QED BY <2>2, <2>3
<1>5. CASE AgentTop
  <2>1. agentHistory' = agentHistory /\ agentAt = "top"
    BY <1>5 DEF AgentTop
  <2>2. CASE agentTurns >= MaxTurns \/ combinedAborted
    <3>1. \E r \in Recoverable \cup {"ABORTED", "GOAL"} : turnStops(r)
      BY <1>0, <1>5, <2>2 DEF AgentTop, Recoverable
    <3> QED BY <1>3, <2>1, <3>1, StopReady
  <2>3. CASE ~(agentTurns >= MaxTurns \/ combinedAborted)
    <3>1. agentMessage' = agentMessage
      BY <1>5, <2>3 DEF AgentTop
    <3> QED BY <1>2, <2>1, <3>1
  <2> QED BY <2>2, <2>3
<1>6. CASE AgentSend
  <2>1. PICK h \in Compressed(agentHistory) : agentHistory' = Append(h, agentMessage)
    BY <1>6 DEF AgentSend
  <2>2. h \in Seq(HistoryKind)
    BY <1>1, CompressedType
  <2>3. KeptIn(h) /\ (CallLast(agentHistory) => CallLast(h))
    BY <1>1, CompressedKept DEF HInv
  <2>4. agentMessage = "answer" => CallLast(agentHistory)
    BY <1>6 DEF AgentSend, HInv, AnswerReady
  <2>5. KeptIn(Append(h, agentMessage))
    BY <2>2, <2>3, <2>4, AppendKept
  <2>6. agentAt' = "model"
    BY <1>6 DEF AgentSend
  <2> QED BY <2>1, <2>5, <2>6 DEF AnswerReady
<1>7. ASSUME NEW calls, NEW message, afterModel(calls, message)
      PROVE  AnswerReady' \/ (agentAt' = "tools" /\ agentMessage' = message /\ calls # {})
  <2>1. CASE combinedAborted \/ calls = {}
    <3>1. \E r \in Recoverable \cup {"ABORTED", "GOAL"} : turnStops(r)
      BY <1>0, <1>7, <2>1 DEF afterModel, Recoverable
    <3> QED BY <3>1, StopReady
  <2>2. CASE ~(combinedAborted \/ calls = {})
    BY <1>7, <2>2 DEF afterModel
  <2> QED BY <2>1, <2>2
<1>8. ASSUME NEW calls \in SUBSET CallKind, AgentReplies(calls)
      PROVE  AnswerReady' /\ KeptIn(agentHistory)'
  <2> DEFINE kind == IF calls = {} THEN "text" ELSE "call"
             message == IF calls = {} THEN "orphan" ELSE "answer"
  <2>1. /\ agentHistory' = Append(agentHistory, kind)
        /\ afterModel(agentCalls \cup calls, message)
    BY <1>8 DEF AgentReplies
  <2>2. KeptIn(agentHistory')
    BY <1>1, <2>1, AppendKept DEF HInv
  <2>3. /\ Len(agentHistory') = Len(agentHistory) + 1 /\ Len(agentHistory) \in Nat
        /\ agentHistory'[Len(agentHistory) + 1] = kind
    BY <1>1, <2>1
  <2>4. message = "answer" => CallLast(agentHistory')
    BY <2>3 DEF CallLast
  <2>5. AnswerReady' \/ agentMessage' = message
    BY <1>7, <2>1
  <2> QED BY <2>2, <2>4, <2>5 DEF AnswerReady
<1>9. CASE AgentNoReply
  <2>1. agentHistory' = agentHistory /\ afterModel(agentCalls, "orphan")
    BY <1>9 DEF AgentNoReply
  <2>2. AnswerReady' \/ agentMessage' = "orphan"
    BY <1>7, <2>1
  <2>3. AnswerReady'
    BY <2>2 DEF AnswerReady
  <2> QED BY <1>3, <2>1, <2>3
<1>10. CASE AgentToolsEnd
  <2>1. agentHistory' = agentHistory /\ agentAt = "tools"
    BY <1>10 DEF AgentToolsEnd
  <2>2. CASE turnStops("GOAL") \/ agentEnds(agentReason)
    BY <1>3, <2>1, <2>2, StopReady
  <2>3. CASE ~(turnStops("GOAL") \/ agentEnds(agentReason))
    <3>1. agentMessage' = agentMessage
      BY <1>10, <2>3 DEF AgentToolsEnd
    <3> QED BY <1>2, <2>1, <3>1
  <2> QED BY <2>2, <2>3
<1>11. ASSUME NEW isAbort \in BOOLEAN, AgentThrows(isAbort)
       PROVE  AnswerReady' /\ KeptIn(agentHistory)'
  <2>1. agentHistory' = agentHistory /\ turnThrows(isAbort)
    BY <1>11 DEF AgentThrows
  <2> QED BY <1>3, <2>1, StopReady
<1>12. ASSUME NEW calls \in SUBSET CallKind, AgentStreamBreaks(calls)
       PROVE  AnswerReady' /\ KeptIn(agentHistory)'
  BY <1>12 DEF AgentStreamBreaks, HInv, AnswerReady
<1>13. ASSUME NEW s \in {"user", "timeout", "grace"}, AgentSignal(s)
       PROVE  AnswerReady' /\ KeptIn(agentHistory)'
  BY <1>13 DEF AgentSignal, HInv, AnswerReady
<1>14. CASE UNCHANGED agentVars
  BY <1>14 DEF agentVars, HInv, AnswerReady
<1> QED BY <1>4, <1>5, <1>6, <1>8, <1>9, <1>10, <1>11, <1>12, <1>13, <1>14 DEF AgentNext

-------------------------------------------------------------------------------

\* The executor's variables stay in their types, for any limit of turns
\* (local-executor.ts:357).
THEOREM AgentTypeCorrect == AgentSpec => []AgentTypeOK
<1>1. AgentInit => AgentTypeOK
  BY ReasonInitial DEF ReasonInv
<1>2. AgentTypeOK /\ [AgentNext]_agentVars => AgentTypeOK'
  BY AgentTypeStep
<1> QED BY <1>1, <1>2, PTL DEF AgentSpec

\* The reason that run() returns is what happened, however the user, the
\* timers, the model and the recovery race (local-executor.ts:420, :450, :495).
THEOREM AgentReasonCorrect == AgentSpec => []AgentReasonTrue
<1>1. AgentInit => ReasonInv
  BY ReasonInitial
<1>2. ReasonInv /\ [AgentNext]_agentVars => ReasonInv'
  BY AgentTypeStep, ReasonStep DEF ReasonInv
<1>3. ReasonInv => AgentReasonTrue
  BY DEF ReasonInv, ReasonKept, ReasonTrue, AgentReasonTrue
<1> QED BY <1>1, <1>2, <1>3, PTL DEF AgentSpec

\* Compression keeps every function response right behind its call, for
\* histories of any length (chatCompressionService.ts:63, :78).
THEOREM AnswersStay == AgentSpec => []AnswersKept
<1>1. AgentInit => HInv
  <2>1. AgentInit => AgentTypeOK
    BY ReasonInitial DEF ReasonInv
  <2>2. AgentInit => AnswerReady /\ KeptIn(agentHistory)
    BY DEF AgentInit, AnswerReady, KeptIn
  <2> QED BY <2>1, <2>2 DEF HInv
<1>2. HInv /\ [AgentNext]_agentVars => HInv'
  BY AgentTypeStep, HistoryStep DEF HInv
<1>3. HInv => AnswersKept
  BY DEF HInv, KeptIn, AnswersKept
<1> QED BY <1>1, <1>2, <1>3, PTL DEF AgentSpec

------------------------------------------------------------------------------
(***************************************************************************)
(* The agentic loop, for any number of queries, any budget of turns and    *)
(* any threshold of the loop detector: its state is well formed, repeated  *)
(* calls are found, the recursive calls share one budget, and the hooks    *)
(* fire once.  The argument has two layers: the first needs only that a    *)
(* query that waits has a stack, the second counts that stack against the  *)
(* hook state of its prompt.                                               *)
(***************************************************************************)

(* A query that still works for its prompt, or whose tools do.             *)
Live == Waits \cup {"tools"}

Detector == [calls: CallCount, detected: BOOLEAN, disabled: BOOLEAN]

WellFormedQuery(r) ==
    /\ r.at = "new" <=> r.prompt = 0
    /\ r.at \in Waits => r.frames # <<>>
    /\ r.at = "speaker" => r.frames[1].left > 0
WellFormed == \A q \in Queries : WellFormedQuery(query[q])

(* The queries begin in order.  The prompt of each is the last one or one   *)
(* that was overtaken; unless the last one was overtaken too, a query that  *)
(* still waits unaborted is of the last prompt.                             *)
PromptOrder ==
    /\ \A q, e \in Queries : query[q].at = "new" /\ e > q => query[e].at = "new"
    /\ \A q \in Queries : query[q].at # "new" => query[q].prompt \in {lastPromptId} \cup overtaken
    /\ \A q \in Queries : query[q].at \in Waits /\ ~query[q].aborted =>
          query[q].prompt = lastPromptId \/ lastPromptId \in overtaken

(* While it has not found a loop the detector counts every call handed out  *)
(* to the last prompt, and a prompt not overtaken was given calls only then. *)
DetectorCounts ==
    \A p \in Queries \ overtaken :
        /\ p # lastPromptId => handedOut[p] = NoCalls
        /\ p = lastPromptId /\ ~loopDetector.detected /\ ~loopDetector.disabled =>
             handedOut[p] = loopDetector.calls

(* The first layer.                                                        *)
DetectorInv == LoopTypeOK /\ WellFormed /\ PromptOrder /\ DetectorCounts /\ LoopsFound

(* Nothing is kept for a prompt that nobody submitted.                     *)
NewUnused ==
    \A q \in Queries : query[q].at = "new" =>
        /\ lastPromptId # q /\ hookStateMap[q] = NoHookState /\ q \notin hookSaw
        /\ \A e \in Queries : query[e].prompt # q

(* Only the last prompt's hook state is not lost, and one query has it.    *)
OnlyLastKept ==
    /\ \A q \in Queries : query[q].prompt \notin hookLost \cup {0} => query[q].prompt = lastPromptId
    /\ \A q, e \in Queries :
        query[q].prompt = query[e].prompt /\ query[q].prompt \notin hookLost
        /\ query[q].at \in Live /\ query[e].at \in Live => q = e

(* Each frame has one turn less to spend than the one below it.  Only the  *)
(* second lowest can be the call behind a blocked end; the turns below it  *)
(* were at most a whole budget, those above it are at most another.        *)
Stacked(r) ==
    LET depth == Len(r.frames)
        blocked == depth > 1 /\ r.frames[depth - 1].after
    IN  /\ \A i \in 1 .. depth :
            /\ r.frames[i].left = MAX_TURNS - depth + i
            /\ r.frames[i].after => i = depth - 1
        /\ blocked => r.turns < MAX_TURNS + depth /\ r.turns <= 2 * MAX_TURNS - 1
        /\ ~blocked => r.turns <= MAX_TURNS /\ (r.at # "afterAgent" => r.turns <= depth)

(* What holds of a query with the hook state of its prompt while that is   *)
(* not lost: as many active calls as frames, and the BeforeAgent hook seen *)
(* (`saw') except while the query waits for it.                            *)
CountedQuery(r, o, saw) ==
    /\ r.at \in Waits => o.there /\ o.active = Len(r.frames) /\ Stacked(r)
    /\ r.at = "beforeAgent" => ~saw /\ Len(r.frames) = 1 /\ r.turns = 0
    /\ r.at \in Live \ {"beforeAgent"} => o.fired
    /\ r.at = "tools" => o.there /\ o.active = 0
    /\ r.at = "afterAgent" => Len(r.frames) = 1 /\ ~r.pending
    /\ r.at \notin Waits => r.turns = 0

HooksCounted ==
    \A q \in Queries : query[q].prompt \notin hookLost =>
        CountedQuery(query[q], hookStateMap[query[q].prompt], query[q].prompt \in hookSaw)

HookInv == NewUnused /\ OnlyLastKept /\ HooksCounted

------------------------------------------------------------------------------

LEMMA TurnBegunType ==
  ASSUME NEW r \in Query, r.frames # <<>>
  PROVE  /\ turnBegun(r) \in Query /\ turnBegun(r).at = "turn" /\ turnBegun(r).prompt = r.prompt
         /\ turnBegun(r).frames = r.frames /\ turnBegun(r).aborted = r.aborted
         /\ turnBegun(r).turns = IF r.frames[1].left > 0 THEN r.turns + 1 ELSE r.turns
<1> DEFINE n == IF r.frames[1].left > 0 THEN r.turns + 1 ELSE r.turns
<1>1. n \in Nat
  BY DEF Query
<1>2. turnBegun(r) = [r EXCEPT !.at = "turn", !.pending = FALSE, !.turns = n]
  BY DEF turnBegun
<1>3. n = IF r.frames[1].left > 0 THEN r.turns + 1 ELSE r.turns
  OBVIOUS
<1> HIDE DEF n
<1> QED BY <1>1, <1>2, <1>3 DEF Query, Waits

LEMMA NestedType ==
  ASSUME LoopAssumption, LoopTypeOK, NEW q \in Queries, query[q].frames # <<>>,
         query[q].frames[1].left > 0, NEW retry \in BOOLEAN, NEW after \in BOOLEAN
  PROVE  /\ nested(q, retry, after) \in Query
         /\ nested(q, retry, after).prompt = query[q].prompt
         /\ nested(q, retry, after).at = query[q].at
         /\ nested(q, retry, after).turns = query[q].turns
         /\ Len(nested(q, retry, after).frames) = Len(query[q].frames) + 1
         /\ nested(q, retry, after).frames # <<>>
         /\ nested(q, retry, after).frames[1] =
              [left |-> query[q].frames[1].left - 1, retry |-> retry, after |-> after]
         /\ \A i \in 1 .. Len(query[q].frames) :
              nested(q, retry, after).frames[i + 1] = query[q].frames[i]
<1> DEFINE f == query[q].frames
           top == [left |-> f[1].left - 1, retry |-> retry, after |-> after]
<1>1. query[q] \in Query /\ f \in Seq(Frame) /\ f[1] \in Frame /\ Len(f) \in Nat \ {0}
  BY DEF LoopTypeOK, Query
<1>2. MAX_TURNS \in Nat /\ top \in Frame
  BY <1>1 DEF Frame, LoopAssumption
<1>3. nested(q, retry, after) = [query[q] EXCEPT !.frames = <<top>> \o f]
  BY DEF nested
<1> HIDE DEF f, top
<1>4. /\ <<top>> \o f \in Seq(Frame) /\ Len(<<top>> \o f) = Len(f) + 1 /\ <<top>> \o f # <<>>
      /\ (<<top>> \o f)[1] = top /\ \A i \in 1 .. Len(f) : (<<top>> \o f)[i + 1] = f[i]
  BY <1>1, <1>2
<1>5. [query[q] EXCEPT !.frames = <<top>> \o f] \in Query
  BY <1>1, <1>4 DEF Query
<1>6. LET n == [query[q] EXCEPT !.frames = <<top>> \o f] IN
        n.prompt = query[q].prompt /\ n.at = query[q].at /\ n.turns = query[q].turns
        /\ n.frames = <<top>> \o f
  BY <1>1 DEF Query
<1> QED BY <1>3, <1>4, <1>5, <1>6 DEF f, top

LEMMA AskedCallType ==
  ASSUME LoopAssumption, NEW p \in Queries
  PROVE  /\ AskedCall(p) \in Query /\ AskedCall(p).prompt = p /\ AskedCall(p).turns = 0
         /\ Len(AskedCall(p).frames) = 1 /\ AskedCall(p).frames # <<>>
         /\ AskedCall(p).frames[1] = [left |-> MAX_TURNS, retry |-> FALSE, after |-> FALSE]
<1> DEFINE f == [left |-> MAX_TURNS, retry |-> FALSE, after |-> FALSE]
<1>1. f \in Frame
  BY DEF Frame, LoopAssumption
<1>2. AskedCall(p) = [NewQuery EXCEPT !.prompt = p, !.frames = <<f>>]
  BY DEF AskedCall
<1> HIDE DEF f
<1>3. <<f>> \in Seq(Frame) /\ Len(<<f>>) = 1 /\ <<f>>[1] = f
  BY <1>1
<1>4. NewQuery \in Query
  BY DEF NewQuery, Query
<1>5. NewQuery.turns = 0
  BY DEF NewQuery
<1>6. Len(<<f>>) = 1 /\ <<f>> # <<>>
  OBVIOUS
<1> QED BY <1>2, <1>3, <1>4, <1>5, <1>6 DEF Query, f

LEMMA TailLeft ==
  ASSUME NEW S, NEW t \in Seq(S), t # <<>>, Len(t) # 1
  PROVE  Tail(t) \in Seq(S) /\ Tail(t) # <<>> /\ t[1] \in S
<1>1. Len(t) \in Nat \ {0}
  BY EmptySeq, Zenon
<1>2. Tail(t) \in Seq(S) /\ Len(Tail(t)) = Len(t) - 1
  BY HeadTailProperties
<1>3. Len(Tail(t)) # 0
  <2>1. PICK n, m : n = Len(t) /\ m = Len(Tail(t)) /\ m = n - 1
    BY <1>2, Zenon
  <2>2. n \in Nat \ {0}
    BY <1>1, <2>1
  <2>3. n # 1 /\ m = n - 1
    BY <2>1
  <2> QED BY <2>1, <2>2, <2>3
<1>4. PICK u : u = Tail(t) /\ u \in Seq(S) /\ Len(u) # 0
  BY <1>3, <1>2, Zenon
<1>5. u # <<>>
  BY <1>4
<1>6. t[1] \in S
  BY <1>1
<1> QED BY <1>2, <1>4, <1>5, <1>6

LEMMA OverType ==
  ASSUME LoopAssumption, NEW r \in Query, r.prompt # 0, NEW at \in Ends
  PROVE  /\ over(r, at) \in Query /\ WellFormedQuery(over(r, at))
         /\ over(r, at).at = at /\ over(r, at).prompt = r.prompt
         /\ over(r, at).pending = r.pending /\ over(r, at).turns = 0
<1>1. NewQuery \in Query /\ NewQuery.turns = 0
  BY DEF NewQuery, Query
<1>2. over(r, at) = [NewQuery EXCEPT !.at = at, !.prompt = r.prompt, !.pending = r.pending]
  BY DEF over
<1>3. over(r, at) \in Query
  BY <1>1, <1>2 DEF Query
<1>4. /\ over(r, at).at = at /\ over(r, at).prompt = r.prompt
      /\ over(r, at).pending = r.pending /\ over(r, at).turns = 0
  BY <1>1, <1>2 DEF Query
<1> QED BY <1>3, <1>4 DEF WellFormedQuery, Waits, Ends

LEMMA CountedDownType ==
  ASSUME NEW o \in HookState, NEW calls \in Nat, NEW keep \in BOOLEAN
  PROVE  /\ countedDown(o, calls, keep) \in HookState
         /\ o.there /\ keep => /\ countedDown(o, calls, keep).there
                               /\ countedDown(o, calls, keep).active = o.active - calls
                               /\ countedDown(o, calls, keep).fired = o.fired
BY DEF countedDown, HookState, NoHookState


\* One more active call of prompt p.
LEMMA CountedUp ==
  ASSUME NEW f \in [Queries -> HookState], NEW p \in Queries,
         NEW g, g = [f EXCEPT ![p].there = TRUE, ![p].active = @ + 1]
  PROVE  /\ g \in [Queries -> HookState]
         /\ g[p].there /\ g[p].fired = f[p].fired /\ g[p].active = f[p].active + 1
         /\ \A o \in Queries \ {p} : g[o] = f[o]
<1>1. g \in [Queries -> HookState]
  BY DEF HookState
<1>2. g[p].there /\ g[p].fired = f[p].fired /\ g[p].active = f[p].active + 1
  BY DEF HookState
<1>3. \A o \in Queries \ {p} : g[o] = f[o]
  BY DEF HookState
<1> QED BY <1>1, <1>2, <1>3

\* What a call of sendMessageStream leaves behind: the stack of the query is the
\* one asked for, its prompt is the last one, and only that prompt and the one it
\* takes the place of have another hook state.
LEMMA SendResult ==
  ASSUME LoopAssumption, LoopTypeOK, NEW q \in Queries,
         NEW queries \in [Queries -> Query], NEW detector \in Detector,
         NEW asked \in Query, asked.prompt \in Queries, asked.frames # <<>>,
         sendMessageStream(queries, detector, q, asked)
  PROVE  /\ query' \in [Queries -> Query] /\ hookStateMap' \in [Queries -> HookState]
         /\ lastPromptId' = asked.prompt
         /\ loopDetector' \in Detector /\ overtaken' \subseteq Queries
         /\ \A e \in Queries \ {q} : query'[e] = queries[e]
         /\ query'[q].prompt = asked.prompt /\ query'[q].frames = asked.frames
         /\ hookStateMap[asked.prompt].fired =>
              /\ query'[q].at = "turn"
              /\ query'[q].turns = IF asked.frames[1].left > 0 THEN asked.turns + 1 ELSE asked.turns
         /\ ~hookStateMap[asked.prompt].fired =>
              query'[q].at = "beforeAgent" /\ query'[q].turns = asked.turns
         /\ hookStateMap'[asked.prompt].there
         /\ hookStateMap'[asked.prompt].fired = hookStateMap[asked.prompt].fired
         /\ hookStateMap'[asked.prompt].active = hookStateMap[asked.prompt].active + 1
         /\ \A o \in Queries \ {asked.prompt, lastPromptId} : hookStateMap'[o] = hookStateMap[o]
<1> DEFINE p == asked.prompt
           kept == [o \in Queries |-> IF lastPromptId # p /\ o = lastPromptId THEN NoHookState
                                      ELSE hookStateMap[o]]
           reset == [NoLoop EXCEPT !.disabled = detector.disabled]
           waiting == [asked EXCEPT !.at = "beforeAgent", !.pending = FALSE]
<1>1. /\ lastPromptId' = p
      /\ loopDetector' = IF lastPromptId # p THEN reset ELSE detector
      /\ overtaken' = overtaken \cup Overtaken(p)
      /\ hookStateMap' = [kept EXCEPT ![p].there = TRUE, ![p].active = @ + 1]
      /\ query' = [queries EXCEPT ![q] = IF kept[p].fired THEN turnBegun(asked) ELSE waiting]
  BY DEF sendMessageStream
<1>2. /\ kept \in [Queries -> HookState] /\ kept[p] = hookStateMap[p]
      /\ \A o \in Queries \ {lastPromptId} : kept[o] = hookStateMap[o]
  BY DEF LoopTypeOK, HookState, NoHookState
<1>3. waiting \in Query /\ waiting.at = "beforeAgent" /\ waiting.prompt = p
      /\ waiting.frames = asked.frames /\ waiting.turns = asked.turns
  BY DEF Query, Waits
<1>4. reset \in Detector
  BY DEF Detector, NoLoop, NoCalls, CallCount
<1>5. loopDetector' \in Detector /\ overtaken' \subseteq Queries
  BY <1>1, <1>4 DEF LoopTypeOK, Overtaken
<1> HIDE DEF kept, waiting
<1>6. query' = [queries EXCEPT ![q] = IF hookStateMap[p].fired THEN turnBegun(asked) ELSE waiting]
  BY <1>1, <1>2
<1>7. query' \in [Queries -> Query] /\ \A e \in Queries \ {q} : query'[e] = queries[e]
  BY <1>3, <1>6, TurnBegunType
<1>8. query'[q] = IF hookStateMap[p].fired THEN turnBegun(asked) ELSE waiting
  BY <1>6
<1>9. /\ hookStateMap' \in [Queries -> HookState]
      /\ hookStateMap'[p].there /\ hookStateMap'[p].fired = hookStateMap[p].fired
      /\ hookStateMap'[p].active = hookStateMap[p].active + 1
      /\ \A o \in Queries \ {p, lastPromptId} : hookStateMap'[o] = hookStateMap[o]
  <2>1. PICK f : f = kept /\ hookStateMap' = [f EXCEPT ![p].there = TRUE, ![p].active = @ + 1]
    BY <1>1, Zenon
  <2>2. PICK g : g = hookStateMap' /\ g = [f EXCEPT ![p].there = TRUE, ![p].active = @ + 1]
    BY <2>1, Zenon
  <2>3. f \in [Queries -> HookState]
    BY <1>2, <2>1
  <2>4. /\ g \in [Queries -> HookState]
        /\ g[p].there /\ g[p].fired = f[p].fired /\ g[p].active = f[p].active + 1
        /\ \A o \in Queries \ {p} : g[o] = f[o]
    BY <2>2, <2>3, CountedUp, Zenon
  <2> QED BY <1>2, <2>1, <2>2, <2>4
<1> QED BY <1>1, <1>3, <1>5, <1>7, <1>8, <1>9, TurnBegunType

\* Another prompt, or the detector that is asked for.
LEMMA SendDetector ==
  ASSUME NEW q, NEW queries, NEW detector \in Detector, NEW asked,
         sendMessageStream(queries, detector, q, asked)
  PROVE  /\ loopDetector'.disabled = detector.disabled
         /\ overtaken' = overtaken \cup Overtaken(asked.prompt)
         /\ lastPromptId = asked.prompt => loopDetector' = detector
         /\ lastPromptId # asked.prompt => loopDetector'.calls = NoCalls
BY DEF sendMessageStream, Detector, NoLoop

LEMMA UnwoundType ==
  ASSUME LoopAssumption, NEW r \in Query, r.prompt # 0, r.frames # <<>>,
         NEW o \in HookState, NEW leaves \in BOOLEAN
  PROVE  LET u == unwound(r, o, leaves) IN
         /\ u.query \in Query /\ u.hookState \in HookState /\ WellFormedQuery(u.query)
         /\ u.query.prompt = r.prompt
         /\ u.query.at \in {"afterAgent", "tools", "done"}
         /\ u.query.at = "afterAgent" =>
              /\ FiresAfterAgent(r, o, leaves) /\ ~u.query.pending /\ u.query.turns = r.turns
              /\ u.query.aborted = r.aborted
              /\ u.hookState = [o EXCEPT !.active = 1]
              /\ u.query.frames = SubSeq(r.frames, o.active, Len(r.frames))
         /\ u.query.at # "afterAgent" =>
              /\ ~FiresAfterAgent(r, o, leaves) /\ u.query.turns = 0
              /\ u.query.pending = pendingBehind(r, Len(r.frames))
              /\ u.hookState = countedDown(o, Len(r.frames),
                                           pendingBehind(r, Len(r.frames) - 1) /\ ~r.aborted)
         /\ u.query.at = "tools" => ~r.aborted
<1> DEFINE calls == Len(r.frames)
           u == unwound(r, o, leaves)
<1>1. calls \in Nat \ {0} /\ \A i \in 0 .. calls : pendingBehind(r, i) \in BOOLEAN
  BY DEF Query, pendingBehind
<1>2. CASE FiresAfterAgent(r, o, leaves)
  <2>1. u = [query |-> [r EXCEPT !.at = "afterAgent", !.pending = FALSE,
                                 !.frames = SubSeq(@, o.active, calls)],
             hookState |-> [o EXCEPT !.active = 1]]
    BY <1>2 DEF unwound
  <2>2. o.active \in 1 .. calls
    BY <1>1, <1>2 DEF FiresAfterAgent, inner, HookState
  <2>3. SubSeq(r.frames, o.active, calls) \in Seq(Frame) /\ SubSeq(r.frames, o.active, calls) # <<>>
    <3>1. r.frames \in Seq(Frame)
      BY DEF Query
    <3>2. \A i \in o.active .. calls : r.frames[i] \in Frame
      BY <2>2, <3>1
    <3> DEFINE left == SubSeq(r.frames, o.active, calls)
    <3>3. o.active \in Int /\ calls \in Int /\ o.active <= calls
      BY <1>1, <2>2
    <3>4. left \in Seq(Frame) /\ Len(left) = calls - o.active + 1
      BY <3>2, <3>3, SubSeqProperties
    <3> HIDE DEF left, calls
    <3>5. Len(left) > 0
      BY <3>3, <3>4
    <3>6. left # <<>>
      BY <3>4, <3>5
    <3> QED BY <3>4, <3>6 DEF left
  <2> DEFINE left == SubSeq(r.frames, o.active, calls)
             s == [r EXCEPT !.at = "afterAgent", !.pending = FALSE, !.frames = left]
  <2>s. s \in Query /\ s.prompt = r.prompt /\ s.at = "afterAgent"
        /\ ~s.pending /\ s.turns = r.turns /\ s.frames = left /\ s.aborted = r.aborted
    <3> HIDE DEF left
    <3> QED BY <2>3 DEF Query, Waits, left
  <2>t. u.query = s
    BY <2>1
  <2>4. /\ u.query \in Query /\ u.query.prompt = r.prompt /\ u.query.at = "afterAgent"
        /\ ~u.query.pending /\ u.query.turns = r.turns /\ u.query.aborted = r.aborted
        /\ u.query.frames = left
    <3> HIDE DEF s, u, left
    <3> QED BY <2>s, <2>t
  <2>5. u.hookState \in HookState /\ u.hookState = [o EXCEPT !.active = 1]
    BY <2>1 DEF HookState
  <2> HIDE DEF u
  <2>6. WellFormedQuery(u.query)
    BY <2>3, <2>4 DEF WellFormedQuery
  <2> QED BY <1>2, <2>4, <2>5, <2>6 DEF u
<1>3. CASE ~FiresAfterAgent(r, o, leaves)
  <2> DEFINE s == [r EXCEPT !.pending = pendingBehind(r, calls)]
             at == IF r.collected /\ ~r.aborted THEN "tools" ELSE "done"
             keep == pendingBehind(r, calls - 1) /\ ~r.aborted
  <2>1. u = [query |-> over(s, at), hookState |-> countedDown(o, calls, keep)]
    BY <1>3 DEF unwound
  <2>2. s \in Query /\ s.prompt = r.prompt /\ s.pending = pendingBehind(r, calls)
    BY <1>1 DEF Query
  <2>3. at \in {"tools", "done"} /\ (at = "tools" => ~r.aborted)
    OBVIOUS
  <2>4. keep \in BOOLEAN
    BY <1>1 DEF Query
  <2> HIDE DEF s, at, keep
  <2>5. /\ over(s, at) \in Query /\ WellFormedQuery(over(s, at)) /\ over(s, at).at = at
        /\ over(s, at).prompt = r.prompt /\ over(s, at).turns = 0
        /\ over(s, at).pending = pendingBehind(r, calls)
    BY <2>2, <2>3, OverType DEF Ends
  <2>6. countedDown(o, calls, keep) \in HookState
    BY <1>1, <2>4, CountedDownType
  <2> QED BY <1>3, <2>1, <2>3, <2>5, <2>6 DEF keep
<1> QED BY <1>2, <1>3

\* What it leaves behind when calls of query q return.
LEMMA ReturnsResult ==
  ASSUME LoopAssumption, LoopTypeOK, NEW q \in Queries,
         NEW r \in Query, r.prompt # 0, r.frames # <<>>, NEW o \in HookState,
         NEW leaves \in BOOLEAN, NEW found \in BOOLEAN, Returns(q, r, o, leaves, found)
  PROVE  /\ query' \in [Queries -> Query] /\ hookStateMap' \in [Queries -> HookState]
         /\ query'[q] = unwound(r, o, leaves).query
         /\ hookStateMap'[r.prompt] = unwound(r, o, leaves).hookState
         /\ \A e \in Queries \ {q} : query'[e] = query[e]
         /\ \A p \in Queries \ {r.prompt} : hookStateMap'[p] = hookStateMap[p]
         /\ WellFormedQuery(query'[q]) /\ query'[q].prompt = r.prompt
         /\ query'[q].at \in {"afterAgent", "tools", "done"}
         /\ query'[q].at = "afterAgent" => query'[q].aborted = r.aborted
         /\ loopDialog' \in {"none", "found", "open"}
         /\ hookLost' \subseteq Queries /\ hookLost \subseteq hookLost'
         /\ query'[q].at = "tools" /\ ~query'[q].pending => r.prompt \in hookLost'
         /\ UNCHANGED <<lastPromptId, handedOut, overtaken>>
<1> DEFINE u == unwound(r, o, leaves)
<1>1. /\ query' = [query EXCEPT ![q] = u.query]
      /\ hookStateMap' = [hookStateMap EXCEPT ![r.prompt] = u.hookState]
      /\ loopDialog' = IF (found \/ loopDialog = "found") /\ u.query.at \in Ends THEN "open"
                       ELSE IF found THEN "found" ELSE loopDialog
      /\ hookLost' = IF u.query.at = "tools" /\ ~u.query.pending THEN hookLost \cup {r.prompt}
                     ELSE hookLost
      /\ UNCHANGED <<lastPromptId, handedOut, overtaken>>
  BY DEF Returns
<1>2. r.prompt \in Queries
  BY DEF Query
<1>3. /\ u.query \in Query /\ u.hookState \in HookState /\ WellFormedQuery(u.query)
      /\ u.query.prompt = r.prompt /\ u.query.at \in {"afterAgent", "tools", "done"}
      /\ u.query.at = "afterAgent" => u.query.aborted = r.aborted
  BY UnwoundType, ZenonT(60)
<1> HIDE DEF u
<1>0. query \in [Queries -> Query] /\ hookStateMap \in [Queries -> HookState]
  BY DEF LoopTypeOK
<1>4. query'[q] = u.query /\ hookStateMap'[r.prompt] = u.hookState
  BY <1>0, <1>1, <1>2
<1>5. /\ query' \in [Queries -> Query] /\ hookStateMap' \in [Queries -> HookState]
      /\ \A e \in Queries \ {q} : query'[e] = query[e]
      /\ \A p \in Queries \ {r.prompt} : hookStateMap'[p] = hookStateMap[p]
  BY <1>0, <1>1, <1>2, <1>3
<1>6. /\ loopDialog' \in {"none", "found", "open"} /\ hookLost \subseteq hookLost'
      /\ hookLost' \subseteq Queries
  BY <1>1, <1>2 DEF LoopTypeOK
<1>7. query'[q].at = "tools" /\ ~query'[q].pending => r.prompt \in hookLost'
  BY <1>1, <1>4
<1> QED BY <1>1, <1>3, <1>4, <1>5, <1>6, <1>7 DEF u

\* The same on the hook state of its prompt.
LEMMA GoesResult ==
  ASSUME LoopAssumption, LoopTypeOK, NEW q \in Queries,
         NEW r \in Query, r.prompt # 0, r.frames # <<>>,
         NEW leaves \in BOOLEAN, NEW found \in BOOLEAN, Goes(q, r, leaves, found)
  PROVE  \E o \in HookState : o = hookStateMap[r.prompt] /\ Returns(q, r, o, leaves, found)
<1>1. r.prompt \in Queries /\ hookStateMap[r.prompt] \in HookState
  BY DEF Query, LoopTypeOK
<1> QED BY <1>1 DEF Goes

LEMMA AddAndCheckType ==
  ASSUME LoopAssumption, LoopTypeOK, NEW call \in CallKeys
  PROVE  addAndCheck(call) \in Detector
         /\ \A p \in Queries : Repeated(handedOut[p], call) \in CallCount
<1>1. \A c \in CallCount : Repeated(c, call) \in CallCount /\ Repeated(c, call).count \in Nat
  BY DEF Repeated, CallCount
<1>2. loopDetector \in Detector /\ loopDetector.calls \in CallCount
      /\ \A p \in Queries : handedOut[p] \in CallCount
  BY DEF LoopTypeOK, Detector
<1> DEFINE calls == Repeated(loopDetector.calls, call)
           loop == calls.count >= TOOL_CALL_LOOP_THRESHOLD
<1>3. addAndCheck(call) = IF loopDetector.disabled \/ loopDetector.detected THEN loopDetector
                          ELSE [loopDetector EXCEPT !.calls = calls, !.detected = loop]
  BY DEF addAndCheck
<1>4. calls \in CallCount /\ loop \in BOOLEAN
  BY <1>1, <1>2
<1> HIDE DEF calls, loop
<1>5. addAndCheck(call) \in Detector
  BY <1>2, <1>3, <1>4 DEF Detector
<1> QED BY <1>1, <1>2, <1>5

------------------------------------------------------------------------------
(* Types, and the loop detector *)

\* A step of one query, that began, leaves the order of the prompts as it is.
LEMMA OrderKept ==
  ASSUME PromptOrder, NEW q \in Queries, \A e \in Queries \ {q} : query'[e] = query[e],
         query[q].at # "new", query'[q].at # "new", query'[q].prompt = query[q].prompt,
         query'[q].at \in Waits /\ ~query'[q].aborted => query[q].at \in Waits /\ ~query[q].aborted,
         UNCHANGED <<lastPromptId, overtaken>>
  PROVE  PromptOrder'
BY DEF PromptOrder

\* A query whose prompt is asked for next: a new one, or one that began.
AskedIn(queries, asked, q) ==
    /\ \A e \in Queries :
         /\ queries[e].at = "new" <=> query[e].at = "new"
         /\ queries[e].prompt = query[e].prompt
         /\ queries[e].at \in Waits => query[e].at \in Waits /\ query[e].aborted = queries[e].aborted
    /\ query[q].at # "new" \/ NextNew(q)
    /\ \/ asked.prompt \in {lastPromptId} \cup overtaken
       \/ \A e \in Queries \ {q} : queries[e].at \in Waits => queries[e].aborted

LEMMA SendKeepsOrder ==
  ASSUME LoopAssumption, DetectorInv, NEW q \in Queries,
         NEW queries \in [Queries -> Query], \A e \in Queries : WellFormedQuery(queries[e]),
         NEW asked \in Query, asked.prompt \in Queries, AskedIn(queries, asked, q),
         \A e \in Queries \ {q} : query'[e] = queries[e],
         query'[q].prompt = asked.prompt, query'[q].at # "new",
         lastPromptId' = asked.prompt, overtaken' = overtaken \cup Overtaken(asked.prompt)
  PROVE  PromptOrder'
<1>1. ASSUME NEW a \in Queries, NEW e \in Queries, query'[a].at = "new", e > a
      PROVE  query'[e].at = "new"
  <2>1. a # q /\ query[a].at = "new"
    BY <1>1 DEF AskedIn
  <2>2. query[e].at = "new"
    BY <1>1, <2>1 DEF DetectorInv, PromptOrder
  <2>3. e # q
    BY <1>1, <2>1, <2>2 DEF AskedIn, NextNew, LoopAssumption
  <2> QED BY <2>2, <2>3 DEF AskedIn
<1>2. ASSUME NEW a \in Queries, query'[a].at # "new"
      PROVE  query'[a].prompt \in {lastPromptId'} \cup overtaken'
  <2>1. CASE a # q
    <3>1. query'[a].prompt \in {lastPromptId} \cup overtaken /\ query'[a].prompt # 0
      BY <1>2, <2>1 DEF AskedIn, DetectorInv, PromptOrder, WellFormedQuery
    <3> QED BY <3>1 DEF Overtaken
  <2> QED BY <2>1
<1>3. ASSUME NEW a \in Queries, query'[a].at \in Waits, ~query'[a].aborted
      PROVE  query'[a].prompt = lastPromptId' \/ lastPromptId' \in overtaken'
  <2>1. CASE a # q
    <3>1. query[a].at \in Waits /\ ~query[a].aborted /\ query'[a].prompt = query[a].prompt
      BY <1>3, <2>1 DEF AskedIn
    <3>2. query[a].prompt = lastPromptId \/ lastPromptId \in overtaken
      BY <3>1 DEF DetectorInv, PromptOrder
    <3>3. asked.prompt \in {lastPromptId} \cup overtaken
      BY <1>3, <2>1 DEF AskedIn
    <3> QED BY <3>1, <3>2, <3>3
  <2> QED BY <2>1
<1> QED BY <1>1, <1>2, <1>3 DEF PromptOrder

LEMMA SendKeepsLoops ==
  ASSUME LoopAssumption, DetectorInv, NEW q \in Queries,
         NEW queries \in [Queries -> Query], \A e \in Queries : WellFormedQuery(queries[e]),
         NEW detector \in Detector,
         detector = loopDetector \/ detector.disabled,
         NEW asked \in Query, asked.prompt \in Queries, asked.frames # <<>>,
         AskedIn(queries, asked, q), sendMessageStream(queries, detector, q, asked),
         hookLost' \subseteq hookLost \cup Overtaken(asked.prompt) \cup {asked.prompt},
         loopDialog' \in {"none", "found", "open"}, UNCHANGED <<handedOut, hookSaw>>
  PROVE  DetectorInv'
<1>1. /\ query' \in [Queries -> Query] /\ hookStateMap' \in [Queries -> HookState]
      /\ lastPromptId' = asked.prompt /\ loopDetector' \in Detector /\ overtaken' \subseteq Queries
      /\ \A e \in Queries \ {q} : query'[e] = queries[e]
      /\ query'[q].prompt = asked.prompt /\ query'[q].frames = asked.frames
      /\ query'[q].at \in {"turn", "beforeAgent"}
  <2>1. LoopTypeOK
    BY DEF DetectorInv
  <2> QED BY <2>1, SendResult
<1>2. hookLost' \subseteq Queries
  BY DEF DetectorInv, LoopTypeOK, Overtaken
<1>3. LoopTypeOK'
  BY <1>1, <1>2 DEF DetectorInv, LoopTypeOK, Detector
<1>4. WellFormedQuery(query'[q])
  BY <1>1 DEF WellFormedQuery, Waits, LoopAssumption
<1>5. WellFormed'
  BY <1>1, <1>4 DEF WellFormed, WellFormedQuery
<1>6. /\ loopDetector'.disabled = detector.disabled
      /\ overtaken' = overtaken \cup Overtaken(asked.prompt)
      /\ lastPromptId = asked.prompt => loopDetector' = detector
      /\ lastPromptId # asked.prompt => loopDetector'.calls = NoCalls
  BY SendDetector
<1>7. PromptOrder'
  BY <1>1, <1>6, SendKeepsOrder
<1>8. ASSUME NEW p \in Queries \ overtaken'
      PROVE  /\ p # lastPromptId' => handedOut'[p] = NoCalls
             /\ p = lastPromptId' /\ ~loopDetector'.detected /\ ~loopDetector'.disabled =>
                  handedOut'[p] = loopDetector'.calls
  <2>1. p \notin overtaken /\ p # 0 /\ (lastPromptId # asked.prompt => p # lastPromptId)
    BY <1>6 DEF Overtaken, LoopAssumption
  <2>2. /\ p # lastPromptId => handedOut[p] = NoCalls
        /\ p = lastPromptId /\ ~loopDetector.detected /\ ~loopDetector.disabled =>
             handedOut[p] = loopDetector.calls
    BY <2>1 DEF DetectorInv, DetectorCounts
  <2> QED BY <1>1, <1>6, <2>1, <2>2
<1>9. DetectorCounts'
  BY <1>8 DEF DetectorCounts
<1>10. LoopsFound'
  BY <1>6 DEF DetectorInv, LoopsFound
<1> QED BY <1>3, <1>5, <1>7, <1>9, <1>10 DEF DetectorInv

LEMMA ReturnsKeepLoops ==
  ASSUME LoopAssumption, DetectorInv, NEW q \in Queries,
         NEW r \in Query, r.prompt = query[q].prompt, query[q].at \in Waits,
         r.frames # <<>>, r.aborted = query[q].aborted, NEW o \in HookState,
         NEW leaves \in BOOLEAN, NEW found \in BOOLEAN, Returns(q, r, o, leaves, found),
         loopDetector' \in Detector, DetectorCounts', hookSaw' \subseteq Queries
  PROVE  DetectorInv'
<1>1. r.prompt # 0 /\ query[q].at # "new"
  BY DEF DetectorInv, WellFormed, WellFormedQuery, Waits
<1>2. /\ query' \in [Queries -> Query] /\ hookStateMap' \in [Queries -> HookState]
      /\ \A e \in Queries \ {q} : query'[e] = query[e]
      /\ WellFormedQuery(query'[q]) /\ loopDialog' \in {"none", "found", "open"}
      /\ hookLost' \subseteq Queries /\ UNCHANGED <<lastPromptId, handedOut, overtaken>>
      /\ query'[q].prompt = r.prompt
      /\ query'[q].at \in {"afterAgent", "tools", "done"}
      /\ query'[q].at = "afterAgent" => query'[q].aborted = r.aborted
  BY <1>1, ReturnsResult DEF DetectorInv
<1>3. LoopTypeOK'
  BY <1>2 DEF DetectorInv, LoopTypeOK, Detector
<1>4. WellFormed' /\ LoopsFound'
  BY <1>2 DEF DetectorInv, WellFormed, WellFormedQuery, LoopsFound
<1>5. PromptOrder'
  BY <1>1, <1>2, OrderKept DEF DetectorInv, Waits
<1> QED BY <1>3, <1>4, <1>5 DEF DetectorInv

LEMMA GoesKeepsLoops ==
  ASSUME LoopAssumption, DetectorInv, NEW q \in Queries,
         NEW r \in Query, r.prompt = query[q].prompt, query[q].at \in Waits,
         r.frames = query[q].frames, r.aborted = query[q].aborted,
         NEW leaves \in BOOLEAN, NEW found \in BOOLEAN, Goes(q, r, leaves, found),
         loopDetector' \in Detector, DetectorCounts', UNCHANGED hookSaw
  PROVE  DetectorInv'
<1>1. r.prompt # 0 /\ r.frames # <<>> /\ LoopTypeOK /\ hookSaw' \subseteq Queries
  BY DEF DetectorInv, LoopTypeOK, WellFormed, WellFormedQuery, Waits
<1>2. PICK o \in HookState : Returns(q, r, o, leaves, found)
  BY <1>1, GoesResult
<1> QED BY <1>1, <1>2, ReturnsKeepLoops

LEMMA GoingActionsKeepLoops ==
  ASSUME LoopAssumption, DetectorInv, NEW q \in Queries,
         \/ \E found \in BOOLEAN : TurnNotSent(q, found)
         \/ LoopEvent(q) \/ TurnReturns(q) \/ SpeakerIsUser(q) \/ AfterAgentPasses(q)
  PROVE  DetectorInv'
<1> DEFINE r == query[q]
<1>1. r \in Query /\ loopDetector \in Detector /\ DetectorCounts
  BY DEF DetectorInv, LoopTypeOK, Detector
<1>2. /\ r.at \in Waits /\ UNCHANGED hookSaw
      /\ loopDetector' = loopDetector \/ loopDetector' = [loopDetector EXCEPT !.detected = TRUE]
      /\ \E leaves, found \in BOOLEAN : Goes(q, r, leaves, found)
  BY DEF TurnNotSent, LoopEvent, TurnReturns, SpeakerIsUser, AfterAgentPasses, StreamOver, Sending, Waits
<1>3. UNCHANGED <<lastPromptId, handedOut, overtaken>>
  BY <1>2 DEF Goes, Returns
<1>4. loopDetector' \in Detector /\ DetectorCounts'
  BY <1>1, <1>2, <1>3 DEF Detector, DetectorCounts
<1> HIDE DEF r
<1>5. PICK leaves \in BOOLEAN, found \in BOOLEAN : Goes(q, r, leaves, found)
  BY <1>2
<1> QED BY <1>1, <1>2, <1>4, <1>5, GoesKeepsLoops DEF r

LEMMA CallEventKeepsLoops ==
  ASSUME LoopAssumption, DetectorInv, NEW q \in Queries, NEW call \in CallKeys, CallEvent(q, call)
  PROVE  DetectorInv'
<1> DEFINE r == [query[q] EXCEPT !.pending = TRUE]
<1>1. LoopTypeOK /\ query[q] \in Query /\ query[q].at = "turn" /\ loopDetector \in Detector
  BY DEF DetectorInv, LoopTypeOK, Detector, CallEvent, Sending
<1>2. /\ r \in Query /\ r.prompt = query[q].prompt /\ r.frames = query[q].frames
      /\ r.aborted = query[q].aborted /\ [r EXCEPT !.collected = TRUE].aborted = r.aborted
      /\ r.at = "turn" /\ [r EXCEPT !.collected = TRUE] \in Query
      /\ [r EXCEPT !.collected = TRUE].prompt = r.prompt
      /\ [r EXCEPT !.collected = TRUE].frames = r.frames
      /\ [r EXCEPT !.collected = TRUE].at = "turn"
  BY <1>1 DEF Query
<1>3. loopDetector' = addAndCheck(call) /\ loopDetector' \in Detector /\ UNCHANGED hookSaw
      /\ \A p \in Queries : Repeated(handedOut[p], call) \in CallCount
  BY <1>1, AddAndCheckType DEF CallEvent
<1>4. /\ loopDetector'.disabled = loopDetector.disabled
      /\ ~loopDetector.disabled /\ ~loopDetector'.detected =>
           ~loopDetector.detected /\ loopDetector'.calls = Repeated(loopDetector.calls, call)
           /\ loopDetector'.calls.count < TOOL_CALL_LOOP_THRESHOLD
  <2>1. Repeated(loopDetector.calls, call).count \in Nat
    BY <1>1 DEF Repeated, Detector, CallCount
  <2> DEFINE calls == Repeated(loopDetector.calls, call)
             loop == calls.count >= TOOL_CALL_LOOP_THRESHOLD
  <2>2. loopDetector' = IF loopDetector.disabled \/ loopDetector.detected THEN loopDetector
                        ELSE [loopDetector EXCEPT !.calls = calls, !.detected = loop]
    BY <1>3 DEF addAndCheck
  <2>3. loop \in BOOLEAN /\ (~loop => calls.count < TOOL_CALL_LOOP_THRESHOLD)
    BY <2>1 DEF LoopAssumption
  <2> HIDE DEF calls, loop
  <2> QED BY <1>1, <2>2, <2>3 DEF Detector, calls
<1> HIDE DEF r
<1>5. CASE loopDetector'.detected /\ ~loopDetector.disabled
  <2>1. Goes(q, r, FALSE, TRUE)
    BY <1>5 DEF CallEvent, r
  <2>2. DetectorCounts'
    <3>1. UNCHANGED <<lastPromptId, handedOut, overtaken>>
      BY <2>1 DEF Goes, Returns
    <3> QED BY <1>5, <3>1 DEF DetectorInv, DetectorCounts
  <2> QED BY <1>1, <1>2, <1>3, <2>1, <2>2, GoesKeepsLoops DEF Waits
<1>6. CASE ~(loopDetector'.detected /\ ~loopDetector.disabled)
  <2> DEFINE p == query[q].prompt
  <2>1. /\ query' = [query EXCEPT ![q] = [r EXCEPT !.collected = TRUE]]
        /\ handedOut' = IF loopDetector.disabled THEN handedOut
                        ELSE [handedOut EXCEPT ![p] = Repeated(handedOut[p], call)]
        /\ UNCHANGED <<hookStateMap, lastPromptId, loopDialog, overtaken, hookLost>>
    BY <1>2, <1>6 DEF CallEvent, r
  <2>0. p \in Queries /\ ~query[q].aborted
    BY <1>1 DEF DetectorInv, WellFormed, WellFormedQuery, Query, CallEvent
  <2>2. LoopTypeOK'
    <3>1. handedOut' \in [Queries -> CallCount]
      BY <1>1, <1>3, <2>0, <2>1 DEF LoopTypeOK
    <3>2. query' \in [Queries -> Query]
      BY <1>1, <1>2, <2>1 DEF LoopTypeOK
    <3> QED BY <1>1, <1>3, <2>1, <3>1, <3>2 DEF LoopTypeOK, Detector
  <2>a. /\ \A e \in Queries \ {q} : query'[e] = query[e]
        /\ query'[q] = [r EXCEPT !.collected = TRUE]
    BY <1>1, <2>1 DEF LoopTypeOK
  <2>b. /\ query'[q].prompt = query[q].prompt /\ query'[q].frames = query[q].frames
        /\ query'[q].at = "turn" /\ query'[q].aborted = query[q].aborted
    BY <1>2, <2>a
  <2>3. WellFormed'
    <3>3. WellFormedQuery(query[q])
      BY DEF DetectorInv, WellFormed
    <3>4. WellFormedQuery(query'[q])
      BY <1>1, <2>b, <3>3 DEF WellFormedQuery, Waits
    <3> QED BY <2>a, <3>4 DEF DetectorInv, WellFormed, WellFormedQuery
  <2>4. PromptOrder'
    BY <1>1, <2>1, <2>a, <2>b, OrderKept DEF DetectorInv, Waits
  <2>5. p \in {lastPromptId} \cup overtaken /\ (p = lastPromptId \/ lastPromptId \in overtaken)
    BY <1>1, <2>0 DEF DetectorInv, PromptOrder, Waits
  <2>6. ASSUME NEW e \in Queries \ overtaken'
        PROVE  /\ e # lastPromptId' => handedOut'[e] = NoCalls
               /\ e = lastPromptId' /\ ~loopDetector'.detected /\ ~loopDetector'.disabled =>
                    handedOut'[e] = loopDetector'.calls
               /\ handedOut'[e].count < TOOL_CALL_LOOP_THRESHOLD
    <3>1. /\ e \in Queries \ overtaken /\ handedOut[e].count < TOOL_CALL_LOOP_THRESHOLD
          /\ e # lastPromptId => handedOut[e] = NoCalls
          /\ e = lastPromptId /\ ~loopDetector.detected /\ ~loopDetector.disabled =>
               handedOut[e] = loopDetector.calls
      BY <2>1 DEF DetectorInv, DetectorCounts, LoopsFound
    <3>2. CASE loopDetector.disabled
      BY <1>4, <2>1, <3>1, <3>2
    <3>3. CASE ~loopDetector.disabled /\ e # p
      <4>1. handedOut'[e] = handedOut[e]
        BY <2>1, <3>3 DEF DetectorInv, LoopTypeOK
      <4>2. e # lastPromptId
        BY <2>5, <3>1, <3>3
      <4> QED BY <2>1, <3>1, <4>1, <4>2
    <3>4. CASE ~loopDetector.disabled /\ e = p
      <4>1. ~loopDetector.detected /\ loopDetector'.calls = Repeated(loopDetector.calls, call)
            /\ loopDetector'.calls.count < TOOL_CALL_LOOP_THRESHOLD
        BY <1>4, <1>6, <3>4
      <4>2. e = lastPromptId /\ handedOut[e] = loopDetector.calls
        BY <2>5, <3>1, <3>4, <4>1
      <4>3. handedOut'[e] = Repeated(handedOut[e], call)
        BY <1>1, <2>0, <2>1, <3>4 DEF LoopTypeOK
      <4> QED BY <2>1, <4>1, <4>2, <4>3
    <3> QED BY <3>2, <3>3, <3>4
  <2>7. LoopsFound' /\ DetectorCounts'
    BY <2>6 DEF DetectorCounts, LoopsFound
  <2> QED BY <2>2, <2>3, <2>4, <2>7 DEF DetectorInv
<1> QED BY <1>5, <1>6

LEMMA CallingActionsKeepLoops ==
  ASSUME LoopAssumption, DetectorInv, NEW q \in Queries,
         InvalidStream(q) \/ SpeakerIsModel(q) \/ AfterAgentBlocks(q)
  PROVE  DetectorInv'
<1>1. /\ LoopTypeOK /\ query[q] \in Query /\ query \in [Queries -> Query]
      /\ loopDetector \in Detector
      /\ loopDialog' \in {"none", "found", "open"} /\ UNCHANGED <<handedOut, hookSaw>>
      /\ \A e \in Queries : WellFormedQuery(query[e])
  BY DEF DetectorInv, LoopTypeOK, WellFormed, Detector, InvalidStream, SpeakerIsModel, AfterAgentBlocks
<1>2. /\ query[q].at \in Waits /\ query[q].frames[1].left > 0
      /\ \E retry, after \in BOOLEAN :
            sendMessageStream(query, loopDetector, q, nested(q, retry, after))
      /\ hookLost' = hookLost \cup Overtaken(query[q].prompt)
  BY <1>1 DEF InvalidStream, SpeakerIsModel, AfterAgentBlocks, StreamOver, Sending, Waits,
              WellFormedQuery
<1>3. PICK retry, after \in BOOLEAN :
            sendMessageStream(query, loopDetector, q, nested(q, retry, after))
  BY <1>2
<1>4. query[q].frames # <<>> /\ query[q].prompt # 0 /\ query[q].prompt \in Queries
  BY <1>1, <1>2 DEF WellFormedQuery, Waits, Query
<1> DEFINE asked == nested(q, retry, after)
<1>5. asked \in Query /\ asked.prompt = query[q].prompt /\ asked.frames # <<>>
  <2>1. query[q].frames # <<>> /\ query[q].frames[1].left > 0 /\ LoopTypeOK
    BY <1>1, <1>2, <1>4
  <2>2. asked \in Query
    BY <2>1, NestedType
  <2>3. asked.prompt = query[q].prompt /\ asked.frames # <<>>
    BY <2>1, NestedType
  <2> QED BY <2>2, <2>3
<1> HIDE DEF asked
<1>6. sendMessageStream(query, loopDetector, q, asked)
  BY <1>3 DEF asked
<1>7. hookLost' \subseteq hookLost \cup Overtaken(asked.prompt) \cup {asked.prompt}
  BY <1>2, <1>5
<1>8. AskedIn(query, asked, q)
  BY <1>2, <1>5 DEF AskedIn, DetectorInv, PromptOrder, Waits
<1> QED BY <1>1, <1>4, <1>5, <1>6, <1>7, <1>8, SendKeepsLoops

LEMMA AskingActionsKeepLoops ==
  ASSUME LoopAssumption, DetectorInv, NEW q \in Queries, NEW e \in Queries,
         SubmitPrompt(q) \/ ToolsAnswered(q, e) \/ DisableLoops(q, e)
  PROVE  DetectorInv'
<1>1. /\ LoopTypeOK /\ query \in [Queries -> Query] /\ loopDetector \in Detector
      /\ \A f \in Queries : query[f] \in Query /\ WellFormedQuery(query[f])
  BY DEF DetectorInv, LoopTypeOK, WellFormed, Detector
<1>2. CASE SubmitPrompt(q)
  <2>1. /\ AskedCall(q) \in Query /\ AskedCall(q).prompt = q /\ AskedCall(q).frames # <<>>
    <3>1. AskedCall(q) \in Query
      BY AskedCallType
    <3>2. AskedCall(q).prompt = q /\ AskedCall(q).frames # <<>>
      BY AskedCallType
    <3> QED BY <3>1, <3>2
  <2>2. /\ sendMessageStream(query, loopDetector, q, AskedCall(q))
        /\ hookLost' = hookLost \cup Overtaken(q) /\ UNCHANGED <<loopDialog, handedOut, hookSaw>>
    BY <1>2 DEF SubmitPrompt
  <2>3. ASSUME NEW f \in Queries \ {q}, query[f].at \in Waits PROVE query[f].aborted
    <3>0. f \in Nat /\ q \in Nat /\ f # q
      BY DEF LoopAssumption
    <3>1. f < q \/ f > q
      BY <3>0
    <3>2. CASE f < q
      BY <1>2, <2>3, <3>2 DEF SubmitPrompt, Waits, Ends
    <3>3. CASE f > q
      BY <1>2, <2>3, <3>3 DEF SubmitPrompt, NextNew, DetectorInv, PromptOrder, Waits
    <3> QED BY <3>1, <3>2, <3>3
  <2>4. AskedIn(query, AskedCall(q), q)
    BY <1>2, <2>3 DEF AskedIn, SubmitPrompt
  <2> QED BY <1>1, <2>1, <2>2, <2>4, SendKeepsLoops DEF LoopTypeOK
<1>3. CASE ToolsAnswered(q, e)
  <2> DEFINE p == query[q].prompt
             queries == [query EXCEPT ![q].at = "done"]
  <2>1. p \in Queries
    BY <1>1, <1>3 DEF ToolsAnswered, WellFormedQuery, Query
  <2>2. /\ AskedCall(p) \in Query /\ AskedCall(p).prompt = p /\ AskedCall(p).frames # <<>>
    BY <2>1, AskedCallType
  <2>3. /\ sendMessageStream(queries, loopDetector, e, AskedCall(p))
        /\ hookLost' = hookLost \cup Overtaken(p) /\ UNCHANGED <<loopDialog, handedOut, hookSaw>>
    BY <1>3 DEF ToolsAnswered
  <2> DEFINE done == [query[q] EXCEPT !.at = "done"]
  <2>a. done \in Query /\ done.at = "done" /\ done.prompt = query[q].prompt
    BY <1>1 DEF Query, Ends
  <2>b. queries = [query EXCEPT ![q] = done]
    OBVIOUS
  <2> HIDE DEF done, queries
  <2>c. queries \in [Queries -> Query] /\ \A f \in Queries : queries[f] = IF f = q THEN done ELSE query[f]
    BY <1>1, <2>a, <2>b
  <2>4. queries \in [Queries -> Query] /\ \A f \in Queries : WellFormedQuery(queries[f])
    <3>1. WellFormedQuery(done)
      BY <2>1, <2>a DEF WellFormedQuery, Waits, LoopAssumption
    <3> QED BY <1>1, <2>c, <3>1
  <2>5. AskedIn(queries, AskedCall(p), e)
    <3>3. query[q].at = "tools" /\ NextNew(e)
      BY <1>3 DEF ToolsAnswered
    <3>4. p \in {lastPromptId} \cup overtaken
      BY <3>3 DEF DetectorInv, PromptOrder
    <3> QED BY <2>2, <2>a, <2>c, <3>3, <3>4 DEF AskedIn, Waits
  <2> QED BY <1>1, <2>1, <2>2, <2>3, <2>4, <2>5, SendKeepsLoops DEF LoopTypeOK
<1>4. CASE DisableLoops(q, e)
  <2> DEFINE p == query[q].prompt
             detector == [loopDetector EXCEPT !.disabled = TRUE]
  <2>1. p \in Queries
    BY <1>1, <1>4 DEF DisableLoops, Latest, WellFormedQuery, Query
  <2>2. /\ AskedCall(p) \in Query /\ AskedCall(p).prompt = p /\ AskedCall(p).frames # <<>>
    BY <2>1, AskedCallType
  <2>3. /\ sendMessageStream(query, detector, e, AskedCall(p))
        /\ hookLost' = hookLost \cup Overtaken(p) \cup {p} /\ UNCHANGED <<handedOut, hookSaw>>
        /\ loopDialog' = "none"
    BY <1>4 DEF DisableLoops
  <2>4. detector \in Detector /\ detector.disabled
    BY <1>1 DEF Detector
  <2>5. AskedIn(query, AskedCall(p), e)
    BY <1>4, <2>2 DEF AskedIn, DisableLoops, Latest, DetectorInv, PromptOrder
  <2> HIDE DEF detector
  <2> QED BY <1>1, <2>1, <2>2, <2>3, <2>4, <2>5, SendKeepsLoops
<1> QED BY <1>2, <1>3, <1>4

\* The actions that leave the detector alone and call nothing.
LEMMA OtherActionsKeepLoops ==
  ASSUME LoopAssumption, DetectorInv, NEW q \in Queries,
         \/ BeforeAgentPasses(q) \/ (BeforeAgentStops(q) /\ Len(query[q].frames) = 1)
         \/ AskNextSpeaker(q) \/ CancelQuery(q) \/ ToolsDropped(q) \/ Throws(q)
  PROVE  DetectorInv'
<1>1. /\ query \in [Queries -> Query] /\ hookStateMap \in [Queries -> HookState]
      /\ query[q] \in Query /\ WellFormedQuery(query[q])
      /\ hookSaw \subseteq Queries /\ hookLost \subseteq Queries
  BY DEF DetectorInv, LoopTypeOK, WellFormed
<1>2. query[q].at # "new"
  BY DEF BeforeAgentPasses, BeforeAgentStops, AskNextSpeaker, StreamOver, Sending, CancelQuery,
         Latest, ToolsDropped, Throws
<1>3. query[q].prompt \in Queries
  BY <1>1, <1>2 DEF WellFormedQuery, Query
<1>4. UNCHANGED <<lastPromptId, loopDetector, handedOut, overtaken>>
      /\ loopDialog' \in {"none", "found", "open"}
  BY DEF BeforeAgentPasses, BeforeAgentStops, AskNextSpeaker, CancelQuery, ToolsDropped, Throws,
         detectorVars, DetectorInv, LoopTypeOK
<1>5. /\ hookStateMap' \in [Queries -> HookState] /\ hookSaw' \subseteq Queries
      /\ hookLost' \subseteq Queries
  <2>1. CASE BeforeAgentPasses(q) \/ (BeforeAgentStops(q) /\ Len(query[q].frames) = 1)
    <3> DEFINE p == query[q].prompt
               o == [hookStateMap[p] EXCEPT !.fired = hookStateMap[p].there]
    <3>1. hookStateMap' = [hookStateMap EXCEPT ![p] = o] /\ hookSaw' = hookSaw \cup {p}
          /\ UNCHANGED hookLost
      BY <2>1 DEF BeforeAgentPasses, BeforeAgentStops
    <3>2. o \in HookState
      BY <1>1, <1>3 DEF HookState
    <3> HIDE DEF o
    <3> QED BY <1>1, <1>3, <3>1, <3>2
  <2>2. CASE Throws(q)
    <3> DEFINE p == query[q].prompt
    <3>1. hookStateMap' = [hookStateMap EXCEPT ![p] =
              countedDown(hookStateMap[p], Len(query[q].frames), FALSE)]
      BY <2>2 DEF Throws
    <3>3. Len(query[q].frames) \in Nat /\ hookStateMap[p] \in HookState
      BY <1>1, <1>3 DEF Query
    <3>2. countedDown(hookStateMap[p], Len(query[q].frames), FALSE) \in HookState
      BY <3>3, CountedDownType, ZenonT(30)
    <3>4. UNCHANGED <<hookSaw, hookLost>>
      BY <2>2 DEF Throws
    <3> QED BY <1>1, <1>3, <3>1, <3>2, <3>4
  <2>3. CASE UNCHANGED hookVars
    BY <2>3 DEF hookVars, DetectorInv, LoopTypeOK
  <2> QED BY <2>1, <2>2, <2>3 DEF AskNextSpeaker, CancelQuery, ToolsDropped
<1>6. \E r \in Query : /\ query' = [query EXCEPT ![q] = r] /\ WellFormedQuery(r)
                       /\ r.prompt = query[q].prompt
                       /\ r.at \in Waits /\ ~r.aborted => query[q].at \in Waits /\ ~query[q].aborted
  <2>0. CASE BeforeAgentPasses(q)
    <3>0. query[q].frames # <<>> /\ query[q].prompt # 0 /\ query[q].at \in Waits
      BY <1>1, <1>3, <2>0 DEF WellFormedQuery, BeforeAgentPasses, Waits
    <3>1. /\ turnBegun(query[q]) \in Query /\ turnBegun(query[q]).at = "turn"
          /\ turnBegun(query[q]).prompt = query[q].prompt
          /\ turnBegun(query[q]).frames = query[q].frames
          /\ turnBegun(query[q]).aborted = query[q].aborted
      BY <1>1, <3>0, TurnBegunType
    <3>2. WellFormedQuery(turnBegun(query[q]))
      BY <3>0, <3>1 DEF WellFormedQuery
    <3> QED BY <1>1, <2>0, <3>0, <3>1, <3>2 DEF BeforeAgentPasses
  <2>1. CASE BeforeAgentStops(q) /\ Len(query[q].frames) = 1
    <3>1. /\ over(query[q], "cutOff") \in Query /\ WellFormedQuery(over(query[q], "cutOff"))
          /\ over(query[q], "cutOff").prompt = query[q].prompt
          /\ over(query[q], "cutOff").at = "cutOff"
      BY <1>1, <1>3, OverType DEF Ends, LoopAssumption
    <3>2. query' = [query EXCEPT ![q] = over(query[q], "cutOff")]
      BY <2>1 DEF BeforeAgentStops
    <3> QED BY <3>1, <3>2 DEF Waits
  <2>2. CASE AskNextSpeaker(q)
    <3> DEFINE r == [query[q] EXCEPT !.at = "speaker"]
    <3>1. r \in Query /\ query' = [query EXCEPT ![q] = r]
      BY <1>1, <2>2 DEF AskNextSpeaker, Query, Waits
    <3>2. r.at = "speaker" /\ r.prompt = query[q].prompt /\ r.frames = query[q].frames
          /\ r.aborted = query[q].aborted
      BY <1>1 DEF Query
    <3>3. query[q].at = "turn" /\ query[q].frames[1].left > 0
      BY <2>2 DEF AskNextSpeaker, StreamOver, Sending
    <3> HIDE DEF r
    <3>4. WellFormedQuery(r)
      BY <1>1, <3>2, <3>3 DEF WellFormedQuery, Waits
    <3> QED BY <3>1, <3>2, <3>3, <3>4 DEF Waits
  <2>3. CASE CancelQuery(q)
    <3> DEFINE r == [query[q] EXCEPT !.aborted = TRUE]
    <3>1. r \in Query /\ query' = [query EXCEPT ![q] = r] /\ WellFormedQuery(r)
          /\ r.prompt = query[q].prompt /\ r.aborted
      BY <1>1, <2>3 DEF CancelQuery, Query, WellFormedQuery
    <3> HIDE DEF r
    <3> QED BY <3>1
  <2>4. CASE ToolsDropped(q)
    <3> DEFINE r == [query[q] EXCEPT !.at = "done"]
    <3>1. r \in Query /\ query' = [query EXCEPT ![q] = r] /\ WellFormedQuery(r)
      BY <1>1, <1>2, <2>4 DEF ToolsDropped, Query, WellFormedQuery, Waits, Ends
    <3>2. r.prompt = query[q].prompt /\ r.at \notin Waits
      BY <1>1 DEF Query, Waits
    <3> HIDE DEF r
    <3> QED BY <3>1, <3>2
  <2>5. CASE Throws(q)
    <3> DEFINE s == [query[q] EXCEPT !.pending = FALSE]
    <3>1. s \in Query /\ s.prompt = query[q].prompt
          /\ query' = [query EXCEPT ![q] = over(s, "cutOff")]
      BY <1>1, <2>5 DEF Throws, Query
    <3> HIDE DEF s
    <3>2. /\ over(s, "cutOff") \in Query /\ WellFormedQuery(over(s, "cutOff"))
          /\ over(s, "cutOff").prompt = s.prompt /\ over(s, "cutOff").at = "cutOff"
      BY <1>3, <3>1, OverType DEF Ends, LoopAssumption
    <3> QED BY <3>1, <3>2 DEF Waits
  <2> QED BY <2>0, <2>1, <2>2, <2>3, <2>4, <2>5
<1>7. PICK r \in Query : /\ query' = [query EXCEPT ![q] = r] /\ WellFormedQuery(r)
                         /\ r.prompt = query[q].prompt
                         /\ r.at \in Waits /\ ~r.aborted => query[q].at \in Waits /\ ~query[q].aborted
  BY <1>6
<1>8. query' \in [Queries -> Query] /\ query'[q] = r /\ \A e \in Queries \ {q} : query'[e] = query[e]
  <2>1. query' = [query EXCEPT ![q] = r]
    BY <1>7
  <2> QED BY <1>1, <2>1
<1>9. WellFormed'
  BY <1>7, <1>8 DEF DetectorInv, WellFormed, WellFormedQuery
<1>10. PromptOrder'
  <2>1. query'[q].at # "new"
    BY <1>3, <1>7, <1>8 DEF WellFormedQuery, LoopAssumption
  <2> QED BY <1>2, <1>4, <1>7, <1>8, <2>1, OrderKept DEF DetectorInv
<1>11. LoopTypeOK'
  BY <1>4, <1>5, <1>8 DEF DetectorInv, LoopTypeOK
<1>12. DetectorCounts' /\ LoopsFound'
  BY <1>4 DEF DetectorInv, DetectorCounts, LoopsFound
<1> QED BY <1>9, <1>10, <1>11, <1>12 DEF DetectorInv

\* A call inside another that the BeforeAgent hook stops: the others return.
LEMMA StoppedInside ==
  ASSUME LoopAssumption, DetectorInv, NEW q \in Queries, BeforeAgentStops(q),
         Len(query[q].frames) # 1
  PROVE  DetectorInv'
<1> DEFINE f == query[q].frames
           r == [query[q] EXCEPT !.frames = Tail(@)]
           o == [hookStateMap[query[q].prompt] EXCEPT !.fired = hookStateMap[query[q].prompt].there]
<1>1. /\ query[q] \in Query /\ query[q].at = "beforeAgent" /\ query[q].prompt \in Queries
      /\ hookStateMap \in [Queries -> HookState] /\ f # <<>> /\ f \in Seq(Frame)
  BY DEF DetectorInv, LoopTypeOK, WellFormed, WellFormedQuery, Waits, Query, BeforeAgentStops
<1>2. Returns(q, [query[q] EXCEPT !.frames = Tail(@)], o, f[1].after, FALSE)
  BY DEF BeforeAgentStops
<1>3. Tail(f) \in Seq(Frame) /\ Tail(f) # <<>> /\ f[1] \in Frame
  <2>1. PICK t : t = f /\ t \in Seq(Frame) /\ t # <<>> /\ Len(t) # 1
    BY <1>1
  <2>2. Tail(t) \in Seq(Frame) /\ Tail(t) # <<>> /\ t[1] \in Frame
    BY <2>1, TailLeft
  <2> QED BY <2>1, <2>2
<1>4. f[1].after \in BOOLEAN
  BY <1>3 DEF Frame
<1>5. r \in Query /\ r.prompt = query[q].prompt /\ r.aborted = query[q].aborted /\ r.frames = Tail(f)
  <2> DEFINE t == Tail(f)
  <2>1. r = [query[q] EXCEPT !.frames = t] /\ t \in Seq(Frame)
    BY <1>3
  <2> HIDE DEF t
  <2>2. r \in Query /\ r.prompt = query[q].prompt /\ r.aborted = query[q].aborted /\ r.frames = t
    BY <1>1, <2>1 DEF Query
  <2> QED BY <2>2 DEF t
<1>6. o \in HookState
  BY <1>1 DEF HookState
<1>7. UNCHANGED <<loopDetector, lastPromptId, handedOut, overtaken>> /\ hookSaw' \subseteq Queries
  BY <1>1, <1>2 DEF BeforeAgentStops, Returns, DetectorInv, LoopTypeOK
<1>8. loopDetector' \in Detector /\ DetectorCounts'
  BY <1>7 DEF DetectorInv, LoopTypeOK, Detector, DetectorCounts
<1>9. Returns(q, r, o, f[1].after, FALSE)
  BY <1>2
<1> HIDE DEF r, o
<1>10. PICK after \in BOOLEAN : after = f[1].after
  BY <1>4
<1> QED BY <1>1, <1>3, <1>5, <1>6, <1>7, <1>8, <1>9, <1>10, ReturnsKeepLoops DEF Waits

LEMMA LoopsInitially == ASSUME LoopAssumption, LoopInit PROVE DetectorInv
<1>1. NewQuery \in Query /\ WellFormedQuery(NewQuery)
  BY DEF NewQuery, Query, WellFormedQuery, Waits
<1>2. NoHookState \in HookState /\ NoLoop \in Detector /\ NoCalls \in CallCount
      /\ NoLoop.calls = NoCalls /\ NoCalls.count = 0
  BY DEF NoHookState, HookState, NoLoop, NoCalls, Detector, CallCount
<1> QED BY <1>1, <1>2 DEF LoopInit, DetectorInv, LoopTypeOK, Detector, WellFormed, PromptOrder,
                          DetectorCounts, LoopsFound, Waits, NewQuery, LoopAssumption

LEMMA LoopsStep == ASSUME LoopAssumption, DetectorInv, [LoopNext]_loopVars PROVE DetectorInv'
<1>1. CASE UNCHANGED loopVars
  BY <1>1 DEF loopVars, hookVars, detectorVars, DetectorInv, LoopTypeOK, WellFormed, WellFormedQuery,
              PromptOrder, DetectorCounts, LoopsFound
<1>2. ASSUME NEW q \in Queries,
             \/ \E found \in BOOLEAN : TurnNotSent(q, found)
             \/ LoopEvent(q) \/ TurnReturns(q) \/ SpeakerIsUser(q) \/ AfterAgentPasses(q)
      PROVE  DetectorInv'
  BY <1>2, GoingActionsKeepLoops
<1>3. ASSUME NEW q \in Queries, \E call \in CallKeys : CallEvent(q, call)
      PROVE  DetectorInv'
  BY <1>3, CallEventKeepsLoops
<1>4. ASSUME NEW q \in Queries, InvalidStream(q) \/ SpeakerIsModel(q) \/ AfterAgentBlocks(q)
      PROVE  DetectorInv'
  BY <1>4, CallingActionsKeepLoops
<1>5. ASSUME NEW q \in Queries, NEW e \in Queries,
             SubmitPrompt(q) \/ ToolsAnswered(q, e) \/ DisableLoops(q, e)
      PROVE  DetectorInv'
  BY <1>5, AskingActionsKeepLoops
<1>6. ASSUME NEW q \in Queries,
             \/ BeforeAgentPasses(q) \/ (BeforeAgentStops(q) /\ Len(query[q].frames) = 1)
             \/ AskNextSpeaker(q) \/ CancelQuery(q) \/ ToolsDropped(q) \/ Throws(q)
      PROVE  DetectorInv'
  BY <1>6, OtherActionsKeepLoops
<1>7. ASSUME NEW q \in Queries, BeforeAgentStops(q), Len(query[q].frames) # 1
      PROVE  DetectorInv'
  BY <1>7, StoppedInside
<1> QED BY <1>1, <1>2, <1>3, <1>4, <1>5, <1>6, <1>7 DEF LoopNext

\* The state of the agentic loop is well formed for any number of queries and
\* turns, whatever the hooks, the streams and the model answer.
THEOREM LoopTypeCorrect == LoopSpec => []LoopTypeOK
<1>1. LoopAssumption
  BY LoopAssumption
<1>2. LoopInit => DetectorInv
  BY <1>1, LoopsInitially
<1>3. DetectorInv /\ [LoopNext]_loopVars => DetectorInv'
  BY <1>1, LoopsStep
<1>4. DetectorInv => LoopTypeOK
  BY DEF DetectorInv
<1> QED BY <1>2, <1>3, <1>4, PTL DEF LoopSpec

\* For every threshold: a prompt is never given as many identical calls in a row
\* (loopDetectionService.ts:201), through all its recursive calls, its queries
\* and what cancelled queries of other prompts still do, unless another prompt
\* took its place as the last one.
THEOREM LoopsAreFound == LoopSpec => []LoopsFound
<1>1. LoopAssumption
  BY LoopAssumption
<1>2. LoopInit => DetectorInv
  BY <1>1, LoopsInitially
<1>3. DetectorInv /\ [LoopNext]_loopVars => DetectorInv'
  BY <1>1, LoopsStep
<1>4. DetectorInv => LoopsFound
  BY DEF DetectorInv
<1> QED BY <1>2, <1>3, <1>4, PTL DEF LoopSpec

------------------------------------------------------------------------------
(* The hooks and the budget of turns *)

(* The second layer, which is the whole invariant.                         *)
LoopInv == DetectorInv /\ HookInv

\* Calls that return up to the next wait keep the count, and the AfterAgent hook
\* saw the query if it ends without tools.
LEMMA UnwoundCounts ==
  ASSUME LoopAssumption, NEW r \in Query, r.prompt # 0, r.frames # <<>>, r.at \in Waits,
         NEW o \in HookState, o.there, o.fired, o.active = Len(r.frames), Stacked(r),
         NEW leaves \in BOOLEAN, leaves <=> r.at = "afterAgent",
         leaves => Len(r.frames) = 1 /\ ~r.pending,
         NEW u, u = unwound(r, o, leaves)
  PROVE  /\ \/ u.query.at = "tools" /\ ~u.query.pending
            \/ CountedQuery(u.query, u.hookState, r.prompt \in hookSaw)
         /\ u.query.at \in {"tools", "done"} =>
              ((leaves \/ \E i \in DOMAIN r.frames : r.frames[i].after) <=> ~u.query.pending)
<1> DEFINE depth == Len(r.frames)
<1>1. /\ depth \in Nat \ {0} /\ r.frames \in Seq(Frame) /\ DOMAIN r.frames = 1 .. depth
      /\ \A i \in 1 .. depth : r.frames[i] \in Frame
      /\ r.pending \in BOOLEAN /\ r.turns \in Nat /\ MAX_TURNS \in Nat \ {0}
  BY DEF Query, LoopAssumption
<1>2. /\ u.query \in Query /\ u.hookState \in HookState /\ WellFormedQuery(u.query)
      /\ u.query.prompt = r.prompt
      /\ u.query.at \in {"afterAgent", "tools", "done"}
      /\ u.query.at = "afterAgent" =>
           /\ FiresAfterAgent(r, o, leaves) /\ ~u.query.pending /\ u.query.turns = r.turns
           /\ u.hookState = [o EXCEPT !.active = 1]
           /\ u.query.frames = SubSeq(r.frames, o.active, depth)
      /\ u.query.at # "afterAgent" =>
           /\ ~FiresAfterAgent(r, o, leaves) /\ u.query.turns = 0
           /\ u.query.pending = pendingBehind(r, depth)
           /\ u.hookState = countedDown(o, depth, pendingBehind(r, depth - 1) /\ ~r.aborted)
      /\ u.query.at = "tools" => ~r.aborted
  BY UnwoundType, ZenonT(60)
<1>3. inner(o) = depth - 1 /\ inner(o) \in 0 .. depth - 1
  BY <1>1 DEF inner
<1>4. /\ \A i \in 1 .. depth : r.frames[i].left = MAX_TURNS - depth + i
      /\ \A i \in 1 .. depth : r.frames[i].after => i = depth - 1
      /\ ~(depth > 1 /\ r.frames[depth - 1].after) => r.turns <= MAX_TURNS
  BY DEF Stacked
<1> HIDE DEF depth
<1>5. CASE u.query.at = "afterAgent"
  <2>1. ~(depth > 1 /\ r.frames[depth - 1].after)
    BY <1>1, <1>2, <1>3, <1>5 DEF FiresAfterAgent
  <2>2. u.query.frames = SubSeq(r.frames, depth, depth)
    BY <1>2, <1>5 DEF depth
  <2>3. /\ Len(u.query.frames) = 1 /\ u.query.frames[1] = r.frames[depth]
    BY <1>1, <2>2, SubSeqProperties
  <2>4. u.query.frames[1].left = MAX_TURNS /\ ~u.query.frames[1].after
    BY <1>1, <1>4, <2>3
  <2>5. u.query.turns <= MAX_TURNS
    BY <1>2, <1>4, <1>5, <2>1
  <2>6. Stacked(u.query)
    BY <1>1, <1>5, <2>3, <2>4, <2>5 DEF Stacked
  <2>7. u.hookState.there /\ u.hookState.fired /\ u.hookState.active = 1
    BY <1>2, <1>5 DEF HookState
  <2> QED BY <1>2, <1>5, <2>3, <2>6, <2>7 DEF CountedQuery, Waits, Live
<1>6. CASE u.query.at # "afterAgent"
  <2>1. /\ pendingBehind(r, depth) <=> r.pending /\ \A i \in 1 .. depth : ~r.frames[i].after
        /\ pendingBehind(r, depth - 1) <=> r.pending /\ \A i \in 1 .. depth - 1 : ~r.frames[i].after
    BY DEF pendingBehind
  <2>2. ~FiresAfterAgent(r, o, leaves)
    BY <1>2, <1>6
  <2>3. pendingBehind(r, depth - 1) \/ IF depth = 1 THEN leaves ELSE r.frames[depth - 1].after
    BY <1>1, <1>3, <2>2 DEF FiresAfterAgent
  <2>4. pendingBehind(r, depth) => pendingBehind(r, depth - 1)
    BY <1>1, <2>1
  <2>5. CountedQuery(u.query, u.hookState, r.prompt \in hookSaw) \/ (u.query.at = "tools" /\ ~u.query.pending)
    <3>1. CASE u.query.at = "done"
      BY <1>2, <1>6, <3>1 DEF CountedQuery, Waits, Live
    <3>2. CASE u.query.at = "tools" /\ u.query.pending
      <4>1. pendingBehind(r, depth - 1) /\ ~r.aborted
        BY <1>2, <1>6, <2>4, <3>2
      <4>2. u.hookState.there /\ u.hookState.fired /\ u.hookState.active = 0
        <5>1. u.hookState = countedDown(o, depth, TRUE)
          BY <1>2, <1>6, <4>1
        <5>2. o.active = depth /\ depth \in Nat
          BY <1>1 DEF depth
        <5>3. /\ countedDown(o, depth, TRUE).there
              /\ countedDown(o, depth, TRUE).fired
              /\ countedDown(o, depth, TRUE).active = 0
          BY <5>2 DEF countedDown, HookState
        <5> QED BY <5>1, <5>3
      <4> QED BY <1>2, <1>6, <3>2, <4>2 DEF CountedQuery, Waits, Live
    <3> QED BY <1>2, <1>6, <3>1, <3>2
  <2>6. (leaves \/ \E i \in DOMAIN r.frames : r.frames[i].after) <=> ~u.query.pending
    <3>1. CASE leaves
      BY <1>2, <1>6, <2>1, <3>1
    <3>2. CASE ~leaves
      <4>1. CASE depth > 1 /\ r.frames[depth - 1].after
        <5>1. depth - 1 \in 1 .. depth /\ ~pendingBehind(r, depth)
          BY <1>1, <2>1, <4>1
        <5> QED BY <1>1, <1>2, <1>6, <4>1, <5>1
      <4>2. CASE ~(depth > 1 /\ r.frames[depth - 1].after)
        <5>1. \A i \in 1 .. depth : ~r.frames[i].after
          BY <1>1, <1>4, <4>2
        <5>2. pendingBehind(r, depth - 1)
          BY <1>1, <2>3, <3>2, <4>2
        <5>3. pendingBehind(r, depth)
          BY <2>1, <5>1, <5>2
        <5> QED BY <1>1, <1>2, <1>6, <3>2, <5>1, <5>3
      <4> QED BY <4>1, <4>2
    <3> QED BY <3>1, <3>2
  <2> QED BY <2>5, <2>6
<1> QED BY <1>5, <1>6

LEMMA SendKeepsHooks ==
  ASSUME LoopAssumption, LoopInv, NEW z \in Queries,
         NEW queries \in [Queries -> Query],
         \A e \in Queries : \/ queries[e] = query[e]
                            \/ query[e].at = "tools" /\ queries[e] = [query[e] EXCEPT !.at = "done"],
         NEW detector \in Detector, NEW asked \in Query, NEW p \in Queries, asked.prompt = p,
         asked.frames # <<>>, sendMessageStream(queries, detector, z, asked),
         hookLost \cup Overtaken(p) \subseteq hookLost', UNCHANGED hookSaw,
         \A e \in Queries \ {z} : query[e].at = "new" => e # p,
         p \notin hookLost' =>
             /\ \A e \in Queries \ {z} : queries[e].prompt = p => queries[e].at \notin Live
             /\ CountedQuery(query'[z], hookStateMap'[p], p \in hookSaw),
         query[z].at # "beforeAgent"
  PROVE  HookInv' /\ HookStep
<1>1. /\ LoopTypeOK /\ WellFormed /\ NewUnused /\ OnlyLastKept /\ HooksCounted
      /\ 0 \notin Queries /\ hookLost \subseteq Queries /\ lastPromptId \in Queries \cup {0}
  BY DEF LoopInv, DetectorInv, HookInv, LoopAssumption, LoopTypeOK
<1>2. /\ query' \in [Queries -> Query] /\ hookStateMap' \in [Queries -> HookState]
      /\ lastPromptId' = p
      /\ \A e \in Queries \ {z} : query'[e] = queries[e]
      /\ query'[z].prompt = p /\ query'[z].at \in {"turn", "beforeAgent"}
      /\ \A o \in Queries \ {p, lastPromptId} : hookStateMap'[o] = hookStateMap[o]
  BY <1>1, SendResult
<1>3. \A e \in Queries :
        /\ query[e] \in Query /\ queries[e].prompt = query[e].prompt
        /\ queries[e].turns = query[e].turns
        /\ queries[e].at = "new" <=> query[e].at = "new"
        /\ queries[e].at \in Waits <=> query[e].at \in Waits
        /\ queries[e].at \in Live => queries[e] = query[e]
  BY <1>1 DEF LoopTypeOK, Query, Waits, Live
<1>4. NewUnused'
  <2> SUFFICES ASSUME NEW e \in Queries, query'[e].at = "new"
               PROVE  /\ p # e /\ hookStateMap'[e] = NoHookState /\ e \notin hookSaw
                      /\ \A f \in Queries : query'[f].prompt # e
    BY <1>2 DEF NewUnused
  <2>1. e # z /\ query[e].at = "new" /\ e # p
    BY <1>2, <1>3
  <2>2. lastPromptId # e /\ hookStateMap[e] = NoHookState /\ e \notin hookSaw
        /\ \A f \in Queries : query[f].prompt # e
    BY <1>1, <2>1 DEF NewUnused
  <2> QED BY <1>2, <1>3, <2>1, <2>2
<1>5. \A e \in Queries \ {z} : query'[e].prompt \notin hookLost' \cup {0} => query'[e].prompt = p
  <2> SUFFICES ASSUME NEW e \in Queries \ {z}, query'[e].prompt \notin hookLost' \cup {0}
               PROVE  query'[e].prompt = p
    OBVIOUS
  <2>1. query[e].prompt = query'[e].prompt /\ query[e].prompt \notin hookLost \cup {0}
    BY <1>2, <1>3
  <2>2. query[e].prompt = lastPromptId
    BY <1>1, <2>1 DEF OnlyLastKept
  <2>3. lastPromptId = p
    BY <1>1, <2>1, <2>2 DEF Overtaken
  <2> QED BY <2>1, <2>2, <2>3
<1>6. OnlyLastKept'
  <2>1. \A e \in Queries : query'[e].prompt \notin hookLost' \cup {0} => query'[e].prompt = lastPromptId'
    BY <1>2, <1>5
  <2>2. ASSUME NEW e \in Queries, NEW f \in Queries,
               query'[e].prompt = query'[f].prompt, query'[e].prompt \notin hookLost',
               query'[e].at \in Live, query'[f].at \in Live
        PROVE  e = f
    <3>1. CASE e = z \/ f = z
      BY <1>2, <2>2, <3>1
    <3>2. CASE e # z /\ f # z
      <4>1. query[e] = query'[e] /\ query[f] = query'[f]
        BY <1>2, <1>3, <2>2, <3>2
      <4> QED BY <1>1, <2>2, <4>1 DEF OnlyLastKept
    <3> QED BY <3>1, <3>2
  <2> QED BY <2>1, <2>2 DEF OnlyLastKept
<1>7. HooksCounted'
  <2> SUFFICES ASSUME NEW e \in Queries, query'[e].prompt \notin hookLost'
               PROVE  CountedQuery(query'[e], hookStateMap'[query'[e].prompt],
                                   query'[e].prompt \in hookSaw)
    BY DEF HooksCounted
  <2>1. CASE e = z
    BY <1>2, <2>1
  <2>2. CASE e # z
    <3>1. query'[e] = queries[e] /\ query[e].prompt \notin hookLost
      BY <1>2, <1>3, <2>2
    <3>2. query'[e].at \notin Live
      <4>1. CASE query'[e].prompt = 0
        BY <1>1, <1>3, <3>1, <4>1 DEF WellFormed, WellFormedQuery, Waits, Live
      <4>2. CASE query'[e].prompt # 0
        <5>1. query'[e].prompt = p
          BY <1>5, <2>2, <4>2
        <5> QED BY <2>2, <3>1, <5>1
      <4> QED BY <4>1, <4>2
    <3>3. query'[e].turns = 0
      <4>1. query[e].at \notin Waits
        BY <1>3, <3>1, <3>2 DEF Live
      <4>2. query[e].turns = 0
        BY <1>1, <3>1, <4>1 DEF HooksCounted, CountedQuery
      <4> QED BY <1>3, <3>1, <4>2
    <3> QED BY <3>2, <3>3 DEF CountedQuery, Live, Waits
  <2> QED BY <2>1, <2>2
<1>8. HookStep
  <2>1. \A e \in Queries : query[e].at = "beforeAgent" => query'[e].at = "beforeAgent"
    BY <1>2, <1>3 DEF Live, Waits
  <2>2. \A e \in Queries : query[e].at \in Waits => query'[e].at \notin {"tools", "done"}
    BY <1>2, <1>3 DEF Live, Waits
  <2> QED BY <2>1, <2>2 DEF HookStep
<1> QED BY <1>4, <1>6, <1>7, <1>8 DEF HookInv

\* A recursive call on top of a counted stack.
LEMMA NestedStacked ==
  ASSUME LoopAssumption, NEW r \in Query, NEW s \in Query, r.frames # <<>>, Stacked(r),
         NEW retry \in BOOLEAN, NEW after \in BOOLEAN,
         r.frames[1].left > 0,
         after => Len(r.frames) = 1, ~after => r.at # "afterAgent",
         Len(s.frames) = Len(r.frames) + 1,
         s.frames[1] = [left |-> r.frames[1].left - 1, retry |-> retry, after |-> after],
         \A i \in 1 .. Len(r.frames) : s.frames[i + 1] = r.frames[i],
         s.at = "turn", s.turns = IF s.frames[1].left > 0 THEN r.turns + 1 ELSE r.turns
  PROVE  Stacked(s)
<1> DEFINE depth == Len(r.frames)
           blocked == depth > 1 /\ r.frames[depth - 1].after
<1>1. /\ depth \in Nat \ {0} /\ r.turns \in Nat /\ s.turns \in Nat /\ MAX_TURNS \in Nat \ {0}
      /\ \A i \in 1 .. depth : r.frames[i].left \in Nat
  <2>1. r.frames \in Seq(Frame) /\ r.turns \in Nat /\ s.turns \in Nat /\ MAX_TURNS \in Nat \ {0}
    BY DEF Query, LoopAssumption
  <2>2. depth \in Nat \ {0} /\ \A i \in 1 .. depth : r.frames[i] \in Frame
    BY <2>1
  <2> HIDE DEF depth
  <2>3. \A i \in 1 .. depth : r.frames[i].left \in Nat
    BY <2>1, <2>2 DEF Frame
  <2> QED BY <2>1, <2>2, <2>3
<1>2. /\ \A i \in 1 .. depth :
            /\ r.frames[i].left = MAX_TURNS - depth + i
            /\ r.frames[i].after => i = depth - 1
      /\ blocked => r.turns < MAX_TURNS + depth /\ r.turns <= 2 * MAX_TURNS - 1
      /\ ~blocked => r.turns <= MAX_TURNS /\ (r.at # "afterAgent" => r.turns <= depth)
  BY DEF Stacked
<1>3. /\ Len(s.frames) = depth + 1
      /\ s.frames[1].left = r.frames[1].left - 1 /\ (s.frames[1].after <=> after)
      /\ \A i \in 1 .. depth : s.frames[i + 1] = r.frames[i]
      /\ after => depth = 1
  OBVIOUS
<1> HIDE DEF depth
<1>4. s.frames[1].left = MAX_TURNS - depth
  <2>1. 1 \in 1 .. depth
    BY <1>1
  <2>2. \A i \in 1 .. depth : r.frames[i].left = MAX_TURNS - depth + i
    BY <1>2
  <2>3. r.frames[1].left = MAX_TURNS - depth + 1
    BY <2>1, <2>2
  <2> QED BY <1>1, <1>3, <2>3
<1>5. \A i \in 1 .. depth + 1 :
        /\ s.frames[i].left = MAX_TURNS - (depth + 1) + i
        /\ s.frames[i].after => i = depth
  <2> TAKE i \in 1 .. depth + 1
  <2>1. CASE i = 1
    BY <1>1, <1>3, <1>4, <2>1
  <2>2. CASE i > 1
    <3>1. i - 1 \in 1 .. depth /\ s.frames[i] = r.frames[i - 1]
      <4>1. i - 1 \in 1 .. depth
        BY <1>1, <2>2
      <4>2. s.frames[(i - 1) + 1] = r.frames[i - 1]
        BY <1>3, <4>1
      <4>3. (i - 1) + 1 = i
        BY <1>1
      <4> QED BY <4>1, <4>2, <4>3
    <3> QED BY <1>1, <1>2, <3>1
  <2> QED BY <1>1, <2>1, <2>2
<1>6. depth + 1 > 1 /\ (s.frames[depth].after <=> after \/ blocked)
  <2>1. CASE depth = 1
    BY <1>3, <2>1
  <2>2. CASE depth > 1
    <3>1. depth - 1 \in 1 .. depth /\ (depth - 1) + 1 = depth
      BY <1>1, <2>2
    <3>2. s.frames[(depth - 1) + 1] = r.frames[depth - 1]
      BY <1>3, <3>1
    <3>3. s.frames[depth] = r.frames[depth - 1]
      BY <3>1, <3>2
    <3> QED BY <1>1, <1>3, <2>2, <3>3
  <2> QED BY <1>1, <2>1, <2>2
<1> DEFINE d == Len(s.frames)
<1>9. d = depth + 1 /\ d - 1 = depth /\ d > 1
  BY <1>1, <1>3
<1>10. Stacked(s) <=>
         /\ \A i \in 1 .. d : s.frames[i].left = MAX_TURNS - d + i /\ (s.frames[i].after => i = d - 1)
         /\ d > 1 /\ s.frames[d - 1].after => s.turns < MAX_TURNS + d /\ s.turns <= 2 * MAX_TURNS - 1
         /\ ~(d > 1 /\ s.frames[d - 1].after) =>
               s.turns <= MAX_TURNS /\ (s.at # "afterAgent" => s.turns <= d)
  BY DEF Stacked
<1> HIDE DEF d, blocked
<1>11. /\ \A i \in 1 .. d : s.frames[i].left = MAX_TURNS - d + i /\ (s.frames[i].after => i = d - 1)
       /\ s.frames[d - 1].after <=> after \/ blocked
  <2>1. s.frames[d - 1].after <=> after \/ blocked
    BY <1>6, <1>9
  <2>2. \A i \in 1 .. d : s.frames[i].left = MAX_TURNS - d + i /\ (s.frames[i].after => i = d - 1)
    <3>1. 1 .. depth + 1 = 1 .. d /\ depth + 1 = d /\ depth = d - 1
      BY <1>1, <1>9
    <3>2. TAKE i \in 1 .. d
    <3>3. s.frames[i].left = MAX_TURNS - (depth + 1) + i /\ (s.frames[i].after => i = depth)
      BY <1>5, <3>1
    <3> QED BY <3>1, <3>3
  <2> QED BY <2>1, <2>2
<1>7. CASE after \/ blocked
  <2>1. s.turns < MAX_TURNS + (depth + 1) /\ s.turns <= 2 * MAX_TURNS - 1
    <3>1. CASE blocked
      BY <1>1, <1>2, <1>4, <3>1
    <3>2. CASE after /\ ~blocked
      BY <1>1, <1>2, <1>3, <1>4, <3>2
    <3> QED BY <1>7, <3>1, <3>2
  <2> QED BY <1>7, <1>9, <1>11, <1>10, <2>1
<1>8. CASE ~(after \/ blocked)
  <2>1. s.turns <= MAX_TURNS /\ s.turns <= depth + 1
    BY <1>1, <1>2, <1>4, <1>8
  <2>2. ~(d > 1 /\ s.frames[d - 1].after)
    BY <1>8, <1>9, <1>11
  <2>3. s.turns <= MAX_TURNS /\ s.turns <= d
    BY <1>9, <2>1
  <2>4. \A i \in 1 .. d : s.frames[i].left = MAX_TURNS - d + i /\ (s.frames[i].after => i = d - 1)
    BY <1>11
  <2> QED BY <1>10, <2>2, <2>3, <2>4, Zenon
<1> QED BY <1>7, <1>8

LEMMA CallingActionsKeepHooks ==
  ASSUME LoopAssumption, LoopInv, NEW q \in Queries,
         InvalidStream(q) \/ SpeakerIsModel(q) \/ AfterAgentBlocks(q)
  PROVE  HookInv' /\ HookStep
<1>0. PICK p : p = query[q].prompt
  OBVIOUS
<1>1. /\ LoopTypeOK /\ query[q] \in Query /\ query \in [Queries -> Query]
      /\ loopDetector \in Detector /\ hookStateMap \in [Queries -> HookState]
      /\ WellFormedQuery(query[q]) /\ NewUnused /\ OnlyLastKept /\ HooksCounted
  BY DEF LoopInv, DetectorInv, HookInv, LoopTypeOK, WellFormed, Detector
<1>2. /\ query[q].at \in {"turn", "speaker", "afterAgent"} /\ query[q].frames[1].left > 0
      /\ UNCHANGED hookSaw /\ hookLost' = hookLost \cup Overtaken(p)
      /\ \E retry, after \in BOOLEAN :
            /\ sendMessageStream(query, loopDetector, q, nested(q, retry, after))
            /\ after <=> query[q].at = "afterAgent"
  BY <1>0, <1>1 DEF InvalidStream, SpeakerIsModel, AfterAgentBlocks, StreamOver, Sending, Waits,
              WellFormedQuery
<1>3. PICK retry, after \in BOOLEAN :
            /\ sendMessageStream(query, loopDetector, q, nested(q, retry, after))
            /\ after <=> query[q].at = "afterAgent"
  BY <1>2
<1>4. query[q].frames # <<>> /\ p # 0 /\ p \in Queries
  BY <1>0, <1>1, <1>2 DEF WellFormedQuery, Waits, Query
<1> DEFINE asked == nested(q, retry, after)
<1>5. /\ asked \in Query /\ asked.prompt = p /\ asked.frames # <<>>
      /\ asked.turns = query[q].turns /\ Len(asked.frames) = Len(query[q].frames) + 1
      /\ asked.frames[1] = [left |-> query[q].frames[1].left - 1, retry |-> retry, after |-> after]
      /\ \A i \in 1 .. Len(query[q].frames) : asked.frames[i + 1] = query[q].frames[i]
  <2>1. query[q].frames # <<>> /\ query[q].frames[1].left > 0 /\ LoopTypeOK
    BY <1>1, <1>2, <1>4
  <2>2. /\ asked \in Query /\ asked.prompt = query[q].prompt /\ asked.frames # <<>>
        /\ asked.turns = query[q].turns /\ Len(asked.frames) = Len(query[q].frames) + 1
    BY <2>1, NestedType
  <2>3. asked.frames[1] = [left |-> query[q].frames[1].left - 1, retry |-> retry, after |-> after]
    BY <2>1, NestedType
  <2>4. \A i \in 1 .. Len(query[q].frames) : asked.frames[i + 1] = query[q].frames[i]
    BY <2>1, NestedType
  <2> QED BY <1>0, <2>2, <2>3, <2>4
<1> HIDE DEF asked
<1>6. sendMessageStream(query, loopDetector, q, asked)
  BY <1>3 DEF asked
<1>7. ASSUME p \notin hookLost'
      PROVE  /\ \A e \in Queries \ {q} : query[e].prompt = p => query[e].at \notin Live
             /\ CountedQuery(query'[q], hookStateMap'[p], p \in hookSaw)
  <2>1. p \notin hookLost /\ query[q].at \in Live
    BY <1>2, <1>7 DEF Live, Waits
  <2>2. \A e \in Queries \ {q} : query[e].prompt = p => query[e].at \notin Live
    BY <1>0, <1>1, <2>1 DEF OnlyLastKept
  <2>3. CountedQuery(query[q], hookStateMap[p], p \in hookSaw)
    BY <1>0, <1>1, <2>1 DEF HooksCounted
  <2>4. /\ hookStateMap[p].there /\ hookStateMap[p].fired
        /\ hookStateMap[p].active = Len(query[q].frames) /\ Stacked(query[q])
        /\ query[q].at = "afterAgent" => Len(query[q].frames) = 1
    BY <1>2, <2>3 DEF CountedQuery, Live, Waits
  <2>5. /\ query' \in [Queries -> Query]
        /\ query'[q].frames = asked.frames /\ query'[q].at = "turn"
        /\ query'[q].turns = IF asked.frames[1].left > 0 THEN asked.turns + 1 ELSE asked.turns
        /\ hookStateMap'[p].there /\ hookStateMap'[p].fired = hookStateMap[p].fired
        /\ hookStateMap'[p].active = hookStateMap[p].active + 1
    <3>1. asked.prompt \in Queries /\ hookStateMap[asked.prompt].fired
      BY <1>4, <1>5, <2>4
    <3>2. query' \in [Queries -> Query] /\ query'[q].frames = asked.frames
      BY <1>1, <1>5, <1>6, <3>1, SendResult
    <3>3. /\ query'[q].at = "turn"
          /\ query'[q].turns = IF asked.frames[1].left > 0 THEN asked.turns + 1 ELSE asked.turns
      BY <1>1, <1>5, <1>6, <3>1, SendResult
    <3>4. /\ hookStateMap'[asked.prompt].there
          /\ hookStateMap'[asked.prompt].fired = hookStateMap[asked.prompt].fired
          /\ hookStateMap'[asked.prompt].active = hookStateMap[asked.prompt].active + 1
      BY <1>1, <1>5, <1>6, <3>1, SendResult
    <3> QED BY <1>5, <3>2, <3>3, <3>4
  <2>6. Stacked(query'[q])
    <3>1. PICK r \in Query : r = query[q]
      BY <1>1
    <3>2. PICK s \in Query : s = query'[q]
      BY <2>5
    <3>3. /\ r.frames # <<>> /\ Stacked(r) /\ r.frames[1].left > 0
          /\ after => Len(r.frames) = 1
          /\ ~after => r.at # "afterAgent"
      BY <1>2, <1>3, <1>4, <2>4, <3>1
    <3>4. /\ Len(s.frames) = Len(r.frames) + 1
          /\ s.frames[1] = [left |-> r.frames[1].left - 1, retry |-> retry, after |-> after]
          /\ \A i \in 1 .. Len(r.frames) : s.frames[i + 1] = r.frames[i]
          /\ s.at = "turn" /\ s.turns = IF s.frames[1].left > 0 THEN r.turns + 1 ELSE r.turns
      BY <1>5, <2>5, <3>1, <3>2
    <3>5. Stacked(s)
      BY <3>3, <3>4, NestedStacked
    <3> QED BY <3>2, <3>5
  <2>7. hookStateMap'[p].fired
    BY <2>4, <2>5
  <2>8. hookStateMap'[p].active = Len(query'[q].frames)
    BY <1>5, <2>4, <2>5
  <2>9. CountedQuery(query'[q], hookStateMap'[p], p \in hookSaw)
    BY <2>5, <2>6, <2>7, <2>8 DEF CountedQuery, Live, Waits
  <2> QED BY <2>2, <2>9
<1>8. \A e \in Queries \ {q} : query[e].at = "new" => e # p
  BY <1>0, <1>1 DEF NewUnused
<1>9. hookLost \cup Overtaken(p) \subseteq hookLost' /\ query[q].at # "beforeAgent"
  BY <1>2
<1> QED BY <1>1, <1>2, <1>4, <1>5, <1>6, <1>7, <1>8, <1>9, SendKeepsHooks

LEMMA AskingActionsKeepHooks ==
  ASSUME LoopAssumption, LoopInv, NEW q \in Queries, NEW e \in Queries,
         SubmitPrompt(q) \/ ToolsAnswered(q, e) \/ DisableLoops(q, e)
  PROVE  HookInv' /\ HookStep
<1>1. /\ LoopTypeOK /\ query \in [Queries -> Query] /\ loopDetector \in Detector
      /\ hookStateMap \in [Queries -> HookState] /\ MAX_TURNS \in Nat \ {0}
      /\ NewUnused /\ OnlyLastKept /\ HooksCounted
      /\ \A f \in Queries : query[f] \in Query /\ WellFormedQuery(query[f])
  BY DEF LoopInv, DetectorInv, HookInv, LoopTypeOK, WellFormed, Detector, LoopAssumption
\* One frame, with the whole budget, is counted.
<1>2. ASSUME NEW r \in Query, NEW p \in Queries, NEW o \in HookState,
             r.frames = AskedCall(p).frames,
             \/ r.at = "turn" /\ r.turns = 1 /\ o.fired
             \/ r.at = "beforeAgent" /\ r.turns = 0 /\ p \notin hookSaw,
             o.there, o.active = 1
      PROVE  CountedQuery(r, o, p \in hookSaw)
  <2>1. Len(r.frames) = 1 /\ r.frames[1].left = MAX_TURNS /\ ~r.frames[1].after
    BY <1>2, AskedCallType
  <2>2. Stacked(r)
    BY <1>1, <1>2, <2>1 DEF Stacked
  <2> QED BY <1>2, <2>1, <2>2 DEF CountedQuery, Live, Waits
<1>3. CASE SubmitPrompt(q)
  <2>1. /\ AskedCall(q) \in Query /\ AskedCall(q).prompt = q /\ AskedCall(q).frames # <<>>
        /\ AskedCall(q).turns = 0
    BY AskedCallType
  <2>2. /\ sendMessageStream(query, loopDetector, q, AskedCall(q)) /\ query[q].at = "new"
        /\ hookLost' = hookLost \cup Overtaken(q) /\ UNCHANGED hookSaw
    BY <1>3 DEF SubmitPrompt, NextNew
  <2>3. /\ hookStateMap[q] = NoHookState /\ q \notin hookSaw
        /\ \A f \in Queries : query[f].prompt # q
    BY <1>1, <2>2 DEF NewUnused
  <2>4. ~hookStateMap[q].fired /\ hookStateMap[q].active = 0
    BY <2>3 DEF NoHookState
  <2>5. /\ query' \in [Queries -> Query] /\ hookStateMap' \in [Queries -> HookState]
        /\ query'[q].frames = AskedCall(q).frames /\ query'[q].at = "beforeAgent"
        /\ query'[q].turns = 0
        /\ hookStateMap'[q].there /\ hookStateMap'[q].active = 1
    <3> DEFINE asked == AskedCall(q)
    <3>1. asked \in Query /\ asked.prompt = q /\ asked.frames # <<>> /\ asked.turns = 0
          /\ sendMessageStream(query, loopDetector, q, asked)
      BY <2>1, <2>2
    <3> HIDE DEF asked
    <3>2. query' \in [Queries -> Query] /\ hookStateMap' \in [Queries -> HookState]
          /\ query'[q].frames = asked.frames
      BY <1>1, <3>1, SendResult
    <3>3. query'[q].at = "beforeAgent" /\ query'[q].turns = 0
      BY <1>1, <2>4, <3>1, SendResult
    <3>4. hookStateMap'[q].there /\ hookStateMap'[q].active = hookStateMap[q].active + 1
      <4>1. hookStateMap'[asked.prompt].there
        BY <1>1, <3>1, SendResult
      <4>2. hookStateMap'[asked.prompt].active = hookStateMap[asked.prompt].active + 1
        BY <1>1, <3>1, SendResult
      <4> QED BY <3>1, <4>1, <4>2
    <3> QED BY <2>4, <3>2, <3>3, <3>4 DEF asked
  <2>6. CountedQuery(query'[q], hookStateMap'[q], q \in hookSaw)
    BY <1>2, <2>3, <2>5
  <2> QED BY <1>1, <2>1, <2>2, <2>3, <2>6, SendKeepsHooks
<1>4. CASE ToolsAnswered(q, e)
  <2>0. PICK p : p = query[q].prompt
    OBVIOUS
  <2> DEFINE queries == [query EXCEPT ![q] = [query[q] EXCEPT !.at = "done"]]
  <2>1. p \in Queries /\ query[q].at = "tools" /\ query[e].at = "new"
    BY <1>1, <1>4, <2>0 DEF ToolsAnswered, NextNew, WellFormedQuery, Query
  <2>2. /\ AskedCall(p) \in Query /\ AskedCall(p).prompt = p /\ AskedCall(p).frames # <<>>
        /\ AskedCall(p).turns = 0 /\ AskedCall(p).frames[1].left = MAX_TURNS
    BY <2>1, AskedCallType
  <2>3. /\ sendMessageStream(queries, loopDetector, e, AskedCall(p))
        /\ hookLost' = hookLost \cup Overtaken(p) /\ UNCHANGED hookSaw
    BY <1>4, <2>0 DEF ToolsAnswered
  <2>4. /\ queries \in [Queries -> Query]
        /\ \A f \in Queries : queries[f] = IF f = q THEN [query[q] EXCEPT !.at = "done"] ELSE query[f]
        /\ [query[q] EXCEPT !.at = "done"].at = "done"
    <3> DEFINE s == [query[q] EXCEPT !.at = "done"]
    <3>1. s \in Query /\ s.at = "done"
      BY <1>1 DEF Query, Ends
    <3> HIDE DEF s
    <3>2. [query EXCEPT ![q] = s] \in [Queries -> Query]
          /\ \A f \in Queries : [query EXCEPT ![q] = s][f] = IF f = q THEN s ELSE query[f]
      BY <1>1, <3>1
    <3> QED BY <3>1, <3>2 DEF s
  <2>5. ASSUME p \notin hookLost'
        PROVE  /\ \A f \in Queries \ {e} : queries[f].prompt = p => queries[f].at \notin Live
               /\ CountedQuery(query'[e], hookStateMap'[p], p \in hookSaw)
    <3>1. p \notin hookLost /\ query[q].at \in Live
      BY <2>1, <2>3, <2>5 DEF Live
    <3>2. \A f \in Queries \ {e} : queries[f].prompt = p => queries[f].at \notin Live
      BY <1>1, <2>0, <2>4, <3>1 DEF OnlyLastKept, Live, Waits
    <3>3. CountedQuery(query[q], hookStateMap[p], p \in hookSaw)
      BY <1>1, <2>0, <3>1 DEF HooksCounted
    <3>4. hookStateMap[p].there /\ hookStateMap[p].fired /\ hookStateMap[p].active = 0
      BY <2>1, <3>3 DEF CountedQuery, Live, Waits
    <3>5. /\ query' \in [Queries -> Query] /\ hookStateMap' \in [Queries -> HookState]
          /\ query'[e].frames = AskedCall(p).frames /\ query'[e].at = "turn"
          /\ query'[e].turns = 1
          /\ hookStateMap'[p].there /\ hookStateMap'[p].fired = hookStateMap[p].fired
          /\ hookStateMap'[p].active = 1
      <4> DEFINE asked == AskedCall(p)
      <4>1. asked \in Query /\ asked.prompt = p /\ asked.frames # <<>> /\ asked.turns = 0
            /\ asked.frames[1].left > 0
            /\ sendMessageStream(queries, loopDetector, e, asked)
        BY <1>1, <2>2, <2>3
      <4> HIDE DEF asked, queries
      <4>2. query' \in [Queries -> Query] /\ hookStateMap' \in [Queries -> HookState]
            /\ query'[e].frames = asked.frames
        BY <1>1, <2>1, <2>4, <4>1, SendResult
      <4>3. query'[e].at = "turn"
            /\ query'[e].turns = IF asked.frames[1].left > 0 THEN asked.turns + 1 ELSE asked.turns
        BY <1>1, <2>1, <2>4, <3>4, <4>1, SendResult
      <4>4. /\ hookStateMap'[p].there /\ hookStateMap'[p].fired = hookStateMap[p].fired
            /\ hookStateMap'[p].active = hookStateMap[p].active + 1
        BY <1>1, <2>1, <2>4, <4>1, SendResult
      <4> QED BY <3>4, <4>1, <4>2, <4>3, <4>4 DEF asked
    <3>6. CountedQuery(query'[e], hookStateMap'[p], p \in hookSaw)
      BY <1>2, <2>1, <3>4, <3>5
    <3> QED BY <3>2, <3>6
  <2>6. \A f \in Queries \ {e} : query[f].at = "new" => f # p
    BY <1>1, <2>0 DEF NewUnused
  <2>7. \A f \in Queries :
          \/ queries[f] = query[f]
          \/ query[f].at = "tools" /\ queries[f] = [query[f] EXCEPT !.at = "done"]
    BY <2>1, <2>4
  <2>8. hookLost \cup Overtaken(p) \subseteq hookLost' /\ query[e].at # "beforeAgent"
    BY <2>1, <2>3
  <2> DEFINE asked == AskedCall(p)
  <2>9. /\ asked \in Query /\ asked.prompt = p /\ asked.frames # <<>>
        /\ sendMessageStream(queries, loopDetector, e, asked)
        /\ queries \in [Queries -> Query] /\ p \in Queries
        /\ loopDetector \in Detector /\ UNCHANGED hookSaw
    BY <1>1, <2>1, <2>2, <2>3, <2>4
  <2> HIDE DEF asked, queries
  <2> QED BY <2>5, <2>6, <2>7, <2>8, <2>9, SendKeepsHooks
<1>5. CASE DisableLoops(q, e)
  <2>0. PICK p : p = query[q].prompt
    OBVIOUS
  <2> DEFINE detector == [loopDetector EXCEPT !.disabled = TRUE]
  <2>1. p \in Queries /\ query[e].at = "new"
    BY <1>1, <1>5, <2>0 DEF DisableLoops, Latest, NextNew, WellFormedQuery, Query
  <2>2. /\ AskedCall(p) \in Query /\ AskedCall(p).prompt = p /\ AskedCall(p).frames # <<>>
    BY <2>1, AskedCallType
  <2>3. /\ sendMessageStream(query, detector, e, AskedCall(p))
        /\ hookLost' = hookLost \cup Overtaken(p) \cup {p} /\ UNCHANGED hookSaw
    BY <1>5, <2>0 DEF DisableLoops
  <2>4. detector \in Detector
    BY <1>1 DEF Detector
  <2>5. \A f \in Queries \ {e} : query[f].at = "new" => f # p
    BY <1>1, <2>0 DEF NewUnused
  <2> HIDE DEF detector
  <2> QED BY <1>1, <2>1, <2>2, <2>3, <2>4, <2>5, SendKeepsHooks
<1> QED BY <1>3, <1>4, <1>5

\* A step that changes query q alone, and the hook state of its prompt alone,
\* and starts nothing.
LEMMA StepOfOneQuery ==
  ASSUME LoopAssumption, LoopInv, NEW q \in Queries,
         query' \in [Queries -> Query], hookStateMap' \in [Queries -> HookState],
         \A e \in Queries \ {q} : query'[e] = query[e],
         \A o \in Queries \ {query[q].prompt} : hookStateMap'[o] = hookStateMap[o],
         query'[q].prompt = query[q].prompt, query[q].at # "new", query'[q].at # "new",
         query'[q].at \in Live => query[q].at \in Live,
         UNCHANGED lastPromptId, hookLost \subseteq hookLost',
         hookSaw \subseteq hookSaw', hookSaw' \subseteq hookSaw \cup {query[q].prompt},
         query[q].prompt \notin hookLost' => \/ query[q].at \in Live
                                            \/ UNCHANGED <<hookStateMap, hookSaw>>,
         query[q].prompt \notin hookLost' =>
             CountedQuery(query'[q], hookStateMap'[query[q].prompt], query[q].prompt \in hookSaw')
  PROVE  HookInv'
<1>1. PICK p : p = query[q].prompt
  OBVIOUS
<1>2. /\ LoopTypeOK /\ WellFormed /\ NewUnused /\ OnlyLastKept /\ HooksCounted
      /\ query \in [Queries -> Query] /\ 0 \notin Queries
      /\ p # 0 /\ p \in Queries
  BY <1>1 DEF LoopInv, DetectorInv, HookInv, LoopAssumption, LoopTypeOK, WellFormed, WellFormedQuery, Query
<1>3. NewUnused'
  <2> SUFFICES ASSUME NEW e \in Queries, query'[e].at = "new"
               PROVE  /\ lastPromptId # e /\ hookStateMap'[e] = NoHookState /\ e \notin hookSaw'
                      /\ \A f \in Queries : query'[f].prompt # e
    BY DEF NewUnused
  <2>1. e # q /\ query[e].at = "new"
    OBVIOUS
  <2>2. /\ lastPromptId # e /\ hookStateMap[e] = NoHookState /\ e \notin hookSaw
        /\ \A f \in Queries : query[f].prompt # e
    BY <1>2, <2>1 DEF NewUnused
  <2>3. e # p
    BY <1>1, <2>2
  <2> QED BY <1>1, <2>2, <2>3
<1>4. OnlyLastKept'
  <2>1. \A e \in Queries : query'[e].prompt = query[e].prompt
    OBVIOUS
  <2>2. \A e \in Queries : query'[e].prompt \notin hookLost' \cup {0} => query'[e].prompt = lastPromptId'
    BY <1>2, <2>1 DEF OnlyLastKept
  <2>3. \A e \in Queries : query'[e].at \in Live => query[e].at \in Live
    OBVIOUS
  <2>4. \A e, f \in Queries :
          query'[e].prompt = query'[f].prompt /\ query'[e].prompt \notin hookLost'
          /\ query'[e].at \in Live /\ query'[f].at \in Live => e = f
    BY <1>2, <2>1, <2>3 DEF OnlyLastKept
  <2> QED BY <2>2, <2>4 DEF OnlyLastKept
<1>5. HooksCounted'
  <2> SUFFICES ASSUME NEW e \in Queries, query'[e].prompt \notin hookLost'
               PROVE  CountedQuery(query'[e], hookStateMap'[query'[e].prompt],
                                   query'[e].prompt \in hookSaw')
    BY DEF HooksCounted
  <2>1. CASE e = q
    BY <2>1
  <2>2. CASE e # q
    <3>1. query'[e] = query[e] /\ query[e].prompt \notin hookLost
      BY <2>2
    <3>2. CountedQuery(query[e], hookStateMap[query[e].prompt], query[e].prompt \in hookSaw)
      BY <1>2, <3>1 DEF HooksCounted
    <3>3. CASE query[e].prompt = 0
      <4>1. query[e].at = "new"
        BY <1>2, <3>3 DEF WellFormed, WellFormedQuery
      <4> QED BY <3>1, <3>2, <4>1 DEF CountedQuery, Live, Waits
    <3>4. CASE query[e].prompt # 0 /\ query[e].prompt # p
      <4>1. query[e].prompt \in Queries
        BY <1>2, <3>4 DEF Query
      <4>2. hookStateMap'[query[e].prompt] = hookStateMap[query[e].prompt]
        BY <1>1, <3>4, <4>1
      <4>3. query[e].prompt \in hookSaw' <=> query[e].prompt \in hookSaw
        BY <1>1, <3>4
      <4> QED BY <3>1, <3>2, <4>2, <4>3 DEF CountedQuery
    <3>5. CASE query[e].prompt = p
      <4>1. CASE query[q].at \in Live
        <5>1. query[e].at \notin Live
          BY <1>1, <1>2, <2>2, <3>1, <3>5, <4>1 DEF OnlyLastKept
        <5> QED BY <3>1, <3>2, <5>1 DEF CountedQuery, Live, Waits
      <4>2. CASE UNCHANGED <<hookStateMap, hookSaw>>
        BY <3>1, <3>2, <4>2
      <4> QED BY <1>1, <2>2, <3>1, <3>5, <4>1, <4>2
    <3> QED BY <3>3, <3>4, <3>5
  <2> QED BY <2>1, <2>2
<1> QED BY <1>3, <1>4, <1>5 DEF HookInv

LEMMA GoesKeepsHooks ==
  ASSUME LoopAssumption, LoopInv, NEW q \in Queries,
         NEW r \in Query, r.prompt = query[q].prompt, r.at = query[q].at, r.turns = query[q].turns,
         r.frames = query[q].frames, r.pending = query[q].pending \/ r.at = "turn",
         r.at \in {"turn", "speaker", "afterAgent"},
         NEW leaves \in BOOLEAN, leaves <=> r.at = "afterAgent",
         NEW found \in BOOLEAN, Goes(q, r, leaves, found), UNCHANGED hookSaw
  PROVE  HookInv' /\ HookStep
<1>1. PICK p : p = query[q].prompt
  OBVIOUS
<1>2. /\ LoopTypeOK /\ HooksCounted /\ WellFormedQuery(query[q])
      /\ p # 0 /\ r.frames # <<>> /\ p \in Queries
  BY <1>1 DEF LoopInv, DetectorInv, HookInv, WellFormed, WellFormedQuery, Waits, Query
<1>0. PICK o \in HookState : o = hookStateMap[r.prompt] /\ Returns(q, r, o, leaves, found)
  BY <1>1, <1>2, GoesResult
<1>3. /\ query' \in [Queries -> Query] /\ hookStateMap' \in [Queries -> HookState]
      /\ query'[q] = unwound(r, o, leaves).query
      /\ hookStateMap'[r.prompt] = unwound(r, o, leaves).hookState
      /\ \A e \in Queries \ {q} : query'[e] = query[e]
      /\ \A e \in Queries \ {r.prompt} : hookStateMap'[e] = hookStateMap[e]
      /\ query'[q].prompt = r.prompt /\ WellFormedQuery(query'[q])
      /\ hookLost \subseteq hookLost'
      /\ query'[q].at = "tools" /\ ~query'[q].pending => r.prompt \in hookLost'
      /\ UNCHANGED lastPromptId
  BY <1>0, <1>1, <1>2, ReturnsResult
<1>4. PICK u : u = unwound(r, o, leaves)
  OBVIOUS
<1>5. ASSUME p \notin hookLost'
      PROVE  /\ CountedQuery(query'[q], hookStateMap'[p], p \in hookSaw)
             /\ query'[q].at \in {"tools", "done"} => ShownToHook(q) = ~query'[q].pending
  <2>1. CountedQuery(query[q], hookStateMap[p], p \in hookSaw)
    BY <1>1, <1>2, <1>3, <1>5 DEF HooksCounted
  <2>2. o = hookStateMap[p]
    BY <1>0, <1>1
  <2>3. /\ o.there /\ o.fired /\ o.active = Len(r.frames) /\ Stacked(query[q])
        /\ r.at = "afterAgent" => Len(r.frames) = 1 /\ ~query[q].pending
    BY <2>1, <2>2 DEF CountedQuery, Live, Waits
  <2>4. Stacked(r) /\ (leaves => Len(r.frames) = 1 /\ ~r.pending)
    BY <2>3 DEF Stacked
  <2>5. u = unwound(r, o, leaves) /\ r.at \in Waits
    BY <1>1, <1>4, <2>2 DEF Waits
  <2>6. /\ \/ u.query.at = "tools" /\ ~u.query.pending
           \/ CountedQuery(u.query, u.hookState, r.prompt \in hookSaw)
        /\ u.query.at \in {"tools", "done"} =>
             ((leaves \/ \E i \in DOMAIN r.frames : r.frames[i].after) <=> ~u.query.pending)
    BY <1>1, <1>2, <2>3, <2>4, <2>5, UnwoundCounts
  <2>7. ShownToHook(q) <=> leaves \/ \E i \in DOMAIN r.frames : r.frames[i].after
    BY DEF ShownToHook
  <2>8. query'[q] = u.query /\ hookStateMap'[p] = u.hookState
    BY <1>1, <1>3, <1>4
  <2>9. ~(u.query.at = "tools" /\ ~u.query.pending)
    BY <1>1, <1>3, <1>5, <2>8
  <2>10. CountedQuery(query'[q], hookStateMap'[p], p \in hookSaw)
    <3>1. CountedQuery(u.query, u.hookState, r.prompt \in hookSaw)
      BY <2>6, <2>9
    <3>2. p = r.prompt
      BY <1>1
    <3> QED BY <2>8, <3>1, <3>2 DEF CountedQuery
  <2>11. u.query.pending \in BOOLEAN
    <3>1. query' \in [Queries -> Query]
      BY <1>3
    <3>2. u.query \in Query
      BY <2>8, <3>1
    <3> QED BY <3>2 DEF Query
  <2>12. ShownToHook(q) \in BOOLEAN
    BY DEF ShownToHook
  <2> QED BY <2>6, <2>7, <2>8, <2>10, <2>11, <2>12
<1>6. HookInv'
  <2>1. query[q].at \in Live /\ query[q].at # "new" /\ query'[q].at # "new"
    BY <1>1, <1>2, <1>3 DEF Live, Waits, WellFormedQuery
  <2> QED BY <1>1, <1>3, <1>5, <2>1, StepOfOneQuery
<1>7. HookStep
  BY <1>1, <1>3, <1>5 DEF HookStep, Waits
<1> QED BY <1>6, <1>7

LEMMA GoingActionsKeepHooks ==
  ASSUME LoopAssumption, LoopInv, NEW q \in Queries,
         \/ \E found \in BOOLEAN : TurnNotSent(q, found)
         \/ LoopEvent(q) \/ TurnReturns(q) \/ SpeakerIsUser(q) \/ AfterAgentPasses(q)
  PROVE  HookInv' /\ HookStep
<1>1. query[q] \in Query
  BY DEF LoopInv, DetectorInv, LoopTypeOK
<1>2. /\ query[q].at \in {"turn", "speaker", "afterAgent"} /\ UNCHANGED hookSaw
      /\ \E leaves, found \in BOOLEAN :
            Goes(q, query[q], leaves, found) /\ (leaves <=> query[q].at = "afterAgent")
  BY DEF TurnNotSent, LoopEvent, TurnReturns, SpeakerIsUser, AfterAgentPasses, StreamOver, Sending
<1>3. PICK leaves \in BOOLEAN, found \in BOOLEAN :
            Goes(q, query[q], leaves, found) /\ (leaves <=> query[q].at = "afterAgent")
  BY <1>2
<1>4. PICK r : r = query[q]
  OBVIOUS
<1> QED BY <1>1, <1>2, <1>3, <1>4, GoesKeepsHooks

LEMMA CallEventKeepsHooks ==
  ASSUME LoopAssumption, LoopInv, NEW q \in Queries, NEW call \in CallKeys, CallEvent(q, call)
  PROVE  HookInv' /\ HookStep
<1> DEFINE r == [query[q] EXCEPT !.pending = TRUE]
           s == [r EXCEPT !.collected = TRUE]
<1>1. /\ LoopTypeOK /\ HooksCounted /\ query \in [Queries -> Query] /\ query[q] \in Query
      /\ hookStateMap \in [Queries -> HookState]
      /\ query[q].at = "turn" /\ UNCHANGED hookSaw
  BY DEF LoopInv, DetectorInv, HookInv, LoopTypeOK, CallEvent, Sending
<1>2. /\ r \in Query /\ r.prompt = query[q].prompt /\ r.at = query[q].at
      /\ r.frames = query[q].frames /\ r.turns = query[q].turns
      /\ s \in Query /\ s.prompt = query[q].prompt /\ s.at = query[q].at
      /\ s.frames = query[q].frames /\ s.turns = query[q].turns
  BY <1>1 DEF Query
<1> HIDE DEF r, s
<1>3. CASE Goes(q, r, FALSE, TRUE)
  BY <1>1, <1>2, <1>3, GoesKeepsHooks
<1>4. CASE query' = [query EXCEPT ![q] = s] /\ UNCHANGED <<hookStateMap, lastPromptId, hookLost>>
  <2>1. /\ query' \in [Queries -> Query] /\ query'[q] = s
        /\ \A e \in Queries \ {q} : query'[e] = query[e]
    BY <1>1, <1>2, <1>4
  <2>2. ASSUME query[q].prompt \notin hookLost'
        PROVE  CountedQuery(query'[q], hookStateMap'[query[q].prompt], query[q].prompt \in hookSaw')
    <3>1. CountedQuery(query[q], hookStateMap[query[q].prompt], query[q].prompt \in hookSaw)
      BY <1>1, <1>4, <2>2 DEF HooksCounted
    <3>2. /\ hookStateMap[query[q].prompt].there /\ hookStateMap[query[q].prompt].fired
          /\ hookStateMap[query[q].prompt].active = Len(query[q].frames) /\ Stacked(query[q])
      BY <1>1, <3>1 DEF CountedQuery, Live, Waits
    <3>3. Stacked(s)
      BY <1>2, <3>2 DEF Stacked
    <3> QED BY <1>1, <1>2, <1>4, <2>1, <3>2, <3>3 DEF CountedQuery, Live, Waits
  <2>3. HookInv'
    BY <1>1, <1>2, <1>4, <2>1, <2>2, StepOfOneQuery DEF Live, Waits
  <2>4. HookStep
    BY <1>1, <1>2, <2>1 DEF HookStep, Waits
  <2> QED BY <2>3, <2>4
<1> QED BY <1>3, <1>4 DEF CallEvent, r, s

LEMMA OtherActionsKeepHooks ==
  ASSUME LoopAssumption, LoopInv, DetectorInv', NEW q \in Queries,
         \/ BeforeAgentPasses(q) \/ (BeforeAgentStops(q) /\ Len(query[q].frames) = 1)
         \/ AskNextSpeaker(q) \/ CancelQuery(q) \/ ToolsDropped(q) \/ Throws(q)
  PROVE  HookInv' /\ HookStep
<1>1. PICK p : p = query[q].prompt
  OBVIOUS
<1>2. /\ HooksCounted /\ query \in [Queries -> Query] /\ query[q] \in Query
      /\ hookStateMap \in [Queries -> HookState] /\ WellFormedQuery(query[q])
      /\ query' \in [Queries -> Query] /\ hookStateMap' \in [Queries -> HookState]
      /\ UNCHANGED <<lastPromptId, hookLost>> /\ 0 \notin Queries
  BY DEF LoopInv, DetectorInv, HookInv, LoopTypeOK, WellFormed, BeforeAgentPasses, BeforeAgentStops,
         AskNextSpeaker, CancelQuery, ToolsDropped, Throws, hookVars, detectorVars, LoopAssumption
<1>3. CASE BeforeAgentPasses(q) \/ (BeforeAgentStops(q) /\ Len(query[q].frames) = 1)
  <2>1. PICK passes \in BOOLEAN :
            IF passes THEN BeforeAgentPasses(q) ELSE BeforeAgentStops(q) /\ Len(query[q].frames) = 1
    BY <1>3
  <2>2. query[q].at = "beforeAgent" /\ p # 0 /\ p \in Queries /\ query[q].frames # <<>>
    BY <1>1, <1>2, <2>1 DEF BeforeAgentPasses, BeforeAgentStops, WellFormedQuery, Waits, Query
  <2>3. /\ hookStateMap' = [hookStateMap EXCEPT ![p].fired = hookStateMap[p].there]
        /\ hookSaw' = hookSaw \cup {p}
        /\ query' = [query EXCEPT ![q] = IF passes THEN turnBegun(query[q]) ELSE over(query[q], "cutOff")]
    BY <1>1, <2>1 DEF BeforeAgentPasses, BeforeAgentStops
  <2>4. /\ over(query[q], "cutOff").at = "cutOff" /\ over(query[q], "cutOff").prompt = p
        /\ over(query[q], "cutOff").turns = 0
    BY <1>1, <1>2, <2>2, OverType DEF Ends
  <2>5. /\ turnBegun(query[q]).at = "turn" /\ turnBegun(query[q]).prompt = p
        /\ turnBegun(query[q]).frames = query[q].frames
        /\ turnBegun(query[q]).turns = IF query[q].frames[1].left > 0 THEN query[q].turns + 1
                                       ELSE query[q].turns
    BY <1>1, <1>2, <2>2, TurnBegunType
  <2>6. /\ \A e \in Queries \ {q} : query'[e] = query[e]
        /\ query'[q] = IF passes THEN turnBegun(query[q]) ELSE over(query[q], "cutOff")
        /\ \A o \in Queries \ {p} : hookStateMap'[o] = hookStateMap[o]
        /\ hookStateMap'[p] = [hookStateMap[p] EXCEPT !.fired = hookStateMap[p].there]
    BY <1>2, <2>2, <2>3
  <2>7. ASSUME p \notin hookLost'
        PROVE  CountedQuery(query'[q], hookStateMap'[p], p \in hookSaw') /\ p \notin hookSaw
    <3>1. CountedQuery(query[q], hookStateMap[p], p \in hookSaw)
      BY <1>1, <1>2, <2>7 DEF HooksCounted
    <3>2. /\ p \notin hookSaw /\ Len(query[q].frames) = 1 /\ query[q].turns = 0
          /\ hookStateMap[p].there /\ hookStateMap[p].active = 1 /\ Stacked(query[q])
      BY <2>2, <3>1 DEF CountedQuery, Waits
    <3>3. CASE ~passes
      BY <2>4, <2>6, <3>2, <3>3 DEF CountedQuery, Waits, Live, Ends
    <3>4. CASE passes
      <4>1. hookStateMap'[p].there /\ hookStateMap'[p].active = 1 /\ hookStateMap'[p].fired
        BY <1>2, <2>2, <2>6, <3>2 DEF HookState
      <4>2. /\ Len(query'[q].frames) = 1 /\ query'[q].frames = query[q].frames
            /\ query'[q].at = "turn" /\ query'[q].turns \in {0, 1}
        BY <2>5, <2>6, <3>2, <3>4
      <4>3. MAX_TURNS \in Nat \ {0}
        BY DEF LoopAssumption
      <4>4. Stacked(query'[q])
        BY <3>2, <4>2, <4>3 DEF Stacked
      <4> QED BY <3>2, <4>1, <4>2, <4>4 DEF CountedQuery, Waits, Live
    <3> QED BY <3>2, <3>3, <3>4
  <2>8. query'[q].prompt = p /\ query'[q].at \in {"turn", "cutOff"}
    BY <2>4, <2>5, <2>6
  <2>9. HookInv'
    BY <1>1, <1>2, <2>2, <2>3, <2>6, <2>7, <2>8, StepOfOneQuery DEF Live, Waits
  <2>10. HookStep
    BY <1>1, <2>6, <2>7, <2>8 DEF HookStep, Waits
  <2> QED BY <2>9, <2>10
<1>4. CASE AskNextSpeaker(q) \/ CancelQuery(q) \/ ToolsDropped(q)
  <2>1. PICK s \in Query : query' = [query EXCEPT ![q] = s] /\ s = query'[q]
    <3>1. query' = [query EXCEPT ![q] = query'[q]] /\ query'[q] \in Query
      BY <1>2, <1>4 DEF AskNextSpeaker, CancelQuery, ToolsDropped
    <3> QED BY <3>1
  <2>2. /\ s.prompt = p /\ s.frames = query[q].frames /\ s.turns = query[q].turns
        /\ \/ query[q].at = "turn" /\ s.at = "speaker"
           \/ query[q].at \in Waits /\ s.at = query[q].at /\ s.pending = query[q].pending
           \/ query[q].at = "tools" /\ s.at = "done"
    <3>1. CASE AskNextSpeaker(q)
      <4>1. s = [query[q] EXCEPT !.at = "speaker"] /\ query[q].at = "turn"
        BY <1>2, <2>1, <3>1 DEF AskNextSpeaker, StreamOver, Sending
      <4> QED BY <1>1, <1>2, <4>1 DEF Query
    <3>2. CASE CancelQuery(q)
      <4>1. s = [query[q] EXCEPT !.aborted = TRUE] /\ query[q].at \in Waits
        BY <1>2, <2>1, <3>2 DEF CancelQuery
      <4> QED BY <1>1, <1>2, <4>1 DEF Query
    <3>3. CASE ToolsDropped(q)
      <4>1. s = [query[q] EXCEPT !.at = "done"] /\ query[q].at = "tools"
        BY <1>2, <2>1, <3>3 DEF ToolsDropped
      <4> QED BY <1>1, <1>2, <4>1 DEF Query
    <3> QED BY <1>4, <3>1, <3>2, <3>3
  <2>3. UNCHANGED <<hookStateMap, hookSaw>>
    BY <1>4 DEF AskNextSpeaker, CancelQuery, ToolsDropped, hookVars
  <2>4. ASSUME p \notin hookLost'
        PROVE  CountedQuery(query'[q], hookStateMap'[p], p \in hookSaw')
    <3>1. CountedQuery(query[q], hookStateMap[p], p \in hookSaw)
      BY <1>1, <1>2, <2>4 DEF HooksCounted
    <3>2. Stacked(query[q]) /\ s.at \in Waits => Stacked(s)
      BY <2>2 DEF Stacked, Waits
    <3> QED BY <2>1, <2>2, <2>3, <3>1, <3>2 DEF CountedQuery, Waits, Live
  <2>5. /\ \A e \in Queries \ {q} : query'[e] = query[e]
        /\ query'[q].at # "new" /\ query[q].at # "new" /\ query[q].at \in Live
    BY <1>2, <2>1, <2>2 DEF Waits, Live
  <2>6. HookInv'
    BY <1>1, <1>2, <2>1, <2>2, <2>3, <2>4, <2>5, StepOfOneQuery
  <2>7. HookStep
    BY <1>1, <1>2, <2>1, <2>2, <2>5 DEF HookStep, Waits
  <2> QED BY <2>6, <2>7
<1>5. CASE Throws(q)
  <2> DEFINE s == [query[q] EXCEPT !.pending = FALSE]
  <2>1. query[q].at = "turn" /\ p # 0 /\ p \in Queries
    BY <1>1, <1>2, <1>5 DEF Throws, WellFormedQuery, Query
  <2>2. /\ s \in Query /\ s.prompt = p /\ query' = [query EXCEPT ![q] = over(s, "cutOff")]
        /\ \A o \in Queries \ {p} : hookStateMap'[o] = hookStateMap[o]
        /\ UNCHANGED hookSaw
    BY <1>1, <1>2, <1>5 DEF Throws, Query
  <2> HIDE DEF s
  <2>3. /\ over(s, "cutOff").at = "cutOff" /\ over(s, "cutOff").prompt = p
        /\ over(s, "cutOff").turns = 0
    BY <2>1, <2>2, OverType DEF Ends
  <2>4. /\ query'[q].at = "cutOff" /\ query'[q].prompt = p /\ query'[q].turns = 0
        /\ \A e \in Queries \ {q} : query'[e] = query[e]
    BY <1>2, <2>2, <2>3
  <2>5. CountedQuery(query'[q], hookStateMap'[p], p \in hookSaw')
    BY <2>4 DEF CountedQuery, Waits, Live
  <2>8. /\ query[q].at \in Live /\ query[q].at # "new" /\ query'[q].at # "new"
        /\ query'[q].prompt = query[q].prompt
        /\ \A o \in Queries \ {query[q].prompt} : hookStateMap'[o] = hookStateMap[o]
        /\ CountedQuery(query'[q], hookStateMap'[query[q].prompt], query[q].prompt \in hookSaw')
    BY <1>1, <2>1, <2>2, <2>4, <2>5 DEF Live, Waits
  <2>6. HookInv'
    <3>1. /\ UNCHANGED lastPromptId /\ hookLost \subseteq hookLost'
          /\ hookSaw \subseteq hookSaw' /\ hookSaw' \subseteq hookSaw \cup {query[q].prompt}
      BY <1>2, <2>2
    <3> QED BY <1>2, <2>4, <2>8, <3>1, StepOfOneQuery
  <2>7. HookStep
    BY <2>1, <2>4 DEF HookStep, Waits
  <2> QED BY <2>6, <2>7
<1> QED BY <1>3, <1>4, <1>5

\* A call inside another that the BeforeAgent hook stops is of a lost prompt.
LEMMA StoppedInsideKeepsHooks ==
  ASSUME LoopAssumption, LoopInv, NEW q \in Queries, BeforeAgentStops(q),
         Len(query[q].frames) # 1
  PROVE  HookInv' /\ HookStep
<1> DEFINE f == query[q].frames
           o == [hookStateMap[query[q].prompt] EXCEPT !.fired = hookStateMap[query[q].prompt].there]
           r == [query[q] EXCEPT !.frames = Tail(@)]
<1>1. /\ LoopTypeOK /\ query[q] \in Query /\ query[q].at = "beforeAgent"
      /\ query[q].prompt \in Queries /\ query[q].prompt # 0
      /\ hookStateMap \in [Queries -> HookState] /\ f # <<>> /\ f \in Seq(Frame)
      /\ CountedQuery(query[q], hookStateMap[query[q].prompt], query[q].prompt \in hookSaw)
           \/ query[q].prompt \in hookLost
  BY DEF LoopInv, HookInv, HooksCounted, DetectorInv, LoopTypeOK, WellFormed, WellFormedQuery,
         Waits, Query, BeforeAgentStops
<1>2. query[q].prompt \in hookLost
  BY <1>1 DEF CountedQuery
<1>3. Returns(q, r, o, f[1].after, FALSE) /\ hookSaw' = hookSaw \cup {query[q].prompt}
  BY DEF BeforeAgentStops
<1>4. Tail(f) \in Seq(Frame) /\ Tail(f) # <<>> /\ f[1].after \in BOOLEAN
  <2>1. PICK t : t = f /\ t \in Seq(Frame) /\ t # <<>> /\ Len(t) # 1
    BY <1>1
  <2>2. Tail(t) \in Seq(Frame) /\ Tail(t) # <<>> /\ t[1] \in Frame
    BY <2>1, TailLeft
  <2> QED BY <2>1, <2>2 DEF Frame
<1>5. r \in Query /\ r.prompt = query[q].prompt /\ r.frames # <<>>
  <2> DEFINE t == Tail(f)
  <2>1. r = [query[q] EXCEPT !.frames = t] /\ t \in Seq(Frame) /\ t # <<>>
    BY <1>4
  <2> HIDE DEF t, r
  <2> QED BY <1>1, <2>1 DEF Query
<1>6. o \in HookState
  BY <1>1 DEF HookState
<1> HIDE DEF r, o
<1>7. PICK after \in BOOLEAN : after = f[1].after
  BY <1>4
<1>8. /\ query' \in [Queries -> Query] /\ hookStateMap' \in [Queries -> HookState]
      /\ \A e \in Queries \ {q} : query'[e] = query[e]
      /\ \A p \in Queries \ {query[q].prompt} : hookStateMap'[p] = hookStateMap[p]
      /\ query'[q].prompt = query[q].prompt
      /\ query'[q].at \in {"afterAgent", "tools", "done"}
      /\ hookLost \subseteq hookLost' /\ UNCHANGED lastPromptId
  <2>1. PICK t \in Query, h \in HookState, found \in BOOLEAN : t = r /\ h = o /\ found = FALSE
    BY <1>5, <1>6
  <2>2. Returns(q, t, h, after, found) /\ t.frames # <<>> /\ t.prompt # 0 /\ t.prompt = query[q].prompt
    BY <1>1, <1>3, <1>5, <1>7, <2>1
  <2>3. /\ query' \in [Queries -> Query] /\ hookStateMap' \in [Queries -> HookState]
        /\ \A e \in Queries \ {q} : query'[e] = query[e]
        /\ \A p \in Queries \ {t.prompt} : hookStateMap'[p] = hookStateMap[p]
        /\ query'[q].prompt = t.prompt
        /\ query'[q].at \in {"afterAgent", "tools", "done"}
        /\ hookLost \subseteq hookLost' /\ UNCHANGED lastPromptId
    BY <1>1, <2>2, ReturnsResult
  <2> QED BY <2>2, <2>3
<1>9. HookInv'
  BY <1>1, <1>2, <1>3, <1>8, StepOfOneQuery DEF Live, Waits
<1>10. HookStep
  BY <1>2, <1>8 DEF HookStep, Waits
<1> QED BY <1>9, <1>10

LEMMA HooksInitially == ASSUME LoopAssumption, LoopInit PROVE LoopInv
<1>1. DetectorInv
  BY LoopsInitially
<1>2. NewQuery.at = "new" /\ NewQuery.prompt = 0 /\ NewQuery.turns = 0
  BY DEF NewQuery
<1>3. HookInv
  BY <1>2 DEF LoopInit, HookInv, NewUnused, OnlyLastKept, HooksCounted, CountedQuery, Live, Waits,
              LoopAssumption
<1> QED BY <1>1, <1>3 DEF LoopInv

LEMMA HooksStep ==
  ASSUME LoopAssumption, LoopInv, [LoopNext]_loopVars
  PROVE  LoopInv' /\ [HookStep]_loopVars
<1>0. DetectorInv'
  BY LoopsStep DEF LoopInv
<1>1. CASE UNCHANGED loopVars
  BY <1>0, <1>1 DEF loopVars, hookVars, detectorVars, LoopInv, HookInv, NewUnused, OnlyLastKept,
              HooksCounted
<1>2. ASSUME NEW q \in Queries,
             \/ \E found \in BOOLEAN : TurnNotSent(q, found)
             \/ LoopEvent(q) \/ TurnReturns(q) \/ SpeakerIsUser(q) \/ AfterAgentPasses(q)
      PROVE  HookInv' /\ HookStep
  BY <1>2, GoingActionsKeepHooks
<1>3. ASSUME NEW q \in Queries, \E call \in CallKeys : CallEvent(q, call)
      PROVE  HookInv' /\ HookStep
  BY <1>3, CallEventKeepsHooks
<1>4. ASSUME NEW q \in Queries, InvalidStream(q) \/ SpeakerIsModel(q) \/ AfterAgentBlocks(q)
      PROVE  HookInv' /\ HookStep
  BY <1>4, CallingActionsKeepHooks
<1>5. ASSUME NEW q \in Queries, NEW e \in Queries,
             SubmitPrompt(q) \/ ToolsAnswered(q, e) \/ DisableLoops(q, e)
      PROVE  HookInv' /\ HookStep
  BY <1>5, AskingActionsKeepHooks
<1>6. ASSUME NEW q \in Queries,
             \/ BeforeAgentPasses(q) \/ (BeforeAgentStops(q) /\ Len(query[q].frames) = 1)
             \/ AskNextSpeaker(q) \/ CancelQuery(q) \/ ToolsDropped(q) \/ Throws(q)
      PROVE  HookInv' /\ HookStep
  BY <1>0, <1>6, OtherActionsKeepHooks
<1>7. ASSUME NEW q \in Queries, BeforeAgentStops(q), Len(query[q].frames) # 1
      PROVE  HookInv' /\ HookStep
  BY <1>7, StoppedInsideKeepsHooks
<1> QED BY <1>0, <1>1, <1>2, <1>3, <1>4, <1>5, <1>6, <1>7 DEF LoopNext, LoopInv

\* For every number of queries and every budget: recursive calls, continuations
\* and a blocked end share one budget (client.ts:62, :721, :824).
THEOREM TurnsAreBounded == LoopSpec => []TurnsBounded
<1>1. LoopAssumption
  BY LoopAssumption
<1>2. LoopInit => LoopInv
  BY <1>1, HooksInitially
<1>3. LoopInv /\ [LoopNext]_loopVars => LoopInv'
  BY <1>1, HooksStep
<1>4. LoopInv => TurnsBounded
  <2> SUFFICES ASSUME LoopInv, NEW q \in Queries, query[q].prompt \notin hookLost
               PROVE  query[q].turns <= 2 * MAX_TURNS - 1
    BY DEF TurnsBounded
  <2>1. CountedQuery(query[q], hookStateMap[query[q].prompt], query[q].prompt \in hookSaw)
    BY DEF LoopInv, HookInv, HooksCounted
  <2>2. query[q].turns \in Nat /\ MAX_TURNS \in Nat \ {0}
    BY <1>1 DEF LoopInv, DetectorInv, LoopTypeOK, Query, LoopAssumption
  <2>3. CASE query[q].at \in Waits
    <3>1. query[q].turns <= MAX_TURNS \/ query[q].turns <= 2 * MAX_TURNS - 1
      BY <2>1, <2>3 DEF CountedQuery, Stacked
    <3> QED BY <2>2, <3>1
  <2>4. CASE query[q].at \notin Waits
    BY <2>1, <2>2, <2>4 DEF CountedQuery
  <2> QED BY <2>3, <2>4
<1> QED BY <1>2, <1>3, <1>4, PTL DEF LoopSpec

\* However queries, streams and hooks interleave: the BeforeAgent hook sees a
\* prompt once, the AfterAgent hook each query that ends without tools and no
\* other (client.ts:99), but where the code loses the prompt's hook state.
THEOREM HooksFireOnce == LoopSpec => HooksOnce
<1>1. LoopAssumption
  BY LoopAssumption
<1>2. LoopInit => LoopInv
  BY <1>1, HooksInitially
<1>3. LoopInv /\ [LoopNext]_loopVars => LoopInv' /\ [HookStep]_loopVars
  BY <1>1, HooksStep
<1> QED BY <1>2, <1>3, PTL DEF LoopSpec, HooksOnce

==============================================================================
