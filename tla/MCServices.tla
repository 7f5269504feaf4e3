------------------------------- MODULE MCServices -------------------------------
(***************************************************************************)
(* The components around the tool scheduler, each with a small instance,   *)
(* explored by one run: a behaviour chooses a component at its start and   *)
(* is a behaviour of that component, while the others stay as they are.    *)
(***************************************************************************)
EXTENDS AcpSession, IdeDiff, LocalAgent, A2ATask, ToolApproval, TextBuffer,
        TelemetryQueue, McpServer, AgentLoop, IdeContext

VARIABLE component

serviceVars == <<component, acpVars, ideVars, agentVars, a2aVars, approvalVars, textVars,
                 telemetryVars, mcpVars, loopVars, contextVars>>

\* What the policy is asked about: a program; a list with a redirection; a
\* substitution; a list with a denied program; two that cannot be parsed.
Compound(kind, p, q, redirects) ==
    [program |-> p, redirects |-> FALSE, kind |-> kind, parts |-> <<Simple(q, redirects)>>]
AskedCommands ==
    {Simple("ls", FALSE), Compound("list", "ls", "tee", TRUE),
     Compound("nested", "ls", "tee", FALSE),
     Compound("list", "ls", "rm", FALSE)}
    \cup {[Simple(p, FALSE) EXCEPT !.kind = "unparsed"] : p \in {"ls", "rm"}}

ServicesInit ==
    /\ AcpInit /\ IdeInit /\ AgentInit /\ A2AInit /\ ApprovalInit /\ TextInit
    /\ TelemetryInit /\ McpInit /\ LoopInit /\ ContextInit
    /\ component \in {"acp", "ide", "agent", "a2a", "approval", "text", "telemetry", "mcp", "loop",
                      "context"}
    \* Bound: the mode is switched to YOLO, not back.
    /\ approvalMode = "default"

Is(name) == component = name /\ UNCHANGED component

ServicesNext ==
    \/ /\ Is("acp") /\ AcpNext
       /\ UNCHANGED <<ideVars, agentVars, a2aVars, approvalVars, textVars,
                      telemetryVars, mcpVars, loopVars, contextVars>>
    \/ /\ Is("ide") /\ IdeNext
       /\ UNCHANGED <<acpVars, agentVars, a2aVars, approvalVars, textVars,
                      telemetryVars, mcpVars, loopVars, contextVars>>
    \/ /\ Is("agent") /\ AgentNext
       /\ UNCHANGED <<acpVars, ideVars, a2aVars, approvalVars, textVars,
                      telemetryVars, mcpVars, loopVars, contextVars>>
    \/ /\ Is("a2a") /\ A2ANext
       /\ UNCHANGED <<acpVars, ideVars, agentVars, approvalVars, textVars,
                      telemetryVars, mcpVars, loopVars, contextVars>>
    \/ /\ Is("approval") /\ ApprovalNext
       /\ UNCHANGED <<acpVars, ideVars, agentVars, a2aVars, textVars,
                      telemetryVars, mcpVars, loopVars, contextVars>>
    \/ /\ Is("text") /\ TextNext
       /\ UNCHANGED <<acpVars, ideVars, agentVars, a2aVars, approvalVars,
                      telemetryVars, mcpVars, loopVars, contextVars>>
    \/ /\ Is("telemetry") /\ TelemetryNext
       /\ UNCHANGED <<acpVars, ideVars, agentVars, a2aVars, approvalVars,
                      textVars, mcpVars, loopVars, contextVars>>
    \/ /\ Is("mcp") /\ McpNext
       /\ UNCHANGED <<acpVars, ideVars, agentVars, a2aVars, approvalVars,
                      textVars, telemetryVars, loopVars, contextVars>>
    \/ /\ Is("loop") /\ LoopNext
       /\ UNCHANGED <<acpVars, ideVars, agentVars, a2aVars, approvalVars, textVars, telemetryVars,
                      mcpVars, contextVars>>
    \/ /\ Is("context") /\ ContextNext
       /\ UNCHANGED <<acpVars, ideVars, agentVars, a2aVars, approvalVars, textVars, telemetryVars,
                      mcpVars, loopVars>>

\* The variables of the chosen component.
currentVars ==
    CASE component = "acp" -> acpVars
      [] component = "ide" -> ideVars
      [] component = "agent" -> agentVars
      [] component = "a2a" -> a2aVars
      [] component = "approval" -> approvalVars
      [] component = "text" -> textVars
      [] component = "telemetry" -> telemetryVars
      [] component = "mcp" -> mcpVars
      [] component = "loop" -> loopVars
      [] component = "context" -> contextVars

\* What the code does by itself; README.md says why each of it happens.  A
\* behaviour is one of a single component, so the fairness of the ith process
\* of each is one condition.
Process(i) ==
    \/ Is("acp") /\ AcpStep(i)
    \/ Is("ide") /\ IdeStep(i)
    \/ Is("a2a") /\ A2AStep(i)
    \/ Is("approval") /\ ApprovalStep(i)
    \/ Is("mcp") /\ DiscoveryStep(i)
    \/ Is("agent") /\ IF i = 1 THEN AgentMoves ELSE AgentTimers
    \/ Is("telemetry") /\ flushStep

Environment(i) ==
    \/ Is("ide") /\ \E a \in Answers : AnswerInIde(i, a)
    \/ Is("mcp") /\ McpClientStep(i)

Messages ==
    \/ Is("ide") /\ Notified
    \/ Is("a2a") /\ \E proceeds \in BOOLEAN : Answer(proceeds)

ServicesFairness ==
    /\ \A i \in 1 .. 2 : WF_currentVars(Process(i)) /\ WF_currentVars(Environment(i))
    /\ WF_currentVars(Messages)

ServicesSpec == ServicesInit /\ [][ServicesNext]_serviceVars /\ ServicesFairness

\* The type invariants of the components.
ServicesTypeOK ==
    /\ AcpTypeOK /\ DiffTypeOK /\ AgentTypeOK /\ A2ATypeOK /\ ApprovalTypeOK /\ TextTypeOK
    /\ TelemetryTypeOK /\ McpTypeOK /\ LoopTypeOK /\ ContextTypeOK
===============================================================================
