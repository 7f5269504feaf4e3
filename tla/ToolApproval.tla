------------------------------ MODULE ToolApproval ------------------------------
(***************************************************************************)
(* Whether a shell command runs unasked: the scheduler asks the policy     *)
(* engine, then the tool asks it again over the message bus, then the user *)
(* is asked (core/coreToolScheduler.ts, tools/tools.ts, confirmation-bus,  *)
(* policy/policy-engine.ts, policy/config.ts).                             *)
(*                                                                         *)
(* A check takes the first rule for the whole command and then checks each *)
(* part the command splits into; safety checkers make it wait in between,  *)
(* while the user switches the approval mode and other calls add rules.    *)
(* The tool waits for the bus at most 30 s; what comes later finds nobody. *)
(***************************************************************************)
EXTENDS Naturals, Sequences, SequencesExt

CONSTANTS Approvals,  \* tool calls that are being decided at the same time
          Programs,
          Denied,     \* programs that an administrator's rule denies
          Asked       \* bound: the commands that are asked about

VARIABLES approval,      \* approval[k]: the call, and what its tool waits for
          policyCheck,   \* policyCheck[k]: the check that runs for it
          busListeners,  \* the calls whose response handler is subscribed
          savedRules,    \* prefixes the user always allows (priority 2.95)
          approvalMode, modesUsed  \* bound: each mode is switched to once

approvalVars == <<approval, policyCheck, busListeners, savedRules, approvalMode, modesUsed>>

\* A command's program, and the commands inside it: none if it cannot be
\* parsed, itself if it is simple or a substitution is inside it.
Simple(p, redirects) == [program |-> p, redirects |-> redirects, parts |-> <<>>, kind |-> "simple"]
Commands ==
    {Simple(p, r) : p \in Programs, r \in BOOLEAN}
    \cup [program: Programs, redirects: {FALSE}, kind: {"unparsed"}, parts: {<<>>}]
    \cup [program: Programs, redirects: {FALSE}, kind: {"list", "nested"},
          parts: {<<Simple(p, r)>> : p \in Programs, r \in BOOLEAN}]

ASSUME ApprovalAssumption == /\ Approvals \subseteq Nat
                             /\ Programs # {} /\ Denied \subseteq Programs
                             /\ Asked \subseteq Commands

\* splitCommands, without the command itself.
subCommands(c) ==
    IF c.kind = "list" THEN <<Simple(c.program, FALSE)>> \o c.parts ELSE c.parts

atomic(c) == c.kind \in {"simple", "nested"}

roots(c) == {c.program} \cup {s.program : s \in ToSet(subCommands(c))}

\* What "always" saves: the programs of a command, or, when it cannot be
\* parsed, the whole of it.
prefixes(c) ==
    IF c.kind = "unparsed" THEN {[program |-> c.program, whole |-> TRUE]}
    ELSE {[program |-> p, whole |-> FALSE] : p \in roots(c)}

\* The commands that start so.  The command with a substitution continues the
\* one of its program that cannot be parsed.
startsWith(c, rule) ==
    c.program = rule.program /\ (rule.whole => c.kind \in {"unparsed", "nested"})

Decisions == {"ALLOW", "ASK_USER", "DENY"}
NoCommand == Simple(CHOOSE p \in Programs : TRUE, FALSE)
DefaultRule == [decision |-> "ASK_USER", allowRedirection |-> FALSE]
NoCheck == [at |-> "none", allowRedirection |-> FALSE, todo |-> <<>>, decision |-> "ALLOW"]

ApprovalTypeOK ==
    /\ approval \in [Approvals -> [
           at: {"new", "first", "bus", "asked", "runs", "refused"},
           command: Commands, asked: BOOLEAN, aborted: BOOLEAN]]
    /\ \A k \in Approvals :
           /\ policyCheck[k].at \in {"none", "parts", "checkers"}
           /\ policyCheck[k].allowRedirection \in BOOLEAN
           /\ policyCheck[k].decision \in Decisions
           /\ ToSet(policyCheck[k].todo) \subseteq Commands
    /\ busListeners \subseteq Approvals
    /\ savedRules \subseteq [program: Programs, whole: BOOLEAN]
    /\ approvalMode \in {"default", "yolo"} /\ approvalMode \in modesUsed

ApprovalInit ==
    /\ approval = [k \in Approvals |-> [at |-> "new", command |-> NoCommand,
                                        asked |-> FALSE, aborted |-> FALSE]]
    /\ policyCheck = [k \in Approvals |-> NoCheck]
    /\ busListeners = {} /\ savedRules = {}
    /\ approvalMode \in {"default", "yolo"} /\ modesUsed = {approvalMode}

-------------------------------------------------------------------------------
(* PolicyEngine *)

userAllows(c) == \E rule \in savedRules : startsWith(c, rule)

\* The first rule that matches: an administrator's, the user's, YOLO's, the
\* default.
matchedRule(c) ==
    IF c.program \in Denied THEN [decision |-> "DENY", allowRedirection |-> FALSE]
    ELSE IF userAllows(c) THEN [decision |-> "ALLOW", allowRedirection |-> FALSE]
    ELSE IF approvalMode = "yolo" THEN [decision |-> "ALLOW", allowRedirection |-> TRUE]
    ELSE DefaultRule

\* A command that is one part of its own, under its rule.
ownDecision(c, rule) ==
    IF rule.decision = "ALLOW" /\ c.redirects /\ ~rule.allowRedirection
      THEN "ASK_USER" ELSE rule.decision

stricter(d, e) ==
    IF "DENY" \in {d, e} THEN "DENY" ELSE IF "ASK_USER" \in {d, e} THEN "ASK_USER" ELSE "ALLOW"

wholeRule_only(c, rule) ==
    [NoCheck EXCEPT !.at = "checkers", !.decision = ownDecision(c, rule)]

\* The rule of the whole command: a command that cannot be parsed is asked
\* about whatever its rule says; the parts of the others are checked one by
\* one unless the rule denies.
wholeRule(c, rule) ==
    IF c.kind = "unparsed" THEN [NoCheck EXCEPT !.at = "checkers", !.decision = "ASK_USER"]
    ELSE IF rule.decision = "DENY" THEN [NoCheck EXCEPT !.at = "checkers", !.decision = "DENY"]
    ELSE [at |-> IF subCommands(c) = <<>> THEN "checkers" ELSE "parts",
          allowRedirection |-> rule.allowRedirection, todo |-> subCommands(c),
          decision |-> IF atomic(c) THEN ownDecision(c, rule) ELSE "ALLOW"]

startCheck(k, c) == policyCheck' = [policyCheck EXCEPT ![k] = wholeRule(c, matchedRule(c))]

\* One part: its own rule and its safety checkers, then the redirection again
\* under the rule of the whole.
partDecision(k, checker) ==
    LET check == policyCheck[k]
        part == Head(check.todo)
        own == stricter(ownDecision(part, matchedRule(part)), checker)
    IN  IF own = "ALLOW" /\ part.redirects /\ ~check.allowRedirection THEN "ASK_USER" ELSE own

CheckPart(k, checker) ==
    /\ policyCheck[k].at = "parts"
    /\ LET rest == Tail(policyCheck[k].todo)
           decision == stricter(policyCheck[k].decision, partDecision(k, checker))
       IN policyCheck' = [policyCheck EXCEPT ![k] =
              [@ EXCEPT !.todo = rest, !.decision = decision,
                        !.at = IF decision = "DENY" \/ rest = <<>> THEN "checkers" ELSE "parts"]]
    /\ UNCHANGED <<approval, busListeners, savedRules, approvalMode, modesUsed>>

\* The safety checkers of the whole command end the check.
checkedAs(k, checker) == stricter(policyCheck[k].decision, checker)

\* How the call goes on: run, refuse, or the next question.
refused(a) == [a EXCEPT !.at = "refused", !.command = NoCommand, !.aborted = FALSE]

decided(k, decision, next) ==
    approval' = [approval EXCEPT ![k] =
        CASE decision = "ALLOW" -> [@ EXCEPT !.at = "runs", !.aborted = FALSE]
          [] decision = "DENY" -> refused(@)
          [] OTHER -> IF next = "refused" THEN refused(@) ELSE [@ EXCEPT !.at = next]]

-------------------------------------------------------------------------------
(* CoreToolScheduler and the tool's invocation *)

Decide(k, c) ==
    /\ approval[k].at = "new" /\ \A j \in Approvals : j < k => approval[j].at # "new"
    /\ approval' = [approval EXCEPT ![k].at = "first", ![k].command = c]
    /\ startCheck(k, c)
    /\ UNCHANGED <<busListeners, savedRules, approvalMode, modesUsed>>

\* The first check ends.  To be asked, the tool subscribes for the response
\* and publishes its request; an aborted signal denies at once.
FirstChecked(k, checker) ==
    /\ approval[k].at = "first" /\ policyCheck[k].at = "checkers"
    /\ LET decision == checkedAs(k, checker) IN
         IF decision = "ASK_USER" /\ ~approval[k].aborted
           THEN /\ decided(k, decision, "bus")
                /\ busListeners' = busListeners \cup {k}
                /\ startCheck(k, approval[k].command)
           ELSE /\ decided(k, decision, "refused")
                /\ policyCheck' = [policyCheck EXCEPT ![k] = NoCheck]
                /\ UNCHANGED busListeners
    /\ UNCHANGED <<savedRules, approvalMode, modesUsed>>

\* The second check ends: the bus answers, or passes the request on to the
\* scheduler, which answers it at once.  Only a subscribed handler hears it.
Responds(k, checker) ==
    /\ approval[k].at # "first" /\ policyCheck[k].at = "checkers"
    /\ IF k \in busListeners THEN decided(k, checkedAs(k, checker), "asked")
                             ELSE UNCHANGED approval
    /\ busListeners' = busListeners \ {k}
    /\ policyCheck' = [policyCheck EXCEPT ![k] = NoCheck]
    /\ UNCHANGED <<savedRules, approvalMode, modesUsed>>

\* publish turns an exception into an 'error' event: no response at all.
PublishFails(k) ==
    /\ approval[k].at # "first" /\ policyCheck[k].at # "none"
    /\ policyCheck' = [policyCheck EXCEPT ![k] = NoCheck]
    /\ UNCHANGED <<approval, busListeners, savedRules, approvalMode, modesUsed>>

BusTimeout_keepsHandler(k) ==
    /\ approval[k].at = "bus"
    /\ approval' = [approval EXCEPT ![k].at = "asked"]
    /\ UNCHANGED <<policyCheck, busListeners, savedRules, approvalMode, modesUsed>>

BusTimeout_cleared(k) ==
    /\ approval[k].at = "bus" /\ policyCheck[k].at # "none"
    /\ approval' = [approval EXCEPT ![k].at = "asked"]
    /\ busListeners' = busListeners \ {k}
    /\ UNCHANGED <<policyCheck, savedRules, approvalMode, modesUsed>>

\* 30 s without a response: the user is asked.
BusTimeout(k) ==
    /\ approval[k].at = "bus"
    /\ approval' = [approval EXCEPT ![k].at = "asked"]
    /\ busListeners' = busListeners \ {k}
    /\ UNCHANGED <<policyCheck, savedRules, approvalMode, modesUsed>>

\* The signal is aborted: a tool that waits for the bus is denied.
AbortApproval(k) ==
    /\ approval[k].at \in {"first", "bus"} /\ ~approval[k].aborted
    /\ approval' = [approval EXCEPT ![k] =
                        IF @.at = "bus" THEN refused(@) ELSE [@ EXCEPT !.aborted = TRUE]]
    /\ busListeners' = busListeners \ {k}
    /\ UNCHANGED <<policyCheck, savedRules, approvalMode, modesUsed>>

\* The user's answer; "always" adds its rules before the tool runs.
AnswerApproval(k, outcome) ==
    /\ approval[k].at = "asked"
    /\ approval' = [approval EXCEPT ![k] =
                        IF outcome = "cancel" THEN refused(@)
                        ELSE [@ EXCEPT !.asked = TRUE, !.at = "runs"]]
    /\ savedRules' = IF outcome = "always" THEN savedRules \cup prefixes(approval[k].command)
                     ELSE savedRules
    /\ UNCHANGED <<policyCheck, busListeners, approvalMode, modesUsed>>

setApprovalMode(mode) ==
    /\ mode \notin modesUsed
    /\ approvalMode' = mode /\ modesUsed' = modesUsed \cup {mode}
    /\ UNCHANGED <<approval, policyCheck, busListeners, savedRules>>

ApprovalStep(k) ==
    \/ BusTimeout(k)
    \/ \E checker \in Decisions :
           CheckPart(k, checker) \/ FirstChecked(k, checker) \/ Responds(k, checker)

ApprovalNext ==
    \/ \E k \in Approvals :
         \/ ApprovalStep(k) \/ PublishFails(k) \/ AbortApproval(k)
         \/ \E c \in Asked : Decide(k, c)
         \/ \E outcome \in {"once", "always", "cancel"} : AnswerApproval(k, outcome)
    \/ \E mode \in {"default", "yolo"} : setApprovalMode(mode)

ApprovalSpec == ApprovalInit /\ [][ApprovalNext]_approvalVars

-------------------------------------------------------------------------------

\* A part is granted by a rule of the user, which never covers a redirection,
\* or by YOLO mode, if the session has been in it.
granted(c) == (userAllows(c) /\ ~c.redirects) \/ "yolo" \in modesUsed

\* A command runs unasked only if every command inside it is granted, however
\* its rules and the mode changed during the checks.  One with a denied part
\* runs only if it cannot be parsed and the user was asked: the denial of such
\* a command is no more than a question (policy-engine.ts:166, :184, :219, :244).
RunsAsGranted ==
    \A k \in Approvals :
        LET c == approval[k].command
            all == ToSet(subCommands(c)) \cup (IF atomic(c) THEN {c} ELSE {})
        IN  approval[k].at = "runs" =>
              /\ roots(c) \cap Denied # {} => c.kind = "unparsed" /\ approval[k].asked
              /\ ~approval[k].asked => c.kind # "unparsed" /\ \A s \in all : granted(s)

\* "deny: The tool call is blocked and is not executed"
\* (docs/core/policy-engine.md:82).  It is not so for a command that cannot
\* be parsed.
DenyBlocks ==
    \A k \in Approvals : approval[k].at = "runs" => approval[k].command.program \notin Denied

\* A handler is subscribed just as long as its tool waits for the bus: no way
\* out of the wait leaves it behind (tools.ts:202).
HandlersWait == busListeners = {k \in Approvals : approval[k].at = "bus"}

\* Every decision is made, although the response may be lost or come when the
\* request has timed out (message-bus.ts:130, tools.ts:239).
ApprovalsSettle == []<>(\A k \in Approvals : approval[k].at \notin {"first", "bus"})
===============================================================================
