-------------------------- MODULE CoreToolScheduler --------------------------
(***************************************************************************)
(* The tool scheduler of the core package                                  *)
(* (packages/core/src/core/coreToolScheduler.ts).                          *)
(*                                                                         *)
(* A client hands it requests, each a batch of tool calls under one abort  *)
(* signal.  The scheduler works through a batch one call at a time: policy *)
(* check, confirmation by the user (or by the IDE's diff view), execution; *)
(* and hands the finished batch to onAllToolCallsComplete.  The code is    *)
(* single threaded but asynchronous: every `await` lets the other promise  *)
(* chains run.  A chain is one activation of an entry point, identified by *)
(* its owner (see Owner), and `sch.chain` says where each is suspended.    *)
(* One action is the code a chain runs from one await to the next.         *)
(*                                                                         *)
(* The class's private fields are the fields of the record `sch`, so that  *)
(* each method is an operator from scheduler states to scheduler states    *)
(* and the calls between methods are compositions of operators.            *)
(***************************************************************************)
EXTENDS Integers, Sequences, FiniteSets, Functions

CONSTANTS
  Requests,    \* the batches the client may schedule
  Calls,       \* the tool calls they are made of
  Turns,       \* bound: the turns of the conversation, each under an abort
               \* signal of its own
  CallsOf,     \* CallsOf[r]: the calls of batch r, in order
  SignalOf,    \* SignalOf[r]: the signal r is scheduled under
  None,        \* "no call", "no signal"
  Interactive, \* config.isInteractive()
  Ide,         \* edits are also shown in the IDE, which may answer too
  SlowConfirm, \* the tool's own onConfirm may take longer than a promise chain
  Overlap,     \* the client goes on while a batch is unreported
  Abortable,   \* the signals the client may abort (A2A server, one-shot runs)
  Escapable,   \* the signals the user may abort with Escape (CLI)
  MayThrow,    \* the awaited calls that may reject: see ThrowPoints
  MaxAnswers   \* bound: how often the user answers for one call; the last
               \* answer proceeds or cancels

Signals == 1..Turns

ThrowPoints == {"handler", "confirm", "modify", "rebuild"}

ASSUME SchedulerAssumption ==
  /\ CallsOf \in [Requests -> Seq(Calls)]
  /\ Turns \in Nat
  /\ SignalOf \in [Requests -> Signals]
  /\ None \notin Calls \cup Signals
  /\ {Interactive, Ide, SlowConfirm, Overlap} \subseteq BOOLEAN
  /\ Abortable \subseteq Signals /\ Escapable \subseteq Signals
  /\ MayThrow \subseteq ThrowPoints
  /\ MaxAnswers \in Nat

(* A call id belongs to one request and occurs in it once.                 *)
ASSUME DistinctCalls ==
  \A r1, r2 \in Requests :
    \A i \in DOMAIN CallsOf[r1], j \in DOMAIN CallsOf[r2] :
      CallsOf[r1][i] = CallsOf[r2][j] => r1 = r2 /\ i = j

(* Clients schedule only when the model asked for a tool.                  *)
ASSUME NonemptyBatches == \A r \in Requests : CallsOf[r] # <<>>

CallSet(r) == Range(CallsOf[r])

(* The elements of the sequence q that are in S, in their order (SelectSeq *)
(* in a form the provers can expand).                                      *)
Keep(q, S) ==
  LET kept == {i \in DOMAIN q : q[i] \in S}
      at(n) == CHOOSE i \in kept : Cardinality(kept \cap (1..i)) = n
  IN [n \in 1..Cardinality(kept) |-> q[at(n)]]

------------------------------------------------------------------------------
(* The states a tool call goes through (scheduler/types.ts); "none" before *)
(* it is scheduled.                                                        *)
Terminal == {"success", "error", "cancelled"}
Status == Terminal \cup
  {"none", "validating", "scheduled", "awaiting_approval", "executing"}

Outcomes == {"ProceedOnce", "ProceedInline", "ModifyWithEditor", "Cancel"}

(* The chains: a schedule() call, handleConfirmationResponse() called by   *)
(* the user interface or by the IDE, cancelAll() called by the client.     *)
Answerer == [kind : {"user", "ide"}, of : Calls]
Owner == [kind : {"schedule"}, of : Requests]
    \cup Answerer
    \cup [kind : {"cancel"}, of : Signals]

ScheduleChain(r) == [kind |-> "schedule", of |-> r]

(* Where a chain waits: for the policy check and the confirmation details  *)
(* ("validating"), for the tool's own onConfirm ("confirming"), for the    *)
(* editor or the inline change ("editing", "inlining"), for the tool       *)
(* ("executing"), for onAllToolCallsComplete ("finalizing"); or it only    *)
(* has the returns of its nested awaits left ("unwinding").                *)
ForACall == {"validating", "confirming", "editing", "inlining", "executing"}
ForNoCall == {"idle", "finalizing", "unwinding"}

Waiting(p, c, s, o) == [at |-> p, call |-> c, signal |-> s, outcome |-> o]
Wait == [at : ForACall, call : Calls, signal : Signals, outcome : Outcomes \cup {None}]
   \cup [at : ForNoCall, call : {None}, signal : Signals \cup {None}, outcome : {None}]
Idle == Waiting("idle", None, None, None)

(* What a chain of this owner is left with when its last call returns: a   *)
(* schedule() chain still has to run the `finally` of _schedule.           *)
Returned(o) ==
  IF o.kind = "schedule" THEN Waiting("unwinding", None, None, None) ELSE Idle

------------------------------------------------------------------------------
VARIABLES
  sch,       \* the scheduler: its fields, its suspended chains, its reports
  turn,      \* the client's turn; its signal is the one Escape aborts
  sent,      \* the requests passed to schedule(), in order
  rejected,  \* the requests whose schedule() promise was rejected
  args,      \* args[c]: how often the arguments of c were replaced
  approved,  \* the pairs <<call, args>> that were allowed to run
  started,   \* started[c]: the arguments of each execution started for c
  answers    \* answers[o]: how often the user (or the IDE) has answered

vars == <<sch, turn, sent, rejected, args, approved, started, answers>>

Scheduler ==
  [active : Calls \cup {None},           \* toolCalls (at most one element)
   status : [Calls -> Status],
   toolCallQueue : Seq(Calls),
   completed : Seq(Calls),               \* completedToolCallsForBatch
   requestQueue : Seq(Requests),
   isFinalizing : BOOLEAN,
   isScheduling : BOOLEAN,
   isCancelling : BOOLEAN,
   aborted : SUBSET Signals,             \* the signals that were aborted
   prompted : [Calls -> Signals \cup {None}],  \* signal captured by onConfirm
   chain : [Owner -> Wait],
   reports : Seq(Seq(Calls))]            \* arguments of onAllToolCallsComplete

TypeOK ==
  /\ sch \in Scheduler
  /\ turn \in 0..Turns
  /\ sent \in Seq(Requests)
  /\ rejected \subseteq Requests
  /\ args \in [Calls -> Nat]
  /\ approved \subseteq Calls \X Nat
  /\ started \in [Calls -> Seq(Nat)]
  /\ answers \in [Answerer -> Nat]

Init ==
  /\ sch = [active |-> None, status |-> [c \in Calls |-> "none"],
            toolCallQueue |-> <<>>, completed |-> <<>>, requestQueue |-> <<>>,
            isFinalizing |-> FALSE, isScheduling |-> FALSE,
            isCancelling |-> FALSE, aborted |-> {}, prompted |-> [c \in Calls |-> None],
            chain |-> [o \in Owner |-> Idle], reports |-> <<>>]
  /\ turn = 0 /\ sent = <<>> /\ rejected = {}
  /\ args = [c \in Calls |-> 0]
  /\ approved = {}
  /\ started = [c \in Calls |-> <<>>]
  /\ answers = [o \in Answerer |-> 0]

------------------------------------------------------------------------------
(* The methods.  `s` is a scheduler state, `o` the chain that runs, `sig`  *)
(* the signal it was given.                                                *)

Return(s, o) == [s EXCEPT !.chain[o] = Returned(o)]
Suspend(s, o, p, c, sig) == [s EXCEPT !.chain[o] = Waiting(p, c, sig, None)]

Live(s, c) == c # None /\ s.active = c /\ s.status[c] \notin Terminal

setStatusInternal(s, c, new) ==
  IF Live(s, c) THEN [s EXCEPT !.status[c] = new] ELSE s

isRunning(s) ==
  \/ s.isFinalizing
  \/ s.active # None /\ s.status[s.active] \in {"executing", "awaiting_approval"}

(* Mutant: calls that failed to build are skipped, not reported.           *)
cancelAllQueuedCalls_loses(s) ==
  [s EXCEPT
     !.completed = @ \o SelectSeq(s.toolCallQueue, LAMBDA c : s.status[c] # "error"),
     !.toolCallQueue = <<>>,
     !.status = [c \in Calls |->
                   IF c \in Range(s.toolCallQueue) /\ @[c] # "error"
                   THEN "cancelled" ELSE @[c]]]

(* Mutant: calls that failed to build are cancelled like the others.       *)
cancelAllQueuedCalls_overwrites(s) ==
  [s EXCEPT
     !.completed = @ \o s.toolCallQueue,
     !.toolCallQueue = <<>>,
     !.status = [c \in Calls |->
                   IF c \in Range(s.toolCallQueue) THEN "cancelled" ELSE @[c]]]

(* _cancelAllQueuedCalls: calls that failed to build keep their error.     *)
cancelAllQueuedCalls(s) ==
  [s EXCEPT
     !.completed = @ \o s.toolCallQueue,
     !.toolCallQueue = <<>>,
     !.status = [c \in Calls |->
                   IF c \in Range(s.toolCallQueue) /\ @[c] # "error"
                   THEN "cancelled" ELSE @[c]]]

(* Mutant: hands over the (now empty) active slot instead of the batch.    *)
deliver_active(s, o, sig) ==
  [s EXCEPT !.isFinalizing = TRUE,
            !.reports = Append(@, s.active),
            !.chain[o] = Waiting("finalizing", None, sig, None)]

(* The part of checkAndNotifyCompletion that calls the client's handler    *)
(* and awaits it.                                                          *)
deliver(s, o, sig) ==
  [s EXCEPT !.isFinalizing = TRUE,
            !.reports = Append(@, s.completed),
            !.chain[o] = Waiting("finalizing", None, sig, None)]

(* The queued calls that already failed to build go straight to completed, *)
(* up to the first that did not fail: checkAndNotifyCompletion and         *)
(* _processNextInQueue call each other once per such call, without an      *)
(* await between them.                                                     *)
failed(s) ==
  CHOOSE n \in 0..Len(s.toolCallQueue) :
    /\ \A i \in 1..n : s.status[s.toolCallQueue[i]] = "error"
    /\ n < Len(s.toolCallQueue) => s.status[s.toolCallQueue[n + 1]] # "error"
skipFailed(s) ==
  [s EXCEPT !.completed = @ \o SubSeq(s.toolCallQueue, 1, failed(s)),
            !.toolCallQueue = SubSeq(@, failed(s) + 1, Len(@))]
takeNext(s) == [s EXCEPT !.active = Head(s.toolCallQueue), !.toolCallQueue = Tail(@)]

(* Mutant: the rest of the batch is cancelled once a call of it failed.    *)
advance_stopsOnError(s, o, sig) ==
  IF sig \in s.aborted \/ \E c \in Range(s.completed) : s.status[c] = "error"
  THEN deliver(cancelAllQueuedCalls(s), o, sig)
  ELSE IF s.toolCallQueue # <<>>
  THEN Suspend(takeNext(s), o, "validating", Head(s.toolCallQueue), sig)
  ELSE IF s.completed = <<>> THEN Return(s, o) ELSE deliver(s, o, sig)

(* What follows when the slot is empty.                                    *)
advance(s, o, sig) ==
  IF sig \in s.aborted THEN deliver(cancelAllQueuedCalls(s), o, sig)
  ELSE LET t == skipFailed(s)
       IN IF t.toolCallQueue # <<>>
          THEN Suspend(takeNext(t), o, "validating", Head(t.toolCallQueue), sig)
          ELSE IF t.completed = <<>> THEN Return(t, o)
          ELSE deliver(t, o, sig)

checkAndNotifyCompletion(s, o, sig) ==
  IF s.active = None THEN advance(s, o, sig)
  ELSE IF s.status[s.active] \notin Terminal THEN Return(s, o)
  ELSE advance([s EXCEPT !.completed = Append(@, s.active), !.active = None], o, sig)

(* Mutant: cancels what is queued and forgets the active call.             *)
cancelAll_queueOnly(s, o, sig) ==
  IF s.isCancelling THEN Return(s, o)
  ELSE checkAndNotifyCompletion(
         cancelAllQueuedCalls([s EXCEPT !.isCancelling = TRUE]), o, sig)

(* cancelAll: the guard, the active call, the queue, the completion check. *)
cancelAll(s, o, sig) ==
  IF s.isCancelling THEN Return(s, o)
  ELSE checkAndNotifyCompletion(
         cancelAllQueuedCalls(
           setStatusInternal([s EXCEPT !.isCancelling = TRUE], s.active, "cancelled")),
         o, sig)

(* attemptExecutionOfScheduledCalls up to the tool's own await.  A call is *)
(* "scheduled" only inside one step, so no state of the model shows it.    *)
attemptExecution(s, o, sig) ==
  IF s.active # None /\ s.status[s.active] = "scheduled"
  THEN Suspend([s EXCEPT !.status[s.active] = "executing"], o, "executing", s.active, sig)
  ELSE Return(s, o)

(* setStatusInternal(c, 'scheduled') followed by the attempt to run it;    *)
(* Starts says whether that starts the tool.                               *)
Starts(s, c) == Live(s, c)
scheduleAndRun(s, o, c, sig) ==
  attemptExecution(setStatusInternal(s, c, "scheduled"), o, sig)

(* _schedule: `bad` are the calls whose tool is unknown or whose           *)
(* invocation cannot be built.  It throws while the scheduler is running.  *)
enqueueCalls(s, r, bad) ==
  [s EXCEPT !.isCancelling = FALSE, !.isScheduling = TRUE,
            !.completed = <<>>,
            !.toolCallQueue = @ \o CallsOf[r],
            !.status = [c \in Calls |->
                          IF c \notin CallSet(r) THEN @[c]
                          ELSE IF c \in bad THEN "error" ELSE "validating"]]
schedule(s, r, bad) ==
  IF isRunning(s) THEN [s EXCEPT !.isCancelling = FALSE, !.isScheduling = FALSE]
  ELSE LET t == enqueueCalls(s, r, bad)
       IN IF t.active # None THEN Return(t, ScheduleChain(r))
          ELSE advance(t, ScheduleChain(r), SignalOf[r])

------------------------------------------------------------------------------
(* What the client and the user do.  These come from the event loop, which *)
(* runs them only when no promise chain is left unwinding.                 *)
Drained ==
  \A o \in Owner : /\ sch.chain[o].at # "unwinding"
                   /\ sch.chain[o].at = "confirming" => SlowConfirm

Reported(c) == \E i \in DOMAIN sch.reports : c \in Range(sch.reports[i])
Settled(r) == r \in rejected \/ \A c \in CallSet(r) : Reported(c)

(* Without Overlap the client is the CLI, the A2A server or the            *)
(* non-interactive runner: it goes on, at the earliest, from the handler   *)
(* that received the previous batch.                                       *)
Ready == Drained /\ (Overlap \/ \A p \in Range(sent) : Settled(p))

(* submitQuery: a prompt or the results of a batch go to the model, under  *)
(* a new AbortController.                                                  *)
NewTurn ==
  /\ Ready
  /\ turn < Turns
  /\ turn' = turn + 1
  /\ UNCHANGED <<sch, sent, rejected, args, approved, started, answers>>

Schedule(r) ==
  /\ Ready
  /\ r \notin Range(sent)
  /\ SignalOf[r] = turn
  /\ sent' = Append(sent, r)
  /\ \/ /\ isRunning(sch) \/ sch.isScheduling
        /\ sch' = [sch EXCEPT !.requestQueue = Append(@, r)]
     \/ /\ ~isRunning(sch) /\ ~sch.isScheduling
        /\ \E bad \in SUBSET CallSet(r) : sch' = schedule(sch, r, bad)
  /\ UNCHANGED <<turn, rejected, args, approved, started, answers>>

(* The abort listeners of queued requests take them out of the queue and   *)
(* reject their promises.  (A request queued under a signal that is        *)
(* already aborted has a listener that never fires.)                       *)
dropAborted(s, sig) ==
  [s EXCEPT !.requestQueue = Keep(@, {r \in Requests : SignalOf[r] # sig})]
dropped(s, sig) == {r \in Range(s.requestQueue) : SignalOf[r] = sig}

(* Mutant: the client calls cancelAll without aborting the signal first.   *)
abort_keepsSignal(s, sig) == dropAborted(s, sig)

abort(s, sig) == dropAborted([s EXCEPT !.aborted = @ \cup {sig}], sig)

Abort(sig) ==
  /\ Drained
  /\ sig \in Abortable \ sch.aborted
  /\ rejected' = rejected \cup dropped(sch, sig)
  /\ sch' = abort(sch, sig)
  /\ UNCHANGED <<turn, sent, args, approved, started, answers>>

(* The user presses Escape: the client aborts the turn's signal and calls  *)
(* cancelAll(signal) in the next statement.                                *)
Escape(sig) ==
  /\ Drained
  /\ sig = turn
  /\ sig \in Escapable \ sch.aborted
  /\ rejected' = rejected \cup dropped(sch, sig)
  /\ sch' = cancelAll(abort(sch, sig), [kind |-> "cancel", of |-> sig], sig)
  /\ UNCHANGED <<turn, sent, args, approved, started, answers>>

------------------------------------------------------------------------------
(* The chains.                                                             *)

Now(o, place) == sch.chain[o].at = place

(* _processNextInQueue after the policy check, shouldConfirmExecute and    *)
(* the notification hook, whose three awaits are one here because nothing  *)
(* is written between them.                                                *)
PolicyAllows(o) ==     \* ALLOW, or ASK_USER and no confirmation is needed
  /\ Now(o, "validating")
  /\ LET c == sch.chain[o].call
         sig == sch.chain[o].signal
     IN /\ sch' = scheduleAndRun(sch, o, c, sig)
        /\ approved' = approved \cup {<<c, args[c]>>}
        /\ started' = IF Starts(sch, c) THEN [started EXCEPT ![c] = Append(@, args[c])]
                      ELSE started
  /\ UNCHANGED <<turn, sent, rejected, args, answers>>

PolicyDenies(o) ==
  /\ Now(o, "validating")
  /\ sch' = checkAndNotifyCompletion(
               setStatusInternal(sch, sch.chain[o].call, "error"), o, sch.chain[o].signal)
  /\ UNCHANGED <<turn, sent, rejected, args, approved, started, answers>>

(* The dialog gets its onConfirm with the status, the IDE in any case.     *)
PolicyAsks(o) ==
  /\ Now(o, "validating")
  /\ Interactive
  /\ LET c == sch.chain[o].call
         sig == sch.chain[o].signal
         asked == IF Live(sch, c) \/ Ide THEN [sch EXCEPT !.prompted[c] = sig] ELSE sch
     IN sch' = attemptExecution(setStatusInternal(asked, c, "awaiting_approval"), o, sig)
  /\ UNCHANGED <<turn, sent, rejected, args, approved, started, answers>>

(* Mutant: the failure is recorded, the completion check forgotten.        *)
ValidationFails_noCheck(o) ==
  /\ Now(o, "validating")
  /\ sch' = Return(setStatusInternal(sch, sch.chain[o].call, "error"), o)
  /\ UNCHANGED <<turn, sent, rejected, args, approved, started, answers>>

(* An await rejected, or nobody is there to be asked.  After the check,    *)
(* attemptExecutionOfScheduledCalls finds no scheduled call.               *)
ValidationFails(o) ==
  /\ Now(o, "validating")
  /\ LET sig == sch.chain[o].signal
     IN sch' = checkAndNotifyCompletion(
                 setStatusInternal(sch, sch.chain[o].call,
                                   IF sig \in sch.aborted THEN "cancelled" ELSE "error"),
                 o, sig)
  /\ UNCHANGED <<turn, sent, rejected, args, approved, started, answers>>

(* ToolExecutor.execute returns.  The result replaces the call in the slot *)
(* whatever its status is; a call that left the slot is not found.  The    *)
(* signal may be aborted after it was checked, while a long output is      *)
(* written to a file: the call is then a success.                          *)
Executed(o, result) ==
  /\ Now(o, "executing")
  /\ LET c == sch.chain[o].call
         sig == sch.chain[o].signal
     IN /\ result \in (IF sig \in sch.aborted THEN {"cancelled", "success"}
                       ELSE {"success", "error"})
        /\ sch' = checkAndNotifyCompletion(
                    IF sch.active = c THEN [sch EXCEPT !.status[c] = result] ELSE sch, o, sig)
  /\ UNCHANGED <<turn, sent, rejected, args, approved, started, answers>>

(* Mutant: the queued requests are not looked at.                          *)
HandlerReturns_dropsQueue(o) ==
  /\ Now(o, "finalizing")
  /\ sch' = Return([sch EXCEPT !.completed = <<>>, !.isFinalizing = FALSE,
                               !.isCancelling = FALSE], o)
  /\ UNCHANGED <<turn, sent, rejected, args, approved, started, answers>>

(* Mutant: isFinalizingToolCalls is reset after the next request is taken. *)
HandlerReturns_flagLate(o) ==
  /\ Now(o, "finalizing")
  /\ LET s == Return([sch EXCEPT !.completed = <<>>, !.isCancelling = FALSE], o)
     IN IF s.requestQueue = <<>>
        THEN sch' = [s EXCEPT !.isFinalizing = FALSE] /\ UNCHANGED rejected
        ELSE LET r == Head(s.requestQueue)
             IN /\ sch' = [schedule([s EXCEPT !.requestQueue = Tail(@)], r, {})
                             EXCEPT !.isFinalizing = FALSE]
                /\ rejected' = IF isRunning(s) THEN rejected \cup {r} ELSE rejected
  /\ UNCHANGED <<turn, sent, args, approved, started, answers>>

(* onAllToolCallsComplete returns: the batch is cleared and the next       *)
(* queued request is scheduled, in a chain of its own.                     *)
HandlerReturns(o) ==
  /\ Now(o, "finalizing")
  /\ LET s == Return([sch EXCEPT !.completed = <<>>, !.isFinalizing = FALSE,
                                 !.isCancelling = FALSE], o)
     IN \/ /\ s.requestQueue = <<>>
           /\ sch' = s
           /\ UNCHANGED rejected
        \/ /\ s.requestQueue # <<>>
           /\ LET r == Head(s.requestQueue)
              IN /\ \E bad \in SUBSET CallSet(r) :
                      sch' = schedule([s EXCEPT !.requestQueue = Tail(@)], r, bad)
                 /\ rejected' = IF isRunning(s) THEN rejected \cup {r} ELSE rejected
  /\ UNCHANGED <<turn, sent, args, approved, started, answers>>

(* It rejects instead: nothing after the await runs.  A denied call awaits *)
(* the check inside the try: there the rejection is caught and the check   *)
(* calls the handler again, with the same batch and in the state that this *)
(* one left.  The chain then still finalizes, so only the rejection that   *)
(* nothing catches any more is a step.                                     *)
HandlerThrows(o) ==
  /\ "handler" \in MayThrow
  /\ Now(o, "finalizing")
  /\ sch' = Return(sch, o)
  /\ UNCHANGED <<turn, sent, rejected, args, approved, started, answers>>

(* The `finally` of _schedule.                                             *)
Unwind(o) ==
  /\ Now(o, "unwinding")
  /\ sch' = [sch EXCEPT !.isScheduling = FALSE, !.chain[o] = Idle]
  /\ UNCHANGED <<turn, sent, rejected, args, approved, started, answers>>

------------------------------------------------------------------------------
(* handleConfirmationResponse after the tool's onConfirm: `found` says     *)
(* whether the call was awaiting approval when the response arrived.       *)
respond(s, o, c, outcome, sig, found) ==
  IF outcome = "Cancel" \/ sig \in s.aborted THEN {cancelAll(s, o, sig)}
  ELSE IF outcome = "ModifyWithEditor"
  THEN {Return(s, o)}                            \* no editor is configured
       \cup IF found THEN {Suspend(setStatusInternal(s, c, "awaiting_approval"),
                                   o, "editing", c, sig)}
            ELSE {}
  ELSE IF outcome = "ProceedInline" /\ found THEN {Suspend(s, o, "inlining", c, sig)}
  ELSE {scheduleAndRun(s, o, c, sig)}

(* The tool is started by this response.                                   *)
RunsNow(s, c, outcome, sig, found) ==
  /\ outcome # "Cancel" /\ sig \notin s.aborted
  /\ outcome = "ProceedOnce" \/ (outcome = "ProceedInline" /\ ~found)
  /\ Starts(s, c)

(* A response arrives.  Proceeding approves the arguments that were shown: *)
(* the current ones on the screen, the original ones in the IDE's diff.    *)
Respond(o, outcome) ==
  LET c == o.of
      sig == sch.prompted[c]
      found == sch.active = c /\ sch.status[c] = "awaiting_approval"
  IN /\ sch.chain[o] = Idle
     /\ sig # None
     /\ answers' = [answers EXCEPT ![o] = @ + 1]
     /\ approved' = IF outcome # "ProceedOnce" THEN approved
                    ELSE approved \cup {<<c, IF o.kind = "ide" THEN 0 ELSE args[c]>>}
     /\ \/ /\ found
           /\ sch' = [sch EXCEPT !.chain[o] = Waiting("confirming", c, sig, outcome)]
           /\ UNCHANGED started
        \/ /\ ~found
           /\ sch' \in respond(sch, o, c, outcome, sig, FALSE)
           /\ started' = IF RunsNow(sch, c, outcome, sig, FALSE)
                         THEN [started EXCEPT ![c] = Append(@, args[c])] ELSE started
     /\ UNCHANGED <<turn, sent, rejected, args>>

(* The user answers what the screen shows.  Until the next turn the screen *)
(* may be stale after Escape, which is the dialog's Cancel as well; the    *)
(* A2A server forgets a call's details with its last answer.               *)
(* With an IDE the dialog first awaits that the diff is closed, which may  *)
(* answer before it (IdeResponds), or not at all.                          *)
UserResponds(o, outcome) ==
  /\ o.kind = "user"
  /\ Drained
  /\ answers[o] < MaxAnswers
  /\ answers[o] + 1 = MaxAnswers => outcome \in {"ProceedOnce", "Cancel"}
  /\ \/ sch.active = o.of /\ sch.status[o.of] = "awaiting_approval"
     \/ outcome = "Cancel" /\ sch.prompted[o.of] = turn /\ turn \in sch.aborted \cap Escapable
  /\ Respond(o, outcome)

(* The promise ideConfirmation resolves once, when the user closes the     *)
(* diff in the IDE or answers in the terminal (which closes the diff too). *)
IdeResponds(o, outcome) ==
  /\ Ide
  /\ o.kind = "ide"
  /\ Drained
  /\ answers[o] = 0
  /\ outcome \in {"ProceedOnce", "Cancel"}
  /\ Respond(o, outcome)

(* The tool's onConfirm returns, or rejects: then nothing else happens and *)
(* the call still awaits approval.                                         *)
Confirmed(o) ==
  /\ Now(o, "confirming")
  /\ LET w == sch.chain[o]
     IN /\ sch' \in respond(sch, o, w.call, w.outcome, w.signal, TRUE)
        /\ started' = IF RunsNow(sch, w.call, w.outcome, w.signal, TRUE)
                      THEN [started EXCEPT ![w.call] = Append(@, args[w.call])]
                      ELSE started
  /\ UNCHANGED <<turn, sent, rejected, args, approved, answers>>

ConfirmThrows(o) ==
  /\ "confirm" \in MayThrow
  /\ Now(o, "confirming")
  /\ answers[o] < MaxAnswers       \* bound: the last answer gets through
  /\ sch' = Return(sch, o)
  /\ UNCHANGED <<turn, sent, rejected, args, approved, started, answers>>

(* setArgsInternal and the return to awaiting_approval.  If the invocation *)
(* cannot be rebuilt, the call in the slot becomes an error.               *)
setArgs(s, c, built) ==
  IF built \/ s.active # c \/ s.status[c] = "error" THEN s
  ELSE [s EXCEPT !.status[c] = "error"]

(* Mutant: a modified call runs without being confirmed again.             *)
Modified_runsAtOnce(o, built) ==
  /\ sch.chain[o].at \in {"editing", "inlining"}
  /\ LET c == sch.chain[o].call
     IN /\ sch' = scheduleAndRun(sch, o, c, sch.chain[o].signal)
        /\ args' = [args EXCEPT ![c] = @ + 1]
        /\ started' = IF Starts(sch, c) THEN [started EXCEPT ![c] = Append(@, args[c] + 1)]
                      ELSE started
  /\ UNCHANGED <<turn, sent, rejected, approved, answers>>

Modified(o, built) ==
  /\ sch.chain[o].at \in {"editing", "inlining"}
  /\ built \/ "rebuild" \in MayThrow
  /\ LET c == sch.chain[o].call
         sig == sch.chain[o].signal
     IN /\ sch' = attemptExecution(
                    setStatusInternal(setArgs(sch, c, built), c, "awaiting_approval"), o, sig)
        /\ args' = IF sch.active = c /\ sch.status[c] # "error"
                   THEN [args EXCEPT ![c] = @ + 1] ELSE args
  /\ UNCHANGED <<turn, sent, rejected, approved, started, answers>>

(* The editor has nothing to give: the tool is not modifiable.             *)
NotEdited(o) ==
  /\ Now(o, "editing")
  /\ LET w == sch.chain[o]
     IN sch' = attemptExecution(
                 setStatusInternal(sch, w.call, "awaiting_approval"), o, w.signal)
  /\ UNCHANGED <<turn, sent, rejected, args, approved, started, answers>>

(* The inline change does not apply: the response counts as "proceed".     *)
NotInlined(o) ==
  /\ Now(o, "inlining")
  /\ LET w == sch.chain[o]
     IN /\ sch' = scheduleAndRun(sch, o, w.call, w.signal)
        /\ approved' = approved \cup {<<w.call, args[w.call]>>}
        /\ started' = IF Starts(sch, w.call)
                      THEN [started EXCEPT ![w.call] = Append(@, args[w.call])]
                      ELSE started
  /\ UNCHANGED <<turn, sent, rejected, args, answers>>

ModifyThrows(o) ==
  /\ "modify" \in MayThrow
  /\ sch.chain[o].at \in {"editing", "inlining"}
  /\ sch' = Return(sch, o)
  /\ UNCHANGED <<turn, sent, rejected, args, approved, started, answers>>

------------------------------------------------------------------------------
(* One step of chain o after an await.                                     *)
Resume(o) ==
  \/ PolicyAllows(o) \/ PolicyDenies(o) \/ PolicyAsks(o) \/ ValidationFails(o)
  \/ \E result \in Terminal : Executed(o, result)
  \/ HandlerReturns(o) \/ HandlerThrows(o) \/ Unwind(o)
  \/ Confirmed(o) \/ ConfirmThrows(o)
  \/ \E built \in BOOLEAN : Modified(o, built)
  \/ NotEdited(o) \/ NotInlined(o) \/ ModifyThrows(o)

Next ==
  \/ NewTurn
  \/ \E r \in Requests : Schedule(r)
  \/ \E sig \in Signals : Abort(sig) \/ Escape(sig)
  \/ \E o \in Answerer, outcome \in Outcomes :
       UserResponds(o, outcome) \/ IdeResponds(o, outcome)
  \/ \E o \in Owner : Resume(o)

Spec == Init /\ [][Next]_vars

(* Every promise the scheduler awaits settles, so every suspended chain is *)
(* resumed, and the user answers a call that awaits approval.  The client  *)
(* need not go on, schedule, abort or press Escape.                        *)
Fairness ==
  /\ \A o \in Owner : WF_vars(Resume(o))
  /\ \A o \in Answerer : WF_vars(\E outcome \in Outcomes : UserResponds(o, outcome))

FairSpec == Spec /\ Fairness

------------------------------------------------------------------------------
(* Properties.                                                             *)

(* A call that succeeded, failed or was cancelled keeps that result: no    *)
(* answer, result or modification that arrives late overwrites it          *)
(* (setStatusInternal and the replacement after toolExecutor.execute).     *)
TerminalStays ==
  [][\A c \in Calls : sch.status[c] \in Terminal => sch'.status[c] = sch.status[c]]_vars

(* Tools run one at a time: of the executions that were not aborted at     *)
(* most one is in progress, whatever responses arrive for the calls.       *)
RunningTools == {o \in Owner : Now(o, "executing") /\ sch.chain[o].signal \notin sch.aborted}
OneToolAtATime == Cardinality(RunningTools) <= 1

(* A tool runs only with arguments that policy or the user approved: a     *)
(* modification made after the approval, or a late answer, never changes   *)
(* what runs.                                                              *)
RunsWhatWasApproved ==
  \A c \in Calls : \A i \in DOMAIN started[c] : <<c, started[c][i]>> \in approved

(* A call is cancelled only when its own turn is aborted or the user       *)
(* answers Cancel to a call of its batch: a late answer to a call of an    *)
(* earlier turn (whose cancelAll takes whatever is active and queued) must *)
(* not cancel the calls of this one.  The exception is a batch whose       *)
(* active call could not be rebuilt: its error stays in the slot until     *)
(* some chain calls checkAndNotifyCompletion, and if that is the tool of   *)
(* an earlier, aborted turn, its signal cancels the rest of the batch.     *)
Cancels(c) == sch.status[c] # "cancelled" /\ sch'.status[c] = "cancelled"
Answered(o) == sch.chain[o].outcome = "Cancel" \/ answers'[o] # answers[o]
FailedRebuild == sch.active # None /\ sch.status[sch.active] = "error"
CancelsOwnBatch ==
  [][\A r \in Requests : \A c \in CallSet(r) :
       Cancels(c) /\ SignalOf[r] \notin sch'.aborted
         => FailedRebuild \/ \E o \in Answerer : o.of \in CallSet(r) /\ Answered(o)]_vars

(* No tool is started for a call whose signal is aborted: once the user    *)
(* has pressed Escape, a policy check, confirmation or editor that returns *)
(* late must not run the tool.                                             *)
NothingStartsAfterAbort ==
  [][\A o \in Owner : sch'.chain[o].at = "executing" /\ ~Now(o, "executing")
       => sch'.chain[o].signal \notin sch'.aborted]_vars

(* When no chain is suspended the scheduler is idle or waits for the user: *)
(* no flag is left set and no batch, call or queued request is stranded.   *)
Quiet == \A o \in Owner : Now(o, "idle")
NothingStranded ==
  Quiet =>
    /\ ~sch.isFinalizing /\ ~sch.isScheduling
    /\ \/ sch.active # None /\ sch.status[sch.active] = "awaiting_approval"
       \/ /\ sch.active = None /\ sch.toolCallQueue = <<>>
          /\ sch.completed = <<>> /\ sch.requestQueue = <<>>

(* The promise of a queued request is rejected only because its signal was *)
(* aborted, never because the scheduler is still busy when it takes it.    *)
RejectedMeansAborted == \A r \in rejected : SignalOf[r] \in sch.aborted

(* Every request is delivered in the end, or rejected.                     *)
EveryRequestSettles == \A r \in Requests : r \in Range(sent) ~> Settled(r)

(* The scheduler delivers whole batches, once each, in the order of the    *)
(* requests: it implements ToolBatches.                                    *)
RequestOf(batch) == CHOOSE r \in Requests : Range(batch) \cap CallSet(r) # {}
pendingBatches == Keep(sent, {r \in Requests : ~Settled(r)})
deliveredBatches ==
  [i \in DOMAIN sch.reports |->
     [request |-> RequestOf(sch.reports[i]),
      result |-> [c \in Range(sch.reports[i]) |-> sch.status[c]]]]
Batches == INSTANCE ToolBatches WITH
  pending <- pendingBatches, delivered <- deliveredBatches
DeliversBatches == Batches!Spec
DeliversBatchesFairly == Batches!FairSpec

==============================================================================
